----------------------------- MODULE PacketLink -----------------------------
(***************************************************************************)
(* What the transfer frames promise the users of a virtual channel: whole  *)
(* packets in the order they were queued, none twice; a loss on the link   *)
(* costs the oldest packets on their way and no other.  TmFrame.tla is     *)
(* shown to implement this specification.                                  *)
(***************************************************************************)
EXTENDS Naturals, Sequences

CONSTANTS Channels, Packets

VARIABLES
  sent,  \* per channel: packets queued, not yet handed over and not hit
  out    \* what the last step handed over: pairs of channel and packet

vars == <<sent, out>>

Init == sent = [c \in Channels |-> <<>>] /\ out = <<>>

Send(c, p) ==
  /\ sent' = [sent EXCEPT ![c] = Append(@, p)]
  /\ out' = <<>>

Lose(c, n) ==
  /\ n <= Len(sent[c])
  /\ sent' = [sent EXCEPT ![c] = SubSeq(@, n + 1, Len(@))]
  /\ out' = <<>>

HandOver(c, n) ==
  /\ n <= Len(sent[c])
  /\ out' = [i \in 1 .. n |-> <<c, sent[c][i]>>]
  /\ sent' = [sent EXCEPT ![c] = SubSeq(@, n + 1, Len(@))]

Next ==
  \E c \in Channels :
    \/ \E p \in Packets : Send(c, p)
    \/ \E n \in 0 .. Len(sent[c]) : Lose(c, n) \/ HandOver(c, n)

Spec == Init /\ [][Next]_vars
=============================================================================
