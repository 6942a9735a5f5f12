------------------------------ MODULE MsgQueue ------------------------------
(***************************************************************************)
(* What one direction of the shared-memory IPC promises its two users: a   *)
(* lossless FIFO of whole messages, numbered from 0 by the producer, that  *)
(* is emptied only when Linux lays the rings out again for a new boot of   *)
(* Core 1.  IpcRing.tla is shown to implement this specification.          *)
(***************************************************************************)
EXTENDS Naturals, Sequences

CONSTANT Messages  \* the messages a producer may queue

VARIABLES
  sent,   \* messages queued since the last layout: the next sequence number
  queue,  \* messages queued and not yet taken, oldest first
  out     \* the message the consumer took last, or NoMessage

vars == <<sent, queue, out>>

NoMessage == [none |-> TRUE]

Init == sent = 0 /\ queue = <<>> /\ out = NoMessage

Send(m) ==
  /\ queue' = Append(queue, [seq |-> sent, msg |-> m])
  /\ sent' = sent + 1
  /\ UNCHANGED out

Receive ==
  /\ queue # <<>>
  /\ out' = Head(queue)
  /\ queue' = Tail(queue)
  /\ UNCHANGED sent

Clear ==
  /\ queue' = <<>>
  /\ sent' = 0
  /\ UNCHANGED out

Next == (\E m \in Messages : Send(m)) \/ Receive \/ Clear

Spec == Init /\ [][Next]_vars
=============================================================================
