----------------------------- MODULE MCPayloadCtl ------------------------------
(***************************************************************************)
(* Small instance of PayloadCtl: two stations, two values of each setting, *)
(* good and bad requests of every kind.                                    *)
(***************************************************************************)
EXTENDS PayloadCtl

MCModcods == 0 .. 1

MCOptions == {[modcod |-> 1, loopback |-> "software", acm |-> TRUE],
              [modcod |-> 0, loopback |-> "analog", acm |-> FALSE]}

Anyone == Permutations(Stations)

Request(f, arg) == [f |-> f, arg |-> arg, ok |-> TRUE, ours |-> TRUE, from |-> None]

Corrupt == [Request("ping", None) EXCEPT !.ok = FALSE]
Foreign == [Request("ping", None) EXCEPT !.ours = FALSE]

MCFunctions ==
  {Corrupt, Foreign, Request("ping", None), Request("pass", None), Request("stop", None),
   Request("restart", None), Request("channel", "fade")}
  \cup {Request("modcod", m) : m \in {0, 1}}
  \cup {Request("loopback", l) : l \in {"analog", "software"}}
  \cup {Request("acm", [auto |-> a, lo |-> b[1], hi |-> b[2]]) :
          a \in {TRUE}, b \in {<<1, 1>>, <<1, 0>>}}
  \cup {Request("report", [on |-> o, sids |-> s]) : o \in {TRUE}, s \in {{1}, {1, 9}}}
================================================================================
