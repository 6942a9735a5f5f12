------------------------------- MODULE MCGround --------------------------------
(* A small instance of Ground: the window beside a client of each kind,    *)
(* with commands that are executed, fail, are refused, and a ping of the   *)
(* command line, which waits for two things.  With two counts for three    *)
(* commands, they share a count with each other and with what is left of   *)
(* earlier ones.                                                           *)
EXTENDS Ground

MCUses ==
  {<<"gs", "function">>, <<"gs", "unknown">>, <<"cli", "ping">>, <<"python", "unknown">>}
================================================================================
