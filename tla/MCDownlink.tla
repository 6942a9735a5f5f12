------------------------------ MODULE MCDownlink -------------------------------
(***************************************************************************)
(* Small instance of the downlink: a slow and a fast MODCOD (BPSK 1/2 and  *)
(* 8PSK 5/6: 375 and 86 ms), ticks of 333 ms in four parts, a good and a   *)
(* poor setting of the channel.  Es/N0 is counted so coarsely that the     *)
(* measurement goes from one to the other in two frames.                   *)
(***************************************************************************)
EXTENDS Downlink

MCModcods == 0 .. 1
MCThreshold == [m \in MCModcods |-> IF m = 0 THEN 1 ELSE 5]
MCFrameTime == [m \in MCModcods |-> IF m = 0 THEN 4 ELSE 1]
MCNothing == -5
MCLevels == {4, 6}
================================================================================
