--------------------------------- MODULE MCHkc ---------------------------------
(***************************************************************************)
(* Small instance of the housekeeping controller: a short and a long       *)
(* period, and commands that are obeyed, refused and unknown.  The bit     *)
(* timing is tried for the usual oscillators and every rate CAN has.       *)
(***************************************************************************)
EXTENDS Hkc

Command(op, arg) == [id |-> "command", op |-> op, arg |-> arg]

MCFrames ==
  {Command("SET_PERIOD", 1), Command("SET_PERIOD", 2),
   Command("ENTER_BOOT", 1), Command("CLEAR_ERRORS", 0), [id |-> "time"]}

MCClocks == {8000, 12000, 16000, 20000, 24000, 25000, 40000}
MCRates == 1 .. 1000
================================================================================
