---------------------------------- MODULE Acm ----------------------------------
(***************************************************************************)
(* The ACM controller (libs/acm): it chooses the MODCOD of the next frame  *)
(* from the measured Es/N0 and the receiver lock.  Pure operators over the *)
(* controller's record; the modem application calls Update once per        *)
(* transmitted frame.                                                      *)
(***************************************************************************)
EXTENDS Integers, FiniteSets, FiniteSetsExt

CONSTANTS Modcods,      \* 0 .. SATLINK_MODCOD_COUNT - 1
          Threshold,    \* Es/N0 threshold of each MODCOD, in any unit
          Margin,       \* margin_db
          Hysteresis,   \* hysteresis_db
          UpHold        \* up_hold: good frames in a row before a step up

ASSUME AcmAssumption ==
  /\ Modcods # {} /\ IsFiniteSet(Modcods)
  /\ \A m \in Modcods : m \in Nat /\ 0 .. m \subseteq Modcods
  /\ Threshold \in [Modcods -> Int]
  /\ \A m, n \in Modcods : m < n => Threshold[m] < Threshold[n]
  /\ Margin \in Nat
  /\ Hysteresis \in Nat
  /\ UpHold \in Nat \ {0}

\* config_valid: bounds given by a command
ValidBounds(lo, hi) == lo \in Modcods /\ hi \in Modcods /\ lo <= hi

Controller == [current : Modcods, good : 0 .. UpHold, min : Modcods, max : Modcods]

InitController(lo, hi) == [current |-> lo, good |-> 0, min |-> lo, max |-> hi]

\* satlink_acm_configure: new bounds, the MODCOD in use clamped into them.
ConfigureAcm(a, lo, hi) ==
  [current |-> IF a.current < lo THEN lo ELSE IF a.current > hi THEN hi ELSE a.current,
   good |-> 0, min |-> lo, max |-> hi]

Supported(m, e) == Threshold[m] + Margin <= e

\* satlink_acm_target: the highest MODCOD within the bounds that e carries.
Target(a, e) == Max({a.min} \cup {m \in a.min .. a.max : Supported(m, e)})

Jump(a, m) == [a EXCEPT !.current = m, !.good = 0]

\* satlink_acm_update: lock lost, then down at once, then up after UpHold.
Update(a, e, locked) ==
  LET next == a.current + 1
      down == Target(a, e)
  IN  CASE ~locked -> Jump(a, a.min)
        [] locked /\ ~Supported(a.current, e) ->
             Jump(a, IF down < a.current THEN down ELSE a.current)
        [] locked /\ Supported(a.current, e) /\ a.current = a.max -> a
        [] OTHER -> IF Threshold[next] + Margin + Hysteresis > e
                      THEN [a EXCEPT !.good = 0]
                      ELSE IF a.good + 1 >= UpHold THEN Jump(a, next)
                                                   ELSE [a EXCEPT !.good = @ + 1]
================================================================================
