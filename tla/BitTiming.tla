------------------------------ MODULE BitTiming ------------------------------
(***************************************************************************)
(* satlink_mcp2515_bit_timing: how many time quanta a bit of the CAN bus   *)
(* has and where it is sampled, for an oscillator and a bit rate.  A bit   *)
(* is one quantum, then the propagation segment and phase segments 1, 2.   *)
(***************************************************************************)
EXTENDS Integers, Sequences

CONSTANTS
  Clocks,    \* oscillators, kHz
  Rates      \* bit rates, kbit/s

ASSUME TimingAssumption == Clocks \subseteq Nat \ {0} /\ Rates \subseteq Nat \ {0}

(* k_order: 16 quanta first, then from the most down. *)
Order == <<16, 25, 24, 23, 22, 21, 20, 19, 18, 17, 15, 14, 13, 12, 11, 10, 9, 8>>

Prescaler(clock, rate, ntq) == clock \div (2 * ntq * rate)
Divides(clock, rate, ntq) ==
  /\ clock % (2 * ntq * rate) = 0
  /\ Prescaler(clock, rate, ntq) \in 1 .. 64

(* The sample point near 75 %; what is left is shared, 8 at most to prop.  *)
Ps2(ntq) == IF (ntq + 2) \div 4 < 2 THEN 2 ELSE (ntq + 2) \div 4
Rest(ntq) == ntq - 1 - Ps2(ntq)
Prop(ntq) == IF Rest(ntq) \div 2 > 8 THEN 8 ELSE Rest(ntq) \div 2
Ps1(ntq) == Rest(ntq) - Prop(ntq)

Faulty_Registers(ntq) == Ps1(ntq) >= 1 /\ Prop(ntq) >= 1 /\ Ps2(ntq) <= 8
Registers(ntq) == Ps1(ntq) \in 1 .. 8 /\ Prop(ntq) >= 1 /\ Ps2(ntq) <= 8

Usable(clock, rate) ==
  {i \in DOMAIN Order : Divides(clock, rate, Order[i]) /\ Registers(Order[i])}

(* The fields of CNF1, CNF2 and CNF3: each is one less than it says. *)
Timing(clock, rate) ==
  LET ntq == Order[CHOOSE i \in Usable(clock, rate) : \A j \in Usable(clock, rate) : i <= j]
  IN  [brp |-> Prescaler(clock, rate, ntq) - 1, prop |-> Prop(ntq) - 1,
       ps1 |-> Ps1(ntq) - 1, ps2 |-> Ps2(ntq) - 1]

-----------------------------------------------------------------------------
(* A timing that is returned fits into the fields of the registers, gives  *)
(* the bit rate exactly and obeys the rules of the chip (phase segment 2   *)
(* at least 2 and no longer than what comes before the sample point).  No  *)
(* rate is refused that 8 to 23 quanta would give.                         *)
RightTiming ==
  \A clock \in Clocks, rate \in Rates :
    IF Usable(clock, rate) = {}
      THEN \A ntq \in 8 .. 23 : ~Divides(clock, rate, ntq)
      ELSE LET t == Timing(clock, rate)
           IN  /\ t.brp \in 0 .. 63 /\ t.prop \in 0 .. 7 /\ t.ps1 \in 0 .. 7 /\ t.ps2 \in 1 .. 7
               /\ 2 * (t.brp + 1) * (1 + (t.prop + 1) + (t.ps1 + 1) + (t.ps2 + 1)) * rate = clock
               /\ t.ps2 + 1 <= (t.prop + 1) + (t.ps1 + 1)
===============================================================================
