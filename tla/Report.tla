------------------------------- MODULE Report -------------------------------
(***************************************************************************)
(* How the validator's summary turns two clocks into seconds: the system   *)
(* clock, which it reports, and the scheduler's ticks, by which it judges  *)
(* whether the system clock can be right.  An unsigned int has 16 bits;    *)
(* products are computed in 32 and overflow only after hours.              *)
(***************************************************************************)
EXTENDS Naturals

CONSTANTS
    ClocksPerSec,   \* CLOCKS_PER_SEC
    WordMod         \* the values of an unsigned int

ASSUME ClocksAssumption == ClocksPerSec \in Nat \ {0} /\ WordMod \in Nat \ {0}

\* total_time and ms_elapsed
Milliseconds(clocks) == ((clocks * 1000) \div ClocksPerSec) % WordMod

\* Ticks per second; a quotient by 0 may be anything.
ImpliedRates(clocks, ticks) ==
    IF Milliseconds(clocks) = 0 THEN Nat ELSE {(ticks * 1000) \div Milliseconds(clocks)}

WellTunedNarrow(rate) == rate >= 250 /\ rate <= 500
WellTuned(rate)       == rate >= 100 /\ rate <= 500

\* May the summary call the system clock miscalibrated?
Miscalibrated(clocks, ticks) ==
    /\ clocks > 0 /\ ticks > 1000
    /\ \E rate \in ImpliedRates(clocks, ticks) : ~WellTuned(rate)
=============================================================================
