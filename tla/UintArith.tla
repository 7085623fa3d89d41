------------------------------ MODULE UintArith ------------------------------
(***************************************************************************)
(* The unsigned arithmetic the scan tracker does on its millisecond clock  *)
(* and on its counters.  Every such C value is a uint32_t; UINT_MOD stands *)
(* for 2^32, and every operation reduces its result modulo UINT_MOD.       *)
(***************************************************************************)
EXTENDS Integers

CONSTANT UINT_MOD       \* number of values of a uint32_t (2^32 in the code)

ASSUME UintAssumption == UINT_MOD \in Nat /\ UINT_MOD >= 2

Uint     == 0 .. (UINT_MOD - 1)
UINT_MAX == UINT_MOD - 1

(* now_ms - then_ms on uint32_t: the elapsed time as long as it is shorter  *)
(* than a whole turn of the clock, whichever of the two values is larger.   *)
ElapsedMs(now, then) == (now - then) % UINT_MOD

(* A deadline is reached when it lies at most half the range in the past.   *)
(* Faulty: compared by magnitude.                                           *)
DeadlineReachedLinear(now, deadline) == now >= deadline
DeadlineReached(now, deadline) == (now - deadline) % UINT_MOD <= UINT_MAX \div 2

AddMs(now, delta) == (now + delta) % UINT_MOD

(* An entry's report_count saturates; a counter of the statistics wraps.    *)
SaturatingInc(c) == IF c # UINT_MAX THEN c + 1 ELSE c
IncCounter(c)    == (c + 1) % UINT_MOD

==============================================================================
