-------------------------------- MODULE Bytes -------------------------------
(* u64 byte and time counts: the largest one, and the saturating operations. *)
EXTENDS Naturals

CONSTANT ByteMax        \* u64::MAX

ASSUME ByteMaxAssumption == ByteMax \in Nat

\* Unbounded arithmetic, for the mutant of Saturated.
Unsaturated(n) == n

\* saturating_add and saturating_sub, on the exact result or on both operands.
Saturated(n) == IF n > ByteMax THEN ByteMax ELSE n
Remaining(limit, used) == IF used > limit THEN 0 ELSE limit - used
=============================================================================
