--------------------------------- MODULE SizeT ---------------------------------
(* std::size_t: the unsigned numbers that the sizes and counts of the code    *)
(* are computed in.                                                           *)
EXTENDS Integers

CONSTANT SizeMax \* the largest std::size_t

ASSUME SizeAssumption == SizeMax \in Nat

\* Unsigned arithmetic wraps.
Wrapped(n) == n % (SizeMax + 1)
=============================================================================
