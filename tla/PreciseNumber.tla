--------------------------- MODULE PreciseNumber ----------------------------
(***************************************************************************)
(* The fixed-point numbers of src/src/PreciseNumber.cpp.  A number is the  *)
(* integer smallestUnit, kPrecision times the amount it stands for, of     *)
(* unbounded size (mpz_int).  Addition, subtraction and comparison are     *)
(* those of the integers; products and quotients are scaled back, and the  *)
(* integer division rounds toward zero.                                    *)
(***************************************************************************)
EXTENDS Integers

CONSTANT kPrecision    \* 10^10 in the code

ASSUME PrecisionAssumption == kPrecision \in Nat \ {0}

(* Division of integers by a positive one, toward zero.                    *)
Truncated(n, d) == IF n >= 0 THEN n \div d ELSE -((-n) \div d)

Times(a, b)     == Truncated(a * b, kPrecision)
Over(a, b)      == IF b = 0 THEN 0 ELSE Truncated(a * kPrecision, b)
Remainder(a, b) == IF b = 0 THEN 0 ELSE a % b       \* fmod, a not negative
Smaller(a, b)   == IF a < b THEN a ELSE b           \* min
=============================================================================
