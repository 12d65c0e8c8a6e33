----------------------------- MODULE CIntegers ------------------------------
(***************************************************************************)
(* The int of C, as far as the small programs see it: it ends at INT_MAX.  *)
(***************************************************************************)
EXTENDS Integers

CONSTANT INT_MAX

ASSUME IntAssumption == INT_MAX \in Nat \ {0}
=============================================================================
