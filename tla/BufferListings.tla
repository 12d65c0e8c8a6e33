--------------------------- MODULE BufferListings ---------------------------
(***************************************************************************)
(* The Fibonacci thread, which fills a buffer for main to print, as        *)
(* Listings runs it, with what the proofs assume of its constants, and its *)
(* property.                                                               *)
(***************************************************************************)
EXTENDS CIntegers

CONSTANT N_FIB_MAX  \* of Fibonacci

ASSUME FibonacciAssumption == N_FIB_MAX \in Nat

VARIABLES fib_sequence_buf, n_fib, fib_i, main_i, fib_main, fib_printed

F == INSTANCE Fibonacci

-----------------------------------------------------------------------------
(* Properties, stated in the module of their program *)

(* Problem 4.26 prints the Fibonacci numbers as far as an int holds them. *)
FibonacciPrinted == F!FibonacciPrinted
=============================================================================
