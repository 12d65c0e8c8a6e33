----------------------------- MODULE Fibonacci ------------------------------
(***************************************************************************)
(* Problem 4.26: a thread stores the first n_fib Fibonacci numbers in a    *)
(* buffer of ints, main joins it and prints them.                          *)
(***************************************************************************)
EXTENDS Integers, Sequences

CONSTANTS N_FIB_MAX, INT_MAX

VARIABLES
  fib_sequence_buf,  \* the buffer, from 0
  n_fib,             \* the argument
  fib_i, main_i,     \* the loop variables of the runner and of main
  fib_main,          \* where main is
  fib_printed        \* what it printed

vars == <<fib_sequence_buf, n_fib, fib_i, main_i, fib_main, fib_printed>>

(* What is left of x in an int, by two's complement *)
Narrow(x) == ((x + INT_MAX + 1) % (2 * (INT_MAX + 1))) - (INT_MAX + 1)

Init ==
  /\ fib_sequence_buf = [k \in 0 .. (N_FIB_MAX - 1) |-> IF k = 1 THEN 1 ELSE 0]
  /\ n_fib = 0 /\ fib_i = 2 /\ main_i = 0
  /\ fib_main = "argument" /\ fib_printed = << >>

ReadArgument ==
  /\ fib_main = "argument"
  /\ n_fib' \in -1 .. (N_FIB_MAX + 1)
  /\ fib_main' = IF n_fib' <= 0 \/ n_fib' > N_FIB_MAX THEN "refused" ELSE "join"
  /\ UNCHANGED <<fib_sequence_buf, fib_i, main_i, fib_printed>>

(* Mutant: the runner adds the wrong pair. *)
runnerOffByOne ==
  /\ fib_main = "join" /\ fib_i < n_fib
  /\ fib_sequence_buf' = [fib_sequence_buf EXCEPT
       ![fib_i] = Narrow(fib_sequence_buf[fib_i - 1] + fib_sequence_buf[fib_i - 1])]
  /\ fib_i' = fib_i + 1
  /\ UNCHANGED <<n_fib, main_i, fib_main, fib_printed>>

(* An iteration of the runner's loop *)
runner ==
  /\ fib_main = "join" /\ fib_i < n_fib
  /\ fib_sequence_buf' = [fib_sequence_buf EXCEPT
       ![fib_i] = Narrow(fib_sequence_buf[fib_i - 1] + fib_sequence_buf[fib_i - 2])]
  /\ fib_i' = fib_i + 1
  /\ UNCHANGED <<n_fib, main_i, fib_main, fib_printed>>

(* pthread_join returns when the loop is over. *)
Join ==
  /\ fib_main = "join" /\ fib_i >= n_fib
  /\ fib_main' = "print"
  /\ UNCHANGED <<fib_sequence_buf, n_fib, fib_i, main_i, fib_printed>>

(* The loop up to the last number but one, and the last number *)
PrintNumber ==
  /\ fib_main = "print"
  /\ fib_printed' = Append(fib_printed, fib_sequence_buf[main_i])
  /\ IF main_i < n_fib - 1 THEN main_i' = main_i + 1 /\ UNCHANGED fib_main
     ELSE fib_main' = "exit" /\ UNCHANGED main_i
  /\ UNCHANGED <<fib_sequence_buf, n_fib, fib_i>>

Next == ReadArgument \/ runner \/ Join \/ PrintNumber

Spec == Init /\ [][Next]_vars /\ WF_vars(Next)

-----------------------------------------------------------------------------
(* Properties *)

Fib[k \in Nat] == IF k <= 1 THEN k ELSE Fib[k - 1] + Fib[k - 2]

(* main prints n_fib numbers: the Fibonacci numbers as far as they fit an  *)
(* int, and after that what is left of them in one.                        *)
FibonacciPrinted ==
  /\ \A k \in 1 .. Len(fib_printed) :
       /\ fib_printed[k] = Narrow(Fib[k - 1])
       /\ Fib[k - 1] <= INT_MAX => fib_printed[k] = Fib[k - 1]
  /\ fib_main = "exit" => Len(fib_printed) = n_fib

-----------------------------------------------------------------------------
(* The inductive invariant *)

TypeOK ==
  /\ fib_main \in {"argument", "refused", "join", "print", "exit"}
  /\ fib_sequence_buf \in [0 .. (N_FIB_MAX - 1) -> Int]
  /\ n_fib \in Int /\ fib_i \in Nat /\ main_i \in Nat
  /\ fib_printed \in Seq(Int)

(* The buffer up to the runner's index *)
NumbersStored ==
  /\ fib_main \in {"argument", "refused"} => fib_i = 2
  /\ fib_i >= 2 /\ (fib_i > 2 => fib_i <= n_fib)
  /\ \A k \in 0 .. (N_FIB_MAX - 1) :
       k < fib_i => fib_sequence_buf[k] = Narrow(Fib[k])
  /\ fib_main \in {"join", "print", "exit"} => n_fib \in 1 .. N_FIB_MAX
  /\ fib_main \in {"print", "exit"} => fib_i >= n_fib

(* The numbers that main has printed *)
NumbersPrinted ==
  /\ Len(fib_printed) = IF fib_main = "exit" THEN n_fib ELSE main_i
  /\ fib_main \in {"print", "exit"} => main_i < n_fib
  /\ fib_main \in {"argument", "refused", "join"} => main_i = 0
  /\ \A k \in 1 .. Len(fib_printed) : fib_printed[k] = Narrow(Fib[k - 1])

IInv == TypeOK /\ NumbersStored /\ NumbersPrinted
=============================================================================
