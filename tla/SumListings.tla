---------------------------- MODULE SumListings -----------------------------
(***************************************************************************)
(* The small programs that add or count as Listings runs them: the         *)
(* statistics threads and the Monte Carlo threads with their mutex, with   *)
(* what the proofs assume of their constants, and their properties.        *)
(***************************************************************************)
EXTENDS CIntegers, FiniteSets

CONSTANTS
  MAX_SAMPLE_SIZE, Arguments,         \* of Statistics
  Threads, NUM_RAND_POINTS, NoThread  \* of MonteCarlo

ASSUME StatisticsAssumption ==
  /\ MAX_SAMPLE_SIZE \in Nat
  /\ Arguments \subseteq -(INT_MAX + 1) .. INT_MAX

ASSUME MonteCarloAssumption ==
  IsFiniteSet(Threads) /\ NUM_RAND_POINTS \in Nat /\ NoThread \notin Threads

VARIABLES
  val_buffer, avg, max, min, stat_i, val, calc_pc, stat_main,
  shared, mc_mutex, mc_pc, my_inside_count, reg, mc_i, main

S == INSTANCE Statistics
M == INSTANCE MonteCarlo WITH
       LOCKED <- TRUE, mutex <- mc_mutex, pc <- mc_pc, i <- mc_i

-----------------------------------------------------------------------------
(* Properties, each stated in the module of its program *)

(* Problem 4.21 prints the right minimum, maximum and, short of an         *)
(* overflow, average.                                                      *)
StatisticsRight == S!StatisticsRight

(* Problem 5.39 loses no thread's points. *)
EveryPointCounted == M!EveryPointCounted
=============================================================================
