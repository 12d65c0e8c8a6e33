----------------------------- MODULE Statistics -----------------------------
(***************************************************************************)
(* Problem 4.21: three threads compute the average, the minimum and the    *)
(* maximum of the numbers on the command line; main joins them and prints. *)
(* An iteration of a loop is a step.  The numbers are ints; the average is *)
(* kept as the pair of doubles that are divided.                           *)
(***************************************************************************)
EXTENDS Integers, Sequences, FiniteSetsExt, Functions

CONSTANTS
  MAX_SAMPLE_SIZE,
  INT_MAX,         \* the largest int
  Arguments        \* what atoi makes of the arguments

VARIABLES
  val_buffer,      \* the first val_buffer_len places of the buffer
  avg, max, min,   \* the results
  stat_i, val,     \* the loop variables of the three functions
  calc_pc,         \* where each thread is
  stat_main        \* where main is

vars == <<val_buffer, avg, max, min, stat_i, val, calc_pc, stat_main>>

calc_funcs == {"avg_calc", "min_calc", "max_calc"}
val_buffer_len == Len(val_buffer)

(* What is left of x in an int, by two's complement *)
Narrow(x) == ((x + INT_MAX + 1) % (2 * (INT_MAX + 1))) - (INT_MAX + 1)

Init ==
  /\ val_buffer = << >>
  /\ avg = <<0, 1>> /\ max = 0 /\ min = -1
  /\ stat_i = [f \in calc_funcs |-> 0] /\ val = [f \in calc_funcs |-> 0]
  /\ calc_pc = [f \in calc_funcs |-> "none"]
  /\ stat_main = "arguments"

(* The arguments; main refuses none, too many, and those that are not > 0. *)
ReadArguments ==
  /\ stat_main = "arguments"
  /\ \E n \in 0 .. MAX_SAMPLE_SIZE : \E argv \in [1 .. n -> Arguments] :
       IF n = 0 \/ n >= MAX_SAMPLE_SIZE \/ \E k \in 1 .. n : argv[k] <= 0
       THEN stat_main' = "refused" /\ UNCHANGED <<val_buffer, calc_pc>>
       ELSE /\ stat_main' = "join" /\ val_buffer' = argv
            /\ calc_pc' = [f \in calc_funcs |-> "start"]
  /\ UNCHANGED <<avg, max, min, stat_i, val>>

(* Before the loop: sum = 0, or the first value *)
Enter(f) ==
  /\ calc_pc[f] = "start"
  /\ calc_pc' = [calc_pc EXCEPT ![f] = "loop"]
  /\ stat_i' = [stat_i EXCEPT ![f] = IF f = "avg_calc" THEN 1 ELSE 2]
  /\ val' = [val EXCEPT ![f] = IF f = "avg_calc" THEN 0 ELSE val_buffer[1]]
  /\ UNCHANGED <<val_buffer, avg, max, min, stat_main>>

Iterate(f) ==
  LET v == val_buffer[stat_i[f]] IN
  /\ calc_pc[f] = "loop" /\ stat_i[f] <= val_buffer_len
  /\ stat_i' = [stat_i EXCEPT ![f] = @ + 1]
  /\ val' = [val EXCEPT ![f] =
       CASE f = "avg_calc" -> Narrow(@ + v)
         [] f = "min_calc" -> IF @ > v THEN v ELSE @
         [] f = "max_calc" -> IF @ < v THEN v ELSE @]
  /\ UNCHANGED <<val_buffer, avg, max, min, calc_pc, stat_main>>

(* The result is stored and the thread exits. *)
StoreResult(f) ==
  /\ calc_pc[f] = "loop" /\ stat_i[f] > val_buffer_len
  /\ calc_pc' = [calc_pc EXCEPT ![f] = "exit"]
  /\ avg' = IF f = "avg_calc" THEN <<val[f], val_buffer_len>> ELSE avg
  /\ min' = IF f = "min_calc" THEN val[f] ELSE min
  /\ max' = IF f = "max_calc" THEN val[f] ELSE max
  /\ UNCHANGED <<val_buffer, stat_i, val, stat_main>>

(* Mutant: only the first thread is joined. *)
JoinFirst ==
  /\ stat_main = "join" /\ calc_pc["avg_calc"] = "exit"
  /\ stat_main' = "print"
  /\ UNCHANGED <<val_buffer, avg, max, min, stat_i, val, calc_pc>>

Join ==
  /\ stat_main = "join" /\ \A f \in calc_funcs : calc_pc[f] = "exit"
  /\ stat_main' = "print"
  /\ UNCHANGED <<val_buffer, avg, max, min, stat_i, val, calc_pc>>

Next ==
  \/ ReadArguments \/ Join
  \/ \E f \in calc_funcs : Enter(f) \/ Iterate(f) \/ StoreResult(f)

Spec == Init /\ [][Next]_vars /\ WF_vars(Next)

-----------------------------------------------------------------------------
(* Properties *)

(* What main prints: the least and the greatest of the values, and their   *)
(* average exactly as long as their sum is an int; avg_calc adds in an     *)
(* int, and past INT_MAX the average is wrong.                             *)
StatisticsRight ==
  LET total == FoldFunction(+, 0, val_buffer) IN
  stat_main = "print" =>
    /\ min = Min(Range(val_buffer)) /\ max = Max(Range(val_buffer))
    /\ avg[2] = val_buffer_len
    /\ (avg[1] = total) <=> (total <= INT_MAX)

-----------------------------------------------------------------------------
(* The inductive invariant *)

TypeOK ==
  /\ stat_main \in {"arguments", "refused", "join", "print"}
  /\ val_buffer \in Seq(1 .. INT_MAX)
  /\ stat_main \in {"join", "print"} => val_buffer_len >= 1
  /\ calc_pc \in [calc_funcs -> {"none", "start", "loop", "exit"}]
  /\ stat_i \in [calc_funcs -> Nat] /\ val \in [calc_funcs -> Int]
  /\ avg \in Int \X Int

(* The threads run between their creation and the joins. *)
ThreadsRun ==
  /\ stat_main \in {"arguments", "refused"} =>
       \A f \in calc_funcs : calc_pc[f] = "none"
  /\ stat_main = "print" => \A f \in calc_funcs : calc_pc[f] = "exit"
  /\ \A f \in calc_funcs : calc_pc[f] = "loop" =>
       stat_i[f] \in (IF f = "avg_calc" THEN 1 ELSE 2) .. (val_buffer_len + 1)

(* x is the least, the greatest of the first n values. *)
LeastOf(x, n) ==
  /\ \E k \in 1 .. n : x = val_buffer[k]
  /\ \A k \in 1 .. n : x <= val_buffer[k]
GreatestOf(x, n) ==
  /\ \E k \in 1 .. n : x = val_buffer[k]
  /\ \A k \in 1 .. n : val_buffer[k] <= x

(* x is an int, and the sum of the first n values if that is one. *)
FirstValues(n) ==
  [k \in 1 .. val_buffer_len |-> IF k <= n THEN val_buffer[k] ELSE 0]
SumOf(x, n) ==
  /\ x \in -(INT_MAX + 1) .. INT_MAX
  /\ LET s == FoldFunction(+, 0, FirstValues(n)) IN s <= INT_MAX => x = s

(* The loops, and what they leave behind *)
LoopValues ==
  /\ calc_pc["avg_calc"] = "loop" =>
       SumOf(val["avg_calc"], stat_i["avg_calc"] - 1)
  /\ calc_pc["min_calc"] = "loop" =>
       LeastOf(val["min_calc"], stat_i["min_calc"] - 1)
  /\ calc_pc["max_calc"] = "loop" =>
       GreatestOf(val["max_calc"], stat_i["max_calc"] - 1)

Results ==
  /\ calc_pc["avg_calc"] = "exit" =>
       avg[2] = val_buffer_len /\ SumOf(avg[1], val_buffer_len)
  /\ calc_pc["min_calc"] = "exit" => LeastOf(min, val_buffer_len)
  /\ calc_pc["max_calc"] = "exit" => GreatestOf(max, val_buffer_len)

IInv == TypeOK /\ ThreadsRun /\ LoopValues /\ Results
=============================================================================
