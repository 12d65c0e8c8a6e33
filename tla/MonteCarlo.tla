----------------------------- MODULE MonteCarlo -----------------------------
(***************************************************************************)
(* The Monte Carlo estimate of pi, by threads that each count the points   *)
(* in the circle and add their count to a shared one.  LOCKED is problem   *)
(* 5.39, with a mutex around the addition and a constant number of points; *)
(* without it, it is problem 4.23: an OpenMP parallel region that adds to  *)
(* two shared variables with no protection.  An addition is a load and a   *)
(* store.  The loop over the random points is local to its thread: it ends *)
(* with any count from 0 to NUM_RAND_POINTS.                               *)
(***************************************************************************)
EXTENDS Integers, Sequences, FiniteSets, Functions

CONSTANTS Threads, NUM_RAND_POINTS, NoThread, LOCKED

VARIABLES
  shared,    \* the values of inside_circle_count and total_points
  mutex,
  pc, my_inside_count, reg,
  i,         \* which of the additions a thread is at
  main       \* "wait", "print" or "exit"

vars == <<shared, mutex, pc, my_inside_count, reg, i, main>>

AllPoints == NUM_RAND_POINTS * Cardinality(Threads)

Init ==
  /\ shared = [inside_circle_count |-> 0,
               total_points |-> IF LOCKED THEN AllPoints ELSE 0]
  /\ mutex = NoThread
  /\ pc = [t \in Threads |-> "count"]
  /\ my_inside_count = [t \in Threads |-> 0]
  /\ reg = [t \in Threads |-> 0]
  /\ i = [t \in Threads |-> 1]
  /\ main = "wait"

Goto(t, from, to) == pc[t] = from /\ pc' = [pc EXCEPT ![t] = to]

(* The shared variables that a thread adds to, in order, and what it adds. *)
Additions ==
  IF LOCKED THEN <<"inside_circle_count">>
            ELSE <<"inside_circle_count", "total_points">>
Amount(t) ==
  IF Additions[i[t]] = "total_points" THEN NUM_RAND_POINTS
                                      ELSE my_inside_count[t]

CountPoints(t) ==
  /\ Goto(t, "count", "lock")
  /\ \E c \in 0 .. NUM_RAND_POINTS :
       my_inside_count' = [my_inside_count EXCEPT ![t] = c]
  /\ UNCHANGED <<shared, mutex, reg, i, main>>

(* Mutant: no waiting for the mutex. *)
LockNoWait(t) ==
  /\ Goto(t, "lock", "load")
  /\ mutex' = t
  /\ UNCHANGED <<shared, my_inside_count, reg, i, main>>

Lock(t) ==
  /\ Goto(t, "lock", "load")
  /\ IF LOCKED THEN mutex = NoThread /\ mutex' = t ELSE UNCHANGED mutex
  /\ UNCHANGED <<shared, my_inside_count, reg, i, main>>

Load(t) ==
  /\ Goto(t, "load", "store")
  /\ reg' = [reg EXCEPT ![t] = shared[Additions[i[t]]]]
  /\ UNCHANGED <<shared, mutex, my_inside_count, i, main>>

Store(t) ==
  /\ Goto(t, "store", IF i[t] < Len(Additions) THEN "load" ELSE "unlock")
  /\ shared' = [shared EXCEPT ![Additions[i[t]]] = reg[t] + Amount(t)]
  /\ i' = [i EXCEPT ![t] = @ + 1]
  /\ UNCHANGED <<mutex, my_inside_count, reg, main>>

(* The end of the thread, or of its part of the parallel region. *)
Unlock(t) ==
  /\ Goto(t, "unlock", "done")
  /\ mutex' = NoThread
  /\ UNCHANGED <<shared, my_inside_count, reg, i, main>>

Worker_thread_func(t) ==
  CountPoints(t) \/ Lock(t) \/ Load(t) \/ Store(t) \/ Unlock(t)

(* main(): the joins, or the end of the parallel region *)
Join ==
  /\ main = "wait"
  /\ \A t \in Threads : pc[t] = "done"
  /\ main' = "print"
  /\ UNCHANGED <<shared, mutex, pc, my_inside_count, reg, i>>

(* The result is printed; cleanup_state of problem 5.39 resets the count.  *)
PrintAndCleanup ==
  /\ main = "print"
  /\ main' = "exit"
  /\ shared' = [shared EXCEPT !.inside_circle_count = IF LOCKED THEN 0 ELSE @]
  /\ UNCHANGED <<mutex, pc, my_inside_count, reg, i>>

Next ==
  \/ \E t \in Threads : Worker_thread_func(t)
  \/ Join \/ PrintAndCleanup

Spec == Init /\ [][Next]_vars

-----------------------------------------------------------------------------
(* Properties *)

(* What main prints: the points of all the threads that are in the circle, *)
(* out of all the points; no addition is lost.                             *)
EveryPointCounted ==
  main = "print" =>
    /\ shared.inside_circle_count = FoldFunction(+, 0, my_inside_count)
    /\ shared.total_points = AllPoints

-----------------------------------------------------------------------------
(* The inductive invariant, for problem 5.39 *)

TypeOK ==
  /\ shared \in [inside_circle_count : Int, total_points : Int]
  /\ pc \in [Threads -> {"count", "lock", "load", "store", "unlock", "done"}]
  /\ my_inside_count \in [Threads -> 0 .. NUM_RAND_POINTS]
  /\ reg \in [Threads -> Int]
  /\ i = [t \in Threads |-> IF pc[t] \in {"unlock", "done"} THEN 2 ELSE 1]
  /\ main \in {"wait", "print", "exit"}

(* The thread between lock and unlock is the one that has the mutex, and   *)
(* the count it has loaded is still the shared one.                        *)
MutexHeld ==
  \A t \in Threads :
    /\ pc[t] \in {"load", "store", "unlock"} <=> mutex = t
    /\ pc[t] = "store" => reg[t] = shared.inside_circle_count

(* What the threads have added so far *)
AddedBy == [t \in Threads |->
              IF pc[t] \in {"unlock", "done"} THEN my_inside_count[t] ELSE 0]

PointsAdded ==
  /\ main # "exit" =>
       shared.inside_circle_count = FoldFunction(+, 0, AddedBy)
  /\ main # "wait" => \A t \in Threads : pc[t] = "done"
  /\ shared.total_points = AllPoints

IInv == TypeOK /\ MutexHeld /\ PointsAdded
=============================================================================
