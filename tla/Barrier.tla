------------------------------ MODULE Barrier ------------------------------
(***************************************************************************)
(* Problem 5.41: the barrier for N threads of barrier.c.  Every access to  *)
(* the counter and to is_closed is inside a critical section of the one    *)
(* mutex, and a section blocks only in pthread_cond_wait, which gives the  *)
(* mutex up; so each section, from lock or wakeup to unlock or wait, is    *)
(* one action.  Both walls wait on the same condition variable.            *)
(***************************************************************************)
EXTENDS Integers, FiniteSets

CONSTANTS
  Threads,
  N         \* barrier_threshold_count, the argument of init

ASSUME BarrierAssumption ==
  IsFiniteSet(Threads) /\ N \in 1 .. Cardinality(Threads)

VARIABLES
  entry_gate_sem,        \* value of the semaphore
  is_closed,             \* the state of the walls
  inside_barrier_count,
  pc

vars == <<entry_gate_sem, is_closed, inside_barrier_count, pc>>

Init ==
  /\ entry_gate_sem = N
  /\ is_closed = TRUE
  /\ inside_barrier_count = 0
  /\ pc = [t \in Threads |-> "new"]

Goto(t, label) == pc' = [pc EXCEPT ![t] = label]

(* A thread that wakes up tests the condition of its wall again. *)
Woken(label) ==
  CASE label = "wait1" -> "wall1"
    [] label = "wait2" -> "wall2"
    [] OTHER -> label

(* t goes on at a label; a broadcast wakes all the waiting threads. *)
GotoBroadcast(t, label) ==
  pc' = [u \in Threads |-> IF u = t THEN label ELSE Woken(pc[u])]

Create(t) ==
  /\ pc[t] = "new"
  /\ Goto(t, "work")
  /\ UNCHANGED <<entry_gate_sem, is_closed, inside_barrier_count>>

-----------------------------------------------------------------------------
(* barrier_point: through the entry gate *)
EntryGate(t) ==
  /\ pc[t] = "work"
  /\ entry_gate_sem > 0
  /\ entry_gate_sem' = entry_gate_sem - 1
  /\ Goto(t, "close")
  /\ UNCHANGED <<is_closed, inside_barrier_count>>

(* Mutant: closes the second wall without a broadcast. *)
CloseQuietly(t) ==
  /\ pc[t] = "close"
  /\ is_closed' = (is_closed \/ inside_barrier_count = 0)
  /\ Goto(t, "wall1")
  /\ UNCHANGED <<entry_gate_sem, inside_barrier_count>>

(* enter_barrier, first section: with nobody inside, the first wall opens  *)
(* and the second one is closed.                                           *)
CloseIfEmpty(t) ==
  /\ pc[t] = "close"
  /\ IF inside_barrier_count = 0
     THEN is_closed' = TRUE /\ GotoBroadcast(t, "wall1")
     ELSE UNCHANGED is_closed /\ Goto(t, "wall1")
  /\ UNCHANGED <<entry_gate_sem, inside_barrier_count>>

(* enter_barrier, second section: wait while the second wall is open. *)
FirstWall(t) ==
  /\ pc[t] = "wall1"
  /\ Goto(t, IF is_closed THEN "enter" ELSE "wait1")
  /\ UNCHANGED <<entry_gate_sem, is_closed, inside_barrier_count>>

(* enter_barrier, third section *)
Enter(t) ==
  /\ pc[t] = "enter"
  /\ inside_barrier_count' = inside_barrier_count + 1
  /\ Goto(t, "wall2")
  /\ UNCHANGED <<entry_gate_sem, is_closed>>

(* Mutant: one thread too few. *)
SecondWallEarly(t) ==
  /\ pc[t] = "wall2"
  /\ Goto(t, IF inside_barrier_count < N - 1 /\ is_closed
             THEN "wait2" ELSE "leave")
  /\ UNCHANGED <<entry_gate_sem, is_closed, inside_barrier_count>>

(* exit_barrier, first section: wait until all have arrived. *)
SecondWall(t) ==
  /\ pc[t] = "wall2"
  /\ Goto(t, IF inside_barrier_count < N /\ is_closed
             THEN "wait2" ELSE "leave")
  /\ UNCHANGED <<entry_gate_sem, is_closed, inside_barrier_count>>

(* exit_barrier, second section: the first thread to leave opens the       *)
(* second wall; every thread is counted out.                               *)
Leave(t) ==
  /\ pc[t] = "leave"
  /\ is_closed' = (is_closed /\ inside_barrier_count # N)
  /\ inside_barrier_count' =
       IF ~is_closed' /\ inside_barrier_count > 0
       THEN inside_barrier_count - 1 ELSE inside_barrier_count
  /\ IF inside_barrier_count = N
     THEN GotoBroadcast(t, "post") ELSE Goto(t, "post")
  /\ UNCHANGED entry_gate_sem

(* barrier_point: out through the gate *)
ExitGate(t) ==
  /\ pc[t] = "post"
  /\ entry_gate_sem' = entry_gate_sem + 1
  /\ Goto(t, "work")
  /\ UNCHANGED <<is_closed, inside_barrier_count>>

Worker_thread_func(t) ==
  \/ EntryGate(t) \/ CloseIfEmpty(t) \/ FirstWall(t) \/ Enter(t)
  \/ SecondWall(t) \/ Leave(t) \/ ExitGate(t)

SpuriousWakeup(t) ==
  /\ pc[t] \in {"wait1", "wait2"}
  /\ Goto(t, Woken(pc[t]))
  /\ UNCHANGED <<entry_gate_sem, is_closed, inside_barrier_count>>

Next ==
  \E t \in Threads : Create(t) \/ Worker_thread_func(t) \/ SpuriousWakeup(t)

Spec == Init /\ [][Next]_vars

(* Every thread runs, and none is passed over for ever when it asks for    *)
(* the mutex.  Nobody has to wake up spuriously.                           *)
FairSpec ==
  /\ Spec
  /\ \A t \in Threads : WF_vars(Create(t)) /\ WF_vars(Worker_thread_func(t))

-----------------------------------------------------------------------------
(* Properties *)

(* The threads between their increment of the counter and their decrement. *)
Inside == {t \in Threads : pc[t] \in {"wall2", "wait2", "leave"}}

(* The threads between their sem_wait and their sem_post of the gate. *)
PastGate == {t \in Threads : pc[t] \notin {"new", "work"}}

(* The types of the variables; the counter counts the threads inside the   *)
(* walls, and the gate those between its sem_wait and its sem_post.        *)
TypeOK ==
  /\ pc \in [Threads -> {"new", "work", "close", "wall1", "wait1", "enter",
                         "wall2", "wait2", "leave", "post"}]
  /\ is_closed \in BOOLEAN
  /\ inside_barrier_count = Cardinality(Inside)
  /\ entry_gate_sem \in Nat
  /\ entry_gate_sem = N - Cardinality(PastGate)

(* Threads that wait at a wall can pass it only after a broadcast that is  *)
(* still to come: no broadcast has been missed.                            *)
NoLostBroadcast ==
  \A t \in Threads :
    /\ pc[t] = "wait1" => ~is_closed
    /\ pc[t] = "wait2" => is_closed

(* The inductive invariant.  While the second wall is open nobody is about *)
(* to be counted in, and a thread that leaves with the wall still closed   *)
(* is one of N that are all inside: what FirstWall and SecondWall decided  *)
(* in one critical section still holds in the next.                        *)
IInv ==
  /\ TypeOK
  /\ NoLostBroadcast
  /\ \A t \in Threads :
       /\ pc[t] = "enter" => is_closed
       /\ pc[t] = "leave" /\ is_closed => inside_barrier_count = N

(* barrier_point is a barrier: the threads gathered inside the walls are   *)
(* released together when there are N of them, and the next ones come in   *)
(* when the last has left.  This covers a thread that loops round to the   *)
(* barrier again before the others have left it.                           *)
Meeting == INSTANCE Rendezvous WITH
  gathered <- IF is_closed THEN Inside ELSE {},
  released <- IF is_closed THEN {} ELSE Inside

ImplementsRendezvous == Meeting!RendezvousSpec

(* Every thread of the program gets through the barrier again and again.   *)
EveryoneKeepsPassing == \A t \in Threads : []<>(pc[t] = "post")
=============================================================================
