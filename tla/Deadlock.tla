------------------------------ MODULE Deadlock ------------------------------
(***************************************************************************)
(* The deadlock example of chapter 7: two threads take two mutexes in      *)
(* opposite orders, and main joins both.                                   *)
(***************************************************************************)
EXTENDS Integers, Sequences

VARIABLES
  owner,     \* the thread that holds each mutex, or "nobody"
  work_pc,   \* how many of its four calls each thread has made
  joined     \* how many threads main has joined

vars == <<owner, work_pc, joined>>

Workers == <<"do_work_one", "do_work_two">>

(* The mutexes in the order each thread locks them *)
Order == [do_work_one |-> <<"first_mutex", "second_mutex">>,
          do_work_two |-> <<"second_mutex", "first_mutex">>]

Init ==
  /\ owner = [m \in {"first_mutex", "second_mutex"} |-> "nobody"]
  /\ work_pc = [t \in {"do_work_one", "do_work_two"} |-> 0]
  /\ joined = 0

(* pthread_mutex_lock *)
Lock(t) ==
  /\ work_pc[t] < 2
  /\ LET m == Order[t][work_pc[t] + 1] IN
       owner[m] = "nobody" /\ owner' = [owner EXCEPT ![m] = t]
  /\ work_pc' = [work_pc EXCEPT ![t] = @ + 1]
  /\ UNCHANGED joined

(* Mutant: a thread ends without its last pthread_mutex_unlock. *)
UnlockOnce(t) ==
  /\ work_pc[t] \in 2 .. 3
  /\ owner' = [owner EXCEPT ![Order[t][2]] = "nobody"]
  /\ work_pc' = [work_pc EXCEPT ![t] = @ + 1]
  /\ UNCHANGED joined

(* pthread_mutex_unlock, the mutex taken last first *)
Unlock(t) ==
  /\ work_pc[t] \in 2 .. 3
  /\ owner' = [owner EXCEPT ![Order[t][4 - work_pc[t]]] = "nobody"]
  /\ work_pc' = [work_pc EXCEPT ![t] = @ + 1]
  /\ UNCHANGED joined

(* pthread_join *)
Join ==
  /\ joined < Len(Workers) /\ work_pc[Workers[joined + 1]] = 4
  /\ joined' = joined + 1
  /\ UNCHANGED <<owner, work_pc>>

Next == (\E t \in DOMAIN Order : Lock(t) \/ Unlock(t)) \/ Join

Spec == Init /\ [][Next]_vars /\ WF_vars(Next)

-----------------------------------------------------------------------------
(* Properties *)

(* Each thread holds its first mutex and waits for the other's. *)
Crossed == \A t \in DOMAIN Order : work_pc[t] = 1 /\ owner[Order[t][1]] = t

(* The crossed wait is the only way this program hangs: otherwise main     *)
(* joins both threads.                                                     *)
Joined == joined = Len(Workers)
JoinsUnlessCrossed == <>(Joined \/ []Crossed)
=============================================================================
