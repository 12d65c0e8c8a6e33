----------------------------- MODULE ChairCount -----------------------------
(***************************************************************************)
(* The sleeping teaching assistant with free_chairs_count.  The students   *)
(* decrement and increment it without a lock, Wait_chairs_sem admits       *)
(* NUM_TA_CHAIRS of them at a time, and a decrement or increment is a load *)
(* and a store.  The count steers nothing but an assertion, so the rest of *)
(* the program takes the steps of SleepingTA.                              *)
(***************************************************************************)
EXTENDS SleepingTA

VARIABLES
  free_chairs_count,
  reg,     \* the value each student has loaded
  done     \* how far each student is with its update

count == <<free_chairs_count, reg, done>>

CountInit ==
  /\ Init
  /\ free_chairs_count = NUM_TA_CHAIRS
  /\ reg = [i \in Student |-> 0]
  /\ done = [i \in Student |-> "nothing"]

(* Where a student is about to update the count, and by how much. *)
Change(i) ==
  CASE pc[i] = "sit" -> -1 [] pc[i] = "stand" -> 1 [] OTHER -> 0

Load(i) ==
  /\ Change(i) # 0
  /\ done[i] = "nothing"
  /\ reg' = [reg EXCEPT ![i] = free_chairs_count]
  /\ done' = [done EXCEPT ![i] = "load"]
  /\ UNCHANGED <<vars, free_chairs_count>>

Store(i) ==
  /\ done[i] = "load"
  /\ free_chairs_count' = reg[i] + Change(i)
  /\ done' = [done EXCEPT ![i] = "store"]
  /\ UNCHANGED <<vars, reg>>

(* What a student does after its update. *)
GoOn(i) ==
  /\ done[i] = "store"
  /\ Sit(i) \/ FreeChair(i)
  /\ done' = [done EXCEPT ![i] = "nothing"]
  /\ UNCHANGED <<free_chairs_count, reg>>

(* Every other step of the program. *)
Other ==
  /\ Next
  /\ \A i \in Student : pc[i] \in {"sit", "stand"} => pc'[i] = pc[i]
  /\ UNCHANGED count

CountNext == Other \/ \E i \in Student : Load(i) \/ Store(i) \/ GoOn(i)

CountSpec == CountInit /\ [][CountNext]_<<vars, count>>

-----------------------------------------------------------------------------
(* Properties *)

(* The assertion in acquire_chair: a student that got a chair does not     *)
(* find a negative number of free chairs.                                  *)
NoNegativeChairs ==
  \A i \in Student : pc[i] = "request" => free_chairs_count >= 0
=============================================================================
