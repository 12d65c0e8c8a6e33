------------------------------ MODULE FirstTry ------------------------------
(***************************************************************************)
(* The first, abandoned program for the sleeping teaching assistant: the   *)
(* students hand the TA on among themselves.  TA_test_sem is used as a     *)
(* mutex around Students and waiting_count, but a student reads and resets *)
(* its own entry of Students without it, so those accesses and the two     *)
(* searches of Students, entry by entry, are steps of their own.  The      *)
(* thread of the TA only prints and is left out.                           *)
(***************************************************************************)
EXTENDS Integers

CONSTANTS NUM_STUDENTS, NUM_TA_WAIT_CHAIRS

Ids == 0 .. (NUM_STUDENTS - 1)

VARIABLES
  Students,        \* "PROGRAMMING", "WAITING_FOR_TA" or "WITH_TA"
  waiting_count,
  TA_test_sem, TA_lock_sem, TA_chairs_sem,
  pc,              \* where each student is
  i,               \* local: the entry of Students that a search is at
  status           \* "running"; "corrupted" after a write outside of Students;
                   \* "aborted" by a failed assertion or a fault

vars == <<Students, waiting_count, TA_test_sem, TA_lock_sem, TA_chairs_sem,
          pc, i, status>>
sems == <<TA_test_sem, TA_lock_sem, TA_chairs_sem>>

Init ==
  /\ Students = [s \in Ids |-> "PROGRAMMING"]
  /\ waiting_count = 0
  /\ TA_test_sem = 1 /\ TA_lock_sem = 1 /\ TA_chairs_sem = 0
  /\ pc = [s \in Ids |-> "program"]
  /\ i = [s \in Ids |-> 0]
  /\ status = "running"

Goto(s, from, to) == pc[s] = from /\ pc' = [pc EXCEPT ![s] = to]

(* sem_wait(&TA_test_sem) at the head of the three critical sections *)
TestWait(s, from, to) ==
  /\ Goto(s, from, to)
  /\ TA_test_sem > 0
  /\ TA_test_sem' = TA_test_sem - 1
  /\ UNCHANGED <<Students, waiting_count, TA_lock_sem, TA_chairs_sem, i, status>>

Abort(s, from) ==
  /\ pc[s] = from
  /\ status' = "aborted"
  /\ UNCHANGED <<Students, waiting_count, sems, pc, i>>

-----------------------------------------------------------------------------
(* test_is_ta_busy *)

(* There is a line already, or the search for a student with the TA starts. *)
TestLine(s) ==
  /\ i' = [i EXCEPT ![s] = 0]
  /\ IF waiting_count > 0
     THEN Goto(s, "test", "tested") /\ TA_test_sem' = TA_test_sem + 1
     ELSE Goto(s, "test", "search") /\ UNCHANGED TA_test_sem
  /\ UNCHANGED <<Students, waiting_count, TA_lock_sem, TA_chairs_sem, status>>

TestSearch(s) ==
  /\ \/ /\ i[s] = NUM_STUDENTS
        /\ Goto(s, "search", "acquire")
        /\ UNCHANGED <<i, TA_test_sem>>
     \/ /\ i[s] < NUM_STUDENTS /\ Students[i[s]] # "WITH_TA"
        /\ Goto(s, "search", "search")
        /\ i' = [i EXCEPT ![s] = @ + 1]
        /\ UNCHANGED TA_test_sem
     \/ /\ i[s] < NUM_STUDENTS /\ Students[i[s]] = "WITH_TA"
        /\ Goto(s, "search", "tested")
        /\ TA_test_sem' = TA_test_sem + 1
        /\ UNCHANGED i
  /\ UNCHANGED <<Students, waiting_count, TA_lock_sem, TA_chairs_sem, status>>

(* acquire_TA(stud_id): nobody is with the TA, so its lock must be free. *)
AcquireTA(s) ==
  /\ Goto(s, "acquire", "tested")
  /\ TA_lock_sem > 0
  /\ TA_lock_sem' = TA_lock_sem - 1
  /\ Students' = [Students EXCEPT ![s] = "WITH_TA"]
  /\ TA_test_sem' = TA_test_sem + 1
  /\ UNCHANGED <<waiting_count, TA_chairs_sem, i, status>>

TABusyAlone(s) == TA_lock_sem = 0 /\ Abort(s, "acquire")

-----------------------------------------------------------------------------
(* acquire_chair *)
AcquireChair(s) ==
  /\ Goto(s, "chair", "sit")
  /\ IF waiting_count < NUM_TA_WAIT_CHAIRS
     THEN /\ Students' = [Students EXCEPT ![s] = "WAITING_FOR_TA"]
          /\ waiting_count' = waiting_count + 1
     ELSE /\ Students' = [Students EXCEPT ![s] = "PROGRAMMING"]
          /\ UNCHANGED waiting_count
  /\ TA_test_sem' = TA_test_sem + 1
  /\ UNCHANGED <<TA_lock_sem, TA_chairs_sem, i, status>>

-----------------------------------------------------------------------------
(* release_chair *)

(* Give the TA back, and look for a waiting student behind oneself. *)
GiveBack(s) ==
  /\ TA_lock_sem' = TA_lock_sem + 1
  /\ Students' = [Students EXCEPT ![s] = "PROGRAMMING"]
  /\ i' = [i EXCEPT ![s] = (s + 1) % NUM_STUDENTS]
  /\ IF waiting_count > 0
     THEN Goto(s, "release", "find") /\ UNCHANGED TA_test_sem
     ELSE Goto(s, "release", "leave") /\ TA_test_sem' = TA_test_sem + 1
  /\ UNCHANGED <<waiting_count, TA_chairs_sem, status>>

(* The loop ends at a waiting student or at oneself; its step              *)
(* i = i + 1 % NUM_STUDENTS does not wrap around.                          *)
Find(s) ==
  /\ i[s] \in Ids
  /\ IF i[s] = s \/ Students[i[s]] = "WAITING_FOR_TA"
     THEN Goto(s, "find", "found") /\ UNCHANGED i
     ELSE Goto(s, "find", "find") /\ i' = [i EXCEPT ![s] = @ + 1]
  /\ UNCHANGED <<Students, waiting_count, sems, status>>

(* The entry is read again; it may have been reset meanwhile, which fails  *)
(* the assertion that somebody is waiting.                                 *)
Found(s) ==
  /\ pc[s] = "found"
  /\ IF Students[i[s]] = "WAITING_FOR_TA"
     THEN Goto(s, "found", "give") /\ UNCHANGED status
     ELSE status' = "aborted" /\ UNCHANGED pc
  /\ UNCHANGED <<Students, waiting_count, sems, i>>

(* waiting_count--, sem_post(&TA_chairs_sem) and the end of release_chair *)
CallNext(s, from, count) ==
  /\ Goto(s, from, "leave")
  /\ TA_lock_sem' = TA_lock_sem - 1
  /\ waiting_count' = count - 1
  /\ TA_chairs_sem' = TA_chairs_sem + 1
  /\ TA_test_sem' = TA_test_sem + 1
  /\ UNCHANGED i

(* acquire_TA(i) on behalf of the student that was found: the lock was     *)
(* given back in the same critical section.                                *)
GiveTA(s) ==
  /\ pc[s] = "give"
  /\ TA_lock_sem > 0
  /\ Students' = [Students EXCEPT ![i[s]] = "WITH_TA"]
  /\ CallNext(s, "give", waiting_count)
  /\ UNCHANGED status

(* The search left the array.  It runs into an unmapped page, or takes     *)
(* some word with the value of WAITING_FOR_TA for a student and overwrites *)
(* it with that of WITH_TA; a waiting_count of 1 is such a word.           *)
Overrun(s) ==
  /\ i[s] = NUM_STUDENTS
  /\ \/ Abort(s, "find")
     \/ /\ TA_lock_sem > 0
        /\ \/ CallNext(s, "find", waiting_count)
           \/ waiting_count = 1 /\ CallNext(s, "find", 2)
        /\ status' = "corrupted"
        /\ UNCHANGED Students

-----------------------------------------------------------------------------
(* Student_thread_func: the unprotected accesses to Students *)

(* if(Students[i] != WITH_TA) acquire_chair(i) *)
Tested(s) ==
  /\ Goto(s, "tested", IF Students[s] # "WITH_TA" THEN "want_chair" ELSE "sit")
  /\ UNCHANGED <<Students, waiting_count, sems, i, status>>

Sit(s) ==
  /\ Goto(s, "sit", IF Students[s] = "WAITING_FOR_TA" THEN "seated" ELSE "visit")
  /\ UNCHANGED <<Students, waiting_count, sems, i, status>>

ChairWait(s) ==
  /\ Goto(s, "seated", "visit")
  /\ TA_chairs_sem > 0
  /\ TA_chairs_sem' = TA_chairs_sem - 1
  /\ UNCHANGED <<Students, waiting_count, TA_test_sem, TA_lock_sem, i, status>>

Visit(s) ==
  /\ Goto(s, "visit", IF Students[s] = "WITH_TA" THEN "with" ELSE "leave")
  /\ UNCHANGED <<Students, waiting_count, sems, i, status>>

Leave(s) ==
  /\ Goto(s, "leave", "program")
  /\ Students' = [Students EXCEPT ![s] = "PROGRAMMING"]
  /\ UNCHANGED <<waiting_count, sems, i, status>>

Student_thread_func(s) ==
  \/ TestWait(s, "program", "test") \/ TestLine(s) \/ TestSearch(s)
  \/ AcquireTA(s) \/ TABusyAlone(s)
  \/ Tested(s) \/ TestWait(s, "want_chair", "chair") \/ AcquireChair(s)
  \/ Sit(s) \/ ChairWait(s) \/ Visit(s)
  \/ TestWait(s, "with", "release") \/ GiveBack(s) \/ Find(s) \/ Overrun(s)
  \/ Found(s) \/ GiveTA(s) \/ Leave(s)

Next == status # "aborted" /\ \E s \in Ids : Student_thread_func(s)

Spec == Init /\ [][Next]_vars

-----------------------------------------------------------------------------
(* The sanity check of acquire_TA: the TA lock is available if no student  *)
(* is with the TA, as test_is_ta_busy has found out before it calls it, as *)
(* long as no search has left Students.                                    *)
LockFreeIfNobodyWithTA ==
  \A s \in Ids :
    status = "running" /\ pc[s] = "acquire" => TA_lock_sem > 0
=============================================================================
