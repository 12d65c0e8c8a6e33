----------------------------- MODULE SleepingTA -----------------------------
(***************************************************************************)
(* Project 1 of chapter 5: the sleeping teaching assistant.  Students and  *)
(* the TA synchronise by eight semaphores only; Students[] and             *)
(* student_with_TA are plain shared variables.  Every semaphore operation  *)
(* and every access to a shared variable is a step of its own.             *)
(* Chair_outside_sem is never initialised by the program; a static sem_t   *)
(* is all zeroes, which is a semaphore of value 0 for the C library.       *)
(* free_chairs_count is added in ChairCount.                               *)
(***************************************************************************)
EXTENDS Integers, FiniteSets

CONSTANTS NUM_STUDENTS, NUM_TA_CHAIRS

ASSUME OfficeAssumption ==
  NUM_STUDENTS \in Nat \ {0} /\ NUM_TA_CHAIRS \in Nat \ {0}

Student == 0 .. (NUM_STUDENTS - 1)
NoStudent == -1

Semaphores == {"TA_lock", "TA_office_chair", "TA_help_request",
               "TA_help_request1", "TA_help_request2", "TA_help_request3",
               "Chair_outside", "Wait_chairs"}

VARIABLES
  sem,              \* the values of the semaphores
  Students,         \* "PROGRAMMING", "WAITING_FOR_TA" or "WITH_TA"
  student_with_TA,
  pc,               \* where each student is
  ta                \* where the TA is

vars == <<sem, Students, student_with_TA, pc, ta>>

Init ==
  /\ sem = [s \in Semaphores |-> CASE s = "TA_lock" -> 1
                                   [] s = "Wait_chairs" -> NUM_TA_CHAIRS
                                   [] OTHER -> 0]
  /\ Students = [i \in Student |-> "PROGRAMMING"]
  /\ student_with_TA = NoStudent
  /\ pc = [i \in Student |-> "new"]
  /\ ta = "new"

sem_wait(s) == sem[s] > 0 /\ sem' = [sem EXCEPT ![s] = @ - 1]
sem_post(s) == sem' = [sem EXCEPT ![s] = @ + 1]

StudentGoto(i, from, to) ==
  /\ pc[i] = from
  /\ pc' = [pc EXCEPT ![i] = to]
  /\ UNCHANGED ta

TAGoto(from, to) == ta = from /\ ta' = to /\ UNCHANGED pc

(* A step of a thread that touches nothing but one semaphore. *)
SharedUnchanged == UNCHANGED <<Students, student_with_TA>>

CreateStudent(i) ==
  StudentGoto(i, "new", "programming") /\ UNCHANGED sem /\ SharedUnchanged

CreateTA == TAGoto("new", "nap") /\ UNCHANGED sem /\ SharedUnchanged

-----------------------------------------------------------------------------
(* acquire_chair: sem_trywait *)
TryChair(i) ==
  /\ IF sem["Wait_chairs"] > 0
     THEN StudentGoto(i, "programming", "request") /\ sem_wait("Wait_chairs")
     ELSE StudentGoto(i, "programming", "check") /\ UNCHANGED sem
  /\ SharedUnchanged

(* Mutant: takes a seat without telling the TA. *)
RequestForgotten(i) ==
  StudentGoto(i, "request", "request1") /\ UNCHANGED sem /\ SharedUnchanged

Request(i) ==
  /\ StudentGoto(i, "request", "request1")
  /\ sem_post("TA_help_request")
  /\ SharedUnchanged

Request1(i) ==
  /\ StudentGoto(i, "request1", "sit")
  /\ sem_post("TA_help_request1")
  /\ SharedUnchanged

Sit(i) ==
  /\ StudentGoto(i, "sit", "outside")
  /\ Students' = [Students EXCEPT ![i] = "WAITING_FOR_TA"]
  /\ UNCHANGED <<sem, student_with_TA>>

CalledIn(i) ==
  /\ StudentGoto(i, "outside", "stand")
  /\ sem_wait("Chair_outside")
  /\ SharedUnchanged

FreeChair(i) ==
  /\ StudentGoto(i, "stand", "check")
  /\ sem_post("Wait_chairs")
  /\ SharedUnchanged

(* Student_thread_func: my turn, or no chair for me *)
Check(i) ==
  /\ StudentGoto(i, "check", IF Students[i] = "WAITING_FOR_TA"
                             THEN "lock" ELSE "programming")
  /\ UNCHANGED sem
  /\ SharedUnchanged

(* acquire_TA *)
LockTA(i) ==
  /\ StudentGoto(i, "lock", "enter")
  /\ sem_wait("TA_lock")
  /\ SharedUnchanged

Enter(i) ==
  /\ StudentGoto(i, "enter", "announce")
  /\ student_with_TA' = i
  /\ UNCHANGED <<sem, Students>>

Announce(i) ==
  /\ StudentGoto(i, "announce", "office")
  /\ sem_post("TA_help_request2")
  /\ SharedUnchanged

KickedOut(i) ==
  /\ StudentGoto(i, "office", "leave")
  /\ sem_wait("TA_office_chair")
  /\ SharedUnchanged

Leave(i) ==
  /\ StudentGoto(i, "leave", "unlock")
  /\ student_with_TA' = NoStudent
  /\ UNCHANGED <<sem, Students>>

UnlockTA(i) ==
  /\ StudentGoto(i, "unlock", "release")
  /\ sem_post("TA_lock")
  /\ SharedUnchanged

Release(i) ==
  /\ StudentGoto(i, "release", "programming")
  /\ sem_post("TA_help_request3")
  /\ SharedUnchanged

Student_thread_func(i) ==
  \/ TryChair(i) \/ Request(i) \/ Request1(i) \/ Sit(i) \/ CalledIn(i)
  \/ FreeChair(i) \/ Check(i) \/ LockTA(i) \/ Enter(i) \/ Announce(i)
  \/ KickedOut(i) \/ Leave(i) \/ UnlockTA(i) \/ Release(i)

-----------------------------------------------------------------------------
(* TA_take_nap *)
Nap == TAGoto("nap", "next") /\ sem_wait("TA_help_request") /\ SharedUnchanged

(* check_for_waiting_students *)
WaitSeated ==
  TAGoto("next", "call") /\ sem_wait("TA_help_request1") /\ SharedUnchanged

CallIn == TAGoto("call", "help") /\ sem_post("Chair_outside") /\ SharedUnchanged

(* TA_help_next_student *)
WaitEntered ==
  TAGoto("help", "teach") /\ sem_wait("TA_help_request2") /\ SharedUnchanged

Teach ==
  /\ TAGoto("teach", "kick")
  /\ Students' = [Students EXCEPT ![student_with_TA] = "WITH_TA"]
  /\ UNCHANGED <<sem, student_with_TA>>

(* Mutant: the student is told to leave before its state is reset. *)
KickOutFirst ==
  TAGoto("kick", "tell") /\ sem_post("TA_office_chair") /\ SharedUnchanged

KickOut ==
  /\ TAGoto("kick", "tell")
  /\ Students' = [Students EXCEPT ![student_with_TA] = "PROGRAMMING"]
  /\ UNCHANGED <<sem, student_with_TA>>

TellToLeave ==
  TAGoto("tell", "freed") /\ sem_post("TA_office_chair") /\ SharedUnchanged

(* Mutant: does not wait for the student to have left. *)
WaitFreedForgotten ==
  TAGoto("freed", "nap") /\ UNCHANGED sem /\ SharedUnchanged

WaitFreed ==
  TAGoto("freed", "nap") /\ sem_wait("TA_help_request3") /\ SharedUnchanged

TA_thread_func ==
  \/ Nap \/ WaitSeated \/ CallIn \/ WaitEntered \/ Teach \/ KickOut
  \/ TellToLeave \/ WaitFreed

-----------------------------------------------------------------------------
Next ==
  \/ CreateTA \/ TA_thread_func
  \/ \E i \in Student : CreateStudent(i) \/ Student_thread_func(i)

Spec == Init /\ [][Next]_vars

(* Every thread runs, and a student on a chair outside is not passed over  *)
(* for ever by the semaphore.                                              *)
FairSpec ==
  /\ Spec
  /\ WF_vars(CreateTA \/ TA_thread_func)
  /\ \A i \in Student :
       /\ WF_vars(CreateStudent(i) \/ Student_thread_func(i))
       /\ SF_vars(CalledIn(i))

-----------------------------------------------------------------------------
(* Properties *)

InOffice == {"stand", "lock", "enter", "announce", "office", "leave",
             "unlock", "release"}

(* The assertions of TA_help_next_student, and what its later uses of      *)
(* student_with_TA take for granted: from the moment the TA was told of a  *)
(* student until it sends it away, student_with_TA is that student, who is *)
(* in the office and waiting for it.                                       *)
StudentStays ==
  /\ ta = "teach" =>
       /\ student_with_TA # NoStudent
       /\ Students[student_with_TA] = "WAITING_FOR_TA"
  /\ ta = "kick" =>
       /\ student_with_TA # NoStudent
       /\ Students[student_with_TA] = "WITH_TA"
  /\ ta \in {"teach", "kick", "tell"} =>
       student_with_TA # NoStudent /\ pc[student_with_TA] = "office"

(* Only one student at a time is on its way from the chair through the     *)
(* office, and none while the TA naps: the TA calls the next one after the *)
(* last has released it.                                                   *)
OneAtATime ==
  /\ Cardinality({i \in Student : pc[i] \in InOffice}) <= 1
  /\ ta \in {"nap", "next", "call"} =>
       \A i \in Student : pc[i] \notin InOffice

(* The TA does not sleep through a request: if it would nap now, no        *)
(* student has a seat and its request behind it.                           *)
NapOnlyIfNobodyWaits ==
  ta = "nap" /\ sem["TA_help_request"] = 0 =>
    \A i \in Student : pc[i] \notin {"request1", "sit", "outside"}

(* A student that sits outside gets its time with the TA. *)
EveryoneSeatedIsHelped ==
  \A i \in Student :
    Students[i] = "WAITING_FOR_TA" ~> Students[i] = "WITH_TA"

-----------------------------------------------------------------------------
(* The inductive invariant *)

TypeOK ==
  /\ sem \in [Semaphores -> Nat]
  /\ Students \in [Student -> {"PROGRAMMING", "WAITING_FOR_TA", "WITH_TA"}]
  /\ student_with_TA \in Student \cup {NoStudent}
  /\ pc \in [Student -> {"new", "programming", "request", "request1", "sit",
                         "outside", "check"} \cup InOffice]
  /\ ta \in {"new", "nap", "next", "call", "help", "teach", "kick", "tell",
             "freed"}

(* The TA has called the student in and was not released by it yet. *)
Called(i) ==
  pc[i] \in InOffice \/ (pc[i] = "check" /\ Students[i] = "WAITING_FOR_TA")

(* The students that have asked for the TA and still sit outside. *)
Requested == {i \in Student : pc[i] \in {"request1", "sit", "outside"}}

(* One call of the TA is under way at most: it is in Chair_outside_sem,    *)
(* then with the student that was called, and in the end in                *)
(* TA_help_request3; the semaphores between the two are handed to and fro  *)
(* by that student and the TA.                                             *)
OneCall ==
  /\ \A i, j \in Student : Called(i) /\ Called(j) => i = j
  /\ sem["Chair_outside"] # 0 =>
       sem["Chair_outside"] = 1 /\ ta = "help" /\ \A i \in Student : ~Called(i)
  /\ sem["TA_help_request2"] # 0 =>
       sem["TA_help_request2"] = 1 /\ ta = "help" /\ \E i \in Student : pc[i] = "office"
  /\ sem["TA_office_chair"] # 0 =>
       sem["TA_office_chair"] = 1 /\ ta = "freed" /\ \E i \in Student : pc[i] = "office"
  /\ sem["TA_help_request3"] # 0 =>
       sem["TA_help_request3"] = 1 /\ ta = "freed" /\ \A i \in Student : ~Called(i)
  /\ ta \in {"teach", "kick", "tell"} => \E i \in Student : pc[i] = "office"

(* Where the TA is when the student it called is at its place. *)
InStep ==
  \A i \in Student :
    /\ Called(i) /\ pc[i] \in {"stand", "check", "lock", "enter", "announce"} =>
         ta = "help" /\ sem["TA_help_request2"] = 0
    /\ pc[i] = "office" =>
         \/ ta = "help" /\ sem["TA_help_request2"] = 1
         \/ ta \in {"teach", "kick", "tell"}
         \/ ta = "freed" /\ sem["TA_office_chair"] = 1
    /\ pc[i] \in {"leave", "unlock", "release"} =>
         ta = "freed" /\ sem["TA_office_chair"] = 0
    /\ pc[i] \in {"announce", "office", "leave"} => student_with_TA = i

(* What Students[] says of each student. *)
StatesAgree ==
  \A i \in Student :
    /\ pc[i] \in {"outside", "stand", "lock", "enter", "announce"} =>
         Students[i] = "WAITING_FOR_TA"
    /\ pc[i] = "check" => Students[i] # "WITH_TA"
    /\ pc[i] = "office" =>
         Students[i] = CASE ta \in {"help", "teach"} -> "WAITING_FOR_TA"
                         [] ta = "kick" -> "WITH_TA"
                         [] OTHER -> "PROGRAMMING"
    /\ pc[i] \in {"new", "programming", "request", "request1", "sit", "leave",
                  "unlock", "release"} => Students[i] = "PROGRAMMING"

(* Every request is in TA_help_request, is what the TA acts on, or is in   *)
(* Chair_outside_sem already.                                              *)
RequestsCounted ==
  Cardinality(Requested) =
    sem["TA_help_request"] + (IF ta \in {"next", "call"} THEN 1 ELSE 0)
      + sem["Chair_outside"]

IInv == TypeOK /\ OneCall /\ InStep /\ StatesAgree /\ RequestsCounted
=============================================================================
