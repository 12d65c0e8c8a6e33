--------------------------- MODULE ServiceProofs ----------------------------
(***************************************************************************)
(* Proofs about the programs whose processes meet at something they share, *)
(* for every value of the constants: the office of the sleeping TA, the    *)
(* file of LockingExample and the socket of the date servers.  Each        *)
(* program keeps the inductive invariant of its own module.  The first     *)
(* section is about SleepingTA: that the TA and the student it helps stay  *)
(* together, that only one student at a time is on its way through the     *)
(* office, and that the TA sleeps through no request.                      *)
(***************************************************************************)
EXTENDS SleepingTA, ServiceListings, Sequences, FiniteSetTheorems, TLAPS

-----------------------------------------------------------------------------
(* The sleeping TA *)

(* A student's own step, or main's that creates it. *)
StudentAction(i) == CreateStudent(i) \/ Student_thread_func(i)

(* A step of the TA, or main's that creates it. *)
TAAction == CreateTA \/ TA_thread_func

(* A step of a student preserves TypeOK. *)
LEMMA StudentType ==
  ASSUME IInv, NEW i \in Student, StudentAction(i)
  PROVE  TypeOK'
<1> USE DEF IInv, TypeOK, Semaphores, InOffice, StudentGoto, SharedUnchanged,
        sem_wait, sem_post
<1>1. CASE CreateStudent(i)
  BY <1>1 DEF CreateStudent
<1>2. CASE TryChair(i)
  BY <1>2 DEF TryChair
<1>3. CASE Request(i)
  BY <1>3 DEF Request
<1>4. CASE Request1(i)
  BY <1>4 DEF Request1
<1>5. CASE Sit(i)
  BY <1>5 DEF Sit
<1>6. CASE CalledIn(i)
  BY <1>6 DEF CalledIn
<1>7. CASE FreeChair(i)
  BY <1>7 DEF FreeChair
<1>8. CASE Check(i)
  BY <1>8 DEF Check
<1>9. CASE LockTA(i)
  BY <1>9 DEF LockTA
<1>10. CASE Enter(i)
  BY <1>10 DEF Enter
<1>11. CASE Announce(i)
  BY <1>11 DEF Announce
<1>12. CASE KickedOut(i)
  BY <1>12 DEF KickedOut
<1>13. CASE Leave(i)
  BY <1>13 DEF Leave
<1>14. CASE UnlockTA(i)
  BY <1>14 DEF UnlockTA
<1>15. CASE Release(i)
  BY <1>15 DEF Release
<1> HIDE DEF IInv, TypeOK, Semaphores, InOffice, StudentGoto, SharedUnchanged,
         sem_wait, sem_post
<1> QED BY Zenon, <1>1, <1>2, <1>3, <1>4, <1>5, <1>6, <1>7, <1>8, <1>9, <1>10,
    <1>11, <1>12, <1>13, <1>14, <1>15
        DEF StudentAction, Student_thread_func

(* A step of the TA preserves TypeOK. *)
LEMMA TAType ==
  ASSUME IInv, TAAction
  PROVE  TypeOK'
<1> USE DEF IInv, TypeOK, Semaphores, InOffice, TAGoto, SharedUnchanged,
        sem_wait, sem_post
<1>1. CASE CreateTA
  BY <1>1 DEF CreateTA
<1>2. CASE Nap
  BY <1>2 DEF Nap
<1>3. CASE WaitSeated
  BY <1>3 DEF WaitSeated
<1>4. CASE CallIn
  BY <1>4 DEF CallIn
<1>5. CASE WaitEntered
  BY <1>5 DEF WaitEntered
<1>6. CASE Teach
  BY Zenon, <1>6 DEF Teach
<1>7. CASE KickOut
  BY Zenon, <1>7 DEF KickOut
<1>8. CASE TellToLeave
  BY <1>8 DEF TellToLeave
<1>9. CASE WaitFreed
  BY SMTT(30), <1>9 DEF WaitFreed
<1> HIDE DEF IInv, TypeOK, Semaphores, InOffice, TAGoto, SharedUnchanged,
         sem_wait, sem_post
<1> QED BY Zenon, <1>1, <1>2, <1>3, <1>4, <1>5, <1>6, <1>7, <1>8, <1>9
        DEF TAAction, TA_thread_func

(* A step of a student preserves OneCall. *)
LEMMA StudentOneCall ==
  ASSUME IInv, NEW i \in Student, StudentAction(i)
  PROVE  OneCall'
<1> USE DEF IInv, TypeOK, Semaphores, InOffice, StudentGoto, SharedUnchanged,
        sem_wait, sem_post, OneCall,
        InStep, StatesAgree, Called
<1>1. CASE CreateStudent(i)
  BY <1>1 DEF CreateStudent
<1>2. CASE TryChair(i)
  BY SMTT(30), <1>2 DEF TryChair
<1>3. CASE Request(i)
  BY <1>3 DEF Request
<1>4. CASE Request1(i)
  BY <1>4 DEF Request1
<1>5. CASE Sit(i)
  BY <1>5 DEF Sit
<1>6. CASE CalledIn(i)
  BY SMTT(30), <1>6 DEF CalledIn
<1>7. CASE FreeChair(i)
  BY SMTT(30), <1>7 DEF FreeChair
<1>8. CASE Check(i)
  BY SMTT(30), <1>8 DEF Check
<1>9. CASE LockTA(i)
  BY <1>9 DEF LockTA
<1>10. CASE Enter(i)
  BY SMTT(30), <1>10 DEF Enter
<1>11. CASE Announce(i)
  BY SMTT(30), <1>11 DEF Announce
<1>12. CASE KickedOut(i)
  BY SMTT(30), <1>12 DEF KickedOut
<1>13. CASE Leave(i)
  BY SMTT(30), <1>13 DEF Leave
<1>14. CASE UnlockTA(i)
  BY SMTT(30), <1>14 DEF UnlockTA
<1>15. CASE Release(i)
  BY SMTT(30), <1>15 DEF Release
<1> HIDE DEF IInv, TypeOK, Semaphores, InOffice, StudentGoto, SharedUnchanged,
         sem_wait, sem_post, OneCall,
        InStep, StatesAgree, Called
<1> QED BY Zenon, <1>1, <1>2, <1>3, <1>4, <1>5, <1>6, <1>7, <1>8, <1>9, <1>10,
    <1>11, <1>12, <1>13, <1>14, <1>15
        DEF StudentAction, Student_thread_func

(* A step of the TA preserves OneCall. *)
LEMMA TAOneCall ==
  ASSUME IInv, TAAction
  PROVE  OneCall'
<1> USE DEF IInv, TypeOK, Semaphores, InOffice, TAGoto, SharedUnchanged,
        sem_wait, sem_post, OneCall,
        InStep, StatesAgree, Called
<1>1. CASE CreateTA
  BY <1>1 DEF CreateTA
<1>2. CASE Nap
  BY SMTT(30), <1>2 DEF Nap
<1>3. CASE WaitSeated
  BY SMTT(30), <1>3 DEF WaitSeated
<1>4. CASE CallIn
  BY SMTT(30), <1>4 DEF CallIn
<1>5. CASE WaitEntered
  BY SMTT(30), <1>5 DEF WaitEntered
<1>6. CASE Teach
  BY <1>6 DEF Teach
<1>7. CASE KickOut
  BY SMTT(30), <1>7 DEF KickOut
<1>8. CASE TellToLeave
  BY SMTT(30), <1>8 DEF TellToLeave
<1>9. CASE WaitFreed
  BY SMTT(30), <1>9 DEF WaitFreed
<1> HIDE DEF IInv, TypeOK, Semaphores, InOffice, TAGoto, SharedUnchanged,
         sem_wait, sem_post, OneCall,
        InStep, StatesAgree, Called
<1> QED BY Zenon, <1>1, <1>2, <1>3, <1>4, <1>5, <1>6, <1>7, <1>8, <1>9
        DEF TAAction, TA_thread_func

(* A step of a student preserves InStep. *)
LEMMA StudentInStep ==
  ASSUME IInv, NEW i \in Student, StudentAction(i)
  PROVE  InStep'
<1> USE DEF IInv, TypeOK, Semaphores, InOffice, StudentGoto, SharedUnchanged,
        sem_wait, sem_post, OneCall,
        InStep, StatesAgree, Called
<1>1. CASE CreateStudent(i)
  BY SMTT(30), <1>1 DEF CreateStudent
<1>2. CASE TryChair(i)
  BY SMTT(30), <1>2 DEF TryChair
<1>3. CASE Request(i)
  BY SMTT(30), <1>3 DEF Request
<1>4. CASE Request1(i)
  BY SMTT(30), <1>4 DEF Request1
<1>5. CASE Sit(i)
  BY SMTT(30), <1>5 DEF Sit
<1>6. CASE CalledIn(i)
  BY SMTT(30), <1>6 DEF CalledIn
<1>7. CASE FreeChair(i)
  BY SMTT(30), <1>7 DEF FreeChair
<1>8. CASE Check(i)
  BY SMTT(30), <1>8 DEF Check
<1>9. CASE LockTA(i)
  BY SMTT(30), <1>9 DEF LockTA
<1>10. CASE Enter(i)
  BY SMTT(30), <1>10 DEF Enter
<1>11. CASE Announce(i)
  BY SMTT(30), <1>11 DEF Announce
<1>12. CASE KickedOut(i)
  BY SMTT(30), <1>12 DEF KickedOut
<1>13. CASE Leave(i)
  BY SMTT(30), <1>13 DEF Leave
<1>14. CASE UnlockTA(i)
  BY SMTT(30), <1>14 DEF UnlockTA
<1>15. CASE Release(i)
  BY SMTT(30), <1>15 DEF Release
<1> HIDE DEF IInv, TypeOK, Semaphores, InOffice, StudentGoto, SharedUnchanged,
         sem_wait, sem_post, OneCall,
        InStep, StatesAgree, Called
<1> QED BY Zenon, <1>1, <1>2, <1>3, <1>4, <1>5, <1>6, <1>7, <1>8, <1>9, <1>10,
    <1>11, <1>12, <1>13, <1>14, <1>15
        DEF StudentAction, Student_thread_func

(* A step of the TA preserves InStep. *)
LEMMA TAInStep ==
  ASSUME IInv, TAAction
  PROVE  InStep'
<1> USE DEF IInv, TypeOK, Semaphores, InOffice, TAGoto, SharedUnchanged,
        sem_wait, sem_post, OneCall,
        InStep, StatesAgree, Called
<1>1. CASE CreateTA
  BY <1>1 DEF CreateTA
<1>2. CASE Nap
  BY <1>2 DEF Nap
<1>3. CASE WaitSeated
  BY SMTT(30), <1>3 DEF WaitSeated
<1>4. CASE CallIn
  BY SMTT(30), <1>4 DEF CallIn
<1>5. CASE WaitEntered
  BY SMTT(30), <1>5 DEF WaitEntered
<1>6. CASE Teach
  BY SMTT(30), <1>6 DEF Teach
<1>7. CASE KickOut
  BY SMTT(30), <1>7 DEF KickOut
<1>8. CASE TellToLeave
  BY SMTT(30), <1>8 DEF TellToLeave
<1>9. CASE WaitFreed
  BY SMTT(30), <1>9 DEF WaitFreed
<1> HIDE DEF IInv, TypeOK, Semaphores, InOffice, TAGoto, SharedUnchanged,
         sem_wait, sem_post, OneCall,
        InStep, StatesAgree, Called
<1> QED BY Zenon, <1>1, <1>2, <1>3, <1>4, <1>5, <1>6, <1>7, <1>8, <1>9
        DEF TAAction, TA_thread_func

(* A step of a student preserves StatesAgree. *)
LEMMA StudentStates ==
  ASSUME IInv, NEW i \in Student, StudentAction(i)
  PROVE  StatesAgree'
<1> USE DEF IInv, TypeOK, Semaphores, InOffice, StudentGoto, SharedUnchanged,
        sem_wait, sem_post, OneCall,
        InStep, StatesAgree, Called
<1>1. CASE CreateStudent(i)
  BY <1>1 DEF CreateStudent
<1>2. CASE TryChair(i)
  BY <1>2 DEF TryChair
<1>3. CASE Request(i)
  BY <1>3 DEF Request
<1>4. CASE Request1(i)
  BY <1>4 DEF Request1
<1>5. CASE Sit(i)
  BY <1>5 DEF Sit
<1>6. CASE CalledIn(i)
  BY SMTT(30), <1>6 DEF CalledIn
<1>7. CASE FreeChair(i)
  BY SMTT(30), <1>7 DEF FreeChair
<1>8. CASE Check(i)
  BY SMTT(30), <1>8 DEF Check
<1>9. CASE LockTA(i)
  BY SMTT(30), <1>9 DEF LockTA
<1>10. CASE Enter(i)
  BY SMTT(30), <1>10 DEF Enter
<1>11. CASE Announce(i)
  BY SMTT(30), <1>11 DEF Announce
<1>12. CASE KickedOut(i)
  BY SMTT(30), <1>12 DEF KickedOut
<1>13. CASE Leave(i)
  BY SMTT(30), <1>13 DEF Leave
<1>14. CASE UnlockTA(i)
  BY SMTT(30), <1>14 DEF UnlockTA
<1>15. CASE Release(i)
  BY SMTT(30), <1>15 DEF Release
<1> HIDE DEF IInv, TypeOK, Semaphores, InOffice, StudentGoto, SharedUnchanged,
         sem_wait, sem_post, OneCall,
        InStep, StatesAgree, Called
<1> QED BY Zenon, <1>1, <1>2, <1>3, <1>4, <1>5, <1>6, <1>7, <1>8, <1>9, <1>10,
    <1>11, <1>12, <1>13, <1>14, <1>15
        DEF StudentAction, Student_thread_func

(* A step of the TA preserves StatesAgree. *)
LEMMA TAStates ==
  ASSUME IInv, TAAction
  PROVE  StatesAgree'
<1> USE DEF IInv, TypeOK, Semaphores, InOffice, TAGoto, SharedUnchanged,
        sem_wait, sem_post, OneCall,
        InStep, StatesAgree, Called
<1>1. CASE CreateTA
  BY SMTT(30), <1>1 DEF CreateTA
<1>2. CASE Nap
  BY SMTT(30), <1>2 DEF Nap
<1>3. CASE WaitSeated
  BY SMTT(30), <1>3 DEF WaitSeated
<1>4. CASE CallIn
  BY SMTT(30), <1>4 DEF CallIn
<1>5. CASE WaitEntered
  BY SMTT(30), <1>5 DEF WaitEntered
<1>6. CASE Teach
  BY SMTT(30), <1>6 DEF Teach
<1>7. CASE KickOut
  BY SMTT(30), <1>7 DEF KickOut
<1>8. CASE TellToLeave
  BY SMTT(30), <1>8 DEF TellToLeave
<1>9. CASE WaitFreed
  BY <1>9 DEF WaitFreed
<1> HIDE DEF IInv, TypeOK, Semaphores, InOffice, TAGoto, SharedUnchanged,
         sem_wait, sem_post, OneCall,
        InStep, StatesAgree, Called
<1> QED BY Zenon, <1>1, <1>2, <1>3, <1>4, <1>5, <1>6, <1>7, <1>8, <1>9
        DEF TAAction, TA_thread_func

(* There are finitely many requests. *)
LEMMA RequestsFinite ==
  IsFiniteSet(Requested) /\ Cardinality(Requested) \in Nat
<1>1. IsFiniteSet(Student)
  BY OfficeAssumption, FS_Interval DEF Student
<1>2. Requested \subseteq Student
  BY DEF Requested
<1> QED BY <1>1, <1>2, FS_Subset, FS_CardinalityType

(* A student joins those that have asked for the TA with Request, and      *)
(* leaves them when it is called in.                                       *)
LEMMA StudentRequests ==
  ASSUME IInv, NEW i \in Student, StudentAction(i)
  PROVE  RequestsCounted'
<1> USE DEF IInv, TypeOK, Semaphores, InOffice, StudentGoto, SharedUnchanged,
        sem_wait, sem_post
<1>1. Cardinality(Requested) \in Nat /\ IsFiniteSet(Requested)
  BY RequestsFinite
<1>2. CASE Request(i)
  <2>1. Requested' = Requested \cup {i} /\ i \notin Requested
    BY <1>2 DEF Request, Requested
  <2>2. Cardinality(Requested') = Cardinality(Requested) + 1
    BY Zenon, <2>1, <1>1, FS_AddElement
  <2>3. /\ sem'["TA_help_request"] = sem["TA_help_request"] + 1
        /\ UNCHANGED ta /\ sem'["Chair_outside"] = sem["Chair_outside"]
    BY SMTT(30), <1>2 DEF Request
  <2> QED BY SMTT(30), <1>1, <2>2, <2>3 DEF RequestsCounted
<1>3. CASE CalledIn(i)
  <2>1. Requested' = Requested \ {i} /\ i \in Requested
    BY <1>3 DEF CalledIn, Requested
  <2>2. Cardinality(Requested') = Cardinality(Requested) - 1
    BY Zenon, <2>1, <1>1, FS_RemoveElement
  <2>3. /\ sem'["Chair_outside"] = sem["Chair_outside"] - 1
        /\ UNCHANGED ta /\ sem'["TA_help_request"] = sem["TA_help_request"]
    BY <1>3 DEF CalledIn
  <2> QED BY SMTT(30), <1>1, <2>2, <2>3 DEF RequestsCounted
<1>4. CASE ~Request(i) /\ ~CalledIn(i)
  <2>1. /\ Requested' = Requested /\ UNCHANGED ta
        /\ sem'["Chair_outside"] = sem["Chair_outside"]
        /\ sem'["TA_help_request"] = sem["TA_help_request"]
    <3> USE DEF Requested
    <3>1. CASE CreateStudent(i) \/ TryChair(i) \/ Request1(i) \/ Sit(i)
      BY <3>1 DEF CreateStudent, TryChair, Request1, Sit
    <3>2. CASE FreeChair(i) \/ Check(i) \/ LockTA(i) \/ Enter(i)
      BY <3>2 DEF FreeChair, Check, LockTA, Enter
    <3>3. CASE Announce(i) \/ KickedOut(i) \/ Leave(i)
      BY <3>3 DEF Announce, KickedOut, Leave
    <3>4. CASE UnlockTA(i) \/ Release(i)
      BY <3>4 DEF UnlockTA, Release
    <3> HIDE DEF IInv, TypeOK, Semaphores, InOffice, StudentGoto,
             SharedUnchanged, sem_wait, sem_post, Requested
    <3> QED BY Zenon, <1>4, <3>1, <3>2, <3>3, <3>4
            DEF StudentAction, Student_thread_func
  <2> QED BY <2>1 DEF RequestsCounted
<1> QED BY <1>2, <1>3, <1>4

(* The TA takes a request with Nap, and hands it to a student with CallIn. *)
LEMMA TARequests ==
  ASSUME IInv, TAAction
  PROVE  RequestsCounted'
<1> USE DEF IInv, TypeOK, Semaphores, TAGoto, SharedUnchanged, sem_wait,
        sem_post
<1>1. Requested' = Requested /\ Cardinality(Requested) \in Nat
  BY RequestsFinite DEF Requested, TAAction, TA_thread_func, CreateTA, Nap,
     WaitSeated, CallIn, WaitEntered, Teach, KickOut, TellToLeave, WaitFreed
<1>2. CASE CreateTA \/ Nap \/ WaitSeated \/ CallIn
  BY <1>1, <1>2 DEF RequestsCounted, CreateTA, Nap, WaitSeated, CallIn
<1>3. CASE WaitEntered \/ Teach \/ KickOut
  BY <1>1, <1>3 DEF RequestsCounted, WaitEntered, Teach, KickOut
<1>4. CASE TellToLeave \/ WaitFreed
  BY <1>1, <1>4 DEF RequestsCounted, TellToLeave, WaitFreed
<1> QED BY SMTT(30), <1>2, <1>3, <1>4 DEF TAAction, TA_thread_func

(* The students and the TA are in step, and no request is lost: IInv holds *)
(* in every state of the program.                                          *)
THEOREM IInvInvariant == Spec => []IInv
<1>1. Init => IInv
  <2> SUFFICES ASSUME Init PROVE IInv
    OBVIOUS
  <2>1. TypeOK /\ OneCall /\ InStep /\ StatesAgree
    BY OfficeAssumption DEF Init, TypeOK, OneCall, InStep, StatesAgree, Called,
        InOffice, Semaphores, NoStudent
  <2>2. Requested = {}
    BY DEF Init, Requested
  <2>3. RequestsCounted
    BY <2>2, FS_EmptySet DEF Init, RequestsCounted, Semaphores
  <2> QED BY <2>1, <2>3 DEF IInv
<1>2. IInv /\ [Next]_vars => IInv'
  <2> SUFFICES ASSUME IInv, [Next]_vars PROVE IInv'
    OBVIOUS
  <2>1. ASSUME NEW i \in Student, StudentAction(i) PROVE IInv'
    BY SMTT(30), <2>1, StudentType, StudentOneCall, StudentInStep,
        StudentStates,
       StudentRequests DEF IInv
  <2>2. CASE TAAction
    BY SMTT(30), <2>2, TAType, TAOneCall, TAInStep, TAStates, TARequests
        DEF IInv
  <2>3. CASE UNCHANGED vars
    BY <2>3 DEF vars, IInv, TypeOK, OneCall, InStep, StatesAgree, Called,
        RequestsCounted, Requested
  <2> QED BY <2>1, <2>2, <2>3 DEF Next, StudentAction, TAAction
<1> QED BY <1>1, <1>2, PTL DEF Spec

(* The assertions of TA_help_next_student hold, and the student that the   *)
(* TA helps is the one in the office until the TA sends it away.           *)
THEOREM StudentIsHelped == Spec => []StudentStays
<1>1. IInv => StudentStays
  BY SMTT(30), OfficeAssumption DEF IInv, TypeOK, OneCall, InStep, StatesAgree,
      StudentStays, Student,
      NoStudent
<1> QED BY <1>1, IInvInvariant, PTL

(* One student at a time is on its way through the office, and none while  *)
(* the TA naps or has not called yet.                                      *)
THEOREM OneStudentInOffice == Spec => []OneAtATime
<1>1. IInv => OneAtATime
  <2> SUFFICES ASSUME IInv PROVE OneAtATime
    OBVIOUS
  <2> DEFINE In == {i \in Student : pc[i] \in InOffice}
  <2>1. \A i \in In : In = {i}
    BY DEF IInv, OneCall, Called
  <2>2. Cardinality(In) <= 1
    <3>1. CASE In = {}
      BY <3>1, FS_EmptySet
    <3>2. CASE In # {}
      <4>1. PICK i \in In : In = {i}
        BY SMTT(30), <2>1, <3>2
      <4>2. Cardinality(In) = 1
        BY Zenon, <4>1, FS_Singleton
      <4> QED BY <4>2
    <3> QED BY <3>1, <3>2
  <2>3. ASSUME ta \in {"nap", "next", "call"}, NEW i \in Student
        PROVE  pc[i] \notin InOffice
    BY SMTT(30), <2>3 DEF IInv, InStep, Called, InOffice
  <2> QED BY <2>2, <2>3 DEF OneAtATime
<1> QED BY <1>1, IInvInvariant, PTL

(* A TA that would go to sleep now leaves nobody waiting outside. *)
THEOREM TASleepsThroughNoRequest == Spec => []NapOnlyIfNobodyWaits
<1>1. IInv => NapOnlyIfNobodyWaits
  <2> SUFFICES ASSUME IInv, ta = "nap", sem["TA_help_request"] = 0
               PROVE  Requested = {}
    BY DEF NapOnlyIfNobodyWaits, Requested
  <2>1. sem["Chair_outside"] = 0
    BY DEF IInv, OneCall
  <2>2. Cardinality(Requested) = 0
    BY <2>1 DEF IInv, RequestsCounted
  <2> QED BY <2>2, RequestsFinite, FS_EmptySet
<1> QED BY <1>1, IInvInvariant, PTL

-----------------------------------------------------------------------------
(* LockingExample *)

(* A step of LockingExample keeps the types. *)
LEMMA FileLocksType ==
  ASSUME L!IInv, L!Next
  PROVE  L!TypeOK'
<1> USE DEF L!IInv, L!TypeOK
<1>1. CASE L!Prepare
  BY SMTT(30), <1>1 DEF L!Prepare
<1>2. ASSUME NEW p \in Lockers, L!LockExclusive(p) PROVE L!TypeOK'
  BY SMTT(30), <1>2 DEF L!LockExclusive, L!Goto, L!Region
<1>3. ASSUME NEW p \in Lockers, L!LockShared(p) PROVE L!TypeOK'
  BY SMTT(30), <1>3 DEF L!LockShared, L!Goto, L!Region
<1>4. ASSUME NEW p \in Lockers,
             L!Release(p) \/ L!ReleaseAgain(p) \/ L!Finally(p) \/ L!Catch(p)
      PROVE  L!TypeOK'
  BY SMTT(30), <1>4 DEF L!Release, L!ReleaseAgain, L!Finally, L!Catch, L!Goto
<1> HIDE DEF L!IInv, L!TypeOK
<1> QED BY SMTT(30), <1>1, <1>2, <1>3, <1>4 DEF L!Next, L!Progress, L!Step

(* A step of LockingExample keeps what a process has locked at each place. *)
LEMMA FileLocksPlaces ==
  ASSUME L!IInv, L!Next
  PROVE  L!LocksByPlace'
<1> USE DEF L!IInv, L!TypeOK, L!LocksByPlace
<1>1. CASE L!Prepare
  BY SMTT(30), <1>1 DEF L!Prepare
<1>2. ASSUME NEW p \in Lockers, L!LockExclusive(p) PROVE L!LocksByPlace'
  BY SMTT(30), <1>2 DEF L!LockExclusive, L!Goto
<1>3. ASSUME NEW p \in Lockers, L!LockShared(p) PROVE L!LocksByPlace'
  BY SMTT(30), <1>3 DEF L!LockShared, L!Goto
<1>4. ASSUME NEW p \in Lockers,
             L!Release(p) \/ L!ReleaseAgain(p) \/ L!Finally(p) \/ L!Catch(p)
      PROVE  L!LocksByPlace'
  BY SMTT(30), <1>4 DEF L!Release, L!ReleaseAgain, L!Finally, L!Catch, L!Goto
<1> HIDE DEF L!IInv, L!TypeOK, L!LocksByPlace
<1> QED BY <1>1, <1>2, <1>3, <1>4 DEF L!Next, L!Progress, L!Step

(* A step of LockingExample makes no conflicting locks. *)
LEMMA FileLocksConflict ==
  ASSUME L!IInv, L!Next
  PROVE  L!NoConflict'
<1> USE DEF L!IInv, L!TypeOK, L!NoConflict
<1>1. CASE L!Prepare
  BY SMTT(30), <1>1 DEF L!Prepare
<1>2. ASSUME NEW p \in Lockers, L!LockExclusive(p) PROVE L!NoConflict'
  BY SMTT(30), <1>2 DEF L!LockExclusive, L!Goto
<1>3. ASSUME NEW p \in Lockers, L!LockShared(p) PROVE L!NoConflict'
  BY SMTT(30), <1>3 DEF L!LockShared, L!Goto
<1>4. ASSUME NEW p \in Lockers,
             L!Release(p) \/ L!ReleaseAgain(p) \/ L!Finally(p) \/ L!Catch(p)
      PROVE  L!NoConflict'
  BY <1>4 DEF L!Release, L!ReleaseAgain, L!Finally, L!Catch, L!Goto
<1> HIDE DEF L!IInv, L!TypeOK, L!NoConflict
<1> QED BY <1>1, <1>2, <1>3, <1>4 DEF L!Next, L!Progress, L!Step

(* The inductive invariant of LockingExample holds in every state. *)
THEOREM FileLocksInvariant == L!Spec => []L!IInv
<1>1. L!Init => L!IInv
  BY SMTT(30), FileLocksAssumption
     DEF L!Init, L!IInv, L!TypeOK, L!LocksByPlace, L!NoConflict
<1>2. L!IInv /\ [L!Next]_(L!vars) => L!IInv'
  <2> SUFFICES ASSUME L!IInv, [L!Next]_(L!vars) PROVE L!IInv'
    OBVIOUS
  <2>1. CASE L!Next
    BY SMTT(30), <2>1, FileLocksType, FileLocksPlaces, FileLocksConflict
        DEF L!IInv
  <2>2. CASE UNCHANGED L!vars
    BY SMTT(30), <2>2 DEF L!vars, L!IInv, L!TypeOK, L!LocksByPlace, L!NoConflict
  <2> QED BY <2>1, <2>2
<1> QED BY <1>1, <1>2, PTL DEF L!Spec

(* LockingExample modifies the first half of the file and reads the second *)
(* under locks that no other process conflicts with, locks only the first  *)
(* half for the former (of two bytes or more), and leaves no lock.         *)
THEOREM FileHalvesLocked == L!Spec => []HalvesLocked
<1>1. L!IInv => L!HalvesLocked
  <2> SUFFICES ASSUME L!IInv PROVE L!HalvesLocked
    OBVIOUS
  <2>1. ASSUME NEW p \in Lockers, lock_pc[p] = "modify",
               NEW b \in 0 .. (raf_length \div 2 - 1)
        PROVE  /\ b \in exclusiveLock[p]
               /\ \A q \in Lockers \ {p} :
                    b \notin exclusiveLock[q] \cup sharedLock[q]
    <3>1. b \in exclusiveLock[p]
      BY SMTT(30), <2>1, FileLocksAssumption
         DEF L!IInv, L!TypeOK, L!LocksByPlace, L!Region, L!Bytes
    <3> QED BY SMTT(30), <3>1 DEF L!IInv, L!NoConflict
  <2>2. ASSUME NEW p \in Lockers, lock_pc[p] = "read",
               NEW b \in (raf_length \div 2 + 1) .. (raf_length - 1)
        PROVE  /\ b \in sharedLock[p]
               /\ \A q \in Lockers : b \notin exclusiveLock[q]
    <3>1. b \in sharedLock[p]
      BY SMTT(30), <2>2, FileLocksAssumption
         DEF L!IInv, L!TypeOK, L!LocksByPlace, L!Region, L!Bytes
    <3> QED BY SMTT(30), <2>2, <3>1 DEF L!IInv, L!NoConflict, L!LocksByPlace
  <2>3. ASSUME NEW p \in Lockers, lock_pc[p] = "done"
        PROVE  exclusiveLock[p] = {} /\ sharedLock[p] = {}
    BY SMTT(30), <2>3 DEF L!IInv, L!LocksByPlace
  <2>4. ASSUME NEW p \in Lockers, lock_pc[p] = "modify", raf_length >= 2
        PROVE  exclusiveLock[p] \subseteq 0 .. (raf_length \div 2 - 1)
    BY SMTT(30), <2>4, FileLocksAssumption
       DEF L!IInv, L!TypeOK, L!LocksByPlace, L!Region, L!Bytes
  <2> QED BY SMTT(30), <2>1, <2>2, <2>3, <2>4 DEF L!HalvesLocked
<1>2. L!HalvesLocked => HalvesLocked
  BY DEF HalvesLocked
<1> QED BY <1>1, <1>2, FileLocksInvariant, PTL

-----------------------------------------------------------------------------
(* The date servers *)

(* A step of a date server or a client keeps the types. *)
LEMMA DateServerType ==
  ASSUME D!IInv, D!Next
  PROVE  D!TypeOK'
<1> USE DEF D!IInv, D!TypeOK
<1>1. CASE D!Start
  BY SMTT(30), <1>1 DEF D!Start
<1>2. ASSUME NEW c \in Clients, D!Connect(c) PROVE D!TypeOK'
  <2>1. client' \in [Clients -> {"idle", "reading", "refused", "printed", "nothing"}]
    BY SMTT(30), <1>2 DEF D!Connect
  <2>2. backlog' \in Seq(Clients)
    BY SMTT(30), <1>2 DEF D!Connect
  <2>3. UNCHANGED <<version, server, worker>>
    BY Zenon, <1>2 DEF D!Connect
  <2> QED BY Zenon, <2>1, <2>2, <2>3
<1>3. ASSUME NEW c \in Clients, D!ReadLines(c) PROVE D!TypeOK'
  BY SMTT(30), <1>3 DEF D!ReadLines
<1>4. CASE D!Accept
  BY SMTT(30), <1>4 DEF D!Accept
<1>5. CASE D!AcceptFails
  BY SMTT(30), <1>5 DEF D!AcceptFails
<1>6. ASSUME NEW c \in Clients, D!WriteDate(c) PROVE D!TypeOK'
  BY SMTT(30), <1>6 DEF D!WriteDate
<1>7. ASSUME NEW c \in Clients, D!Close(c) PROVE D!TypeOK'
  BY SMTT(30), <1>7 DEF D!Close
<1>8. ASSUME NEW c \in Clients, D!Fault(c) PROVE D!TypeOK'
  <2>1. worker' \in [Clients -> {"none", "write", "close", "done"}]
    BY SMTT(30), <1>8 DEF D!Fault
  <2>2. server' \in {"accept", "serve", "join", "stopped"}
    BY Zenon, <1>8 DEF D!Fault
  <2>3. UNCHANGED <<version, backlog, client>>
    BY Zenon, <1>8 DEF D!Fault
  <2> QED BY Zenon, <2>1, <2>2, <2>3
<1>9. CASE D!Join
  BY SMTT(30), <1>9 DEF D!Join
<1> HIDE DEF D!IInv, D!TypeOK
<1> QED BY SMTT(30), <1>1, <1>2, <1>3, <1>4, <1>5, <1>6, <1>7, <1>8, <1>9
    DEF D!Next, D!Progress, D!Work

(* A step keeps main away from accept while a client is served. *)
LEMMA DateServerAccept ==
  ASSUME D!IInv, D!Next
  PROVE  D!AcceptWhenServed'
<1>0. /\ worker \in [Clients -> {"none", "write", "close", "done"}]
      /\ server = "accept" => \A c \in Clients : ~D!Served(c)
      /\ \A c, d \in Clients : D!Served(c) /\ D!Served(d) => c = d
  BY Zenon DEF D!IInv, D!TypeOK, D!AcceptWhenServed, D!ServedInTurn
<1> USE DEF D!AcceptWhenServed, D!Served
<1>1. CASE D!Start \/ D!AcceptFails \/ D!Accept \/ D!Join
  BY SMTT(30), <1>0, <1>1 DEF D!Start, D!AcceptFails, D!Accept, D!Join
<1>2. ASSUME NEW c \in Clients, D!Connect(c) \/ D!ReadLines(c)
      PROVE  D!AcceptWhenServed'
  BY Zenon, <1>0, <1>2 DEF D!Connect, D!ReadLines
<1>3. ASSUME NEW c \in Clients, D!WriteDate(c) PROVE D!AcceptWhenServed'
  BY SMTT(30), <1>0, <1>3 DEF D!WriteDate
<1>4. ASSUME NEW c \in Clients, D!Close(c) PROVE D!AcceptWhenServed'
  BY SMTT(30), <1>0, <1>4 DEF D!Close
<1>5. ASSUME NEW c \in Clients, D!Fault(c) PROVE D!AcceptWhenServed'
  BY SMTT(30), <1>0, <1>5 DEF D!Fault
<1> HIDE DEF D!AcceptWhenServed
<1> QED BY Zenon, <1>1, <1>2, <1>3, <1>4, <1>5 DEF D!Next, D!Progress, D!Work

(* What connecting and accepting do to the backlog. *)
LEMMA BacklogEnds ==
  ASSUME D!TypeOK
  PROVE  /\ \A c \in Clients :
              /\ Len(Append(backlog, c)) = Len(backlog) + 1
              /\ \A k \in 1 .. Len(backlog) : Append(backlog, c)[k] = backlog[k]
              /\ Append(backlog, c)[Len(backlog) + 1] = c
         /\ backlog # << >> =>
              /\ Len(Tail(backlog)) = Len(backlog) - 1 /\ Len(backlog) >= 1
              /\ \A k \in 1 .. Len(Tail(backlog)) : Tail(backlog)[k] = backlog[k + 1]
              /\ Head(backlog) = backlog[1] /\ Head(backlog) \in Clients
         /\ Len(backlog) \in Nat
  BY DEF D!TypeOK

(* A connection puts one client at the end of the backlog. *)
LEMMA ConnectWaits ==
  ASSUME D!IInv, NEW c \in Clients, D!Connect(c)
  PROVE  D!BacklogInTurn' /\ D!ServedInTurn'
<1>0. /\ client[c] = "idle" /\ DOMAIN client = Clients
      /\ UNCHANGED <<server, worker, closed>>
  BY DEF D!Connect, D!IInv, D!TypeOK
<1>1. CASE server = "stopped"
  <2>1. client' = [client EXCEPT ![c] = "refused"] /\ UNCHANGED backlog
    BY <1>1 DEF D!Connect
  <2>2. \A d \in Clients : D!Waits(d)' <=> D!Waits(d)
    BY Zenon, <2>1 DEF D!Waits
  <2>3. \A d \in Clients : (d = c /\ client'[d] = "refused") \/ client'[d] = client[d]
    BY <1>0, <2>1
  <2>4. D!BacklogInTurn'
    BY <1>0, <2>1, <2>2, <2>3 DEF D!IInv, D!BacklogInTurn
  <2>5. D!ServedInTurn'
    BY Zenon, <1>0, <1>1 DEF D!IInv, D!ServedInTurn, D!Served
  <2> QED BY Zenon, <2>4, <2>5
<1>2. CASE server # "stopped"
  <2>1. backlog' = Append(backlog, c) /\ client' = [client EXCEPT ![c] = "reading"]
    BY <1>2 DEF D!Connect
  <2>2. /\ Len(backlog) \in Nat /\ Len(backlog') = Len(backlog) + 1
        /\ \A k \in 1 .. Len(backlog) : backlog'[k] = backlog[k]
        /\ backlog'[Len(backlog) + 1] = c
    BY <2>1, BacklogEnds DEF D!IInv
  <2>3. D!Waits(c)' /\ ~D!Waits(c)
    BY <1>0, <2>2 DEF D!Waits, D!IInv, D!BacklogInTurn
  <2>4. \A d \in Clients \ {c} : D!Waits(d)' <=> D!Waits(d)
    BY <2>2 DEF D!Waits
  <2>5. \A k, l \in 1 .. Len(backlog') : backlog'[k] = backlog'[l] => k = l
    BY <2>2, <2>3 DEF D!IInv, D!BacklogInTurn, D!Waits
  <2>6. /\ \A d \in Clients \ {c} : client'[d] = client[d]
        /\ client'[c] = "reading" /\ worker[c] = "none"
    BY <2>1, <1>0 DEF D!IInv, D!BacklogInTurn
  <2>7. D!BacklogInTurn'
    BY <1>0, <2>3, <2>4, <2>5, <2>6 DEF D!IInv, D!BacklogInTurn
  <2>8. D!ServedInTurn'
    BY <1>0, <2>3, <2>4, <2>6 DEF D!IInv, D!ServedInTurn, D!Served
  <2> QED BY Zenon, <2>7, <2>8
<1> QED BY Zenon, <1>1, <1>2

(* accept() takes the first client of the backlog, who was not served yet. *)
LEMMA AcceptTakes ==
  ASSUME D!IInv, D!Accept
  PROVE  D!BacklogInTurn' /\ D!ServedInTurn'
<1> PICK c \in Clients : c = Head(backlog)
  BY BacklogEnds DEF D!Accept, D!IInv
<1>0. /\ server = "accept" /\ backlog # << >> /\ DOMAIN worker = Clients
      /\ worker' = [worker EXCEPT ![c] = "write"] /\ backlog' = Tail(backlog)
      /\ UNCHANGED <<closed, client>>
  BY DEF D!Accept, D!IInv, D!TypeOK
<1>1. /\ Len(backlog) \in Nat /\ Len(backlog) >= 1
      /\ c = backlog[1] /\ Len(backlog') = Len(backlog) - 1
      /\ \A k \in 1 .. Len(backlog') : backlog'[k] = backlog[k + 1]
  BY <1>0, BacklogEnds DEF D!IInv
<1>2. \A k, l \in 1 .. Len(backlog) : backlog[k] = backlog[l] => k = l
  BY Zenon DEF D!IInv, D!BacklogInTurn
<1>3. D!Waits(c) /\ ~D!Waits(c)'
  <2>1. D!Waits(c)
    BY <1>1 DEF D!Waits
  <2>2. ASSUME NEW k \in 1 .. Len(backlog'), backlog'[k] = c PROVE FALSE
    BY <1>1, <1>2, <2>2
  <2> QED BY Zenon, <2>1, <2>2 DEF D!Waits
<1>4. \A d \in Clients \ {c} : D!Waits(d)' <=> D!Waits(d)
  <2> SUFFICES ASSUME NEW d \in Clients \ {c} PROVE D!Waits(d)' <=> D!Waits(d)
    OBVIOUS
  <2>1. ASSUME NEW k \in 1 .. Len(backlog), backlog[k] = d PROVE D!Waits(d)'
    <3>1. k - 1 \in 1 .. Len(backlog') /\ backlog'[k - 1] = d
      BY <1>1, <2>1
    <3> QED BY Zenon, <3>1 DEF D!Waits
  <2>2. ASSUME NEW k \in 1 .. Len(backlog'), backlog'[k] = d PROVE D!Waits(d)
    <3>1. k + 1 \in 1 .. Len(backlog) /\ backlog[k + 1] = d
      BY <1>1, <2>2
    <3> QED BY Zenon, <3>1 DEF D!Waits
  <2> QED BY Zenon, <2>1, <2>2 DEF D!Waits
<1>5. \A k, l \in 1 .. Len(backlog') : backlog'[k] = backlog'[l] => k = l
  <2> SUFFICES ASSUME NEW k \in 1 .. Len(backlog'), NEW l \in 1 .. Len(backlog'),
                      backlog'[k] = backlog'[l]
               PROVE  k = l
    OBVIOUS
  <2>1. /\ k + 1 \in 1 .. Len(backlog) /\ l + 1 \in 1 .. Len(backlog)
        /\ backlog[k + 1] = backlog[l + 1]
    BY <1>1
  <2> QED BY <1>1, <1>2, <2>1
<1>6. /\ worker[c] = "none" /\ client[c] # "idle" /\ worker'[c] = "write"
      /\ \A d \in Clients \ {c} : worker'[d] = worker[d]
  BY <1>0, <1>3 DEF D!IInv, D!BacklogInTurn
<1>7. D!BacklogInTurn'
  BY <1>0, <1>3, <1>4, <1>5, <1>6 DEF D!IInv, D!BacklogInTurn
<1>8. D!ServedInTurn'
  <2>1. \A d \in Clients \ {c} : ~D!Served(d)'
    BY <1>0, <1>6 DEF D!IInv, D!AcceptWhenServed, D!Served
  <2>2. client[c] \notin {"printed", "nothing"} /\ D!Served(c)'
    BY <1>0, <1>6 DEF D!IInv, D!ServedInTurn, D!Served
  <2>3. ASSUME NEW d \in Clients \ {c}
        PROVE  /\ client[d] = "reading" => D!Waits(d)' \/ d \in closed
               /\ client[d] \in {"printed", "nothing"} =>
                    worker'[d] = "done" /\ ~D!Waits(d)'
    BY <1>0, <1>4, <1>6, <2>1, <2>3 DEF D!IInv, D!ServedInTurn, D!AcceptWhenServed
  <2> QED BY <1>0, <2>1, <2>2, <2>3 DEF D!ServedInTurn
<1> QED BY Zenon, <1>7, <1>8

(* The other steps leave the backlog alone. *)
LEMMA DateServerTurn ==
  ASSUME D!IInv, D!Next
  PROVE  D!BacklogInTurn' /\ D!ServedInTurn'
<1>0. /\ client \in [Clients -> {"idle", "reading", "refused", "printed", "nothing"}]
      /\ worker \in [Clients -> {"none", "write", "close", "done"}]
      /\ D!BacklogInTurn /\ D!ServedInTurn
  BY Zenon DEF D!IInv, D!TypeOK
<1>1. CASE D!Start \/ D!AcceptFails \/ D!Join
  <2>1. UNCHANGED <<worker, backlog, closed, client>>
    BY Zenon, <1>1 DEF D!Start, D!AcceptFails, D!Join
  <2>2. server' # "stopped" => server # "stopped"
    BY <1>1 DEF D!Start, D!AcceptFails, D!Join
  <2>3. \A c \in Clients : (D!Waits(c)' <=> D!Waits(c)) /\ (D!Served(c)' <=> D!Served(c))
    BY Zenon, <2>1 DEF D!Waits, D!Served
  <2>4. D!BacklogInTurn'
    BY <1>0, <2>1, <2>3 DEF D!BacklogInTurn
  <2>5. D!ServedInTurn'
    BY <1>0, <2>1, <2>2, <2>3 DEF D!ServedInTurn
  <2> QED BY Zenon, <2>4, <2>5
<1>2. ASSUME NEW c \in Clients, D!ReadLines(c) PROVE D!BacklogInTurn' /\ D!ServedInTurn'
  <2>1. UNCHANGED <<server, worker, backlog, closed>>
    BY Zenon, <1>2 DEF D!ReadLines
  <2>2. /\ client[c] = "reading" /\ client'[c] \in {"printed", "nothing"}
        /\ server = "stopped" \/ c \in closed
        /\ \A d \in Clients \ {c} : client'[d] = client[d]
    BY <1>0, <1>2 DEF D!ReadLines
  <2>3. \A d \in Clients : (D!Waits(d)' <=> D!Waits(d)) /\ (D!Served(d)' <=> D!Served(d))
    BY Zenon, <2>1 DEF D!Waits, D!Served
  <2>4. D!BacklogInTurn'
    BY <1>0, <2>1, <2>2, <2>3 DEF D!BacklogInTurn
  <2>5. D!ServedInTurn'
    BY <1>0, <2>1, <2>2, <2>3 DEF D!ServedInTurn, D!BacklogInTurn
  <2> QED BY Zenon, <2>4, <2>5
<1>3. ASSUME NEW c \in Clients, D!Served(c), UNCHANGED <<backlog, client>>,
             server' # "stopped" => server # "stopped",
             \A d \in Clients \ {c} : worker'[d] = worker[d],
             \/ UNCHANGED <<worker, closed>>
             \/ worker'[c] = "close" /\ UNCHANGED closed
             \/ worker'[c] = "done" /\ closed' = closed \cup {c}
      PROVE  D!BacklogInTurn' /\ D!ServedInTurn'
  <2>1. \A d \in Clients : D!Waits(d)' <=> D!Waits(d)
    BY Zenon, <1>3 DEF D!Waits
  <2>2. /\ worker[c] \in {"write", "close"} /\ c \notin closed /\ ~D!Waits(c)
        /\ worker'[c] \in {"write", "close", "done"}
        /\ worker'[c] = "done" <=> c \in closed'
        /\ \A d \in Clients \ {c} : d \in closed' <=> d \in closed
    BY <1>0, <1>3 DEF D!Served, D!BacklogInTurn
  <2>3. D!BacklogInTurn'
    BY <1>0, <1>3, <2>1, <2>2 DEF D!BacklogInTurn
  <2>4. D!ServedInTurn'
    BY <1>0, <1>3, <2>1, <2>2 DEF D!ServedInTurn, D!Served
  <2> QED BY Zenon, <2>3, <2>4
<1>4. ASSUME NEW c \in Clients, D!WriteDate(c) PROVE D!BacklogInTurn' /\ D!ServedInTurn'
  BY <1>0, <1>3, <1>4 DEF D!WriteDate, D!Served
<1>5. ASSUME NEW c \in Clients, D!Close(c) PROVE D!BacklogInTurn' /\ D!ServedInTurn'
  BY <1>0, <1>3, <1>5 DEF D!Close, D!Served
<1>6. ASSUME NEW c \in Clients, D!Fault(c) PROVE D!BacklogInTurn' /\ D!ServedInTurn'
  <2>1. CASE version = "MyDateServer"
    BY <1>0, <1>3, <1>6, <2>1 DEF D!Fault, D!Served
  <2>2. CASE version # "MyDateServer"
    BY <1>0, <1>3, <1>6, <2>2 DEF D!Fault, D!Served
  <2> QED BY Zenon, <2>1, <2>2
<1> QED BY Zenon, <1>1, <1>2, <1>4, <1>5, <1>6, ConnectWaits, AcceptTakes
    DEF D!Next, D!Progress, D!Work

(* The date servers serve one client at a time and forget none: a client   *)
(* that reads waits for accept, is served or is at the end of its stream,  *)
(* and one that found the end has had its turn, for any number of clients. *)
THEOREM ClientsServedInTurn == D!Spec => []ServedInTurn
<1>1. D!Init => D!IInv
  BY SMTT(30) DEF D!Init, D!IInv, D!TypeOK, D!AcceptWhenServed, D!BacklogInTurn,
     D!ServedInTurn, D!Waits, D!Served
<1>2. D!IInv /\ [D!Next]_(D!vars) => D!IInv'
  <2> SUFFICES ASSUME D!IInv, [D!Next]_(D!vars) PROVE D!IInv'
    OBVIOUS
  <2>1. CASE D!Next
    BY Zenon, <2>1, DateServerType, DateServerAccept, DateServerTurn DEF D!IInv
  <2>2. CASE UNCHANGED D!vars
    <3>1. UNCHANGED <<version, server, worker, backlog, closed, client>>
      BY Zenon, <2>2 DEF D!vars
    <3>2. /\ \A c \in Clients : D!Waits(c)' <=> D!Waits(c)
          /\ \A c \in Clients : D!Served(c)' <=> D!Served(c)
      BY Zenon, <3>1 DEF D!Waits, D!Served
    <3>3. D!TypeOK' /\ D!AcceptWhenServed'
      BY Zenon, <3>1, <3>2 DEF D!IInv, D!TypeOK, D!AcceptWhenServed
    <3>4. D!BacklogInTurn'
      BY <3>1, <3>2 DEF D!IInv, D!BacklogInTurn
    <3>5. D!ServedInTurn'
      BY <3>1, <3>2 DEF D!IInv, D!ServedInTurn
    <3> QED BY Zenon, <3>3, <3>4, <3>5 DEF D!IInv
  <2> QED BY Zenon, <2>1, <2>2
<1>3. D!IInv => D!ServedInTurn
  BY DEF D!IInv
<1>4. D!ServedInTurn => ServedInTurn
  BY DEF ServedInTurn
<1> QED BY <1>1, <1>2, <1>3, <1>4, PTL DEF D!Spec
=============================================================================
