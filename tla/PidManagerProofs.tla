-------------------------- MODULE PidManagerProofs --------------------------
(***************************************************************************)
(* Proofs about PidManager with its mutex (LOCKED): the inductive invariant *)
(* IInv, the safety properties that follow from it, and that the manager    *)
(* implements PidPool. Each step lemma takes one conjunct of the invariant  *)
(* through one step of a worker, action by action.                          *)
(***************************************************************************)
EXTENDS PidManager, FiniteSetTheorems, TLAPS

(* The remainder of a value that is at most the divisor: what %= does to an *)
(* index that was just incremented.                                         *)
LEMMA WrapAround ==
  ASSUME NEW n \in Nat \ {0}, NEW x \in 0 .. n
  PROVE  x % n = IF x = n THEN 0 ELSE x
  BY SMT

(* The size of the buffer is positive and spans the PIDs. *)
LEMMA SizeType ==
  /\ PID_STATE_BUF_SIZE \in Nat \ {0}
  /\ MIN_PID \in Nat /\ MAX_PID \in Nat
  /\ MAX_PID = MIN_PID + PID_STATE_BUF_SIZE - 1
  BY PidAssumption DEF PID_STATE_BUF_SIZE

(* The entries in use are a finite part of the buffer; they fill it only *)
(* when they are all of it.                                              *)
LEMMA InUseCardinality ==
  /\ IsFiniteSet(InUse)
  /\ Cardinality(InUse) \in 0 .. PID_STATE_BUF_SIZE
  /\ Cardinality(InUse) = PID_STATE_BUF_SIZE => InUse = Index
  /\ Cardinality(InUse) = 0 => InUse = {}
<1>1. IsFiniteSet(Index) /\ Cardinality(Index) = PID_STATE_BUF_SIZE
  BY SizeType, FS_Interval DEF Index
<1>2. InUse \in SUBSET Index
  BY DEF InUse
<1> QED BY <1>1, <1>2, FS_Subset, FS_CardinalityType, FS_EmptySet, SizeType

(* While a thread is between lock and unlock no other thread is. *)
LEMMA Exclusive ==
  ASSUME LOCKED, IInv, NEW t \in Workers, NEW u \in Workers, u # t,
      pc[t] \in Inside
  PROVE  pc[u] \notin Inside
  BY DEF IInv, LockInv

(* Outside the two windows of the count, a thread inside the manager sees *)
(* the count of the entries in use.                                       *)
LEMMA NoSkew ==
  ASSUME LOCKED, IInv, NEW t \in Workers,
         pc[t] \in Inside \ {"inc", "inc_st", "dec", "dec_st"}
  PROVE  pid_in_use_count = Cardinality(InUse)
  BY Exclusive, InUseCardinality DEF IInv, CountInv, CountSkew, Inside,
      InsideAlloc, InsideRelease

(* The values that pid_in_use_count++ and pid_in_use_count-- store: again *)
(* the number of entries in use.                                          *)
LEMMA CountBounds ==
  ASSUME LOCKED, IInv, NEW t \in Workers
  PROVE  /\ pc[t] = "inc_st" => /\ reg[t] + 1 = Cardinality(InUse)
                               /\ reg[t] + 1 \in 0 .. PID_STATE_BUF_SIZE
         /\ pc[t] = "dec_st" => /\ reg[t] - 1 = Cardinality(InUse)
                               /\ reg[t] - 1 \in 0 .. PID_STATE_BUF_SIZE
<1>1. CASE pc[t] = "inc_st"
  <2>1. CountSkew = -1 /\ reg[t] = pid_in_use_count
    BY <1>1 DEF IInv, CountSkew, RegInv
  <2> QED BY <1>1, <2>1, InUseCardinality, SizeType DEF IInv, CountInv, TypeOK
<1>2. CASE pc[t] = "dec_st"
  <2>1. CountSkew = 1 /\ reg[t] = pid_in_use_count
    BY <1>2, Exclusive DEF IInv, CountSkew, RegInv, Inside, InsideAlloc,
        InsideRelease
  <2> QED BY <1>2, <2>1, InUseCardinality, SizeType DEF IInv, CountInv, TypeOK
<1> QED BY <1>1, <1>2

(* A thread inside the manager sees the index within the buffer, except *)
(* between its own ++ and %=.                                           *)
LEMMA IndexInRange ==
  ASSUME LOCKED, IInv, NEW t \in Workers,
         pc[t] \in Inside \ {"scan_mod", "scan_mod_st", "adv_mod",
             "adv_mod_st"}
  PROVE  next_free_pid_index \in Index
  BY Exclusive DEF IInv, RegInv, Inside, InsideAlloc

(* What next_free_pid_index %= PID_STATE_BUF_SIZE stores. *)
LEMMA IndexWraps ==
  ASSUME LOCKED, IInv, NEW t \in Workers, pc[t] \in {"scan_mod_st",
      "adv_mod_st"}
  PROVE  /\ reg[t] % PID_STATE_BUF_SIZE \in Index
         /\ reg[t] % PID_STATE_BUF_SIZE =
              IF next_free_pid_index = PID_STATE_BUF_SIZE
              THEN 0 ELSE next_free_pid_index
<1>1. reg[t] \in 0 .. PID_STATE_BUF_SIZE /\ reg[t] = next_free_pid_index
  BY DEF IInv, TypeOK, RegInv
<1>2. reg[t] % PID_STATE_BUF_SIZE =
        IF reg[t] = PID_STATE_BUF_SIZE THEN 0 ELSE reg[t]
  BY <1>1, SizeType, WrapAround
<1> QED BY <1>1, <1>2, SizeType DEF Index

(* A step of a worker preserves mutual exclusion. *)
LEMMA LockStep ==
  ASSUME LOCKED, IInv, NEW t \in Workers, Worker_thread_func(t)
  PROVE  LockInv'
<1> USE PidAssumption DEF IInv, TypeOK, LockInv, Inside, InsideAlloc,
        InsideRelease, Transition, LockMutex, UnlockMutex
<1>1. CASE AllocatePid(t)
  BY <1>1 DEF AllocatePid, AllocLock, AllocAssert, AllocFull, AllocSearch,
       SearchAgain, SearchStop, SearchAdvance, FoundAssert, AllocMark,
       AllocCount, AllocRet, AllocAdvance, AllocUnlock,
       LoadIndex, StoreIndex, LoadCount, StoreCount
<1>2. CASE ReleasePid(t)
  BY <1>2 DEF ReleasePid, ReleaseLock, ReleaseAssert, ReleaseAssertState,
       ReleaseClear, ReleaseCount, ReleaseUnlock, LoadCount, StoreCount
<1> QED BY SMTT(20), <1>1, <1>2 DEF Worker_thread_func

(* A step of a worker preserves the types and the ranges of the counters. *)
LEMMA TypeStep ==
  ASSUME LOCKED, IInv, NEW t \in Workers, Worker_thread_func(t)
  PROVE  TypeOK'
<1>1. pc' \in [Workers -> Inside \cup {"new", "alloc_lock", "alive", "done"}]
  BY SMTT(20) DEF IInv, TypeOK, Inside, InsideAlloc, InsideRelease, Transition,
      Worker_thread_func, AllocatePid, ReleasePid, AllocLock, AllocAssert,
      AllocFull, AllocSearch, SearchAgain, SearchStop, SearchAdvance,
      FoundAssert, AllocMark, AllocCount, AllocRet, AllocAdvance, AllocUnlock,
      ReleaseLock, ReleaseAssert, ReleaseAssertState, ReleaseClear,
      ReleaseCount, ReleaseUnlock, LoadIndex, StoreIndex, LoadCount,
      StoreCount
<1>2. mutex' \in Workers \cup {NoThread} /\ main' \in {"create", "join",
          "done", "abort"}
  BY SMTT(20) DEF IInv, TypeOK, LockMutex, UnlockMutex, CAssert, Worker_thread_func,
      AllocatePid, ReleasePid, AllocLock, AllocAssert, AllocFull, AllocSearch,
      SearchAgain, SearchStop, SearchAdvance, FoundAssert, AllocMark,
      AllocCount, AllocRet, AllocAdvance, AllocUnlock, ReleaseLock,
      ReleaseAssert, ReleaseAssertState, ReleaseClear, ReleaseCount,
      ReleaseUnlock, LoadIndex, StoreIndex, LoadCount, StoreCount
<1>3. pid_alloc_state' \in [Index -> {PID_IS_AVAILABLE, PID_IS_IN_USE}]
  BY DEF IInv, TypeOK, shared, Worker_thread_func, AllocatePid, ReleasePid,
      AllocLock, AllocAssert, AllocFull, AllocSearch, SearchAgain, SearchStop,
      SearchAdvance, FoundAssert, AllocMark, AllocCount, AllocRet,
      AllocAdvance, AllocUnlock, ReleaseLock, ReleaseAssert,
      ReleaseAssertState, ReleaseClear, ReleaseCount, ReleaseUnlock,
      LoadIndex, StoreIndex, LoadCount, StoreCount
<1>4. CASE AllocLock(t) \/ AllocAssert(t) \/ AllocFull(t) \/ SearchStop(t)
           \/ FoundAssert(t) \/ AllocMark(t) \/ AllocUnlock(t)
           \/ ReleaseLock(t) \/ ReleaseAssert(t) \/ ReleaseAssertState(t)
           \/ ReleaseClear(t) \/ ReleaseUnlock(t)
  BY <1>1, <1>2, <1>3, <1>4 DEF IInv, TypeOK, Transition, shared, locals,
      AllocLock, AllocAssert, AllocFull, SearchStop, FoundAssert, AllocMark,
      AllocUnlock, ReleaseLock, ReleaseAssert, ReleaseAssertState,
      ReleaseClear, ReleaseUnlock
<1>5. CASE AllocSearch(t) \/ SearchAgain(t)
  BY <1>1, <1>2, <1>3, <1>5, SizeType DEF IInv, TypeOK, shared, AllocSearch,
      SearchAgain
<1>6. CASE AllocRet(t)
  <2>1. next_free_pid_index + MIN_PID \in Pids
    BY <1>6, IndexInRange, SizeType DEF AllocRet, Transition, Index, Pids,
        Inside, InsideAlloc
  <2> QED BY <1>1, <1>2, <1>3, <1>6, <2>1 DEF IInv, TypeOK, shared, AllocRet
<1>7. CASE \/ LoadIndex(t, "scan_inc", "scan_inc_st")
           \/ LoadIndex(t, "scan_mod", "scan_mod_st")
           \/ LoadIndex(t, "adv_inc", "adv_inc_st")
           \/ LoadIndex(t, "adv_mod", "adv_mod_st")
           \/ LoadCount(t, "inc", "inc_st")
           \/ LoadCount(t, "dec", "dec_st")
  BY <1>1, <1>2, <1>3, <1>7 DEF IInv, TypeOK, shared, LoadIndex, LoadCount
<1>8. CASE \/ StoreIndex(t, "scan_inc_st", "scan_mod", reg[t] + 1)
           \/ StoreIndex(t, "adv_inc_st", "adv_mod", reg[t] + 1)
  <2>1. reg[t] + 1 \in 0 .. PID_STATE_BUF_SIZE
    BY <1>8, IndexInRange, SizeType DEF StoreIndex, Transition, IInv, RegInv,
        Index, Inside, InsideAlloc
  <2> QED BY <1>1, <1>2, <1>3, <1>8, <2>1 DEF IInv, TypeOK, locals, StoreIndex
<1>9. CASE \/ StoreIndex(t, "scan_mod_st", "while", reg[t] % PID_STATE_BUF_SIZE)
           \/ StoreIndex(t, "adv_mod_st", "alloc_unlock", reg[t] % PID_STATE_BUF_SIZE)
  <2>1. reg[t] % PID_STATE_BUF_SIZE \in 0 .. PID_STATE_BUF_SIZE
    BY <1>9, IndexWraps, SizeType DEF StoreIndex, Transition, Index
  <2> QED BY <1>1, <1>2, <1>3, <1>9, <2>1 DEF IInv, TypeOK, locals, StoreIndex
<1>10. CASE \/ StoreCount(t, "inc_st", "ret", reg[t] + 1)
            \/ StoreCount(t, "dec_st", "rel_unlock", reg[t] - 1)
  <2>1. pid_in_use_count' \in 0 .. PID_STATE_BUF_SIZE
    BY <1>10, CountBounds DEF StoreCount, Transition
  <2> QED BY <1>1, <1>2, <1>3, <1>10, <2>1 DEF IInv, TypeOK, locals,
          StoreCount
<1> QED BY SMTT(20), <1>4, <1>5, <1>6, <1>7, <1>8, <1>9, <1>10 DEF Worker_thread_func,
        AllocatePid, ReleasePid, SearchAdvance, AllocAdvance, AllocCount,
        ReleaseCount

(* A step of a worker preserves the facts about loaded values. *)
LEMMA RegStep ==
  ASSUME LOCKED, IInv, NEW t \in Workers, Worker_thread_func(t)
  PROVE  RegInv'
<1> USE DEF Transition, RegInv, TypeOK, IInv
<1>1. CASE AllocLock(t) \/ AllocAssert(t) \/ AllocFull(t) \/ AllocSearch(t)
           \/ SearchAgain(t) \/ SearchStop(t) \/ FoundAssert(t)
           \/ AllocMark(t) \/ AllocRet(t) \/ AllocUnlock(t) \/ ReleaseLock(t)
           \/ ReleaseAssert(t) \/ ReleaseAssertState(t) \/ ReleaseClear(t)
           \/ ReleaseUnlock(t)
  BY <1>1 DEF shared, locals, AllocLock, AllocAssert, AllocFull, AllocSearch,
      SearchAgain, SearchStop, FoundAssert, AllocMark, AllocRet, AllocUnlock,
      ReleaseLock, ReleaseAssert, ReleaseAssertState, ReleaseClear,
      ReleaseUnlock
<1>2. CASE \/ LoadIndex(t, "scan_inc", "scan_inc_st")
           \/ LoadIndex(t, "scan_mod", "scan_mod_st")
           \/ LoadIndex(t, "adv_inc", "adv_inc_st")
           \/ LoadIndex(t, "adv_mod", "adv_mod_st")
           \/ LoadCount(t, "inc", "inc_st")
           \/ LoadCount(t, "dec", "dec_st")
  BY <1>2 DEF shared, LoadIndex, LoadCount
<1>3. CASE \/ StoreIndex(t, "scan_inc_st", "scan_mod", reg[t] + 1)
           \/ StoreIndex(t, "adv_inc_st", "adv_mod", reg[t] + 1)
  BY <1>3, Exclusive DEF Inside, InsideAlloc, InsideRelease, locals,
      StoreIndex
<1>4. CASE \/ StoreIndex(t, "scan_mod_st", "while", reg[t] % PID_STATE_BUF_SIZE)
           \/ StoreIndex(t, "adv_mod_st", "alloc_unlock", reg[t] % PID_STATE_BUF_SIZE)
  BY <1>4, Exclusive, IndexWraps DEF Inside, InsideAlloc, InsideRelease,
      locals, StoreIndex
<1>5. CASE \/ StoreCount(t, "inc_st", "ret", reg[t] + 1)
           \/ StoreCount(t, "dec_st", "rel_unlock", reg[t] - 1)
  BY <1>5, Exclusive DEF Inside, InsideAlloc, InsideRelease, locals,
      StoreCount
<1> HIDE DEF Transition, RegInv, TypeOK, IInv
<1> QED BY SMTT(20), <1>1, <1>2, <1>3, <1>4, <1>5 DEF Worker_thread_func, AllocatePid,
        ReleasePid, SearchAdvance, AllocAdvance, AllocCount, ReleaseCount

(* A step of a worker preserves the count of the entries in use. *)
LEMMA CountStep ==
  ASSUME LOCKED, IInv, NEW t \in Workers, Worker_thread_func(t)
  PROVE  CountInv'
<1> USE DEF Transition, IInv, TypeOK, CountInv
<1>1. CASE AllocLock(t) \/ AllocAssert(t) \/ AllocFull(t) \/ AllocSearch(t)
           \/ SearchAgain(t) \/ SearchStop(t) \/ FoundAssert(t) \/ AllocRet(t)
           \/ AllocUnlock(t) \/ ReleaseLock(t) \/ ReleaseAssert(t)
           \/ ReleaseAssertState(t) \/ ReleaseUnlock(t)
  BY <1>1 DEF CountSkew, InUse, shared, AllocLock, AllocAssert, AllocFull,
      AllocSearch, SearchAgain, SearchStop, FoundAssert, AllocRet,
      AllocUnlock, ReleaseLock, ReleaseAssert, ReleaseAssertState,
      ReleaseUnlock
<1>2. CASE \/ SearchAdvance(t)
           \/ AllocAdvance(t)
           \/ LoadCount(t, "inc", "inc_st")
           \/ LoadCount(t, "dec", "dec_st")
  <2>1. CountSkew' = CountSkew
    BY <1>2 DEF CountSkew, SearchAdvance, AllocAdvance, LoadIndex, StoreIndex,
        LoadCount
  <2>2. InUse' = InUse /\ pid_in_use_count' = pid_in_use_count
    BY <1>2 DEF InUse, shared, SearchAdvance, AllocAdvance, LoadIndex,
        StoreIndex, LoadCount
  <2> QED BY <2>1, <2>2
<1>3. CASE \/ StoreCount(t, "inc_st", "ret", reg[t] + 1)
           \/ StoreCount(t, "dec_st", "rel_unlock", reg[t] - 1)
  <2>1. pid_in_use_count' = Cardinality(InUse)
    BY <1>3, CountBounds DEF StoreCount
  <2>2. CountSkew' = 0
    BY <1>3, Exclusive DEF Inside, InsideAlloc, InsideRelease, CountSkew,
        StoreCount
  <2>3. InUse' = InUse
    BY <1>3 DEF StoreCount, InUse
  <2> QED BY <2>1, <2>2, <2>3, InUseCardinality
<1>4. CASE AllocMark(t)
  <2> USE <1>4 DEF AllocMark
  <2>1. next_free_pid_index \in Index \ InUse
    BY DEF SearchInv
  <2>2. InUse' = InUse \cup {next_free_pid_index}
    BY <2>1 DEF InUse, PID_IS_IN_USE
  <2>3. Cardinality(InUse') = Cardinality(InUse) + 1
    BY Zenon, <2>1, <2>2, InUseCardinality, FS_AddElement
  <2>4. CountSkew' = -1 /\ pid_in_use_count = Cardinality(InUse)
    BY NoSkew DEF CountSkew, Inside, InsideAlloc
  <2> QED BY <2>3, <2>4, InUseCardinality
<1>5. CASE ReleaseClear(t)
  <2> USE <1>5 DEF ReleaseClear
  <2>1. my_pid[t] - MIN_PID \in InUse
    BY DEF OwnInv, Owns, OwnedPid, JustMarked, Returned
  <2>2. InUse' = InUse \ {my_pid[t] - MIN_PID}
    BY <2>1 DEF InUse, PID_IS_IN_USE, PID_IS_AVAILABLE
  <2>3. Cardinality(InUse') = Cardinality(InUse) - 1
    BY ZenonT(30), <2>1, <2>2, InUseCardinality, FS_RemoveElement
  <2>4. CountSkew' = 1 /\ pid_in_use_count = Cardinality(InUse)
    BY NoSkew, Exclusive DEF CountSkew, Inside, InsideAlloc, InsideRelease
  <2> QED BY <2>3, <2>4, InUseCardinality
<1> HIDE DEF Transition, IInv, TypeOK, CountInv
<1> QED BY SMTT(20), <1>1, <1>2, <1>3, <1>4, <1>5 DEF Worker_thread_func, AllocatePid,
        ReleasePid, SearchAdvance, AllocAdvance, AllocCount, ReleaseCount

(* A step that changes neither pid_alloc_state nor what anybody owns *)
(* preserves the agreement of owners and entries.                    *)
LEMMA OwnFrame ==
  ASSUME OwnInv, pid_alloc_state' = pid_alloc_state,
         \A u \in Workers : Owns(u)' <=> Owns(u),
         \A u \in Workers : Owns(u) => OwnedPid(u)' = OwnedPid(u)
  PROVE  OwnInv'
  BY DEF OwnInv, UniquePids, InUse

(* Marking a free entry adds its one owner. *)
LEMMA OwnAdd ==
  ASSUME OwnInv, NEW t \in Workers, NEW i \in Index \ InUse,
         InUse' = InUse \cup {i},
         Owns(t)', OwnedPid(t)' = i + MIN_PID,
         \A u \in Workers \ {t} :
           (Owns(u)' <=> Owns(u)) /\ OwnedPid(u)' = OwnedPid(u),
         ~Owns(t)
  PROVE  OwnInv'
<1>1. i + MIN_PID \in Pids /\ i \in Int /\ (i + MIN_PID) - MIN_PID = i
  BY SizeType DEF Index, Pids
<1>2. \A u \in Workers \ {t} : Owns(u) => OwnedPid(u) # i + MIN_PID
  BY <1>1 DEF OwnInv
<1>3. UniquePids'
  BY <1>2 DEF OwnInv, UniquePids
<1>4. \A u \in Workers : Owns(u)' => OwnedPid(u)' \in Pids
                                     /\ OwnedPid(u)' - MIN_PID \in InUse'
  BY <1>1 DEF OwnInv
<1>5. \A j \in InUse' : \E u \in Workers : Owns(u)' /\ OwnedPid(u)' = j + MIN_PID
  BY DEF OwnInv
<1> QED BY <1>3, <1>4, <1>5 DEF OwnInv

(* Clearing the entry of an owned PID removes its one owner. *)
LEMMA OwnRemove ==
  ASSUME OwnInv, NEW t \in Workers, Owns(t),
         InUse' = InUse \ {OwnedPid(t) - MIN_PID},
         ~Owns(t)',
         \A u \in Workers \ {t} :
           (Owns(u)' <=> Owns(u)) /\ OwnedPid(u)' = OwnedPid(u)
  PROVE  OwnInv'
<1>1. \A u \in Workers : Owns(u) => OwnedPid(u) \in Int
  BY SizeType DEF OwnInv, Pids
<1>2. \A j \in InUse : j \in Int
  BY SizeType DEF InUse, Index
<1>3. UniquePids'
  BY DEF OwnInv, UniquePids
<1>4. \A u \in Workers : Owns(u)' => OwnedPid(u)' \in Pids
                                     /\ OwnedPid(u)' - MIN_PID \in InUse'
  BY <1>1, SizeType DEF OwnInv, UniquePids
<1>5. ASSUME NEW j \in InUse'
      PROVE  \E u \in Workers : Owns(u)' /\ OwnedPid(u)' = j + MIN_PID
  BY <1>1, <1>2, SizeType DEF OwnInv
<1> QED BY <1>3, <1>4, <1>5 DEF OwnInv

(* Only AllocMark and ReleaseClear change what a thread owns. *)
LEMMA OwnedFrame ==
  ASSUME LOCKED, IInv, NEW t \in Workers, Worker_thread_func(t)
  PROVE  \/ AllocMark(t) \/ ReleaseClear(t)
         \/ /\ pid_alloc_state' = pid_alloc_state
            /\ \A u \in Workers : Owns(u)' <=> Owns(u)
            /\ \A u \in Workers : Owns(u) => OwnedPid(u)' = OwnedPid(u)
<1> USE DEF Transition, IInv, TypeOK, Owns, OwnedPid, JustMarked, Returned
<1>1. CASE AllocLock(t) \/ AllocAssert(t) \/ AllocFull(t) \/ AllocSearch(t)
           \/ SearchAgain(t) \/ SearchStop(t) \/ FoundAssert(t) \/ AllocRet(t)
           \/ AllocUnlock(t) \/ ReleaseLock(t) \/ ReleaseAssert(t)
           \/ ReleaseAssertState(t) \/ ReleaseUnlock(t)
  BY <1>1 DEF shared, locals, AllocLock, AllocAssert, AllocFull, AllocSearch,
      SearchAgain, SearchStop, FoundAssert, AllocRet, AllocUnlock,
      ReleaseLock, ReleaseAssert, ReleaseAssertState, ReleaseUnlock
<1>2. CASE \/ LoadIndex(t, "scan_inc", "scan_inc_st")
           \/ LoadIndex(t, "scan_mod", "scan_mod_st")
           \/ LoadIndex(t, "adv_inc", "adv_inc_st")
           \/ LoadIndex(t, "adv_mod", "adv_mod_st")
           \/ LoadCount(t, "inc", "inc_st")
           \/ StoreCount(t, "inc_st", "ret", reg[t] + 1)
           \/ LoadCount(t, "dec", "dec_st")
           \/ StoreCount(t, "dec_st", "rel_unlock", reg[t] - 1)
  BY <1>2 DEF shared, locals, LoadIndex, LoadCount, StoreCount
<1>3. CASE \/ StoreIndex(t, "scan_inc_st", "scan_mod", reg[t] + 1)
           \/ StoreIndex(t, "scan_mod_st", "while", reg[t] % PID_STATE_BUF_SIZE)
           \/ StoreIndex(t, "adv_inc_st", "adv_mod", reg[t] + 1)
  BY <1>3, Exclusive DEF Inside, InsideAlloc, InsideRelease, locals,
      StoreIndex
<1>4. CASE StoreIndex(t, "adv_mod_st", "alloc_unlock",
           reg[t] % PID_STATE_BUF_SIZE)
  <2>1. my_pid[t] # -1
    BY <1>4, SizeType DEF StoreIndex, OwnInv, Pids
  <2> QED BY <1>4, <2>1, Exclusive DEF Inside, InsideAlloc, InsideRelease,
          locals, StoreIndex
<1> HIDE DEF Transition, IInv, TypeOK, Owns, OwnedPid, JustMarked, Returned
<1> QED BY SMTT(20), <1>1, <1>2, <1>3, <1>4 DEF Worker_thread_func, AllocatePid,
        ReleasePid, SearchAdvance, AllocAdvance, AllocCount, ReleaseCount

(* A step of a worker preserves the agreement of owners and entries. *)
LEMMA OwnStep ==
  ASSUME LOCKED, IInv, NEW t \in Workers, Worker_thread_func(t)
  PROVE  OwnInv'
<1>1. CASE AllocMark(t)
  <2> USE <1>1 DEF AllocMark, Transition, IInv
  <2>1. next_free_pid_index \in Index \ InUse
    BY DEF SearchInv
  <2>2. InUse' = InUse \cup {next_free_pid_index}
    BY <2>1 DEF TypeOK, InUse, PID_IS_IN_USE
  <2>3. ~Owns(t) /\ Owns(t)' /\ OwnedPid(t)' = next_free_pid_index + MIN_PID
    BY DEF TypeOK, Owns, OwnedPid, JustMarked, Returned
  <2>4. \A u \in Workers \ {t} :
            (Owns(u)' <=> Owns(u)) /\ OwnedPid(u)' = OwnedPid(u)
    BY DEF TypeOK, Owns, OwnedPid, locals
  <2> QED BY <2>1, <2>2, <2>3, <2>4, OwnAdd
<1>2. CASE ReleaseClear(t)
  <2> USE <1>2 DEF ReleaseClear, Transition, IInv
  <2>1. Owns(t) /\ ~Owns(t)' /\ OwnedPid(t) = my_pid[t]
    BY DEF TypeOK, Owns, OwnedPid, JustMarked, Returned
  <2>2. InUse' = InUse \ {my_pid[t] - MIN_PID}
    BY DEF TypeOK, InUse, PID_IS_IN_USE, PID_IS_AVAILABLE
  <2>3. \A u \in Workers \ {t} :
            (Owns(u)' <=> Owns(u)) /\ OwnedPid(u)' = OwnedPid(u)
    BY DEF TypeOK, Owns, OwnedPid, locals
  <2> QED BY <2>1, <2>2, <2>3, OwnRemove
<1> QED BY <1>1, <1>2, OwnedFrame, OwnFrame DEF IInv

(* A step of a worker preserves what the search of allocate_pid has           *)
(* established.                                                               *)
LEMMA SearchStep ==
  ASSUME LOCKED, IInv, NEW t \in Workers, Worker_thread_func(t)
  PROVE  SearchInv'
<1> USE DEF Transition, IInv, TypeOK, SearchInv
<1>1. CASE AllocLock(t) \/ AllocAssert(t) \/ AllocFull(t) \/ FoundAssert(t)
           \/ AllocRet(t) \/ AllocUnlock(t) \/ ReleaseLock(t)
           \/ ReleaseAssert(t) \/ ReleaseAssertState(t) \/ ReleaseUnlock(t)
  BY SMTT(20), <1>1 DEF InUse, shared, locals, AllocLock, AllocAssert, AllocFull,
      FoundAssert, AllocRet, AllocUnlock, ReleaseLock, ReleaseAssert,
      ReleaseAssertState, ReleaseUnlock
<1>2. CASE AllocMark(t) \/ ReleaseClear(t)
  BY <1>2, Exclusive DEF Inside, InsideAlloc, InsideRelease, locals,
      AllocMark, ReleaseClear
<1>3. CASE AllocSearch(t)
  <2>1. next_free_pid_index \in Index
    BY <1>3, IndexInRange DEF AllocSearch, Inside, InsideAlloc
  <2>2. \A i \in Index : StepsFrom(i, next_free_pid_index) > 0
    BY <2>1, SizeType DEF StepsFrom, Index
  <2>3. \A i \in Index : ~(StepsFrom(i, next_free_pid_index) <= 0)
    BY <2>1, <2>2, SizeType DEF StepsFrom, Index
  <2> QED BY <1>3, <2>3 DEF InUse, shared, AllocSearch
<1>4. CASE SearchAgain(t)
  <2>1. next_free_pid_index \in Index /\ next_free_pid_index \in InUse
    BY <1>4, IndexInRange DEF SearchAgain, Inside, InsideAlloc, AllocStateAt,
        InUse
  <2>2. ASSUME NEW i \in Index, i # next_free_pid_index
        PROVE  StepsFrom(i, next_free_pid_index + 1) = StepsFrom(i,
            next_free_pid_index) + 1
    BY <2>1, <2>2, SizeType DEF StepsFrom, Index
  <2>3. ASSUME NEW i \in Index, StepsFrom(i,
            next_free_pid_index + 1) <= iter_count[t] + 1
        PROVE  i \in InUse
    <3>1. CASE i = next_free_pid_index
      BY <2>1, <3>1
    <3>2. CASE i # next_free_pid_index
      <4>1. StepsFrom(i, next_free_pid_index) \in Int /\ iter_count[t] \in Int
        BY <2>1, SizeType DEF StepsFrom, Index
      <4>2. StepsFrom(i, next_free_pid_index) <= iter_count[t]
        BY SMTT(20), <2>2, <2>3, <3>2, <4>1
      <4> QED BY <1>4, <4>2 DEF SearchAgain
    <3> QED BY <3>1, <3>2
  <2> QED BY SMTT(20), <1>4, <2>3 DEF InUse, shared, SearchAgain
<1>5. CASE SearchStop(t)
  <2>1. next_free_pid_index \in Index /\ next_free_pid_index \notin InUse
    <3>1. next_free_pid_index \in Index
      BY <1>5, IndexInRange DEF SearchStop, Inside, InsideAlloc
    <3>2. CASE iter_count[t] >= PID_STATE_BUF_SIZE
      <4>1. \A i \in Index : StepsFrom(i,
                next_free_pid_index) <= iter_count[t]
        BY <3>1, <3>2, SizeType DEF StepsFrom, Index
      <4>2. InUse = Index
        BY <1>5, <4>1 DEF SearchStop, InUse
      <4>3. Cardinality(Index) = PID_STATE_BUF_SIZE
        BY FS_Interval, SizeType DEF Index
      <4>4. pid_in_use_count = Cardinality(InUse)
        BY <1>5, NoSkew DEF SearchStop, Inside, InsideAlloc
      <4>5. pid_in_use_count < PID_STATE_BUF_SIZE
        BY <1>5 DEF SearchStop
      <4> QED BY SMTT(20), <4>2, <4>3, <4>4, <4>5
    <3>3. CASE PID_IS_AVAILABLE \in AllocStateAt(next_free_pid_index)
      BY SMTT(20), <3>1, <3>3 DEF AllocStateAt, InUse, PID_IS_AVAILABLE, PID_IS_IN_USE
    <3> QED BY SMTT(20), <1>5, <3>1, <3>2, <3>3 DEF SearchStop
  <2> QED BY <1>5, <2>1 DEF InUse, shared, locals, SearchStop
<1>6. CASE \/ LoadIndex(t, "scan_inc", "scan_inc_st")
           \/ LoadIndex(t, "scan_mod", "scan_mod_st")
           \/ LoadIndex(t, "adv_inc", "adv_inc_st")
           \/ LoadIndex(t, "adv_mod", "adv_mod_st")
           \/ LoadCount(t, "inc", "inc_st")
           \/ LoadCount(t, "dec", "dec_st")
  BY SMTT(20), <1>6 DEF InUse, shared, LoadIndex, LoadCount
<1>7. CASE \/ StoreIndex(t, "adv_inc_st", "adv_mod", reg[t] + 1)
           \/ StoreIndex(t, "adv_mod_st", "alloc_unlock", reg[t] % PID_STATE_BUF_SIZE)
           \/ StoreCount(t, "inc_st", "ret", reg[t] + 1)
           \/ StoreCount(t, "dec_st", "rel_unlock", reg[t] - 1)
  BY SMTT(20), <1>7, Exclusive DEF Inside, InsideAlloc, InsideRelease, locals,
      StoreIndex, StoreCount
<1>8. CASE StoreIndex(t, "scan_inc_st", "scan_mod", reg[t] + 1)
  <2>1. reg[t] = next_free_pid_index
    BY <1>8 DEF StoreIndex, RegInv
  <2> QED BY <1>8, <2>1, Exclusive DEF Inside, InsideAlloc, InsideRelease,
          InUse, locals, StoreIndex
<1>9. CASE StoreIndex(t, "scan_mod_st", "while", reg[t] % PID_STATE_BUF_SIZE)
  <2>1. \A i \in Index :
          StepsFrom(i, next_free_pid_index') = StepsFrom(i, next_free_pid_index)
    <3>1. next_free_pid_index' =
            IF next_free_pid_index = PID_STATE_BUF_SIZE
            THEN 0 ELSE next_free_pid_index
      BY <1>9, IndexWraps DEF StoreIndex
    <3> QED BY SMTT(20), <3>1, SizeType DEF StepsFrom, Index
  <2>2. InUse' = InUse
    BY SMTT(20), <1>9 DEF StoreIndex, InUse
  <2>3. \A u \in Workers \ {t} : pc'[u] = pc[u] /\ pc[u] \notin Inside
    BY <1>9, Exclusive DEF Inside, InsideAlloc, InsideRelease, StoreIndex
  <2>4. /\ pc[t] = "scan_mod_st" /\ pc'[t] = "while" /\ iter_count' = iter_count
        /\ pid_in_use_count' = pid_in_use_count
    BY <1>9 DEF StoreIndex, locals
  <2> QED BY SMTT(20), <2>1, <2>2, <2>3, <2>4 DEF Inside, InsideAlloc, InsideRelease
<1> HIDE DEF Transition, IInv, TypeOK, SearchInv
<1> QED BY SMTT(20), <1>1, <1>2, <1>3, <1>4, <1>5, <1>6, <1>7, <1>8, <1>9
        DEF Worker_thread_func, AllocatePid, ReleasePid, SearchAdvance,
        AllocAdvance, AllocCount, ReleaseCount

(* The four steps that evaluate an assertion of the source. *)
DoesAssert(t) ==
  AllocAssert(t) \/ FoundAssert(t) \/ ReleaseAssert(t) \/ ReleaseAssertState(t)

(* A worker that steps has been created and has not returned, nobody goes  *)
(* back to being uncreated, and only an assertion touches the main thread. *)
LEMMA WorkerMoves ==
  ASSUME IInv, NEW t \in Workers, Worker_thread_func(t)
  PROVE  /\ pc[t] \notin {"new", "done"}
         /\ main' = main \/ DoesAssert(t)
         /\ \A u \in Workers : pc'[u] = "new" => pc[u] = "new"
<1>1. DOMAIN pc = Workers
  BY DEF IInv, TypeOK
<1> USE <1>1 DEF Transition
<1>2. CASE AllocLock(t) \/ AllocFull(t) \/ AllocSearch(t) \/ SearchAgain(t)
           \/ SearchStop(t)
  BY <1>2 DEF AllocLock, AllocFull, AllocSearch, SearchAgain, SearchStop
<1>3. CASE AllocMark(t) \/ AllocRet(t) \/ AllocUnlock(t)
  BY <1>3 DEF AllocMark, AllocRet, AllocUnlock
<1>4. CASE SearchAdvance(t) \/ AllocAdvance(t)
  BY <1>4 DEF SearchAdvance, AllocAdvance, LoadIndex, StoreIndex
<1>5. CASE AllocCount(t) \/ ReleaseCount(t)
  BY <1>5 DEF AllocCount, ReleaseCount, LoadCount, StoreCount
<1>6. CASE ReleaseLock(t) \/ ReleaseClear(t) \/ ReleaseUnlock(t)
  BY <1>6 DEF ReleaseLock, ReleaseClear, ReleaseUnlock
<1>7. CASE DoesAssert(t)
  BY <1>7 DEF DoesAssert, AllocAssert, FoundAssert, ReleaseAssert,
      ReleaseAssertState
<1> HIDE <1>1 DEF Transition
<1> QED BY Zenon, <1>2, <1>3, <1>4, <1>5, <1>6, <1>7
        DEF Worker_thread_func, AllocatePid, ReleasePid, DoesAssert

(* A step of a worker fails no assertion, and leaves main() where it may be. *)
LEMMA MainStep ==
  ASSUME LOCKED, IInv, NEW t \in Workers, Worker_thread_func(t)
  PROVE  MainInv'
<1>1. /\ pc[t] \notin {"new", "done"}
      /\ main' = main \/ DoesAssert(t)
      /\ \A u \in Workers : pc'[u] = "new" => pc[u] = "new"
  BY WorkerMoves
<1>2. main' # "abort"
  <2> USE DEF Transition, IInv, TypeOK
  <2>1. CASE AllocAssert(t)
    BY <2>1, SizeType DEF AllocAssert, CAssert, MainInv
  <2>2. CASE FoundAssert(t)
    BY <2>2 DEF FoundAssert, CAssert, MainInv, SearchInv, AllocStateAt, InUse,
        PID_IS_AVAILABLE, PID_IS_IN_USE
  <2>3. CASE ReleaseAssert(t) \/ ReleaseAssertState(t)
    <3>1. my_pid[t] \in Pids /\ my_pid[t] - MIN_PID \in InUse
      BY <2>3 DEF ReleaseAssert, ReleaseAssertState, OwnInv, Owns, OwnedPid,
          JustMarked, Returned
    <3>2. pid_in_use_count = Cardinality(InUse)
      BY <2>3, NoSkew DEF ReleaseAssert, ReleaseAssertState, Inside,
          InsideRelease
    <3>3. pid_in_use_count \in 1 .. PID_STATE_BUF_SIZE
      BY <3>1, <3>2, InUseCardinality, SizeType
    <3>4. CASE ReleaseAssert(t)
      BY <3>1, <3>3, <3>4, SizeType DEF ReleaseAssert, CAssert, MainInv, Pids
    <3>5. CASE ReleaseAssertState(t)
      BY <3>1, <3>5 DEF ReleaseAssertState, CAssert, MainInv, AllocStateAt,
          InUse
    <3> QED BY <2>3, <3>4, <3>5
  <2> HIDE DEF Transition, IInv, TypeOK
  <2>4. CASE main' = main
    BY <2>4 DEF IInv, MainInv
  <2> QED BY <1>1, <2>1, <2>2, <2>3, <2>4 DEF DoesAssert
<1>3. main' = main
  BY <1>1, <1>2 DEF DoesAssert, AllocAssert, FoundAssert, ReleaseAssert,
      ReleaseAssertState, CAssert
<1>4. main # "done"
  BY <1>1 DEF IInv, MainInv
<1> QED BY <1>1, <1>2, <1>3, <1>4 DEF IInv, MainInv

(* Steps of main(), and stuttering, preserve the inductive invariant. *)
LEMMA MainActions ==
  ASSUME LOCKED, IInv, Main \/ UNCHANGED vars
  PROVE  IInv'
<1> USE DEF IInv
<1>1. CASE \E t \in Workers : CreateWorker(t)
  <2> PICK t \in Workers : CreateWorker(t)
    BY SMTT(20), <1>1
  <2> USE DEF CreateWorker, Transition, shared, locals
  <2>1. TypeOK' /\ LockInv' /\ RegInv' /\ MainInv'
    BY DEF TypeOK, LockInv, RegInv, MainInv, Inside, InsideAlloc,
        InsideRelease
  <2>2. CountInv'
    BY DEF TypeOK, CountInv, CountSkew, InUse
  <2>3. OwnInv'
    BY OwnFrame DEF TypeOK, Owns, OwnedPid, JustMarked, Returned
  <2>4. SearchInv'
    BY DEF TypeOK, SearchInv, InUse
  <2> QED BY <2>1, <2>2, <2>3, <2>4
<1>2. CASE AllCreated \/ JoinAndFree
  <2> USE <1>2 DEF AllCreated, JoinAndFree, shared, locals
  <2>1. TypeOK' /\ LockInv' /\ MainInv'
    BY DEF TypeOK, LockInv, MainInv
  <2>2. RegInv' /\ CountInv'
    BY DEF RegInv, CountInv, CountSkew, InUse
  <2>3. OwnInv'
    BY SMTT(20), OwnFrame DEF Owns, OwnedPid
  <2>4. SearchInv'
    BY DEF SearchInv, InUse
  <2> QED BY SMTT(20), <2>1, <2>2, <2>3, <2>4
<1>3. CASE UNCHANGED vars
  <2> USE <1>3 DEF vars
  <2>1. TypeOK' /\ LockInv' /\ MainInv'
    BY DEF TypeOK, LockInv, MainInv
  <2>2. RegInv' /\ CountInv'
    BY DEF RegInv, CountInv, CountSkew, InUse
  <2>3. OwnInv'
    BY OwnFrame DEF Owns, OwnedPid
  <2>4. SearchInv'
    BY DEF SearchInv, InUse
  <2> QED BY SMTT(20), <2>1, <2>2, <2>3, <2>4
<1> QED BY <1>1, <1>2, <1>3 DEF Main

(* The state after init_state() satisfies the inductive invariant. *)
LEMMA InitIInv ==
  ASSUME Init PROVE IInv
<1> USE PidAssumption, SizeType DEF Init
<1>1. TypeOK
  BY DEF TypeOK, Index, PID_IS_AVAILABLE
<1>2. LockInv /\ RegInv /\ SearchInv /\ MainInv
  BY DEF LockInv, RegInv, SearchInv, MainInv, Inside, InsideAlloc,
      InsideRelease, Index
<1>3. InUse = {}
  BY DEF InUse, PID_IS_AVAILABLE, PID_IS_IN_USE
<1>4. CountInv
  BY <1>3, FS_EmptySet DEF CountInv, CountSkew
<1>5. OwnInv
  BY <1>3 DEF OwnInv, UniquePids, Owns, JustMarked, Returned
<1> QED BY <1>1, <1>2, <1>4, <1>5 DEF IInv

(* With the mutex of problem 5.36, for every range of PIDs and every set of *)
(* workers, the inductive invariant always holds.                           *)
THEOREM IInvInvariant ==
  ASSUME LOCKED PROVE Spec => []IInv
<1>1. Init => IInv
  BY InitIInv
<1>2. IInv /\ [Next]_vars => IInv'
  <2> SUFFICES ASSUME IInv, [Next]_vars PROVE IInv'
    OBVIOUS
  <2>1. ASSUME NEW t \in Workers, Worker_thread_func(t)
        PROVE  IInv'
    BY <2>1, TypeStep, LockStep, RegStep, CountStep, OwnStep, SearchStep,
        MainStep
       DEF IInv
  <2>2. CASE Main \/ UNCHANGED vars
    BY <2>2, MainActions
  <2> QED BY <2>1, <2>2 DEF Next, Exited
<1> QED BY <1>1, <1>2, PTL DEF Spec

(* With the mutex of problem 5.36 no two threads ever own the same PID. *)
THEOREM PidsAreUnique ==
  ASSUME LOCKED PROVE Spec => []UniquePids
<1>1. IInv => UniquePids
  BY DEF IInv, OwnInv
<1> QED BY IInvInvariant, <1>1, PTL

(* With the mutex of problem 5.36 no assertion of pid_manager.c, in        *)
(* allocate_pid or in release_pid, ever fails.                             *)
THEOREM AssertionsHold ==
  ASSUME LOCKED PROVE Spec => []NoAssertFails
<1>1. IInv => NoAssertFails
  BY DEF IInv, MainInv, NoAssertFails
<1> QED BY IInvInvariant, <1>1, PTL

(* While the mutex is free no thread is between its change of an entry and *)
(* its change of the count, and the entries in use are those of the owned  *)
(* PIDs.                                                                   *)
LEMMA QuietState ==
  ASSUME IInv, mutex = NoThread
  PROVE  /\ CountSkew = 0
         /\ InUse = {OwnedPid(t) - MIN_PID : t \in {u \in Workers : Owns(u)}}
<1>1. \A t \in Workers : pc[t] \notin Inside
  BY PidAssumption DEF IInv, LockInv
<1>2. CountSkew = 0
  BY <1>1 DEF CountSkew, Inside, InsideAlloc, InsideRelease
<1>3. \A i \in InUse : i \in Int
  BY SizeType DEF InUse, Index
<1>4. \A i \in InUse : \E t \in Workers : Owns(t) /\ OwnedPid(t) - MIN_PID = i
  BY <1>3, SizeType DEF IInv, OwnInv
<1>5. \A t \in Workers : Owns(t) => OwnedPid(t) - MIN_PID \in InUse
  BY DEF IInv, OwnInv
<1> QED BY <1>2, <1>4, <1>5

(* With the mutex of problem 5.36 pid_in_use_count is exact whenever the   *)
(* mutex is free, and the entries in use are those of the PIDs that the    *)
(* threads own.                                                            *)
THEOREM CountExact ==
  ASSUME LOCKED PROVE Spec => []CountIsExact
<1>1. IInv => CountIsExact
  BY QuietState, InUseCardinality DEF CountIsExact, IInv, CountInv
<1> QED BY IInvInvariant, <1>1, PTL

(* With the mutex of problem 5.36 free_map, after main()'s joins, finds    *)
(* every PID returned and the mutex free.                                  *)
THEOREM CleanExit ==
  ASSUME LOCKED PROVE Spec => []CleanShutdown
<1>1. ASSUME IInv, main = "done" PROVE CleanShutdown
  <2>1. \A t \in Workers : pc[t] = "done" /\ ~Owns(t)
    BY <1>1 DEF IInv, MainInv, Owns, JustMarked, Returned
  <2>2. mutex = NoThread
    BY <1>1, <2>1 DEF IInv, LockInv, TypeOK, Inside, InsideAlloc,
        InsideRelease
  <2>3. InUse = {}
    BY <1>1, <2>1 DEF IInv, OwnInv
  <2>4. pid_in_use_count = 0
    BY QuietState, <1>1, <2>2, <2>3, FS_EmptySet DEF IInv, CountInv
  <2> QED BY <2>1, <2>2, <2>3, <2>4 DEF CleanShutdown
<1>2. IInv => CleanShutdown
  BY <1>1 DEF CleanShutdown
<1> QED BY IInvInvariant, <1>2, PTL

(* A step that changes neither what anybody owns nor who is finished is a *)
(* stuttering step of the pool.                                           *)
LEMMA PoolFrame ==
  ASSUME \A u \in Workers : Owns(u)' <=> Owns(u),
         \A u \in Workers : Owns(u) => OwnedPid(u)' = OwnedPid(u),
         \A u \in Workers : ~Owns(u) => (pc'[u] \in Gone <=> pc[u] \in Gone)
  PROVE  UNCHANGED <<poolPhase, poolHolds>>
  BY DEF poolPhase, poolHolds

(* A step of a worker is a step of the pool of PIDs or leaves it unchanged. *)
LEMMA PoolStep ==
  ASSUME LOCKED, IInv, NEW t \in Workers, Worker_thread_func(t)
  PROVE  [Pool!PoolNext]_<<poolPhase, poolHolds>>
<1>1. CASE AllocFull(t)
  <2> USE <1>1 DEF AllocFull, Transition, IInv
  <2>1. InUse = Index
    BY NoSkew, InUseCardinality, SizeType DEF Inside, InsideAlloc
  <2>2. Pool!Free = {}
    <3> SUFFICES ASSUME NEW p \in Pids
            PROVE \E u \in Workers : poolHolds[u] = p
      BY DEF Pool!Free
    <3>1. p - MIN_PID \in InUse /\ (p - MIN_PID) + MIN_PID = p
      BY <2>1, SizeType DEF Index, Pids
    <3>2. PICK u \in Workers : Owns(u) /\ OwnedPid(u) = (p - MIN_PID) + MIN_PID
      BY SMTT(20), <3>1 DEF OwnInv
    <3> QED BY <3>1, <3>2 DEF poolHolds
  <2>3. ~Owns(t) /\ ~Owns(t)' /\ pc[t] \notin Gone /\ pc'[t] \in Gone
    BY DEF TypeOK, Owns, JustMarked, Returned, Gone
  <2>4. \A u \in Workers \ {t} :
          /\ (Owns(u)' <=> Owns(u)) /\ OwnedPid(u)' = OwnedPid(u)
          /\ pc'[u] \in Gone <=> pc[u] \in Gone
    BY DEF TypeOK, Owns, OwnedPid, shared
  <2> HIDE <1>1 DEF IInv, AllocFull, Transition
  <2>5. poolPhase[t] = "want" /\ poolPhase' = [poolPhase EXCEPT ![t] = "gone"]
    BY <2>3, <2>4, Zenon DEF poolPhase
  <2>6. UNCHANGED poolHolds
    BY <2>3, <2>4 DEF poolHolds
  <2> QED BY Zenon, <2>2, <2>5, <2>6 DEF Pool!PoolNext, Pool!Refuse
<1>2. CASE AllocMark(t)
  <2> DEFINE p == next_free_pid_index + MIN_PID
  <2> USE <1>2 DEF AllocMark, Transition, IInv
  <2>1. next_free_pid_index \in Index \ InUse
    BY DEF SearchInv
  <2>2. ~Owns(t) /\ pc[t] \notin Gone /\ Owns(t)' /\ OwnedPid(t)' = p
    BY DEF TypeOK, Owns, OwnedPid, JustMarked, Returned, Gone
  <2>3. \A u \in Workers \ {t} :
          /\ (Owns(u)' <=> Owns(u)) /\ OwnedPid(u)' = OwnedPid(u)
          /\ pc'[u] \in Gone <=> pc[u] \in Gone
    BY DEF TypeOK, Owns, OwnedPid, locals
  <2>4. p \in Pool!Free
    <3>1. p \in Pids /\ p - MIN_PID = next_free_pid_index /\ p # -1
      BY <2>1, SizeType DEF Index, Pids
    <3>2. \A u \in Workers : Owns(u) => OwnedPid(u) # p
      BY <2>1, <3>1 DEF OwnInv
    <3> QED BY <3>1, <3>2 DEF Pool!Free, poolHolds
  <2> HIDE <1>2 DEF p, IInv, AllocMark, Transition
  <2>5. poolPhase[t] = "want" /\ poolPhase' = [poolPhase EXCEPT ![t] = "have"]
    BY <2>2, <2>3, Zenon DEF poolPhase
  <2>6. poolHolds' = [poolHolds EXCEPT ![t] = p]
    BY ZenonT(30), <2>2, <2>3 DEF poolHolds
  <2> QED BY Zenon, <2>4, <2>5, <2>6 DEF Pool!PoolNext, Pool!Allocate
<1>3. CASE ReleaseClear(t)
  <2> USE <1>3 DEF ReleaseClear, Transition, IInv
  <2>1. Owns(t) /\ ~Owns(t)' /\ pc'[t] \in Gone
    BY DEF TypeOK, Owns, JustMarked, Returned, Gone
  <2>2. \A u \in Workers \ {t} :
          /\ (Owns(u)' <=> Owns(u)) /\ OwnedPid(u)' = OwnedPid(u)
          /\ pc'[u] \in Gone <=> pc[u] \in Gone
    BY DEF TypeOK, Owns, OwnedPid, locals
  <2> HIDE <1>3 DEF IInv, ReleaseClear, Transition
  <2>3. poolPhase[t] = "have" /\ poolPhase' = [poolPhase EXCEPT ![t] = "gone"]
    BY <2>1, <2>2, Zenon DEF poolPhase
  <2>4. poolHolds' = [poolHolds EXCEPT ![t] = -1]
    BY <2>1, <2>2, Zenon DEF poolHolds
  <2> QED BY <2>3, <2>4, Zenon DEF Pool!PoolNext, Pool!Release
<1>4. CASE ~AllocFull(t) /\ ~AllocMark(t) /\ ~ReleaseClear(t)
  <2>1. \A u \in Workers : ~Owns(u) => (pc'[u] \in Gone <=> pc[u] \in Gone)
    <3> USE DEF IInv, TypeOK, Transition, Owns, JustMarked, Returned, Gone
    <3>1. CASE AllocLock(t) \/ AllocAssert(t) \/ AllocSearch(t)
      BY SMTT(20), <3>1 DEF AllocLock, AllocAssert, AllocSearch
    <3>2. CASE SearchAgain(t) \/ SearchStop(t) \/ FoundAssert(t)
      BY SMTT(20), <3>2 DEF SearchAgain, SearchStop, FoundAssert
    <3>3. CASE AllocRet(t) \/ AllocUnlock(t)
      BY <3>3 DEF AllocRet, AllocUnlock
    <3>4. CASE ReleaseLock(t) \/ ReleaseUnlock(t)
      BY SMTT(20), <3>4 DEF ReleaseLock, ReleaseUnlock
    <3>5. CASE ReleaseAssert(t) \/ ReleaseAssertState(t)
      BY SMTT(20), <3>5 DEF ReleaseAssert, ReleaseAssertState
    <3>6. CASE SearchAdvance(t) \/ AllocAdvance(t)
      BY SMTT(20), <3>6 DEF SearchAdvance, AllocAdvance, LoadIndex, StoreIndex
    <3>7. CASE AllocCount(t) \/ ReleaseCount(t)
      BY <3>7 DEF AllocCount, ReleaseCount, LoadCount, StoreCount
    <3> HIDE DEF IInv, TypeOK, Transition, Owns, JustMarked, Returned, Gone
    <3> QED BY ZenonT(30), <1>4, <3>1, <3>2, <3>3, <3>4, <3>5, <3>6, <3>7
            DEF Worker_thread_func, AllocatePid, ReleasePid
  <2> QED BY SMTT(20), <1>4, <2>1, OwnedFrame, PoolFrame
<1> QED BY <1>1, <1>2, <1>3, <1>4

(* With the mutex of problem 5.36, pid_manager.c implements the pool of    *)
(* PIDs: an allocated PID is one nobody owns, and a thread is refused only *)
(* when every PID is owned.                                                *)
THEOREM PidRefinement ==
  ASSUME LOCKED PROVE Spec => ImplementsPool
<1>1. Init => Pool!PoolInit
  BY DEF Init, Pool!PoolInit, poolPhase, poolHolds, Owns, JustMarked,
      Returned, Gone
<1>2. IInv /\ [Next]_vars => [Pool!PoolNext]_<<poolPhase, poolHolds>>
  <2> SUFFICES ASSUME IInv, [Next]_vars
               PROVE  [Pool!PoolNext]_<<poolPhase, poolHolds>>
    OBVIOUS
  <2>1. ASSUME NEW t \in Workers, Worker_thread_func(t)
        PROVE  [Pool!PoolNext]_<<poolPhase, poolHolds>>
    BY SMTT(20), <2>1, PoolStep
  <2>2. ASSUME NEW t \in Workers, CreateWorker(t)
        PROVE  UNCHANGED <<poolPhase, poolHolds>>
    <3>1. /\ DOMAIN pc = Workers /\ pc[t] = "new"
          /\ pc' = [pc EXCEPT ![t] = "alloc_lock"]
      BY <2>2 DEF CreateWorker, Transition, IInv, TypeOK
    <3>2. UNCHANGED <<next_free_pid_index, my_pid>>
      BY <2>2 DEF CreateWorker, shared, locals
    <3>3. \A u \in Workers : /\ pc'[u] \in JustMarked <=> pc[u] \in JustMarked
                             /\ pc'[u] \in Returned <=> pc[u] \in Returned
                             /\ pc'[u] \in Gone <=> pc[u] \in Gone
                             /\ pc'[u] = "alloc_unlock" <=> pc[u] = "alloc_unlock"
      BY <3>1 DEF JustMarked, Returned, Gone
    <3>4. \A u \in Workers : /\ Owns(u)' <=> Owns(u)
                             /\ OwnedPid(u)' = OwnedPid(u)
      BY <3>2, <3>3 DEF Owns, OwnedPid
    <3> QED BY <3>3, <3>4, PoolFrame
  <2>3. CASE AllCreated \/ JoinAndFree \/ UNCHANGED vars
    BY <2>3, PoolFrame DEF AllCreated, JoinAndFree, vars, shared, locals,
        Owns, OwnedPid
  <2> QED BY <2>1, <2>2, <2>3 DEF Next, Main, Exited
<1> QED BY IInvInvariant, <1>1, <1>2, PTL DEF Spec, ImplementsPool,
        Pool!PoolSpec
=============================================================================
