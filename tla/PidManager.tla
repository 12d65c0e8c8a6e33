----------------------------- MODULE PidManager -----------------------------
(***************************************************************************)
(* The PID manager of programming problem 5.36 and the program that drives *)
(* it: main() creates the worker threads; each worker calls allocate_pid,  *)
(* sleeps, calls release_pid and exits; main() joins them and calls        *)
(* free_map.                                                               *)
(*                                                                         *)
(* One action is one statement of a thread.  The programs are built        *)
(* without optimisation, so x++ and x %= n are two actions, a load and a   *)
(* store, with other threads in between.  A failed assert aborts the       *)
(* process.                                                                *)
(*                                                                         *)
(* The code of problem 4.20 is the same without the mutex: LOCKED = FALSE. *)
(***************************************************************************)
EXTENDS Integers, FiniteSets

CONSTANTS
  MIN_PID, MAX_PID,   \* the range of the PIDs
  Workers,            \* the worker threads of main()
  NoThread,           \* the owner of a mutex nobody holds
  LOCKED              \* TRUE: problem 5.36.  FALSE: problem 4.20, no mutex

ASSUME PidAssumption ==
  /\ MIN_PID \in Nat /\ MAX_PID \in Nat /\ MIN_PID <= MAX_PID
  /\ NoThread \notin Workers
  /\ LOCKED \in BOOLEAN

PID_IS_AVAILABLE == 0
PID_IS_IN_USE    == 1
PID_STATE_BUF_SIZE == MAX_PID - MIN_PID + 1

Index == 0 .. (PID_STATE_BUF_SIZE - 1)
Pids  == MIN_PID .. MAX_PID

VARIABLES
  pid_alloc_state,      \* shared: the state of every PID
  next_free_pid_index,  \* shared: where the search for a free PID starts
  pid_in_use_count,     \* shared: number of PIDs in use
  mutex,                \* the thread that holds the mutex, or NoThread
  main,                 \* where main() is: "create", "join", "done", or
                        \* "abort" once an assert has failed
  pc,                   \* where each worker is
  iter_count,           \* local of allocate_pid
  my_pid,               \* local: ret_pid, then my_pid; -1 for none
  reg                   \* the register of a load-modify-store

shared == <<pid_alloc_state, next_free_pid_index, pid_in_use_count>>
locals == <<iter_count, my_pid, reg>>
vars   == <<pid_alloc_state, next_free_pid_index, pid_in_use_count,
            mutex, main, pc, iter_count, my_pid, reg>>

Transition(t, from, to) ==
  /\ pc[t] = from
  /\ pc' = [pc EXCEPT ![t] = to]

(* The static variables before main() and after init_state(). *)
Init ==
  /\ pid_alloc_state = [i \in Index |-> PID_IS_AVAILABLE]
  /\ next_free_pid_index = 0
  /\ pid_in_use_count = 0
  /\ mutex = NoThread
  /\ main = "create"
  /\ pc = [t \in Workers |-> "new"]
  /\ iter_count = [t \in Workers |-> 0]
  /\ my_pid = [t \in Workers |-> -1]
  /\ reg = [t \in Workers |-> 0]

-----------------------------------------------------------------------------
(* Loads and stores of the two shared counters. *)

LoadIndex(t, from, to) ==
  /\ Transition(t, from, to)
  /\ reg' = [reg EXCEPT ![t] = next_free_pid_index]
  /\ UNCHANGED <<shared, mutex, main, iter_count, my_pid>>

StoreIndex(t, from, to, v) ==
  /\ Transition(t, from, to)
  /\ next_free_pid_index' = v
  /\ UNCHANGED <<pid_alloc_state, pid_in_use_count, mutex, main, locals>>

LoadCount(t, from, to) ==
  /\ Transition(t, from, to)
  /\ reg' = [reg EXCEPT ![t] = pid_in_use_count]
  /\ UNCHANGED <<shared, mutex, main, iter_count, my_pid>>

StoreCount(t, from, to, v) ==
  /\ Transition(t, from, to)
  /\ pid_in_use_count' = v
  /\ UNCHANGED <<pid_alloc_state, next_free_pid_index, mutex, main, locals>>

(* What reading pid_alloc_state[i] may return.  Without the mutex the index *)
(* can be seen between its ++ and its %=, one past the end of the array:    *)
(* the byte found there is not the program's.                               *)
AllocStateAt(i) ==
  IF i \in Index THEN {pid_alloc_state[i]}
                 ELSE {PID_IS_AVAILABLE, PID_IS_IN_USE}

(* assert(cond): abort() ends every thread. *)
CAssert(cond) == main' = IF cond THEN main ELSE "abort"

LockMutex(t) ==
  /\ LOCKED => mutex = NoThread
  /\ mutex' = IF LOCKED THEN t ELSE mutex

UnlockMutex(t) ==
  mutex' = IF LOCKED THEN NoThread ELSE mutex

-----------------------------------------------------------------------------
(* allocate_pid *)

AllocLock(t) ==
  /\ Transition(t, "alloc_lock", "alloc_assert")
  /\ LockMutex(t)
  /\ UNCHANGED <<shared, main, locals>>

(* Validate in use range. *)
AllocAssert(t) ==
  /\ Transition(t, "alloc_assert", "alloc_check")
  /\ CAssert(pid_in_use_count >= 0 /\ pid_in_use_count <= PID_STATE_BUF_SIZE)
  /\ UNCHANGED <<shared, mutex, locals>>

(* Mutant: refuses while one PID is still free. *)
AllocFullTooEarly(t) ==
  /\ Transition(t, "alloc_check", "alloc_unlock")
  /\ pid_in_use_count >= PID_STATE_BUF_SIZE - 1
  /\ my_pid' = [my_pid EXCEPT ![t] = -1]
  /\ UNCHANGED <<shared, mutex, main, iter_count, reg>>

(* No PID is free: the result is -1. *)
AllocFull(t) ==
  /\ Transition(t, "alloc_check", "alloc_unlock")
  /\ pid_in_use_count >= PID_STATE_BUF_SIZE
  /\ my_pid' = [my_pid EXCEPT ![t] = -1]
  /\ UNCHANGED <<shared, mutex, main, iter_count, reg>>

(* Mutant: the test for a full table is off by one. *)
AllocSearchWhenFull(t) ==
  /\ Transition(t, "alloc_check", "while")
  /\ pid_in_use_count <= PID_STATE_BUF_SIZE
  /\ iter_count' = [iter_count EXCEPT ![t] = 0]
  /\ UNCHANGED <<shared, mutex, main, my_pid, reg>>

AllocSearch(t) ==
  /\ Transition(t, "alloc_check", "while")
  /\ pid_in_use_count < PID_STATE_BUF_SIZE
  /\ iter_count' = [iter_count EXCEPT ![t] = 0]
  /\ UNCHANGED <<shared, mutex, main, my_pid, reg>>

(* The loop test of the search: go round, or stop at this index. *)
SearchAgain(t) ==
  /\ Transition(t, "while", "scan_inc")
  /\ PID_IS_IN_USE \in AllocStateAt(next_free_pid_index)
  /\ iter_count[t] < PID_STATE_BUF_SIZE
  /\ iter_count' = [iter_count EXCEPT ![t] = @ + 1]
  /\ UNCHANGED <<shared, mutex, main, my_pid, reg>>

SearchStop(t) ==
  /\ Transition(t, "while", "found_assert")
  /\ \/ PID_IS_AVAILABLE \in AllocStateAt(next_free_pid_index)
     \/ iter_count[t] >= PID_STATE_BUF_SIZE
  /\ UNCHANGED <<shared, mutex, main, locals>>

(* next_free_pid_index++; next_free_pid_index %= PID_STATE_BUF_SIZE *)
SearchAdvance(t) ==
  \/ LoadIndex(t, "scan_inc", "scan_inc_st")
  \/ StoreIndex(t, "scan_inc_st", "scan_mod", reg[t] + 1)
  \/ LoadIndex(t, "scan_mod", "scan_mod_st")
  \/ StoreIndex(t, "scan_mod_st", "while", reg[t] % PID_STATE_BUF_SIZE)

(* Sanity check. The loop should have found a free PID. *)
FoundAssert(t) ==
  /\ Transition(t, "found_assert", "mark")
  /\ \E s \in AllocStateAt(next_free_pid_index) : CAssert(s = PID_IS_AVAILABLE)
  /\ UNCHANGED <<shared, mutex, locals>>

(* pid_alloc_state[next_free_pid_index] = PID_IS_IN_USE; a store past the  *)
(* end of the array changes no element of it.                              *)
AllocMark(t) ==
  /\ Transition(t, "mark", "inc")
  /\ pid_alloc_state' = [i \in Index |->
       IF i = next_free_pid_index THEN PID_IS_IN_USE ELSE pid_alloc_state[i]]
  /\ UNCHANGED <<next_free_pid_index, pid_in_use_count, mutex, main, locals>>

(* pid_in_use_count++ *)
AllocCount(t) ==
  \/ LoadCount(t, "inc", "inc_st")
  \/ StoreCount(t, "inc_st", "ret", reg[t] + 1)

(* ret_pid = next_free_pid_index + MIN_PID *)
AllocRet(t) ==
  /\ Transition(t, "ret", "adv_inc")
  /\ my_pid' = [my_pid EXCEPT ![t] = next_free_pid_index + MIN_PID]
  /\ UNCHANGED <<shared, mutex, main, iter_count, reg>>

(* next_free_pid_index++; next_free_pid_index %= PID_STATE_BUF_SIZE *)
AllocAdvance(t) ==
  \/ LoadIndex(t, "adv_inc", "adv_inc_st")
  \/ StoreIndex(t, "adv_inc_st", "adv_mod", reg[t] + 1)
  \/ LoadIndex(t, "adv_mod", "adv_mod_st")
  \/ StoreIndex(t, "adv_mod_st", "alloc_unlock", reg[t] % PID_STATE_BUF_SIZE)

(* Mutant: the path that returns -1 forgets to unlock. *)
AllocUnlockNotOnFailure(t) ==
  /\ Transition(t, "alloc_unlock", IF my_pid[t] = -1 THEN "done" ELSE "alive")
  /\ IF my_pid[t] = -1 THEN UNCHANGED mutex ELSE UnlockMutex(t)
  /\ UNCHANGED <<shared, main, locals>>

(* Unlock and return to the worker, which exits when it got no PID. *)
AllocUnlock(t) ==
  /\ Transition(t, "alloc_unlock", IF my_pid[t] = -1 THEN "done" ELSE "alive")
  /\ UnlockMutex(t)
  /\ UNCHANGED <<shared, main, locals>>

-----------------------------------------------------------------------------
(* release_pid *)

ReleaseLock(t) ==
  /\ Transition(t, "alive", "rel_assert")
  /\ LockMutex(t)
  /\ UNCHANGED <<shared, main, locals>>

(* At least 1 PID must be in use; the PID is in range. *)
ReleaseAssert(t) ==
  /\ Transition(t, "rel_assert", "rel_assert_state")
  /\ CAssert(/\ pid_in_use_count > 0 /\ pid_in_use_count <= PID_STATE_BUF_SIZE
            /\ my_pid[t] >= MIN_PID /\ my_pid[t] <= MAX_PID)
  /\ UNCHANGED <<shared, mutex, locals>>

(* The PID should be marked as in use if it is being released. *)
ReleaseAssertState(t) ==
  /\ Transition(t, "rel_assert_state", "release")
  /\ \E s \in AllocStateAt(my_pid[t] - MIN_PID) : CAssert(s = PID_IS_IN_USE)
  /\ UNCHANGED <<shared, mutex, locals>>

(* pid_alloc_state[pid - MIN_PID] = PID_IS_AVAILABLE *)
ReleaseClear(t) ==
  /\ Transition(t, "release", "dec")
  /\ pid_alloc_state' = [i \in Index |->
       IF i = my_pid[t] - MIN_PID THEN PID_IS_AVAILABLE ELSE pid_alloc_state[i]]
  /\ UNCHANGED <<next_free_pid_index, pid_in_use_count, mutex, main, locals>>

(* pid_in_use_count-- *)
ReleaseCount(t) ==
  \/ LoadCount(t, "dec", "dec_st")
  \/ StoreCount(t, "dec_st", "rel_unlock", reg[t] - 1)

ReleaseUnlock(t) ==
  /\ Transition(t, "rel_unlock", "done")
  /\ UnlockMutex(t)
  /\ UNCHANGED <<shared, main, locals>>

-----------------------------------------------------------------------------
(* main() *)

CreateWorker(t) ==
  /\ main = "create"
  /\ Transition(t, "new", "alloc_lock")
  /\ UNCHANGED <<shared, mutex, main, locals>>

AllCreated ==
  /\ main = "create"
  /\ \A t \in Workers : pc[t] # "new"
  /\ main' = "join"
  /\ UNCHANGED <<shared, mutex, pc, locals>>

(* The last pthread_join returns; free_map() destroys the mutex. *)
JoinAndFree ==
  /\ main = "join"
  /\ \A t \in Workers : pc[t] = "done"
  /\ main' = "done"
  /\ UNCHANGED <<shared, mutex, pc, locals>>

AllocatePid(t) ==
  \/ AllocLock(t) \/ AllocAssert(t) \/ AllocFull(t) \/ AllocSearch(t)
  \/ SearchAgain(t) \/ SearchStop(t) \/ SearchAdvance(t) \/ FoundAssert(t)
  \/ AllocMark(t) \/ AllocCount(t) \/ AllocRet(t) \/ AllocAdvance(t)
  \/ AllocUnlock(t)

ReleasePid(t) ==
  \/ ReleaseLock(t) \/ ReleaseAssert(t) \/ ReleaseAssertState(t)
  \/ ReleaseClear(t) \/ ReleaseCount(t) \/ ReleaseUnlock(t)

Worker_thread_func(t) ==
  /\ main # "abort"
  /\ AllocatePid(t) \/ ReleasePid(t)

Main == (\E t \in Workers : CreateWorker(t)) \/ AllCreated \/ JoinAndFree

(* The process has ended. *)
Exited == main \in {"done", "abort"} /\ UNCHANGED vars

Next ==
  \/ \E t \in Workers : Worker_thread_func(t)
  \/ Main
  \/ Exited

Spec == Init /\ [][Next]_vars

(* Every thread that can run does run.  A worker takes the mutex twice in  *)
(* its life, so weak fairness is enough: no lock has to be fair.           *)
FairSpec ==
  /\ Spec
  /\ WF_vars(Main)
  /\ \A t \in Workers : WF_vars(Worker_thread_func(t))

-----------------------------------------------------------------------------
(* Properties *)

InsideAlloc ==
  {"alloc_assert", "alloc_check", "while", "scan_inc", "scan_inc_st",
   "scan_mod", "scan_mod_st", "found_assert", "mark", "inc", "inc_st", "ret",
   "adv_inc", "adv_inc_st", "adv_mod", "adv_mod_st", "alloc_unlock"}
InsideRelease ==
  {"rel_assert", "rel_assert_state", "release", "dec", "dec_st", "rel_unlock"}
Inside == InsideAlloc \cup InsideRelease

(* The types of the variables of pid_manager.c and of the worker's locals, *)
(* with the index still below the size of the buffer outside the two       *)
(* statements that advance it.                                             *)
TypeOK ==
  /\ pid_alloc_state \in [Index -> {PID_IS_AVAILABLE, PID_IS_IN_USE}]
  /\ next_free_pid_index \in 0 .. PID_STATE_BUF_SIZE
  /\ pid_in_use_count \in 0 .. PID_STATE_BUF_SIZE
  /\ mutex \in Workers \cup {NoThread}
  /\ main \in {"create", "join", "done", "abort"}
  /\ pc \in [Workers -> Inside \cup {"new", "alloc_lock", "alive", "done"}]
  /\ iter_count \in [Workers -> 0 .. PID_STATE_BUF_SIZE]
  /\ my_pid \in [Workers -> Pids \cup {-1}]
  /\ reg \in [Workers -> 0 .. PID_STATE_BUF_SIZE]

(* Where a thread owns a PID: from the store that marks it in              *)
(* pid_alloc_state to the store that clears it again.                      *)
JustMarked == {"inc", "inc_st", "ret"}
Returned   == {"adv_inc", "adv_inc_st", "adv_mod", "adv_mod_st", "alive",
               "rel_assert", "rel_assert_state", "release"}

Owns(t) ==
  \/ pc[t] \in JustMarked \cup Returned
  \/ pc[t] = "alloc_unlock" /\ my_pid[t] # -1

OwnedPid(t) ==
  IF pc[t] \in JustMarked THEN next_free_pid_index + MIN_PID ELSE my_pid[t]

(* No two threads own the same PID at the same time, at any point between  *)
(* the store that marks it and the store that frees it.                    *)
UniquePids ==
  \A t, u \in Workers :
    t # u /\ Owns(t) /\ Owns(u) => OwnedPid(t) # OwnedPid(u)

(* None of the assertions of allocate_pid and release_pid ever fails: in   *)
(* particular the bounded search always ends on a free PID, and a PID that *)
(* is released is still marked as in use.                                  *)
NoAssertFails == main # "abort"

(* Whenever no thread is inside the manager, pid_in_use_count is the       *)
(* number of entries marked in use, and these are exactly the PIDs that    *)
(* live threads own: none is lost, none is marked twice.                   *)
InUse == {i \in Index : pid_alloc_state[i] = PID_IS_IN_USE}

CountIsExact ==
  mutex = NoThread =>
    /\ pid_in_use_count = Cardinality(InUse)
    /\ InUse = {OwnedPid(t) - MIN_PID : t \in {u \in Workers : Owns(u)}}

(* free_map destroys the mutex only when no thread can touch it any more,  *)
(* and leaves every PID available.                                         *)
CleanShutdown ==
  main = "done" =>
    /\ mutex = NoThread
    /\ \A t \in Workers : pc[t] = "done"
    /\ InUse = {} /\ pid_in_use_count = 0

(* The manager implements the pool of PIDs: an allocation takes effect     *)
(* where the PID is marked, a refusal where the count is tested, and a     *)
(* release where the entry is cleared.  A thread is refused only when      *)
(* every PID is owned.                                                     *)
Gone == {"alloc_unlock", "dec", "dec_st", "rel_unlock", "done"}
poolPhase ==
  [t \in Workers |-> IF Owns(t) THEN "have"
                    ELSE IF pc[t] \in Gone THEN "gone" ELSE "want"]
poolHolds == [t \in Workers |-> IF Owns(t) THEN OwnedPid(t) ELSE -1]

Pool == INSTANCE PidPool WITH
  Procs <- Workers, Pool <- Pids, NoPid <- -1,
  phase <- poolPhase, holds <- poolHolds

ImplementsPool == Pool!PoolSpec

(* Every worker exits and main() gets past its joins. *)
Terminates == <>(main = "done")

-----------------------------------------------------------------------------
(* The inductive invariant of the manager with its mutex *)

(* Exactly the owner of the mutex is between lock and unlock. *)
LockInv == \A t \in Workers : pc[t] \in Inside <=> mutex = t

(* A loaded value is still the variable's value when it is stored back,    *)
(* and the index is one past the end only between its ++ and its %=.       *)
RegInv ==
  /\ \A t \in Workers :
       /\ pc[t] \in {"scan_inc_st", "scan_mod_st", "adv_inc_st", "adv_mod_st"}
            => reg[t] = next_free_pid_index
       /\ pc[t] \in {"inc_st", "dec_st"} => reg[t] = pid_in_use_count
  /\ \/ next_free_pid_index \in Index
     \/ \E t \in Workers :
          pc[t] \in {"scan_mod", "scan_mod_st", "adv_mod", "adv_mod_st"}

(* The count is the number of entries in use, but for the thread that has  *)
(* changed an entry and not yet the count.                                 *)
CountSkew ==
  IF \E t \in Workers : pc[t] \in {"inc", "inc_st"} THEN -1
  ELSE IF \E t \in Workers : pc[t] \in {"dec", "dec_st"} THEN 1
  ELSE 0

CountInv == pid_in_use_count = Cardinality(InUse) + CountSkew

(* An entry is in use exactly when a thread owns its PID. *)
OwnInv ==
  /\ UniquePids
  /\ \A t \in Workers : Owns(t) =>
       OwnedPid(t) \in Pids /\ OwnedPid(t) - MIN_PID \in InUse
  /\ \A i \in InUse : \E t \in Workers : Owns(t) /\ OwnedPid(t) = i + MIN_PID

(* How many steps the index took from entry i to reach n, going round. *)
StepsFrom(i, n) == IF i < n THEN n - i ELSE n - i + PID_STATE_BUF_SIZE

(* During the search some entry is free, and the iter_count entries behind *)
(* the index are in use; after it the entry at the index is free.          *)
SearchInv ==
  \A t \in Workers :
    /\ pc[t] \in {"while", "scan_inc", "scan_inc_st", "scan_mod", "scan_mod_st"}
         => pid_in_use_count < PID_STATE_BUF_SIZE
    /\ pc[t] \in {"while", "scan_mod", "scan_mod_st"} =>
         \A i \in Index :
           StepsFrom(i, next_free_pid_index) <= iter_count[t] => i \in InUse
    /\ pc[t] \in {"scan_inc", "scan_inc_st"} =>
         \A i \in Index :
           StepsFrom(i, next_free_pid_index + 1) <= iter_count[t] => i \in InUse
    /\ pc[t] \in {"found_assert", "mark"} => next_free_pid_index \in Index \ InUse

(* main() is behind its loops only when the workers are. *)
MainInv ==
  /\ main = "join" => \A t \in Workers : pc[t] # "new"
  /\ main = "done" => \A t \in Workers : pc[t] = "done"
  /\ main # "abort"

(* The inductive invariant: the mutex excludes, the count and the owners   *)
(* agree with pid_alloc_state, the search leaves no free entry behind it.  *)
IInv ==
  TypeOK /\ LockInv /\ RegInv /\ CountInv /\ OwnInv /\ SearchInv /\ MainInv

-----------------------------------------------------------------------------
(* What the comments of the source say *)

(* The comment on the assertion of release_pid: a PID that is being        *)
(* released is marked as in use.                                           *)
ReleasedPidIsInUse ==
  \A t \in Workers :
    main # "abort" /\ pc[t] = "rel_assert_state" =>
      PID_IS_IN_USE \in AllocStateAt(my_pid[t] - MIN_PID)
=============================================================================
