---------------------------- MODULE BarrierProofs ----------------------------
(***************************************************************************)
(* Proofs about Barrier, for every finite set of threads and every number  *)
(* N of threads to wait for: the inductive invariant IInv, and that the    *)
(* barrier implements Rendezvous.                                          *)
(***************************************************************************)
EXTENDS Barrier, FiniteSetTheorems, TLAPS

(* The sets of threads are finite, and the gate lets at most N threads in. *)
LEMMA Counts ==
  ASSUME IInv
  PROVE  /\ N \in Nat \ {0}
         /\ IsFiniteSet(Inside) /\ IsFiniteSet(PastGate)
         /\ Inside \subseteq PastGate
         /\ Cardinality(Inside) \in Nat /\ Cardinality(PastGate) \in Nat
         /\ Cardinality(PastGate) <= N
<1>1. N \in Nat \ {0}
  BY BarrierAssumption, FS_CardinalityType
<1>2. Inside \subseteq PastGate /\ PastGate \subseteq Threads
  BY DEF Inside, PastGate
<1>3. IsFiniteSet(Inside) /\ IsFiniteSet(PastGate)
  BY <1>2, BarrierAssumption, FS_Subset
<1>4. Cardinality(Inside) \in Nat /\ Cardinality(PastGate) \in Nat
  BY <1>3, FS_CardinalityType
<1> QED BY <1>1, <1>2, <1>3, <1>4 DEF IInv, TypeOK

(* When the counter has reached N, every thread behind the gate has been   *)
(* counted in; a thread that has not been leaves the counter below N.      *)
LEMMA AllInside ==
  ASSUME IInv
  PROVE  /\ inside_barrier_count \in 0 .. N
         /\ inside_barrier_count = N => Inside = PastGate
<1>1. /\ Cardinality(Inside) <= Cardinality(PastGate)
      /\ Cardinality(Inside) = Cardinality(PastGate) => Inside = PastGate
  BY Counts, FS_Subset
<1> QED BY <1>1, Counts DEF IInv, TypeOK

(* What the actions do to the two sets: only EntryGate and ExitGate change *)
(* who is behind the gate, only Enter and Leave who is counted.            *)
LEMMA Sets ==
  ASSUME IInv, NEW t \in Threads
  PROVE  /\ \/ Create(t) \/ CloseIfEmpty(t) \/ FirstWall(t) \/ SecondWall(t)
            \/ SpuriousWakeup(t)
            => Inside' = Inside /\ PastGate' = PastGate
         /\ EntryGate(t) => /\ Inside' = Inside
                            /\ PastGate' = PastGate \cup {t}
                            /\ t \notin PastGate
         /\ Enter(t) => /\ Inside' = Inside \cup {t}
                        /\ t \notin Inside /\ t \in PastGate
                        /\ PastGate' = PastGate
         /\ Leave(t) => /\ Inside' = Inside \ {t}
                        /\ t \in Inside
                        /\ PastGate' = PastGate
         /\ ExitGate(t) => /\ Inside' = Inside
                           /\ PastGate' = PastGate \ {t}
                           /\ t \in PastGate
<1> USE DEF IInv, TypeOK, Inside, PastGate, Goto
<1>1. Create(t) => Inside' = Inside /\ PastGate' = PastGate
  BY DEF Create
<1>2. CloseIfEmpty(t) => Inside' = Inside /\ PastGate' = PastGate
  BY DEF CloseIfEmpty, GotoBroadcast, Woken
<1>3. FirstWall(t) \/ SecondWall(t) \/ SpuriousWakeup(t)
      => Inside' = Inside /\ PastGate' = PastGate
  BY DEF FirstWall, SecondWall, SpuriousWakeup, Woken
<1>4. EntryGate(t) => /\ Inside' = Inside
                      /\ PastGate' = PastGate \cup {t}
                      /\ t \notin PastGate
  BY DEF EntryGate
<1>5. Enter(t) => /\ Inside' = Inside \cup {t}
                  /\ t \notin Inside /\ t \in PastGate
                  /\ PastGate' = PastGate
  BY DEF Enter
<1>6. Leave(t) => /\ Inside' = Inside \ {t}
                  /\ t \in Inside
                  /\ PastGate' = PastGate
  BY DEF Leave, GotoBroadcast, Woken
<1>7. ExitGate(t) => /\ Inside' = Inside
                     /\ PastGate' = PastGate \ {t}
                     /\ t \in PastGate
  BY DEF ExitGate
<1> HIDE DEF IInv, TypeOK, Inside, PastGate, Goto
<1> QED BY <1>1, <1>2, <1>3, <1>4, <1>5, <1>6, <1>7

(* What a thread that passes Leave finds: with the wall closed it is the   *)
(* first of N; and it is always counted out.                               *)
LEMMA LeaveCounts ==
  ASSUME IInv, NEW t \in Threads, Leave(t)
  PROVE  /\ inside_barrier_count' = inside_barrier_count - 1
         /\ inside_barrier_count \in 1 .. N
         /\ is_closed => inside_barrier_count = N
         /\ ~is_closed'
<1>1. is_closed => inside_barrier_count = N
  BY DEF IInv, Leave
<1>2. inside_barrier_count # 0
  BY Sets, Counts, FS_EmptySet DEF IInv, TypeOK
<1>3. inside_barrier_count \in 1 .. N
  BY <1>2, AllInside, Counts
<1>4. ~is_closed'
  BY Zenon, <1>1 DEF Leave
<1> QED BY <1>1, <1>3, <1>4, Counts DEF Leave

(* Types and counts are kept by every step of a thread. *)
LEMMA TypeStep ==
  ASSUME IInv, NEW t \in Threads,
         Create(t) \/ Worker_thread_func(t) \/ SpuriousWakeup(t)
  PROVE  TypeOK'
<1>1. pc' \in [Threads -> {"new", "work", "close", "wall1", "wait1", "enter",
                           "wall2", "wait2", "leave", "post"}]
  BY DEF IInv, TypeOK, Goto, GotoBroadcast, Woken, Create, Worker_thread_func,
         EntryGate, CloseIfEmpty, FirstWall, Enter, SecondWall, Leave,
         ExitGate, SpuriousWakeup
<1>2. is_closed' \in BOOLEAN
  BY Zenon DEF IInv, TypeOK, Create, Worker_thread_func, EntryGate, CloseIfEmpty,
         FirstWall, Enter, SecondWall, Leave, ExitGate, SpuriousWakeup
<1>3. CASE \/ Create(t) \/ CloseIfEmpty(t) \/ FirstWall(t) \/ SecondWall(t)
           \/ SpuriousWakeup(t)
  <2>1. UNCHANGED <<entry_gate_sem, inside_barrier_count>>
    BY <1>3 DEF Create, CloseIfEmpty, FirstWall, SecondWall, SpuriousWakeup
  <2> QED BY <1>1, <1>2, <1>3, <2>1, Sets DEF IInv, TypeOK
<1>4. CASE EntryGate(t)
  <2>1. Cardinality(PastGate') = Cardinality(PastGate) + 1
    BY <1>4, Sets, Counts, FS_AddElement
  <2> QED BY <1>1, <1>2, <1>4, <2>1, Sets, Counts DEF IInv, TypeOK, EntryGate
<1>5. CASE Enter(t)
  <2>1. Cardinality(Inside') = Cardinality(Inside) + 1
    BY <1>5, Sets, Counts, FS_AddElement
  <2> QED BY <1>1, <1>2, <1>5, <2>1, Sets, Counts DEF IInv, TypeOK, Enter
<1>6. CASE Leave(t)
  <2>1. Cardinality(Inside') = Cardinality(Inside) - 1
    BY <1>6, Sets, Counts, FS_RemoveElement
  <2>2. UNCHANGED entry_gate_sem
    BY <1>6 DEF Leave
  <2> QED BY <1>1, <1>2, <1>6, <2>1, <2>2, Sets, LeaveCounts DEF IInv, TypeOK
<1>7. CASE ExitGate(t)
  <2>1. Cardinality(PastGate') = Cardinality(PastGate) - 1
    BY <1>7, Sets, Counts, FS_RemoveElement
  <2> QED BY <1>1, <1>2, <1>7, <2>1, Sets, Counts DEF IInv, TypeOK, ExitGate
<1> QED BY <1>3, <1>4, <1>5, <1>6, <1>7 DEF Worker_thread_func

(* What the two walls decided is kept: nobody waits at a wall that has     *)
(* opened, nobody is counted in while the threads leave, and nobody leaves *)
(* through a closed wall unless N threads are inside.                      *)
LEMMA WallStep ==
  ASSUME IInv, NEW t \in Threads,
         Create(t) \/ Worker_thread_func(t) \/ SpuriousWakeup(t)
  PROVE  /\ NoLostBroadcast'
         /\ \A u \in Threads :
              /\ pc'[u] = "enter" => is_closed'
              /\ pc'[u] = "leave" /\ is_closed' => inside_barrier_count' = N
<1> SUFFICES ASSUME NEW u \in Threads
             PROVE  /\ pc'[u] = "wait1" => ~is_closed'
                    /\ pc'[u] = "wait2" => is_closed'
                    /\ pc'[u] = "enter" => is_closed'
                    /\ pc'[u] = "leave" /\ is_closed' => inside_barrier_count' = N
  BY DEF NoLostBroadcast
<1>1. CASE \/ Create(t) \/ EntryGate(t) \/ FirstWall(t) \/ ExitGate(t)
           \/ SpuriousWakeup(t)
  BY <1>1 DEF IInv, TypeOK, NoLostBroadcast, Goto, Woken, Create, EntryGate,
              FirstWall, ExitGate, SpuriousWakeup
<1>2. CASE CloseIfEmpty(t)
  <2>1. inside_barrier_count = 0 => Inside = {}
    BY Zenon, Counts, FS_EmptySet DEF IInv, TypeOK
  <2>2. inside_barrier_count = 0 => pc[u] \notin {"wall2", "wait2", "leave"}
    BY <2>1 DEF Inside
  <2> QED BY <1>2, <2>2 DEF IInv, TypeOK, NoLostBroadcast, Goto,
            GotoBroadcast, Woken, CloseIfEmpty
<1>3. CASE Enter(t)
  <2>1. inside_barrier_count # N
    BY <1>3, Sets, AllInside
  <2> QED BY <1>3, <2>1 DEF IInv, TypeOK, NoLostBroadcast, Goto, Enter
<1>4. CASE SecondWall(t)
  BY <1>4, AllInside, Counts DEF IInv, TypeOK, NoLostBroadcast, Goto,
          SecondWall
<1>5. CASE Leave(t)
  <2>1. inside_barrier_count = N => pc[u] # "enter"
    BY AllInside DEF Inside, PastGate
  <2>2. ~is_closed' /\ (is_closed => inside_barrier_count = N)
    BY <1>5, LeaveCounts
  <2> QED BY <1>5, <2>1, <2>2 DEF IInv, TypeOK, NoLostBroadcast, Goto,
            GotoBroadcast, Woken, Leave
<1> QED BY <1>1, <1>2, <1>3, <1>4, <1>5 DEF Worker_thread_func

(* The invariant of the barrier holds for every number of threads and      *)
(* every N: the counter and the gate are exact, no broadcast is missed,    *)
(* and no decision of a critical section is stale in the next.             *)
THEOREM IInvInvariant == Spec => []IInv
<1>1. Init => IInv
  <2> SUFFICES ASSUME Init PROVE IInv
    OBVIOUS
  <2>1. Inside = {} /\ PastGate = {}
    BY DEF Init, Inside, PastGate
  <2>2. N \in Nat
    BY BarrierAssumption, FS_CardinalityType
  <2> QED BY <2>1, <2>2, FS_EmptySet DEF Init, IInv, TypeOK, NoLostBroadcast
<1>2. IInv /\ [Next]_vars => IInv'
  <2> SUFFICES ASSUME IInv, [Next]_vars PROVE IInv'
    OBVIOUS
  <2>1. CASE Next
    BY <2>1, TypeStep, WallStep DEF Next, IInv
  <2>2. CASE UNCHANGED vars
    BY <2>2 DEF vars, IInv, TypeOK, NoLostBroadcast, Inside, PastGate
  <2> QED BY <2>1, <2>2
<1> QED BY <1>1, <1>2, PTL DEF Spec

(* barrier_point never misses a broadcast: a thread waits at a wall only   *)
(* as long as the wall is closed to it.                                    *)
THEOREM BroadcastSafety == Spec => [](TypeOK /\ NoLostBroadcast)
<1>1. IInv => TypeOK /\ NoLostBroadcast
  BY DEF IInv
<1> QED BY IInvInvariant, <1>1, PTL

(* The cardinality in the instance of Rendezvous is that of Barrier. *)
LEMMA SameCardinality ==
  ASSUME NEW S PROVE Meeting!Cardinality(S) = Cardinality(S)
  BY DEF Cardinality, Meeting!Cardinality

(* Every step of a thread is a step of the abstract barrier, or changes    *)
(* nothing it sees: Enter is an arrival, Leave a departure.                *)
LEMMA RendezvousStep ==
  ASSUME IInv, NEW t \in Threads,
         Create(t) \/ Worker_thread_func(t) \/ SpuriousWakeup(t)
  PROVE  [Meeting!RendezvousNext]_<<IF is_closed THEN Inside ELSE {},
                                    IF is_closed THEN {} ELSE Inside>>
<1>1. CASE \/ Create(t) \/ EntryGate(t) \/ FirstWall(t) \/ SecondWall(t)
           \/ ExitGate(t) \/ SpuriousWakeup(t)
  <2>1. UNCHANGED is_closed
    BY <1>1 DEF Create, EntryGate, FirstWall, SecondWall, ExitGate,
                SpuriousWakeup
  <2> QED BY <1>1, <2>1, Sets
<1>2. CASE CloseIfEmpty(t)
  <2>1. inside_barrier_count = 0 => Inside = {}
    BY Zenon, Counts, FS_EmptySet DEF IInv, TypeOK
  <2>2. inside_barrier_count # 0 => UNCHANGED is_closed
    BY <1>2 DEF CloseIfEmpty
  <2> QED BY <1>2, <2>1, <2>2, Sets
<1>3. CASE Enter(t)
  <2>1. is_closed /\ is_closed'
    BY <1>3 DEF IInv, Enter
  <2>2. Cardinality(Inside) < N
    <3>1. inside_barrier_count # N
      BY <1>3, Sets, AllInside
    <3> QED BY <3>1, AllInside, Counts DEF IInv, TypeOK
  <2>3. Inside' = Inside \cup {t} /\ t \notin Inside
    BY <1>3, Sets
  <2>4. Meeting!Cardinality(Inside) < N
    BY <2>2, SameCardinality
  <2>5. Meeting!Arrive(t)
    BY <2>1, <2>3, <2>4 DEF Meeting!Arrive
  <2> QED BY <2>5 DEF Meeting!RendezvousNext
<1>4. CASE Leave(t)
  <2>1. ~is_closed' /\ (is_closed => Cardinality(Inside) = N)
    BY <1>4, LeaveCounts DEF IInv, TypeOK
  <2>2. Inside' = Inside \ {t} /\ t \in Inside
    BY <1>4, Sets
  <2>3. is_closed => Meeting!LeaveFirst(t)
    <3>1. is_closed => Meeting!Cardinality(Inside) = N
      BY <2>1, SameCardinality
    <3> QED BY <2>1, <2>2, <3>1 DEF Meeting!LeaveFirst
  <2>4. ~is_closed => Meeting!Leave(t)
    BY <2>1, <2>2 DEF Meeting!Leave
  <2> QED BY <2>3, <2>4 DEF Meeting!RendezvousNext
<1> QED BY <1>1, <1>2, <1>3, <1>4 DEF Worker_thread_func

(* barrier_point is a barrier for every number of threads and every N:     *)
(* nobody gets out before N have come in, and the next group comes in when *)
(* the last has left, even if a fast thread returns while others leave.    *)
THEOREM BarrierRefinement == Spec => ImplementsRendezvous
<1> DEFINE mapped == <<IF is_closed THEN Inside ELSE {},
                       IF is_closed THEN {} ELSE Inside>>
<1>1. Init => Meeting!RendezvousInit
  BY DEF Init, Meeting!RendezvousInit, Inside
<1>2. IInv /\ [Next]_vars => [Meeting!RendezvousNext]_mapped
  <2> SUFFICES ASSUME IInv, [Next]_vars
               PROVE  [Meeting!RendezvousNext]_mapped
    OBVIOUS
  <2>1. CASE Next
    BY <2>1, RendezvousStep DEF Next
  <2>2. CASE UNCHANGED vars
    BY <2>2 DEF vars, Inside
  <2> QED BY <2>1, <2>2
<1> QED BY IInvInvariant, <1>1, <1>2, PTL DEF Spec, ImplementsRendezvous,
        Meeting!RendezvousSpec
==============================================================================
