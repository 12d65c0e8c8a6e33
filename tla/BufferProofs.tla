---------------------------- MODULE BufferProofs ----------------------------
(***************************************************************************)
(* Proofs about the programs whose threads fill a buffer, for every value  *)
(* of the constants.  The first section is about BoundedBuffer, for every  *)
(* size of the buffer and every set of producers and consumers: the        *)
(* inductive invariant IInv, what follows from it, and that the buffer     *)
(* implements ItemQueue.  The second is about the Fibonacci thread; what   *)
(* its recursion computes is shown by induction with a set for the         *)
(* induction hypothesis (SetInduction), which the provers can instantiate. *)
(***************************************************************************)
EXTENDS BoundedBuffer, BufferListings, SequenceTheorems,
        WellFoundedInduction, TLAPS

-----------------------------------------------------------------------------
(* The bounded buffer *)

(* The remainder of a value that is at most the divisor: an index after    *)
(* its increment.                                                          *)
LEMMA WrapAround ==
  ASSUME NEW m \in Nat \ {0}, NEW x \in 0 .. m
  PROVE  x % m = IF x = m THEN 0 ELSE x
  BY SMT

(* The labels between the lock and the unlock of insert_item and           *)
(* remove_item.                                                            *)
Locked == {"check", "sem", "move", "unlock"}

(* One thread at most is inside insert_item and remove_item. *)
LEMMA Exclusive ==
  ASSUME IInv, NEW t \in Threads, NEW u \in Threads, u # t, pc[t] \in Locked
  PROVE  pc[u] \notin Locked
  BY DEF IInv, Locked

(* The mutex stays with the thread inside insert_item or remove_item. *)
LEMMA MutexStep ==
  ASSUME IInv, NEW t \in Threads,
         Create(t) \/ Producer_thread_func(t) \/ Consumer_thread_func(t)
  PROVE  (\A u \in Threads :
            pc[u] \in {"check", "sem", "move", "unlock"} <=> mutex = u)'
<1> USE BufferAssumption DEF IInv, TypeOK, Threads, At, Goto
<1>1. CASE Create(t) \/ Produce(t) \/ While(t)
  BY <1>1 DEF Create, Produce, While
<1>2. CASE Lock(t) \/ Unlock(t)
  BY <1>2 DEF Lock, Unlock
<1>3. CASE InsertCheck(t) \/ EmptyWait(t) \/ Insert(t)
  BY <1>3 DEF InsertCheck, EmptyWait, Insert
<1>4. CASE RemoveCheck(t) \/ FullWait(t) \/ Remove(t)
  BY <1>4 DEF RemoveCheck, FullWait, Remove
<1> QED BY <1>1, <1>2, <1>3, <1>4
        DEF Producer_thread_func, Consumer_thread_func, Common

(* No thread, or only t, is between its sem_wait and its sem_post. *)
LEMMA MovingStep ==
  ASSUME IInv, NEW t \in Threads, NEW l, Goto(t, l),
         NEW S \in SUBSET Threads
  PROVE  /\ pc[t] # "move" /\ l # "move" => Moving(S)' = Moving(S)
         /\ pc[t] \in Locked => 
              Moving(S) = IF t \in S /\ pc[t] = "move" THEN 1 ELSE 0
         /\ pc[t] \in Locked => 
              Moving(S)' = IF t \in S /\ l = "move" THEN 1 ELSE 0
<1>1. \A u \in Threads : pc'[u] = IF u = t THEN l ELSE pc[u]
  BY DEF Goto, IInv, TypeOK
<1>2. pc[t] # "move" /\ l # "move" => Moving(S)' = Moving(S)
  BY <1>1 DEF Moving, At
<1>3. pc[t] \in Locked =>
        \A u \in S : u # t => pc[u] # "move" /\ pc'[u] # "move"
  BY <1>1, Exclusive DEF Locked
<1> QED BY <1>1, <1>2, <1>3 DEF Moving, At

(* Where the tail moves to, and where the head. *)
LEMMA Indices ==
  ASSUME NEW h \in Slots, NEW k \in Nat
  PROVE  /\ k <= BUFFER_SIZE => SlotAfter(h, k) \in Slots
         /\ k < BUFFER_SIZE =>
              SlotAfter(h, k + 1) = (SlotAfter(h, k) + 1) % BUFFER_SIZE
         /\ 0 < k /\ k <= BUFFER_SIZE =>
              SlotAfter((h + 1) % BUFFER_SIZE, k - 1) = SlotAfter(h, k)
         /\ (h + 1) % BUFFER_SIZE \in Slots
<1>1. BUFFER_SIZE \in Nat \ {0}
  BY BufferAssumption
<1>2. \A x \in Slots : /\ x + 1 \in 0 .. BUFFER_SIZE
                       /\ (x + 1) % BUFFER_SIZE =
                            IF x + 1 = BUFFER_SIZE THEN 0 ELSE x + 1
  <2> SUFFICES ASSUME NEW x \in Slots
               PROVE  /\ x + 1 \in 0 .. BUFFER_SIZE
                      /\ (x + 1) % BUFFER_SIZE =
                           IF x + 1 = BUFFER_SIZE THEN 0 ELSE x + 1
    OBVIOUS
  <2>1. x + 1 \in 0 .. BUFFER_SIZE
    BY <1>1 DEF Slots
  <2> QED BY <1>1, <2>1, WrapAround
<1>3. k <= BUFFER_SIZE => SlotAfter(h, k) \in Slots
  BY <1>1 DEF Slots, SlotAfter
<1>4. k < BUFFER_SIZE =>
        SlotAfter(h, k + 1) = (SlotAfter(h, k) + 1) % BUFFER_SIZE
  <2>1. k < BUFFER_SIZE =>
          (SlotAfter(h, k) + 1) % BUFFER_SIZE =
            IF SlotAfter(h, k) + 1 = BUFFER_SIZE THEN 0 ELSE SlotAfter(h, k) + 1
    BY <1>1, <1>2, <1>3
  <2> QED BY <1>1, <2>1 DEF Slots, SlotAfter
<1>5. 0 < k /\ k <= BUFFER_SIZE =>
        SlotAfter((h + 1) % BUFFER_SIZE, k - 1) = SlotAfter(h, k)
  BY <1>1, <1>2 DEF Slots, SlotAfter
<1>6. (h + 1) % BUFFER_SIZE \in Slots
  BY <1>1, <1>2 DEF Slots
<1> QED BY <1>3, <1>4, <1>5, <1>6

(* The type invariant is kept by every step of a thread. *)
LEMMA TypeStep ==
  ASSUME IInv, NEW t \in Threads,
         \/ Create(t)
         \/ t \in Producers /\ Producer_thread_func(t)
         \/ t \in Consumers /\ Consumer_thread_func(t)
  PROVE  TypeOK'
<1> USE DEF IInv, TypeOK, At, Goto, Return, ring, sems
<1>1. CASE Create(t) \/ Produce(t) \/ While(t)
  BY <1>1 DEF Create, Produce, While
<1>2. CASE Lock(t) \/ Unlock(t)
  BY <1>2 DEF Lock, Unlock
<1>3. CASE InsertCheck(t) \/ RemoveCheck(t)
  BY <1>3 DEF InsertCheck, RemoveCheck
<1>4. CASE EmptyWait(t) \/ FullWait(t)
  BY <1>4 DEF EmptyWait, FullWait
<1>5. CASE t \in Producers /\ Insert(t)
  <2>1. tail_index' \in Slots
    BY <1>5, Indices DEF Insert
  <2>2. item[t] \in Items
    BY <1>5 DEF HasPending, Insert
  <2> QED BY <1>5, <2>1, <2>2 DEF Insert
<1>6. CASE t \in Consumers /\ Remove(t)
  <2>1. head_index' \in Slots /\ n > 0
    BY <1>6, Indices, BufferAssumption DEF Remove
  <2>2. buffer[head_index] \in Items
    <3>1. SlotAfter(head_index, 0) = head_index /\ 0 \in 0 .. (n - 1)
      BY <2>1, BufferAssumption DEF SlotAfter, Slots
    <3> QED BY <3>1
  <2> QED BY <1>6, <2>1, <2>2 DEF Remove
<1> QED BY <1>1, <1>2, <1>3, <1>4, <1>5, <1>6
        DEF Producer_thread_func, Consumer_thread_func, Common

(* The slots of different items are different. *)
LEMMA SlotsDiffer ==
  ASSUME NEW h \in Slots, NEW j \in 0 .. (BUFFER_SIZE - 1),
         NEW k \in 0 .. (BUFFER_SIZE - 1), j # k
  PROVE  SlotAfter(h, j) # SlotAfter(h, k)
  BY BufferAssumption DEF Slots, SlotAfter

(* The items and where they lie: insert_item adds one behind the last,     *)
(* remove_item takes the first, and nothing else moves.                    *)
LEMMA RingStep ==
  ASSUME IInv, NEW t \in Threads,
         \/ Create(t)
         \/ t \in Producers /\ Producer_thread_func(t)
         \/ t \in Consumers /\ Consumer_thread_func(t)
  PROVE  /\ n' <= BUFFER_SIZE
         /\ tail_index' = SlotAfter(head_index, n)'
         /\ (\A k \in 0 .. (n - 1) : buffer[SlotAfter(head_index, k)] \in Items)'
<1> USE DEF IInv, TypeOK
<1>1. CASE UNCHANGED ring
  BY <1>1 DEF ring, SlotAfter
<1>2. CASE t \in Producers /\ Insert(t)
  <2>1. /\ n < BUFFER_SIZE /\ item[t] \in Items
        /\ n' = n + 1 /\ head_index' = head_index
        /\ tail_index' = (tail_index + 1) % BUFFER_SIZE
        /\ buffer' = [buffer EXCEPT ![tail_index] = item[t]]
    BY <1>2 DEF Insert, At, HasPending
  <2>2. n' <= BUFFER_SIZE /\ n \in 0 .. (BUFFER_SIZE - 1)
    BY <2>1, BufferAssumption
  <2>3. tail_index' = SlotAfter(head_index', n')
    BY Zenon, <2>1, Indices
  <2>4. ASSUME NEW k \in 0 .. n
        PROVE  buffer'[SlotAfter(head_index, k)] \in Items
    <3>1. CASE k = n
      BY <2>1, <3>1
    <3>2. CASE k # n
      <4>1. SlotAfter(head_index, k) # tail_index
        BY <2>2, <3>2, SlotsDiffer, BufferAssumption
      <4>2. SlotAfter(head_index, k) \in Slots
        BY <2>2, Indices, BufferAssumption
      <4>3. buffer[SlotAfter(head_index, k)] \in Items
        BY <3>2, <2>2
      <4> QED BY <2>1, <4>1, <4>2, <4>3
    <3> QED BY <3>1, <3>2
  <2> QED BY <2>1, <2>2, <2>3, <2>4 DEF SlotAfter
<1>3. CASE t \in Consumers /\ Remove(t)
  <2>1. /\ n > 0 /\ t \notin Producers
        /\ n' = n - 1 /\ tail_index' = tail_index
        /\ head_index' = (head_index + 1) % BUFFER_SIZE
        /\ buffer' = [buffer EXCEPT ![head_index] = Removed]
    BY <1>3, BufferAssumption DEF Remove, At
  <2>2. n' <= BUFFER_SIZE
    BY <2>1, BufferAssumption
  <2>3. tail_index' = SlotAfter(head_index', n')
    BY <2>1, Indices
  <2>4. ASSUME NEW k \in 0 .. (n - 2)
        PROVE  buffer'[SlotAfter(head_index', k)] \in Items
    <3>1. /\ k + 1 \in 1 .. (n - 1) /\ k + 1 \in Nat
          /\ 0 < k + 1 /\ k + 1 <= BUFFER_SIZE
          /\ k + 1 \in 0 .. (BUFFER_SIZE - 1) /\ 0 \in 0 .. (BUFFER_SIZE - 1)
      BY BufferAssumption
    <3>2. SlotAfter(head_index', k) = SlotAfter(head_index, k + 1)
      <4>1. SlotAfter(head_index', (k + 1) - 1) = SlotAfter(head_index, k + 1)
        BY <2>1, <3>1, Indices
      <4>2. (k + 1) - 1 = k
        OBVIOUS
      <4> QED BY <4>1, <4>2
    <3>3. SlotAfter(head_index, 0) = head_index
      BY BufferAssumption DEF SlotAfter, Slots
    <3>4. SlotAfter(head_index, k + 1) # head_index
      BY <3>1, <3>3, SlotsDiffer
    <3>5. SlotAfter(head_index, k + 1) \in Slots
      BY <3>1, Indices
    <3>6. buffer[SlotAfter(head_index, k + 1)] \in Items
      BY <3>1
    <3> QED BY <2>1, <3>2, <3>4, <3>5, <3>6
  <2> QED BY <2>1, <2>2, <2>3, <2>4 DEF SlotAfter
<1>4. \/ UNCHANGED ring
      \/ t \in Producers /\ Insert(t)
      \/ t \in Consumers /\ Remove(t)
  BY DEF ring, Create, Producer_thread_func, Consumer_thread_func, Common,
         Produce, Lock, Unlock, While, InsertCheck, EmptyWait, RemoveCheck,
         FullWait
<1> QED BY <1>1, <1>2, <1>3, <1>4

(* The values of the semaphores agree with n, but for the thread between   *)
(* its sem_wait and its sem_post.                                          *)
LEMMA SemStep ==
  ASSUME IInv, NEW t \in Threads,
         \/ Create(t)
         \/ t \in Producers /\ Producer_thread_func(t)
         \/ t \in Consumers /\ Consumer_thread_func(t)
  PROVE  /\ empty_sem' = BUFFER_SIZE - n' - Moving(Producers)'
         /\ full_sem' = n' - Moving(Consumers)'
<1>1. /\ Producers \in SUBSET Threads /\ Consumers \in SUBSET Threads
      /\ ~(t \in Producers /\ t \in Consumers)
      /\ BUFFER_SIZE \in Nat /\ n \in Nat
      /\ empty_sem = BUFFER_SIZE - n - Moving(Producers)
      /\ full_sem = n - Moving(Consumers)
  BY BufferAssumption DEF Threads, IInv, TypeOK
<1>2. CASE \E l : /\ Goto(t, l) /\ pc[t] # "move" /\ l # "move"
                  /\ UNCHANGED <<n, full_sem, empty_sem>>
  BY <1>1, <1>2, MovingStep
<1>3. CASE t \in Producers /\ EmptyWait(t)
  <2>1. Goto(t, "move") /\ pc[t] = "sem"
    BY <1>3 DEF EmptyWait, At
  <2>2. /\ Moving(Producers) = 0 /\ Moving(Producers)' = 1
        /\ Moving(Consumers) = 0 /\ Moving(Consumers)' = 0
    BY <1>1, <1>3, <2>1, MovingStep DEF Locked
  <2>3. empty_sem' = empty_sem - 1 /\ UNCHANGED <<n, full_sem>>
    BY <1>3 DEF EmptyWait, ring
  <2> QED BY <1>1, <2>2, <2>3
<1>4. CASE t \in Producers /\ Insert(t)
  <2>1. Goto(t, "unlock") /\ pc[t] = "move"
    BY <1>4 DEF Insert, At
  <2>2. /\ Moving(Producers) = 1 /\ Moving(Producers)' = 0
        /\ Moving(Consumers) = 0 /\ Moving(Consumers)' = 0
    BY <1>1, <1>4, <2>1, MovingStep DEF Locked
  <2>3. n' = n + 1 /\ full_sem' = full_sem + 1 /\ empty_sem' = empty_sem
    BY <1>4 DEF Insert
  <2> QED BY <1>1, <2>2, <2>3
<1>5. CASE t \in Consumers /\ FullWait(t)
  <2>1. Goto(t, "move") /\ pc[t] = "sem"
    BY <1>5 DEF FullWait, At
  <2>2. /\ Moving(Producers) = 0 /\ Moving(Producers)' = 0
        /\ Moving(Consumers) = 0 /\ Moving(Consumers)' = 1
    BY <1>1, <1>5, <2>1, MovingStep DEF Locked
  <2>3. full_sem' = full_sem - 1 /\ UNCHANGED <<n, empty_sem>>
    BY <1>5 DEF FullWait, ring
  <2> QED BY <1>1, <2>2, <2>3
<1>6. CASE t \in Consumers /\ Remove(t)
  <2>1. Goto(t, "unlock") /\ pc[t] = "move"
    BY <1>6 DEF Remove, At
  <2>2. /\ Moving(Producers) = 0 /\ Moving(Producers)' = 0
        /\ Moving(Consumers) = 1 /\ Moving(Consumers)' = 0
    BY <1>1, <1>6, <2>1, MovingStep DEF Locked
  <2>3. n' = n - 1 /\ empty_sem' = empty_sem + 1 /\ full_sem' = full_sem
    BY SMTT(20), <1>6 DEF Remove
  <2> QED BY <1>1, <2>2, <2>3
<1>7. \/ \E l : /\ Goto(t, l) /\ pc[t] # "move" /\ l # "move"
                /\ UNCHANGED <<n, full_sem, empty_sem>>
      \/ t \in Producers /\ (EmptyWait(t) \/ Insert(t))
      \/ t \in Consumers /\ (FullWait(t) \/ Remove(t))
  BY DEF At, ring, sems, Create, Producer_thread_func, Consumer_thread_func,
         Common, Produce, Lock, Unlock, While, InsertCheck, RemoveCheck
<1> QED BY <1>2, <1>3, <1>4, <1>5, <1>6, <1>7

(* What a thread found in its test of n holds until it has moved its item: *)
(* the mutex keeps the others from changing n.                             *)
LEMMA TestStep ==
  ASSUME IInv, NEW t \in Threads,
         \/ Create(t)
         \/ t \in Producers /\ Producer_thread_func(t)
         \/ t \in Consumers /\ Consumer_thread_func(t)
  PROVE  (\A u \in Threads :
            pc[u] \in {"sem", "move"} =>
              IF u \in Producers THEN n < BUFFER_SIZE ELSE n > 0)'
<1> SUFFICES ASSUME NEW u \in Threads, pc'[u] \in {"sem", "move"}
             PROVE  IF u \in Producers THEN n' < BUFFER_SIZE ELSE n' > 0
  OBVIOUS
<1> USE BufferAssumption DEF At, Goto, ring, sems
<1>1. CASE Create(t) \/ Produce(t) \/ Lock(t) \/ Unlock(t) \/ While(t)
  BY <1>1 DEF IInv, TypeOK, Create, Produce, Lock, Unlock, While
<1>2. CASE (t \in Producers /\ InsertCheck(t)) \/ EmptyWait(t)
  BY <1>2 DEF IInv, TypeOK, InsertCheck, EmptyWait
<1>3. CASE (t \in Consumers /\ RemoveCheck(t)) \/ FullWait(t)
  BY <1>3 DEF IInv, TypeOK, RemoveCheck, FullWait
<1>4. CASE Insert(t) \/ Remove(t)
  <2>1. pc[t] = "move" /\ pc' = [pc EXCEPT ![t] = "unlock"]
    BY <1>4 DEF Insert, Remove
  <2>2. u # t /\ pc[u] \in Locked
    BY <2>1 DEF IInv, TypeOK, Locked
  <2> QED BY <2>1, <2>2, Exclusive DEF Locked
<1> QED BY <1>1, <1>2, <1>3, <1>4
        DEF Producer_thread_func, Consumer_thread_func, Common

(* A producer that wants to insert has an item, new or kept; and no thread *)
(* runs after main has joined them all.                                    *)
LEMMA PendingStep ==
  ASSUME IInv, NEW t \in Threads,
         \/ Create(t)
         \/ t \in Producers /\ Producer_thread_func(t)
         \/ t \in Consumers /\ Consumer_thread_func(t)
  PROVE  /\ (\A p \in Producers : HasPending(p) => item[p] \in Items)'
         /\ main' = main /\ main = "running"
<1> USE BufferAssumption DEF At, Goto, Return, HasPending, Threads
<1>1. CASE Create(t) \/ Lock(t) \/ Unlock(t) \/ While(t)
  BY <1>1 DEF IInv, TypeOK, Create, Lock, Unlock, While
<1>2. CASE t \in Producers /\ (Produce(t) \/ InsertCheck(t) \/ EmptyWait(t) \/ Insert(t))
  BY <1>2 DEF IInv, TypeOK, Produce, InsertCheck, EmptyWait, Insert
<1>3. CASE t \in Consumers /\ (RemoveCheck(t) \/ FullWait(t) \/ Remove(t))
  BY <1>3 DEF IInv, TypeOK, RemoveCheck, FullWait, Remove
<1> QED BY <1>1, <1>2, <1>3
        DEF Producer_thread_func, Consumer_thread_func, Common

(* The inductive invariant holds for every size of the buffer, every set   *)
(* of producers and consumers and every set of items.                      *)
THEOREM IInvInvariant == Spec => []IInv
<1>1. Init => IInv
  <2> SUFFICES ASSUME Init PROVE IInv
    OBVIOUS
  <2>1. TypeOK
    BY BufferAssumption DEF Init, TypeOK, Slots
  <2>2. Moving(Producers) = 0 /\ Moving(Consumers) = 0
    BY DEF Init, Moving, At, Threads
  <2> QED BY <2>1, <2>2, BufferAssumption
          DEF Init, IInv, SlotAfter, HasPending, Threads
<1>2. IInv /\ [Next]_vars => IInv'
  <2> SUFFICES ASSUME IInv, [Next]_vars PROVE IInv'
    BY Zenon
  <2>1. ASSUME NEW t \in Threads,
               \/ Create(t)
               \/ t \in Producers /\ Producer_thread_func(t)
               \/ t \in Consumers /\ Consumer_thread_func(t)
        PROVE  IInv'
    <3>1. TypeOK'
      BY SMTT(20), <2>1, TypeStep
    <3>2. (\A u \in Threads :
             pc[u] \in {"check", "sem", "move", "unlock"} <=> mutex = u)'
      BY SMTT(20), <2>1, MutexStep
    <3> QED BY <2>1, <3>1, <3>2, RingStep, SemStep, TestStep, PendingStep
            DEF IInv
  <2>2. CASE WakeUp \/ Join \/ Cleanup \/ UNCHANGED vars
    BY Zenon, <2>2 DEF WakeUp, Join, Cleanup, vars, ring, sems, IInv, TypeOK, Moving,
                HasPending, SlotAfter, At
  <2> QED BY <2>1, <2>2 DEF Next, Exited, Threads
<1> QED BY <1>1, <1>2, PTL DEF Spec

(* No thread that holds the mutex ever blocks in sem_wait. *)
THEOREM SemWaitSafety == Spec => []SemWaitNeverBlocks
<1>1. IInv => SemWaitNeverBlocks
  <2> SUFFICES ASSUME IInv, NEW t \in Threads, pc[t] = "sem"
               PROVE  IF t \in Producers THEN empty_sem > 0 ELSE full_sem > 0
    BY DEF SemWaitNeverBlocks, At
  <2>1. \A u \in Threads : pc[u] # "move"
    BY Exclusive DEF Locked
  <2>2. Moving(Producers) = 0 /\ Moving(Consumers) = 0
    BY <2>1 DEF Moving, At, Threads
  <2> QED BY <2>2, BufferAssumption DEF IInv, TypeOK
<1> QED BY IInvInvariant, <1>1, PTL

(* main destroys the semaphores and the mutex only when nobody uses them   *)
(* and they agree with the items left in the buffer.                       *)
THEOREM CleanExit == Spec => []CleanShutdown
<1>1. IInv => CleanShutdown
  <2> SUFFICES ASSUME IInv, main # "running" PROVE CleanShutdown
    BY DEF CleanShutdown
  <2>1. \A t \in Threads : pc[t] = "done"
    BY DEF IInv, At
  <2>2. Moving(Producers) = 0 /\ Moving(Consumers) = 0
    BY <2>1 DEF Moving, At, Threads
  <2>3. mutex = NoThread
    BY <2>1 DEF IInv, TypeOK
  <2> QED BY <2>1, <2>2, <2>3, BufferAssumption
          DEF IInv, TypeOK, CleanShutdown, At
<1> QED BY IInvInvariant, <1>1, PTL

(* The items of the buffer are a sequence of n integers. *)
LEMMA QueueType ==
  ASSUME IInv
  PROVE  /\ queueItems \in Seq(Int) /\ Len(queueItems) = n
         /\ \A k \in 1 .. n :
              queueItems[k] = buffer[SlotAfter(head_index, k - 1)]
<1>1. n \in Nat
  BY DEF IInv, TypeOK
<1>2. ASSUME NEW k \in 1 .. n
      PROVE  buffer[SlotAfter(head_index, k - 1)] \in Int
  <2>1. k - 1 \in 0 .. (n - 1)
    BY <1>1
  <2> QED BY <2>1, BufferAssumption DEF IInv
<1> QED BY <1>1, <1>2 DEF queueItems

(* Insert appends the producer's item to the queue. *)
LEMMA InsertAppends ==
  ASSUME IInv, NEW p \in Producers, Insert(p)
  PROVE  queueItems' = Append(queueItems, item[p])
<1>1. /\ n < BUFFER_SIZE /\ item[p] \in Items
      /\ n' = n + 1 /\ head_index' = head_index
      /\ tail_index = SlotAfter(head_index, n)
      /\ buffer' = [buffer EXCEPT ![tail_index] = item[p]]
  BY DEF IInv, TypeOK, Insert, At, HasPending, Threads
<1>2. n \in 0 .. (BUFFER_SIZE - 1) /\ head_index \in Slots
  BY <1>1, BufferAssumption DEF IInv, TypeOK
<1>3. queueItems' = [k \in 1 .. (n + 1) |-> buffer'[SlotAfter(head_index, k - 1)]]
  BY <1>1 DEF queueItems, SlotAfter
<1>4. ASSUME NEW k \in 1 .. n
      PROVE  buffer'[SlotAfter(head_index, k - 1)] = queueItems[k]
  <2>1. k - 1 \in 0 .. (BUFFER_SIZE - 1) /\ k - 1 # n /\ k - 1 \in Nat
    BY <1>2, BufferAssumption
  <2>2. SlotAfter(head_index, k - 1) # tail_index
    BY <1>1, <1>2, <2>1, SlotsDiffer
  <2>3. SlotAfter(head_index, k - 1) \in Slots
    BY <1>2, <2>1, Indices, BufferAssumption
  <2> QED BY <1>1, <2>2, <2>3, QueueType DEF IInv, TypeOK
<1>5. buffer'[SlotAfter(head_index, (n + 1) - 1)] = item[p]
  <2>1. (n + 1) - 1 = n
    BY <1>2
  <2> QED BY <1>1, <2>1 DEF IInv, TypeOK
<1>6. item[p] \in Int
  <2>1. \A i \in Items : i \in Int
    BY BufferAssumption
  <2> QED BY <1>1, <2>1, Zenon
<1> QED BY <1>2, <1>3, <1>4, <1>5, <1>6, QueueType

(* A sequence is the function of its elements. *)
LEMMA SequenceIsFunction ==
  ASSUME NEW s \in Seq(Int)
  PROVE  s = [k \in 1 .. Len(s) |-> s[k]]
  OBVIOUS

(* Remove takes the first item off the queue. *)
LEMMA RemoveTakes ==
  ASSUME IInv, NEW c \in Consumers, Remove(c)
  PROVE  /\ Len(queueItems) > 0
         /\ Head(queueItems) = buffer[head_index]
         /\ queueItems' = Tail(queueItems)
<1>1. /\ n > 0 /\ n \in Nat /\ n <= BUFFER_SIZE
      /\ n' = n - 1 /\ head_index \in Slots
      /\ head_index' = (head_index + 1) % BUFFER_SIZE
      /\ buffer' = [buffer EXCEPT ![head_index] = Removed]
  BY BufferAssumption DEF IInv, TypeOK, Remove, At, Threads
<1>2. SlotAfter(head_index, 0) = head_index
  BY <1>1, BufferAssumption DEF SlotAfter, Slots
<1>3. queueItems' =
        [k \in 1 .. (n - 1) |-> buffer'[SlotAfter(head_index', k - 1)]]
  BY <1>1 DEF queueItems, SlotAfter
<1>4. ASSUME NEW k \in 1 .. (n - 1)
      PROVE  buffer'[SlotAfter(head_index', k - 1)] = queueItems[k + 1]
  <2>1. /\ k \in Nat /\ 0 < k /\ k <= BUFFER_SIZE /\ k + 1 \in 1 .. n
        /\ k \in 0 .. (BUFFER_SIZE - 1) /\ 0 \in 0 .. (BUFFER_SIZE - 1)
        /\ k # 0 /\ (k + 1) - 1 = k
    BY <1>1, BufferAssumption
  <2>2. SlotAfter(head_index', k - 1) = SlotAfter(head_index, k)
    BY <1>1, <2>1, Indices
  <2>3. SlotAfter(head_index, k) # head_index
    BY <1>1, <1>2, <2>1, SlotsDiffer
  <2>4. SlotAfter(head_index, k) \in Slots
    BY <1>1, <2>1, Indices
  <2>5. queueItems[k + 1] = buffer[SlotAfter(head_index, k)]
    BY <2>1, QueueType
  <2> QED BY <1>1, <2>2, <2>3, <2>4, <2>5 DEF IInv, TypeOK
<1>5. Len(queueItems) > 0 /\ Head(queueItems) = queueItems[1]
  BY <1>1, QueueType
<1>6. queueItems[1] = buffer[head_index]
  <2>1. 1 \in 1 .. n /\ 1 - 1 = 0
    BY <1>1
  <2> QED BY <1>2, <2>1, QueueType
<1>7. queueItems' = Tail(queueItems)
  <2>1. /\ queueItems \in Seq(Int) /\ queueItems # <<>>
        /\ Len(queueItems) = n
    BY <1>5, QueueType
  <2>2. /\ Tail(queueItems) \in Seq(Int) /\ Len(Tail(queueItems)) = n - 1
        /\ \A k \in 1 .. Len(Tail(queueItems)) :
             Tail(queueItems)[k] = queueItems[k + 1]
    BY <2>1, HeadTailProperties
  <2>3. Tail(queueItems) =
          [k \in 1 .. (n - 1) |-> Tail(queueItems)[k]]
    BY <2>2, SequenceIsFunction, Zenon
  <2> QED BY <1>3, <1>4, <2>2, <2>3, Zenon
<1> QED BY <1>5, <1>6, <1>7

(* A step that keeps the ring, the results and what is pending is a        *)
(* stuttering step of the queue.                                           *)
LEMMA QueueStutters ==
  ASSUME UNCHANGED <<ring, item, result>>,
         \A p \in Producers : HasPending(p)' = HasPending(p)
  PROVE  UNCHANGED Queue!qvars
<1>1. queueItems' = queueItems
  BY DEF queueItems, SlotAfter, ring
<1>2. queuePending' = queuePending
  BY DEF queuePending
<1>3. queueGot' = queueGot
  BY DEF queueGot
<1> QED BY <1>1, <1>2, <1>3 DEF Queue!qvars

(* A step of the threads' functions that is not an operation of the queue. *)
LEMMA QuietStep ==
  ASSUME IInv,
         NEW t \in Threads,
         \/ Create(t) \/ Lock(t) \/ Unlock(t) \/ While(t)
         \/ t \in Producers /\ EmptyWait(t)
         \/ t \in Consumers /\ FullWait(t)
         \/ t \in Producers /\ Produce(t) /\ result[t] # 0
         \/ t \in Producers /\ InsertCheck(t) /\ n < BUFFER_SIZE
         \/ t \in Consumers /\ RemoveCheck(t) /\ n > 0
  PROVE  UNCHANGED Queue!qvars
<1>1. UNCHANGED <<ring, item, result>>
  BY DEF Create, Lock, Unlock, While, EmptyWait, FullWait, Produce,
         InsertCheck, RemoveCheck
<1>2. ASSUME NEW p \in Producers
      PROVE  HasPending(p)' = HasPending(p)
  <2>1. DOMAIN pc = Threads /\ result \in [Threads -> {0, -1}]
    BY DEF IInv, TypeOK
  <2>2. p \in Threads /\ p \notin Consumers
    BY BufferAssumption DEF Threads
  <2> QED BY <1>1, <2>1, <2>2 DEF HasPending, At, Goto, Create, Lock, Unlock, While,
        EmptyWait, FullWait, Produce, InsertCheck, RemoveCheck
<1> QED BY <1>1, <1>2, QueueStutters

(* Produce with nothing pending is the queue's Want. *)
LEMMA ProduceWants ==
  ASSUME IInv, NEW p \in Producers, Produce(p), result[p] = 0
  PROVE  Queue!QueueNext
<1>1. PICK i \in Items : item' = [item EXCEPT ![p] = i]
  BY DEF Produce
<1>2. /\ UNCHANGED <<ring, result>> /\ pc[p] = "produce"
      /\ pc' = [pc EXCEPT ![p] = "lock"]
      /\ DOMAIN pc = Threads /\ DOMAIN item = Threads
      /\ p \in Threads /\ p \notin Consumers
  BY BufferAssumption DEF Produce, At, Goto, IInv, TypeOK, Threads
<1>3. queueItems' = queueItems
  BY <1>2 DEF queueItems, SlotAfter, ring
<1>4. queueGot' = queueGot
  BY <1>1, <1>2 DEF queueGot, Threads
<1>5. queuePending[p] = Removed
  BY <1>2 DEF queuePending, HasPending, Removed
<1>6. queuePending' = [queuePending EXCEPT ![p] = i]
  BY Zenon, <1>1, <1>2 DEF queuePending, HasPending, Threads
<1>7. Queue!Want(p, i)
  BY <1>2, <1>3, <1>4, <1>5, <1>6 DEF Queue!Want
<1> QED BY <1>7 DEF Queue!QueueNext

(* Insert is the queue's Put. *)
LEMMA InsertPuts ==
  ASSUME IInv, NEW p \in Producers, Insert(p)
  PROVE  Queue!QueueNext
<1>1. /\ pc[p] = "move" /\ n < BUFFER_SIZE /\ item[p] \in Items
      /\ pc' = [pc EXCEPT ![p] = "unlock"] /\ item' = item
      /\ result' = [result EXCEPT ![p] = 0]
  BY DEF Insert, At, Goto, Return, IInv, HasPending, Threads
<1>2. DOMAIN pc = Threads /\ DOMAIN result = Threads /\ p \in Threads
  BY DEF IInv, TypeOK, Threads
<1>3. queuePending[p] = item[p]
  BY <1>1 DEF queuePending, HasPending
<1>4. item[p] # Removed
  <2>1. \A i \in Items : i # Removed
    BY BufferAssumption DEF Removed
  <2> QED BY <1>1, <2>1, Zenon
<1>5. queuePending' = [queuePending EXCEPT ![p] = Removed]
  <2>1. ~HasPending(p)'
    BY <1>1, <1>2 DEF HasPending
  <2>2. \A q \in Producers \ {p} : HasPending(q)' = HasPending(q)
    BY <1>1, <1>2 DEF HasPending, Threads
  <2> QED BY Zenon, <1>1, <2>1, <2>2 DEF queuePending
<1>6. queueGot' = queueGot
  BY <1>1 DEF queueGot
<1>7. queueItems' = Append(queueItems, queuePending[p])
  BY <1>3, InsertAppends
<1>8. Len(queueItems) < BUFFER_SIZE
  BY <1>1, QueueType
<1>9. Queue!Put(p)
  BY <1>1, <1>3, <1>4, <1>5, <1>6, <1>7, <1>8
  DEF Queue!Put, Queue!Answer
<1> QED BY <1>9 DEF Queue!QueueNext

(* Remove is the queue's Take. *)
LEMMA RemoveIsTake ==
  ASSUME IInv, NEW c \in Consumers, Remove(c)
  PROVE  Queue!QueueNext
<1>1. /\ pc' = [pc EXCEPT ![c] = "unlock"]
      /\ item' = [item EXCEPT ![c] = buffer[head_index]]
      /\ result' = [result EXCEPT ![c] = 0]
  BY DEF Remove, Goto, Return
<1>2. /\ DOMAIN pc = Threads /\ DOMAIN result = Threads
      /\ DOMAIN item = Threads
  BY DEF IInv, TypeOK
<1>3. c \in Threads /\ c \notin Producers
  BY BufferAssumption DEF Threads
<1>4. queuePending' = queuePending
  BY <1>1, <1>2, <1>3 DEF queuePending, HasPending, Threads
<1>5. queueGot' = [queueGot EXCEPT ![c] = Head(queueItems)]
  BY ZenonT(30), <1>1, <1>2, <1>3, RemoveTakes DEF queueGot, Threads
<1>6. Queue!Take(c)
  BY <1>1, <1>4, <1>5, RemoveTakes DEF Queue!Take, Queue!Answer
<1> QED BY <1>6 DEF Queue!QueueNext

(* A thread that finds the buffer full or empty is refused by the queue.   *)
LEMMA RefusedSteps ==
  ASSUME IInv,
         NEW t \in Threads,
         \/ t \in Producers /\ InsertCheck(t) /\ ~(n < BUFFER_SIZE)
         \/ t \in Consumers /\ RemoveCheck(t) /\ ~(n > 0)
  PROVE  Queue!QueueNext
<1>1. /\ UNCHANGED <<ring, item>> /\ pc[t] = "check"
      /\ pc' = [pc EXCEPT ![t] = "unlock"]
      /\ result' = [result EXCEPT ![t] = -1]
  BY DEF InsertCheck, RemoveCheck, At, Goto, Return
<1>2. /\ DOMAIN pc = Threads /\ DOMAIN result = Threads
      /\ n \in Nat /\ n <= BUFFER_SIZE
  BY DEF IInv, TypeOK
<1>3. queueItems' = queueItems
  BY <1>1 DEF queueItems, SlotAfter, ring
<1>4. queueGot' = queueGot
  BY <1>1 DEF queueGot
<1>5. queuePending' = queuePending
  BY <1>1, <1>2 DEF queuePending, HasPending, Threads
<1>6. CASE t \in Producers /\ InsertCheck(t) /\ ~(n < BUFFER_SIZE)
  <2>1. Len(queueItems) = BUFFER_SIZE
    BY <1>2, <1>6, QueueType, BufferAssumption
  <2>2. item[t] \in Items /\ queuePending[t] = item[t]
    BY <1>1, <1>6 DEF IInv, HasPending, queuePending
  <2>3. queuePending[t] # Removed
    <3>1. \A i \in Items : i # Removed
      BY BufferAssumption DEF Removed
    <3> QED BY <2>2, <3>1, Zenon
  <2>4. Queue!RefusePut(t)
    BY <1>1, <1>3, <1>4, <1>5, <2>1, <2>3
    DEF Queue!RefusePut, Queue!Answer
  <2> QED BY <1>6, <2>4 DEF Queue!QueueNext
<1>7. CASE t \in Consumers /\ RemoveCheck(t) /\ ~(n > 0)
  <2>1. queueItems = <<>>
    BY <1>2, <1>7, QueueType
  <2>2. Queue!RefuseTake(t)
    BY <1>1, <1>3, <1>4, <1>5, <2>1 DEF Queue!RefuseTake, Queue!Answer
  <2> QED BY <1>7, <2>2 DEF Queue!QueueNext
<1> QED BY <1>6, <1>7

(* The buffer implements the bounded queue: insert_item and remove_item    *)
(* put in and take out at their assignments, or refuse at their tests of   *)
(* n, and no other step of the program changes what the queue sees.        *)
THEOREM BufferRefinement == Spec => ImplementsQueue
<1>1. Init => Queue!QueueInit
  <2> SUFFICES ASSUME Init PROVE Queue!QueueInit
    OBVIOUS
  <2>1. n = 0 /\ \A t \in Threads : pc[t] = "new" /\ result[t] = 0
    BY DEF Init
  <2>2. queueItems = <<>>
    BY <2>1 DEF queueItems
  <2>3. queuePending = [p \in Producers |-> Removed]
    BY <2>1 DEF queuePending, HasPending, Threads
  <2>4. queueGot = [c \in Consumers |-> Removed]
    BY DEF Init, queueGot, Threads
  <2> QED BY <2>2, <2>3, <2>4 DEF Init, Threads, Queue!QueueInit
<1>2. IInv /\ [Next]_vars => [Queue!QueueNext]_Queue!qvars
  <2> SUFFICES ASSUME IInv, [Next]_vars
               PROVE  Queue!QueueNext \/ UNCHANGED Queue!qvars
    BY Zenon
  <2>1. CASE WakeUp \/ Join \/ Cleanup \/ Exited \/ UNCHANGED vars
    <3>1. UNCHANGED <<ring, item, result, pc>>
      BY <2>1 DEF WakeUp, Join, Cleanup, Exited, vars
    <3>2. \A p \in Producers : HasPending(p)' = HasPending(p)
      BY <3>1 DEF HasPending
    <3> QED BY <3>1, <3>2, QueueStutters
  <2>2. CASE \E t \in Threads : Create(t)
    BY <2>2, QuietStep
  <2>3. CASE \E p \in Producers : Producer_thread_func(p)
    <3>1. PICK p \in Producers : Producer_thread_func(p)
      BY <2>3
    <3>2. p \in Threads
      BY DEF Threads
    <3>3. CASE Produce(p)
      BY <3>2, <3>3, ProduceWants, QuietStep
    <3>4. CASE Common(p)
      BY <3>2, <3>4, QuietStep DEF Common
    <3>5. CASE InsertCheck(p)
      BY <3>2, <3>5, RefusedSteps, QuietStep
    <3>6. CASE EmptyWait(p)
      BY <3>2, <3>6, QuietStep
    <3>7. CASE Insert(p)
      BY <3>7, InsertPuts
    <3> QED BY <3>1, <3>3, <3>4, <3>5, <3>6, <3>7
            DEF Producer_thread_func
  <2>4. CASE \E c \in Consumers : Consumer_thread_func(c)
    <3>1. PICK c \in Consumers : Consumer_thread_func(c)
      BY <2>4
    <3>2. c \in Threads
      BY DEF Threads
    <3>3. CASE Common(c)
      BY <3>2, <3>3, QuietStep DEF Common
    <3>4. CASE RemoveCheck(c)
      BY <3>2, <3>4, RefusedSteps, QuietStep
    <3>5. CASE FullWait(c)
      BY <3>2, <3>5, QuietStep
    <3>6. CASE Remove(c)
      BY <3>6, RemoveIsTake
    <3> QED BY <3>1, <3>3, <3>4, <3>5, <3>6 DEF Consumer_thread_func
  <2> QED BY <2>1, <2>2, <2>3, <2>4 DEF Next
<1> QED BY <1>1, <1>2, IInvInvariant, PTL
        DEF Spec, ImplementsQueue, Queue!QueueSpec

-----------------------------------------------------------------------------
(* The Fibonacci thread *)

(* A set of numbers with 0 and every successor is all of Nat. *)
LEMMA SetInduction ==
  ASSUME NEW A, 0 \in A, \A c \in Nat : c \in A => c + 1 \in A
  PROVE  Nat \subseteq A
<1> SUFFICES ASSUME Nat \ A # {} PROVE FALSE
  OBVIOUS
<1>1. PICK c \in Nat \ A : \A m \in Nat \ A : ~(m < c)
  <2>1. PICK c \in Nat \ A : \A m \in Nat \ A : ~(<<m, c>> \in OpToRel(<, Nat))
    BY Zenon, NatLessThanWellFounded, WFMin
  <2>2. ASSUME NEW m \in Nat, m < c PROVE <<m, c>> \in OpToRel(<, Nat)
    BY <2>2 DEF OpToRel
  <2> QED BY Zenon, <2>1, <2>2
<1>2. c # 0 /\ c - 1 \in Nat /\ c - 1 < c
  OBVIOUS
<1>3. c - 1 \in A
  BY <1>1, <1>2
<1> QED BY <1>2, <1>3

(* The recursion of Fib, on the numbers up to c. *)
FibStep(g, k) == IF k <= 1 THEN k ELSE g[k - 1] + g[k - 2]
SolvesFib(g, c) == g \in [0 .. c -> Nat] /\ \A k \in 0 .. c : g[k] = FibStep(g, k)

(* It has a solution there. *)
LEMMA FibExists == \A c \in Nat : \E g : SolvesFib(g, c)
<1> DEFINE A == {c \in Nat : \E g : SolvesFib(g, c)}
<1>1. 0 \in A
  <2>1. SolvesFib([k \in 0 .. 0 |-> 0], 0)
    BY DEF SolvesFib, FibStep
  <2> QED BY SMTT(30), <2>1
<1>2. ASSUME NEW c \in Nat, c \in A PROVE c + 1 \in A
  <2>1. PICK g : SolvesFib(g, c)
    BY SMTT(30), <1>2
  <2> DEFINE h == [k \in 0 .. (c + 1) |-> IF k <= c THEN g[k] ELSE FibStep(g, k)]
  <2>2. h \in [0 .. (c + 1) -> Nat]
    BY SMTT(30), <2>1 DEF SolvesFib, FibStep
  <2>3. \A k \in 0 .. (c + 1) : h[k] = FibStep(h, k)
    BY <2>1 DEF SolvesFib, FibStep
  <2>4. SolvesFib(h, c + 1)
    BY Zenon, <2>2, <2>3 DEF SolvesFib
  <2> HIDE DEF h
  <2> QED BY SMTT(30), <2>4
<1>3. Nat \subseteq A
  <2> HIDE DEF A
  <2> QED BY SMTT(30), <1>1, <1>2, SetInduction
<1> QED BY SMTT(30), <1>3

(* Two solutions agree where both are defined. *)
LEMMA FibUnique ==
  ASSUME NEW m \in Nat, NEW c \in Nat, NEW g, NEW h,
         SolvesFib(g, m), SolvesFib(h, c)
  PROVE  \A k \in Nat : k <= m /\ k <= c => g[k] = h[k]
<1> DEFINE A == {b \in Nat : \A k \in 0 .. b : k <= m /\ k <= c => g[k] = h[k]}
<1>1. 0 \in A
  BY SMTT(30) DEF SolvesFib, FibStep
<1>2. ASSUME NEW b \in Nat, b \in A PROVE b + 1 \in A
  <2>1. ASSUME b + 1 <= m, b + 1 <= c PROVE g[b + 1] = h[b + 1]
    <3>1. g[b + 1] = FibStep(g, b + 1) /\ h[b + 1] = FibStep(h, b + 1)
      BY SMTT(30), <2>1 DEF SolvesFib
    <3> QED BY SMTT(30), <1>2, <2>1, <3>1 DEF FibStep
  <2> QED BY SMTT(30), <1>2, <2>1
<1>3. Nat \subseteq A
  <2> HIDE DEF A
  <2> QED BY SMTT(30), <1>1, <1>2, SetInduction
<1> QED BY SMTT(30), <1>3

(* Fib is the solution on all of Nat. *)
LEMMA FibDef ==
  \A k \in Nat : /\ F!Fib[k] \in Nat
                 /\ F!Fib[k] = IF k <= 1 THEN k ELSE F!Fib[k - 1] + F!Fib[k - 2]
<1> DEFINE sol(c) == CHOOSE g : SolvesFib(g, c)
           h == [k \in Nat |-> sol(k)[k]]
<1>1. ASSUME NEW c \in Nat PROVE SolvesFib(sol(c), c)
  BY Zenon, FibExists
<1> HIDE DEF sol
<1>2. \A k \in Nat : h[k] \in Nat
  BY SMTT(30), <1>1 DEF SolvesFib
<1>3. ASSUME NEW k \in Nat, k > 1 PROVE h[k] = h[k - 1] + h[k - 2]
  <2>1. /\ sol(k)[k - 1] = sol(k - 1)[k - 1]
        /\ sol(k)[k - 2] = sol(k - 2)[k - 2]
    <3>1. /\ SolvesFib(sol(k), k) /\ SolvesFib(sol(k - 1), k - 1)
          /\ SolvesFib(sol(k - 2), k - 2)
      BY SMTT(30), <1>1, <1>3
    <3> QED BY SMTT(30), <1>3, <3>1, FibUnique
  <2>2. sol(k)[k] = sol(k)[k - 1] + sol(k)[k - 2]
    BY SMTT(30), <1>1, <1>3 DEF SolvesFib, FibStep
  <2> QED BY SMTT(30), <1>3, <2>1, <2>2
<1>4. \A k \in Nat : k <= 1 => h[k] = k
  BY <1>1 DEF SolvesFib, FibStep
<1>5. h = [k \in Nat |-> IF k <= 1 THEN k ELSE h[k - 1] + h[k - 2]]
  <2> HIDE DEF h
  <2>1. h = [k \in Nat |-> h[k]]
    BY SMTT(30) DEF h
  <2> DEFINE R(k) == IF k <= 1 THEN k ELSE h[k - 1] + h[k - 2]
  <2>2. \A k \in Nat : h[k] = R(k)
    BY SMTT(30), <1>3, <1>4
  <2> HIDE DEF R
  <2>3. h = [k \in Nat |-> R(k)]
    BY SMTT(30), <2>1, <2>2
  <2> QED BY Zenon, <2>3 DEF R
<1> HIDE DEF h
<1>6. F!Fib = [k \in Nat |-> IF k <= 1 THEN k ELSE F!Fib[k - 1] + F!Fib[k - 2]]
  BY Zenon, <1>5 DEF F!Fib
<1> DEFINE A == {b \in Nat : \A k \in 0 .. b : F!Fib[k] = h[k]}
<1>7. \A k \in Nat : F!Fib[k] = IF k <= 1 THEN k ELSE F!Fib[k - 1] + F!Fib[k - 2]
  <2> DEFINE R(k) == IF k <= 1 THEN k ELSE F!Fib[k - 1] + F!Fib[k - 2]
  <2> SUFFICES ASSUME NEW k \in Nat PROVE F!Fib[k] = R(k)
    OBVIOUS
  <2>1. F!Fib = [j \in Nat |-> R(j)]
    BY Zenon, <1>6
  <2> HIDE DEF R
  <2> QED BY Zenon, <2>1
<1>8. 0 \in A
  BY SMTT(30), <1>4, <1>7
<1>9. ASSUME NEW b \in Nat, b \in A PROVE b + 1 \in A
  <2>1. F!Fib[b + 1] = h[b + 1]
    <3>1. CASE b = 0
      BY SMTT(30), <1>4, <1>7, <3>1
    <3>2. CASE b > 0
      BY SMTT(30), <1>3, <1>7, <1>9, <3>2
    <3> QED BY SMTT(30), <3>1, <3>2
  <2> QED BY SMTT(30), <1>9, <2>1
<1>10. Nat \subseteq A
  <2> HIDE DEF A
  <2> QED BY <1>8, <1>9, SetInduction
<1>11. \A k \in Nat : F!Fib[k] = h[k]
  BY SMTT(30), <1>10
<1> QED BY Zenon, <1>2, <1>7, <1>11

(* Narrow gives an int, and an int unchanged. *)
LEMMA FibNarrowIsInt == \A x \in Int : F!Narrow(x) \in -(INT_MAX + 1) .. INT_MAX
BY SMTT(30), IntAssumption DEF F!Narrow

LEMMA FibNarrowOfInt == \A x \in -(INT_MAX + 1) .. INT_MAX : F!Narrow(x) = x
BY SMTT(30), IntAssumption DEF F!Narrow

(* Cutting the terms to ints changes nothing in the sum cut to an int. *)
LEMMA NarrowSum == \A a, b \in Int : F!Narrow(F!Narrow(a) + F!Narrow(b)) = F!Narrow(a + b)
<1> SUFFICES ASSUME NEW a \in Int, NEW b \in Int
             PROVE  F!Narrow(F!Narrow(a) + F!Narrow(b)) = F!Narrow(a + b)
  OBVIOUS
<1> DEFINE m == 2 * (INT_MAX + 1)
<1>1. m \in Nat \ {0} /\ INT_MAX \in Nat
  BY SMTT(30), IntAssumption
<1>2. ASSUME NEW x \in Int PROVE \E q \in Int : x = m * q + F!Narrow(x)
  <2> DEFINE y == x + INT_MAX + 1
  <2>1. y \in Int
    BY SMTT(30), <1>1
  <2>2. y = m * (y \div m) + (y % m) /\ y \div m \in Int
    <3> HIDE DEF y, m
    <3> QED BY SMTT(30), <1>1, <2>1
  <2>3. F!Narrow(x) = (y % m) - (INT_MAX + 1)
    BY SMTT(30) DEF F!Narrow
  <2>4. x = m * (y \div m) + F!Narrow(x)
    <3> DEFINE p == m * (y \div m)
               r == y % m
    <3>1. p \in Int /\ r \in Int
      BY <1>1, <2>1, <2>2
    <3>2. x + INT_MAX + 1 = p + r /\ F!Narrow(x) = r - (INT_MAX + 1)
      BY Zenon, <2>2, <2>3
    <3> HIDE DEF p, r
    <3>3. x = p + F!Narrow(x)
      BY <1>1, <3>1, <3>2
    <3> QED BY Zenon, <3>3 DEF p
  <2> QED BY SMTT(30), <2>2, <2>4
<1>3. PICK q \in Int : a = m * q + F!Narrow(a)
  BY SMTT(30), <1>2
<1>4. PICK r \in Int : b = m * r + F!Narrow(b)
  BY SMTT(30), <1>2
<1>5. F!Narrow(a) \in Int /\ F!Narrow(b) \in Int
  BY SMTT(30), <1>1, FibNarrowIsInt
<1>6. PICK s \in Int : F!Narrow(a) + F!Narrow(b) = m * s + F!Narrow(F!Narrow(a) + F!Narrow(b))
  BY SMTT(30), <1>2, <1>5
<1>7. PICK t \in Int : a + b = m * t + F!Narrow(a + b)
  BY SMTT(30), <1>2
<1>8. /\ F!Narrow(a + b) \in -(INT_MAX + 1) .. INT_MAX
      /\ F!Narrow(F!Narrow(a) + F!Narrow(b)) \in -(INT_MAX + 1) .. INT_MAX
  BY SMTT(30), <1>5, FibNarrowIsInt
<1>9. m * (t - q - r) + F!Narrow(a + b) = m * s + F!Narrow(F!Narrow(a) + F!Narrow(b))
  <2> DEFINE na == F!Narrow(a)
             nb == F!Narrow(b)
             nab == F!Narrow(a + b)
             ns == F!Narrow(na + nb)
  <2>1. na \in Int /\ nb \in Int /\ nab \in Int /\ ns \in Int
    BY SMTT(30), <1>1, <1>5, <1>8
  <2>2. /\ m * q \in Int /\ m * r \in Int /\ m * s \in Int /\ m * t \in Int
        /\ m * (t - q - r) = m * t - m * q - m * r
    <3> HIDE DEF m
    <3> QED BY SMTT(30), <1>1
  <2>3. /\ a = m * q + na /\ b = m * r + nb
        /\ na + nb = m * s + ns /\ a + b = m * t + nab
    BY ZenonT(40), <1>3, <1>4, <1>6, <1>7
  <2> HIDE DEF m, na, nb, nab, ns
  <2>4. m * (t - q - r) + nab = m * s + ns
    <3> DEFINE mq == m * q
               mr == m * r
               ms == m * s
               mt == m * t
    <3>1. (mt - mq - mr) + nab = ms + ns
      <4>1. /\ mq \in Int /\ mr \in Int /\ ms \in Int /\ mt \in Int
            /\ a = mq + na /\ b = mr + nb
            /\ na + nb = ms + ns /\ a + b = mt + nab
        BY Zenon, <2>2, <2>3
      <4> HIDE DEF mq, mr, ms, mt
      <4> QED BY SMTT(30), <2>1, <4>1
    <3> QED BY ZenonT(40), <2>2, <3>1
  <2> QED BY SMTT(30), <2>4 DEF na, nb, nab, ns
<1>10. ASSUME NEW x \in -(INT_MAX + 1) .. INT_MAX,
              NEW y \in -(INT_MAX + 1) .. INT_MAX,
              NEW u \in Int, NEW v \in Int, m * u + x = m * v + y
       PROVE  x = y
  <2>1. x \in Int /\ y \in Int /\ x - y < m /\ y - x < m
    BY SMTT(30), <1>1
  <2> HIDE DEF m
  <2>2. m * (u - v) = y - x
    BY SMTT(30), <1>1, <1>10, <2>1
  <2>3. u - v >= 1 => m * (u - v) >= m
    BY SMTT(30), <1>1
  <2>4. u - v <= -1 => m * (u - v) <= -m
    BY SMTT(30), <1>1
  <2>5. u - v = 0
    BY SMTT(30), <1>1, <2>1, <2>2, <2>3, <2>4
  <2> QED BY SMTT(30), <1>1, <2>1, <2>2, <2>5
<1> HIDE DEF m
<1> QED BY SMTT(30), <1>8, <1>9, <1>10

(* A step keeps the buffer. *)
LEMMA FibonacciStored ==
  ASSUME F!IInv, [F!Next]_(F!vars)
  PROVE  F!TypeOK' /\ F!NumbersStored'
<1>0. F!TypeOK /\ F!NumbersStored /\ N_FIB_MAX \in Nat
  BY SMTT(30), FibonacciAssumption DEF F!IInv
<1>1. CASE F!ReadArgument
  BY SMTT(30), <1>0, <1>1 DEF F!ReadArgument, F!TypeOK, F!NumbersStored
<1>2. CASE F!runner
  <2> DEFINE x == fib_sequence_buf[fib_i - 1] + fib_sequence_buf[fib_i - 2]
  <2>1. /\ fib_i \in 2 .. (N_FIB_MAX - 1) /\ fib_main = "join"
        /\ fib_i < n_fib /\ fib_i' = fib_i + 1
        /\ UNCHANGED <<n_fib, main_i, fib_main, fib_printed>>
        /\ fib_sequence_buf' = [fib_sequence_buf EXCEPT ![fib_i] = F!Narrow(x)]
    BY SMTT(30), <1>0, <1>2 DEF F!runner, F!TypeOK, F!NumbersStored
  <2>2. x = F!Narrow(F!Fib[fib_i - 1]) + F!Narrow(F!Fib[fib_i - 2])
    BY SMTT(30), <1>0, <2>1 DEF F!NumbersStored
  <2>3. /\ F!Fib[fib_i - 1] \in Int /\ F!Fib[fib_i - 2] \in Int
        /\ F!Fib[fib_i] = F!Fib[fib_i - 1] + F!Fib[fib_i - 2]
    <3>1. fib_i \in Nat /\ fib_i - 1 \in Nat /\ fib_i - 2 \in Nat /\ ~(fib_i <= 1)
      BY SMTT(30), <2>1
    <3> QED BY SMTT(30), <3>1, FibDef
  <2>4. F!Narrow(x) = F!Narrow(F!Fib[fib_i])
    <3>1. F!Narrow(x) = F!Narrow(F!Fib[fib_i - 1] + F!Fib[fib_i - 2])
      <4> DEFINE a == F!Fib[fib_i - 1]
                 b == F!Fib[fib_i - 2]
      <4>1. F!Narrow(F!Narrow(a) + F!Narrow(b)) = F!Narrow(a + b)
        <5>1. a \in Int /\ b \in Int
          BY Zenon, <2>3
        <5> HIDE DEF a, b
        <5> QED BY Zenon, <5>1, NarrowSum
      <4>2. x = F!Narrow(a) + F!Narrow(b)
        BY Zenon, <2>2
      <4> HIDE DEF x
      <4> QED BY Zenon, <4>1, <4>2
    <3> HIDE DEF x
    <3> QED BY Zenon, <2>3, <3>1
  <2>5. F!Narrow(x) \in Int
    <3>1. F!Fib[fib_i] \in Int
      BY SMTT(30), <2>3
    <3>2. F!Narrow(F!Fib[fib_i]) \in -(INT_MAX + 1) .. INT_MAX
      BY Zenon, <3>1, FibNarrowIsInt
    <3> QED BY SMTT(30), <2>4, <3>2, FibonacciAssumption
  <2> HIDE DEF x
  <2>6. F!TypeOK'
    BY SMTT(30), <1>0, <2>1, <2>5 DEF F!TypeOK
  <2>7. \A k \in 0 .. (N_FIB_MAX - 1) :
          k < fib_i' => fib_sequence_buf'[k] = F!Narrow(F!Fib[k])
    <3> SUFFICES ASSUME NEW k \in 0 .. (N_FIB_MAX - 1), k < fib_i'
                 PROVE  fib_sequence_buf'[k] = F!Narrow(F!Fib[k])
      BY SMTT(30)
    <3>1. CASE k = fib_i
      BY SMTT(30), <1>0, <2>1, <2>4, <3>1 DEF F!TypeOK
    <3>2. CASE k # fib_i
      BY SMTT(30), <1>0, <2>1, <3>2 DEF F!TypeOK, F!NumbersStored
    <3> QED BY SMTT(30), <3>1, <3>2
  <2>8. /\ fib_main' \notin {"argument", "refused"}
        /\ fib_i' >= 2 /\ (fib_i' > 2 => fib_i' <= n_fib')
        /\ fib_main' \in {"join", "print", "exit"} => n_fib' \in 1 .. N_FIB_MAX
        /\ fib_main' \notin {"print", "exit"}
    BY SMTT(30), <1>0, <2>1 DEF F!TypeOK, F!NumbersStored
  <2> QED BY ZenonT(40), <2>6, <2>7, <2>8 DEF F!NumbersStored
<1>3. CASE F!Join
  BY SMTT(30), <1>0, <1>3 DEF F!Join, F!TypeOK, F!NumbersStored
<1>4. CASE F!PrintNumber
  <2>1. fib_sequence_buf[main_i] \in Int
    BY SMTT(30), <1>0, <1>4 DEF F!IInv, F!PrintNumber, F!TypeOK,
        F!NumbersStored,
        F!NumbersPrinted
  <2>2. F!TypeOK'
    BY SMTT(30), <1>0, <1>4, <2>1 DEF F!PrintNumber, F!TypeOK
  <2>3. F!NumbersStored'
    BY SMTT(30), <1>0, <1>4 DEF F!PrintNumber, F!TypeOK, F!NumbersStored
  <2> QED BY SMTT(30), <2>2, <2>3
<1>5. CASE UNCHANGED F!vars
  BY SMTT(30), <1>0, <1>5 DEF F!vars, F!TypeOK, F!NumbersStored
<1> QED BY SMTT(30), <1>1, <1>2, <1>3, <1>4, <1>5 DEF F!Next

(* A step keeps what main has printed. *)
LEMMA FibonacciOutput ==
  ASSUME F!IInv, [F!Next]_(F!vars)
  PROVE  F!NumbersPrinted'
<1>0. F!TypeOK /\ F!NumbersStored /\ F!NumbersPrinted /\ N_FIB_MAX \in Nat
  BY SMTT(30), FibonacciAssumption DEF F!IInv
<1>1. CASE F!ReadArgument
  BY SMTT(30), <1>0, <1>1 DEF F!ReadArgument, F!TypeOK, F!NumbersPrinted
<1>2. CASE F!runner
  BY SMTT(30), <1>0, <1>2 DEF F!runner, F!TypeOK, F!NumbersPrinted
<1>3. CASE F!Join
  BY SMTT(30), <1>0, <1>3 DEF F!Join, F!TypeOK, F!NumbersStored,
      F!NumbersPrinted
<1>4. CASE F!PrintNumber
  <2> DEFINE v == fib_sequence_buf[main_i]
  <2>1. /\ fib_main = "print" /\ main_i \in Nat /\ main_i < n_fib
        /\ Len(fib_printed) = main_i /\ n_fib \in 1 .. N_FIB_MAX
        /\ fib_i >= n_fib
    BY SMTT(30), <1>0, <1>4 DEF F!PrintNumber, F!TypeOK, F!NumbersStored,
        F!NumbersPrinted
  <2>2. v \in Int /\ v = F!Narrow(F!Fib[main_i])
    BY SMTT(30), <1>0, <2>1 DEF F!TypeOK, F!NumbersStored
  <2>3. fib_printed' = Append(fib_printed, v) /\ n_fib' = n_fib
    BY SMTT(30), <1>4 DEF F!PrintNumber
  <2> HIDE DEF v
  <2>4. Len(fib_printed') = main_i + 1 /\ fib_printed'[main_i + 1] = v
    BY SMTT(30), <1>0, <2>1, <2>2, <2>3 DEF F!TypeOK
  <2>5. \A k \in 1 .. Len(fib_printed') : fib_printed'[k] = F!Narrow(F!Fib[k - 1])
    <3> SUFFICES ASSUME NEW k \in 1 .. (main_i + 1)
                 PROVE  fib_printed'[k] = F!Narrow(F!Fib[k - 1])
      BY SMTT(30), <2>4
    <3>1. CASE k = main_i + 1
      BY SMTT(30), <2>1, <2>2, <2>4, <3>1
    <3>2. CASE k # main_i + 1
      BY SMTT(30), <1>0, <2>1, <2>2, <2>3, <3>2 DEF F!TypeOK, F!NumbersPrinted
    <3> QED BY SMTT(30), <3>1, <3>2
  <2>6. /\ Len(fib_printed') = IF fib_main' = "exit" THEN n_fib' ELSE main_i'
        /\ main_i' < n_fib' /\ fib_main' \in {"print", "exit"}
    <3>1. CASE main_i < n_fib - 1
      <4>1. main_i' = main_i + 1 /\ fib_main' = fib_main
        BY SMTT(30), <1>4, <3>1 DEF F!PrintNumber
      <4> QED BY SMTT(30), <2>1, <2>3, <2>4, <3>1, <4>1
    <3>2. CASE ~(main_i < n_fib - 1)
      <4>1. main_i' = main_i /\ fib_main' = "exit"
        BY SMTT(30), <1>4, <3>2 DEF F!PrintNumber
      <4> QED BY SMTT(30), <2>1, <2>3, <2>4, <3>2, <4>1
    <3> QED BY SMTT(30), <3>1, <3>2
  <2> QED BY SMTT(30), <2>5, <2>6 DEF F!NumbersPrinted
<1>5. CASE UNCHANGED F!vars
  BY SMTT(30), <1>0, <1>5 DEF F!vars, F!NumbersPrinted
<1> QED BY SMTT(30), <1>1, <1>2, <1>3, <1>4, <1>5 DEF F!Next

(* The inductive invariant of problem 4.26. *)
THEOREM FibonacciInvariant == F!Spec => []F!IInv
<1>1. F!Init => F!IInv
  <2> SUFFICES ASSUME F!Init PROVE F!IInv
    OBVIOUS
  <2>1. N_FIB_MAX \in Nat /\ INT_MAX \in Nat \ {0}
    BY SMTT(30), FibonacciAssumption, IntAssumption
  <2>2. F!Narrow(0) = 0 /\ F!Narrow(1) = 1
    BY SMTT(30), <2>1, FibNarrowOfInt
  <2>3. F!Fib[0] = 0 /\ F!Fib[1] = 1
    BY SMTT(30), FibDef
  <2>4. F!TypeOK
    BY SMTT(30), <2>1 DEF F!Init, F!TypeOK
  <2>5. ASSUME NEW k \in 0 .. (N_FIB_MAX - 1), k < 2
        PROVE  fib_sequence_buf[k] = F!Narrow(F!Fib[k])
    BY SMTT(30), <2>1, <2>2, <2>3, <2>5 DEF F!Init
  <2>6. F!NumbersStored
    BY SMTT(30), <2>5 DEF F!Init, F!NumbersStored
  <2>7. F!NumbersPrinted
    BY DEF F!Init, F!NumbersPrinted
  <2> QED BY <2>4, <2>6, <2>7 DEF F!IInv
<1>2. F!IInv /\ [F!Next]_(F!vars) => F!IInv'
  BY SMTT(30), FibonacciStored, FibonacciOutput DEF F!IInv
<1> QED BY <1>1, <1>2, PTL DEF F!Spec

(* Problem 4.26 prints the Fibonacci numbers as far as they fit an int, and *)
(* after that what is left of them in one, and it prints n_fib numbers.     *)
THEOREM FibonacciNumbersPrinted == F!Spec => []FibonacciPrinted
<1>1. F!IInv => F!FibonacciPrinted
  <2> SUFFICES ASSUME F!IInv PROVE F!FibonacciPrinted
    OBVIOUS
  <2>1. ASSUME NEW k \in 1 .. Len(fib_printed)
        PROVE  /\ fib_printed[k] = F!Narrow(F!Fib[k - 1])
               /\ F!Fib[k - 1] <= INT_MAX => fib_printed[k] = F!Fib[k - 1]
    <3>1. fib_printed[k] = F!Narrow(F!Fib[k - 1])
      BY DEF F!IInv, F!NumbersPrinted
    <3>2. F!Fib[k - 1] \in Nat
      <4>1. k - 1 \in Nat
        BY DEF F!IInv, F!TypeOK
      <4> QED BY Zenon, <4>1, FibDef
    <3>3. ASSUME F!Fib[k - 1] <= INT_MAX
          PROVE  F!Narrow(F!Fib[k - 1]) = F!Fib[k - 1]
      <4>1. F!Fib[k - 1] \in -(INT_MAX + 1) .. INT_MAX
        BY SMTT(30), <3>2, <3>3, FibonacciAssumption, IntAssumption
      <4> QED BY Zenon, <4>1, FibNarrowOfInt
    <3> QED BY Zenon, <3>1, <3>3
  <2>2. fib_main = "exit" => Len(fib_printed) = n_fib
    BY DEF F!IInv, F!NumbersPrinted
  <2> QED BY Zenon, <2>1, <2>2 DEF F!FibonacciPrinted
<1>2. F!FibonacciPrinted => FibonacciPrinted
  BY DEF FibonacciPrinted
<1> QED BY <1>1, <1>2, FibonacciInvariant, PTL
=============================================================================
