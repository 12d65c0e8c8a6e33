---------------------------- MODULE BoundedBuffer ----------------------------
(***************************************************************************)
(* Project 3 of chapter 5: producers and consumers on a circular buffer    *)
(* guarded by a mutex and two semaphores.  insert_item and remove_item     *)
(* wait on a semaphore while they hold the mutex, after a look at the      *)
(* number of items, and answer -1 instead of blocking.                     *)
(***************************************************************************)
EXTENDS Integers, Sequences, FiniteSets

CONSTANTS
  BUFFER_SIZE,
  Producers,   \* the producer threads
  Consumers,   \* the consumer threads
  Items,       \* what rand() returns
  NoThread

ASSUME BufferAssumption ==
  /\ BUFFER_SIZE \in Nat \ {0}
  /\ Items \subseteq Nat
  /\ Producers \cap Consumers = {}
  /\ NoThread \notin Producers \cup Consumers

Threads == Producers \cup Consumers
Slots == 0 .. (BUFFER_SIZE - 1)
Removed == -1   \* the mark of an emptied slot, and an unset local item

VARIABLES
  buffer, head_index, tail_index,
  n,                    \* number of items in the buffer
  full_sem, empty_sem,  \* values of the semaphores
  mutex,                \* the thread that holds the mutex, or NoThread
  is_main_sleeping,
  main,                 \* "running", "joined" or "exited"
  pc,
  item,                 \* dp of a producer, dc of a consumer
  result                \* what a thread's last insert or remove returned

ring == <<buffer, head_index, tail_index, n>>
sems == <<full_sem, empty_sem>>
vars == <<ring, sems, mutex, is_main_sleeping, main, pc, item, result>>

Init ==
  /\ buffer = [s \in Slots |-> 0]
  /\ head_index = 0
  /\ tail_index = 0
  /\ n = 0
  /\ full_sem = 0
  /\ empty_sem = BUFFER_SIZE
  /\ mutex = NoThread
  /\ is_main_sleeping = TRUE
  /\ main = "running"
  /\ pc = [t \in Threads |-> "new"]
  /\ item = [t \in Threads |-> Removed]
  /\ result = [t \in Threads |-> 0]

At(t, label) == pc[t] = label
Goto(t, label) == pc' = [pc EXCEPT ![t] = label]
Return(t, r) == result' = [result EXCEPT ![t] = r]

-----------------------------------------------------------------------------
(* main(): the threads are created, main sleeps, wakes up, joins them all  *)
(* and cleans up.                                                          *)
Create(t) ==
  /\ At(t, "new")
  /\ Goto(t, IF t \in Producers THEN "produce" ELSE "lock")
  /\ UNCHANGED <<ring, sems, mutex, is_main_sleeping, main, item, result>>

WakeUp ==
  /\ is_main_sleeping
  /\ \A t \in Threads : ~At(t, "new")
  /\ is_main_sleeping' = FALSE
  /\ UNCHANGED <<ring, sems, mutex, main, pc, item, result>>

Join ==
  /\ main = "running"
  /\ ~is_main_sleeping
  /\ \A t \in Threads : At(t, "done")
  /\ main' = "joined"
  /\ UNCHANGED <<ring, sems, mutex, is_main_sleeping, pc, item, result>>

(* cleanup_state destroys the semaphores and the mutex. *)
Cleanup ==
  /\ main = "joined"
  /\ main' = "exited"
  /\ UNCHANGED <<ring, sems, mutex, is_main_sleeping, pc, item, result>>

-----------------------------------------------------------------------------
(* Both thread functions *)

(* Mutant: the item that found no space is thrown away. *)
ProduceAlwaysNew(p) ==
  /\ At(p, "produce")
  /\ \E i \in Items : item' = [item EXCEPT ![p] = i]
  /\ Goto(p, "lock")
  /\ UNCHANGED <<ring, sems, mutex, is_main_sleeping, main, result>>

(* A new item, or the one of the failed attempt once more. *)
Produce(p) ==
  /\ At(p, "produce")
  /\ IF result[p] = 0
     THEN \E i \in Items : item' = [item EXCEPT ![p] = i]
     ELSE UNCHANGED item
  /\ Goto(p, "lock")
  /\ UNCHANGED <<ring, sems, mutex, is_main_sleeping, main, result>>

Lock(t) ==
  /\ At(t, "lock")
  /\ mutex = NoThread
  /\ mutex' = t
  /\ Goto(t, "check")
  /\ UNCHANGED <<ring, sems, is_main_sleeping, main, item, result>>

(* The end of insert_item and remove_item. *)
Unlock(t) ==
  /\ At(t, "unlock")
  /\ mutex' = NoThread
  /\ Goto(t, "while")
  /\ UNCHANGED <<ring, sems, is_main_sleeping, main, item, result>>

(* Mutant: a thread whose last attempt failed tries once more. *)
WhileFailed(t) ==
  /\ At(t, "while")
  /\ Goto(t, IF ~is_main_sleeping /\ result[t] = 0 THEN "done"
             ELSE IF t \in Producers THEN "produce" ELSE "lock")
  /\ UNCHANGED <<ring, sems, mutex, is_main_sleeping, main, item, result>>

While(t) ==
  /\ At(t, "while")
  /\ Goto(t, IF ~is_main_sleeping THEN "done"
             ELSE IF t \in Producers THEN "produce" ELSE "lock")
  /\ UNCHANGED <<ring, sems, mutex, is_main_sleeping, main, item, result>>

-----------------------------------------------------------------------------
(* insert_item *)

InsertCheck(p) ==
  /\ At(p, "check")
  /\ IF n < BUFFER_SIZE
     THEN Goto(p, "sem") /\ UNCHANGED result
     ELSE Goto(p, "unlock") /\ Return(p, -1)
  /\ UNCHANGED <<ring, sems, mutex, is_main_sleeping, main, item>>

EmptyWait(p) ==
  /\ At(p, "sem")
  /\ empty_sem > 0
  /\ empty_sem' = empty_sem - 1
  /\ Goto(p, "move")
  /\ UNCHANGED <<ring, full_sem, mutex, is_main_sleeping, main, item, result>>

Insert(p) ==
  /\ At(p, "move")
  /\ buffer' = [buffer EXCEPT ![tail_index] = item[p]]
  /\ tail_index' = (tail_index + 1) % BUFFER_SIZE
  /\ n' = n + 1
  /\ full_sem' = full_sem + 1
  /\ Return(p, 0)
  /\ Goto(p, "unlock")
  /\ UNCHANGED <<head_index, empty_sem, mutex, is_main_sleeping, main, item>>

-----------------------------------------------------------------------------
(* remove_item *)

RemoveCheck(c) ==
  /\ At(c, "check")
  /\ IF n > 0
     THEN Goto(c, "sem") /\ UNCHANGED result
     ELSE Goto(c, "unlock") /\ Return(c, -1)
  /\ UNCHANGED <<ring, sems, mutex, is_main_sleeping, main, item>>

FullWait(c) ==
  /\ At(c, "sem")
  /\ full_sem > 0
  /\ full_sem' = full_sem - 1
  /\ Goto(c, "move")
  /\ UNCHANGED <<ring, empty_sem, mutex, is_main_sleeping, main, item, result>>

(* Mutant: forgets to post empty_sem. *)
RemoveNoPost(c) ==
  /\ At(c, "move")
  /\ item' = [item EXCEPT ![c] = buffer[head_index]]
  /\ buffer' = [buffer EXCEPT ![head_index] = Removed]
  /\ head_index' = (head_index + 1) % BUFFER_SIZE
  /\ n' = n - 1
  /\ Return(c, 0)
  /\ Goto(c, "unlock")
  /\ UNCHANGED <<tail_index, sems, mutex, is_main_sleeping, main>>

Remove(c) ==
  /\ At(c, "move")
  /\ item' = [item EXCEPT ![c] = buffer[head_index]]
  /\ buffer' = [buffer EXCEPT ![head_index] = Removed]
  /\ head_index' = (head_index + 1) % BUFFER_SIZE
  /\ n' = n - 1
  /\ empty_sem' = empty_sem + 1
  /\ Return(c, 0)
  /\ Goto(c, "unlock")
  /\ UNCHANGED <<tail_index, full_sem, mutex, is_main_sleeping, main>>

-----------------------------------------------------------------------------
Common(t) == Lock(t) \/ Unlock(t) \/ While(t)

Producer_thread_func(p) ==
  Produce(p) \/ Common(p) \/ InsertCheck(p) \/ EmptyWait(p) \/ Insert(p)

Consumer_thread_func(c) ==
  Common(c) \/ RemoveCheck(c) \/ FullWait(c) \/ Remove(c)

(* The program is over. *)
Exited == main = "exited" /\ UNCHANGED vars

Next ==
  \/ \E t \in Threads : Create(t)
  \/ \E p \in Producers : Producer_thread_func(p)
  \/ \E c \in Consumers : Consumer_thread_func(c)
  \/ WakeUp
  \/ Join \/ Cleanup \/ Exited

Spec == Init /\ [][Next]_vars

(* Every thread runs and main wakes up; a thread that asks for the mutex   *)
(* is not passed over for ever.                                            *)
FairSpec ==
  /\ Spec
  /\ \A t \in Threads : WF_vars(Create(t)) /\ SF_vars(Lock(t))
  /\ \A p \in Producers : WF_vars(Producer_thread_func(p))
  /\ \A c \in Consumers : WF_vars(Consumer_thread_func(c))
  /\ WF_vars(WakeUp) /\ WF_vars(Join) /\ WF_vars(Cleanup)

-----------------------------------------------------------------------------
(* Properties *)

(* The types of the variables. *)
TypeOK ==
  /\ buffer \in [Slots -> Items \cup {0, Removed}]
  /\ head_index \in Slots /\ tail_index \in Slots
  /\ n \in Nat /\ full_sem \in Nat /\ empty_sem \in Nat
  /\ mutex \in Threads \cup {NoThread}
  /\ is_main_sleeping \in BOOLEAN
  /\ main \in {"running", "joined", "exited"}
  /\ pc \in [Threads -> {"new", "produce", "lock", "check", "sem", "move",
                         "unlock", "while", "done"}]
  /\ item \in [Threads -> Items \cup {Removed}]
  /\ result \in [Threads -> {0, -1}]

(* sem_wait(&empty_sem) and sem_wait(&full_sem) are called with the mutex  *)
(* held; were one of them to block, no thread could ever post it.  The     *)
(* test of n before the call makes sure that it never does.                *)
SemWaitNeverBlocks ==
  \A t \in Threads :
    At(t, "sem") => IF t \in Producers THEN empty_sem > 0 ELSE full_sem > 0

(* The slot k places after slot h, for k at most BUFFER_SIZE. *)
SlotAfter(h, k) ==
  IF h + k < BUFFER_SIZE THEN h + k ELSE h + k - BUFFER_SIZE

(* When main has joined the threads and destroys the semaphores and the    *)
(* mutex, every item is accounted for and nobody is inside the monitor.    *)
CleanShutdown ==
  main # "running" =>
    /\ mutex = NoThread
    /\ full_sem = n /\ empty_sem = BUFFER_SIZE - n
    /\ \A t \in Threads : At(t, "done")

(* A producer's item is pending from its production until insert_item put  *)
(* it into the buffer.                                                     *)
HasPending(p) ==
  pc[p] \in {"lock", "check", "sem", "move"} \/ result[p] = -1

Moving(S) == IF \E t \in S : At(t, "move") THEN 1 ELSE 0

(* The inductive invariant.  The mutex is held inside insert_item and      *)
(* remove_item only; the items lie between head_index and tail_index; the  *)
(* semaphores agree with n up to the thread between its sem_wait and its   *)
(* sem_post; what that thread knows of n still holds; a pending item is an *)
(* item; and main exits last.                                              *)
IInv ==
  /\ TypeOK
  /\ \A t \in Threads :
       pc[t] \in {"check", "sem", "move", "unlock"} <=> mutex = t
  /\ n <= BUFFER_SIZE
  /\ tail_index = SlotAfter(head_index, n)
  /\ \A k \in 0 .. (n - 1) : buffer[SlotAfter(head_index, k)] \in Items
  /\ empty_sem = BUFFER_SIZE - n - Moving(Producers)
  /\ full_sem = n - Moving(Consumers)
  /\ \A t \in Threads :
       pc[t] \in {"sem", "move"} =>
         IF t \in Producers THEN n < BUFFER_SIZE ELSE n > 0
  /\ \A p \in Producers : HasPending(p) => item[p] \in Items
  /\ main # "running" => \A t \in Threads : At(t, "done")

(* insert_item and remove_item implement the bounded queue of ItemQueue:   *)
(* its items are the n slots from head_index on.                           *)
queueItems == [k \in 1 .. n |-> buffer[SlotAfter(head_index, k - 1)]]
queuePending ==
  [p \in Producers |-> IF HasPending(p) THEN item[p] ELSE Removed]
queueGot == [c \in Consumers |-> item[c]]

Queue == INSTANCE ItemQueue WITH
  Size <- BUFFER_SIZE,
  NoItem <- Removed,
  queue <- queueItems,
  pending <- queuePending,
  got <- queueGot,
  answer <- result

ImplementsQueue == Queue!QueueSpec

(* Once main is awake every producer and consumer leaves its loop, however *)
(* full or empty the buffer is, and the joins of main return.              *)
Terminates == <>(main = "exited")
=============================================================================
