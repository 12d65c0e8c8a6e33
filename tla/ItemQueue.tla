----------------------------- MODULE ItemQueue -----------------------------
(***************************************************************************)
(* What insert_item() and remove_item() of the producer-consumer project   *)
(* promise: a queue of at most Size items that are taken out in the order  *)
(* they were put in, each once.  An insertion answers -1 only when the     *)
(* queue is full, and the producer keeps the item for its next attempt; a  *)
(* removal answers -1 only when the queue is empty.                        *)
(***************************************************************************)
EXTENDS Integers, Sequences

CONSTANTS Producers, Consumers, Items, Size, NoItem

VARIABLES
  queue,    \* the items put in and not yet taken out
  pending,  \* what each producer wants to put in, or NoItem
  got,      \* what each consumer took out last
  answer    \* what the last operation of each thread returned

qvars == <<queue, pending, got, answer>>

QueueInit ==
  /\ queue = <<>>
  /\ pending = [p \in Producers |-> NoItem]
  /\ got = [c \in Consumers |-> NoItem]
  /\ answer = [t \in Producers \cup Consumers |-> 0]

Answer(t, r) == answer' = [answer EXCEPT ![t] = r]

Want(p, i) ==
  /\ pending[p] = NoItem
  /\ pending' = [pending EXCEPT ![p] = i]
  /\ UNCHANGED <<queue, got, answer>>

Put(p) ==
  /\ pending[p] # NoItem
  /\ Len(queue) < Size
  /\ queue' = Append(queue, pending[p])
  /\ pending' = [pending EXCEPT ![p] = NoItem]
  /\ Answer(p, 0)
  /\ UNCHANGED got

RefusePut(p) ==
  /\ pending[p] # NoItem
  /\ Len(queue) = Size
  /\ Answer(p, -1)
  /\ UNCHANGED <<queue, pending, got>>

Take(c) ==
  /\ Len(queue) > 0
  /\ got' = [got EXCEPT ![c] = Head(queue)]
  /\ queue' = Tail(queue)
  /\ Answer(c, 0)
  /\ UNCHANGED pending

RefuseTake(c) ==
  /\ queue = <<>>
  /\ Answer(c, -1)
  /\ UNCHANGED <<queue, pending, got>>

QueueNext ==
  \/ \E p \in Producers :
       (\E i \in Items : Want(p, i)) \/ Put(p) \/ RefusePut(p)
  \/ \E c \in Consumers : Take(c) \/ RefuseTake(c)

QueueSpec == QueueInit /\ [][QueueNext]_qvars
=============================================================================
