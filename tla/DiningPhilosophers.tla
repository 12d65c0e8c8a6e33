------------------------- MODULE DiningPhilosophers -------------------------
(***************************************************************************)
(* Project 2 of chapter 5: the dining philosophers with one Pthreads mutex *)
(* and a condition variable per philosopher.  The body of the monitor      *)
(* between two operations on the mutex is one action; taking the mutex,    *)
(* waiting on a condition variable and waking up are actions of their own. *)
(* A waiting thread may also wake up spuriously, as POSIX allows.          *)
(***************************************************************************)
EXTENDS Integers

NUM_PHILOSOPHERS == 5
Philosophers == 0 .. (NUM_PHILOSOPHERS - 1)
None == -1   \* nobody holds the mutex

VARIABLES
  PhilosopherState,  \* "THINKING", "HUNGRY" or "EATING", guarded by mutex
  mutex,             \* the philosopher that holds the mutex, or None
  pc,                \* where each philosopher is
  eating_count       \* local: how often the philosopher ate, modulo 2

vars == <<PhilosopherState, mutex, pc, eating_count>>

(* Mutant: off by one. *)
left_neighborTooFar(p) == (p + 3) % 5

left_neighbor(p)  == (p + 4) % 5
right_neighbor(p) == (p + 1) % 5

Init ==
  /\ PhilosopherState = [p \in Philosophers |-> "THINKING"]
  /\ mutex = None
  /\ pc = [p \in Philosophers |-> "new"]
  /\ eating_count = [p \in Philosophers |-> 0]

Goto(p, label) == pc' = [pc EXCEPT ![p] = label]

Lock(p) == mutex = None /\ mutex' = p
Unlock == mutex' = None

(* Mutant: forgets that the left neighbour may be eating. *)
testRightOnly(s, i) ==
  IF s[right_neighbor(i)] # "EATING" /\ s[i] = "HUNGRY"
  THEN [s EXCEPT ![i] = "EATING"] ELSE s

(* test(i) in the states s: may philosopher i start to eat? *)
test(s, i) ==
  IF /\ s[left_neighbor(i)] # "EATING"
     /\ s[right_neighbor(i)] # "EATING"
     /\ s[i] = "HUNGRY"
  THEN [s EXCEPT ![i] = "EATING"] ELSE s

(* The states after p returned its forks and tested its neighbours, in the *)
(* order that the parity of its count selects.                             *)
Returned(s, p, parity) ==
  LET thinking == [s EXCEPT ![p] = "THINKING"]
      l == left_neighbor(p)
      r == right_neighbor(p)
  IN  IF parity = 0 THEN test(test(thinking, l), r)
                    ELSE test(test(thinking, r), l)

(* Mutant: state changes, but no signal is sent. *)
SignalNobody(before, after) == pc

(* The signal of each test that succeeded wakes its philosopher, if it is  *)
(* waiting on its condition variable.                                      *)
Signal(before, after) ==
  [i \in Philosophers |->
     IF after[i] = "EATING" /\ before[i] # "EATING" /\ pc[i] = "waiting"
     THEN "woken" ELSE pc[i]]

-----------------------------------------------------------------------------
Create(p) ==
  /\ pc[p] = "new"
  /\ Goto(p, "think")
  /\ UNCHANGED <<PhilosopherState, mutex, eating_count>>

(* pickup_forks: lock *)
PickupLock(p) ==
  /\ pc[p] = "think"
  /\ Lock(p)
  /\ Goto(p, "pickup")
  /\ UNCHANGED <<PhilosopherState, eating_count>>

(* Mutant: a philosopher gets hungry but does not test for itself. *)
PickupNoTest(p) ==
  /\ pc[p] = "pickup"
  /\ PhilosopherState' = [PhilosopherState EXCEPT ![p] = "HUNGRY"]
  /\ Goto(p, "while")
  /\ UNCHANGED <<mutex, eating_count>>

(* pickup_forks: get hungry, test(self).  Its signal finds nobody waiting. *)
Pickup(p) ==
  /\ pc[p] = "pickup"
  /\ PhilosopherState' =
       test([PhilosopherState EXCEPT ![p] = "HUNGRY"], p)
  /\ Goto(p, "while")
  /\ UNCHANGED <<mutex, eating_count>>

(* pickup_forks: not my turn, wait on my condition variable. *)
CondWait(p) ==
  /\ pc[p] = "while"
  /\ PhilosopherState[p] # "EATING"
  /\ Unlock
  /\ Goto(p, "waiting")
  /\ UNCHANGED <<PhilosopherState, eating_count>>

SpuriousWakeup(p) ==
  /\ pc[p] = "waiting"
  /\ Goto(p, "woken")
  /\ UNCHANGED <<PhilosopherState, mutex, eating_count>>

(* pthread_cond_wait returns with the mutex. *)
Relock(p) ==
  /\ pc[p] = "woken"
  /\ Lock(p)
  /\ Goto(p, "while")
  /\ UNCHANGED <<PhilosopherState, eating_count>>

(* pickup_forks: my turn; unlock, return, count the meal. *)
StartEating(p) ==
  /\ pc[p] = "while"
  /\ PhilosopherState[p] = "EATING"
  /\ Unlock
  /\ eating_count' = [eating_count EXCEPT ![p] = 1 - @]
  /\ Goto(p, "eat")
  /\ UNCHANGED PhilosopherState

(* return_forks: lock *)
ReturnLock(p) ==
  /\ pc[p] = "eat"
  /\ Lock(p)
  /\ Goto(p, "return")
  /\ UNCHANGED <<PhilosopherState, eating_count>>

(* return_forks: think, test both neighbours, unlock. *)
ReturnForks(p) ==
  /\ pc[p] = "return"
  /\ PhilosopherState' = Returned(PhilosopherState, p, eating_count[p])
  /\ pc' = [Signal(PhilosopherState, PhilosopherState') EXCEPT ![p] = "think"]
  /\ Unlock
  /\ UNCHANGED eating_count

Philosopher_thread_func(p) ==
  \/ PickupLock(p) \/ Pickup(p) \/ CondWait(p) \/ Relock(p)
  \/ StartEating(p) \/ ReturnLock(p) \/ ReturnForks(p)

Next ==
  \E p \in Philosophers :
    Create(p) \/ Philosopher_thread_func(p) \/ SpuriousWakeup(p)

Spec == Init /\ [][Next]_vars

(* Every thread runs, and a thread that asks for the mutex again and again *)
(* while it is free gets it.  Nobody has to wake up spuriously.            *)
FairSpec ==
  /\ Spec
  /\ \A p \in Philosophers :
       WF_vars(Create(p)) /\ SF_vars(Philosopher_thread_func(p))

-----------------------------------------------------------------------------
(* Properties *)

(* The types of the variables; the mutex is held by the philosopher that   *)
(* is inside the monitor and by nobody else.                               *)
TypeOK ==
  /\ PhilosopherState \in [Philosophers -> {"THINKING", "HUNGRY", "EATING"}]
  /\ mutex \in Philosophers \cup {None}
  /\ pc \in [Philosophers -> {"new", "think", "pickup", "while", "waiting",
                              "woken", "eat", "return"}]
  /\ eating_count \in [Philosophers -> {0, 1}]
  /\ \A p \in Philosophers :
       pc[p] \in {"pickup", "while", "return"} <=> mutex = p

NeighborsNotEating(p) ==
  /\ PhilosopherState[left_neighbor(p)] # "EATING"
  /\ PhilosopherState[right_neighbor(p)] # "EATING"

(* The assertions at the end of pickup_forks and around eating: a          *)
(* philosopher that got its forks has them, and its neighbours do not eat, *)
(* until it returns them; the second and third are made without the mutex. *)
ForksExclusive ==
  \A p \in Philosophers :
    \/ pc[p] \in {"eat", "return"}
    \/ pc[p] = "while" /\ PhilosopherState[p] = "EATING"
    => PhilosopherState[p] = "EATING" /\ NeighborsNotEating(p)

(* No wakeup is lost: a philosopher that was told to eat is not left       *)
(* waiting on its condition variable.                                      *)
NoLostSignal ==
  \A p \in Philosophers :
    pc[p] = "waiting" => PhilosopherState[p] = "HUNGRY"

(* Whenever the mutex is free, a hungry philosopher has a neighbour that   *)
(* eats: the monitor lets nobody wait whose two forks are free.            *)
HungryOnlyIfBlocked ==
  mutex = None =>
    \A p \in Philosophers :
      PhilosopherState[p] = "HUNGRY" => ~NeighborsNotEating(p)

(* The order in which return_forks tests the two neighbours never makes a  *)
(* difference: the neighbours of a philosopher are not each other's        *)
(* neighbours.                                                             *)
TestOrderIrrelevant ==
  \A p \in Philosophers :
    Returned(PhilosopherState, p, 0) = Returned(PhilosopherState, p, 1)

(* The inductive invariant.  The state of a philosopher follows its thread *)
(* but for the step from HUNGRY to EATING, which a neighbour may take on   *)
(* its behalf; test() let everybody eat that could, and nobody else, also  *)
(* while the mutex is held.                                                *)
IInv ==
  /\ TypeOK
  /\ \A p \in Philosophers :
       /\ pc[p] \in {"new", "think", "pickup"}
            <=> PhilosopherState[p] = "THINKING"
       /\ pc[p] = "waiting" => PhilosopherState[p] = "HUNGRY"
       /\ pc[p] \in {"eat", "return"} => PhilosopherState[p] = "EATING"
       /\ PhilosopherState[p] = "EATING" => NeighborsNotEating(p)
       /\ PhilosopherState[p] = "HUNGRY" => ~NeighborsNotEating(p)

(* The table never comes to rest: again and again somebody eats. *)
SomebodyEats == []<>(\E p \in Philosophers : pc[p] = "eat")

(* The comment in return_forks: with the alternating tests no philosopher  *)
(* starves, whoever is hungry eats in the end.                             *)
NobodyStarves ==
  \A p \in Philosophers :
    PhilosopherState[p] = "HUNGRY" ~> PhilosopherState[p] = "EATING"
=============================================================================
