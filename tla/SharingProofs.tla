--------------------------- MODULE SharingProofs ----------------------------
(***************************************************************************)
(* Proofs about the processes that share something with their neighbours:  *)
(* the philosophers, who share forks, and the producers and consumers of   *)
(* the shared memory segment.  The first section is about                  *)
(* DiningPhilosophers: the inductive invariant IInv of the table, the      *)
(* assertions of the program, and that the order of the two tests of       *)
(* return_forks makes no difference.                                       *)
(***************************************************************************)
EXTENDS DiningPhilosophers, SharingListings, Sequences, TLAPS

-----------------------------------------------------------------------------
(* The dining philosophers *)

(* The table is a ring of five: everybody sits between its two neighbours, *)
(* who do not sit next to each other.                                      *)
LEMMA Ring ==
  ASSUME NEW p \in Philosophers
  PROVE  LET l == left_neighbor(p)
             r == right_neighbor(p)
         IN  /\ l \in Philosophers /\ r \in Philosophers
             /\ p # l /\ p # r /\ l # r
             /\ right_neighbor(l) = p /\ left_neighbor(r) = p
             /\ left_neighbor(l) \in Philosophers \ {p, l, r}
             /\ right_neighbor(r) \in Philosophers \ {p, l, r}
<1> USE DEF Philosophers, NUM_PHILOSOPHERS, left_neighbor, right_neighbor
<1>1. p \in {0, 1, 2, 3, 4}
  OBVIOUS
<1> QED BY <1>1

(* Sharing a fork is mutual. *)
LEMMA Mutual ==
  ASSUME NEW p \in Philosophers, NEW q \in Philosophers
  PROVE  /\ q = left_neighbor(p) <=> p = right_neighbor(q)
         /\ q = right_neighbor(p) <=> p = left_neighbor(q)
  BY Ring

States == {"THINKING", "HUNGRY", "EATING"}

(* What test(i) changes: at most the state of i. *)
LEMMA TestType ==
  ASSUME NEW s \in [Philosophers -> States], NEW i \in Philosophers
  PROVE  /\ test(s, i) \in [Philosophers -> States]
         /\ \A q \in Philosophers \ {i} : test(s, i)[q] = s[q]
         /\ test(s, i)[i] =
              IF /\ s[left_neighbor(i)] # "EATING"
                 /\ s[right_neighbor(i)] # "EATING" /\ s[i] = "HUNGRY"
              THEN "EATING" ELSE s[i]
  BY DEF test, States

(* The states after return_forks, philosopher by philosopher, whatever the *)
(* order of its two tests.                                                 *)
LEMMA ReturnedStates ==
  ASSUME NEW s \in [Philosophers -> States], NEW p \in Philosophers,
         NEW parity \in {0, 1}
  PROVE  LET l == left_neighbor(p)
             r == right_neighbor(p)
         IN  /\ Returned(s, p, parity) \in [Philosophers -> States]
             /\ Returned(s, p, parity)[p] = "THINKING"
             /\ \A q \in Philosophers \ {p, l, r} :
                  Returned(s, p, parity)[q] = s[q]
             /\ Returned(s, p, parity)[l] =
                  IF s[left_neighbor(l)] # "EATING" /\ s[l] = "HUNGRY"
                  THEN "EATING" ELSE s[l]
             /\ Returned(s, p, parity)[r] =
                  IF s[right_neighbor(r)] # "EATING" /\ s[r] = "HUNGRY"
                  THEN "EATING" ELSE s[r]
<1> DEFINE l == left_neighbor(p)
           r == right_neighbor(p)
           t == [s EXCEPT ![p] = "THINKING"]
<1>1. /\ t \in [Philosophers -> States] /\ t[p] = "THINKING"
      /\ \A q \in Philosophers \ {p} : t[q] = s[q]
  BY DEF States
<1>2. CASE parity = 0
  <2> DEFINE u == test(t, l)
  <2>1. Returned(s, p, parity) = test(u, r)
    BY <1>2 DEF Returned
  <2>2. /\ u \in [Philosophers -> States]
        /\ \A q \in Philosophers \ {l} : u[q] = t[q]
        /\ u[l] = IF /\ t[left_neighbor(l)] # "EATING" /\ t[p] # "EATING"
                     /\ t[l] = "HUNGRY"
                  THEN "EATING" ELSE t[l]
    BY ZenonT(30), <1>1, Ring, TestType
  <2> HIDE DEF t, u
  <2>3. /\ test(u, r) \in [Philosophers -> States]
        /\ \A q \in Philosophers \ {r} : test(u, r)[q] = u[q]
        /\ test(u, r)[r] =
             IF /\ u[p] # "EATING" /\ u[right_neighbor(r)] # "EATING"
                /\ u[r] = "HUNGRY"
             THEN "EATING" ELSE u[r]
    BY <2>2, Ring, TestType
  <2> QED BY <1>1, <2>1, <2>2, <2>3, Ring
<1>3. CASE parity = 1
  <2> DEFINE u == test(t, r)
  <2>1. Returned(s, p, parity) = test(u, l)
    BY <1>3 DEF Returned
  <2>2. /\ u \in [Philosophers -> States]
        /\ \A q \in Philosophers \ {r} : u[q] = t[q]
        /\ u[r] = IF /\ t[p] # "EATING" /\ t[right_neighbor(r)] # "EATING"
                     /\ t[r] = "HUNGRY"
                  THEN "EATING" ELSE t[r]
    BY ZenonT(30), <1>1, Ring, TestType
  <2> HIDE DEF t, u
  <2>3. /\ test(u, l) \in [Philosophers -> States]
        /\ \A q \in Philosophers \ {l} : test(u, l)[q] = u[q]
        /\ test(u, l)[l] =
             IF /\ u[left_neighbor(l)] # "EATING" /\ u[p] # "EATING"
                /\ u[l] = "HUNGRY"
             THEN "EATING" ELSE u[l]
    BY <2>2, Ring, TestType
  <2> QED BY <1>1, <2>1, <2>2, <2>3, Ring
<1> QED BY <1>2, <1>3

(* The order in which return_forks tests its two neighbours, which the     *)
(* parity of the count of meals selects, never makes a difference.         *)
LEMMA OrderIrrelevant ==
  ASSUME TypeOK PROVE TestOrderIrrelevant
<1> SUFFICES ASSUME NEW p \in Philosophers
             PROVE  Returned(PhilosopherState, p, 0)
                      = Returned(PhilosopherState, p, 1)
  BY DEF TestOrderIrrelevant
<1> DEFINE a == Returned(PhilosopherState, p, 0)
           b == Returned(PhilosopherState, p, 1)
<1>1. PhilosopherState \in [Philosophers -> States]
  BY DEF TypeOK, States
<1>2. a \in [Philosophers -> States] /\ b \in [Philosophers -> States]
  BY <1>1, ReturnedStates
<1>3. ASSUME NEW q \in Philosophers PROVE a[q] = b[q]
  <2>1. CASE q \in {p, left_neighbor(p), right_neighbor(p)}
    BY <2>1, <1>1, ReturnedStates
  <2>2. CASE q \notin {p, left_neighbor(p), right_neighbor(p)}
    BY <2>2, <1>1, ReturnedStates
  <2> QED BY <2>1, <2>2
<1> HIDE DEF a, b
<1>4. a = b
  BY <1>2, <1>3
<1> QED BY <1>4 DEF a, b

(* The types of the variables, and who holds the mutex, through every step *)
(* of a thread.                                                            *)
LEMMA TypeStep ==
  ASSUME TypeOK, NEW p \in Philosophers,
         Create(p) \/ Philosopher_thread_func(p) \/ SpuriousWakeup(p)
  PROVE  TypeOK'
<1> USE DEF TypeOK, Goto
<1>0. None \notin Philosophers
  BY DEF None, Philosophers, NUM_PHILOSOPHERS
<1>1. CASE Create(p) \/ CondWait(p) \/ SpuriousWakeup(p)
  BY <1>0, <1>1 DEF Create, CondWait, SpuriousWakeup, Unlock
<1>2. CASE PickupLock(p) \/ Relock(p) \/ ReturnLock(p)
  BY <1>0, <1>2 DEF PickupLock, Relock, ReturnLock, Lock
<1>3. CASE StartEating(p)
  BY <1>0, <1>3 DEF StartEating, Unlock
<1>4. CASE Pickup(p)
  <2>1. PhilosopherState' \in [Philosophers -> States]
    BY Zenon, <1>4, TestType DEF Pickup, States
  <2> QED BY Zenon, <1>4, <2>1 DEF Pickup, States
<1>5. CASE ReturnForks(p)
  <2>1. PhilosopherState' \in [Philosophers -> States]
    BY <1>5, ReturnedStates DEF ReturnForks, States
  <2>2. \A q \in Philosophers :
          pc'[q] = IF q = p THEN "think"
                   ELSE IF pc[q] = "waiting" /\ pc'[q] # "waiting"
                   THEN "woken" ELSE pc[q]
    BY <1>5 DEF ReturnForks, Signal
  <2>3. pc' \in [Philosophers -> {"new", "think", "pickup", "while",
                                 "waiting", "woken", "eat", "return"}]
    BY <1>5, <2>2 DEF ReturnForks, Signal
  <2> QED BY <1>0, <1>5, <2>1, <2>2, <2>3 DEF ReturnForks, Unlock, States
<1> QED BY <1>1, <1>2, <1>3, <1>4, <1>5 DEF Philosopher_thread_func

(* A step that leaves the states of the philosophers alone keeps what IInv *)
(* says of the forks.                                                      *)
LEMMA QuietStep ==
  ASSUME IInv, NEW p \in Philosophers,
         \/ Create(p) \/ PickupLock(p) \/ CondWait(p) \/ SpuriousWakeup(p)
         \/ Relock(p) \/ StartEating(p) \/ ReturnLock(p)
  PROVE  IInv'
<1>1. TypeOK'
  BY TypeStep DEF IInv, Philosopher_thread_func
<1>2. PhilosopherState' = PhilosopherState
  BY DEF Create, PickupLock, CondWait, SpuriousWakeup, Relock, StartEating,
         ReturnLock
<1>3. \A q \in Philosophers : q # p => pc'[q] = pc[q]
  BY DEF IInv, TypeOK, Create, PickupLock, CondWait, SpuriousWakeup, Relock,
         StartEating, ReturnLock, Goto
<1>4. /\ pc'[p] \in {"new", "think", "pickup"}
           <=> PhilosopherState[p] = "THINKING"
      /\ pc'[p] = "waiting" => PhilosopherState[p] = "HUNGRY"
      /\ pc'[p] \in {"eat", "return"} => PhilosopherState[p] = "EATING"
  BY DEF IInv, TypeOK, Create, PickupLock, CondWait, SpuriousWakeup, Relock,
         StartEating, ReturnLock, Goto
<1> QED BY <1>1, <1>2, <1>3, <1>4 DEF IInv, NeighborsNotEating

(* pickup_forks: the philosopher that got hungry eats if both its forks    *)
(* are free, and has a neighbour that eats if not.                         *)
LEMMA PickupStep ==
  ASSUME IInv, NEW p \in Philosophers, Pickup(p) PROVE IInv'
<1> DEFINE l == left_neighbor(p)
           r == right_neighbor(p)
           s == PhilosopherState
           u == PhilosopherState'
<1>1. TypeOK'
  BY TypeStep DEF IInv, Philosopher_thread_func
<1>2. s \in [Philosophers -> States]
  BY DEF IInv, TypeOK, States
<1>3. /\ \A q \in Philosophers \ {p} : u[q] = s[q]
      /\ u[p] = IF s[l] # "EATING" /\ s[r] # "EATING"
                THEN "EATING" ELSE "HUNGRY"
  <2> DEFINE h == [s EXCEPT ![p] = "HUNGRY"]
  <2>1. /\ h \in [Philosophers -> States] /\ h[p] = "HUNGRY"
        /\ \A q \in Philosophers \ {p} : h[q] = s[q]
    BY <1>2 DEF States
  <2>2. u = test(h, p)
    BY DEF Pickup
  <2> HIDE DEF h
  <2> QED BY <2>1, <2>2, TestType, Ring
<1>4. /\ \A q \in Philosophers : q # p => pc'[q] = pc[q]
      /\ pc[p] = "pickup" /\ pc'[p] = "while"
  BY DEF Pickup, Goto, IInv, TypeOK
<1>5. s[p] = "THINKING"
  BY <1>4 DEF IInv
<1>6. ASSUME NEW q \in Philosophers
      PROVE  /\ u[q] = "EATING" =>
                  u[left_neighbor(q)] # "EATING" /\ u[right_neighbor(q)] # "EATING"
             /\ u[q] = "HUNGRY" =>
                  u[left_neighbor(q)] = "EATING" \/ u[right_neighbor(q)] = "EATING"
  <2>1. CASE q = p
    BY <1>3, <2>1, Ring
  <2>2. CASE q # p
    <3>1. /\ left_neighbor(q) \in Philosophers
          /\ right_neighbor(q) \in Philosophers
      BY Ring
    <3>2. /\ s[q] = "EATING" =>
               s[left_neighbor(q)] # "EATING" /\ s[right_neighbor(q)] # "EATING"
          /\ s[q] = "HUNGRY" =>
               s[left_neighbor(q)] = "EATING" \/ s[right_neighbor(q)] = "EATING"
      BY DEF IInv, NeighborsNotEating
    <3>3. /\ left_neighbor(q) = p => q = r
          /\ right_neighbor(q) = p => q = l
      BY Mutual
    <3> QED BY <1>3, <1>5, <2>2, <3>1, <3>2, <3>3
  <2> QED BY <2>1, <2>2
<1>7. ASSUME NEW q \in Philosophers
      PROVE  /\ pc'[q] \in {"new", "think", "pickup"} <=> u[q] = "THINKING"
             /\ pc'[q] = "waiting" => u[q] = "HUNGRY"
             /\ pc'[q] \in {"eat", "return"} => u[q] = "EATING"
  BY <1>3, <1>4 DEF IInv
<1> QED BY <1>1, <1>6, <1>7 DEF IInv, NeighborsNotEating

(* return_forks: a neighbour whose other fork is free starts to eat, and   *)
(* is woken up if it waits; who stays hungry has another neighbour that    *)
(* eats.                                                                   *)
LEMMA ReturnStep ==
  ASSUME IInv, NEW p \in Philosophers, ReturnForks(p) PROVE IInv'
<1> DEFINE l == left_neighbor(p)
           r == right_neighbor(p)
           s == PhilosopherState
           u == PhilosopherState'
<1>1. TypeOK'
  BY TypeStep DEF IInv, Philosopher_thread_func
<1>2. /\ s \in [Philosophers -> States] /\ eating_count[p] \in {0, 1}
      /\ s[p] = "EATING" /\ s[l] # "EATING" /\ s[r] # "EATING"
  BY DEF IInv, TypeOK, States, ReturnForks, NeighborsNotEating
<1>3. /\ u[p] = "THINKING"
      /\ \A q \in Philosophers \ {p, l, r} : u[q] = s[q]
      /\ u[l] = IF s[left_neighbor(l)] # "EATING" /\ s[l] = "HUNGRY"
                THEN "EATING" ELSE s[l]
      /\ u[r] = IF s[right_neighbor(r)] # "EATING" /\ s[r] = "HUNGRY"
                THEN "EATING" ELSE s[r]
  BY <1>2, ReturnedStates DEF ReturnForks
<1>4. \A q \in Philosophers :
        pc'[q] = IF q = p THEN "think"
                 ELSE IF /\ u[q] = "EATING" /\ s[q] # "EATING"
                         /\ pc[q] = "waiting"
                 THEN "woken" ELSE pc[q]
  BY DEF ReturnForks, Signal
<1>5. \A q \in Philosophers :
        /\ s[q] = "EATING" =>
             s[left_neighbor(q)] # "EATING" /\ s[right_neighbor(q)] # "EATING"
        /\ s[q] = "HUNGRY" =>
             s[left_neighbor(q)] = "EATING" \/ s[right_neighbor(q)] = "EATING"
  BY DEF IInv, NeighborsNotEating
<1>6. ASSUME NEW q \in Philosophers
      PROVE  /\ u[q] = "EATING" =>
                  u[left_neighbor(q)] # "EATING" /\ u[right_neighbor(q)] # "EATING"
             /\ u[q] = "HUNGRY" =>
                  u[left_neighbor(q)] = "EATING" \/ u[right_neighbor(q)] = "EATING"
  <2> HIDE DEF s, u
  <2>1. CASE q = p
    BY <1>3, <2>1
  <2>2. CASE q = l
    <3>1. /\ right_neighbor(l) = p
          /\ left_neighbor(l) \in Philosophers \ {p, l, r}
      BY Ring
    <3> QED BY <1>2, <1>3, <1>5, <2>2, <3>1, Ring
  <2>3. CASE q = r
    <3>1. /\ left_neighbor(r) = p
          /\ right_neighbor(r) \in Philosophers \ {p, l, r}
      BY Ring
    <3> QED BY <1>2, <1>3, <1>5, <2>3, <3>1, Ring
  <2>4. CASE q \notin {p, l, r}
    <3>1. /\ left_neighbor(q) \in Philosophers \ {p}
          /\ right_neighbor(q) \in Philosophers \ {p}
      BY <2>4, Ring, Mutual
    <3>2. \A m \in Philosophers \ {p} : s[m] = "EATING" => u[m] = "EATING"
      BY <1>3, Ring
    <3>3. u[q] = s[q]
      BY <1>3, <2>4
    <3>4. ASSUME NEW m \in {left_neighbor(q), right_neighbor(q)},
                 s[q] = "EATING"
          PROVE  u[m] # "EATING"
      <4>1. s[m] # "EATING" /\ m \in Philosophers \ {p}
        BY <1>5, <3>1, <3>4
      <4>2. m = l => q = left_neighbor(l)
        BY <2>4, <3>4, Ring, Mutual
      <4>3. m = r => q = right_neighbor(r)
        BY <2>4, <3>4, Ring, Mutual
      <4> QED BY <1>3, <3>4, <4>1, <4>2, <4>3
    <3> QED BY <1>5, <3>1, <3>2, <3>3, <3>4
  <2> QED BY <2>1, <2>2, <2>3, <2>4
<1>7. ASSUME NEW q \in Philosophers
      PROVE  /\ pc'[q] \in {"new", "think", "pickup"} <=> u[q] = "THINKING"
             /\ pc'[q] = "waiting" => u[q] = "HUNGRY"
             /\ pc'[q] \in {"eat", "return"} => u[q] = "EATING"
  <2>1. q # p => u[q] = s[q] \/ (s[q] = "HUNGRY" /\ u[q] = "EATING")
    BY <1>3
  <2> QED BY <1>3, <1>4, <2>1 DEF IInv
<1> QED BY <1>1, <1>6, <1>7 DEF IInv, NeighborsNotEating

(* The inductive invariant of the table holds. *)
THEOREM IInvInvariant == Spec => []IInv
<1>1. Init => IInv
  BY DEF Init, IInv, TypeOK, None, Philosophers, NUM_PHILOSOPHERS
<1>2. IInv /\ [Next]_vars => IInv'
  <2> SUFFICES ASSUME IInv, [Next]_vars PROVE IInv'
    OBVIOUS
  <2>1. ASSUME NEW p \in Philosophers,
               Create(p) \/ Philosopher_thread_func(p) \/ SpuriousWakeup(p)
        PROVE  IInv'
    BY <2>1, QuietStep, PickupStep, ReturnStep DEF Philosopher_thread_func
  <2>2. CASE UNCHANGED vars
    BY <2>2 DEF vars, IInv, TypeOK, NeighborsNotEating
  <2> QED BY <2>1, <2>2 DEF Next
<1> QED BY <1>1, <1>2, PTL DEF Spec

(* The assertions of pickup_forks and around eating, made with and without *)
(* the mutex, never fail: who got its forks has them until it returns them. *)
THEOREM EatingSafety == Spec => []ForksExclusive
<1>1. IInv => ForksExclusive
  BY DEF IInv, ForksExclusive
<1> QED BY IInvInvariant, <1>1, PTL

(* A philosopher that a neighbour let eat is never left waiting on its     *)
(* condition variable.                                                     *)
THEOREM SignalSafety == Spec => []NoLostSignal
<1>1. IInv => NoLostSignal
  BY DEF IInv, NoLostSignal
<1> QED BY IInvInvariant, <1>1, PTL

(* A hungry philosopher always has a neighbour that eats: test() is called *)
(* for everybody whose forks become free.                                  *)
THEOREM NoIdleForks == Spec => []HungryOnlyIfBlocked
<1>1. IInv => HungryOnlyIfBlocked
  BY DEF IInv, HungryOnlyIfBlocked
<1> QED BY IInvInvariant, <1>1, PTL

(* In every reachable state the parity that selects the order of the tests *)
(* of return_forks has no effect, so it cannot prevent starvation.         *)
THEOREM ParityHasNoEffect == Spec => []TestOrderIrrelevant
<1>1. IInv => TestOrderIrrelevant
  BY OrderIrrelevant DEF IInv
<1> QED BY IInvInvariant, <1>1, PTL

-----------------------------------------------------------------------------
(* The shared memory producers and consumers *)

(* The messages end somewhere, and Length is the last of these places. *)
LEMMA LengthIsLast ==
  H!Length \in Ends /\ H!Length \in Nat \ {0} /\ \A e \in Ends : e \in Nat /\ e <= H!Length
BY Zenon, SharedMemoryAssumption DEF H!Length

(* An assignment to one segment changes that one. *)
LEMMA SegmentAssigned ==
  ASSUME NEW s \in Seq(H!Segment), NEW n \in 1 .. Len(s), NEW v \in H!Segment
  PROVE  /\ [s EXCEPT ![n] = v] \in Seq(H!Segment)
         /\ Len([s EXCEPT ![n] = v]) = Len(s)
         /\ [s EXCEPT ![n] = v][n] = v
         /\ \A m \in 1 .. Len(s) : m # n => [s EXCEPT ![n] = v][m] = s[m]
BY SMTT(30)

(* What the producer's steps do, segment by segment. *)
LEMMA TruncateEffect ==
  ASSUME H!IInv, NEW p \in Producers, H!Truncate(p)
  PROVE  LET n == shm_fd[p] IN
         /\ n \in 1 .. Len(segments)
         /\ segments' \in Seq(H!Segment) /\ Len(segments') = Len(segments)
         /\ \A m \in 1 .. Len(segments) : m # n => segments'[m] = segments[m]
         /\ segments'[n].sized /\ segments'[n].text = segments[n].text
         /\ shm_pc[p] = "truncate" /\ shm_pc' = [shm_pc EXCEPT ![p] = "write"]
         /\ UNCHANGED <<shm_name, shm_fd, shm_ptr, undisturbed, removed>>
<1> DEFINE n == shm_fd[p]
           v == [segments[n] EXCEPT !.sized = TRUE]
<1>1. n \in 1 .. Len(segments) /\ segments \in Seq(H!Segment)
  BY DEF H!IInv, H!TypeOK, H!ProducersInStep, H!ProducerInStep, H!Truncate,
     H!Goto, H!None, H!Processes
<1>2. segments[n] \in H!Segment
  BY <1>1
<1>3. v \in H!Segment /\ v.sized /\ v.text = segments[n].text
  BY Zenon, <1>2 DEF H!Segment
<1>4. segments' = [segments EXCEPT ![n] = v]
  BY DEF H!Truncate
<1>5. /\ shm_pc[p] = "truncate" /\ shm_pc' = [shm_pc EXCEPT ![p] = "write"]
      /\ UNCHANGED <<shm_name, shm_fd, shm_ptr, undisturbed, removed>>
  BY SMTT(30) DEF H!Truncate, H!Goto
<1> HIDE DEF n, v
<1> QED BY SMTT(30), <1>1, <1>3, <1>4, <1>5, SegmentAssigned DEF n

LEMMA WriteCharEffect ==
  ASSUME H!IInv, NEW p \in Producers, H!WriteChar(p)
  PROVE  LET n == shm_fd[p] IN
         /\ n \in 1 .. Len(segments) /\ shm_ptr[p] \in 1 .. H!Length
         /\ segments' \in Seq(H!Segment) /\ Len(segments') = Len(segments)
         /\ \A m \in 1 .. Len(segments) : m # n => segments'[m] = segments[m]
         /\ segments'[n].sized = segments[n].sized
         /\ segments'[n].text = [segments[n].text EXCEPT ![shm_ptr[p]] = TRUE]
         /\ shm_pc[p] = "write"
         /\ shm_pc' = [shm_pc EXCEPT ![p] =
                         IF shm_ptr[p] \in Ends THEN "terminate" ELSE "write"]
         /\ shm_ptr' = [shm_ptr EXCEPT ![p] = shm_ptr[p] + 1]
         /\ UNCHANGED <<shm_name, shm_fd, undisturbed, removed>>
<1> DEFINE n == shm_fd[p]
           v == [segments[n] EXCEPT !.text[shm_ptr[p]] = TRUE]
<1>1. n \in 1 .. Len(segments) /\ segments \in Seq(H!Segment)
  BY DEF H!IInv, H!TypeOK, H!ProducersInStep, H!ProducerInStep, H!WriteChar,
     H!Goto, H!None, H!Processes
<1>2. segments[n] \in H!Segment
  BY <1>1
<1>3. /\ v \in H!Segment /\ v.sized = segments[n].sized
      /\ v.text = [segments[n].text EXCEPT ![shm_ptr[p]] = TRUE]
  BY Zenon, <1>2 DEF H!Segment
<1>4. segments' = [segments EXCEPT ![n] = v]
  BY DEF H!WriteChar
<1>5. shm_ptr[p] \in 1 .. H!Length
  BY LengthIsLast DEF H!IInv, H!TypeOK, H!ProducersInStep, H!ProducerInStep,
     H!WriteChar, H!Goto, H!Processes, H!Places
<1>6. /\ shm_pc[p] = "write"
      /\ shm_pc' = [shm_pc EXCEPT ![p] =
                      IF shm_ptr[p] \in Ends THEN "terminate" ELSE "write"]
      /\ shm_ptr' = [shm_ptr EXCEPT ![p] = shm_ptr[p] + 1]
      /\ UNCHANGED <<shm_name, shm_fd, undisturbed, removed>>
  BY Zenon DEF H!WriteChar, H!Goto
<1> HIDE DEF n, v
<1> QED BY SMTT(30), <1>1, <1>3, <1>4, <1>5, <1>6, SegmentAssigned DEF n

LEMMA WriteNulEffect ==
  ASSUME H!IInv, NEW p \in Producers, H!WriteNul(p)
  PROVE  LET n == shm_fd[p] IN
         /\ n \in 1 .. Len(segments) /\ shm_ptr[p] \in 2 .. (H!Length + 1)
         /\ segments' \in Seq(H!Segment) /\ Len(segments') = Len(segments)
         /\ \A m \in 1 .. Len(segments) : m # n => segments'[m] = segments[m]
         /\ segments'[n].sized = segments[n].sized
         /\ segments'[n].text = [segments[n].text EXCEPT ![shm_ptr[p]] = FALSE]
         /\ shm_pc[p] = "terminate"
         /\ shm_pc' = [shm_pc EXCEPT ![p] =
                         IF shm_ptr[p] > H!Length THEN "done" ELSE "write"]
         /\ UNCHANGED <<shm_name, shm_fd, shm_ptr, undisturbed, removed>>
<1> DEFINE n == shm_fd[p]
           v == [segments[n] EXCEPT !.text[shm_ptr[p]] = FALSE]
<1>1. n \in 1 .. Len(segments) /\ segments \in Seq(H!Segment)
  BY DEF H!IInv, H!TypeOK, H!ProducersInStep, H!ProducerInStep, H!WriteNul,
     H!Goto, H!None, H!Processes
<1>2. segments[n] \in H!Segment
  BY <1>1
<1>3. /\ v \in H!Segment /\ v.sized = segments[n].sized
      /\ v.text = [segments[n].text EXCEPT ![shm_ptr[p]] = FALSE]
  BY Zenon, <1>2 DEF H!Segment
<1>4. segments' = [segments EXCEPT ![n] = v]
  BY DEF H!WriteNul
<1>5. shm_ptr[p] \in 2 .. (H!Length + 1)
  BY LengthIsLast DEF H!IInv, H!TypeOK, H!ProducersInStep, H!ProducerInStep,
     H!WriteNul, H!Goto, H!Processes, H!Places
<1>6. /\ shm_pc[p] = "terminate"
      /\ shm_pc' = [shm_pc EXCEPT ![p] =
                      IF shm_ptr[p] > H!Length THEN "done" ELSE "write"]
      /\ UNCHANGED <<shm_name, shm_fd, shm_ptr, undisturbed, removed>>
  BY Zenon DEF H!WriteNul, H!Goto
<1> HIDE DEF n, v
<1> QED BY SMTT(30), <1>1, <1>3, <1>4, <1>5, <1>6, SegmentAssigned DEF n

LEMMA CreateEffect ==
  ASSUME H!IInv, NEW p \in Producers, H!Create(p)
  PROVE  /\ segments' \in Seq(H!Segment)
         /\ Len(segments') = Len(segments) + (IF shm_name = H!None THEN 1 ELSE 0)
         /\ \A m \in 1 .. Len(segments) : segments'[m] = segments[m]
         /\ shm_name' \in 1 .. Len(segments')
         /\ shm_name = H!None =>
              /\ shm_name' = Len(segments')
              /\ ~segments'[shm_name'].text[H!Length + 1]
         /\ shm_name # H!None => shm_name' = shm_name
         /\ shm_pc[p] = "open" /\ shm_pc' = [shm_pc EXCEPT ![p] = "truncate"]
         /\ shm_fd' = [shm_fd EXCEPT ![p] = shm_name']
         /\ undisturbed' = {c \in undisturbed : shm_fd[c] # shm_name'}
         /\ UNCHANGED <<shm_ptr, removed>>
<1>1. segments \in Seq(H!Segment) /\ shm_name \in 0 .. Len(segments)
  BY DEF H!IInv, H!TypeOK
<1> DEFINE v == [sized |-> FALSE, text |-> [k \in H!Places |-> FALSE]]
<1>2. v \in H!Segment /\ ~v.text[H!Length + 1]
  BY SMTT(30), LengthIsLast DEF H!Segment, H!Places
<1>3. /\ segments' \in Seq(H!Segment)
      /\ Len(segments') = Len(segments) + (IF shm_name = H!None THEN 1 ELSE 0)
      /\ \A m \in 1 .. Len(segments) : segments'[m] = segments[m]
      /\ shm_name' \in 1 .. Len(segments')
      /\ shm_name = H!None =>
           /\ shm_name' = Len(segments')
           /\ ~segments'[shm_name'].text[H!Length + 1]
      /\ shm_name # H!None => shm_name' = shm_name
  <2>1. CASE shm_name = H!None
    <3>1. segments' = Append(segments, v) /\ shm_name' = Len(segments')
      BY SMTT(30), <2>1 DEF H!Create
    <3> HIDE DEF v
    <3> QED BY SMTT(30), <1>1, <1>2, <2>1, <3>1
  <2>2. CASE shm_name # H!None
    BY <1>1, <2>2 DEF H!Create, H!None
  <2> QED BY SMTT(30), <2>1, <2>2
<1>4. /\ shm_pc[p] = "open" /\ shm_pc' = [shm_pc EXCEPT ![p] = "truncate"]
      /\ shm_fd' = [shm_fd EXCEPT ![p] = shm_name']
      /\ undisturbed' = {c \in undisturbed : shm_fd[c] # shm_name'}
      /\ UNCHANGED <<shm_ptr, removed>>
  BY Zenon DEF H!Create, H!Goto
<1> QED BY <1>3, <1>4

(* A consumer leaves the producers and the segments alone. *)
LEMMA ConsumerEffect ==
  ASSUME H!IInv, NEW c \in Consumers, H!Consumer(c)
  PROVE  /\ UNCHANGED segments
         /\ \A p \in H!Processes \ {c} :
              /\ shm_pc'[p] = shm_pc[p] /\ shm_fd'[p] = shm_fd[p]
              /\ shm_ptr'[p] = shm_ptr[p]
         /\ \A p \in Producers :
              /\ shm_pc'[p] = shm_pc[p] /\ shm_fd'[p] = shm_fd[p]
              /\ shm_ptr'[p] = shm_ptr[p]
<1>1. \A p \in Producers : p # c
  BY Zenon, SharedMemoryAssumption
<1>2. /\ UNCHANGED segments
      /\ \A p \in H!Processes \ {c} :
           /\ shm_pc'[p] = shm_pc[p] /\ shm_fd'[p] = shm_fd[p]
           /\ shm_ptr'[p] = shm_ptr[p]
  BY DEF H!IInv, H!TypeOK, H!Consumer, H!Open, H!ConsumerFails, H!ReadChar,
     H!Unlink, H!Goto
<1> QED BY Zenon, <1>1, <1>2 DEF H!Processes

(* A step of a producer or a consumer keeps the types. *)
LEMMA SharedMemoryType ==
  ASSUME H!IInv, H!Next
  PROVE  H!TypeOK'
<1> USE DEF H!IInv, H!TypeOK, H!Processes, H!Goto
<1>0. Len(segments) \in Nat /\ 1 \in H!Places
  BY LengthIsLast DEF H!Places
<1>1. ASSUME NEW p \in Producers, H!Create(p) PROVE H!TypeOK'
  <2>1. /\ segments' \in Seq(H!Segment) /\ Len(segments') \in Nat
        /\ Len(segments) <= Len(segments') /\ shm_name' \in 0 .. Len(segments')
    BY SMTT(30), <1>0, <1>1, CreateEffect
  <2>2. 0 .. Len(segments) \subseteq 0 .. Len(segments')
    BY SMTT(30), <1>0, <2>1
  <2>3. shm_fd' = [shm_fd EXCEPT ![p] = shm_name'] /\ UNCHANGED <<shm_ptr, removed>>
    BY SMTT(30), <1>1, CreateEffect
  <2>4. /\ shm_fd' \in [H!Processes -> 0 .. Len(segments')]
        /\ removed' \in [Consumers -> 0 .. Len(segments')]
    BY SMTT(30), <2>1, <2>2, <2>3
  <2>5. shm_pc' = [shm_pc EXCEPT ![p] = "truncate"] /\ undisturbed' \subseteq undisturbed
    BY <1>1, CreateEffect
  <2> QED BY SMTT(30), <2>1, <2>3, <2>4, <2>5
<1>2. ASSUME NEW p \in Producers, H!Truncate(p) PROVE H!TypeOK'
  BY Zenon, <1>0, <1>2, TruncateEffect
<1>3. ASSUME NEW p \in Producers, H!ProducerFails(p) PROVE H!TypeOK'
  BY SMTT(30), <1>3 DEF H!ProducerFails
<1>4. ASSUME NEW p \in Producers, H!WriteChar(p) PROVE H!TypeOK'
  <2>1. /\ segments' \in Seq(H!Segment) /\ Len(segments') = Len(segments)
        /\ shm_ptr[p] \in 1 .. H!Length
    BY Zenon, <1>4, WriteCharEffect
  <2>2. shm_ptr[p] + 1 \in H!Places
    BY <2>1, LengthIsLast DEF H!Places
  <2>3. shm_ptr' \in [H!Processes -> H!Places]
    BY ZenonT(40), <1>4, <2>2, WriteCharEffect
  <2>4. shm_pc' \in [H!Processes -> {"open", "truncate", "write", "terminate",
                                  "print", "unlink", "done", "failed"}]
    BY Zenon, <1>4, WriteCharEffect
  <2>5. UNCHANGED <<shm_name, shm_fd, undisturbed, removed>>
    BY Zenon, <1>4, WriteCharEffect
  <2> QED BY SMTT(30), <2>1, <2>3, <2>4, <2>5
<1>5. ASSUME NEW p \in Producers, H!WriteNul(p) PROVE H!TypeOK'
  BY Zenon, <1>0, <1>5, WriteNulEffect
<1>6. ASSUME NEW c \in Consumers, H!Open(c) PROVE H!TypeOK'
  BY <1>6 DEF H!Open
<1>7. ASSUME NEW c \in Consumers, H!ConsumerFails(c) PROVE H!TypeOK'
  BY SMTT(30), <1>7 DEF H!ConsumerFails
<1>8. ASSUME NEW c \in Consumers, H!ReadChar(c) PROVE H!TypeOK'
  <2>1. shm_fd[c] \in 1 .. Len(segments)
    BY SMTT(30), <1>0, <1>8 DEF H!ReadChar, H!ConsumersInStep, H!None
  <2>2. ~segments[shm_fd[c]].text[H!Length + 1]
    BY <2>1 DEF H!TextWritten
  <2>3. CASE segments[shm_fd[c]].text[shm_ptr[c]]
    <3>1. shm_ptr[c] + 1 \in H!Places
      BY SMTT(30), <2>2, <2>3, LengthIsLast DEF H!Places
    <3> QED BY Zenon, <1>8, <3>1 DEF H!ReadChar
  <2>4. CASE ~segments[shm_fd[c]].text[shm_ptr[c]]
    BY Zenon, <1>8, <2>4 DEF H!ReadChar
  <2> QED BY SMTT(30), <2>3, <2>4
<1>9. ASSUME NEW c \in Consumers, H!Unlink(c) PROVE H!TypeOK'
  BY SMTT(30), <1>0, <1>9 DEF H!Unlink, H!None
<1> HIDE DEF H!IInv, H!TypeOK, H!Processes, H!Goto
<1> QED BY SMTT(30), <1>1, <1>2, <1>3, <1>4, <1>5, <1>6, <1>7, <1>8, <1>9
        DEF H!Next, H!Producer, H!Consumer

(* A step keeps the producers where their descriptor and pointer say. *)
LEMMA SharedMemoryProducers ==
  ASSUME H!IInv, H!Next
  PROVE  H!ProducersInStep'
<1> SUFFICES ASSUME NEW r \in Producers PROVE H!ProducerInStep(r)'
  BY DEF H!ProducersInStep
<1>0. /\ Len(segments) \in Nat /\ shm_fd[r] \in 0 .. Len(segments)
      /\ H!ProducerInStep(r) /\ r \in H!Processes
  BY DEF H!IInv, H!TypeOK, H!Processes, H!ProducersInStep
<1>1. ASSUME NEW p \in Producers, H!Create(p) PROVE H!ProducerInStep(r)'
  <2>1. CASE r = p
    BY SMTT(30), <1>0, <1>1, <2>1, CreateEffect DEF H!ProducerInStep, H!None,
        H!IInv,
       H!TypeOK
  <2>2. CASE r # p
    <3>1. /\ shm_pc'[r] = shm_pc[r] /\ shm_fd'[r] = shm_fd[r]
          /\ shm_ptr'[r] = shm_ptr[r]
      BY SMTT(30), <1>0, <1>1, <2>2, CreateEffect DEF H!IInv, H!TypeOK
    <3>2. \A m \in 1 .. Len(segments) : segments'[m] = segments[m]
      BY SMTT(30), <1>1, CreateEffect
    <3> QED BY SMTT(30), <1>0, <3>1, <3>2 DEF H!ProducerInStep, H!None
  <2> QED BY SMTT(30), <2>1, <2>2
<1>2. ASSUME NEW p \in Producers, H!Truncate(p) PROVE H!ProducerInStep(r)'
  <2>1. CASE r = p
    BY SMTT(30), <1>0, <1>2, <2>1, TruncateEffect, LengthIsLast
       DEF H!ProducerInStep, H!IInv, H!TypeOK
  <2>2. CASE r # p
    <3>1. /\ shm_pc'[r] = shm_pc[r] /\ shm_fd'[r] = shm_fd[r]
          /\ shm_ptr'[r] = shm_ptr[r]
      BY SMTT(30), <1>0, <1>2, <2>2, TruncateEffect DEF H!IInv, H!TypeOK
    <3>2. \A m \in 1 .. Len(segments) : segments[m].sized => segments'[m].sized
      BY SMTT(30), <1>2, TruncateEffect
    <3> QED BY SMTT(30), <1>0, <3>1, <3>2 DEF H!ProducerInStep, H!None
  <2> QED BY <2>1, <2>2
<1>3. ASSUME NEW p \in Producers, H!ProducerFails(p) PROVE H!ProducerInStep(r)'
  BY SMTT(30), <1>0, <1>3 DEF H!ProducerFails, H!ProducerInStep, H!IInv,
      H!TypeOK
<1>4. ASSUME NEW p \in Producers, H!WriteChar(p) PROVE H!ProducerInStep(r)'
  <2>1. CASE r = p
    <3>1. /\ shm_pc[r] = "write" /\ shm_fd'[r] = shm_fd[r]
          /\ shm_pc'[r] = IF shm_ptr[r] \in Ends THEN "terminate" ELSE "write"
          /\ shm_ptr'[r] = shm_ptr[r] + 1 /\ shm_ptr[r] \in 1 .. H!Length
      BY ZenonT(40), <1>0, <1>4, <2>1, WriteCharEffect DEF H!IInv, H!TypeOK
    <3>2. segments'[shm_fd[r]].sized = segments[shm_fd[r]].sized
      BY Zenon, <1>4, <2>1, WriteCharEffect
    <3> QED BY SMTT(30), <1>0, <3>1, <3>2, LengthIsLast DEF H!ProducerInStep
  <2>2. CASE r # p
    <3>1. /\ shm_pc'[r] = shm_pc[r] /\ shm_fd'[r] = shm_fd[r]
          /\ shm_ptr'[r] = shm_ptr[r]
      <4>1. /\ UNCHANGED shm_fd /\ shm_ptr' = [shm_ptr EXCEPT ![p] = shm_ptr[p] + 1]
            /\ shm_pc' = [shm_pc EXCEPT ![p] =
                            IF shm_ptr[p] \in Ends THEN "terminate" ELSE "write"]
        BY Zenon, <1>4, WriteCharEffect
      <4> QED BY SMTT(30), <1>0, <2>2, <4>1 DEF H!IInv, H!TypeOK
    <3>2. \A m \in 1 .. Len(segments) : segments[m].sized => segments'[m].sized
      BY Zenon, <1>4, WriteCharEffect
    <3> QED BY <1>0, <3>1, <3>2 DEF H!ProducerInStep, H!None
  <2> QED BY <2>1, <2>2
<1>5. ASSUME NEW p \in Producers, H!WriteNul(p) PROVE H!ProducerInStep(r)'
  <2>1. CASE r = p
    <3>1. /\ shm_pc[r] = "terminate" /\ shm_fd'[r] = shm_fd[r]
          /\ shm_pc'[r] = IF shm_ptr[r] > H!Length THEN "done" ELSE "write"
          /\ shm_ptr'[r] = shm_ptr[r] /\ shm_ptr[r] \in 2 .. (H!Length + 1)
      BY ZenonT(40), <1>0, <1>5, <2>1, WriteNulEffect DEF H!IInv, H!TypeOK
    <3>2. segments'[shm_fd[r]].sized = segments[shm_fd[r]].sized
      BY Zenon, <1>5, <2>1, WriteNulEffect
    <3> QED BY SMTT(30), <1>0, <3>1, <3>2, LengthIsLast DEF H!ProducerInStep
  <2>2. CASE r # p
    <3>1. /\ shm_pc'[r] = shm_pc[r] /\ shm_fd'[r] = shm_fd[r]
          /\ shm_ptr'[r] = shm_ptr[r]
      BY ZenonT(40), <1>0, <1>5, <2>2, WriteNulEffect DEF H!IInv, H!TypeOK
    <3>2. \A m \in 1 .. Len(segments) : segments[m].sized => segments'[m].sized
      BY Zenon, <1>5, WriteNulEffect
    <3> QED BY <1>0, <3>1, <3>2 DEF H!ProducerInStep, H!None
  <2> QED BY <2>1, <2>2
<1>6. ASSUME NEW c \in Consumers, H!Consumer(c) PROVE H!ProducerInStep(r)'
  BY SMTT(30), <1>0, <1>6, ConsumerEffect DEF H!ProducerInStep
<1> QED BY SMTT(30), <1>1, <1>2, <1>3, <1>4, <1>5, <1>6 DEF H!Next, H!Producer

(* A producer leaves the other processes alone, and removes no name. *)
LEMMA ProducerEffect ==
  ASSUME H!IInv, NEW p \in Producers, H!Producer(p)
  PROVE  /\ \A r \in H!Processes \ {p} :
              /\ shm_pc'[r] = shm_pc[r] /\ shm_fd'[r] = shm_fd[r]
              /\ shm_ptr'[r] = shm_ptr[r]
         /\ \A r \in Consumers :
              /\ shm_pc'[r] = shm_pc[r] /\ shm_fd'[r] = shm_fd[r]
              /\ shm_ptr'[r] = shm_ptr[r]
         /\ UNCHANGED removed /\ undisturbed' \subseteq undisturbed
<1>1. \A r \in Consumers : r # p
  BY Zenon, SharedMemoryAssumption
<1>2. /\ \A r \in H!Processes \ {p} :
           /\ shm_pc'[r] = shm_pc[r] /\ shm_fd'[r] = shm_fd[r]
           /\ shm_ptr'[r] = shm_ptr[r]
      /\ UNCHANGED removed /\ undisturbed' \subseteq undisturbed
  <2> USE DEF H!IInv, H!TypeOK
  <2>1. CASE H!Create(p)
    BY SMTT(30), <2>1, CreateEffect
  <2>2. CASE H!Truncate(p)
    BY SMTT(30), <2>2 DEF H!Truncate, H!Goto
  <2>3. CASE H!ProducerFails(p)
    BY SMTT(30), <2>3 DEF H!ProducerFails
  <2>4. CASE H!WriteChar(p)
    BY SMTT(30), <2>4 DEF H!WriteChar, H!Goto
  <2>5. CASE H!WriteNul(p)
    BY <2>5 DEF H!WriteNul, H!Goto
  <2> QED BY SMTT(30), <2>1, <2>2, <2>3, <2>4, <2>5 DEF H!Producer
<1> QED BY Zenon, <1>1, <1>2 DEF H!Processes

(* A step keeps the consumers where their descriptor says. *)
LEMMA SharedMemoryConsumers ==
  ASSUME H!IInv, H!Next
  PROVE  H!ConsumersInStep'
<1> USE DEF H!IInv, H!TypeOK, H!ConsumersInStep, H!Goto
<1>1. ASSUME NEW p \in Producers, H!Producer(p) PROVE H!ConsumersInStep'
  BY SMTT(30), <1>1, ProducerEffect
<1>2. ASSUME NEW c \in Consumers, H!Open(c) PROVE H!ConsumersInStep'
  BY SMTT(30), <1>2 DEF H!Open, H!Processes
<1>3. ASSUME NEW c \in Consumers, H!ConsumerFails(c) PROVE H!ConsumersInStep'
  BY SMTT(30), <1>3 DEF H!ConsumerFails, H!Processes
<1>4. ASSUME NEW c \in Consumers, H!ReadChar(c) PROVE H!ConsumersInStep'
  BY SMTT(30), <1>4 DEF H!ReadChar, H!Processes
<1>5. ASSUME NEW c \in Consumers, H!Unlink(c) PROVE H!ConsumersInStep'
  BY <1>5 DEF H!Unlink, H!Processes
<1> HIDE DEF H!IInv, H!TypeOK, H!ConsumersInStep, H!Goto
<1> QED BY SMTT(30), <1>1, <1>2, <1>3, <1>4, <1>5 DEF H!Next, H!Consumer

(* A step gives every segment a name or has it removed. *)
LEMMA SharedMemoryNames ==
  ASSUME H!IInv, H!Next
  PROVE  H!NamedOrRemoved'
<1>0. /\ Len(segments) \in Nat /\ shm_name \in 0 .. Len(segments)
      /\ removed \in [Consumers -> 0 .. Len(segments)] /\ H!NamedOrRemoved
  BY DEF H!IInv, H!TypeOK
<1>1. ASSUME NEW p \in Producers, H!Create(p) PROVE H!NamedOrRemoved'
  <2>1. /\ Len(segments') = Len(segments) + (IF shm_name = H!None THEN 1 ELSE 0)
        /\ shm_name = H!None => shm_name' = Len(segments')
        /\ shm_name # H!None => shm_name' = shm_name
        /\ UNCHANGED removed
    BY Zenon, <1>1, CreateEffect
  <2> QED BY SMTT(30), <1>0, <2>1 DEF H!NamedOrRemoved, H!None
<1>2. ASSUME NEW p \in Producers,
             H!Truncate(p) \/ H!ProducerFails(p) \/ H!WriteChar(p) \/ H!WriteNul(p)
      PROVE  H!NamedOrRemoved'
  <2>1. Len(segments') = Len(segments) /\ UNCHANGED <<shm_name, removed>>
    <3>1. CASE H!Truncate(p)
      BY <3>1, TruncateEffect
    <3>2. CASE H!ProducerFails(p)
      BY <3>2 DEF H!ProducerFails
    <3>3. CASE H!WriteChar(p)
      BY Zenon, <3>3, WriteCharEffect
    <3>4. CASE H!WriteNul(p)
      BY Zenon, <3>4, WriteNulEffect
    <3> QED BY <1>2, <3>1, <3>2, <3>3, <3>4
  <2> QED BY <1>0, <2>1 DEF H!NamedOrRemoved
<1>3. ASSUME NEW c \in Consumers,
             H!Open(c) \/ H!ConsumerFails(c) \/ H!ReadChar(c)
      PROVE  H!NamedOrRemoved'
  BY SMTT(30), <1>0, <1>3 DEF H!NamedOrRemoved, H!Open, H!ConsumerFails,
      H!ReadChar
<1>4. ASSUME NEW c \in Consumers, H!Unlink(c) PROVE H!NamedOrRemoved'
  <2>1. removed[c] = H!None
    BY <1>4 DEF H!Unlink, H!Goto, H!IInv, H!ConsumersInStep
  <2> QED BY SMTT(30), <1>0, <1>4, <2>1 DEF H!NamedOrRemoved, H!Unlink, H!None
<1> QED BY SMTT(30), <1>1, <1>2, <1>3, <1>4 DEF H!Next, H!Producer, H!Consumer

(* A step keeps what the producers have written. *)
LEMMA SharedMemoryText ==
  ASSUME H!IInv, H!Next
  PROVE  H!TextWritten'
<1>0. /\ Len(segments) \in Nat /\ H!TextWritten
      /\ \A r \in Producers : /\ shm_fd[r] \in 0 .. Len(segments)
                              /\ shm_ptr[r] \in Int /\ H!ProducerInStep(r)
  BY SMTT(30), LengthIsLast DEF H!IInv, H!TypeOK, H!ProducersInStep,
      H!Processes, H!Places
<1>1. ASSUME NEW p \in Producers, H!Create(p) PROVE H!TextWritten'
  <2>1. \A r \in Producers \ {p} :
          /\ shm_pc'[r] = shm_pc[r] /\ shm_fd'[r] = shm_fd[r]
          /\ shm_ptr'[r] = shm_ptr[r]
    BY Zenon, <1>1, ProducerEffect DEF H!Producer, H!Processes
  <2>2. shm_pc[p] = "open" /\ shm_ptr[p] = 1 /\ UNCHANGED shm_ptr
    BY SMTT(30), <1>0, <1>1, CreateEffect DEF H!ProducerInStep
  <2>3. ASSUME NEW n \in 1 .. Len(segments)
        PROVE  /\ ~segments'[n].text[H!Length + 1]
               /\ \A k \in 1 .. H!Length : \A r \in Producers :
                    shm_fd'[r] = n /\ shm_ptr'[r] > k =>
                      \/ segments'[n].text[k]
                      \/ k > 1 /\ \E q \in Producers :
                           shm_fd'[q] = n /\ shm_pc'[q] = "write" /\ shm_ptr'[q] = k
    <3>1. segments'[n] = segments[n]
      BY SMTT(30), <1>1, CreateEffect
    <3> QED BY SMTT(30), <1>0, <2>1, <2>2, <3>1 DEF H!TextWritten
  <2>4. ASSUME NEW n \in 1 .. Len(segments'), n \notin 1 .. Len(segments)
        PROVE  /\ ~segments'[n].text[H!Length + 1]
               /\ \A k \in 1 .. H!Length : \A r \in Producers :
                    ~(shm_fd'[r] = n /\ shm_ptr'[r] > k)
    <3>1. n = shm_name' /\ shm_name = H!None
      BY SMTT(30), <1>0, <1>1, <2>4, CreateEffect
    <3>2. ~segments'[n].text[H!Length + 1]
      BY SMTT(30), <1>1, <3>1, CreateEffect
    <3> QED BY SMTT(30), <1>0, <2>1, <2>2, <2>4, <3>2
  <2> QED BY <2>3, <2>4 DEF H!TextWritten
<1>2. ASSUME NEW p \in Producers, H!Truncate(p) PROVE H!TextWritten'
  <2>1. \A n \in 1 .. Len(segments) : segments'[n].text = segments[n].text
    BY SMTT(30), <1>2, TruncateEffect
  <2>2. /\ shm_pc[p] = "truncate" /\ UNCHANGED <<shm_fd, shm_ptr>>
        /\ Len(segments') = Len(segments)
    BY SMTT(30), <1>2, TruncateEffect
  <2>3. \A r \in Producers : shm_pc[r] = "write" => shm_pc'[r] = "write"
    BY SMTT(30), <1>2, <2>2, TruncateEffect DEF H!IInv, H!TypeOK, H!Processes
  <2> QED BY SMTT(30), <1>0, <2>1, <2>2, <2>3 DEF H!TextWritten
<1>3. ASSUME NEW p \in Producers, H!ProducerFails(p) PROVE H!TextWritten'
  <2>1. UNCHANGED <<segments, shm_fd, shm_ptr>> /\ shm_ptr[p] = 1
    BY <1>3 DEF H!ProducerFails
  <2>2. \A r \in Producers \ {p} : shm_pc'[r] = shm_pc[r]
    BY SMTT(30), <1>3 DEF H!ProducerFails, H!IInv, H!TypeOK, H!Processes
  <2> QED BY SMTT(30), <1>0, <2>1, <2>2 DEF H!TextWritten
<1>4. ASSUME NEW p \in Producers, H!WriteChar(p) PROVE H!TextWritten'
  <2>1. /\ UNCHANGED shm_fd /\ Len(segments') = Len(segments)
        /\ shm_ptr[p] \in 1 .. H!Length /\ shm_fd[p] \in 1 .. Len(segments)
        /\ shm_pc[p] = "write"
    BY Zenon, <1>4, WriteCharEffect
  <2>2. /\ shm_ptr'[p] = shm_ptr[p] + 1
        /\ \A r \in Producers \ {p} :
             shm_ptr'[r] = shm_ptr[r] /\ shm_pc'[r] = shm_pc[r]
    BY <1>4 DEF H!WriteChar, H!Goto, H!IInv, H!TypeOK, H!Processes
  <2>3. \A n \in 1 .. Len(segments) : \A k \in H!Places :
          segments'[n].text[k] = IF n = shm_fd[p] /\ k = shm_ptr[p] THEN TRUE
                                 ELSE segments[n].text[k]
    <3>1. \A m \in 1 .. Len(segments) : segments[m].text \in [H!Places -> BOOLEAN]
      <4>1. \A m \in 1 .. Len(segments) : segments[m] \in H!Segment
        BY DEF H!IInv, H!TypeOK
      <4> QED BY Zenon, <4>1 DEF H!Segment
    <3>2. /\ \A m \in 1 .. Len(segments) :
               m # shm_fd[p] => segments'[m] = segments[m]
          /\ segments'[shm_fd[p]].text =
               [segments[shm_fd[p]].text EXCEPT ![shm_ptr[p]] = TRUE]
      BY Zenon, <1>4, WriteCharEffect
    <3> QED BY Zenon, <2>1, <3>1, <3>2
  <2>4. H!Length + 1 \in H!Places /\ 1 .. H!Length \subseteq H!Places /\ H!Length \in Nat
    BY SMTT(30), LengthIsLast DEF H!Places
  <2>5. ASSUME NEW n \in 1 .. Len(segments), NEW k \in 1 .. H!Length,
               NEW r \in Producers, shm_fd[r] = n, shm_ptr'[r] > k
        PROVE  \/ segments'[n].text[k]
               \/ k > 1 /\ \E q \in Producers :
                    shm_fd[q] = n /\ shm_pc'[q] = "write" /\ shm_ptr'[q] = k
    <3>1. CASE n = shm_fd[p] /\ k = shm_ptr[p]
      BY Zenon, <2>3, <2>4, <3>1
    <3>2. CASE ~(n = shm_fd[p] /\ k = shm_ptr[p])
      <4>1. shm_ptr[r] > k
        BY SMTT(30), <1>0, <2>1, <2>2, <2>5, <3>2
      <4>2. \/ segments[n].text[k]
            \/ k > 1 /\ \E q \in Producers :
                 shm_fd[q] = n /\ shm_pc[q] = "write" /\ shm_ptr[q] = k
        BY SMTT(30), <1>0, <2>5, <4>1 DEF H!TextWritten
      <4> QED BY ZenonT(40), <2>2, <2>3, <2>4, <3>2, <4>2
    <3> QED BY <3>1, <3>2
  <2>6. ASSUME NEW n \in 1 .. Len(segments)
        PROVE  ~segments'[n].text[H!Length + 1]
    <3>1. H!Length + 1 # shm_ptr[p]
      BY <2>1, <2>4
    <3>2. segments'[n].text[H!Length + 1] = segments[n].text[H!Length + 1]
      BY Zenon, <2>3, <2>4, <3>1
    <3> QED BY SMTT(30), <1>0, <3>2 DEF H!TextWritten
  <2> QED BY SMTT(30), <2>1, <2>5, <2>6 DEF H!TextWritten
<1>5. ASSUME NEW p \in Producers, H!WriteNul(p) PROVE H!TextWritten'
  <2>1. /\ UNCHANGED shm_fd /\ Len(segments') = Len(segments)
        /\ shm_ptr[p] \in 2 .. (H!Length + 1) /\ shm_fd[p] \in 1 .. Len(segments)
        /\ shm_pc[p] = "terminate"
    BY Zenon, <1>5, WriteNulEffect
  <2>2. /\ UNCHANGED shm_ptr
        /\ shm_pc'[p] = IF shm_ptr[p] > H!Length THEN "done" ELSE "write"
        /\ \A r \in Producers \ {p} : shm_pc'[r] = shm_pc[r]
    BY <1>5 DEF H!WriteNul, H!Goto, H!IInv, H!TypeOK, H!Processes
  <2>3. \A n \in 1 .. Len(segments) : \A k \in H!Places :
          segments'[n].text[k] = IF n = shm_fd[p] /\ k = shm_ptr[p] THEN FALSE
                                 ELSE segments[n].text[k]
    <3>1. \A m \in 1 .. Len(segments) : segments[m].text \in [H!Places -> BOOLEAN]
      <4>1. \A m \in 1 .. Len(segments) : segments[m] \in H!Segment
        BY DEF H!IInv, H!TypeOK
      <4> QED BY Zenon, <4>1 DEF H!Segment
    <3>2. /\ \A m \in 1 .. Len(segments) :
               m # shm_fd[p] => segments'[m] = segments[m]
          /\ segments'[shm_fd[p]].text =
               [segments[shm_fd[p]].text EXCEPT ![shm_ptr[p]] = FALSE]
      BY Zenon, <1>5, WriteNulEffect
    <3> QED BY ZenonT(40), <2>1, <3>1, <3>2
  <2>4. H!Length + 1 \in H!Places /\ 1 .. H!Length \subseteq H!Places /\ H!Length \in Nat
    BY LengthIsLast DEF H!Places
  <2>5. ASSUME NEW n \in 1 .. Len(segments), NEW k \in 1 .. H!Length,
               NEW r \in Producers, shm_fd[r] = n, shm_ptr'[r] > k
        PROVE  \/ segments'[n].text[k]
               \/ k > 1 /\ \E q \in Producers :
                    shm_fd[q] = n /\ shm_pc'[q] = "write" /\ shm_ptr'[q] = k
    <3>1. CASE n = shm_fd[p] /\ k = shm_ptr[p]
      <4>1. k > 1 /\ shm_pc'[p] = "write" /\ shm_ptr'[p] = k /\ shm_fd[p] = n
        BY SMTT(30), <2>1, <2>2, <2>4, <3>1
      <4> QED BY SMTT(30), <4>1
    <3>2. CASE ~(n = shm_fd[p] /\ k = shm_ptr[p])
      <4>1. shm_ptr[r] > k
        BY SMTT(30), <2>2, <2>5
      <4>2. \/ segments[n].text[k]
            \/ k > 1 /\ \E q \in Producers :
                 shm_fd[q] = n /\ shm_pc[q] = "write" /\ shm_ptr[q] = k
        BY <1>0, <2>5, <4>1 DEF H!TextWritten
      <4> QED BY Zenon, <2>1, <2>2, <2>3, <2>4, <3>2, <4>2
    <3> QED BY <3>1, <3>2
  <2>6. ASSUME NEW n \in 1 .. Len(segments)
        PROVE  ~segments'[n].text[H!Length + 1]
    <3>1. CASE n = shm_fd[p] /\ H!Length + 1 = shm_ptr[p]
      BY Zenon, <2>3, <2>4, <3>1
    <3>2. CASE ~(n = shm_fd[p] /\ H!Length + 1 = shm_ptr[p])
      <4>1. segments'[n].text[H!Length + 1] = segments[n].text[H!Length + 1]
        BY Zenon, <2>3, <2>4, <3>2
      <4> QED BY <1>0, <4>1 DEF H!TextWritten
    <3> QED BY <3>1, <3>2
  <2> QED BY SMTT(30), <2>1, <2>2, <2>5, <2>6 DEF H!TextWritten
<1>6. ASSUME NEW c \in Consumers, H!Consumer(c) PROVE H!TextWritten'
  BY SMTT(30), <1>0, <1>6, ConsumerEffect DEF H!TextWritten
<1> QED BY SMTT(30), <1>1, <1>2, <1>3, <1>4, <1>5, <1>6 DEF H!Next, H!Producer

(* A step leaves no undisturbed consumer with a producer at work. *)
LEMMA SharedMemoryEnded ==
  ASSUME H!IInv, H!Next
  PROVE  H!ProducersEnded'
<1>0. /\ H!ProducersEnded /\ undisturbed \subseteq Consumers
      /\ Producers \subseteq H!Processes /\ Consumers \subseteq H!Processes
  BY DEF H!IInv, H!TypeOK, H!Processes
<1>1. ASSUME NEW p \in Producers, H!Producer(p) PROVE H!ProducersEnded'
  <2> SUFFICES ASSUME NEW c \in undisturbed'
               PROVE  /\ shm_fd'[c] # H!None /\ shm_pc'[c] # "open"
                      /\ \E r \in Producers : shm_fd'[r] = shm_fd'[c]
                      /\ \A r \in Producers :
                           shm_fd'[r] = shm_fd'[c] => shm_pc'[r] = "done"
    BY DEF H!ProducersEnded
  <2>1. /\ c \in undisturbed /\ shm_fd'[c] = shm_fd[c] /\ shm_pc'[c] = shm_pc[c]
        /\ \A r \in Producers \ {p} :
             shm_fd'[r] = shm_fd[r] /\ shm_pc'[r] = shm_pc[r]
    BY Zenon, <1>0, <1>1, ProducerEffect
  <2>2. shm_pc[p] # "done"
    BY SMTT(30), <1>1 DEF H!Producer, H!Create, H!Truncate, H!ProducerFails,
        H!WriteChar,
       H!WriteNul, H!Goto
  <2>3. shm_fd'[p] # shm_fd[c]
    <3>1. CASE H!Create(p)
      BY SMTT(30), <3>1, CreateEffect, <1>0 DEF H!IInv, H!TypeOK
    <3>2. CASE H!Truncate(p) \/ H!ProducerFails(p) \/ H!WriteChar(p) \/ H!WriteNul(p)
      <4>1. UNCHANGED shm_fd
        BY SMTT(30), <3>2 DEF H!Truncate, H!ProducerFails, H!WriteChar,
            H!WriteNul
      <4> QED BY SMTT(30), <2>1, <2>2, <4>1, <1>0 DEF H!ProducersEnded
    <3> QED BY SMTT(30), <1>1, <3>1, <3>2 DEF H!Producer
  <2>4. PICK r \in Producers : shm_fd[r] = shm_fd[c]
    BY SMTT(30), <1>0, <2>1 DEF H!ProducersEnded
  <2>5. r # p
    BY SMTT(30), <1>0, <2>1, <2>2, <2>4 DEF H!ProducersEnded
  <2>6. shm_fd'[r] = shm_fd'[c]
    BY SMTT(30), <2>1, <2>4, <2>5
  <2>7. ASSUME NEW q \in Producers, shm_fd'[q] = shm_fd'[c]
        PROVE  shm_pc'[q] = "done"
    <3>1. q # p
      BY SMTT(30), <2>1, <2>3, <2>7
    <3> QED BY SMTT(30), <1>0, <2>1, <2>7, <3>1 DEF H!ProducersEnded
  <2>8. shm_fd'[c] # H!None /\ shm_pc'[c] # "open"
    BY <1>0, <2>1 DEF H!ProducersEnded
  <2> QED BY SMTT(30), <2>6, <2>7, <2>8
<1>2. ASSUME NEW c \in Consumers, H!Open(c) PROVE H!ProducersEnded'
  <2>1. /\ \A p \in Producers : shm_fd'[p] = shm_fd[p] /\ shm_pc'[p] = shm_pc[p]
        /\ \A d \in Consumers \ {c} : shm_fd'[d] = shm_fd[d] /\ shm_pc'[d] = shm_pc[d]
    BY Zenon, <1>0, <1>2, ConsumerEffect DEF H!Consumer
  <2>2. c \notin undisturbed
    BY SMTT(30), <1>0, <1>2 DEF H!ProducersEnded, H!Open, H!Goto
  <2>3. ASSUME c \in undisturbed'
        PROVE  /\ shm_fd'[c] # H!None /\ shm_pc'[c] # "open"
               /\ \E r \in Producers : shm_fd'[r] = shm_fd'[c]
               /\ \A r \in Producers :
                    shm_fd'[r] = shm_fd'[c] => shm_pc'[r] = "done"
    BY SMTT(30), <1>0, <1>2, <2>1, <2>2, <2>3 DEF H!Open, H!Goto, H!IInv,
        H!TypeOK
  <2>4. undisturbed' \subseteq undisturbed \cup {c}
    BY SMTT(30), <1>2 DEF H!Open
  <2>5. ASSUME NEW d \in undisturbed', d # c
        PROVE  /\ shm_fd'[d] # H!None /\ shm_pc'[d] # "open"
               /\ \E r \in Producers : shm_fd'[r] = shm_fd'[d]
               /\ \A r \in Producers :
                    shm_fd'[r] = shm_fd'[d] => shm_pc'[r] = "done"
    <3>1. d \in undisturbed /\ shm_fd'[d] = shm_fd[d] /\ shm_pc'[d] = shm_pc[d]
      BY SMTT(30), <1>0, <2>1, <2>4, <2>5
    <3> QED BY SMTT(30), <1>0, <2>1, <3>1 DEF H!ProducersEnded
  <2> QED BY Zenon, <2>3, <2>5 DEF H!ProducersEnded
<1>3. ASSUME NEW c \in Consumers,
             H!ConsumerFails(c) \/ H!ReadChar(c) \/ H!Unlink(c)
      PROVE  H!ProducersEnded'
  <2>1. /\ UNCHANGED <<shm_fd, undisturbed>> /\ shm_pc'[c] # "open"
        /\ \A p \in Producers : shm_pc'[p] = shm_pc[p]
        /\ \A d \in Consumers \ {c} : shm_pc'[d] = shm_pc[d]
    <3>1. UNCHANGED <<shm_fd, undisturbed>> /\ shm_pc'[c] # "open"
      BY SMTT(30), <1>0, <1>3 DEF H!ConsumerFails, H!ReadChar, H!Unlink,
          H!Goto, H!IInv,
         H!TypeOK
    <3> QED BY Zenon, <1>0, <1>3, <3>1, ConsumerEffect DEF H!Consumer
  <2> QED BY Zenon, <1>0, <2>1 DEF H!ProducersEnded
<1> QED BY SMTT(30), <1>1, <1>2, <1>3 DEF H!Next, H!Consumer

(* The consumers that print an ended segment print all of it. *)
LEMMA SharedMemoryWhole ==
  ASSUME H!IInv, H!Next
  PROVE  H!WholeMessage'
<1>0. /\ H!WholeMessage /\ H!ProducersEnded /\ undisturbed \subseteq Consumers
      /\ Producers \subseteq H!Processes /\ Consumers \subseteq H!Processes
  BY DEF H!IInv, H!TypeOK, H!Processes
<1>1. ASSUME NEW p \in Producers, H!Producer(p) PROVE H!WholeMessage'
  <2>1. \A c \in undisturbed' : /\ c \in undisturbed /\ shm_pc'[c] = shm_pc[c]
                                /\ shm_ptr'[c] = shm_ptr[c]
    BY Zenon, <1>0, <1>1, ProducerEffect
  <2> QED BY <1>0, <2>1 DEF H!WholeMessage
<1>2. ASSUME NEW c \in Consumers, H!Consumer(c), NEW d \in undisturbed', d # c,
             shm_pc'[d] \in {"unlink", "done"}
      PROVE  shm_ptr'[d] = H!Length + 1
  <2>1. undisturbed' \subseteq undisturbed \cup {c}
    BY SMTT(30), <1>2 DEF H!Consumer, H!Open, H!ConsumerFails, H!ReadChar,
        H!Unlink
  <2>2. shm_pc'[d] = shm_pc[d] /\ shm_ptr'[d] = shm_ptr[d]
    BY SMTT(30), <1>0, <1>2, <2>1, ConsumerEffect
  <2> QED BY SMTT(30), <1>0, <1>2, <2>1, <2>2 DEF H!WholeMessage
<1>3. ASSUME NEW c \in Consumers, H!Open(c) \/ H!ConsumerFails(c)
      PROVE  shm_pc'[c] \notin {"unlink", "done"}
  BY SMTT(30), <1>0, <1>3 DEF H!Open, H!ConsumerFails, H!Goto, H!IInv, H!TypeOK
<1>4. ASSUME NEW c \in undisturbed', c \in Consumers, H!ReadChar(c),
             shm_pc'[c] \in {"unlink", "done"}
      PROVE  shm_ptr'[c] = H!Length + 1
  <2>1. /\ c \in undisturbed /\ shm_pc[c] = "print" /\ shm_ptr' = shm_ptr
        /\ ~segments[shm_fd[c]].text[shm_ptr[c]]
    BY SMTT(30), <1>0, <1>4 DEF H!ReadChar, H!IInv, H!TypeOK
  <2>2. PICK p \in Producers : shm_fd[p] = shm_fd[c]
    BY SMTT(30), <1>0, <2>1 DEF H!ProducersEnded
  <2>3. \A q \in Producers : shm_fd[q] = shm_fd[c] => shm_pc[q] = "done"
    BY SMTT(30), <1>0, <2>1 DEF H!ProducersEnded
  <2>4. shm_ptr[p] = H!Length + 1
    BY SMTT(30), <2>2, <2>3 DEF H!IInv, H!ProducersInStep, H!ProducerInStep
  <2>5. shm_fd[c] \in 1 .. Len(segments) /\ shm_ptr[c] \in 1 .. (H!Length + 1)
    BY SMTT(30), <1>0, <2>1 DEF H!IInv, H!TypeOK, H!ProducersEnded, H!None,
        H!Places
  <2>6. CASE shm_ptr[c] <= H!Length
    <3>1. shm_ptr[c] \in 1 .. H!Length /\ shm_ptr[p] > shm_ptr[c]
      BY SMTT(30), <2>4, <2>5, <2>6, LengthIsLast
    <3>2. \E q \in Producers : shm_fd[q] = shm_fd[c] /\ shm_pc[q] = "write"
      BY SMTT(30), <2>1, <2>2, <2>5, <3>1 DEF H!IInv, H!TextWritten
    <3> QED BY SMTT(30), <2>3, <3>2
  <2>7. CASE shm_ptr[c] > H!Length
    BY SMTT(30), <2>1, <2>5, <2>7, LengthIsLast
  <2> QED BY SMTT(30), <2>5, <2>6, <2>7, LengthIsLast
<1>5. ASSUME NEW c \in undisturbed', c \in Consumers, H!Unlink(c)
      PROVE  shm_ptr'[c] = H!Length + 1
  BY SMTT(30), <1>0, <1>5 DEF H!Unlink, H!Goto, H!WholeMessage
<1>6. ASSUME NEW c \in Consumers, H!Consumer(c) PROVE H!WholeMessage'
  BY SMTT(30), <1>2, <1>3, <1>4, <1>5, <1>6 DEF H!WholeMessage, H!Consumer
<1> QED BY SMTT(30), <1>1, <1>6 DEF H!Next

(* No step removes a segment twice, or another one than the one printed    *)
(* while that one is there.                                                *)
LEMMA SharedMemoryRemoves ==
  ASSUME H!IInv, H!Next
  PROVE  H!RemovesOwnUnlessOvertaken'
<1>0. /\ H!RemovesOwnUnlessOvertaken /\ H!NamedOrRemoved /\ H!ConsumersInStep
      /\ Producers \subseteq H!Processes /\ Consumers \subseteq H!Processes
  BY DEF H!IInv, H!Processes
<1>1. ASSUME UNCHANGED removed,
             \A c \in Consumers : removed[c] # H!None => shm_fd'[c] = shm_fd[c]
      PROVE  H!RemovesOwnUnlessOvertaken'
  BY Zenon, <1>0, <1>1 DEF H!RemovesOwnUnlessOvertaken
<1>2. ASSUME NEW p \in Producers, H!Producer(p) PROVE H!RemovesOwnUnlessOvertaken'
  BY Zenon, <1>0, <1>1, <1>2, ProducerEffect
<1>3. ASSUME NEW c \in Consumers,
             H!Open(c) \/ H!ConsumerFails(c) \/ H!ReadChar(c)
      PROVE  H!RemovesOwnUnlessOvertaken'
  <2>1. UNCHANGED removed
    BY SMTT(30), <1>3 DEF H!Open, H!ConsumerFails, H!ReadChar
  <2>2. removed[c] = H!None
    BY SMTT(30), <1>0, <1>3 DEF H!ConsumersInStep, H!Open, H!ConsumerFails,
        H!ReadChar,
       H!Goto
  <2>3. \A d \in Consumers \ {c} : shm_fd'[d] = shm_fd[d]
    <3>1. H!Consumer(c)
      BY <1>3 DEF H!Consumer
    <3> QED BY SMTT(30), <1>0, <3>1, ConsumerEffect
  <2> QED BY ZenonT(40), <1>1, <2>1, <2>2, <2>3
<1>4. ASSUME NEW c \in Consumers, H!Unlink(c) PROVE H!RemovesOwnUnlessOvertaken'
  <2>1. /\ UNCHANGED shm_fd /\ removed'[c] = shm_name /\ removed[c] = H!None
        /\ \A d \in Consumers \ {c} : removed'[d] = removed[d]
        /\ shm_fd[c] \in 1 .. Len(segments)
    BY SMTT(30), <1>0, <1>4 DEF H!Unlink, H!Goto, H!ConsumersInStep, H!IInv,
        H!TypeOK,
       H!None
  <2>2. \A d \in Consumers \ {c} : removed[d] # H!None => removed[d] # shm_name
    BY SMTT(30), <1>0 DEF H!NamedOrRemoved
  <2>3. ASSUME removed'[c] # H!None, removed'[c] # shm_fd[c]
        PROVE  \E d \in Consumers \ {c} : removed'[d] = shm_fd[c]
    <3>1. PICK d \in Consumers : removed[d] = shm_fd[c]
      BY SMTT(30), <1>0, <2>1, <2>3 DEF H!NamedOrRemoved
    <3>2. d # c
      BY SMTT(30), <2>1, <3>1 DEF H!None
    <3> QED BY SMTT(30), <2>1, <3>1, <3>2
  <2>4. ASSUME NEW d \in Consumers \ {c}, removed'[d] # H!None
        PROVE  /\ removed'[d] # shm_fd[d] =>
                    \E e \in Consumers \ {d} : removed'[e] = shm_fd[d]
               /\ \A e \in Consumers \ {d} : removed'[e] # removed'[d]
    <3>1. removed[d] # H!None /\ removed'[d] = removed[d] /\ removed[d] # shm_name
      BY SMTT(30), <2>1, <2>2, <2>4
    <3>2. \A e \in Consumers \ {d} : removed'[e] # removed'[d]
      BY SMTT(30), <1>0, <2>1, <3>1 DEF H!RemovesOwnUnlessOvertaken
    <3>3. ASSUME removed[d] # shm_fd[d]
          PROVE  \E e \in Consumers \ {d} : removed'[e] = shm_fd[d]
      <4>1. PICK e \in Consumers \ {d} : removed[e] = shm_fd[d]
        BY SMTT(30), <1>0, <3>1, <3>3 DEF H!RemovesOwnUnlessOvertaken
      <4>2. shm_fd[d] # H!None
        BY SMTT(30), <1>0, <3>1 DEF H!ConsumersInStep
      <4> QED BY SMTT(30), <2>1, <4>1, <4>2
    <3> QED BY SMTT(30), <3>1, <3>2, <3>3
  <2>5. \A e \in Consumers \ {c} : removed'[c] # H!None => removed'[e] # removed'[c]
    BY SMTT(30), <2>1, <2>2
  <2> QED BY ZenonT(40), <2>1, <2>3, <2>4, <2>5 DEF H!RemovesOwnUnlessOvertaken
<1> QED BY SMTT(30), <1>2, <1>3, <1>4 DEF H!Next, H!Consumer

(* The initial states satisfy the inductive invariant. *)
LEMMA SharedMemoryInit == H!Init => H!IInv
<1> SUFFICES ASSUME H!Init PROVE H!IInv
  OBVIOUS
<1>1. H!TypeOK
  BY SMTT(30), LengthIsLast DEF H!Init, H!TypeOK, H!Places, H!None
<1>2. H!ProducersInStep /\ H!ConsumersInStep
  BY SMTT(30), LengthIsLast DEF H!Init, H!ProducersInStep, H!ProducerInStep,
     H!ConsumersInStep, H!Processes, H!None
<1>3. /\ H!TextWritten /\ H!ProducersEnded /\ H!NamedOrRemoved /\ H!WholeMessage
      /\ H!RemovesOwnUnlessOvertaken
  BY DEF H!Init, H!TextWritten, H!ProducersEnded, H!NamedOrRemoved,
     H!WholeMessage,
         H!RemovesOwnUnlessOvertaken
<1> QED BY SMTT(30), <1>1, <1>2, <1>3 DEF H!IInv

(* The inductive invariant of the shared memory programs. *)
THEOREM SharedMemoryInvariant == H!Spec => []H!IInv
<1>1. H!IInv /\ [H!Next]_(H!vars) => H!IInv'
  <2> SUFFICES ASSUME H!IInv, [H!Next]_(H!vars) PROVE H!IInv'
    OBVIOUS
  <2>1. CASE H!Next
    BY SMTT(30), <2>1, SharedMemoryType, SharedMemoryProducers,
       SharedMemoryConsumers, SharedMemoryText,
       SharedMemoryEnded, SharedMemoryNames, SharedMemoryWhole,
       SharedMemoryRemoves DEF H!IInv
  <2>2. CASE UNCHANGED H!vars
    <3>1. UNCHANGED <<shm_name, segments, shm_pc, shm_fd, shm_ptr, undisturbed,
                      removed>>
      BY Zenon, <2>2 DEF H!vars
    <3>2. H!TypeOK'
      BY SMTT(30), <3>1 DEF H!IInv, H!TypeOK
    <3>3. H!ProducersInStep' /\ H!ConsumersInStep'
      BY SMTT(30), <3>1 DEF H!IInv, H!ProducersInStep, H!ProducerInStep,
         H!ConsumersInStep
    <3>4. H!TextWritten'
      <4>1. H!TextWritten
        BY Zenon DEF H!IInv
      <4>2. ASSUME NEW n \in 1 .. Len(segments),
                   NEW k \in 1 .. H!Length, NEW p \in Producers,
                   shm_fd'[p] = n, shm_ptr'[p] > k
            PROVE  \/ segments'[n].text[k]
                   \/ k > 1 /\ \E q \in Producers :
                        shm_fd'[q] = n /\ shm_pc'[q] = "write" /\ shm_ptr'[q] = k
        <5>1. \/ segments[n].text[k]
              \/ k > 1 /\ \E q \in Producers :
                   shm_fd[q] = n /\ shm_pc[q] = "write" /\ shm_ptr[q] = k
          BY SMTT(30), <3>1, <4>1, <4>2 DEF H!TextWritten
        <5> QED BY SMTT(30), <3>1, <5>1
      <4>3. \A n \in 1 .. Len(segments) : ~segments'[n].text[H!Length + 1]
        BY SMTT(30), <3>1, <4>1 DEF H!TextWritten
      <4>4. segments' = segments
        BY Zenon, <3>1
      <4> QED BY SMTT(30), <4>2, <4>3, <4>4 DEF H!TextWritten
    <3>5. H!ProducersEnded' /\ H!NamedOrRemoved'
      BY ZenonT(40), <3>1 DEF H!IInv, H!ProducersEnded, H!NamedOrRemoved
    <3>6. H!WholeMessage' /\ H!RemovesOwnUnlessOvertaken'
      BY ZenonT(40), <3>1 DEF H!IInv, H!WholeMessage, H!RemovesOwnUnlessOvertaken
    <3> QED BY Zenon, <3>2, <3>3, <3>4, <3>5, <3>6 DEF H!IInv
  <2> QED BY SMTT(30), <2>1, <2>2
<1> QED BY <1>1, SharedMemoryInit, PTL DEF H!Spec

(* A consumer that opened the segment after its producers had ended, and   *)
(* that no producer disturbed since, has printed the whole message before  *)
(* it comes to shm_unlink.                                                 *)
THEOREM MessagePrintedWhole == H!Spec => []WholeMessage
<1>1. H!IInv => H!WholeMessage
  BY DEF H!IInv
<1>2. H!WholeMessage => WholeMessage
  BY SMTT(30) DEF WholeMessage
<1> QED BY <1>1, <1>2, SharedMemoryInvariant, PTL

(* A consumer's shm_unlink removes another segment than the one it printed *)
(* only after another consumer removed that; no segment is removed twice.  *)
THEOREM SegmentRemovedOnce == H!Spec => []RemovesOwnUnlessOvertaken
<1>1. H!IInv => H!RemovesOwnUnlessOvertaken
  BY DEF H!IInv
<1>2. H!RemovesOwnUnlessOvertaken => RemovesOwnUnlessOvertaken
  BY DEF RemovesOwnUnlessOvertaken
<1> QED BY <1>1, <1>2, SharedMemoryInvariant, PTL
=============================================================================
