------------------------- MODULE KernelModuleProofs -------------------------
(***************************************************************************)
(* Proofs about the small kernel modules on linked lists, for every value  *)
(* of the constants: the birthday list of chapter 2 and the walks of the   *)
(* task list of chapter 3.  Each keeps the inductive invariant of its own  *)
(* module.                                                                 *)
(***************************************************************************)
EXTENDS KernelListings, Sequences, WellFoundedInduction, TLAPS

-----------------------------------------------------------------------------
(* The birthday list *)

BirthdayHeap ==
  [next : [B!Cells -> B!Cells \cup {B!LIST_POISON1}],
   prev : [B!Cells -> B!Cells \cup {B!LIST_POISON2}]]

(* What INIT_LIST_HEAD and list_add_tail store for a new structure c. *)
LEMMA BirthdayAdded ==
  ASSUME NEW m \in BirthdayHeap, NEW c \in Memory, NEW p \in B!Cells, p # c,
         m.prev[B!birthday_list] = p
  PROVE  LET m1 == B!list_add_tail(B!INIT_LIST_HEAD(m, c), c, B!birthday_list) IN
         /\ m1 \in BirthdayHeap
         /\ m1.next[c] = B!birthday_list /\ m1.prev[B!birthday_list] = c
         /\ m1.next[p] = c /\ m1.prev[c] = p
         /\ \A d \in B!Cells \ {c, p} : m1.next[d] = m.next[d]
         /\ \A d \in B!Cells \ {c, B!birthday_list} : m1.prev[d] = m.prev[d]
<1>0. B!birthday_list \in B!Cells /\ c \in B!Cells /\ c # B!birthday_list
  BY BirthdaysAssumption DEF B!birthday_list, B!Cells
<1> DEFINE m0 == B!INIT_LIST_HEAD(m, c)
<1>1. /\ m0 \in BirthdayHeap
      /\ m0.next[c] = c /\ m0.prev[c] = c
      /\ \A d \in B!Cells \ {c} : m0.next[d] = m.next[d] /\ m0.prev[d] = m.prev[d]
  BY Zenon, <1>0 DEF B!INIT_LIST_HEAD, BirthdayHeap
<1>2. m0.prev[B!birthday_list] = p
  BY Zenon, <1>0, <1>1
<1> HIDE DEF m0
<1> DEFINE m1 == B!list_insert(m0, c, p, B!birthday_list)
<1>3. /\ m1 \in BirthdayHeap
      /\ m1.next[c] = B!birthday_list /\ m1.prev[c] = p
      /\ m1.next[p] = c /\ m1.prev[B!birthday_list] = c
      /\ \A d \in B!Cells \ {c, p} : m1.next[d] = m0.next[d]
      /\ \A d \in B!Cells \ {c, B!birthday_list} : m1.prev[d] = m0.prev[d]
  BY Zenon, <1>0, <1>1 DEF B!list_insert, BirthdayHeap
<1>4. B!list_add_tail(B!INIT_LIST_HEAD(m, c), c, B!birthday_list) = m1
  BY Zenon, <1>2 DEF B!list_add_tail, m0
<1> HIDE DEF m1
<1> QED BY <1>1, <1>3, <1>4

(* What list_del stores. *)
LEMMA BirthdayDeleted ==
  ASSUME NEW m \in BirthdayHeap, NEW e \in Memory,
         NEW n \in B!Cells, NEW p \in B!Cells, n # e, p # e,
         m.next[e] = n, m.prev[e] = p
  PROVE  LET m1 == B!list_del(m, e) IN
         /\ m1 \in BirthdayHeap
         /\ m1.next[p] = n /\ m1.prev[n] = p
         /\ \A d \in B!Cells \ {e, p} : m1.next[d] = m.next[d]
         /\ \A d \in B!Cells \ {e, n} : m1.prev[d] = m.prev[d]
<1>0. e \in B!Cells
  BY DEF B!Cells
<1> DEFINE m0 == B!list_unlink(m, e)
<1>1. /\ m0 \in BirthdayHeap
      /\ m0.next[p] = n /\ m0.prev[n] = p
      /\ \A d \in B!Cells \ {p} : m0.next[d] = m.next[d]
      /\ \A d \in B!Cells \ {n} : m0.prev[d] = m.prev[d]
  BY Zenon, <1>0 DEF B!list_unlink, BirthdayHeap
<1> DEFINE m1 == [m0 EXCEPT !.next[e] = B!LIST_POISON1, !.prev[e] = B!LIST_POISON2]
<1>2. m1 = B!list_del(m, e)
  BY Zenon DEF B!list_del
<1> HIDE DEF m0
<1>3. /\ m1 \in BirthdayHeap
      /\ \A d \in B!Cells \ {e} : m1.next[d] = m0.next[d] /\ m1.prev[d] = m0.prev[d]
  BY Zenon, <1>0, <1>1 DEF BirthdayHeap
<1> HIDE DEF m1
<1> QED BY <1>1, <1>2, <1>3

(* The list of a module that was just loaded. *)
LEMMA BirthdayEmpty ==
  /\ B!EmptyList \in BirthdayHeap
  /\ B!EmptyList.next[B!birthday_list] = B!birthday_list
  /\ B!EmptyList.prev[B!birthday_list] = B!birthday_list
<1>1. B!birthday_list \in B!Cells
  BY DEF B!Cells
<1> DEFINE m == [next |-> [c \in B!Cells |-> B!LIST_POISON1],
                 prev |-> [c \in B!Cells |-> B!LIST_POISON2]]
<1>2. m \in BirthdayHeap /\ B!EmptyList = B!INIT_LIST_HEAD(m, B!birthday_list)
  BY Zenon DEF B!EmptyList, BirthdayHeap
<1> HIDE DEF m
<1> QED BY Zenon, <1>1, <1>2 DEF B!INIT_LIST_HEAD, BirthdayHeap

(* simple_init adds a structure behind the others. *)
LEMMA BirthdayCreate ==
  ASSUME B!IInv, B!Create
  PROVE  /\ B!TypeOK'
         /\ phase' = "create" => B!Creating'
         /\ phase' = "print" => B!Printing'
         /\ phase' \in {"create", "print"}
<1>0. /\ B!TypeOK /\ B!Creating /\ links \in BirthdayHeap
      /\ B!birthday_list \in B!Cells /\ B!birthday_list \notin Memory
  BY Zenon, BirthdaysAssumption DEF B!IInv, B!Create, B!TypeOK, BirthdayHeap,
      B!Cells, B!birthday_list
<1>1. PICK c \in Memory \ allocated :
        /\ allocated' = allocated \cup {c}
        /\ person' = [person EXCEPT ![c] = B!Persons[added']]
        /\ links' = B!list_add_tail(B!INIT_LIST_HEAD(links, c), c, B!birthday_list)
  BY Zenon DEF B!Create
<1>2. /\ added' = added + 1 /\ printed' = printed
      /\ phase' = IF added' < 2 THEN "create" ELSE "print"
      /\ ptr' = links'.next[B!birthday_list]
  BY Zenon DEF B!Create, B!Persons
<1>3. CASE added = 0 /\ B!NoneListed
  <2>1. /\ links' \in BirthdayHeap
        /\ links'.next[B!birthday_list] = c /\ links'.next[c] = B!birthday_list
        /\ links'.prev[B!birthday_list] = c /\ links'.prev[c] = B!birthday_list
    BY <1>0, <1>1, <1>3, BirthdayAdded DEF B!NoneListed
  <2>2. added' = 1 /\ phase' = "create" /\ allocated' = {c}
    BY <1>1, <1>2, <1>3 DEF B!NoneListed
  <2>3. person'[c] = B!Persons[1]
    BY Zenon, <1>0, <1>1, <2>2 DEF B!TypeOK
  <2>4. person' \in [Memory -> {"", B!Persons[1], B!Persons[2]}]
    BY Zenon, <1>0, <1>1, <2>2 DEF B!TypeOK
  <2>5. B!TypeOK'
    BY Zenon, <1>1, <2>1, <2>2, <2>4 DEF B!TypeOK, BirthdayHeap
  <2>6. B!OneListed(c)'
    BY <2>1, <2>2 DEF B!OneListed
  <2> QED BY <1>0, <1>2, <2>2, <2>3, <2>5, <2>6 DEF B!Creating
<1>4. CASE added = 1 /\ \E a \in Memory : B!OneListed(a) /\ person[a] = B!Persons[1]
  <2>1. PICK a \in Memory : B!OneListed(a) /\ person[a] = B!Persons[1]
    BY <1>4
  <2>2. c # a /\ a \in B!Cells
    BY <2>1, <1>1 DEF B!OneListed, B!Cells
  <2>3. /\ links' \in BirthdayHeap
        /\ links'.next[B!birthday_list] = a /\ links'.next[a] = c
        /\ links'.next[c] = B!birthday_list
        /\ links'.prev[B!birthday_list] = c /\ links'.prev[c] = a
        /\ links'.prev[a] = B!birthday_list
    BY SMTT(30), <1>0, <1>1, <2>1, <2>2, BirthdayAdded DEF B!OneListed
  <2>4. /\ added' = 2 /\ phase' = "print" /\ allocated' = {a, c}
        /\ ptr' = a /\ printed' = printed
    BY <1>1, <1>2, <1>4, <2>1, <2>3 DEF B!OneListed
  <2>5. person'[a] = B!Persons[1] /\ person'[c] = B!Persons[2]
    BY Zenon, <1>0, <1>1, <2>1, <2>2, <2>4 DEF B!TypeOK
  <2>6. person' \in [Memory -> {"", B!Persons[1], B!Persons[2]}]
    BY Zenon, <1>0, <1>1, <2>4 DEF B!TypeOK
  <2>7. B!TypeOK'
    BY Zenon, <1>1, <2>3, <2>4, <2>6 DEF B!TypeOK, BirthdayHeap
  <2>8. B!TwoListed(a, c)'
    BY <2>2, <2>3, <2>4 DEF B!TwoListed
  <2>9. printed' = << >>
    BY <1>0, <1>2 DEF B!Creating
  <2> QED BY <2>4, <2>5, <2>7, <2>8, <2>9 DEF B!Printing
<1> QED BY <1>0, <1>3, <1>4 DEF B!Creating

(* simple_exit frees the first structure. *)
LEMMA BirthdayFree ==
  ASSUME B!IInv, B!FreeEntry
  PROVE  B!TypeOK' /\ B!Freeing' /\ phase' = "free"
<1>0. /\ B!TypeOK /\ B!Freeing /\ links \in BirthdayHeap /\ ptr # B!birthday_list
      /\ B!birthday_list \in B!Cells /\ B!birthday_list \notin Memory /\ Memory \subseteq B!Cells
  BY Zenon, BirthdaysAssumption
     DEF B!IInv, B!FreeEntry, B!TypeOK, BirthdayHeap, B!Cells, B!birthday_list
<1>1. /\ links' = B!list_del(links, ptr) /\ allocated' = allocated \ {ptr}
      /\ ptr' = next /\ next' = links'.next[next]
      /\ person' = person /\ phase' = "free"
  BY DEF B!FreeEntry
<1>2. ASSUME NEW a \in Memory, NEW b \in Memory,
             B!TwoListed(a, b) /\ ptr = a /\ next = b
      PROVE  B!TypeOK' /\ B!Freeing'
  <2>1. a # b /\ a # B!birthday_list /\ b # B!birthday_list /\ a \in B!Cells /\ b \in B!Cells
    BY <1>0, <1>2 DEF B!TwoListed
  <2>2. /\ links' \in BirthdayHeap
        /\ links'.next[B!birthday_list] = b /\ links'.prev[b] = B!birthday_list
        /\ links'.next[b] = B!birthday_list /\ links'.prev[B!birthday_list] = b
    BY <1>0, <1>1, <1>2, <2>1, BirthdayDeleted DEF B!TwoListed
  <2>3. allocated' = {b} /\ ptr' = b /\ next' = B!birthday_list
    BY <1>1, <1>2, <2>1, <2>2 DEF B!TwoListed
  <2>4. B!OneListed(b)'
    BY <2>2, <2>3 DEF B!OneListed
  <2> QED BY Zenon, <1>0, <1>1, <2>2, <2>3, <2>4 DEF B!TypeOK, BirthdayHeap,
      B!Freeing
<1>3. ASSUME NEW b \in Memory,
             B!OneListed(b) /\ ptr = b /\ next = B!birthday_list
      PROVE  B!TypeOK' /\ B!Freeing'
  <2>1. b # B!birthday_list /\ b \in B!Cells
    BY <1>0
  <2>2. /\ links' \in BirthdayHeap
        /\ links'.next[B!birthday_list] = B!birthday_list
        /\ links'.prev[B!birthday_list] = B!birthday_list
    BY <1>0, <1>1, <1>3, <2>1, BirthdayDeleted DEF B!OneListed
  <2>3. allocated' = {} /\ ptr' = B!birthday_list /\ next' = B!birthday_list
    BY <1>1, <1>3, <2>2 DEF B!OneListed
  <2> QED BY Zenon, <1>0, <1>1, <2>2, <2>3 DEF B!TypeOK, BirthdayHeap,
      B!NoneListed, B!Freeing
<1> QED BY <1>0, <1>1, <1>2, <1>3 DEF B!Freeing

(* Append to a sequence of one element. *)
LEMMA AppendToOne ==
  ASSUME NEW x, NEW y
  PROVE  Append(<<x>>, y) = <<x, y>>
<1> DEFINE T == {x, y}
           s == Append(<<x>>, y)
           t == <<x, y>>
<1>1. s \in Seq(T) /\ Len(s) = 2 /\ s[1] = x /\ s[2] = y
  OBVIOUS
<1>2. t \in Seq(T) /\ Len(t) = 2 /\ t[1] = x /\ t[2] = y
  OBVIOUS
<1>3. s = t
  <2> HIDE DEF s, t, T
  <2> QED BY <1>1, <1>2
<1> QED BY <1>3

(* The inductive invariant of the birthday module. *)
THEOREM BirthdaysInvariant == B!Spec => []B!IInv
<1>1. B!Init => B!IInv
  BY Zenon, BirthdayEmpty DEF B!Init, B!IInv, B!TypeOK, BirthdayHeap
<1>2. ASSUME B!IInv, [B!Next]_(B!vars) PROVE B!IInv'
  <2>0. B!TypeOK
    BY <1>2 DEF B!IInv
  <2>1. CASE B!Load
    <3>1. links' = B!EmptyList /\ allocated' = {} /\ added' = 0 /\ printed' = << >>
      BY <1>2, <2>1 DEF B!Load, B!IInv
    <3>2. B!NoneListed' /\ B!TypeOK'
      BY Zenon, <2>0, <2>1, <3>1, BirthdayEmpty DEF B!Load, B!NoneListed,
          B!TypeOK, BirthdayHeap
    <3> QED BY <2>1, <3>1, <3>2 DEF B!Load, B!IInv, B!Creating
  <2>2. CASE B!Create
    BY <1>2, <2>2, BirthdayCreate DEF B!IInv
  <2>3. CASE B!Oops
    BY Zenon, <2>0, <2>3 DEF B!Oops, B!IInv, B!TypeOK
  <2>4. CASE B!PrintEntry
    <3>1. PICK a, b \in Memory :
            /\ B!TwoListed(a, b) /\ person[a] = B!Persons[1] /\ person[b] = B!Persons[2]
            /\ \/ ptr = a /\ printed = << >>
               \/ ptr = b /\ printed = <<B!Persons[1]>>
               \/ ptr = B!birthday_list /\ printed = B!Persons
      BY <1>2, <2>4 DEF B!PrintEntry, B!IInv, B!Printing
    <3>2. /\ UNCHANGED <<links, allocated, person, phase>> /\ phase = "print"
          /\ ptr # B!birthday_list
          /\ printed' = Append(printed, person[ptr]) /\ ptr' = links.next[ptr]
      BY <2>4 DEF B!PrintEntry
    <3>3. B!TypeOK' /\ B!TwoListed(a, b)'
      BY Zenon, <2>0, <3>1, <3>2 DEF B!TypeOK, B!TwoListed
    <3>4. \/ ptr' = b /\ printed' = <<B!Persons[1]>>
          \/ ptr' = B!birthday_list /\ printed' = B!Persons
      <4>1. CASE ptr = a /\ printed = << >>
        <5>1. ptr' = b /\ printed' = Append(<< >>, B!Persons[1])
          BY <3>1, <3>2, <4>1 DEF B!TwoListed
        <5>2. Append(<< >>, B!Persons[1]) = <<B!Persons[1]>>
          OBVIOUS
        <5> QED BY Zenon, <5>1, <5>2
      <4>2. CASE ptr = b /\ printed = <<B!Persons[1]>>
        <5>1. /\ ptr' = B!birthday_list
              /\ printed' = Append(<<B!Persons[1]>>, B!Persons[2])
          BY <3>1, <3>2, <4>2 DEF B!TwoListed
        <5>2. Append(<<B!Persons[1]>>, B!Persons[2]) = B!Persons
          <6>1. \A x, y : Append(<<x>>, y) = <<x, y>>
            BY Zenon, AppendToOne
          <6>2. B!Persons = <<B!Persons[1], B!Persons[2]>>
            BY Zenon DEF B!Persons
          <6> QED BY Zenon, <6>1, <6>2
        <5> QED BY Zenon, <5>1, <5>2
      <4> QED BY Zenon, <3>1, <3>2, <4>1, <4>2
    <3>5. B!Printing'
      BY <3>1, <3>2, <3>3, <3>4 DEF B!Printing
    <3> QED BY <3>2, <3>3, <3>5 DEF B!IInv
  <2>5. CASE B!Loaded
    <3>1. \E a, b \in Memory : B!TwoListed(a, b) /\ printed = B!Persons
      BY <1>2, <2>5, BirthdaysAssumption
         DEF B!Loaded, B!IInv, B!Printing, B!birthday_list
    <3> QED BY Zenon, <2>0, <2>5, <3>1 DEF B!Loaded, B!IInv, B!TypeOK,
        B!TwoListed
  <2>6. CASE B!Unload
    <3>1. PICK a, b \in Memory : B!TwoListed(a, b)
      BY <1>2, <2>6 DEF B!Unload, B!IInv
    <3>2. /\ UNCHANGED <<links, allocated, person>> /\ phase' = "free"
          /\ ptr' = a /\ next' = b
      BY <2>6, <3>1 DEF B!Unload, B!TwoListed
    <3>3. B!TypeOK' /\ B!TwoListed(a, b)'
      BY Zenon, <2>0, <3>1, <3>2 DEF B!TypeOK, B!TwoListed
    <3> QED BY <3>2, <3>3 DEF B!IInv, B!Freeing
  <2>7. CASE B!FreeEntry
    BY <1>2, <2>7, BirthdayFree DEF B!IInv
  <2>8. CASE B!Unloaded
    <3>1. allocated = {}
      BY <1>2, <2>8, BirthdaysAssumption
         DEF B!Unloaded, B!IInv, B!Freeing, B!NoneListed, B!birthday_list
    <3> QED BY Zenon, <2>0, <2>8, <3>1 DEF B!Unloaded, B!IInv, B!TypeOK
  <2>9. CASE UNCHANGED B!vars
    <3>1. B!IInv' = B!IInv
      BY <2>9 DEF B!vars, B!IInv, B!TypeOK, B!Creating, B!Printing, B!Freeing,
         B!NoneListed, B!OneListed, B!TwoListed
    <3> QED BY Zenon, <1>2, <3>1
  <2> QED BY SMTT(30), <1>2, <2>1, <2>2, <2>3, <2>4, <2>5, <2>6, <2>7, <2>8,
      <2>9 DEF B!Next
<1> QED BY <1>1, <1>2, PTL DEF B!Spec

(* Unloading the birthday module never follows a pointer into a structure  *)
(* that it has freed.                                                      *)
THEOREM NothingUsedAfterFree == B!Spec => []NoUseAfterFree
<1>1. ASSUME B!IInv PROVE B!NoUseAfterFree
  <2>1. CASE phase = "print"
    <3>1. ptr \in allocated \cup {B!birthday_list}
      BY <1>1, <2>1 DEF B!IInv, B!Printing, B!TwoListed
    <3> QED BY <2>1, <3>1 DEF B!NoUseAfterFree
  <2>2. CASE phase = "free"
    <3>1. {ptr, next} \subseteq allocated \cup {B!birthday_list}
      BY <1>1, <2>2 DEF B!IInv, B!Freeing, B!NoneListed, B!OneListed,
          B!TwoListed
    <3> QED BY <2>2, <3>1 DEF B!NoUseAfterFree
  <2> QED BY <2>1, <2>2 DEF B!NoUseAfterFree
<1>2. B!NoUseAfterFree => NoUseAfterFree
  BY DEF NoUseAfterFree
<1> QED BY <1>1, <1>2, BirthdaysInvariant, PTL

(* Loading prints the birthdays in order, and unloading frees them all. *)
THEOREM BirthdaysListedAndFreed == B!Spec => []ListedAndFreed
<1>1. B!IInv => B!ListedAndFreed
  BY DEF B!IInv, B!ListedAndFreed
<1>2. B!ListedAndFreed => ListedAndFreed
  BY DEF ListedAndFreed
<1> QED BY <1>1, <1>2, BirthdaysInvariant, PTL

-----------------------------------------------------------------------------
(* The kernel modules that walk the tasks *)

WalkHeap == [next : [W!Cells -> W!Cells], prev : [W!Cells -> W!Cells]]

(* The list_head structures of the tasks are different. *)
LEMMA WalkCells ==
  ASSUME NEW s \in W!Tasks, NEW t \in W!Tasks
  PROVE  /\ W!children(s) \in W!Cells /\ W!sibling(s) \in W!Cells /\ W!tasks(s) \in W!Cells
         /\ W!children(s) = W!children(t) => s = t
         /\ W!sibling(s) = W!sibling(t) => s = t
         /\ W!tasks(s) = W!tasks(t) => s = t
         /\ W!children(s) # W!sibling(t) /\ W!children(s) # W!tasks(t) /\ W!sibling(s) # W!tasks(t)
         /\ W!children(s)[2] = s /\ W!sibling(s)[2] = s /\ W!tasks(s)[2] = s
BY DEF W!children, W!sibling, W!tasks, W!Cells

(* What list_add_tail stores. *)
LEMMA WalkAddTail ==
  ASSUME NEW m \in WalkHeap, NEW c \in W!Cells, NEW h \in W!Cells,
         NEW q \in W!Cells,
         c # h, c # q, m.prev[h] = q
  PROVE  LET m1 == W!list_add_tail(m, c, h) IN
         /\ m1 \in WalkHeap
         /\ m1.next[c] = h /\ m1.prev[h] = c /\ m1.next[q] = c
         /\ \A d \in W!Cells \ {c, q} : m1.next[d] = m.next[d]
         /\ \A d \in W!Cells \ {c, h} : m1.prev[d] = m.prev[d]
<1> DEFINE m1 == W!list_insert(m, c, q, h)
<1>1. /\ m1 \in WalkHeap
      /\ m1.next[c] = h /\ m1.prev[h] = c /\ m1.next[q] = c
      /\ \A d \in W!Cells \ {c, q} : m1.next[d] = m.next[d]
      /\ \A d \in W!Cells \ {c, h} : m1.prev[d] = m.prev[d]
  BY Zenon DEF W!list_insert, WalkHeap
<1>2. W!list_add_tail(m, c, h) = m1
  BY Zenon DEF W!list_add_tail
<1> HIDE DEF m1
<1> QED BY Zenon, <1>1, <1>2

(* The task that fork makes is the next number. *)
LEMMA WalkForked ==
  ASSUME W!TypeOK, NEW p \in W!Tasks, W!Fork(p)
  PROVE  \E n \in W!Tasks :
           /\ n >= 1 /\ alive = 0 .. (n - 1) /\ alive' = 0 .. n /\ p < n
           /\ parent' = [parent EXCEPT ![n] = p]
           /\ list_heads' = W!list_add_tail(
                              W!list_add_tail(list_heads, W!sibling(n), W!children(p)),
                              W!tasks(n), W!tasks(W!init_task))
           /\ UNCHANGED <<walk, task, stack, seen, first>>
<1>1. PICK n \in 1 .. MAX_TASKS : alive = 0 .. (n - 1)
  BY DEF W!TypeOK
<1>2. p \in alive /\ alive # W!Tasks /\ MAX_TASKS \in Nat
  BY TaskWalkAssumption DEF W!Fork
<1>3. n \in W!Tasks /\ n >= 1 /\ p < n /\ n \notin alive
  BY <1>1, <1>2 DEF W!Tasks, W!init_task
<1> DEFINE u == CHOOSE t \in W!Tasks \ alive : \A v \in W!Tasks \ alive : t <= v
<1>4. u = n
  <2>1. n \in W!Tasks \ alive /\ \A v \in W!Tasks \ alive : n <= v
    BY <1>1, <1>2, <1>3 DEF W!Tasks, W!init_task
  <2>2. u \in W!Tasks \ alive /\ \A v \in W!Tasks \ alive : u <= v
    BY Zenon, <2>1
  <2> HIDE DEF u
  <2> QED BY <1>2, <2>1, <2>2 DEF W!Tasks, W!init_task
<1>5. /\ alive' = alive \cup {u}
      /\ parent' = [parent EXCEPT ![u] = p]
      /\ list_heads' = W!list_add_tail(
                         W!list_add_tail(list_heads, W!sibling(u), W!children(p)),
                         W!tasks(u), W!tasks(W!init_task))
      /\ UNCHANGED <<walk, task, stack, seen, first>>
  BY Zenon DEF W!Fork
<1> HIDE DEF u
<1>6. alive \cup {n} = 0 .. n
  BY <1>1, <1>3
<1>7. /\ alive' = 0 .. n
      /\ parent' = [parent EXCEPT ![n] = p]
      /\ list_heads' = W!list_add_tail(
                         W!list_add_tail(list_heads, W!sibling(n), W!children(p)),
                         W!tasks(n), W!tasks(W!init_task))
  BY Zenon, <1>4, <1>5, <1>6
<1> QED BY Zenon, <1>1, <1>3, <1>5, <1>7

(* fork puts the new task behind all tasks and behind its siblings. *)
LEMMA WalkLinks ==
  ASSUME W!TypeOK, W!Tree, W!TaskList, W!ChildLists, NEW p \in W!Tasks,
         NEW n \in W!Tasks,
         n >= 1, alive = 0 .. (n - 1), alive' = 0 .. n, p < n,
         list_heads' = W!list_add_tail(
                         W!list_add_tail(list_heads, W!sibling(n), W!children(p)),
                         W!tasks(n), W!tasks(W!init_task))
  PROVE  LET q == list_heads.prev[W!children(p)] IN
         /\ list_heads' \in WalkHeap
         /\ list_heads'.next[W!tasks(n)] = W!tasks(W!init_task)
         /\ list_heads'.next[W!tasks(n - 1)] = W!tasks(n)
         /\ \A t \in W!Tasks \ {n - 1, n} :
              list_heads'.next[W!tasks(t)] = list_heads.next[W!tasks(t)]
         /\ list_heads'.prev[W!tasks(W!init_task)] = W!tasks(n)
         /\ list_heads'.next[W!sibling(n)] = W!children(p)
         /\ list_heads'.next[q] = W!sibling(n)
         /\ list_heads'.prev[W!children(p)] = W!sibling(n)
         /\ \A t \in W!Tasks : W!children(t) # q =>
              list_heads'.next[W!children(t)] = list_heads.next[W!children(t)]
         /\ \A t \in W!Tasks \ {n} : W!sibling(t) # q =>
              list_heads'.next[W!sibling(t)] = list_heads.next[W!sibling(t)]
         /\ \A t \in W!Tasks \ {p} :
              list_heads'.prev[W!children(t)] = list_heads.prev[W!children(t)]
<1> DEFINE q == list_heads.prev[W!children(p)]
           m == W!list_add_tail(list_heads, W!sibling(n), W!children(p))
<1>0. /\ W!init_task \in W!Tasks /\ n - 1 \in W!Tasks /\ W!init_task # n /\ n - 1 # n
      /\ list_heads \in WalkHeap
  <2>1. W!init_task \in W!Tasks /\ n - 1 \in W!Tasks /\ W!init_task # n /\ n - 1 # n
    BY TaskWalkAssumption DEF W!Tasks, W!init_task
  <2> QED BY Zenon, <2>1 DEF W!TypeOK, WalkHeap
<1>1. \/ q = W!children(p)
      \/ \E u \in W!Tasks \ {n} : q = W!sibling(u)
  <2>1. \A u \in W!Child(p) : u \in W!Tasks \ {n}
    <3>1. alive \subseteq W!Tasks /\ n \notin alive
      BY TaskWalkAssumption DEF W!Tasks, W!init_task
    <3> QED BY Zenon, <3>1 DEF W!Child
  <2>2. W!IsLast(p, q)
    BY Zenon DEF W!ChildLists
  <2> QED BY Zenon, <2>1, <2>2 DEF W!IsLast
<1>2. /\ q \in W!Cells /\ q # W!sibling(n) /\ \A t \in W!Tasks : q # W!tasks(t)
  BY SMTT(30), <1>1, WalkCells
<1>3. /\ m \in WalkHeap
      /\ m.next[W!sibling(n)] = W!children(p) /\ m.prev[W!children(p)] = W!sibling(n)
      /\ m.next[q] = W!sibling(n)
      /\ \A d \in W!Cells \ {W!sibling(n), q} : m.next[d] = list_heads.next[d]
      /\ \A d \in W!Cells \ {W!sibling(n), W!children(p)} : m.prev[d] = list_heads.prev[d]
  <2>1. W!sibling(n) \in W!Cells /\ W!children(p) \in W!Cells /\ W!sibling(n) # W!children(p)
    BY Zenon, WalkCells
  <2> HIDE DEF q
  <2>2. list_heads.prev[W!children(p)] = q
    BY DEF q
  <2> HIDE DEF m
  <2> QED BY <1>0, <1>2, <2>1, <2>2, WalkAddTail DEF m
<1>4. list_heads.prev[W!tasks(W!init_task)] = W!tasks(n - 1)
  <2>1. PICK k \in 1 .. MAX_TASKS :
          alive = 0 .. (k - 1) /\ list_heads.prev[W!tasks(W!init_task)] = W!tasks(k - 1)
    BY Zenon DEF W!TaskList
  <2>2. k = n
    BY <2>1 DEF W!Tasks, W!init_task
  <2> QED BY Zenon, <2>1, <2>2
<1> HIDE DEF m, q
<1>5. m.prev[W!tasks(W!init_task)] = W!tasks(n - 1)
  <2>1. W!tasks(W!init_task) \in W!Cells \ {W!sibling(n), W!children(p)}
    BY SMTT(30), <1>0, WalkCells
  <2> QED BY Zenon, <1>3, <1>4, <2>1
<1>6. /\ list_heads' \in WalkHeap
      /\ list_heads'.next[W!tasks(n)] = W!tasks(W!init_task)
      /\ list_heads'.prev[W!tasks(W!init_task)] = W!tasks(n)
      /\ list_heads'.next[W!tasks(n - 1)] = W!tasks(n)
      /\ \A d \in W!Cells \ {W!tasks(n), W!tasks(n - 1)} : list_heads'.next[d] = m.next[d]
      /\ \A d \in W!Cells \ {W!tasks(n), W!tasks(W!init_task)} : list_heads'.prev[d] = m.prev[d]
  <2>1. /\ W!tasks(n) \in W!Cells /\ W!tasks(W!init_task) \in W!Cells /\ W!tasks(n - 1) \in W!Cells
        /\ W!tasks(n) # W!tasks(W!init_task) /\ W!tasks(n) # W!tasks(n - 1)
    BY <1>0, WalkCells
  <2>2. list_heads' = W!list_add_tail(m, W!tasks(n), W!tasks(W!init_task))
    BY Zenon DEF m
  <2> QED BY SMTT(30), <1>3, <1>5, <2>1, <2>2, WalkAddTail
<1>7. ASSUME NEW t \in W!Tasks
      PROVE  /\ t \notin {n - 1, n} =>
                  list_heads'.next[W!tasks(t)] = list_heads.next[W!tasks(t)]
             /\ W!children(t) # q =>
                  list_heads'.next[W!children(t)] = list_heads.next[W!children(t)]
             /\ t # n /\ W!sibling(t) # q =>
                  list_heads'.next[W!sibling(t)] = list_heads.next[W!sibling(t)]
             /\ t # p =>
                  list_heads'.prev[W!children(t)] = list_heads.prev[W!children(t)]
  <2>1. /\ W!tasks(t) \in W!Cells /\ W!children(t) \in W!Cells /\ W!sibling(t) \in W!Cells
        /\ W!tasks(t) # W!sibling(n) /\ W!children(t) # W!sibling(n) /\ W!tasks(t) # q
        /\ \A u \in W!Tasks : W!children(t) # W!tasks(u) /\ W!sibling(t) # W!tasks(u)
        /\ t # n => W!sibling(t) # W!sibling(n) /\ W!tasks(t) # W!tasks(n)
        /\ t # n - 1 => W!tasks(t) # W!tasks(n - 1)
        /\ t # p => W!children(t) # W!children(p)
    BY <1>0, <1>2, WalkCells
  <2> QED BY ZenonT(30), <1>0, <1>3, <1>6, <2>1
<1>8. /\ list_heads'.next[W!sibling(n)] = W!children(p)
      /\ list_heads'.next[q] = W!sibling(n)
      /\ list_heads'.prev[W!children(p)] = W!sibling(n)
  <2>1. /\ W!sibling(n) \in W!Cells /\ W!children(p) \in W!Cells
        /\ \A u \in W!Tasks : W!sibling(n) # W!tasks(u) /\ W!children(p) # W!tasks(u)
    BY WalkCells
  <2> QED BY Zenon, <1>0, <1>2, <1>3, <1>6, <2>1
<1> QED BY <1>6, <1>7, <1>8 DEF q

(* The new task in the tree and in the list of all tasks. *)
LEMMA WalkForkTree ==
  ASSUME W!IInv, NEW p \in W!Tasks, W!Fork(p)
  PROVE  W!TypeOK' /\ W!Tree' /\ W!TaskList'
<1>0. W!TypeOK /\ W!Tree /\ W!TaskList /\ W!ChildLists /\ MAX_TASKS \in Nat
  BY TaskWalkAssumption DEF W!IInv
<1>1. PICK n \in W!Tasks :
        /\ n >= 1 /\ alive = 0 .. (n - 1) /\ alive' = 0 .. n /\ p < n
        /\ parent' = [parent EXCEPT ![n] = p]
        /\ list_heads' = W!list_add_tail(
                           W!list_add_tail(list_heads, W!sibling(n), W!children(p)),
                           W!tasks(n), W!tasks(W!init_task))
        /\ UNCHANGED <<walk, task, stack, seen, first>>
  BY Zenon, <1>0, WalkForked
<1>2. /\ list_heads' \in WalkHeap
      /\ list_heads'.next[W!tasks(n)] = W!tasks(W!init_task)
      /\ list_heads'.next[W!tasks(n - 1)] = W!tasks(n)
      /\ \A t \in W!Tasks \ {n - 1, n} :
           list_heads'.next[W!tasks(t)] = list_heads.next[W!tasks(t)]
      /\ list_heads'.prev[W!tasks(W!init_task)] = W!tasks(n)
  BY Zenon, <1>0, <1>1, WalkLinks
<1>3. parent' \in [W!Tasks -> W!Tasks] /\ \A t \in W!Tasks \ {n} : parent'[t] = parent[t]
  BY Zenon, <1>0, <1>1 DEF W!TypeOK
<1>4. parent'[n] = p
  BY Zenon, <1>0, <1>1 DEF W!TypeOK
<1>5. /\ n + 1 \in 1 .. MAX_TASKS /\ alive' = 0 .. ((n + 1) - 1)
      /\ alive' = alive \cup {n} /\ alive' \subseteq W!Tasks /\ n \notin alive
      /\ p \in alive
  BY <1>0, <1>1 DEF W!Tasks, W!init_task
<1>6. W!TypeOK'
  <2>1. list_heads' \in [next : [W!Cells -> W!Cells], prev : [W!Cells -> W!Cells]]
    BY Zenon, <1>2 DEF WalkHeap
  <2> QED BY Zenon, <1>0, <1>1, <1>3, <1>5, <2>1 DEF W!TypeOK
<1>7. W!Tree'
  <2>1. \A t \in alive' \ {W!init_task} : parent'[t] \in alive' /\ parent'[t] < t
    <3> SUFFICES ASSUME NEW t \in alive' \ {W!init_task}
                 PROVE  parent'[t] \in alive' /\ parent'[t] < t
      BY Zenon
    <3>1. CASE t = n
      BY SMTT(30), <1>1, <1>4, <1>5, <3>1
    <3>2. CASE t # n
      <4>1. t \in alive \ {W!init_task} /\ t \in W!Tasks \ {n}
        BY Zenon, <1>5, <3>2
      <4>2. parent[t] \in alive /\ parent[t] < t /\ parent'[t] = parent[t]
        BY Zenon, <1>0, <1>3, <4>1 DEF W!Tree
      <4> QED BY Zenon, <1>5, <4>2
    <3> QED BY Zenon, <3>1, <3>2
  <2>2. W!init_task # n /\ W!init_task \in W!Tasks
    BY <1>1, TaskWalkAssumption DEF W!init_task, W!Tasks
  <2>3. \A t \in first : parent'[t] = parent[t]
    BY Zenon, <1>0, <1>3, <1>5 DEF W!TypeOK
  <2>4. first' = first /\ parent'[W!init_task] = W!init_task
    BY Zenon, <1>0, <1>1, <1>3, <2>2 DEF W!Tree
  <2>5. \A t \in first' : parent'[t] \in first'
    BY ZenonT(30), <1>0, <2>3, <2>4 DEF W!Tree
  <2> QED BY ZenonT(30), <2>1, <2>4, <2>5 DEF W!Tree
<1>8. W!TaskList'
  <2>1. \A t \in alive : list_heads.next[W!tasks(t)] =
                           W!tasks(IF t = n - 1 THEN W!init_task ELSE t + 1)
    <3>1. PICK k \in 1 .. MAX_TASKS :
            /\ alive = 0 .. (k - 1)
            /\ \A t \in alive : list_heads.next[W!tasks(t)] =
                                  W!tasks(IF t = k - 1 THEN W!init_task ELSE t + 1)
      BY Zenon, <1>0 DEF W!TaskList
    <3>2. k = n
      BY <1>1, <3>1 DEF W!Tasks, W!init_task
    <3> QED BY Zenon, <3>1, <3>2
  <2>2. \A t \in alive' : list_heads'.next[W!tasks(t)] =
                            W!tasks(IF t = (n + 1) - 1 THEN W!init_task ELSE t + 1)
    <3>0. n \in Nat /\ (n + 1) - 1 = n
      BY <1>1 DEF W!Tasks, W!init_task
    <3> SUFFICES ASSUME NEW t \in alive'
                 PROVE  list_heads'.next[W!tasks(t)] =
                          W!tasks(IF t = n THEN W!init_task ELSE t + 1)
      BY Zenon, <3>0
    <3>1. CASE t = n
      BY Zenon, <1>2, <3>1
    <3>2. CASE t = n - 1
      <4>1. t # n /\ t + 1 = n
        BY SMTT(30), <3>0, <3>2
      <4> QED BY Zenon, <1>2, <3>2, <4>1
    <3>3. CASE t \notin {n - 1, n}
      BY SMTT(30), <1>1, <1>2, <1>5, <2>1, <3>3
    <3> QED BY Zenon, <3>1, <3>2, <3>3
  <2>3. list_heads'.prev[W!tasks(W!init_task)] = W!tasks((n + 1) - 1)
    BY <1>1, <1>2 DEF W!Tasks, W!init_task
  <2> HIDE DEF W!TaskList
  <2> QED BY Zenon, <1>5, <2>2, <2>3 DEF W!TaskList
<1> QED BY <1>6, <1>7, <1>8

(* IsNext and IsLast, of a set C of children of p. *)
NextIn(C, p, i, c) ==
  \/ \E u \in C : /\ c = W!sibling(u) /\ i < u
                  /\ \A v \in C : i < v => u <= v
  \/ c = W!children(p) /\ \A v \in C : v <= i
LastIn(C, p, c) ==
  \/ \E u \in C : c = W!sibling(u) /\ \A v \in C : v <= u
  \/ c = W!children(p) /\ C = {}

(* What a new last child n does to the successor of a cell. *)
LEMMA WalkNextIn ==
  ASSUME NEW C \in SUBSET W!Tasks, NEW n \in W!Tasks, NEW p \in W!Tasks,
         NEW i \in W!Tasks,
         \A v \in C : v < n, i < n, NEW c
  PROVE  /\ NextIn(C, p, i, c) /\ c # W!children(p) => NextIn(C \cup {n}, p, i, c)
         /\ (\A v \in C : v <= i) => NextIn(C \cup {n}, p, i, W!sibling(n))
<1>0. \A t \in W!Tasks : t \in Int
  BY TaskWalkAssumption DEF W!Tasks, W!init_task
<1>1. ASSUME NextIn(C, p, i, c), c # W!children(p)
      PROVE  NextIn(C \cup {n}, p, i, c)
  <2>1. PICK u \in C : c = W!sibling(u) /\ i < u /\ \A v \in C : i < v => u <= v
    BY Zenon, <1>1 DEF NextIn
  <2>2. \A v \in C \cup {n} : i < v => u <= v
    BY <1>0, <2>1
  <2> QED BY Zenon, <2>1, <2>2 DEF NextIn
<1>2. ASSUME \A v \in C : v <= i PROVE NextIn(C \cup {n}, p, i, W!sibling(n))
  <2>1. \A v \in C \cup {n} : i < v => n <= v
    BY <1>0, <1>2
  <2> QED BY Zenon, <2>1 DEF NextIn
<1> QED BY Zenon, <1>1, <1>2

LEMMA WalkForkChildren ==
  ASSUME W!IInv, NEW p \in W!Tasks, W!Fork(p)
  PROVE  W!ChildLists'
<1>0. W!TypeOK /\ W!Tree /\ W!TaskList /\ W!ChildLists /\ MAX_TASKS \in Nat \ {0}
  BY TaskWalkAssumption DEF W!IInv
<1>1. PICK n \in W!Tasks :
        /\ n >= 1 /\ alive = 0 .. (n - 1) /\ alive' = 0 .. n /\ p < n
        /\ parent' = [parent EXCEPT ![n] = p]
        /\ list_heads' = W!list_add_tail(
                           W!list_add_tail(list_heads, W!sibling(n), W!children(p)),
                           W!tasks(n), W!tasks(W!init_task))
        /\ UNCHANGED <<walk, task, stack, seen, first>>
  BY Zenon, <1>0, WalkForked
<1> DEFINE q == list_heads.prev[W!children(p)]
<1>2. /\ list_heads'.next[W!sibling(n)] = W!children(p)
      /\ list_heads'.next[q] = W!sibling(n)
      /\ list_heads'.prev[W!children(p)] = W!sibling(n)
      /\ \A t \in W!Tasks : W!children(t) # q =>
           list_heads'.next[W!children(t)] = list_heads.next[W!children(t)]
      /\ \A t \in W!Tasks \ {n} : W!sibling(t) # q =>
           list_heads'.next[W!sibling(t)] = list_heads.next[W!sibling(t)]
      /\ \A t \in W!Tasks \ {p} :
           list_heads'.prev[W!children(t)] = list_heads.prev[W!children(t)]
  BY Zenon, <1>0, <1>1, WalkLinks
<1>3. /\ alive' = alive \cup {n} /\ alive \subseteq W!Tasks /\ n \notin alive
      /\ W!init_task \in W!Tasks /\ W!init_task < n /\ W!init_task = 0 /\ n # W!init_task
      /\ \A t \in W!Tasks : t \in Nat
      /\ \A t \in alive : t < n
  BY <1>0, <1>1 DEF W!Tasks, W!init_task
<1>4. ASSUME NEW r \in W!Tasks
      PROVE  /\ W!Child(r) \in SUBSET W!Tasks /\ \A v \in W!Child(r) : v < n /\ v # W!init_task
             /\ W!Child(r)' = IF r = p THEN W!Child(r) \cup {n} ELSE W!Child(r)
  <2>1. parent'[n] = p /\ \A t \in W!Tasks \ {n} : parent'[t] = parent[t]
    BY Zenon, <1>0, <1>1 DEF W!TypeOK
  <2>2. W!Child(r) \in SUBSET W!Tasks /\ \A v \in W!Child(r) : v < n /\ v # W!init_task
    BY Zenon, <1>3 DEF W!Child
  <2>3. ASSUME NEW t
        PROVE  t \in W!Child(r)' <=> t \in (IF r = p THEN W!Child(r) \cup {n} ELSE W!Child(r))
    <3>1. t \in W!Child(r)' <=> t \in alive' \ {W!init_task} /\ parent'[t] = r
      BY Zenon DEF W!Child
    <3>2. t \in W!Child(r) <=> t \in alive \ {W!init_task} /\ parent[t] = r
      BY Zenon DEF W!Child
    <3>3. CASE t = n
      BY SMTT(30), <1>3, <2>1, <3>1, <3>2, <3>3
    <3>4. CASE t # n
      BY Zenon, <1>3, <2>1, <3>1, <3>2, <3>4
    <3> QED BY <3>3, <3>4
  <2> QED BY Zenon, <2>2, <2>3
<1>5. ASSUME NEW r \in W!Tasks
      PROVE  /\ NextIn(W!Child(r), r, W!init_task, list_heads.next[W!children(r)])
             /\ LastIn(W!Child(r), r, list_heads.prev[W!children(r)])
             /\ \A t \in W!Child(r) : NextIn(W!Child(r), r, t, list_heads.next[W!sibling(t)])
  BY Zenon, <1>0 DEF W!ChildLists, W!IsNext, W!IsLast, NextIn, LastIn
<1>6. SUFFICES ASSUME NEW r \in W!Tasks
               PROVE  LET C == W!Child(r)' IN
                      /\ NextIn(C, r, W!init_task, list_heads'.next[W!children(r)])
                      /\ LastIn(C, r, list_heads'.prev[W!children(r)])
                      /\ \A t \in C : NextIn(C, r, t, list_heads'.next[W!sibling(t)])
  BY Zenon DEF W!ChildLists, W!IsNext, W!IsLast, NextIn, LastIn
<1>7. LastIn(W!Child(p), p, q)
  BY Zenon, <1>5
<1>8. CASE r # p
  <2>1. W!Child(r)' = W!Child(r)
    BY Zenon, <1>4, <1>8
  <2>2. \A u \in W!Child(p) : u \in W!Tasks /\ u \notin W!Child(r)
    BY Zenon, <1>4, <1>8 DEF W!Child
  <2>3. W!children(r) # q /\ \A t \in W!Child(r) : t \in W!Tasks \ {n} /\ W!sibling(t) # q
    <3>1. \/ q = W!children(p)
          \/ \E u \in W!Child(p) : q = W!sibling(u)
      BY Zenon, <1>7 DEF LastIn
    <3>2. \A t \in W!Child(r) : t \in W!Tasks \ {n}
      BY <1>3, <1>4
    <3> QED BY SMTT(30), <1>8, <2>2, <3>1, <3>2, WalkCells
  <2>4. NextIn(W!Child(r), r, W!init_task, list_heads'.next[W!children(r)])
    BY Zenon, <1>2, <1>5, <2>3
  <2>5. LastIn(W!Child(r), r, list_heads'.prev[W!children(r)])
    BY Zenon, <1>2, <1>5, <1>8
  <2>6. \A t \in W!Child(r) : NextIn(W!Child(r), r, t, list_heads'.next[W!sibling(t)])
    BY ZenonT(30), <1>2, <1>5, <2>3
  <2> QED BY ZenonT(30), <2>1, <2>4, <2>5, <2>6
<1>9. CASE r = p
  <2>1. W!Child(r)' = W!Child(p) \cup {n}
    BY Zenon, <1>4, <1>9
  <2> DEFINE C == W!Child(p) \cup {n}
  <2>0. \A v \in W!Child(p) : v \in W!Tasks /\ v \in Nat /\ v < n /\ v # W!init_task
    BY Zenon, <1>3, <1>4
  <2>2. LastIn(C, p, W!sibling(n))
    <3>1. \A v \in C : v <= n
      BY SMTT(20), <1>3, <2>0
    <3> QED BY Zenon, <3>1 DEF LastIn
  <2>3. NextIn(C, p, n, W!children(p))
    <3>1. \A v \in C : v <= n
      BY SMTT(20), <1>3, <2>0
    <3> QED BY Zenon, <3>1 DEF NextIn
  <2>4. NextIn(C, p, W!init_task, list_heads'.next[W!children(p)])
    <3>1. CASE W!Child(p) = {}
      <4>1. q = W!children(p)
        BY Zenon, <1>7, <3>1 DEF LastIn
      <4>2. NextIn(C, p, W!init_task, W!sibling(n))
        BY Zenon, <1>3, <1>4, <3>1, WalkNextIn
      <4> QED BY Zenon, <1>2, <4>1, <4>2
    <3>2. CASE W!Child(p) # {}
      <4>1. PICK u \in W!Child(p) : q = W!sibling(u)
        BY Zenon, <1>7, <3>2 DEF LastIn
      <4>2. u \in W!Tasks /\ ~(u <= W!init_task)
        BY SMTT(20), <1>3, <2>0
      <4>3. W!children(p) # q
        BY <4>1, <4>2, WalkCells
      <4>4. list_heads.next[W!children(p)] # W!children(p)
        <5>1. \A v \in W!Tasks : W!children(p) # W!sibling(v)
          BY WalkCells
        <5> QED BY Zenon, <1>4, <1>5, <4>2, <5>1 DEF NextIn
      <4>5. NextIn(C, p, W!init_task, list_heads.next[W!children(p)])
        BY Zenon, <1>3, <1>4, <1>5, <4>4, WalkNextIn
      <4> QED BY Zenon, <1>2, <4>3, <4>5
    <3> QED BY <3>1, <3>2
  <2>5. ASSUME NEW t \in W!Child(p)
        PROVE  NextIn(C, p, t, list_heads'.next[W!sibling(t)])
    <3>0. t \in W!Tasks \ {n} /\ t < n /\ \A v \in W!Tasks : W!children(p) # W!sibling(v)
      BY <1>3, <1>4, WalkCells
    <3>1. PICK u \in W!Child(p) : q = W!sibling(u) /\ \A v \in W!Child(p) : v <= u
      BY Zenon, <1>7, <2>5 DEF LastIn
    <3>2. CASE t = u
      <4>1. NextIn(C, p, t, W!sibling(n))
        BY Zenon, <1>4, <3>0, <3>1, <3>2, WalkNextIn
      <4> QED BY Zenon, <1>2, <3>1, <3>2, <4>1
    <3>3. CASE t # u
      <4>1. W!sibling(t) # q /\ ~(u <= t) /\ u \in W!Tasks
        BY <1>3, <1>4, <3>0, <3>1, <3>3, WalkCells
      <4>2. list_heads.next[W!sibling(t)] # W!children(p)
        BY Zenon, <1>4, <1>5, <3>0, <4>1 DEF NextIn
      <4>3. NextIn(C, p, t, list_heads.next[W!sibling(t)])
        BY Zenon, <1>4, <1>5, <3>0, <4>2, WalkNextIn
      <4> QED BY Zenon, <1>2, <3>0, <4>1, <4>3
    <3> QED BY <3>2, <3>3
  <2> QED BY Zenon, <1>2, <1>9, <2>1, <2>2, <2>3, <2>4, <2>5
<1> QED BY Zenon, <1>8, <1>9

(* What fork changes, as far as a walk can tell. *)
LEMMA WalkForkView ==
  ASSUME W!IInv, NEW p \in W!Tasks, W!Fork(p)
  PROVE  /\ UNCHANGED <<walk, task, stack, seen, first>>
         /\ \A t \in alive : t \in alive' /\ parent'[t] = parent[t]
<1>0. W!TypeOK /\ MAX_TASKS \in Nat \ {0}
  BY TaskWalkAssumption DEF W!IInv
<1>1. PICK n \in W!Tasks :
        /\ n >= 1 /\ alive = 0 .. (n - 1) /\ alive' = 0 .. n /\ p < n
        /\ parent' = [parent EXCEPT ![n] = p]
        /\ UNCHANGED <<walk, task, stack, seen, first>>
  BY Zenon, <1>0, WalkForked
<1>2. alive \subseteq alive' /\ alive \subseteq W!Tasks /\ n \notin alive
  BY <1>0, <1>1 DEF W!Tasks, W!init_task
<1>3. \A t \in W!Tasks \ {n} : parent'[t] = parent[t]
  BY Zenon, <1>0, <1>1 DEF W!TypeOK
<1> QED BY Zenon, <1>1, <1>2, <1>3

(* A fork disturbs no walk. *)
LEMMA WalkForkKeeps ==
  ASSUME W!IInv, NEW p \in W!Tasks, W!Fork(p)
  PROVE  /\ W!Linear' /\ W!Path' /\ W!Ahead' /\ W!Behind' /\ W!EveryTaskOnce'
         /\ walk' = "no" => seen' = << >> /\ stack' = << >> /\ first' = {}
<1>0. /\ W!TypeOK /\ W!Linear /\ W!Path /\ W!Ahead /\ W!Behind /\ W!EveryTaskOnce
      /\ walk = "no" => seen = << >> /\ stack = << >> /\ first = {}
      /\ first \subseteq alive
  BY DEF W!IInv, W!TypeOK
<1>1. /\ UNCHANGED <<walk, task, stack, seen, first>>
      /\ \A t \in alive : t \in alive' /\ parent'[t] = parent[t]
  BY Zenon, WalkForkView
<1>2. /\ walk' = walk /\ stack' = stack /\ seen' = seen /\ first' = first
      /\ W!Printed' = W!Printed /\ W!Active' = W!Active
      /\ W!Returned' = W!Returned /\ W!Top' = W!Top
  BY Zenon, <1>1 DEF W!Printed, W!Active, W!Returned, W!Top
<1>3. W!Linear'
  BY <1>0, <1>1 DEF W!Linear
<1>4. W!EveryTaskOnce'
  <2>1. \A j, k \in 1 .. Len(seen) : seen[j] = seen[k] => j = k
    BY Zenon, <1>0 DEF W!EveryTaskOnce
  <2>2. walk = "done" => first \ {W!init_task} \subseteq W!Printed
    BY Zenon, <1>0 DEF W!EveryTaskOnce
  <2> QED BY Zenon, <1>2, <2>1, <2>2 DEF W!EveryTaskOnce
<1>5. ASSUME walk' = "dfs" PROVE W!Path' /\ W!Ahead' /\ W!Behind'
  <2>0. /\ walk = "dfs" /\ W!Printed \subseteq alive
    BY Zenon, <1>0, <1>2, <1>5 DEF W!Path
  <2>1. W!Path'
    <3>1. \A k \in 2 .. Len(stack) :
            /\ stack[k].task \in alive' \ {W!init_task}
            /\ parent'[stack[k].task] = stack[k - 1].task
            /\ stack[k - 1].pos = W!sibling(stack[k].task)
      BY Zenon, <1>0, <1>1, <2>0 DEF W!Path
    <3>2. W!Printed \subseteq alive' /\ \A t \in W!Printed : parent'[t] \in W!Printed
      BY Zenon, <1>0, <1>1, <2>0 DEF W!Path
    <3>3. /\ Len(stack) >= 1 /\ stack[1].task = W!init_task
          /\ \A j, k \in 1 .. Len(stack) : j < k => stack[j].task < stack[k].task
          /\ W!Active \subseteq W!Printed
      BY Zenon, <1>0, <2>0 DEF W!Path
    <3> QED BY Zenon, <1>2, <3>1, <3>2, <3>3 DEF W!Path
  <2>2. W!Ahead'
    <3>1. \/ W!Top.pos = W!children(W!Top.task)
          \/ \E u \in alive' \ {W!init_task} :
               parent'[u] = W!Top.task /\ W!Top.pos = W!sibling(u) /\ u \notin W!Printed
      BY Zenon, <1>0, <1>1, <2>0 DEF W!Ahead
    <3>2. \A k \in 1 .. Len(stack) :
            \A u \in W!Tasks : \A v \in alive' \ {W!init_task} :
              parent'[v] = stack[k].task /\ stack[k].pos = W!sibling(u) /\ u < v =>
                v \notin W!Printed
      BY Zenon, <1>0, <1>1, <2>0 DEF W!Ahead
    <3> QED BY Zenon, <1>2, <3>1, <3>2 DEF W!Ahead
  <2>3. W!Behind'
    <3>1. \A t \in first : parent'[t] = parent[t]
      BY Zenon, <1>0, <1>1
    <3>2. /\ \A k \in 1 .. Len(stack) : \A t \in first \ {W!init_task} :
                  /\ parent'[t] = stack[k].task
                  /\ \A u \in W!Tasks : stack[k].pos = W!sibling(u) => t < u
                  => t \in W!Returned
          /\ \A t \in first \ {W!init_task} : parent'[t] \in W!Returned => t \in W!Returned
      BY Zenon, <1>0, <2>0, <3>1 DEF W!Behind
    <3>3. /\ \A k \in 1 .. Len(stack') : \A t \in first' \ {W!init_task} :
                  /\ parent'[t] = stack'[k].task
                  /\ \A u \in W!Tasks : stack'[k].pos = W!sibling(u) => t < u
                  => t \in W!Returned'
          /\ \A t \in first' \ {W!init_task} : parent'[t] \in W!Returned' => t \in W!Returned'
      BY <1>2, <3>2
    <3> QED BY Zenon, <3>3 DEF W!Behind
  <2> QED BY <2>1, <2>2, <2>3
<1>6. walk' # "dfs" => W!Path' /\ W!Ahead' /\ W!Behind'
  BY Zenon DEF W!Path, W!Ahead, W!Behind
<1> QED BY Zenon, <1>0, <1>2, <1>3, <1>4, <1>5, <1>6

(* The lists and the tree stay when a walk takes a step. *)
LEMMA WalkStructure ==
  ASSUME W!IInv, UNCHANGED <<list_heads, alive, parent>>, first' \in {first,
         alive}
  PROVE  W!Tree' /\ W!TaskList' /\ W!ChildLists'
<1>0. W!TypeOK /\ W!Tree /\ W!TaskList /\ W!ChildLists
  BY DEF W!IInv
<1>1. list_heads' = list_heads /\ alive' = alive /\ parent' = parent
  OBVIOUS
<1>2. W!Tree'
  <2>1. /\ \A t \in alive \ {W!init_task} : parent[t] \in alive /\ parent[t] < t
        /\ parent[W!init_task] = W!init_task /\ \A t \in first : parent[t] \in first
    BY Zenon, <1>0 DEF W!Tree
  <2>2. W!init_task \in alive
    BY <1>0 DEF W!TypeOK, W!init_task
  <2>3. \A t \in first' : parent[t] \in first'
    <3>1. CASE first' = first
      BY Zenon, <2>1, <3>1
    <3>2. CASE first' = alive
      BY Zenon, <2>1, <2>2, <3>2
    <3> QED BY <3>1, <3>2
  <2> QED BY Zenon, <1>1, <2>1, <2>3 DEF W!Tree
<1>3. W!TaskList'
  BY Zenon, <1>0, <1>1 DEF W!TaskList
<1>4. W!ChildLists'
  <2>1. \A r : W!Child(r)' = W!Child(r)
    BY Zenon, <1>1 DEF W!Child
  <2> QED BY Zenon, <1>0, <1>1, <2>1 DEF W!ChildLists, W!IsNext, W!IsLast
<1> QED BY <1>2, <1>3, <1>4

(* The task behind t in the list of all tasks. *)
LEMMA WalkNextTask ==
  ASSUME W!IInv, NEW t \in alive
  PROVE  LET u == list_heads.next[W!tasks(t)][2] IN
         /\ u \in W!Tasks
         /\ u # W!init_task => u \in alive /\ u = t + 1
         /\ u = W!init_task => \A v \in alive : v <= t
<1>1. PICK n \in 1 .. MAX_TASKS :
        /\ alive = 0 .. (n - 1)
        /\ list_heads.next[W!tasks(t)] = W!tasks(IF t = n - 1 THEN W!init_task ELSE t + 1)
  BY Zenon DEF W!IInv, W!TaskList
<1> DEFINE u == IF t = n - 1 THEN W!init_task ELSE t + 1
<1>2. /\ u \in W!Tasks
      /\ u # W!init_task => u \in alive /\ u = t + 1
      /\ u = W!init_task => \A v \in alive : v <= t
  BY <1>1, TaskWalkAssumption DEF W!Tasks, W!init_task
<1>3. W!tasks(u)[2] = u
  BY Zenon, <1>2, WalkCells
<1>4. list_heads.next[W!tasks(t)][2] = u
  BY Zenon, <1>1, <1>3
<1> HIDE DEF u
<1> QED BY Zenon, <1>2, <1>4

(* A task that is printed. *)
LEMMA WalkPrints ==
  ASSUME W!TypeOK, NEW t \in W!Tasks, seen' = Append(seen, t)
  PROVE  /\ seen' \in Seq(W!Tasks) /\ Len(seen') = Len(seen) + 1
         /\ seen'[Len(seen) + 1] = t
         /\ \A k \in 1 .. Len(seen) : seen'[k] = seen[k]
         /\ W!Printed' = W!Printed \cup {t}
<1>0. seen \in Seq(W!Tasks)
  BY DEF W!TypeOK
<1>1. /\ seen' \in Seq(W!Tasks) /\ Len(seen') = Len(seen) + 1
      /\ seen'[Len(seen) + 1] = t
      /\ \A k \in 1 .. Len(seen) : seen'[k] = seen[k]
      /\ Len(seen) \in Nat
  BY <1>0
<1>2. ASSUME NEW x
      PROVE  x \in W!Printed' <=> x \in W!Printed \cup {t}
  <2>1. x \in W!Printed' <=> \E k \in 1 .. Len(seen') : x = seen'[k]
    BY Zenon DEF W!Printed
  <2>2. x \in W!Printed <=> \E k \in 1 .. Len(seen) : x = seen[k]
    BY Zenon DEF W!Printed
  <2> QED BY <1>1, <2>1, <2>2
<1> QED BY Zenon, <1>1, <1>2

(* The steps of the walk of the list. *)
LEMMA WalkLinear ==
  ASSUME W!IInv, W!LoadLinear \/ W!EachProcess \/ W!LinearDone
  PROVE  W!IInv'
<1>0. /\ W!TypeOK /\ W!Linear /\ W!EveryTaskOnce /\ first \subseteq alive
      /\ W!init_task \in alive /\ W!init_task = 0 /\ \A t \in alive : t \in Nat
      /\ seen \in Seq(W!Tasks) /\ Len(seen) \in Nat
      /\ walk = "no" => seen = << >>
  BY TaskWalkAssumption DEF W!IInv, W!TypeOK, W!init_task
<1>1. /\ UNCHANGED <<list_heads, alive, parent, stack>> /\ first' \in {first, alive}
      /\ walk' \in {"linear", "done"}
  BY DEF W!LoadLinear, W!EachProcess, W!LinearDone
<1>2. W!Tree' /\ W!TaskList' /\ W!ChildLists'
  BY Zenon, <1>1, WalkStructure
<1>3. W!Path' /\ W!Ahead' /\ W!Behind' /\ walk' # "no"
  BY <1>1 DEF W!Path, W!Ahead, W!Behind
<1>4. ASSUME task' \in W!Tasks, seen' \in Seq(W!Tasks) PROVE W!TypeOK'
  BY Zenon, <1>0, <1>1, <1>4 DEF W!TypeOK
<1>5. CASE W!LoadLinear
  <2> DEFINE u == list_heads.next[W!tasks(W!init_task)][2]
  <2>1. /\ u \in W!Tasks /\ (u # W!init_task => u \in alive /\ u = W!init_task + 1)
        /\ u = W!init_task => \A v \in alive : v <= W!init_task
    BY Zenon, <1>0, WalkNextTask
  <2>2. /\ task' = u /\ first' = alive /\ alive' = alive /\ walk' = "linear"
        /\ seen' = << >>
    BY <1>0, <1>5 DEF W!LoadLinear
  <2> HIDE DEF u
  <2>3. W!Linear'
    BY <1>0, <2>1, <2>2 DEF W!Linear
  <2>4. W!EveryTaskOnce'
    BY <2>2 DEF W!EveryTaskOnce
  <2>5. W!TypeOK'
    BY ZenonT(30), <1>0, <1>4, <1>5, <2>1, <2>2 DEF W!LoadLinear
  <2> QED BY Zenon, <1>2, <1>3, <2>3, <2>4, <2>5 DEF W!IInv
<1>6. CASE W!EachProcess
  <2> DEFINE u == list_heads.next[W!tasks(task)][2]
  <2>0. /\ walk = "linear" /\ task # W!init_task /\ task \in alive
        /\ task = Len(seen) + 1 /\ \A k \in 1 .. Len(seen) : seen[k] = k
        /\ task \in W!Tasks
    BY Zenon, <1>0, <1>6 DEF W!EachProcess, W!Linear, W!TypeOK
  <2>1. /\ u \in W!Tasks /\ (u # W!init_task => u \in alive /\ u = task + 1)
        /\ u = W!init_task => \A v \in alive : v <= task
    BY Zenon, <2>0, WalkNextTask
  <2>2. /\ task' = u /\ first' = first /\ alive' = alive /\ walk' = "linear"
        /\ seen' = Append(seen, task)
    BY <1>6, <2>0 DEF W!EachProcess
  <2> HIDE DEF u
  <2>3. /\ seen' \in Seq(W!Tasks) /\ Len(seen') = Len(seen) + 1
        /\ seen'[Len(seen) + 1] = task
        /\ \A k \in 1 .. Len(seen) : seen'[k] = seen[k]
    BY Zenon, <1>0, <2>0, <2>2, WalkPrints
  <2>4. \A k \in 1 .. Len(seen') : seen'[k] = k
    BY <1>0, <2>0, <2>3
  <2>5. W!Linear'
    BY <1>0, <2>0, <2>1, <2>2, <2>3, <2>4 DEF W!Linear
  <2>6. W!EveryTaskOnce'
    BY <2>2, <2>4 DEF W!EveryTaskOnce
  <2>7. W!TypeOK'
    BY Zenon, <1>4, <2>1, <2>2, <2>3
  <2> QED BY Zenon, <1>2, <1>3, <2>5, <2>6, <2>7 DEF W!IInv
<1>7. CASE W!LinearDone
  <2>1. /\ walk = "linear" /\ task = W!init_task /\ walk' = "done"
        /\ task' = task /\ seen' = seen /\ first' = first
    BY <1>7 DEF W!LinearDone
  <2>2. /\ \A k \in 1 .. Len(seen) : seen[k] = k
        /\ \A t \in first : t <= Len(seen)
    BY Zenon, <1>0, <2>1 DEF W!Linear
  <2>3. \A t \in first \ {W!init_task} : t \in W!Printed
    BY <1>0, <2>2 DEF W!Printed
  <2>4. W!Printed' = W!Printed
    BY Zenon, <2>1 DEF W!Printed
  <2>5. \A j, k \in 1 .. Len(seen) : seen[j] = seen[k] => j = k
    BY <2>2
  <2>6. W!EveryTaskOnce'
    BY Zenon, <2>1, <2>3, <2>4, <2>5 DEF W!EveryTaskOnce
  <2>7. W!Linear'
    BY <2>1 DEF W!Linear
  <2>8. W!TypeOK'
    BY Zenon, <1>0, <1>4, <2>1 DEF W!TypeOK
  <2> QED BY Zenon, <1>2, <1>3, <2>6, <2>7, <2>8 DEF W!IInv
<1> QED BY <1>5, <1>6, <1>7

Frame == [task : W!Tasks, pos : W!Cells]

(* A call of dfs_task_iter. *)
LEMMA WalkCalls ==
  ASSUME W!TypeOK, NEW t \in W!Tasks, W!Call(t)
  PROVE  LET n == Len(stack) + 1 IN
         /\ stack' \in Seq(Frame) /\ Len(stack') = n
         /\ stack'[n].task = t /\ stack'[n].pos = list_heads.next[W!children(t)]
         /\ \A k \in 1 .. Len(stack) : stack'[k] = stack[k]
         /\ W!Active' = W!Active \cup {t} /\ W!Top' = stack'[n]
<1>0. stack \in Seq(Frame) /\ list_heads.next[W!children(t)] \in W!Cells
  <2>1. W!children(t) \in W!Cells
    BY Zenon, WalkCells
  <2> QED BY Zenon, <2>1 DEF W!TypeOK, Frame
<1> DEFINE f == [task |-> t, pos |-> list_heads.next[W!children(t)]]
           n == Len(stack) + 1
<1>1. /\ f \in Frame /\ f.task = t /\ f.pos = list_heads.next[W!children(t)]
      /\ stack' = Append(stack, f)
  BY Zenon, <1>0 DEF Frame, W!Call
<1> HIDE DEF f
<1>2. /\ stack' \in Seq(Frame) /\ Len(stack') = n /\ stack'[n] = f
      /\ \A k \in 1 .. Len(stack) : stack'[k] = stack[k]
      /\ Len(stack) \in Nat /\ n = Len(stack) + 1
  BY <1>0, <1>1
<1> HIDE DEF n
<1>3. ASSUME NEW x
      PROVE  x \in W!Active' <=> x \in W!Active \cup {t}
  <2>1. x \in W!Active' <=> \E k \in 1 .. Len(stack') : x = stack'[k].task
    BY Zenon DEF W!Active
  <2>2. x \in W!Active <=> \E k \in 1 .. Len(stack) : x = stack[k].task
    BY Zenon DEF W!Active
  <2>3. \A k : k \in 1 .. Len(stack') <=> k \in 1 .. Len(stack) \/ k = n
    BY <1>2
  <2> QED BY Zenon, <1>1, <1>2, <2>1, <2>2, <2>3
<1>4. W!Top' = stack'[n]
  BY Zenon, <1>2 DEF W!Top
<1>5. W!Active' = W!Active \cup {t}
  BY Zenon, <1>3
<1> QED BY Zenon, <1>1, <1>2, <1>4, <1>5 DEF n

(* The cell behind i in the list of the children of r, where i is a child  *)
(* or init_task for the head.                                              *)
LEMMA WalkNextChild ==
  ASSUME W!IInv, NEW r \in W!Tasks, NEW i \in W!Tasks, NEW c \in W!Cells,
         \/ i = W!init_task /\ c = list_heads.next[W!children(r)]
         \/ i \in W!Child(r) /\ c = list_heads.next[W!sibling(i)]
  PROVE  \/ /\ c = W!children(r)
            /\ \A v \in alive \ {W!init_task} : parent[v] = r => v <= i
         \/ \E u \in alive \ {W!init_task} :
              /\ parent[u] = r /\ c = W!sibling(u) /\ i < u
              /\ \A v \in alive \ {W!init_task} : parent[v] = r /\ i < v => u <= v
<1>1. W!IsNext(r, i, c)
  BY Zenon DEF W!IInv, W!ChildLists
<1> QED BY Zenon, <1>1 DEF W!IsNext, W!Child

(* The first call, for init_task. *)
LEMMA WalkLoadDfs ==
  ASSUME W!IInv, W!LoadDfs
  PROVE  W!IInv'
<1>0. /\ W!TypeOK /\ W!Tree /\ W!init_task \in W!Tasks /\ W!init_task \in alive /\ W!init_task = 0
      /\ seen = << >> /\ stack = << >> /\ walk' = "dfs" /\ first' = alive
      /\ W!Call(W!init_task) /\ UNCHANGED <<list_heads, alive, parent, task>>
      /\ alive \subseteq W!Tasks /\ \A t \in W!Tasks : t \in Nat
  <2>1. W!TypeOK /\ W!Tree /\ walk = "no"
    BY Zenon DEF W!IInv, W!LoadDfs
  <2>2. /\ seen = << >> /\ stack = << >> /\ walk' = "dfs" /\ first' = alive
        /\ W!Call(W!init_task) /\ UNCHANGED <<list_heads, alive, parent, task>>
    BY Zenon, <2>1 DEF W!IInv, W!LoadDfs
  <2>3. /\ W!init_task \in W!Tasks /\ W!init_task \in alive /\ W!init_task = 0
        /\ alive \subseteq W!Tasks /\ \A t \in W!Tasks : t \in Nat
    BY <2>1, TaskWalkAssumption DEF W!TypeOK, W!Tasks, W!init_task
  <2> QED BY Zenon, <2>1, <2>2, <2>3
<1>1. W!Tree' /\ W!TaskList' /\ W!ChildLists'
  BY Zenon, <1>0, WalkStructure
<1>2. /\ seen' \in Seq(W!Tasks) /\ Len(seen') = 1 /\ W!Printed' = {W!init_task}
  <2>1. /\ seen' = Append(seen, W!init_task) /\ Len(seen) = 0 /\ W!Printed = {}
    BY <1>0 DEF W!Call, W!Printed
  <2> QED BY <1>0, <2>1, WalkPrints
<1> DEFINE c == list_heads.next[W!children(W!init_task)]
<1>3. /\ stack' \in Seq(Frame) /\ Len(stack') = 1 /\ stack'[1].task = W!init_task
      /\ stack'[1].pos = c /\ W!Active' = {W!init_task} /\ W!Top' = stack'[1]
  <2>1. Len(stack) = 0 /\ W!Active = {}
    BY <1>0 DEF W!Active
  <2> QED BY <1>0, <2>1, WalkCalls
<1>4. \/ /\ c = W!children(W!init_task)
         /\ \A v \in alive \ {W!init_task} : parent[v] = W!init_task => v <= W!init_task
      \/ \E u \in alive \ {W!init_task} :
           /\ parent[u] = W!init_task /\ c = W!sibling(u) /\ W!init_task < u
           /\ \A v \in alive \ {W!init_task} :
                parent[v] = W!init_task /\ W!init_task < v => u <= v
  <2>1. c \in W!Cells
    BY Zenon, <1>0, WalkCells DEF W!TypeOK
  <2>2. c = list_heads.next[W!children(W!init_task)]
    BY Zenon
  <2> HIDE DEF c
  <2> QED BY <1>0, <2>1, <2>2, WalkNextChild
<1> HIDE DEF c
<1>5. W!TypeOK'
  BY Zenon, <1>0, <1>2, <1>3 DEF W!TypeOK, Frame
<1>6. W!Path'
  BY <1>0, <1>2, <1>3 DEF W!Path, W!Tree
<1>7. W!Ahead'
  <2>1. \/ c = W!children(W!init_task)
        \/ \E u \in alive \ {W!init_task} :
             parent[u] = W!init_task /\ c = W!sibling(u) /\ u \notin {W!init_task}
    BY Zenon, <1>4
  <2>2. \A v \in alive \ {W!init_task} : v \notin {W!init_task}
    OBVIOUS
  <2> QED BY Zenon, <1>0, <1>2, <1>3, <2>1, <2>2 DEF W!Ahead
<1>8. W!Behind'
  <2>0. W!Returned' = {}
    BY Zenon, <1>2, <1>3 DEF W!Returned
  <2>1. ASSUME NEW t \in alive \ {W!init_task}, parent[t] = W!init_task,
               \A u \in W!Tasks : c = W!sibling(u) => t < u
        PROVE  FALSE
    <3>1. t \in Nat /\ t > W!init_task /\ \A u \in alive : u \in W!Tasks /\ u \in Nat
      BY <1>0
    <3> QED BY <1>0, <1>4, <2>1, <3>1
  <2> QED BY <1>0, <1>3, <2>0, <2>1 DEF W!Behind
<1>9. W!Linear' /\ W!EveryTaskOnce' /\ walk' # "no"
  BY <1>0, <1>2 DEF W!Linear, W!EveryTaskOnce
<1> QED BY Zenon, <1>1, <1>5, <1>6, <1>7, <1>8, <1>9 DEF W!IInv

(* The call for the child under the cursor. *)
LEMMA WalkEachChild ==
  ASSUME W!IInv, W!EachChild
  PROVE  W!IInv'
<1>0. /\ W!TypeOK /\ W!Tree /\ W!Path /\ W!Ahead /\ W!Behind /\ W!EveryTaskOnce /\ walk = "dfs"
      /\ walk' = "dfs" /\ UNCHANGED <<list_heads, alive, parent, task, first>>
      /\ W!Top.pos # W!children(W!Top.task) /\ W!Call(W!Top.pos[2])
  <2>1. /\ walk = "dfs" /\ W!Top.pos # W!children(W!Top.task) /\ W!Call(W!Top.pos[2])
        /\ UNCHANGED <<list_heads, alive, parent, walk, task, first>>
    BY Zenon DEF W!EachChild
  <2> QED BY Zenon, <2>1 DEF W!IInv
<1>1. W!Tree' /\ W!TaskList' /\ W!ChildLists'
  BY Zenon, <1>0, WalkStructure
<1>2. /\ alive \subseteq W!Tasks /\ \A t \in W!Tasks : t \in Nat
      /\ first \subseteq alive /\ W!init_task = 0
      /\ stack \in Seq(Frame) /\ Len(stack) \in Nat /\ Len(stack) >= 1
      /\ seen \in Seq(W!Tasks) /\ Len(seen) \in Nat
  <2>1. /\ \E n \in 1 .. MAX_TASKS : alive = 0 .. (n - 1)
        /\ first \subseteq alive /\ seen \in Seq(W!Tasks)
    BY Zenon, <1>0 DEF W!TypeOK
  <2>2. stack \in Seq(Frame) /\ Len(stack) >= 1
    BY Zenon, <1>0 DEF W!TypeOK, Frame, W!Path
  <2> QED BY <2>1, <2>2, TaskWalkAssumption DEF W!Tasks, W!init_task
<1> DEFINE n == Len(stack)
<1>3. PICK u \in alive \ {W!init_task} :
        parent[u] = W!Top.task /\ W!Top.pos = W!sibling(u) /\ u \notin W!Printed
  BY Zenon, <1>0 DEF W!Ahead
<1>4. u \in W!Tasks /\ W!Top.pos[2] = u /\ W!Call(u) /\ W!Top = stack[n]
  <2>1. u \in W!Tasks /\ W!sibling(u)[2] = u
    BY Zenon, <1>2, WalkCells
  <2> QED BY Zenon, <1>0, <1>3, <2>1 DEF W!Top
<1> DEFINE c == list_heads.next[W!children(u)]
<1>5. /\ stack' \in Seq(Frame) /\ Len(stack') = n + 1
      /\ stack'[n + 1].task = u /\ stack'[n + 1].pos = c
      /\ \A k \in 1 .. n : stack'[k] = stack[k]
      /\ W!Active' = W!Active \cup {u} /\ W!Top' = stack'[n + 1]
  BY Zenon, <1>0, <1>4, WalkCalls
<1>6. /\ seen' \in Seq(W!Tasks) /\ Len(seen') = Len(seen) + 1
      /\ seen'[Len(seen) + 1] = u
      /\ \A k \in 1 .. Len(seen) : seen'[k] = seen[k]
      /\ W!Printed' = W!Printed \cup {u}
  <2>1. seen' = Append(seen, u)
    BY Zenon, <1>4 DEF W!Call
  <2> QED BY Zenon, <1>0, <1>4, <2>1, WalkPrints
<1>7. \/ /\ c = W!children(u)
         /\ \A v \in alive \ {W!init_task} : parent[v] = u => v <= W!init_task
      \/ \E w \in alive \ {W!init_task} :
           /\ parent[w] = u /\ c = W!sibling(w) /\ W!init_task < w
           /\ \A v \in alive \ {W!init_task} :
                parent[v] = u /\ W!init_task < v => w <= v
  <2>1. c \in W!Cells /\ W!init_task \in W!Tasks
    <3>1. W!children(u) \in W!Cells
      BY Zenon, <1>4, WalkCells
    <3>2. W!init_task \in W!Tasks
      BY TaskWalkAssumption DEF W!Tasks, W!init_task
    <3> QED BY Zenon, <1>0, <3>1, <3>2 DEF W!TypeOK
  <2>2. c = list_heads.next[W!children(u)]
    BY Zenon
  <2> HIDE DEF c
  <2> QED BY <1>4, <2>1, <2>2, WalkNextChild
<1> HIDE DEF c, n
<1>8. /\ n \in Nat /\ n >= 1 /\ \A k \in 1 .. (n + 1) : k \in 1 .. n \/ k = n + 1
      /\ n = Len(stack)
  BY <1>2 DEF n
<1>9. \A v \in alive : parent[v] = u => v \notin W!Printed /\ v # u
  <2>1. \A t \in W!Printed : parent[t] \in W!Printed
    BY Zenon, <1>0 DEF W!Path
  <2>2. parent[u] # u
    BY <1>0, <1>2, <1>3 DEF W!Tree
  <2> QED BY Zenon, <1>3, <2>1, <2>2
<1>10. W!TypeOK'
  BY Zenon, <1>0, <1>5, <1>6 DEF W!TypeOK, Frame
<1>11. /\ \A k \in 1 .. n : stack'[k].task = stack[k].task /\ stack'[k].pos = stack[k].pos
       /\ \A k \in 1 .. n : stack[k].task \in Nat
       /\ \A k \in 1 .. n : stack[k].task <= stack[n].task
       /\ parent[u] = stack[n].task /\ parent[u] < u /\ stack[n].pos = W!sibling(u)
       /\ u \in Nat /\ n \in 1 .. n
  <2>1. \A j, k \in 1 .. n : j < k => stack[j].task < stack[k].task
    BY Zenon, <1>0, <1>8 DEF W!Path
  <2>2. \A k \in 1 .. n : stack[k].task \in Nat
    <3>1. \A k \in 1 .. n : stack[k] \in Frame
      BY SMTT(20), <1>2, <1>8
    <3> QED BY Zenon, <1>2, <3>1 DEF Frame
  <2>3. \A k \in 1 .. n : stack[k].task <= stack[n].task
    BY <1>8, <2>1, <2>2
  <2>4. parent[u] < u
    BY Zenon, <1>0, <1>3 DEF W!Tree
  <2>5. \A k \in 1 .. n : stack'[k].task = stack[k].task /\ stack'[k].pos = stack[k].pos
    BY Zenon, <1>5
  <2>6. u \in Nat /\ n \in 1 .. n
    BY <1>2, <1>3, <1>8
  <2>7. parent[u] = stack[n].task /\ stack[n].pos = W!sibling(u)
    BY Zenon, <1>3, <1>4
  <2> QED BY ZenonT(30), <2>2, <2>3, <2>4, <2>5, <2>6, <2>7
<1>12. W!Path'
  <2>1. Len(stack') >= 1 /\ stack'[1].task = W!init_task
    <3>1. stack[1].task = W!init_task /\ 1 \in 1 .. n
      BY <1>0, <1>8 DEF W!Path
    <3> QED BY SMTT(30), <1>5, <1>8, <1>11, <3>1
  <2>2. ASSUME NEW k \in 2 .. Len(stack')
        PROVE  /\ stack'[k].task \in alive \ {W!init_task}
               /\ parent[stack'[k].task] = stack'[k - 1].task
               /\ stack'[k - 1].pos = W!sibling(stack'[k].task)
    <3>1. CASE k = n + 1
      <4>1. k - 1 = n
        BY <1>8, <3>1
      <4> QED BY Zenon, <1>3, <1>5, <1>11, <3>1, <4>1
    <3>2. CASE k # n + 1
      <4>1. k \in 2 .. n /\ k \in 1 .. n /\ k - 1 \in 1 .. n
        BY <1>5, <1>8, <3>2
      <4>2. /\ stack[k].task \in alive \ {W!init_task}
            /\ parent[stack[k].task] = stack[k - 1].task
            /\ stack[k - 1].pos = W!sibling(stack[k].task)
        BY Zenon, <1>0, <1>8, <4>1 DEF W!Path
      <4> QED BY Zenon, <1>11, <4>1, <4>2
    <3> QED BY <3>1, <3>2
  <2>3. ASSUME NEW j \in 1 .. Len(stack'), NEW k \in 1 .. Len(stack'), j < k
        PROVE  stack'[j].task < stack'[k].task
    <3>1. CASE k = n + 1
      BY <1>5, <1>8, <1>11, <2>3, <3>1
    <3>2. CASE k # n + 1
      <4>1. j \in 1 .. n /\ k \in 1 .. n
        BY <1>5, <1>8, <2>3, <3>2
      <4>2. stack[j].task < stack[k].task
        BY Zenon, <1>0, <1>8, <2>3, <4>1 DEF W!Path
      <4> QED BY Zenon, <1>11, <4>1, <4>2
    <3> QED BY <3>1, <3>2
  <2>4. /\ W!Active' \subseteq W!Printed' /\ W!Printed' \subseteq alive
        /\ \A t \in W!Printed' : parent[t] \in W!Printed'
    <3>1. /\ W!Active \subseteq W!Printed /\ W!Printed \subseteq alive
          /\ \A t \in W!Printed : parent[t] \in W!Printed
      BY Zenon, <1>0 DEF W!Path
    <3>2. parent[u] \in W!Printed
      BY Zenon, <1>8, <1>11, <3>1 DEF W!Active
    <3> QED BY Zenon, <1>3, <1>5, <1>6, <3>1, <3>2
  <2>5. alive' = alive /\ parent' = parent
    BY <1>0
  <2> QED BY Zenon, <2>1, <2>2, <2>3, <2>4, <2>5 DEF W!Path
<1>13. W!Ahead'
  <2>1. \/ W!Top'.pos = W!children(W!Top'.task)
        \/ \E w \in alive \ {W!init_task} :
             parent[w] = W!Top'.task /\ W!Top'.pos = W!sibling(w) /\ w \notin W!Printed'
    BY ZenonT(40), <1>5, <1>6, <1>7, <1>9
  <2>2. ASSUME NEW k \in 1 .. Len(stack'), NEW w \in W!Tasks,
               NEW v \in alive \ {W!init_task},
               parent[v] = stack'[k].task, stack'[k].pos = W!sibling(w), w < v
        PROVE  v \notin W!Printed'
    <3>1. CASE k = n + 1
      BY Zenon, <1>5, <1>6, <1>9, <2>2, <3>1
    <3>2. CASE k # n + 1
      <4>1. k \in 1 .. n
        BY <1>5, <1>8, <3>2
      <4>2. parent[v] = stack[k].task /\ stack[k].pos = W!sibling(w)
        BY Zenon, <1>11, <2>2, <4>1
      <4>3. v \notin W!Printed
        BY Zenon, <1>0, <1>8, <2>2, <4>1, <4>2 DEF W!Ahead
      <4>4. v # u
        <5>1. CASE k = n
          <6>1. w = u
            BY SMTT(30), <1>4, <1>11, <4>2, <5>1, WalkCells
          <6> QED BY SMTT(30), <1>11, <2>2, <6>1
        <5>2. CASE k # n
          <6>1. stack[k].task < stack[n].task
            <7>1. k < n
              BY SMTT(30), <1>8, <4>1, <5>2
            <7> QED BY Zenon, <1>0, <1>8, <1>11, <4>1, <7>1 DEF W!Path
          <6> QED BY SMTT(30), <1>11, <4>1, <4>2, <6>1
        <5> QED BY <5>1, <5>2
      <4> QED BY Zenon, <1>6, <4>3, <4>4
    <3> QED BY <3>1, <3>2
  <2>3. alive' = alive /\ parent' = parent
    BY <1>0
  <2> QED BY Zenon, <2>1, <2>2, <2>3 DEF W!Ahead
<1>14. W!Behind'
  <2>0. W!Returned' = W!Returned
    <3>1. W!Returned' = W!Printed' \ W!Active' /\ W!Returned = W!Printed \ W!Active
      BY Zenon DEF W!Returned
    <3> QED BY SMTT(30), <1>3, <1>5, <1>6, <3>1
  <2>1. ASSUME NEW k \in 1 .. Len(stack'), NEW t \in first \ {W!init_task},
               parent[t] = stack'[k].task,
               \A w \in W!Tasks : stack'[k].pos = W!sibling(w) => t < w
        PROVE  t \in W!Returned
    <3>1. CASE k = n + 1
      <4>1. parent[t] = u /\ t \in alive \ {W!init_task} /\ t \in Nat /\ t > W!init_task
        BY <1>2, <1>5, <2>1, <3>1
      <4>2. \A w \in W!Tasks : c = W!sibling(w) => t < w
        BY Zenon, <1>5, <2>1, <3>1
      <4> QED BY SMTT(30), <1>2, <1>7, <4>1, <4>2
    <3>2. CASE k # n + 1
      <4>1. k \in 1 .. n
        BY <1>5, <1>8, <3>2
      <4>2. /\ parent[t] = stack[k].task
            /\ \A w \in W!Tasks : stack[k].pos = W!sibling(w) => t < w
        BY Zenon, <1>11, <2>1, <4>1
      <4> QED BY Zenon, <1>0, <1>8, <4>1, <4>2 DEF W!Behind
    <3> QED BY SMTT(30), <3>1, <3>2
  <2>2. \A t \in first \ {W!init_task} : parent[t] \in W!Returned => t \in W!Returned
    BY Zenon, <1>0 DEF W!Behind
  <2>3. first' = first /\ parent' = parent
    BY SMTT(30), <1>0
  <2> QED BY ZenonT(40), <2>0, <2>1, <2>2, <2>3 DEF W!Behind
<1>15. W!Linear' /\ W!EveryTaskOnce' /\ walk' # "no"
  <2>1. ASSUME NEW j \in 1 .. Len(seen'), NEW k \in 1 .. Len(seen'),
               seen'[j] = seen'[k]
        PROVE  j = k
    <3>1. \A i \in 1 .. Len(seen) : seen[i] # u
      BY Zenon, <1>3 DEF W!Printed
    <3>2. \A i, l \in 1 .. Len(seen) : seen[i] = seen[l] => i = l
      BY Zenon, <1>0 DEF W!EveryTaskOnce
    <3>3. \A i \in 1 .. Len(seen') : i \in 1 .. Len(seen) \/ i = Len(seen) + 1
      BY <1>2, <1>6
    <3> QED BY Zenon, <1>6, <2>1, <3>1, <3>2, <3>3
  <2> QED BY <1>0, <2>1 DEF W!Linear, W!EveryTaskOnce
<1> QED BY Zenon, <1>1, <1>10, <1>12, <1>13, <1>14, <1>15 DEF W!IInv

(* A sequence with one element changed. *)
LEMMA SequenceExcept ==
  ASSUME NEW T, NEW s \in Seq(T), NEW n \in 1 .. Len(s), NEW f \in T
  PROVE  LET s1 == [s EXCEPT ![n] = f] IN
         /\ s1 \in Seq(T) /\ Len(s1) = Len(s) /\ s1[n] = f
         /\ \A k \in 1 .. Len(s) : k # n => s1[k] = s[k]
OBVIOUS

(* The stack when a call returns to another. *)
LEMMA WalkPops ==
  ASSUME W!TypeOK, NEW n \in Nat, n >= 1, Len(stack) = n + 1, NEW c \in W!Cells,
         stack' = [SubSeq(stack, 1, n) EXCEPT ![n].pos = c],
         \A k \in 1 .. n : stack[k].task # stack[n + 1].task
  PROVE  /\ stack' \in Seq(Frame) /\ Len(stack') = n
         /\ \A k \in 1 .. (n - 1) : stack'[k] = stack[k]
         /\ stack'[n].task = stack[n].task /\ stack'[n].pos = c
         /\ W!Active' = W!Active \ {stack[n + 1].task} /\ W!Top' = stack'[n]
<1>0. stack \in Seq(Frame)
  BY Zenon DEF W!TypeOK, Frame
<1> DEFINE s == SubSeq(stack, 1, n)
           f == [stack[n] EXCEPT !.pos = c]
<1>1. /\ s \in Seq(Frame) /\ Len(s) = n /\ \A k \in 1 .. n : s[k] = stack[k]
      /\ n \in 1 .. n /\ stack[n] \in Frame
  BY <1>0
<1>2. f \in Frame /\ f.task = stack[n].task /\ f.pos = c
  BY Zenon, <1>1 DEF Frame
<1>3. stack' = [s EXCEPT ![n] = f]
  BY Zenon, <1>1
<1> HIDE DEF s, f
<1>4. /\ stack' \in Seq(Frame) /\ Len(stack') = n /\ stack'[n] = f
      /\ \A k \in 1 .. (n - 1) : stack'[k] = stack[k]
  <2>1. /\ stack' \in Seq(Frame) /\ Len(stack') = n /\ stack'[n] = f
        /\ \A k \in 1 .. n : k # n => stack'[k] = s[k]
    <3>1. n \in 1 .. Len(s)
      BY Zenon, <1>1
    <3> DEFINE s1 == [s EXCEPT ![n] = f]
    <3>2. /\ s1 \in Seq(Frame) /\ Len(s1) = Len(s) /\ s1[n] = f
          /\ \A k \in 1 .. Len(s) : k # n => s1[k] = s[k]
      BY <1>1, <1>2, <3>1, SequenceExcept
    <3>3. stack' = s1
      BY Zenon, <1>3
    <3> HIDE DEF s1
    <3> QED BY Zenon, <1>1, <3>2, <3>3
  <2>2. \A k \in 1 .. (n - 1) : k \in 1 .. n /\ k # n
    OBVIOUS
  <2> QED BY Zenon, <1>1, <2>1, <2>2
<1>5. \A k \in 1 .. n : stack'[k].task = stack[k].task
  <2>1. \A k \in 1 .. n : k = n \/ k \in 1 .. (n - 1)
    BY <1>1
  <2> QED BY Zenon, <1>2, <1>4, <2>1
<1>6. ASSUME NEW x
      PROVE  x \in W!Active' <=> x \in W!Active \ {stack[n + 1].task}
  <2>1. x \in W!Active' <=> \E k \in 1 .. n : x = stack'[k].task
    BY Zenon, <1>4 DEF W!Active
  <2>2. x \in W!Active <=> \E k \in 1 .. (n + 1) : x = stack[k].task
    BY Zenon DEF W!Active
  <2>3. \A k : k \in 1 .. (n + 1) <=> k \in 1 .. n \/ k = n + 1
    OBVIOUS
  <2> QED BY Zenon, <1>5, <2>1, <2>2, <2>3
<1>7. W!Active' = W!Active \ {stack[n + 1].task} /\ W!Top' = stack'[n]
  BY Zenon, <1>4, <1>6 DEF W!Top
<1> QED BY Zenon, <1>2, <1>4, <1>7

(* A set of numbers has a least one. *)
LEMMA LeastNumber ==
  ASSUME NEW A \in SUBSET Nat, A # {}
  PROVE  \E n \in A : \A m \in A : n <= m
<1>1. PICK n \in A : \A m \in A : ~(<<m, n>> \in OpToRel(<, Nat))
  BY Zenon, NatLessThanWellFounded, WFMin
<1>2. ASSUME NEW m \in A PROVE n <= m
  <2>1. ~(m < n)
    BY Zenon, <1>1 DEF OpToRel
  <2> QED BY <2>1
<1> QED BY Zenon, <1>2

(* The return of the first call: the walk has printed every task. *)
LEMMA WalkReturnLast ==
  ASSUME W!IInv, W!Return, Len(stack) = 1
  PROVE  W!IInv'
<1>0. /\ W!TypeOK /\ W!Tree /\ W!Path /\ W!Behind /\ W!EveryTaskOnce /\ walk = "dfs"
      /\ walk' = "done" /\ stack' = << >> /\ W!Top.pos = W!children(W!Top.task)
      /\ UNCHANGED <<list_heads, alive, parent, task, seen, first>>
  BY DEF W!IInv, W!Return
<1>1. W!Tree' /\ W!TaskList' /\ W!ChildLists'
  BY Zenon, <1>0, WalkStructure
<1>2. W!TypeOK'
  <2>1. stack' \in Seq([task : W!Tasks, pos : W!Cells])
    BY <1>0
  <2> QED BY Zenon, <1>0, <2>1 DEF W!TypeOK
<1>3. /\ stack[1].task = W!init_task /\ stack[1].pos = W!children(W!init_task)
      /\ W!Top = stack[1] /\ W!Active = {W!init_task} /\ W!init_task \in W!Printed
      /\ W!init_task \in W!Tasks /\ W!init_task = 0
  <2>1. stack[1].task = W!init_task /\ W!Active \subseteq W!Printed
    BY Zenon, <1>0 DEF W!Path
  <2>2. W!Top = stack[1]
    BY Zenon DEF W!Top
  <2>3. W!Active = {W!init_task}
    BY <2>1 DEF W!Active
  <2>4. W!init_task \in W!Tasks /\ W!init_task = 0
    BY TaskWalkAssumption DEF W!Tasks, W!init_task
  <2> QED BY Zenon, <1>0, <2>1, <2>2, <2>3, <2>4
<1>4. \A t \in first \ {W!init_task} : parent[t] \in W!Printed => t \in W!Printed
  <2> SUFFICES ASSUME NEW t \in first \ {W!init_task}, parent[t] \in W!Printed
               PROVE  t \in W!Printed
    BY Zenon
  <2>1. CASE parent[t] = W!init_task
    <3>1. \A u \in W!Tasks : stack[1].pos # W!sibling(u)
      BY <1>3, WalkCells
    <3>2. 1 \in 1 .. Len(stack)
      OBVIOUS
    <3>3. t \in W!Returned
      BY Zenon, <1>0, <1>3, <2>1, <3>1, <3>2 DEF W!Behind
    <3> QED BY Zenon, <3>3 DEF W!Returned
  <2>2. CASE parent[t] # W!init_task
    <3>1. parent[t] \in W!Returned
      BY Zenon, <1>3, <2>2 DEF W!Returned
    <3>2. t \in W!Returned
      BY Zenon, <1>0, <3>1 DEF W!Behind
    <3> QED BY Zenon, <3>2 DEF W!Returned
  <2> QED BY <2>1, <2>2
<1>5. first \ {W!init_task} \subseteq W!Printed
  <2> DEFINE A == first \ W!Printed
  <2>0. \A t \in first : /\ t \in Nat /\ parent[t] \in first
                         /\ t # W!init_task => parent[t] < t
    <3>1. first \subseteq alive /\ \A t \in alive : t \in Nat
      BY <1>0 DEF W!TypeOK
    <3> QED BY Zenon, <1>0, <3>1 DEF W!Tree
  <2> SUFFICES ASSUME A # {} PROVE FALSE
    BY Zenon
  <2>1. A \in SUBSET Nat
    BY Zenon, <2>0
  <2>2. PICK t \in A : \A u \in A : t <= u
    BY Zenon, <2>1, LeastNumber
  <2>3. t # W!init_task
    BY Zenon, <1>3
  <2>4. parent[t] \in first /\ ~(t <= parent[t])
    BY <2>0, <2>3
  <2>5. parent[t] \in W!Printed
    BY Zenon, <2>2, <2>4
  <2> QED BY Zenon, <1>4, <2>3, <2>5
<1>6. W!EveryTaskOnce'
  <2>1. W!Printed' = W!Printed /\ seen' = seen /\ first' = first
    BY Zenon, <1>0 DEF W!Printed
  <2>2. \A j, k \in 1 .. Len(seen) : seen[j] = seen[k] => j = k
    BY ZenonT(40), <1>0 DEF W!EveryTaskOnce
  <2> QED BY Zenon, <1>5, <2>1, <2>2 DEF W!EveryTaskOnce
<1>7. W!Linear' /\ W!Path' /\ W!Ahead' /\ W!Behind' /\ walk' # "no"
  BY <1>0 DEF W!Linear, W!Path, W!Ahead, W!Behind
<1> QED BY Zenon, <1>1, <1>2, <1>6, <1>7 DEF W!IInv

(* The return to another call, which goes on with the next child. *)
LEMMA WalkReturn ==
  ASSUME W!IInv, W!Return, Len(stack) # 1
  PROVE  W!IInv'
<1> DEFINE n == Len(stack) - 1
           t == W!Top.task
           p == stack[n].task
           c == list_heads.next[stack[n].pos]
<1>0. /\ W!TypeOK /\ W!Tree /\ W!Path /\ W!Ahead /\ W!Behind /\ W!EveryTaskOnce /\ walk = "dfs"
      /\ UNCHANGED <<list_heads, alive, parent, task, seen, first>>
      /\ W!Top.pos = W!children(W!Top.task)
  BY Zenon DEF W!IInv, W!Return
<1>1. W!Tree' /\ W!TaskList' /\ W!ChildLists'
  BY Zenon, <1>0, WalkStructure
<1>2. /\ stack \in Seq(Frame) /\ Len(stack) \in Nat /\ Len(stack) >= 1
      /\ n \in Nat /\ n >= 1 /\ Len(stack) = n + 1 /\ n \in 1 .. Len(stack)
      /\ n + 1 \in 1 .. Len(stack) /\ n + 1 \in 2 .. Len(stack)
  <2>1. stack \in Seq(Frame) /\ Len(stack) >= 1
    BY Zenon, <1>0 DEF W!TypeOK, Frame, W!Path
  <2>2. Len(stack) \in Nat
    BY <2>1
  <2>3. \A l \in Nat : l >= 1 /\ l # 1 =>
          /\ l - 1 \in Nat /\ l - 1 >= 1 /\ l = (l - 1) + 1 /\ l - 1 \in 1 .. l
          /\ (l - 1) + 1 \in 1 .. l /\ (l - 1) + 1 \in 2 .. l
    OBVIOUS
  <2> QED BY Zenon, <2>1, <2>2, <2>3
<1>3. walk' = "dfs" /\ stack' = [SubSeq(stack, 1, n) EXCEPT ![n].pos = c]
  <2>1. n # 0
    BY <1>2
  <2> QED BY Zenon, <1>0, <2>1 DEF W!Return
<1>4. t = stack[n + 1].task /\ W!Top.pos = stack[n + 1].pos
  BY Zenon, <1>2 DEF W!Top
<1>5. /\ alive \subseteq W!Tasks /\ \A v \in W!Tasks : v \in Nat
      /\ first \subseteq alive /\ W!init_task = 0
  <2>1. first \subseteq alive /\ \E m \in 1 .. MAX_TASKS : alive = 0 .. (m - 1)
    BY Zenon, <1>0 DEF W!TypeOK
  <2> QED BY <2>1, TaskWalkAssumption DEF W!Tasks, W!init_task
<1> HIDE DEF n, t
<1>6. /\ t \in alive \ {W!init_task} /\ parent[t] = p /\ stack[n].pos = W!sibling(t)
      /\ t \in W!Tasks /\ p \in W!Tasks
  <2>1. (n + 1) - 1 = n
    BY <1>2
  <2>2. t \in alive \ {W!init_task} /\ parent[t] = p /\ stack[n].pos = W!sibling(t)
    BY Zenon, <1>0, <1>2, <1>4, <2>1 DEF W!Path
  <2>3. stack[n] \in Frame
    BY <1>2
  <2> QED BY Zenon, <1>5, <2>2, <2>3 DEF Frame
<1>7. c \in W!Cells /\ c = list_heads.next[W!sibling(t)] /\ t \in W!Child(p)
  <2>1. W!sibling(t) \in W!Cells
    BY ZenonT(40), <1>6, WalkCells
  <2> QED BY Zenon, <1>0, <1>6, <2>1 DEF W!TypeOK, W!Child
<1> HIDE DEF c, p
<1>8. \/ /\ c = W!children(p)
         /\ \A v \in alive \ {W!init_task} : parent[v] = p => v <= t
      \/ \E u \in alive \ {W!init_task} :
           /\ parent[u] = p /\ c = W!sibling(u) /\ t < u
           /\ \A v \in alive \ {W!init_task} : parent[v] = p /\ t < v => u <= v
  BY SMTT(30), <1>6, <1>7, WalkNextChild
<1>9. \A k \in 1 .. n : stack[k].task # t
  <2>1. \A j, k \in 1 .. Len(stack) : j < k => stack[j].task < stack[k].task
    BY ZenonT(40), <1>0 DEF W!Path
  <2>2. ASSUME NEW k \in 1 .. n PROVE stack[k].task < t
    <3>1. k \in 1 .. Len(stack) /\ n + 1 \in 1 .. Len(stack) /\ k < n + 1
      BY SMTT(30), <1>2
    <3> QED BY Zenon, <1>4, <2>1, <3>1
  <2> QED BY <1>5, <1>6, <2>2
<1>10. /\ stack' \in Seq(Frame) /\ Len(stack') = n
       /\ \A k \in 1 .. (n - 1) : stack'[k] = stack[k]
       /\ stack'[n].task = p /\ stack'[n].pos = c
       /\ W!Active' = W!Active \ {t} /\ W!Top' = stack'[n]
  <2>1. \A k \in 1 .. n : stack[k].task # stack[n + 1].task
    BY Zenon, <1>4, <1>9
  <2>2. /\ W!TypeOK /\ n \in Nat /\ n >= 1 /\ Len(stack) = n + 1 /\ c \in W!Cells
        /\ stack' = [SubSeq(stack, 1, n) EXCEPT ![n].pos = c]
    BY Zenon, <1>0, <1>2, <1>3, <1>7
  <2>3. /\ stack' \in Seq(Frame) /\ Len(stack') = n
        /\ \A k \in 1 .. (n - 1) : stack'[k] = stack[k]
        /\ stack'[n].task = stack[n].task /\ stack'[n].pos = c
        /\ W!Active' = W!Active \ {stack[n + 1].task} /\ W!Top' = stack'[n]
    BY Zenon, <2>1, <2>2, WalkPops
  <2> QED BY Zenon, <1>4, <2>3 DEF p
<1>11. /\ W!Printed' = W!Printed /\ alive' = alive /\ parent' = parent /\ first' = first
       /\ seen' = seen
  BY Zenon, <1>0 DEF W!Printed
<1>12. /\ \A k \in 1 .. n : stack'[k].task = stack[k].task
       /\ \A k \in 1 .. n : k # n => stack'[k].pos = stack[k].pos
       /\ \A k \in 1 .. n : k \in 1 .. Len(stack)
  <2>1. \A k \in 1 .. n : k # n => k \in 1 .. (n - 1)
    BY <1>2
  <2>2. \A k \in 1 .. n : k \in 1 .. Len(stack)
    BY <1>2
  <2> QED BY Zenon, <1>10, <2>1, <2>2 DEF p
<1>13. W!TypeOK'
  BY Zenon, <1>0, <1>3, <1>10 DEF W!TypeOK, Frame
<1>14. W!Path'
  <2>1. Len(stack') >= 1 /\ stack'[1].task = W!init_task
    <3>1. stack[1].task = W!init_task /\ 1 \in 1 .. n
      BY <1>0, <1>2 DEF W!Path
    <3> QED BY SMTT(30), <1>2, <1>10, <1>12, <3>1
  <2>2. ASSUME NEW k \in 2 .. Len(stack')
        PROVE  /\ stack'[k].task \in alive \ {W!init_task}
               /\ parent[stack'[k].task] = stack'[k - 1].task
               /\ stack'[k - 1].pos = W!sibling(stack'[k].task)
    <3>1. /\ k \in 2 .. Len(stack) /\ k \in 1 .. n
          /\ k - 1 \in 1 .. n /\ k - 1 # n
      BY <1>2, <1>10
    <3>2. /\ stack[k].task \in alive \ {W!init_task}
          /\ parent[stack[k].task] = stack[k - 1].task
          /\ stack[k - 1].pos = W!sibling(stack[k].task)
      BY Zenon, <1>0, <3>1 DEF W!Path
    <3> QED BY Zenon, <1>12, <3>1, <3>2
  <2>3. \A j, k \in 1 .. Len(stack') : j < k => stack'[j].task < stack'[k].task
    BY Zenon, <1>0, <1>10, <1>12 DEF W!Path
  <2>4. /\ W!Active' \subseteq W!Printed /\ W!Printed \subseteq alive
        /\ \A v \in W!Printed : parent[v] \in W!Printed
    BY Zenon, <1>0, <1>10 DEF W!Path
  <2> QED BY Zenon, <1>11, <2>1, <2>2, <2>3, <2>4 DEF W!Path
<1>15. \A v \in alive \ {W!init_task} : parent[v] = p /\ t < v => v \notin W!Printed
  BY Zenon, <1>0, <1>2, <1>6 DEF W!Ahead, p
<1>16. W!Ahead'
  <2>1. \/ W!Top'.pos = W!children(W!Top'.task)
        \/ \E u \in alive \ {W!init_task} :
             parent[u] = W!Top'.task /\ W!Top'.pos = W!sibling(u) /\ u \notin W!Printed
    BY Zenon, <1>8, <1>10, <1>15
  <2>2. ASSUME NEW k \in 1 .. Len(stack'), NEW w \in W!Tasks,
               NEW v \in alive \ {W!init_task},
               parent[v] = stack'[k].task, stack'[k].pos = W!sibling(w), w < v
        PROVE  v \notin W!Printed
    <3>1. CASE k = n
      <4>1. parent[v] = p /\ c = W!sibling(w)
        BY Zenon, <1>10, <2>2, <3>1
      <4>2. t < w
        <5>1. c # W!children(p)
          BY <1>6, <4>1, WalkCells
        <5>2. PICK u \in alive \ {W!init_task} : c = W!sibling(u) /\ t < u
          BY Zenon, <1>8, <5>1
        <5>3. u = w
          BY Zenon, <1>5, <4>1, <5>2, WalkCells
        <5> QED BY SMTT(30), <5>2, <5>3
      <4>3. t < v
        BY <1>5, <1>6, <2>2, <4>2
      <4> QED BY Zenon, <1>15, <4>1, <4>3
    <3>2. CASE k # n
      <4>1. /\ k \in 1 .. Len(stack)
            /\ parent[v] = stack[k].task /\ stack[k].pos = W!sibling(w)
        BY Zenon, <1>10, <1>12, <2>2, <3>2
      <4> QED BY Zenon, <1>0, <2>2, <4>1 DEF W!Ahead
    <3> QED BY <3>1, <3>2
  <2> QED BY Zenon, <1>11, <2>1, <2>2 DEF W!Ahead
<1>17. W!Returned' = W!Returned \cup {t}
  <2>1. t \in W!Active /\ W!Active \subseteq W!Printed
    BY Zenon, <1>0, <1>2, <1>4 DEF W!Active, W!Path
  <2>2. W!Returned' = W!Printed' \ W!Active' /\ W!Returned = W!Printed \ W!Active
    BY Zenon DEF W!Returned
  <2> QED BY <1>10, <1>11, <2>1, <2>2
<1>18. W!Behind'
  <2>1. ASSUME NEW k \in 1 .. Len(stack'), NEW v \in first \ {W!init_task},
               parent[v] = stack'[k].task,
               \A w \in W!Tasks : stack'[k].pos = W!sibling(w) => v < w
        PROVE  v \in W!Returned \cup {t}
    <3>1. CASE k = n
      <4>1. parent[v] = p /\ v \in alive \ {W!init_task} /\ v \in Nat /\ t \in Nat
        BY Zenon, <1>5, <1>6, <1>10, <2>1, <3>1
      <4>2. \A w \in W!Tasks : c = W!sibling(w) => v < w
        BY Zenon, <1>10, <2>1, <3>1
      <4>3. v <= t
        <5>1. ASSUME NEW u \in alive \ {W!init_task}, c = W!sibling(u),
                     t < v => u <= v
              PROVE  v <= t
          <6>1. u \in W!Tasks /\ u \in Nat /\ v < u
            BY Zenon, <1>5, <4>2, <5>1
          <6> QED BY <4>1, <5>1, <6>1
        <5> QED BY Zenon, <1>8, <4>1, <5>1
      <4>4. CASE v = t
        BY <4>4
      <4>5. CASE v # t
        <5>1. \A w \in W!Tasks : stack[n].pos = W!sibling(w) => v < w
          <6>1. v < t
            BY <4>1, <4>3, <4>5
          <6> QED BY Zenon, <1>6, <6>1, WalkCells
        <5>2. v \in W!Returned
          BY Zenon, <1>0, <1>2, <4>1, <5>1 DEF W!Behind, p
        <5> QED BY <5>2
      <4> QED BY <4>4, <4>5
    <3>2. CASE k # n
      <4>1. /\ k \in 1 .. Len(stack)
            /\ parent[v] = stack[k].task
            /\ \A w \in W!Tasks : stack[k].pos = W!sibling(w) => v < w
        BY Zenon, <1>10, <1>12, <2>1, <3>2
      <4>2. v \in W!Returned
        BY Zenon, <1>0, <4>1 DEF W!Behind
      <4> QED BY <4>2
    <3> QED BY <3>1, <3>2
  <2>2. ASSUME NEW v \in first \ {W!init_task},
               parent[v] \in W!Returned \cup {t}
        PROVE  v \in W!Returned \cup {t}
    <3>1. CASE parent[v] = t
      <4>1. \A w \in W!Tasks : stack[n + 1].pos # W!sibling(w)
        BY SMTT(30), <1>0, <1>4, <1>6, WalkCells DEF t
      <4>2. v \in W!Returned
        BY ZenonT(40), <1>0, <1>2, <1>4, <3>1, <4>1 DEF W!Behind
      <4> QED BY SMTT(30), <4>2
    <3>2. CASE parent[v] \in W!Returned
      BY <1>0, <3>2 DEF W!Behind
    <3> QED BY <2>2, <3>1, <3>2
  <2> QED BY Zenon, <1>11, <1>17, <2>1, <2>2 DEF W!Behind
<1>19. W!EveryTaskOnce' /\ W!Linear' /\ walk' # "no"
  <2>1. \A j, k \in 1 .. Len(seen) : seen[j] = seen[k] => j = k
    BY Zenon, <1>0 DEF W!EveryTaskOnce
  <2>2. W!EveryTaskOnce'
    BY <1>3, <1>11, <2>1 DEF W!EveryTaskOnce
  <2> QED BY <1>3, <2>2 DEF W!Linear
<1> QED BY Zenon, <1>1, <1>13, <1>14, <1>16, <1>18, <1>19 DEF W!IInv

(* In the first state there is init_task alone, its lists are empty, and   *)
(* nothing walks.                                                          *)
LEMMA WalkInit ==
  ASSUME W!Init
  PROVE  W!IInv
<1>0. /\ MAX_TASKS \in Nat \ {0} /\ W!init_task = 0 /\ W!init_task \in W!Tasks
      /\ W!Tasks = 0 .. (MAX_TASKS - 1)
  BY TaskWalkAssumption DEF W!Tasks, W!init_task
<1>1. /\ list_heads = [next |-> [c \in W!Cells |-> c], prev |-> [c \in W!Cells |-> c]]
      /\ alive = {W!init_task} /\ parent = [t \in W!Tasks |-> W!init_task]
      /\ walk = "no" /\ task = W!init_task
      /\ stack = << >> /\ seen = << >> /\ first = {}
  BY Zenon DEF W!Init
<1>2. /\ 1 \in 1 .. MAX_TASKS /\ 0 .. (1 - 1) = {0}
  BY <1>0
<1>3. alive = 0 .. (1 - 1)
  BY Zenon, <1>0, <1>1, <1>2
<1>4. \A c \in W!Cells : list_heads.next[c] = c /\ list_heads.prev[c] = c
  BY <1>1
<1>5. \A t \in W!Tasks : W!children(t) \in W!Cells /\ W!tasks(t) \in W!Cells
  BY Zenon, WalkCells
<1>6. W!TypeOK
  <2>1. list_heads \in [next : [W!Cells -> W!Cells], prev : [W!Cells -> W!Cells]]
    BY <1>1
  <2>2. parent \in [W!Tasks -> W!Tasks] /\ task \in W!Tasks /\ first \subseteq alive
    BY Zenon, <1>0, <1>1
  <2>3. stack \in Seq([task : W!Tasks, pos : W!Cells]) /\ seen \in Seq(W!Tasks)
    BY <1>1
  <2> QED BY Zenon, <1>1, <1>2, <1>3, <2>1, <2>2, <2>3 DEF W!TypeOK
<1>7. W!Tree
  BY Zenon, <1>0, <1>1 DEF W!Tree
<1>8. W!TaskList
  <2>1. \A t \in alive : list_heads.next[W!tasks(t)] =
                           W!tasks(IF t = 1 - 1 THEN W!init_task ELSE t + 1)
    <3>1. \A t \in alive : t = W!init_task /\ t = 1 - 1
      BY <1>0, <1>1
    <3> QED BY Zenon, <1>0, <1>4, <1>5, <3>1
  <2>2. list_heads.prev[W!tasks(W!init_task)] = W!tasks(1 - 1)
    <3>1. 1 - 1 = W!init_task
      BY <1>0
    <3> QED BY Zenon, <1>0, <1>4, <1>5, <3>1
  <2> QED BY Zenon, <1>2, <1>3, <2>1, <2>2 DEF W!TaskList
<1>9. W!ChildLists
  <2>1. \A p \in W!Tasks : W!Child(p) = {}
    BY Zenon, <1>1 DEF W!Child
  <2> QED BY Zenon, <1>4, <1>5, <2>1 DEF W!ChildLists, W!IsNext, W!IsLast
<1>10. W!Linear /\ W!Path /\ W!Ahead /\ W!Behind
  BY Zenon, <1>1 DEF W!Linear, W!Path, W!Ahead, W!Behind
<1>11. W!EveryTaskOnce
  <2>1. \A j \in 1 .. Len(seen) : FALSE
    BY <1>1
  <2> QED BY Zenon, <1>1, <2>1 DEF W!EveryTaskOnce
<1> QED BY Zenon, <1>1, <1>6, <1>7, <1>8, <1>9, <1>10, <1>11 DEF W!IInv

(* The inductive invariant of the two walks: the lists are in the order of *)
(* the forks, and the cursors split the tasks into those printed and those *)
(* ahead.                                                                  *)
THEOREM TaskWalkInvariant == W!Spec => []W!IInv
<1>1. W!Init => W!IInv
  BY Zenon, WalkInit
<1>2. W!IInv /\ [W!Next]_(W!vars) => W!IInv'
  <2> SUFFICES ASSUME W!IInv, [W!Next]_(W!vars) PROVE W!IInv'
    OBVIOUS
  <2>1. ASSUME NEW p \in W!Tasks, W!Fork(p) PROVE W!IInv'
    <3>1. W!TypeOK' /\ W!Tree' /\ W!TaskList'
      BY Zenon, <2>1, WalkForkTree
    <3>2. W!ChildLists'
      BY Zenon, <2>1, WalkForkChildren
    <3>3. /\ W!Linear' /\ W!Path' /\ W!Ahead' /\ W!Behind' /\ W!EveryTaskOnce'
          /\ walk' = "no" => seen' = << >> /\ stack' = << >> /\ first' = {}
      BY Zenon, <2>1, WalkForkKeeps
    <3> QED BY Zenon, <3>1, <3>2, <3>3 DEF W!IInv
  <2>2. CASE W!LoadLinear \/ W!EachProcess \/ W!LinearDone
    BY Zenon, <2>2, WalkLinear
  <2>3. CASE W!LoadDfs
    BY Zenon, <2>3, WalkLoadDfs
  <2>4. CASE W!EachChild
    BY Zenon, <2>4, WalkEachChild
  <2>5. CASE W!Return
    BY Zenon, <2>5, WalkReturnLast, WalkReturn
  <2>6. CASE UNCHANGED W!vars
    <3>1. UNCHANGED <<list_heads, alive, parent, walk, task, stack, seen, first>>
      BY Zenon, <2>6 DEF W!vars
    <3>2. W!Tree' /\ W!TaskList' /\ W!ChildLists'
      BY Zenon, <3>1, WalkStructure
    <3>3. W!Printed' = W!Printed /\ W!Active' = W!Active /\ W!Top' = W!Top
      BY Zenon, <3>1 DEF W!Printed, W!Active, W!Top
    <3>4. W!TypeOK' /\ W!Linear'
      BY Zenon, <3>1 DEF W!IInv, W!TypeOK, W!Linear
    <3>5. W!Path' /\ W!Ahead'
      BY Zenon, <3>1, <3>3 DEF W!IInv, W!Path, W!Ahead
    <3>6. W!Behind' /\ W!EveryTaskOnce'
      <4>0. W!Behind /\ W!EveryTaskOnce
        BY Zenon DEF W!IInv
      <4>1. W!Returned' = W!Returned
        BY Zenon, <3>3 DEF W!Returned
      <4>2. W!Behind'
        BY <3>1, <4>0, <4>1 DEF W!Behind
      <4>3. W!EveryTaskOnce'
        BY Zenon, <3>1, <3>3, <4>0 DEF W!EveryTaskOnce
      <4> QED BY <4>2, <4>3
    <3>7. walk' = "no" => seen' = << >> /\ stack' = << >> /\ first' = {}
      BY Zenon, <3>1 DEF W!IInv
    <3> QED BY Zenon, <3>2, <3>4, <3>5, <3>6, <3>7 DEF W!IInv
  <2> QED BY Zenon, <2>1, <2>2, <2>3, <2>4, <2>5, <2>6 DEF W!Next
<1> QED BY <1>1, <1>2, PTL DEF W!Spec

(* The walks of chapter 3's kernel modules print no task twice, and at     *)
(* their end they have printed every task that was there when they began,  *)
(* whatever was forked meanwhile.                                          *)
THEOREM TasksPrintedOnce == W!Spec => []EveryTaskOnce
<1>1. W!IInv => W!EveryTaskOnce
  BY Zenon DEF W!IInv
<1>2. W!EveryTaskOnce => EveryTaskOnce
  BY DEF EveryTaskOnce
<1> QED BY <1>1, <1>2, TaskWalkInvariant, PTL

(* The calls of dfs_task_iter are a path of the tree of tasks, and when    *)
(* one has returned all the tasks below its own have been printed.         *)
THEOREM TreeWalkedDepthFirst == W!Spec => []DepthFirst
<1>1. ASSUME W!IInv PROVE W!DepthFirst
  <2>1. W!Tree /\ W!Path /\ W!Behind
    BY Zenon, <1>1 DEF W!IInv
  <2>2. CASE walk = "dfs"
    <3>1. /\ stack[1].task = W!init_task
          /\ \A k \in 2 .. Len(stack) :
               /\ parent[stack[k].task] = stack[k - 1].task
               /\ stack[k - 1].pos = W!sibling(stack[k].task)
      BY Zenon, <2>1, <2>2 DEF W!Path
    <3>2. \A t \in first : parent[t] \in W!Printed \ W!Active => t \in W!Printed \ W!Active
      <4>1. \A t \in first \ {W!init_task} : parent[t] \in W!Returned => t \in W!Returned
        BY Zenon, <2>1, <2>2 DEF W!Behind
      <4>2. parent[W!init_task] = W!init_task
        BY Zenon, <2>1 DEF W!Tree
      <4> QED BY Zenon, <4>1, <4>2 DEF W!Returned
    <3> QED BY Zenon, <3>1, <3>2 DEF W!DepthFirst
  <2> QED BY Zenon, <2>2 DEF W!DepthFirst
<1>2. W!DepthFirst => DepthFirst
  BY DEF DepthFirst
<1> QED BY <1>1, <1>2, TaskWalkInvariant, PTL
=============================================================================
