-------------------------- MODULE KernelListProofs --------------------------
(***************************************************************************)
(* include/linux/list.h keeps its rings: for any heads and entries and any *)
(* sequence of the calls it allows, the pointers are the lists that its    *)
(* comments promise.  The lemmas are about any memory m, lists ls and      *)
(* heads dead that were given away, so that a function that calls others   *)
(* is proved from the lemmas on those.                                     *)
(***************************************************************************)
EXTENDS KernelList, TLAPS

Heap == [next : [Cells -> Cells \cup {LIST_POISON1}],
         prev : [Cells -> Cells \cup {LIST_POISON2}]]

(* No entry is in two places. *)
Apart(ls) ==
  \A g, h \in Heads : \A i \in 1 .. Len(ls[g]), j \in 1 .. Len(ls[h]) :
    ls[g][i] = ls[h][j] => g = h /\ i = j

(* Memory and lists agree, but for the heads that were given away. *)
Good(m, ls, dead) ==
  /\ m \in Heap
  /\ ls \in [Heads -> Seq(Nodes)]
  /\ dead \in SUBSET Heads
  /\ \A h \in dead : ls[h] = << >>
  /\ Apart(ls)
  /\ \A h \in Heads \ dead : Ring(m, h, ls[h])

(* The entry n is in no list. *)
Unlisted(ls, n) == \A h \in Heads : \A k \in 1 .. Len(ls[h]) : ls[h][k] # n

-----------------------------------------------------------------------------
(* Places *)

(* A place of a list is its head or one of its entries. *)
LEMMA PlaceType ==
  ASSUME NEW h \in Heads, NEW s \in Seq(Nodes), NEW i \in Int
  PROVE  Place(h, s, i) \in Cells
BY DEF Place, Cells

(* Different places of the lists are different cells; the head has two.    *)
LEMMA PlacesDiffer ==
  ASSUME NEW ls \in [Heads -> Seq(Nodes)], Apart(ls),
         NEW g \in Heads, NEW h \in Heads,
         NEW i \in 0 .. Len(ls[g]), NEW j \in 0 .. Len(ls[h])
  PROVE  /\ Place(g, ls[g], i) = Place(h, ls[h], j) => g = h /\ i = j
         /\ Place(g, ls[g], i + 1) = Place(h, ls[h], j + 1) => g = h /\ i = j
<1>1. Len(ls[g]) \in Nat /\ Len(ls[h]) \in Nat
  OBVIOUS
<1>2. /\ \A k \in 1 .. Len(ls[g]) : ls[g][k] \in Nodes
      /\ \A k \in 1 .. Len(ls[h]) : ls[h][k] \in Nodes
  OBVIOUS
<1>3. \A k \in 1 .. Len(ls[g]), l \in 1 .. Len(ls[h]) :
        ls[g][k] = ls[h][l] => g = h /\ k = l
  BY DEF Apart
<1>4. g \notin Nodes /\ h \notin Nodes
  BY ListAssumption
<1> QED BY <1>1, <1>2, <1>3, <1>4 DEF Place

-----------------------------------------------------------------------------
(* What the functions store *)

(* __list_add *)
LEMMA InsertStores ==
  ASSUME NEW m \in Heap, NEW new \in Cells, NEW prev \in Cells,
         NEW next \in Cells, new # prev, new # next
  PROVE  LET m1 == list_insert(m, new, prev, next) IN
         /\ m1 \in Heap
         /\ m1.next[new] = next /\ m1.prev[new] = prev
         /\ m1.next[prev] = new /\ m1.prev[next] = new
         /\ \A c \in Cells \ {new, prev} : m1.next[c] = m.next[c]
         /\ \A c \in Cells \ {new, next} : m1.prev[c] = m.prev[c]
BY Zenon DEF list_insert, Heap

(* __list_del *)
LEMMA UnlinkStores ==
  ASSUME NEW m \in Heap, NEW entry \in Cells,
         m.next[entry] \in Cells, m.prev[entry] \in Cells
  PROVE  LET m1 == list_unlink(m, entry) IN
         /\ m1 \in Heap
         /\ m1.next[m.prev[entry]] = m.next[entry]
         /\ m1.prev[m.next[entry]] = m.prev[entry]
         /\ \A c \in Cells \ {m.prev[entry]} : m1.next[c] = m.next[c]
         /\ \A c \in Cells \ {m.next[entry]} : m1.prev[c] = m.prev[c]
BY Zenon DEF list_unlink, Heap

(* list_replace of an entry or head that is not alone in its ring *)
LEMMA ReplaceStores ==
  ASSUME NEW m \in Heap, NEW old \in Cells, NEW new \in Cells,
         m.next[old] \in Cells \ {old, new}, m.prev[old] \in Cells \ {old, new},
         new # old
  PROVE  LET m1 == list_replace(m, old, new)
             next == m.next[old]
             prev == m.prev[old] IN
         /\ m1 \in Heap
         /\ m1.next[new] = next /\ m1.prev[new] = prev
         /\ m1.next[prev] = new /\ m1.prev[next] = new
         /\ \A c \in Cells \ {new, prev} : m1.next[c] = m.next[c]
         /\ \A c \in Cells \ {new, next} : m1.prev[c] = m.prev[c]
BY Zenon DEF list_replace, Heap

(* list_replace of the head of an empty list, whose prev the function reads *)
(* after it has made it point to the new head                              *)
LEMMA ReplaceAlone ==
  ASSUME NEW m \in Heap, NEW old \in Cells, NEW new \in Cells, new # old,
         m.next[old] = old, m.prev[old] = old
  PROVE  LET m1 == list_replace(m, old, new) IN
         /\ m1 \in Heap
         /\ m1.next[new] = new /\ m1.prev[new] = new
         /\ \A c \in Cells \ {old, new} :
              m1.next[c] = m.next[c] /\ m1.prev[c] = m.prev[c]
BY ZenonT(30) DEF list_replace, Heap

(* __list_cut_position *)
LEMMA CutStores ==
  ASSUME NEW m \in Heap, NEW list \in Cells, NEW head \in Cells,
         NEW entry \in Cells, m.next[head] \in Cells, m.next[entry] \in Cells,
         list \notin {head, entry, m.next[head], m.next[entry]},
         head # entry, m.next[head] # m.next[entry]
  PROVE  LET m1 == list_cut(m, list, head, entry)
             first == m.next[head]
             new_first == m.next[entry] IN
         /\ m1 \in Heap
         /\ m1.next[list] = first /\ m1.prev[first] = list
         /\ m1.prev[list] = entry /\ m1.next[entry] = list
         /\ m1.next[head] = new_first /\ m1.prev[new_first] = head
         /\ \A c \in Cells \ {list, entry, head} : m1.next[c] = m.next[c]
         /\ \A c \in Cells \ {list, first, new_first} : m1.prev[c] = m.prev[c]
BY Zenon DEF list_cut, Heap

(* __list_splice of a list that is not empty *)
LEMMA JoinStores ==
  ASSUME NEW m \in Heap, NEW list \in Cells, NEW prev \in Cells,
         NEW next \in Cells, m.next[list] \in Cells, m.prev[list] \in Cells,
         m.prev[list] # prev, m.next[list] # next
  PROVE  LET m1 == list_join(m, list, prev, next)
             first == m.next[list]
             last == m.prev[list] IN
         /\ m1 \in Heap
         /\ m1.prev[first] = prev /\ m1.next[prev] = first
         /\ m1.next[last] = next /\ m1.prev[next] = last
         /\ \A c \in Cells \ {prev, last} : m1.next[c] = m.next[c]
         /\ \A c \in Cells \ {first, next} : m1.prev[c] = m.prev[c]
BY Zenon DEF list_join, Heap

(* INIT_LIST_HEAD *)
LEMMA InitStores ==
  ASSUME NEW m \in Heap, NEW list \in Cells
  PROVE  LET m1 == INIT_LIST_HEAD(m, list) IN
         /\ m1 \in Heap
         /\ m1.next[list] = list /\ m1.prev[list] = list
         /\ \A c \in Cells \ {list} :
              m1.next[c] = m.next[c] /\ m1.prev[c] = m.prev[c]
BY Zenon DEF INIT_LIST_HEAD, Heap

(* The poison that list_del leaves *)
LEMMA PoisonStores ==
  ASSUME NEW m \in Heap, NEW entry \in Cells
  PROVE  LET m1 == [m EXCEPT !.next[entry] = LIST_POISON1,
                             !.prev[entry] = LIST_POISON2] IN
         /\ m1 \in Heap
         /\ \A c \in Cells \ {entry} :
              m1.next[c] = m.next[c] /\ m1.prev[c] = m.prev[c]
BY Zenon DEF Heap

-----------------------------------------------------------------------------
(* Rings that a function leaves alone *)

(* The cell c is in the ring of g. *)
InRing(ls, g, c) == c = g \/ \E i \in 1 .. Len(ls[g]) : c = ls[g][i]

(* A ring stays as it is if none of its cells is written. *)
LEMMA RingFrame ==
  ASSUME NEW m \in Heap, NEW m1 \in Heap, NEW ls \in [Heads -> Seq(Nodes)],
         NEW h \in Heads, Ring(m, h, ls[h]),
         \A c \in Cells : InRing(ls, h, c) =>
                           m1.next[c] = m.next[c] /\ m1.prev[c] = m.prev[c]
  PROVE  Ring(m1, h, ls[h])
<1> SUFFICES ASSUME NEW i \in 0 .. Len(ls[h])
             PROVE  /\ m1.next[Place(h, ls[h], i)] = Place(h, ls[h], i + 1)
                    /\ m1.prev[Place(h, ls[h], i + 1)] = Place(h, ls[h], i)
  BY DEF Ring
<1>1. /\ m.next[Place(h, ls[h], i)] = Place(h, ls[h], i + 1)
      /\ m.prev[Place(h, ls[h], i + 1)] = Place(h, ls[h], i)
  BY DEF Ring
<1>2. Place(h, ls[h], i) \in Cells /\ Place(h, ls[h], i + 1) \in Cells
  BY PlaceType
<1>3. InRing(ls, h, Place(h, ls[h], i)) /\ InRing(ls, h, Place(h, ls[h], i + 1))
  BY DEF InRing, Place
<1> QED BY <1>1, <1>2, <1>3

(* The cells of one ring are in no other, and an unlisted entry is in none. *)
LEMMA RingsApart ==
  ASSUME NEW ls \in [Heads -> Seq(Nodes)], Apart(ls),
         NEW g \in Heads, NEW h \in Heads, g # h
  PROVE  /\ \A i \in Int : ~InRing(ls, g, Place(h, ls[h], i))
         /\ \A n \in Nodes : Unlisted(ls, n) => ~InRing(ls, g, n)
<1>1. /\ \A k \in 1 .. Len(ls[g]) : ls[g][k] \in Nodes
      /\ \A k \in 1 .. Len(ls[h]) : ls[h][k] \in Nodes
  OBVIOUS
<1>2. \A k \in 1 .. Len(ls[g]), l \in 1 .. Len(ls[h]) : ls[g][k] # ls[h][l]
  BY DEF Apart
<1>3. g \notin Nodes /\ h \notin Nodes
  BY ListAssumption
<1> QED BY <1>1, <1>2, <1>3 DEF Place, InRing, Unlisted

(* Memory that is in no ring may change: an unlisted entry. *)
LEMMA NodeFrame ==
  ASSUME NEW m, NEW ls, NEW dead, Good(m, ls, dead), NEW m1 \in Heap,
         NEW n \in Nodes, Unlisted(ls, n),
         \A c \in Cells \ {n} : m1.next[c] = m.next[c] /\ m1.prev[c] = m.prev[c]
  PROVE  Good(m1, ls, dead)
<1>1. ASSUME NEW g \in Heads \ dead PROVE Ring(m1, g, ls[g])
  <2>1. g # n
    BY ListAssumption
  <2>2. ~InRing(ls, g, n)
    BY <2>1 DEF InRing, Unlisted
  <2> QED BY <2>2, RingFrame DEF Good
<1> QED BY <1>1 DEF Good

(* INIT_LIST_HEAD makes an empty list of a head without entries. *)
LEMMA InitHead ==
  ASSUME NEW m, NEW ls, NEW dead, Good(m, ls, dead),
         NEW h \in Heads, ls[h] = << >>
  PROVE  Good(INIT_LIST_HEAD(m, h), ls, dead \ {h})
<1> DEFINE m1 == INIT_LIST_HEAD(m, h)
<1>1. m \in Heap /\ ls \in [Heads -> Seq(Nodes)] /\ Apart(ls) /\ h \in Cells
  BY DEF Good, Cells
<1>2. /\ m1 \in Heap /\ m1.next[h] = h /\ m1.prev[h] = h
      /\ \A c \in Cells \ {h} : m1.next[c] = m.next[c] /\ m1.prev[c] = m.prev[c]
  BY <1>1, InitStores
<1> HIDE DEF m1
<1>3. Ring(m1, h, ls[h])
  BY <1>2 DEF Ring, Place
<1>4. ASSUME NEW g \in Heads \ dead, g # h PROVE Ring(m1, g, ls[g])
  <2>1. ~InRing(ls, g, Place(h, ls[h], 0)) /\ Place(h, ls[h], 0) = h
    BY <1>1, <1>4, RingsApart DEF Place
  <2> QED BY ZenonT(30), <2>1, <1>1, <1>2, RingFrame DEF Good
<1>5. Good(m1, ls, dead \ {h})
  BY <1>2, <1>3, <1>4 DEF Good
<1> QED BY <1>5 DEF m1

(* A list may be exchanged for one whose entries are in no other list. *)
LEMMA ApartUpdate ==
  ASSUME NEW ls \in [Heads -> Seq(Nodes)], NEW ls1 \in [Heads -> Seq(Nodes)],
         NEW h \in Heads, Apart(ls), \A g \in Heads \ {h} : ls1[g] = ls[g],
         \A i, j \in 1 .. Len(ls1[h]) : ls1[h][i] = ls1[h][j] => i = j,
         \A g \in Heads \ {h}, i \in 1 .. Len(ls1[h]) :
           \A j \in 1 .. Len(ls[g]) : ls1[h][i] # ls[g][j]
  PROVE  Apart(ls1)
<1> SUFFICES ASSUME NEW f \in Heads, NEW g \in Heads,
                    NEW i \in 1 .. Len(ls1[f]), NEW j \in 1 .. Len(ls1[g]),
                    ls1[f][i] = ls1[g][j]
             PROVE  f = g /\ i = j
  BY DEF Apart
<1>1. CASE f = h /\ g = h
  BY <1>1
<1>2. CASE f # h /\ g # h
  BY <1>2 DEF Apart
<1>3. CASE f = h /\ g # h
  BY <1>3
<1>4. CASE f # h /\ g = h
  BY <1>4
<1> QED BY <1>1, <1>2, <1>3, <1>4

-----------------------------------------------------------------------------
(* Adding and removing an entry *)

(* The sequence s with n after its first q members. *)
Inserted(s, q, n) ==
  [j \in 1 .. (Len(s) + 1) |-> IF j <= q THEN s[j] ELSE IF j = q + 1 THEN n ELSE s[j - 1]]

(* __list_add between the places q and q + 1 of a list adds the entry there. *)
LEMMA InsertGood ==
  ASSUME NEW m, NEW ls, NEW dead, Good(m, ls, dead),
         NEW h \in Heads \ dead, NEW n \in Nodes, Unlisted(ls, n),
         NEW q \in 0 .. Len(ls[h])
  PROVE  Good(list_insert(m, n, Place(h, ls[h], q), Place(h, ls[h], q + 1)),
              [ls EXCEPT ![h] = Inserted(@, q, n)], dead)
<1> DEFINE s == ls[h]
           s1 == Inserted(s, q, n)
           ls1 == [ls EXCEPT ![h] = s1]
           prev == Place(h, s, q)
           next == Place(h, s, q + 1)
           m1 == list_insert(m, n, prev, next)
<1>1. /\ m \in Heap /\ ls \in [Heads -> Seq(Nodes)] /\ dead \in SUBSET Heads
      /\ h \in Heads /\ s \in Seq(Nodes) /\ Len(s) \in Nat /\ Apart(ls)
      /\ Ring(m, h, s)
  BY DEF Good
<1>2. n \in Cells /\ prev \in Cells /\ next \in Cells
  BY <1>1, PlaceType DEF Cells
<1>3. \A i \in Int : Place(h, s, i) # n
  BY <1>1, ListAssumption DEF Place, Unlisted
<1>4. /\ m1 \in Heap
      /\ m1.next[n] = next /\ m1.prev[n] = prev
      /\ m1.next[prev] = n /\ m1.prev[next] = n
      /\ \A c \in Cells \ {n, prev} : m1.next[c] = m.next[c]
      /\ \A c \in Cells \ {n, next} : m1.prev[c] = m.prev[c]
  BY <1>1, <1>2, <1>3, InsertStores
<1>5. /\ s1 \in Seq(Nodes) /\ Len(s1) = Len(s) + 1
      /\ \A j \in 1 .. (Len(s) + 1) :
           s1[j] = IF j <= q THEN s[j] ELSE IF j = q + 1 THEN n ELSE s[j - 1]
  <2>1. \A j \in 1 .. (Len(s) + 1) :
          (IF j <= q THEN s[j] ELSE IF j = q + 1 THEN n ELSE s[j - 1]) \in Nodes
    BY <1>1
  <2> QED BY <2>1, <1>1 DEF Inserted
<1> HIDE DEF m1, s1
<1>6. /\ \A i \in 0 .. q : Place(h, s1, i) = Place(h, s, i)
      /\ Place(h, s1, q + 1) = n
      /\ \A i \in (q + 1) .. (Len(s) + 1) : Place(h, s1, i + 1) = Place(h, s, i)
  <2>1. ASSUME NEW i \in 0 .. q PROVE Place(h, s1, i) = Place(h, s, i)
    BY <1>1, <1>5 DEF Place
  <2>2. Place(h, s1, q + 1) = n
    BY <1>1, <1>5 DEF Place
  <2>3. ASSUME NEW i \in (q + 1) .. (Len(s) + 1)
        PROVE  Place(h, s1, i + 1) = Place(h, s, i)
    <3>1. CASE i = Len(s) + 1
      BY <3>1, <1>1, <1>5 DEF Place
    <3>2. CASE i # Len(s) + 1
      <4>1. /\ i \in 1 .. Len(s) /\ i + 1 \in 1 .. (Len(s) + 1)
            /\ ~(i + 1 <= q) /\ i + 1 # q + 1 /\ (i + 1) - 1 = i
        BY <3>2, <1>1
      <4> QED BY <4>1, <1>5 DEF Place
    <3> QED BY <3>1, <3>2
  <2> QED BY <2>1, <2>2, <2>3
<1>7. ASSUME NEW j \in 0 .. Len(s), j # q
      PROVE  /\ m1.next[Place(h, s, j)] = Place(h, s, j + 1)
             /\ m1.prev[Place(h, s, j + 1)] = Place(h, s, j)
  <2>1. /\ m.next[Place(h, s, j)] = Place(h, s, j + 1)
        /\ m.prev[Place(h, s, j + 1)] = Place(h, s, j)
    BY <1>1 DEF Ring
  <2>2. Place(h, s, j) # prev /\ Place(h, s, j + 1) # next
    BY <1>1, <1>7, PlacesDiffer
  <2>3. Place(h, s, j) \in Cells /\ Place(h, s, j + 1) \in Cells
    BY <1>1, PlaceType
  <2> QED BY <2>1, <2>2, <2>3, <1>3, <1>4
<1>8. Ring(m1, h, s1)
  <2> SUFFICES ASSUME NEW i \in 0 .. Len(s1)
               PROVE  /\ m1.next[Place(h, s1, i)] = Place(h, s1, i + 1)
                      /\ m1.prev[Place(h, s1, i + 1)] = Place(h, s1, i)
    BY DEF Ring
  <2>1. CASE i < q
    <3>1. i \in 0 .. Len(s) /\ i # q /\ i \in 0 .. q /\ i + 1 \in 0 .. q
      BY <2>1, <1>1
    <3> QED BY <3>1, <1>6, <1>7
  <2>2. CASE i = q
    BY <2>2, <1>1, <1>4, <1>6
  <2>3. CASE i = q + 1
    <3>1. q + 1 \in (q + 1) .. (Len(s) + 1)
      BY <1>1
    <3>2. Place(h, s1, i + 1) = Place(h, s, q + 1)
      BY <3>1, <2>3, <1>6
    <3> QED BY <3>2, <2>3, <1>4, <1>6
  <2>4. CASE i > q + 1
    <3> DEFINE j == i - 1
    <3>1. /\ j \in 0 .. Len(s) /\ j # q /\ j \in (q + 1) .. (Len(s) + 1)
          /\ j + 1 \in (q + 1) .. (Len(s) + 1) /\ i = j + 1
      BY <2>4, <1>1, <1>5
    <3> HIDE DEF j
    <3> QED BY <3>1, <1>6, <1>7
  <2> QED BY <2>1, <2>2, <2>3, <2>4, <1>1, <1>5
<1>9. ASSUME NEW g \in Heads \ dead, g # h PROVE Ring(m1, g, ls[g])
  <2>1. ~InRing(ls, g, n) /\ ~InRing(ls, g, prev) /\ ~InRing(ls, g, next)
    BY <1>1, <1>9, RingsApart
  <2> QED BY Zenon, <2>1, <1>1, <1>4, RingFrame DEF Good
<1>10. ls1 \in [Heads -> Seq(Nodes)] /\ ls1[h] = s1
       /\ \A g \in Heads \ {h} : ls1[g] = ls[g]
  BY <1>1, <1>5
<1> HIDE DEF ls1
<1>11. Apart(ls1)
  <2>1. /\ \A i, j \in 1 .. Len(s) : s[i] = s[j] => i = j
        /\ \A i \in 1 .. Len(s) : s[i] # n
    BY <1>1 DEF Apart, Unlisted
  <2> DEFINE at(k) == IF k <= q THEN k ELSE k - 1
  <2>a. \A k \in 1 .. Len(s1) :
          \/ k = q + 1 /\ s1[k] = n
          \/ k # q + 1 /\ at(k) \in 1 .. Len(s) /\ s1[k] = s[at(k)]
    BY <1>1, <1>5
  <2>2. ASSUME NEW i \in 1 .. Len(s1), NEW j \in 1 .. Len(s1), s1[i] = s1[j]
        PROVE  i = j
    <3>1. i # q + 1 /\ j # q + 1 => at(i) = at(j)
      BY Zenon, <2>a, <2>1, <2>2
    <3>2. i = q + 1 <=> j = q + 1
      BY SMTT(60), <2>a, <2>1, <2>2
    <3> QED BY <3>1, <3>2, <1>1, <1>5
  <2>3. ASSUME NEW g \in Heads \ {h}, NEW i \in 1 .. Len(s1),
               NEW j \in 1 .. Len(ls[g])
        PROVE  s1[i] # ls[g][j]
    <3>1. ls[g][j] # n /\ \A k \in 1 .. Len(s) : s[k] # ls[g][j]
      BY <1>1 DEF Apart, Unlisted
    <3> HIDE DEF at
    <3> QED BY SMTT(60), <3>1, <2>a
  <2>4. \A i, j \in 1 .. Len(ls1[h]) : ls1[h][i] = ls1[h][j] => i = j
    BY <2>2, <1>10
  <2>5. \A g \in Heads \ {h}, i \in 1 .. Len(ls1[h]) :
           \A j \in 1 .. Len(ls[g]) : ls1[h][i] # ls[g][j]
    BY <2>3, <1>10
  <2> QED BY Zenon, <2>4, <2>5, <1>1, <1>10, ApartUpdate
<1>12. \A g \in dead : ls1[g] = << >>
  BY <1>1, <1>10 DEF Good
<1>13. \A g \in Heads \ dead : Ring(m1, g, ls1[g])
  BY <1>8, <1>9, <1>10
<1>14. Good(m1, ls1, dead)
  BY <1>1, <1>4, <1>10, <1>11, <1>12, <1>13 DEF Good
<1> QED BY <1>14 DEF m1, ls1, s1

(* __list_del_entry takes the entry in place k out of its list. *)
LEMMA UnlinkGood ==
  ASSUME NEW m, NEW ls, NEW dead, Good(m, ls, dead),
         NEW h \in Heads \ dead, NEW k \in 1 .. Len(ls[h])
  PROVE  /\ Good(list_unlink(m, ls[h][k]),
                 [ls EXCEPT ![h] = Without(@, k)], dead)
         /\ Unlisted([ls EXCEPT ![h] = Without(@, k)], ls[h][k])
<1> DEFINE s == ls[h]
           s1 == Without(s, k)
           ls1 == [ls EXCEPT ![h] = s1]
           entry == s[k]
           prev == Place(h, s, k - 1)
           next == Place(h, s, k + 1)
           m1 == list_unlink(m, entry)
           at(j) == IF j < k THEN j ELSE j + 1
<1>1. /\ m \in Heap /\ ls \in [Heads -> Seq(Nodes)] /\ dead \in SUBSET Heads
      /\ h \in Heads /\ s \in Seq(Nodes) /\ Len(s) \in Nat /\ Apart(ls)
      /\ Ring(m, h, s)
  BY DEF Good
<1>2. /\ entry \in Cells /\ prev \in Cells /\ next \in Cells
      /\ Place(h, s, k) = entry /\ k - 1 \in 0 .. Len(s) /\ k \in 0 .. Len(s)
      /\ (k - 1) + 1 = k
  BY <1>1, PlaceType DEF Cells, Place
<1>3. m.next[entry] = next /\ m.prev[entry] = prev
  <2>1. m.next[Place(h, s, k)] = Place(h, s, k + 1)
    BY <1>1, <1>2 DEF Ring
  <2>2. m.prev[Place(h, s, (k - 1) + 1)] = Place(h, s, k - 1)
    BY <1>1, <1>2 DEF Ring
  <2> QED BY <2>1, <2>2, <1>2
<1>4. /\ m1 \in Heap
      /\ m1.next[prev] = next /\ m1.prev[next] = prev
      /\ \A c \in Cells \ {prev} : m1.next[c] = m.next[c]
      /\ \A c \in Cells \ {next} : m1.prev[c] = m.prev[c]
  BY <1>1, <1>2, <1>3, UnlinkStores
<1>5. /\ s1 \in Seq(Nodes) /\ Len(s1) = Len(s) - 1
      /\ \A j \in 1 .. (Len(s) - 1) : s1[j] = IF j < k THEN s[j] ELSE s[j + 1]
  <2>1. Len(s) - 1 \in Nat
    BY <1>1
  <2>2. \A j \in 1 .. (Len(s) - 1) : (IF j < k THEN s[j] ELSE s[j + 1]) \in Nodes
    BY <1>1
  <2> QED BY <2>1, <2>2 DEF Without
<1>6. \A j \in 1 .. Len(s1) : at(j) \in (1 .. Len(s)) \ {k} /\ s1[j] = s[at(j)]
  <2> SUFFICES ASSUME NEW j \in 1 .. Len(s1)
               PROVE  at(j) \in (1 .. Len(s)) \ {k} /\ s1[j] = s[at(j)]
    OBVIOUS
  <2>1. CASE j < k
    BY <2>1, <1>1, <1>5
  <2>2. CASE ~(j < k)
    BY <2>2, <1>1, <1>5
  <2> QED BY <2>1, <2>2
<1> HIDE DEF m1, s1
<1>7. /\ \A i \in 0 .. (k - 1) : Place(h, s1, i) = Place(h, s, i)
      /\ \A i \in k .. Len(s) : Place(h, s1, i) = Place(h, s, i + 1)
  <2>1. ASSUME NEW i \in 0 .. (k - 1) PROVE Place(h, s1, i) = Place(h, s, i)
    BY SMTT(60), <1>1, <1>5 DEF Place
  <2>2. ASSUME NEW i \in k .. Len(s) PROVE Place(h, s1, i) = Place(h, s, i + 1)
    BY <1>1, <1>5 DEF Place
  <2> QED BY <2>1, <2>2
<1>8. ASSUME NEW j \in 0 .. Len(s), j # k, j # k - 1
      PROVE  /\ m1.next[Place(h, s, j)] = Place(h, s, j + 1)
             /\ m1.prev[Place(h, s, j + 1)] = Place(h, s, j)
  <2>1. /\ m.next[Place(h, s, j)] = Place(h, s, j + 1)
        /\ m.prev[Place(h, s, j + 1)] = Place(h, s, j)
    BY <1>1 DEF Ring
  <2>2. Place(h, s, j) # prev /\ Place(h, s, j + 1) # next
    BY <1>1, <1>2, <1>8, PlacesDiffer
  <2>3. Place(h, s, j) \in Cells /\ Place(h, s, j + 1) \in Cells
    BY <1>1, PlaceType
  <2> QED BY <2>1, <2>2, <2>3, <1>4
<1>9. Ring(m1, h, s1)
  <2> SUFFICES ASSUME NEW i \in 0 .. Len(s1)
               PROVE  /\ m1.next[Place(h, s1, i)] = Place(h, s1, i + 1)
                      /\ m1.prev[Place(h, s1, i + 1)] = Place(h, s1, i)
    BY DEF Ring
  <2>1. CASE i < k - 1
    <3>1. /\ i \in 0 .. Len(s) /\ i # k /\ i # k - 1
          /\ i \in 0 .. (k - 1) /\ i + 1 \in 0 .. (k - 1)
      BY <2>1, <1>1
    <3> QED BY <3>1, <1>7, <1>8
  <2>2. CASE i = k - 1
    <3>1. i \in 0 .. (k - 1) /\ i + 1 = k /\ k \in k .. Len(s)
      BY <2>2, <1>1
    <3>2. Place(h, s1, i) = prev /\ Place(h, s1, i + 1) = next
      BY <3>1, <2>2, <1>7
    <3> QED BY <3>2, <1>4
  <2>3. CASE i > k - 1
    <3> DEFINE j == i + 1
    <3>1. /\ j \in 0 .. Len(s) /\ j # k /\ j # k - 1
          /\ i \in k .. Len(s) /\ j \in k .. Len(s) /\ i + 1 = j
      BY <2>3, <1>1, <1>5
    <3> HIDE DEF j
    <3>2. Place(h, s1, i) = Place(h, s, j) /\ Place(h, s1, j) = Place(h, s, j + 1)
      BY Zenon, <3>1, <1>7
    <3> QED BY <3>1, <3>2, <1>8
  <2> QED BY <2>1, <2>2, <2>3, <1>1, <1>5
<1>10. ASSUME NEW g \in Heads \ dead, g # h PROVE Ring(m1, g, ls[g])
  <2>1. k - 1 \in Int /\ k + 1 \in Int
    BY <1>1
  <2>2. ~InRing(ls, g, prev) /\ ~InRing(ls, g, next)
    BY SMTT(60), <2>1, <1>1, <1>10, RingsApart
  <2> QED BY <2>2, <1>1, <1>4, RingFrame DEF Good
<1>11. ls1 \in [Heads -> Seq(Nodes)] /\ ls1[h] = s1
       /\ \A g \in Heads \ {h} : ls1[g] = ls[g]
  BY <1>1, <1>5
<1> HIDE DEF ls1
<1>12. Apart(ls1)
  <2>1. \A i, j \in 1 .. Len(s) : s[i] = s[j] => i = j
    BY <1>1 DEF Apart
  <2>2. ASSUME NEW i \in 1 .. Len(s1), NEW j \in 1 .. Len(s1), s1[i] = s1[j]
        PROVE  i = j
    <3>1. at(i) = at(j)
      BY SMTT(60), <2>1, <2>2, <1>6
    <3> QED BY <3>1, <1>1, <1>5
  <2>3. ASSUME NEW g \in Heads \ {h}, NEW i \in 1 .. Len(s1),
               NEW j \in 1 .. Len(ls[g])
        PROVE  s1[i] # ls[g][j]
    <3>1. \A l \in 1 .. Len(s) : s[l] # ls[g][j]
      BY <1>1 DEF Apart
    <3> QED BY <3>1, <1>6
  <2>4. \A i, j \in 1 .. Len(ls1[h]) : ls1[h][i] = ls1[h][j] => i = j
    BY <2>2, <1>11
  <2>5. \A g \in Heads \ {h}, i \in 1 .. Len(ls1[h]) :
           \A j \in 1 .. Len(ls[g]) : ls1[h][i] # ls[g][j]
    BY <2>3, <1>11
  <2> QED BY Zenon, <2>4, <2>5, <1>1, <1>11, ApartUpdate
<1>13. \A g \in dead : ls1[g] = << >>
  BY <1>1, <1>11 DEF Good
<1>14. \A g \in Heads \ dead : Ring(m1, g, ls1[g])
  BY <1>9, <1>10, <1>11
<1>15. Good(m1, ls1, dead)
  BY <1>1, <1>4, <1>11, <1>12, <1>13, <1>14 DEF Good
<1>16. Unlisted(ls1, entry)
  <2>1. \A j \in 1 .. Len(s1) : s1[j] # entry
    BY <1>1, <1>6 DEF Apart
  <2>2. \A g \in Heads \ {h} : \A j \in 1 .. Len(ls[g]) : ls[g][j] # entry
    BY <1>1 DEF Apart
  <2> QED BY <2>1, <2>2, <1>11 DEF Unlisted
<1> QED BY <1>15, <1>16 DEF m1, ls1, s1

(* list_replace gives the place k of a list to another entry. *)
LEMMA ReplaceGood ==
  ASSUME NEW m, NEW ls, NEW dead, Good(m, ls, dead),
         NEW h \in Heads \ dead, NEW k \in 1 .. Len(ls[h]),
         NEW n \in Nodes, Unlisted(ls, n)
  PROVE  /\ Good(list_replace(m, ls[h][k], n), [ls EXCEPT ![h][k] = n], dead)
         /\ Unlisted([ls EXCEPT ![h][k] = n], ls[h][k])
<1> DEFINE s == ls[h]
           s1 == [s EXCEPT ![k] = n]
           ls1 == [ls EXCEPT ![h] = s1]
           old == s[k]
           prev == Place(h, s, k - 1)
           next == Place(h, s, k + 1)
           m1 == list_replace(m, old, n)
<1>1. /\ m \in Heap /\ ls \in [Heads -> Seq(Nodes)] /\ dead \in SUBSET Heads
      /\ h \in Heads /\ s \in Seq(Nodes) /\ Len(s) \in Nat /\ Apart(ls)
      /\ Ring(m, h, s)
  BY DEF Good
<1>2. /\ old \in Cells /\ prev \in Cells /\ next \in Cells /\ n \in Cells
      /\ Place(h, s, k) = old /\ k - 1 \in 0 .. Len(s) /\ k \in 0 .. Len(s)
      /\ (k - 1) + 1 = k
  BY <1>1, PlaceType DEF Cells, Place
<1>3. m.next[old] = next /\ m.prev[old] = prev
  <2>1. m.next[Place(h, s, k)] = Place(h, s, k + 1)
    BY <1>1, <1>2 DEF Ring
  <2>2. m.prev[Place(h, s, (k - 1) + 1)] = Place(h, s, k - 1)
    BY <1>1, <1>2 DEF Ring
  <2> QED BY <2>1, <2>2, <1>2
<1>4. \A i \in Int : Place(h, s, i) # n
  BY <1>1, ListAssumption DEF Place, Unlisted
<1>5. prev # old /\ next # old
  <2>1. Place(h, s, k - 1) # Place(h, s, k)
    BY <1>1, <1>2, PlacesDiffer
  <2>2. Place(h, s, k + 1) # Place(h, s, (k - 1) + 1)
    BY SMTT(60), <1>1, <1>2, PlacesDiffer
  <2> QED BY <2>1, <2>2, <1>2
<1>6. /\ m1 \in Heap
      /\ m1.next[n] = next /\ m1.prev[n] = prev
      /\ m1.next[prev] = n /\ m1.prev[next] = n
      /\ \A c \in Cells \ {n, prev} : m1.next[c] = m.next[c]
      /\ \A c \in Cells \ {n, next} : m1.prev[c] = m.prev[c]
  <2>1. n # old /\ next \notin {old, n} /\ prev \notin {old, n}
    BY <1>2, <1>4, <1>5
  <2> QED BY SMTT(60), <2>1, <1>1, <1>2, <1>3, ReplaceStores
<1>7. /\ s1 \in Seq(Nodes) /\ Len(s1) = Len(s) /\ s1[k] = n
      /\ \A j \in (1 .. Len(s)) \ {k} : s1[j] = s[j]
  BY <1>1
<1> HIDE DEF m1, s1
<1>8. /\ \A i \in (0 .. (Len(s) + 1)) \ {k} : Place(h, s1, i) = Place(h, s, i)
      /\ Place(h, s1, k) = n
  BY <1>1, <1>7 DEF Place
<1>9. Ring(m1, h, s1)
  <2> SUFFICES ASSUME NEW i \in 0 .. Len(s)
               PROVE  /\ m1.next[Place(h, s1, i)] = Place(h, s1, i + 1)
                      /\ m1.prev[Place(h, s1, i + 1)] = Place(h, s1, i)
    BY <1>7 DEF Ring
  <2>1. CASE i = k - 1
    <3>1. i \in (0 .. (Len(s) + 1)) \ {k} /\ i + 1 = k
      BY <2>1, <1>1
    <3>2. Place(h, s1, i) = prev /\ Place(h, s1, i + 1) = n
      BY <3>1, <2>1, <1>8
    <3> QED BY <3>2, <1>6
  <2>2. CASE i = k
    <3>1. i + 1 \in (0 .. (Len(s) + 1)) \ {k}
      BY <2>2, <1>1
    <3>2. Place(h, s1, i) = n /\ Place(h, s1, i + 1) = next
      BY <3>1, <2>2, <1>8
    <3> QED BY <3>2, <1>6
  <2>3. CASE i # k /\ i # k - 1
    <3>1. /\ i \in (0 .. (Len(s) + 1)) \ {k}
          /\ i + 1 \in (0 .. (Len(s) + 1)) \ {k}
      BY <2>3, <1>1
    <3>2. /\ Place(h, s1, i) = Place(h, s, i)
          /\ Place(h, s1, i + 1) = Place(h, s, i + 1)
      BY <3>1, <1>8
    <3>3. Place(h, s, i) # prev /\ Place(h, s, i + 1) # next
      BY <2>3, <1>1, <1>2, PlacesDiffer
    <3>4. Place(h, s, i) \in Cells /\ Place(h, s, i + 1) \in Cells
      BY <1>1, PlaceType
    <3>5. /\ m.next[Place(h, s, i)] = Place(h, s, i + 1)
          /\ m.prev[Place(h, s, i + 1)] = Place(h, s, i)
      BY <1>1 DEF Ring
    <3> QED BY <3>2, <3>3, <3>4, <3>5, <1>4, <1>6
  <2> QED BY <2>1, <2>2, <2>3
<1>10. ASSUME NEW g \in Heads \ dead, g # h PROVE Ring(m1, g, ls[g])
  <2>1. k - 1 \in Int /\ k + 1 \in Int
    BY <1>1
  <2>2. ~InRing(ls, g, n) /\ ~InRing(ls, g, prev) /\ ~InRing(ls, g, next)
    BY SMTT(60), <2>1, <1>1, <1>10, RingsApart
  <2> QED BY Zenon, <2>2, <1>1, <1>6, RingFrame DEF Good
<1>11. /\ ls1 \in [Heads -> Seq(Nodes)] /\ ls1[h] = s1
       /\ \A g \in Heads \ {h} : ls1[g] = ls[g]
  BY <1>1, <1>7
<1>12. [ls EXCEPT ![h][k] = n] = ls1
  BY <1>1 DEF s1
<1> HIDE DEF ls1
<1>13. Apart(ls1)
  <2>1. /\ \A i, j \in 1 .. Len(s) : s[i] = s[j] => i = j
        /\ \A i \in 1 .. Len(s) : s[i] # n
    BY <1>1 DEF Apart, Unlisted
  <2>2. \A i, j \in 1 .. Len(s1) : s1[i] = s1[j] => i = j
    BY <2>1, <1>7
  <2>3. ASSUME NEW g \in Heads \ {h}, NEW i \in 1 .. Len(s1),
               NEW j \in 1 .. Len(ls[g])
        PROVE  s1[i] # ls[g][j]
    <3>1. ls[g][j] # n /\ \A l \in 1 .. Len(s) : s[l] # ls[g][j]
      BY <1>1 DEF Apart, Unlisted
    <3> QED BY <3>1, <1>7
  <2>4. \A i, j \in 1 .. Len(ls1[h]) : ls1[h][i] = ls1[h][j] => i = j
    BY <2>2, <1>11
  <2>5. \A g \in Heads \ {h}, i \in 1 .. Len(ls1[h]) :
           \A j \in 1 .. Len(ls[g]) : ls1[h][i] # ls[g][j]
    BY <2>3, <1>11
  <2> QED BY Zenon, <2>4, <2>5, <1>1, <1>11, ApartUpdate
<1>14. \A g \in dead : ls1[g] = << >>
  BY <1>1, <1>11 DEF Good
<1>15. \A g \in Heads \ dead : Ring(m1, g, ls1[g])
  BY <1>9, <1>10, <1>11
<1>16. Good(m1, ls1, dead)
  BY <1>1, <1>6, <1>11, <1>13, <1>14, <1>15 DEF Good
<1>17. Unlisted(ls1, old)
  <2>1. \A j \in 1 .. Len(s1) : s1[j] # old
    BY <1>1, <1>7 DEF Apart, Unlisted
  <2>2. \A g \in Heads \ {h} : \A j \in 1 .. Len(ls[g]) : ls[g][j] # old
    BY <1>1 DEF Apart
  <2> QED BY <2>1, <2>2, <1>11 DEF Unlisted
<1> QED BY Zenon, <1>12, <1>16, <1>17 DEF m1

-----------------------------------------------------------------------------
(* Moving the entries of one list to another *)

(* Two lists may be exchanged for others with entries of their own. *)
LEMMA ApartUpdateTwo ==
  ASSUME NEW ls \in [Heads -> Seq(Nodes)], NEW ls1 \in [Heads -> Seq(Nodes)],
         NEW g \in Heads, NEW h \in Heads, g # h, Apart(ls),
         \A f \in Heads \ {g, h} : ls1[f] = ls[f],
         \A i, j \in 1 .. Len(ls1[g]) : ls1[g][i] = ls1[g][j] => i = j,
         \A i, j \in 1 .. Len(ls1[h]) : ls1[h][i] = ls1[h][j] => i = j,
         \A i \in 1 .. Len(ls1[g]), j \in 1 .. Len(ls1[h]) : ls1[g][i] # ls1[h][j],
         \A f \in Heads \ {g, h} : \A j \in 1 .. Len(ls[f]) :
           /\ \A i \in 1 .. Len(ls1[g]) : ls1[g][i] # ls[f][j]
           /\ \A i \in 1 .. Len(ls1[h]) : ls1[h][i] # ls[f][j]
  PROVE  Apart(ls1)
<1> DEFINE ls0 == [ls1 EXCEPT ![h] = << >>]
<1>1. /\ ls0 \in [Heads -> Seq(Nodes)] /\ ls0[h] = << >>
      /\ \A f \in Heads \ {h} : ls0[f] = ls1[f]
  <2>1. << >> \in Seq(Nodes)
    OBVIOUS
  <2> QED BY <2>1
<1> HIDE DEF ls0
<1>2. Apart(ls0)
  <2> SUFFICES ASSUME NEW e \in Heads, NEW f \in Heads,
                      NEW i \in 1 .. Len(ls0[e]), NEW j \in 1 .. Len(ls0[f]),
                      ls0[e][i] = ls0[f][j]
               PROVE  e = f /\ i = j
    BY DEF Apart
  <2>1. e # h /\ f # h
    BY SMTT(60), <1>1
  <2>2. CASE e = g /\ f = g
    BY <2>1, <2>2, <1>1
  <2>3. CASE e # g /\ f # g
    BY SMTT(60), <2>1, <2>3, <1>1 DEF Apart
  <2>4. CASE e = g /\ f # g
    BY <2>1, <2>4, <1>1
  <2>5. CASE e # g /\ f = g
    BY <2>1, <2>5, <1>1
  <2> QED BY <2>2, <2>3, <2>4, <2>5
<1>3. ASSUME NEW f \in Heads \ {h}, NEW i \in 1 .. Len(ls1[h]),
             NEW j \in 1 .. Len(ls0[f])
      PROVE  ls1[h][i] # ls0[f][j]
  <2>1. CASE f = g
    BY <2>1, <1>1
  <2>2. CASE f # g
    BY <2>2, <1>1
  <2> QED BY <2>1, <2>2
<1>4. \A f \in Heads \ {h}, i \in 1 .. Len(ls1[h]) :
        \A j \in 1 .. Len(ls0[f]) : ls1[h][i] # ls0[f][j]
  BY <1>3
<1>5. \A f \in Heads \ {h} : ls1[f] = ls0[f]
  BY <1>1
<1>6. \A i, j \in 1 .. Len(ls1[h]) : ls1[h][i] = ls1[h][j] => i = j
  OBVIOUS
<1> QED BY Zenon, <1>1, <1>2, <1>4, <1>5, <1>6, ApartUpdate

(* list_replace of a head: the new head gets the entries of the old one,   *)
(* and the old one is given away.                                          *)
LEMMA ReplaceHeadGood ==
  ASSUME NEW m, NEW ls, NEW dead, Good(m, ls, dead),
         NEW old \in Heads \ dead, NEW new \in Heads, old # new, ls[new] = << >>
  PROVE  Good(list_replace(m, old, new),
              [ls EXCEPT ![new] = ls[old], ![old] = << >>],
              (dead \cup {old}) \ {new})
<1> DEFINE s == ls[old]
           ls1 == [ls EXCEPT ![new] = ls[old], ![old] = << >>]
           first == Place(old, s, 1)
           last == Place(old, s, Len(s))
           m1 == list_replace(m, old, new)
           dead1 == (dead \cup {old}) \ {new}
<1>1. /\ m \in Heap /\ ls \in [Heads -> Seq(Nodes)] /\ dead \in SUBSET Heads
      /\ old \in Heads /\ s \in Seq(Nodes) /\ Len(s) \in Nat /\ Apart(ls)
      /\ Ring(m, old, s)
  BY DEF Good
<1>2. /\ old \in Cells /\ new \in Cells /\ first \in Cells /\ last \in Cells
      /\ Place(old, s, 0) = old /\ Place(old, s, Len(s) + 1) = old
      /\ 0 \in 0 .. Len(s) /\ Len(s) \in 0 .. Len(s) /\ 0 + 1 = 1
  BY <1>1, PlaceType DEF Cells, Place
<1>3. m.next[old] = first /\ m.prev[old] = last
  <2>1. m.next[Place(old, s, 0)] = Place(old, s, 0 + 1)
    BY <1>1, <1>2 DEF Ring
  <2>2. m.prev[Place(old, s, Len(s) + 1)] = Place(old, s, Len(s))
    BY <1>1, <1>2 DEF Ring
  <2> QED BY <2>1, <2>2, <1>2
<1>4. \A i \in Int : Place(old, s, i) # new
  BY <1>1, ListAssumption DEF Place
<1>5. /\ m1 \in Heap
      /\ \A c \in Cells \ {old, new, last} : m1.next[c] = m.next[c]
      /\ \A c \in Cells \ {old, new, first} : m1.prev[c] = m.prev[c]
      /\ Ring(m1, new, s)
  <2>1. CASE s = << >>
    <3>1. first = old /\ last = old
      BY <2>1 DEF Place
    <3>2. /\ m1 \in Heap /\ m1.next[new] = new /\ m1.prev[new] = new
          /\ \A c \in Cells \ {old, new} :
               m1.next[c] = m.next[c] /\ m1.prev[c] = m.prev[c]
      BY <3>1, <1>1, <1>2, <1>3, ReplaceAlone
    <3> HIDE DEF m1
    <3>3. Ring(m1, new, s)
      BY <3>2, <2>1 DEF Ring, Place
    <3> QED BY <3>2, <3>3
  <2>2. CASE s # << >>
    <3>1. /\ Len(s) \in 1 .. Len(s) /\ 1 \in 1 .. Len(s) /\ 1 <= Len(s)
          /\ first = s[1] /\ last = s[Len(s)] /\ first \in Nodes /\ last \in Nodes
      BY <2>2, <1>1 DEF Place
    <3>2. first \notin {old, new} /\ last \notin {old, new}
      BY SMTT(60), <3>1, <1>1, ListAssumption
    <3>3. /\ m1 \in Heap
          /\ m1.next[new] = first /\ m1.prev[new] = last
          /\ m1.next[last] = new /\ m1.prev[first] = new
          /\ \A c \in Cells \ {new, last} : m1.next[c] = m.next[c]
          /\ \A c \in Cells \ {new, first} : m1.prev[c] = m.prev[c]
      BY <3>2, <1>1, <1>2, <1>3, ReplaceStores
    <3> HIDE DEF m1
    <3>4. /\ \A i \in 1 .. Len(s) : Place(new, s, i) = Place(old, s, i)
          /\ Place(new, s, 0) = new /\ Place(new, s, Len(s) + 1) = new
      BY <1>1 DEF Place
    <3>5. ASSUME NEW i \in 0 .. Len(s)
          PROVE  /\ m1.next[Place(new, s, i)] = Place(new, s, i + 1)
                 /\ m1.prev[Place(new, s, i + 1)] = Place(new, s, i)
      <4>1. m1.next[Place(new, s, i)] = Place(new, s, i + 1)
        <5>1. CASE i = 0
          BY <5>1, <3>1, <3>3, <3>4
        <5>2. CASE i = Len(s)
          BY <5>2, <3>1, <3>3, <3>4
        <5>3. CASE i # 0 /\ i # Len(s)
          <6>1. i \in 1 .. Len(s) /\ i + 1 \in 1 .. Len(s)
            BY <5>3, <1>1
          <6>2. Place(old, s, i) # last
            BY <5>3, <1>1, <1>2, PlacesDiffer
          <6>3. m.next[Place(old, s, i)] = Place(old, s, i + 1)
            BY <1>1 DEF Ring
          <6>4. Place(old, s, i) \in Cells
            BY <1>1, PlaceType
          <6> QED BY <6>1, <6>2, <6>3, <6>4, <3>3, <3>4, <1>4
        <5> QED BY <5>1, <5>2, <5>3
      <4>2. m1.prev[Place(new, s, i + 1)] = Place(new, s, i)
        <5>1. CASE i = 0
          BY <5>1, <3>1, <3>3, <3>4
        <5>2. CASE i = Len(s)
          BY <5>2, <3>1, <3>3, <3>4
        <5>3. CASE i # 0 /\ i # Len(s)
          <6>1. i \in 1 .. Len(s) /\ i + 1 \in 1 .. Len(s) /\ i + 1 \in Int
            BY <5>3, <1>1
          <6>2. Place(old, ls[old], i + 1) = Place(old, ls[old], 0 + 1) => i = 0
            BY <1>1, <1>2, PlacesDiffer
          <6>3. m.prev[Place(old, s, i + 1)] = Place(old, s, i)
            BY <1>1 DEF Ring
          <6>4. Place(old, s, i + 1) \in Cells
            BY <1>1, PlaceType
          <6> QED BY <6>1, <6>2, <6>3, <6>4, <5>3, <3>3, <3>4, <1>2, <1>4
        <5> QED BY <5>1, <5>2, <5>3
      <4> QED BY <4>1, <4>2
    <3>6. Ring(m1, new, s)
      BY <3>5 DEF Ring
    <3> QED BY <3>3, <3>6
  <2> QED BY <2>1, <2>2
<1> HIDE DEF m1
<1>6. ASSUME NEW g \in Heads \ dead, g # old, g # new PROVE Ring(m1, g, ls[g])
  <2>1. ~InRing(ls, g, old) /\ ~InRing(ls, g, first) /\ ~InRing(ls, g, last)
    BY <1>1, <1>2, <1>6, RingsApart
  <2>2. ~InRing(ls, g, Place(new, ls[new], 0)) /\ Place(new, ls[new], 0) = new
    BY <1>1, <1>6, RingsApart DEF Place
  <2> QED BY ZenonT(30), <2>1, <2>2, <1>1, <1>5, RingFrame DEF Good
<1>7. /\ ls1 \in [Heads -> Seq(Nodes)] /\ ls1[new] = s /\ ls1[old] = << >>
      /\ \A g \in Heads \ {old, new} : ls1[g] = ls[g]
  <2>1. << >> \in Seq(Nodes)
    OBVIOUS
  <2> QED BY Zenon, <2>1, <1>1
<1> HIDE DEF ls1
<1>8. Apart(ls1)
  <2>1. /\ \A i, j \in 1 .. Len(ls1[new]) : ls1[new][i] = ls1[new][j] => i = j
        /\ \A f \in Heads \ {new, old} : \A j \in 1 .. Len(ls[f]) :
             \A i \in 1 .. Len(ls1[new]) : ls1[new][i] # ls[f][j]
    BY <1>1, <1>7 DEF Apart
  <2>2. 1 .. Len(ls1[old]) = {}
    BY <1>7
  <2>3. /\ \A i, j \in 1 .. Len(ls1[old]) : ls1[old][i] = ls1[old][j] => i = j
        /\ \A i \in 1 .. Len(ls1[new]), j \in 1 .. Len(ls1[old]) :
             ls1[new][i] # ls1[old][j]
    BY SMTT(60), <2>2
  <2>4. \A f \in Heads \ {new, old} : \A j \in 1 .. Len(ls[f]) :
          /\ \A i \in 1 .. Len(ls1[new]) : ls1[new][i] # ls[f][j]
          /\ \A i \in 1 .. Len(ls1[old]) : ls1[old][i] # ls[f][j]
    BY <2>1, <2>2
  <2>5. \A f \in Heads \ {new, old} : ls1[f] = ls[f]
    BY <1>7
  <2> QED BY ZenonT(30), <2>1, <2>3, <2>4, <2>5, <1>1, <1>7, ApartUpdateTwo
<1>9. \A g \in dead1 : ls1[g] = << >>
  BY <1>1, <1>7 DEF Good
<1>10. \A g \in Heads \ dead1 : Ring(m1, g, ls1[g])
  BY <1>5, <1>6, <1>7
<1>11. dead1 \in SUBSET Heads
  BY <1>1
<1>12. Good(m1, ls1, dead1)
  BY <1>5, <1>7, <1>8, <1>9, <1>10, <1>11 DEF Good
<1> QED BY <1>12 DEF m1, ls1

(* __list_cut_position moves the first k entries of a list to a head       *)
(* without entries.                                                        *)
LEMMA CutGood ==
  ASSUME NEW m, NEW ls, NEW dead, Good(m, ls, dead),
         NEW h \in Heads \ dead, NEW g \in Heads, g # h, ls[g] = << >>,
         NEW k \in 1 .. Len(ls[h])
  PROVE  Good(list_cut(m, g, h, ls[h][k]),
              [ls EXCEPT ![g] = SubSeq(ls[h], 1, k),
                         ![h] = SubSeq(@, k + 1, Len(@))],
              dead \ {g})
<1> DEFINE s == ls[h]
           a == SubSeq(s, 1, k)
           b == SubSeq(s, k + 1, Len(s))
           ls1 == [ls EXCEPT ![g] = a, ![h] = b]
           entry == Place(h, s, k)
           first == Place(h, s, 0 + 1)
           new_first == Place(h, s, k + 1)
           m1 == list_cut(m, g, h, entry)
<1>1. /\ m \in Heap /\ ls \in [Heads -> Seq(Nodes)] /\ dead \in SUBSET Heads
      /\ h \in Heads /\ s \in Seq(Nodes) /\ Len(s) \in Nat /\ Apart(ls)
      /\ Ring(m, h, s)
  BY DEF Good
<1>2. /\ g \in Cells /\ h \in Cells
      /\ entry \in Cells /\ first \in Cells /\ new_first \in Cells
      /\ Place(h, s, 0) = h /\ entry = s[k]
      /\ 0 \in 0 .. Len(s) /\ k \in 0 .. Len(s) /\ k # 0
  BY <1>1, PlaceType DEF Cells, Place
<1>3. m.next[h] = first /\ m.next[entry] = new_first
  BY <1>1, <1>2 DEF Ring
<1>4. \A i \in Int : Place(h, s, i) # g
  BY <1>1, ListAssumption DEF Place
<1>5. h # entry /\ first # new_first
  BY <1>1, <1>2, PlacesDiffer
<1>6. /\ m1 \in Heap
      /\ m1.next[g] = first /\ m1.prev[first] = g
      /\ m1.prev[g] = entry /\ m1.next[entry] = g
      /\ m1.next[h] = new_first /\ m1.prev[new_first] = h
      /\ \A c \in Cells \ {g, entry, h} : m1.next[c] = m.next[c]
      /\ \A c \in Cells \ {g, first, new_first} : m1.prev[c] = m.prev[c]
  <2>1. g \notin {h, entry, first, new_first}
    BY <1>1, <1>4
  <2>2. first = m.next[h] /\ new_first = m.next[entry]
    BY <1>3
  <2>3. /\ m \in Heap /\ g \in Cells /\ h \in Cells
        /\ entry \in Cells /\ first \in Cells /\ new_first \in Cells
        /\ h # entry /\ first # new_first
    BY <1>1, <1>2, <1>5
  <2> HIDE DEF entry, first, new_first
  <2> QED BY <2>1, <2>2, <2>3, CutStores
<1>7. /\ a \in Seq(Nodes) /\ Len(a) = k /\ \A i \in 1 .. k : a[i] = s[i]
      /\ b \in Seq(Nodes) /\ Len(b) = Len(s) - k
      /\ \A i \in 1 .. (Len(s) - k) : b[i] = s[k + i]
  <2>1. /\ a \in Seq(Nodes) /\ Len(a) = k /\ \A i \in 1 .. k : a[i] = s[i]
    BY <1>1
  <2>2. /\ b \in Seq(Nodes) /\ Len(b) = Len(s) - k
        /\ \A i \in 1 .. (Len(s) - k) : b[i] = s[k + i]
    BY SMTT(60), <1>1
  <2> QED BY <2>1, <2>2
<1> HIDE DEF m1, a, b
<1>8. ASSUME NEW j \in 0 .. Len(s), j # 0, j # k
      PROVE  /\ m1.next[Place(h, s, j)] = Place(h, s, j + 1)
             /\ m1.prev[Place(h, s, j + 1)] = Place(h, s, j)
  <2>1. /\ m.next[Place(h, s, j)] = Place(h, s, j + 1)
        /\ m.prev[Place(h, s, j + 1)] = Place(h, s, j)
    BY <1>1 DEF Ring
  <2>2. Place(h, s, j) # h /\ Place(h, s, j) # entry
    BY <1>1, <1>2, <1>8, PlacesDiffer
  <2>3. Place(h, s, j + 1) # first /\ Place(h, s, j + 1) # new_first
    BY SMTT(60), <1>1, <1>2, <1>8, PlacesDiffer
  <2>4. Place(h, s, j) \in Cells /\ Place(h, s, j + 1) \in Cells
    BY <1>1, PlaceType
  <2>5. Place(h, s, j) # g /\ Place(h, s, j + 1) # g
    BY <1>1, <1>4
  <2> QED BY <2>1, <2>2, <2>3, <2>4, <2>5, <1>6
<1>9. Ring(m1, g, a)
  <2>1. /\ Place(g, a, 0) = g /\ Place(g, a, k + 1) = g
        /\ \A i \in 1 .. k : Place(g, a, i) = Place(h, s, i)
    BY <1>1, <1>7 DEF Place
  <2> SUFFICES ASSUME NEW i \in 0 .. k
               PROVE  /\ m1.next[Place(g, a, i)] = Place(g, a, i + 1)
                      /\ m1.prev[Place(g, a, i + 1)] = Place(g, a, i)
    BY <1>7 DEF Ring
  <2>2. CASE i = 0
    BY <2>1, <2>2, <1>1, <1>6
  <2>3. CASE i = k
    BY <2>1, <2>3, <1>1, <1>6
  <2>4. CASE i # 0 /\ i # k
    <3>1. i \in 1 .. k /\ i + 1 \in 1 .. k /\ i \in 0 .. Len(s)
      BY <2>4, <1>1
    <3> QED BY <3>1, <2>1, <2>4, <1>8
  <2> QED BY <2>2, <2>3, <2>4
<1>10. Ring(m1, h, b)
  <2>1. /\ Place(h, b, 0) = h
        /\ \A i \in 1 .. (Len(s) - k + 1) : Place(h, b, i) = Place(h, s, k + i)
    BY <1>1, <1>7 DEF Place
  <2> SUFFICES ASSUME NEW i \in 0 .. (Len(s) - k)
               PROVE  /\ m1.next[Place(h, b, i)] = Place(h, b, i + 1)
                      /\ m1.prev[Place(h, b, i + 1)] = Place(h, b, i)
    BY <1>7 DEF Ring
  <2>2. CASE i = 0
    BY SMTT(60), <2>1, <2>2, <1>1, <1>6
  <2>3. CASE i # 0
    <3> DEFINE j == k + i
    <3>1. /\ i \in 1 .. (Len(s) - k + 1) /\ i + 1 \in 1 .. (Len(s) - k + 1)
          /\ j \in 0 .. Len(s) /\ j # 0 /\ j # k /\ k + (i + 1) = j + 1
      BY <2>3, <1>1
    <3>2. Place(h, b, i) = Place(h, s, j) /\ Place(h, b, i + 1) = Place(h, s, j + 1)
      BY SMTT(60), <3>1, <2>1
    <3> HIDE DEF j
    <3> QED BY <3>1, <3>2, <1>8
  <2> QED BY <2>2, <2>3
<1>11. ASSUME NEW f \in Heads \ dead, f # g, f # h PROVE Ring(m1, f, ls[f])
  <2>1. k + 1 \in Int /\ k \in Int /\ 0 \in Int /\ 0 + 1 \in Int
    BY <1>1
  <2>2. /\ ~InRing(ls, f, entry) /\ ~InRing(ls, f, first)
        /\ ~InRing(ls, f, new_first) /\ ~InRing(ls, f, h)
    BY <2>1, <1>1, <1>2, <1>11, RingsApart
  <2>3. ~InRing(ls, f, Place(g, ls[g], 0)) /\ Place(g, ls[g], 0) = g
    BY <1>1, <1>11, RingsApart DEF Place
  <2>4. \A c \in Cells : InRing(ls, f, c) => c \notin {g, h, entry, first, new_first}
    BY <2>2, <2>3
  <2>5. \A c \in Cells : InRing(ls, f, c) =>
                          m1.next[c] = m.next[c] /\ m1.prev[c] = m.prev[c]
    BY <2>4, <1>6
  <2>6. Ring(m, f, ls[f])
    BY <1>11 DEF Good
  <2> QED BY SMTT(60), <2>5, <2>6, <1>1, <1>6, RingFrame
<1>12. /\ ls1 \in [Heads -> Seq(Nodes)] /\ ls1[g] = a /\ ls1[h] = b
       /\ \A f \in Heads \ {g, h} : ls1[f] = ls[f]
  BY Zenon, <1>1, <1>7
<1>13. [ls EXCEPT ![g] = SubSeq(ls[h], 1, k), ![h] = SubSeq(@, k + 1, Len(@))] = ls1
  BY <1>1 DEF a, b
<1> HIDE DEF ls1
<1>14. Apart(ls1)
  <2>1. \A i, j \in 1 .. Len(s) : s[i] = s[j] => i = j
    BY <1>1 DEF Apart
  <2> DEFINE at(i) == k + i
  <2>a. /\ \A i \in 1 .. Len(a) : i \in 1 .. Len(s) /\ a[i] = s[i]
        /\ \A i \in 1 .. Len(b) : at(i) \in 1 .. Len(s) /\ b[i] = s[at(i)]
    BY <1>1, <1>7
  <2>b. /\ \A i, j \in 1 .. Len(b) : at(i) = at(j) => i = j
        /\ \A i \in 1 .. Len(a), j \in 1 .. Len(b) : at(j) # i
    BY <1>1, <1>7
  <2> HIDE DEF at
  <2>2. \A i, j \in 1 .. Len(a) : a[i] = a[j] => i = j
    BY <2>1, <2>a
  <2>3. \A i, j \in 1 .. Len(b) : b[i] = b[j] => i = j
    BY SMTT(60), <2>1, <2>a, <2>b
  <2>4. \A i \in 1 .. Len(a), j \in 1 .. Len(b) : a[i] # b[j]
    BY SMTT(60), <2>1, <2>a, <2>b
  <2>5. ASSUME NEW f \in Heads \ {g, h}, NEW j \in 1 .. Len(ls[f])
        PROVE  /\ \A i \in 1 .. Len(a) : a[i] # ls[f][j]
               /\ \A i \in 1 .. Len(b) : b[i] # ls[f][j]
    <3>1. \A l \in 1 .. Len(s) : s[l] # ls[f][j]
      BY <1>1 DEF Apart
    <3> QED BY SMTT(60), <3>1, <2>a
  <2>6. /\ \A i, j \in 1 .. Len(ls1[g]) : ls1[g][i] = ls1[g][j] => i = j
        /\ \A i, j \in 1 .. Len(ls1[h]) : ls1[h][i] = ls1[h][j] => i = j
        /\ \A i \in 1 .. Len(ls1[g]), j \in 1 .. Len(ls1[h]) : ls1[g][i] # ls1[h][j]
    BY <2>2, <2>3, <2>4, <1>12
  <2>7. \A f \in Heads \ {g, h} : \A j \in 1 .. Len(ls[f]) :
           /\ \A i \in 1 .. Len(ls1[g]) : ls1[g][i] # ls[f][j]
           /\ \A i \in 1 .. Len(ls1[h]) : ls1[h][i] # ls[f][j]
    BY <2>5, <1>12
  <2>8. \A f \in Heads \ {g, h} : ls1[f] = ls[f]
    BY <1>12
  <2> QED BY ZenonT(30), <2>6, <2>7, <2>8, <1>1, <1>12, ApartUpdateTwo
<1>15. \A f \in dead \ {g} : ls1[f] = << >>
  BY <1>1, <1>12 DEF Good
<1>16. \A f \in Heads \ (dead \ {g}) : Ring(m1, f, ls1[f])
  BY SMTT(60), <1>9, <1>10, <1>11, <1>12
<1>17. dead \ {g} \in SUBSET Heads
  BY <1>1
<1>18. Good(m1, ls1, dead \ {g})
  BY <1>6, <1>12, <1>14, <1>15, <1>16, <1>17 DEF Good
<1> QED BY Zenon, <1>2, <1>13, <1>18 DEF m1

(* The sequence s with t after its first q members. *)
Joined(s, q, t) ==
  [j \in 1 .. (Len(s) + Len(t)) |->
     IF j <= q THEN s[j] ELSE IF j <= q + Len(t) THEN t[j - q] ELSE s[j - Len(t)]]

(* __list_splice puts the entries of g between the places q and q + 1 of h *)
(* and gives the head g away.                                              *)
LEMMA JoinGood ==
  ASSUME NEW m, NEW ls, NEW dead, Good(m, ls, dead),
         NEW h \in Heads \ dead, NEW g \in Heads \ dead, g # h, ls[g] # << >>,
         NEW q \in 0 .. Len(ls[h])
  PROVE  Good(list_join(m, g, Place(h, ls[h], q), Place(h, ls[h], q + 1)),
              [ls EXCEPT ![h] = Joined(ls[h], q, ls[g]), ![g] = << >>],
              dead \cup {g})
<1> DEFINE s == ls[h]
           t == ls[g]
           p == Len(t)
           u == Joined(s, q, t)
           ls1 == [ls EXCEPT ![h] = u, ![g] = << >>]
           prev == Place(h, s, q)
           next == Place(h, s, q + 1)
           first == Place(g, t, 0 + 1)
           last == Place(g, t, p)
           m1 == list_join(m, g, prev, next)
<1>1. /\ m \in Heap /\ ls \in [Heads -> Seq(Nodes)] /\ dead \in SUBSET Heads
      /\ h \in Heads /\ s \in Seq(Nodes) /\ Len(s) \in Nat /\ Apart(ls)
      /\ g \in Heads /\ t \in Seq(Nodes) /\ p \in Nat /\ p > 0
      /\ Ring(m, h, s) /\ Ring(m, g, t)
  BY DEF Good
<1>2. /\ g \in Cells /\ prev \in Cells /\ next \in Cells
      /\ first \in Cells /\ last \in Cells
      /\ Place(g, t, 0) = g /\ Place(g, t, p + 1) = g
      /\ 0 \in 0 .. p /\ p \in 0 .. p
  BY <1>1, PlaceType DEF Cells, Place
<1>3. m.next[g] = first /\ m.prev[g] = last
  <2>1. m.next[Place(g, t, 0)] = Place(g, t, 0 + 1)
    BY <1>1, <1>2 DEF Ring
  <2>2. m.prev[Place(g, t, p + 1)] = Place(g, t, p)
    BY <1>1, <1>2 DEF Ring
  <2> QED BY <2>1, <2>2, <1>2
<1>4. /\ \A i \in 0 .. p, j \in 0 .. Len(s) :
           /\ Place(g, t, i) # Place(h, s, j)
           /\ Place(g, t, i + 1) # Place(h, s, j + 1)
  BY SMTT(60), <1>1, PlacesDiffer
<1>5. /\ m1 \in Heap
      /\ m1.prev[first] = prev /\ m1.next[prev] = first
      /\ m1.next[last] = next /\ m1.prev[next] = last
      /\ \A c \in Cells \ {prev, last} : m1.next[c] = m.next[c]
      /\ \A c \in Cells \ {first, next} : m1.prev[c] = m.prev[c]
  <2>1. last # prev /\ first # next
    BY SMTT(60), <1>2, <1>4
  <2>2. /\ m \in Heap /\ g \in Cells /\ prev \in Cells /\ next \in Cells
        /\ first \in Cells /\ last \in Cells
        /\ first = m.next[g] /\ last = m.prev[g]
    BY <1>1, <1>2, <1>3
  <2> HIDE DEF prev, next, first, last
  <2> QED BY <2>1, <2>2, JoinStores
<1>6. /\ u \in Seq(Nodes) /\ Len(u) = Len(s) + p
      /\ \A j \in 1 .. q : u[j] = s[j]
      /\ \A j \in 1 .. p : u[q + j] = t[j]
      /\ \A j \in (q + 1) .. Len(s) : u[p + j] = s[j]
  <2> DEFINE v(j) == IF j <= q THEN s[j] ELSE IF j <= q + p THEN t[j - q] ELSE s[j - p]
  <2>1. Len(s) + p \in Nat /\ u = [j \in 1 .. (Len(s) + p) |-> v(j)]
    BY <1>1 DEF Joined
  <2>2. ASSUME NEW j \in 1 .. (Len(s) + p) PROVE v(j) \in Nodes
    <3>1. CASE j <= q
      BY <3>1, <1>1
    <3>2. CASE ~(j <= q) /\ j <= q + p
      <4>1. j - q \in 1 .. p
        BY <3>2, <1>1
      <4> QED BY <4>1, <3>2, <1>1
    <3>3. CASE ~(j <= q) /\ ~(j <= q + p)
      <4>1. j - p \in 1 .. Len(s)
        BY <3>3, <1>1
      <4> QED BY <4>1, <3>3, <1>1
    <3> QED BY <3>1, <3>2, <3>3
  <2>3. /\ \A j \in 1 .. q : v(j) = s[j] /\ j \in 1 .. (Len(s) + p)
        /\ \A j \in 1 .. p : v(q + j) = t[j] /\ q + j \in 1 .. (Len(s) + p)
        /\ \A j \in (q + 1) .. Len(s) : v(p + j) = s[j] /\ p + j \in 1 .. (Len(s) + p)
    <3>1. ASSUME NEW j \in 1 .. q PROVE v(j) = s[j] /\ j \in 1 .. (Len(s) + p)
      BY <1>1
    <3>2. ASSUME NEW j \in 1 .. p PROVE v(q + j) = t[j] /\ q + j \in 1 .. (Len(s) + p)
      <4>1. ~(q + j <= q) /\ q + j <= q + p /\ (q + j) - q = j
            /\ q + j \in 1 .. (Len(s) + p)
        BY <1>1
      <4> QED BY Zenon, <4>1
    <3>3. ASSUME NEW j \in (q + 1) .. Len(s)
          PROVE  v(p + j) = s[j] /\ p + j \in 1 .. (Len(s) + p)
      <4>1. ~(p + j <= q) /\ ~(p + j <= q + p) /\ (p + j) - p = j
            /\ p + j \in 1 .. (Len(s) + p)
        BY <1>1
      <4> QED BY Zenon, <4>1
    <3> QED BY Zenon, <3>1, <3>2, <3>3
  <2> HIDE DEF v, u, p
  <2> QED BY <2>1, <2>2, <2>3
<1> HIDE DEF m1, u
<1>7. /\ \A i \in 0 .. q : Place(h, u, i) = Place(h, s, i)
      /\ \A i \in 1 .. p : Place(h, u, q + i) = Place(g, t, i)
      /\ \A i \in (q + 1) .. (Len(s) + 1) : Place(h, u, p + i) = Place(h, s, i)
  <2>1. ASSUME NEW i \in 0 .. q PROVE Place(h, u, i) = Place(h, s, i)
    BY <1>1, <1>6 DEF Place
  <2>2. ASSUME NEW i \in 1 .. p PROVE Place(h, u, q + i) = Place(g, t, i)
    <3>1. q + i \in 1 .. (Len(s) + p)
      BY <1>1
    <3> QED BY Zenon, <3>1, <1>6 DEF Place
  <2>3. ASSUME NEW i \in (q + 1) .. (Len(s) + 1)
        PROVE  Place(h, u, p + i) = Place(h, s, i)
    <3>1. CASE i = Len(s) + 1
      BY <3>1, <1>1, <1>6 DEF Place
    <3>2. CASE i # Len(s) + 1
      <4>1. /\ i \in (q + 1) .. Len(s) /\ i \in 1 .. Len(s)
            /\ p + i \in 1 .. (Len(s) + p)
        BY <3>2, <1>1
      <4> QED BY Zenon, <4>1, <1>6 DEF Place
    <3> QED BY <3>1, <3>2
  <2> QED BY Zenon, <2>1, <2>2, <2>3
<1>8. ASSUME NEW j \in 0 .. Len(s), j # q
      PROVE  /\ m1.next[Place(h, s, j)] = Place(h, s, j + 1)
             /\ m1.prev[Place(h, s, j + 1)] = Place(h, s, j)
  <2>1. /\ m.next[Place(h, s, j)] = Place(h, s, j + 1)
        /\ m.prev[Place(h, s, j + 1)] = Place(h, s, j)
    BY <1>1 DEF Ring
  <2>2. Place(h, s, j) # prev /\ Place(h, s, j + 1) # next
    BY <1>1, <1>8, PlacesDiffer
  <2>3. Place(h, s, j) # last /\ Place(h, s, j + 1) # first
    BY SMTT(60), <1>2, <1>4
  <2>4. Place(h, s, j) \in Cells /\ Place(h, s, j + 1) \in Cells
    BY <1>1, PlaceType
  <2> QED BY <2>1, <2>2, <2>3, <2>4, <1>5
<1>9. ASSUME NEW j \in 0 .. p, j # 0, j # p
      PROVE  /\ m1.next[Place(g, t, j)] = Place(g, t, j + 1)
             /\ m1.prev[Place(g, t, j + 1)] = Place(g, t, j)
  <2>1. /\ m.next[Place(g, t, j)] = Place(g, t, j + 1)
        /\ m.prev[Place(g, t, j + 1)] = Place(g, t, j)
    BY <1>1 DEF Ring
  <2>2. Place(g, t, j) # last /\ Place(g, t, j + 1) # first
    BY <1>1, <1>2, <1>9, PlacesDiffer
  <2>3. Place(g, t, j) # prev /\ Place(g, t, j + 1) # next
    BY <1>4
  <2>4. Place(g, t, j) \in Cells /\ Place(g, t, j + 1) \in Cells
    BY SMTT(60), <1>1, PlaceType
  <2> QED BY <2>1, <2>2, <2>3, <2>4, <1>5
<1> HIDE DEF p
<1>10. Ring(m1, h, u)
  <2> SUFFICES ASSUME NEW i \in 0 .. (Len(s) + p)
               PROVE  /\ m1.next[Place(h, u, i)] = Place(h, u, i + 1)
                      /\ m1.prev[Place(h, u, i + 1)] = Place(h, u, i)
    BY <1>6 DEF Ring
  <2>1. CASE i < q
    <3>1. i \in 0 .. Len(s) /\ i # q /\ i \in 0 .. q /\ i + 1 \in 0 .. q
      BY SMTT(60), <2>1, <1>1
    <3> QED BY <3>1, <1>7, <1>8
  <2>2. CASE i = q
    <3>1. i \in 0 .. q /\ 0 + 1 \in 1 .. p /\ i + 1 = q + (0 + 1)
      BY <2>2, <1>1
    <3>2. Place(h, u, i) = prev /\ Place(h, u, i + 1) = first
      BY <3>1, <2>2, <1>7
    <3> QED BY <3>2, <1>5
  <2>3. CASE q < i /\ i < q + p
    <3> DEFINE j == i - q
    <3>1. /\ j \in 0 .. p /\ j # 0 /\ j # p /\ j \in 1 .. p /\ j + 1 \in 1 .. p
          /\ i = q + j /\ i + 1 = q + (j + 1)
      BY <2>3, <1>1
    <3> HIDE DEF j
    <3>2. Place(h, u, i) = Place(g, t, j) /\ Place(h, u, i + 1) = Place(g, t, j + 1)
      BY SMTT(60), <3>1, <1>7
    <3> QED BY <3>1, <3>2, <1>9
  <2>4. CASE i = q + p
    <3>1. /\ p \in 1 .. p /\ q + 1 \in (q + 1) .. (Len(s) + 1)
          /\ i + 1 = p + (q + 1)
      BY <2>4, <1>1
    <3>2. Place(h, u, i) = last /\ Place(h, u, i + 1) = next
      BY <3>1, <2>4, <1>7
    <3> QED BY <3>2, <1>5
  <2>5. CASE i > q + p
    <3> DEFINE j == i - p
    <3>1. /\ j \in 0 .. Len(s) /\ j # q /\ i = p + j /\ i + 1 = p + (j + 1)
          /\ j \in (q + 1) .. (Len(s) + 1) /\ j + 1 \in (q + 1) .. (Len(s) + 1)
      BY SMTT(60), <2>5, <1>1
    <3> HIDE DEF j
    <3>2. Place(h, u, i) = Place(h, s, j) /\ Place(h, u, i + 1) = Place(h, s, j + 1)
      BY <3>1, <1>7
    <3> QED BY <3>1, <3>2, <1>8
  <2>6. i \in Int /\ q \in Int /\ p \in Int
    BY <1>1
  <2>7. i < q \/ i = q \/ (q < i /\ i < q + p) \/ i = q + p \/ i > q + p
    BY SMTT(60), <2>6
  <2> QED BY <2>1, <2>2, <2>3, <2>4, <2>5, <2>7
<1>11. ASSUME NEW f \in Heads \ dead, f # g, f # h PROVE Ring(m1, f, ls[f])
  <2>1. q \in Int /\ q + 1 \in Int /\ 0 + 1 \in Int /\ p \in Int
    BY <1>1
  <2>2. /\ ~InRing(ls, f, prev) /\ ~InRing(ls, f, next)
        /\ ~InRing(ls, f, first) /\ ~InRing(ls, f, last)
    BY SMTT(60), <2>1, <1>1, <1>11, RingsApart
  <2>3. \A c \in Cells : InRing(ls, f, c) =>
                          m1.next[c] = m.next[c] /\ m1.prev[c] = m.prev[c]
    BY <2>2, <1>5
  <2>4. Ring(m, f, ls[f])
    BY <1>11 DEF Good
  <2> QED BY Zenon, <2>3, <2>4, <1>1, <1>5, RingFrame
<1>12. /\ ls1 \in [Heads -> Seq(Nodes)] /\ ls1[h] = u /\ ls1[g] = << >>
       /\ \A f \in Heads \ {g, h} : ls1[f] = ls[f]
  <2>1. << >> \in Seq(Nodes)
    OBVIOUS
  <2> QED BY Zenon, <2>1, <1>1, <1>6
<1> HIDE DEF ls1
<1>13. Apart(ls1)
  <2>1. /\ \A i, j \in 1 .. Len(s) : s[i] = s[j] => i = j
        /\ \A i, j \in 1 .. p : t[i] = t[j] => i = j
        /\ \A i \in 1 .. Len(s), j \in 1 .. p : s[i] # t[j]
    BY <1>1 DEF Apart, p
  <2> DEFINE inS(i) == IF i <= q THEN i ELSE i - p
             inT(i) == i - q
             old(i) == i <= q \/ i > q + p
  <2>2. ASSUME NEW i \in 1 .. Len(u)
        PROVE  /\ old(i) => inS(i) \in 1 .. Len(s) /\ u[i] = s[inS(i)]
               /\ ~old(i) => inT(i) \in 1 .. p /\ u[i] = t[inT(i)]
    <3>1. CASE i <= q
      BY <3>1, <1>1, <1>6
    <3>2. CASE i > q + p
      <4>1. inS(i) \in (q + 1) .. Len(s) /\ i = p + inS(i) /\ old(i)
        BY <3>2, <1>1, <1>6
      <4>2. inS(i) \in 1 .. Len(s)
        BY <4>1, <1>1
      <4> HIDE DEF inS, inT, old
      <4> QED BY <4>1, <4>2, <1>6
    <3>3. CASE ~(i <= q) /\ ~(i > q + p)
      <4>1. inT(i) \in 1 .. p /\ i = q + inT(i) /\ ~old(i)
        BY <3>3, <1>1, <1>6
      <4> HIDE DEF inS, inT, old
      <4> QED BY <4>1, <1>6
    <3> QED BY <3>1, <3>2, <3>3
  <2>3. ASSUME NEW i \in 1 .. Len(u), NEW j \in 1 .. Len(u)
        PROVE  /\ old(i) /\ old(j) /\ inS(i) = inS(j) => i = j
               /\ ~old(i) /\ ~old(j) /\ inT(i) = inT(j) => i = j
    BY <1>1, <1>6
  <2> HIDE DEF inS, inT, old
  <2>4. ASSUME NEW i \in 1 .. Len(u), NEW j \in 1 .. Len(u), u[i] = u[j]
        PROVE  i = j
    BY SMTT(60), <2>1, <2>2, <2>3, <2>4
  <2>5. ASSUME NEW f \in Heads \ {g, h}, NEW j \in 1 .. Len(ls[f]),
               NEW i \in 1 .. Len(u)
        PROVE  u[i] # ls[f][j]
    <3>1. /\ \A l \in 1 .. Len(s) : s[l] # ls[f][j]
          /\ \A l \in 1 .. p : t[l] # ls[f][j]
      BY <1>1 DEF Apart, p
    <3> QED BY <3>1, <2>2
  <2>6. 1 .. Len(ls1[g]) = {}
    BY <1>12
  <2>7. /\ \A i, j \in 1 .. Len(ls1[g]) : ls1[g][i] = ls1[g][j] => i = j
        /\ \A i \in 1 .. Len(ls1[g]), j \in 1 .. Len(ls1[h]) : ls1[g][i] # ls1[h][j]
    BY <2>6
  <2>8. \A i, j \in 1 .. Len(ls1[h]) : ls1[h][i] = ls1[h][j] => i = j
    BY <2>4, <1>12
  <2>9. \A f \in Heads \ {g, h} : \A j \in 1 .. Len(ls[f]) :
           /\ \A i \in 1 .. Len(ls1[g]) : ls1[g][i] # ls[f][j]
           /\ \A i \in 1 .. Len(ls1[h]) : ls1[h][i] # ls[f][j]
    BY <2>5, <2>6, <1>12
  <2>10. \A f \in Heads \ {g, h} : ls1[f] = ls[f]
    BY <1>12
  <2> QED BY ZenonT(30), <2>7, <2>8, <2>9, <2>10, <1>1, <1>12, ApartUpdateTwo
<1>14. \A f \in dead \cup {g} : ls1[f] = << >>
  BY <1>1, <1>12 DEF Good
<1>15. \A f \in Heads \ (dead \cup {g}) : Ring(m1, f, ls1[f])
  BY SMTT(60), <1>10, <1>11, <1>12
<1>16. dead \cup {g} \in SUBSET Heads
  BY <1>1
<1>17. Good(m1, ls1, dead \cup {g})
  BY Zenon, <1>5, <1>12, <1>13, <1>14, <1>15, <1>16 DEF Good
<1> QED BY <1>17 DEF m1, ls1, u

-----------------------------------------------------------------------------
(* The functions that callers use *)

(* A head points to the first and to the last entry, or to itself. *)
LEMMA HeadPointers ==
  ASSUME NEW m, NEW ls, NEW dead, Good(m, ls, dead), NEW h \in Heads \ dead
  PROVE  /\ m.next[h] = Place(h, ls[h], 1)
         /\ m.prev[h] = Place(h, ls[h], Len(ls[h]))
         /\ m.next[h] = h <=> ls[h] = << >>
<1>1. h \in Heads /\ ls[h] \in Seq(Nodes) /\ Len(ls[h]) \in Nat /\ Ring(m, h, ls[h])
  BY DEF Good
<1>2. m.next[Place(h, ls[h], 0)] = Place(h, ls[h], 0 + 1)
  BY <1>1 DEF Ring
<1>3. m.prev[Place(h, ls[h], Len(ls[h]) + 1)] = Place(h, ls[h], Len(ls[h]))
  BY <1>1 DEF Ring
<1>4. Place(h, ls[h], 0) = h /\ Place(h, ls[h], Len(ls[h]) + 1) = h
  BY <1>1 DEF Place
<1>5. Place(h, ls[h], 1) = h <=> ls[h] = << >>
  BY <1>1, ListAssumption DEF Place
<1> QED BY <1>2, <1>3, <1>4, <1>5

(* list_add and list_add_tail *)
LEMMA AddGood ==
  ASSUME NEW m, NEW ls, NEW dead, Good(m, ls, dead),
         NEW h \in Heads \ dead, NEW n \in Nodes, Unlisted(ls, n)
  PROVE  /\ Good(list_add(m, n, h), [ls EXCEPT ![h] = <<n>> \o @], dead)
         /\ Good(list_add_tail(m, n, h), [ls EXCEPT ![h] = Append(@, n)], dead)
<1> DEFINE s == ls[h]
<1>1. /\ s \in Seq(Nodes) /\ Len(s) \in Nat
      /\ 0 \in 0 .. Len(s) /\ Len(s) \in 0 .. Len(s)
      /\ ls \in [Heads -> Seq(Nodes)] /\ h \in Heads
  BY DEF Good
<1>2. /\ Place(h, s, 0) = h /\ m.next[h] = Place(h, s, 0 + 1)
      /\ Place(h, s, Len(s) + 1) = h /\ m.prev[h] = Place(h, s, Len(s))
  BY <1>1, HeadPointers DEF Place
<1>3. Inserted(s, 0, n) = <<n>> \o s
  BY <1>1 DEF Inserted
<1>4. Inserted(s, Len(s), n) = Append(s, n)
  BY <1>1 DEF Inserted
<1>5. Good(list_insert(m, n, h, m.next[h]),
           [ls EXCEPT ![h] = Inserted(@, 0, n)], dead)
  BY Zenon, <1>1, <1>2, InsertGood
<1>6. Good(list_insert(m, n, m.prev[h], h),
           [ls EXCEPT ![h] = Inserted(@, Len(s), n)], dead)
  BY Zenon, <1>1, <1>2, InsertGood
<1>7. /\ [ls EXCEPT ![h] = Inserted(@, 0, n)] = [ls EXCEPT ![h] = <<n>> \o @]
      /\ [ls EXCEPT ![h] = Inserted(@, Len(s), n)] = [ls EXCEPT ![h] = Append(@, n)]
  BY Zenon, <1>1, <1>3, <1>4
<1> QED BY <1>5, <1>6, <1>7 DEF list_add, list_add_tail

(* list_del and list_del_init *)
LEMMA DeleteGood ==
  ASSUME NEW m, NEW ls, NEW dead, Good(m, ls, dead),
         NEW h \in Heads \ dead, NEW k \in 1 .. Len(ls[h])
  PROVE  /\ Good(list_del(m, ls[h][k]), [ls EXCEPT ![h] = Without(@, k)], dead)
         /\ Good(list_del_init(m, ls[h][k]), [ls EXCEPT ![h] = Without(@, k)], dead)
<1> DEFINE n == ls[h][k]
           ls1 == [ls EXCEPT ![h] = Without(@, k)]
           m0 == list_unlink(m, n)
           m1 == [m0 EXCEPT !.next[n] = LIST_POISON1, !.prev[n] = LIST_POISON2]
           m2 == INIT_LIST_HEAD(m0, n)
<1>1. Good(m0, ls1, dead) /\ Unlisted(ls1, n)
  BY UnlinkGood
<1>2. n \in Nodes /\ n \in Cells /\ m0 \in Heap
  <2>1. m0 \in Heap
    BY <1>1 DEF Good
  <2>2. n \in Nodes
    BY DEF Good
  <2> QED BY <2>1, <2>2 DEF Cells
<1>3. list_del(m, n) = m1 /\ list_del_init(m, n) = m2
  BY DEF list_del, list_del_init
<1> HIDE DEF m0, ls1, n
<1>4. /\ m1 \in Heap
      /\ \A c \in Cells \ {n} : m1.next[c] = m0.next[c] /\ m1.prev[c] = m0.prev[c]
  BY Zenon, <1>2, PoisonStores
<1>5. /\ m2 \in Heap
      /\ \A c \in Cells \ {n} : m2.next[c] = m0.next[c] /\ m2.prev[c] = m0.prev[c]
  BY <1>2, InitStores
<1> HIDE DEF m1, m2
<1>6. Good(m1, ls1, dead)
  BY <1>1, <1>2, <1>4, NodeFrame
<1>7. Good(m2, ls1, dead)
  BY <1>1, <1>2, <1>5, NodeFrame
<1> QED BY <1>3, <1>6, <1>7 DEF n, ls1

(* list_replace_init of an entry *)
LEMMA ReplaceInitGood ==
  ASSUME NEW m, NEW ls, NEW dead, Good(m, ls, dead),
         NEW h \in Heads \ dead, NEW k \in 1 .. Len(ls[h]),
         NEW n \in Nodes, Unlisted(ls, n)
  PROVE  Good(list_replace_init(m, ls[h][k], n), [ls EXCEPT ![h][k] = n], dead)
<1> DEFINE old == ls[h][k]
           ls1 == [ls EXCEPT ![h][k] = n]
           m0 == list_replace(m, old, n)
           m1 == INIT_LIST_HEAD(m0, old)
<1>1. Good(m0, ls1, dead) /\ Unlisted(ls1, old)
  BY ReplaceGood
<1>2. old \in Nodes /\ old \in Cells /\ m0 \in Heap
  <2>1. m0 \in Heap
    BY <1>1 DEF Good
  <2>2. old \in Nodes
    BY DEF Good
  <2> QED BY <2>1, <2>2 DEF Cells
<1>3. list_replace_init(m, old, n) = m1
  BY DEF list_replace_init
<1> HIDE DEF m0, ls1, old
<1>4. /\ m1 \in Heap
      /\ \A c \in Cells \ {old} : m1.next[c] = m0.next[c] /\ m1.prev[c] = m0.prev[c]
  BY <1>2, InitStores
<1> HIDE DEF m1
<1>5. Good(m1, ls1, dead)
  BY <1>1, <1>2, <1>4, NodeFrame
<1> QED BY <1>3, <1>5 DEF old, ls1

(* list_move and list_move_tail, to another list or in the same one *)
LEMMA MoveGood ==
  ASSUME NEW m, NEW ls, NEW dead, Good(m, ls, dead),
         NEW h \in Heads \ dead, NEW g \in Heads \ dead, NEW k \in 1 .. Len(ls[h])
  PROVE  LET rest == [ls EXCEPT ![h] = Without(@, k)] IN
         /\ Good(list_move(m, ls[h][k], g),
                 [rest EXCEPT ![g] = <<ls[h][k]>> \o @], dead)
         /\ Good(list_move_tail(m, ls[h][k], g),
                 [rest EXCEPT ![g] = Append(@, ls[h][k])], dead)
<1> DEFINE n == ls[h][k]
           ls1 == [ls EXCEPT ![h] = Without(@, k)]
           m0 == list_unlink(m, n)
<1>1. Good(m0, ls1, dead) /\ Unlisted(ls1, n)
  BY UnlinkGood
<1>2. n \in Nodes
  BY DEF Good
<1>3. list_move(m, n, g) = list_add(m0, n, g)
      /\ list_move_tail(m, n, g) = list_add_tail(m0, n, g)
  BY DEF list_move, list_move_tail
<1> HIDE DEF m0, ls1, n
<1>4. /\ Good(list_add(m0, n, g), [ls1 EXCEPT ![g] = <<n>> \o @], dead)
      /\ Good(list_add_tail(m0, n, g), [ls1 EXCEPT ![g] = Append(@, n)], dead)
  BY Zenon, <1>1, <1>2, AddGood
<1> QED BY <1>3, <1>4 DEF n, ls1

(* list_rotate_left moves the first entry of a list to its end. *)
LEMMA RotateGood ==
  ASSUME NEW m, NEW ls, NEW dead, Good(m, ls, dead), NEW h \in Heads \ dead
  PROVE  Good(list_rotate_left(m, h),
              IF ls[h] = << >> THEN ls
              ELSE [ls EXCEPT ![h] = Append(Tail(@), Head(@))], dead)
<1>1. CASE ls[h] = << >>
  <2>1. list_rotate_left(m, h) = m
    BY <1>1, HeadPointers DEF list_rotate_left, list_empty
  <2> QED BY <1>1, <2>1
<1>2. CASE ls[h] # << >>
  <2> DEFINE s == ls[h]
             rest == [ls EXCEPT ![h] = Without(@, 1)]
  <2>1. /\ s \in Seq(Nodes) /\ Len(s) \in Nat /\ 1 \in 1 .. Len(s)
        /\ h \in Heads /\ ls \in [Heads -> Seq(Nodes)]
    BY <1>2 DEF Good
  <2>2. m.next[h] = s[1]
    BY <2>1, HeadPointers DEF Place
  <2>3. list_rotate_left(m, h) = list_move_tail(m, s[1], h)
    <3>1. m.next[h] # h
      BY SMTT(60), <1>2, HeadPointers
    <3> QED BY Zenon, <3>1, <2>2 DEF list_rotate_left, list_empty
  <2>4. Good(list_move_tail(m, s[1], h), [rest EXCEPT ![h] = Append(@, s[1])], dead)
    BY Zenon, <2>1, MoveGood
  <2>5. Without(s, 1) = Tail(s) /\ s[1] = Head(s)
    <3>1. Tail(s) \in Seq(Nodes) /\ Len(Tail(s)) = Len(s) - 1
          /\ \A j \in 1 .. (Len(s) - 1) : Tail(s)[j] = s[j + 1]
      BY <2>1
    <3>2. DOMAIN Tail(s) = 1 .. (Len(s) - 1)
      BY <3>1
    <3>3. Without(s, 1) = [j \in 1 .. (Len(s) - 1) |-> s[j + 1]]
      <4>1. \A j \in 1 .. (Len(s) - 1) : ~(j < 1)
        BY <2>1
      <4> QED BY <4>1 DEF Without
    <3>4. Tail(s) = [j \in 1 .. (Len(s) - 1) |-> s[j + 1]]
      BY <3>1, <3>2
    <3>5. s[1] = Head(s)
      BY <2>1
    <3> QED BY Zenon, <3>3, <3>4, <3>5
  <2>6. [rest EXCEPT ![h] = Append(@, s[1])]
          = [ls EXCEPT ![h] = Append(Tail(@), Head(@))]
    BY <2>1, <2>5
  <2> QED BY <1>2, <2>3, <2>4, <2>6
<1> QED BY <1>1, <1>2

(* list_replace_init of a head *)
LEMMA ReplaceHeadInitGood ==
  ASSUME NEW m, NEW ls, NEW dead, Good(m, ls, dead),
         NEW old \in Heads \ dead, NEW new \in Heads, old # new, ls[new] = << >>
  PROVE  Good(list_replace_init(m, old, new),
              [ls EXCEPT ![new] = ls[old], ![old] = << >>], dead \ {new})
<1> DEFINE ls1 == [ls EXCEPT ![new] = ls[old], ![old] = << >>]
           m0 == list_replace(m, old, new)
           dead0 == (dead \cup {old}) \ {new}
<1>1. Good(m0, ls1, dead0)
  BY ReplaceHeadGood
<1>2. ls1[old] = << >>
  BY DEF Good
<1>3. dead0 \ {old} = dead \ {new}
  OBVIOUS
<1>4. list_replace_init(m, old, new) = INIT_LIST_HEAD(m0, old)
  BY DEF list_replace_init
<1> HIDE DEF m0, ls1, dead0
<1>5. Good(INIT_LIST_HEAD(m0, old), ls1, dead0 \ {old})
  BY <1>1, <1>2, InitHead
<1> QED BY <1>3, <1>4, <1>5 DEF ls1

(* list_cut_position with the head or one of the entries as the position *)
LEMMA CutPositionGood ==
  ASSUME NEW m, NEW ls, NEW dead, Good(m, ls, dead),
         NEW h \in Heads \ dead, NEW g \in Heads, g # h, ls[g] = << >>,
         NEW k \in 0 .. Len(ls[h])
  PROVE  Good(list_cut_position(m, g, h, IF k = 0 THEN h ELSE ls[h][k]),
              [ls EXCEPT ![g] = SubSeq(ls[h], 1, k),
                         ![h] = SubSeq(@, k + 1, Len(@))],
              IF ls[h] = << >> THEN dead ELSE dead \ {g})
<1> DEFINE s == ls[h]
           entry == IF k = 0 THEN h ELSE s[k]
           ls1 == [ls EXCEPT ![g] = SubSeq(s, 1, k), ![h] = SubSeq(@, k + 1, Len(@))]
<1>1. /\ s \in Seq(Nodes) /\ Len(s) \in Nat /\ h \in Heads
      /\ ls \in [Heads -> Seq(Nodes)]
  BY SMTT(60) DEF Good
<1>2. list_empty(m, h) <=> s = << >>
  BY HeadPointers DEF list_empty
<1>3. k = 0 => ls1 = ls
  <2> SUFFICES ASSUME k = 0 PROVE ls1 = ls
    OBVIOUS
  <2>1. SubSeq(s, 1, 0) = << >> /\ SubSeq(s, 1, Len(s)) = s
    BY <1>1
  <2> QED BY <2>1, <1>1
<1>4. CASE s = << >>
  <2>1. list_cut_position(m, g, h, entry) = m
    BY <1>2, <1>4 DEF list_cut_position
  <2>2. k = 0
    BY <1>1, <1>4
  <2> QED BY <2>1, <2>2, <1>3, <1>4
<1>5. CASE s # << >> /\ k = 0
  <2>1. list_cut_position(m, g, h, entry) = INIT_LIST_HEAD(m, g)
    BY <1>2, <1>5 DEF list_cut_position
  <2> QED BY <2>1, <1>3, <1>5, InitHead
<1>6. CASE s # << >> /\ k # 0
  <2>1. k \in 1 .. Len(s) /\ entry = s[k] /\ s[k] \in Nodes /\ 1 \in 1 .. Len(s)
    BY <1>1, <1>6
  <2>2. entry # h
    BY SMTT(60), <2>1, <1>1, ListAssumption
  <2>3. ~(list_is_singular(m, h) /\ entry \notin {m.next[h], h})
    <3> SUFFICES ASSUME list_is_singular(m, h) PROVE entry = m.next[h]
      OBVIOUS
    <3>1. m.next[h] = s[1] /\ m.prev[h] = s[Len(s)]
      BY SMTT(60), <2>1, <1>1, HeadPointers DEF Place
    <3>2. s[1] = s[Len(s)]
      BY Zenon, <3>1 DEF list_is_singular
    <3>3. 1 = Len(s)
      <4>1. \A i, j \in 1 .. Len(s) : s[i] = s[j] => i = j
        BY <1>1 DEF Good, Apart
      <4>2. Len(s) \in 1 .. Len(s)
        BY SMTT(60), <2>1, <1>1
      <4> QED BY ZenonT(30), <4>1, <4>2, <3>2, <2>1
    <3> QED BY SMTT(60), <3>1, <3>3, <2>1
  <2>4. list_cut_position(m, g, h, entry) = list_cut(m, g, h, s[k])
    BY Zenon, <2>1, <2>2, <2>3, <1>2, <1>6 DEF list_cut_position
  <2>5. Good(list_cut(m, g, h, s[k]), ls1, dead \ {g})
    BY Zenon, <2>1, CutGood
  <2> QED BY <2>4, <2>5, <1>6
<1> QED BY <1>4, <1>5, <1>6

(* list_splice, list_splice_tail and their forms with _init *)
LEMMA SpliceGood ==
  ASSUME NEW m, NEW ls, NEW dead, Good(m, ls, dead),
         NEW h \in Heads \ dead, NEW g \in Heads \ dead, g # h
  PROVE  LET front == [ls EXCEPT ![h] = ls[g] \o @, ![g] = << >>]
             end == [ls EXCEPT ![h] = @ \o ls[g], ![g] = << >>]
             given == IF ls[g] = << >> THEN dead ELSE dead \cup {g}
         IN  /\ Good(list_splice(m, g, h), front, given)
             /\ Good(list_splice_init(m, g, h), front, dead)
             /\ Good(list_splice_tail(m, g, h), end, given)
             /\ Good(list_splice_tail_init(m, g, h), end, dead)
<1> DEFINE s == ls[h]
           t == ls[g]
           front == [ls EXCEPT ![h] = t \o @, ![g] = << >>]
           end == [ls EXCEPT ![h] = @ \o t, ![g] = << >>]
           mf == list_join(m, g, h, m.next[h])
           me == list_join(m, g, m.prev[h], h)
<1>1. /\ s \in Seq(Nodes) /\ Len(s) \in Nat /\ h \in Heads
      /\ t \in Seq(Nodes) /\ Len(t) \in Nat /\ g \in Heads
      /\ ls \in [Heads -> Seq(Nodes)]
      /\ 0 \in 0 .. Len(s) /\ Len(s) \in 0 .. Len(s)
  BY DEF Good
<1>2. list_empty(m, g) <=> t = << >>
  BY HeadPointers DEF list_empty
<1>3. CASE t = << >>
  <2>1. /\ list_splice(m, g, h) = m /\ list_splice_init(m, g, h) = m
        /\ list_splice_tail(m, g, h) = m /\ list_splice_tail_init(m, g, h) = m
    BY <1>2, <1>3 DEF list_splice, list_splice_init, list_splice_tail,
                      list_splice_tail_init
  <2>2. << >> \o s = s /\ s \o << >> = s
    BY <1>1
  <2>3. front = ls /\ end = ls
    BY <2>2, <1>1, <1>3
  <2> QED BY <2>1, <2>3, <1>3
<1>4. CASE t # << >>
  <2>1. /\ list_splice(m, g, h) = mf
        /\ list_splice_init(m, g, h) = INIT_LIST_HEAD(mf, g)
        /\ list_splice_tail(m, g, h) = me
        /\ list_splice_tail_init(m, g, h) = INIT_LIST_HEAD(me, g)
    BY <1>2, <1>4 DEF list_splice, list_splice_init, list_splice_tail,
                      list_splice_tail_init
  <2>2. /\ Place(h, s, 0) = h /\ m.next[h] = Place(h, s, 0 + 1)
        /\ Place(h, s, Len(s) + 1) = h /\ m.prev[h] = Place(h, s, Len(s))
    BY <1>1, HeadPointers DEF Place
  <2>3. Joined(s, 0, t) = t \o s
    BY <1>1 DEF Joined
  <2>4. Joined(s, Len(s), t) = s \o t
    BY SMTT(60), <1>1 DEF Joined
  <2>5. Good(mf, [ls EXCEPT ![h] = Joined(s, 0, t), ![g] = << >>], dead \cup {g})
    BY Zenon, <2>2, <1>1, <1>4, JoinGood
  <2>6. Good(me, [ls EXCEPT ![h] = Joined(s, Len(s), t), ![g] = << >>], dead \cup {g})
    BY Zenon, <2>2, <1>1, <1>4, JoinGood
  <2>7. Good(mf, front, dead \cup {g}) /\ Good(me, end, dead \cup {g})
    BY Zenon, <2>3, <2>4, <2>5, <2>6
  <2>8. front[g] = << >> /\ end[g] = << >> /\ (dead \cup {g}) \ {g} = dead
    BY <1>1
  <2> HIDE DEF mf, me, front, end
  <2>9. Good(INIT_LIST_HEAD(mf, g), front, dead) /\ Good(INIT_LIST_HEAD(me, g), end, dead)
    <3>1. Good(INIT_LIST_HEAD(mf, g), front, (dead \cup {g}) \ {g})
      BY <2>7, <2>8, <1>1, InitHead
    <3>2. Good(INIT_LIST_HEAD(me, g), end, (dead \cup {g}) \ {g})
      BY <2>7, <2>8, <1>1, InitHead
    <3> QED BY Zenon, <3>1, <3>2, <2>8
  <2> QED BY SMTT(60), <2>1, <2>7, <2>9, <1>4 DEF front, end
<1> QED BY <1>3, <1>4

-----------------------------------------------------------------------------
(* The theorems *)

(* Memory and lists agree after every call; Represents with the types and  *)
(* the fact that no entry is in two places, without which a store for one  *)
(* list could break another.                                               *)
IInv == Good(heap, lists, stale)

(* The heads declared with LIST_HEAD are empty lists. *)
LEMMA IInvInit == Init => IInv
<1> SUFFICES ASSUME Init PROVE IInv
  OBVIOUS
<1>1. heap \in Heap
  BY DEF Init, Heap, Cells
<1>2. /\ lists \in [Heads -> Seq(Nodes)] /\ stale \in SUBSET Heads
      /\ \A h \in Heads : lists[h] = << >>
  <2>1. << >> \in Seq(Nodes)
    OBVIOUS
  <2> QED BY <2>1 DEF Init
<1>3. Apart(lists)
  BY <1>2 DEF Apart
<1>4. ASSUME NEW h \in Heads PROVE Ring(heap, h, lists[h])
  <2>1. heap.next[h] = h /\ heap.prev[h] = h
    BY DEF Init, Cells
  <2> QED BY <2>1, <1>2 DEF Ring, Place
<1> QED BY Zenon, <1>1, <1>2, <1>3, <1>4 DEF IInv, Good, Init

(* Every call keeps memory and lists in agreement. *)
LEMMA IInvStep == IInv /\ [Next]_vars => IInv'
<1> SUFFICES ASSUME IInv, [Next]_vars PROVE IInv'
  OBVIOUS
<1>1. Good(heap, lists, stale)
  BY DEF IInv
<1>2. SUFFICES Good(heap', lists', stale')
  BY DEF IInv
<1>3. \A n : Free(n) <=> Unlisted(lists, n)
  BY DEF Free, Unlisted
<1>4. \A h \in Heads : Spare(h) => lists[h] = << >>
  BY <1>1 DEF Spare, Good
<1>5. ASSUME NEW h \in Heads, NEW n \in Nodes, Add(n, h)
      PROVE  Good(heap', lists', stale')
  <2>1. h \in Heads \ stale /\ Unlisted(lists, n) /\ stale' = stale
    BY <1>3, <1>5 DEF Add, Live
  <2>2. /\ Good(list_add(heap, n, h), [lists EXCEPT ![h] = <<n>> \o @], stale)
        /\ Good(list_add_tail(heap, n, h), [lists EXCEPT ![h] = Append(@, n)], stale)
    BY Zenon, <2>1, <1>1, AddGood
  <2> QED BY Zenon, <2>1, <2>2, <1>5 DEF Add
<1>6. ASSUME NEW h \in Heads, NEW k \in 1 .. Len(lists[h]), Delete(h, k)
      PROVE  Good(heap', lists', stale')
  BY Zenon, <1>1, <1>6, DeleteGood DEF Delete, Live
<1>7. ASSUME NEW h \in Heads, NEW k \in 1 .. Len(lists[h]), NEW n \in Nodes,
             Replace(h, k, n)
      PROVE  Good(heap', lists', stale')
  <2>1. /\ h \in Heads \ stale /\ Unlisted(lists, n) /\ stale' = stale
        /\ lists' = [lists EXCEPT ![h][k] = n]
        /\ \/ heap' = list_replace(heap, lists[h][k], n)
           \/ heap' = list_replace_init(heap, lists[h][k], n)
    BY <1>3, <1>7 DEF Replace, Live
  <2>2. Good(list_replace(heap, lists[h][k], n), [lists EXCEPT ![h][k] = n], stale)
    BY Zenon, <2>1, <1>1, ReplaceGood
  <2>3. Good(list_replace_init(heap, lists[h][k], n), [lists EXCEPT ![h][k] = n], stale)
    BY Zenon, <2>1, <1>1, ReplaceInitGood
  <2> QED BY <2>1, <2>2, <2>3
<1>8. ASSUME NEW h \in Heads, NEW k \in 1 .. Len(lists[h]), NEW g \in Heads,
             Move(h, k, g)
      PROVE  Good(heap', lists', stale')
  <2> DEFINE n == lists[h][k]
             rest == [lists EXCEPT ![h] = Without(@, k)]
  <2>1. /\ h \in Heads \ stale /\ g \in Heads \ stale /\ stale' = stale
        /\ \/ /\ heap' = list_move(heap, n, g)
              /\ lists' = [rest EXCEPT ![g] = <<n>> \o @]
           \/ /\ heap' = list_move_tail(heap, n, g)
              /\ lists' = [rest EXCEPT ![g] = Append(@, n)]
    BY <1>8 DEF Move, Live
  <2>2. /\ Good(list_move(heap, n, g), [rest EXCEPT ![g] = <<n>> \o @], stale)
        /\ Good(list_move_tail(heap, n, g), [rest EXCEPT ![g] = Append(@, n)], stale)
    BY Zenon, <2>1, <1>1, MoveGood
  <2> HIDE DEF n, rest
  <2> QED BY ZenonT(30), <2>1, <2>2
<1>9. ASSUME NEW h \in Heads, NEW g \in Heads, ReplaceHead(h, g)
      PROVE  Good(heap', lists', stale')
  <2> DEFINE ls1 == [lists EXCEPT ![g] = lists[h], ![h] = << >>]
  <2>1. /\ h \in Heads \ stale /\ lists[g] = << >> /\ h # g /\ lists' = ls1
        /\ \/ heap' = list_replace(heap, h, g) /\ stale' = (stale \cup {h}) \ {g}
           \/ heap' = list_replace_init(heap, h, g) /\ stale' = stale \ {g}
    BY <1>4, <1>9 DEF ReplaceHead, Live
  <2>2. Good(list_replace(heap, h, g), ls1, (stale \cup {h}) \ {g})
    BY Zenon, <2>1, <1>1, ReplaceHeadGood
  <2>3. Good(list_replace_init(heap, h, g), ls1, stale \ {g})
    BY Zenon, <2>1, <1>1, ReplaceHeadInitGood
  <2> HIDE DEF ls1
  <2> QED BY Zenon, <2>1, <2>2, <2>3
<1>10. ASSUME NEW h \in Heads, NEW g \in Heads, Splice(g, h)
       PROVE  Good(heap', lists', stale')
  <2> DEFINE front == [lists EXCEPT ![h] = lists[g] \o @, ![g] = << >>]
             end == [lists EXCEPT ![h] = @ \o lists[g], ![g] = << >>]
             given == IF lists[g] = << >> THEN stale ELSE stale \cup {g}
  <2>1. /\ h \in Heads \ stale /\ g \in Heads \ stale /\ g # h
        /\ \/ heap' = list_splice(heap, g, h) /\ stale' = given /\ lists' = front
           \/ heap' = list_splice_init(heap, g, h) /\ stale' = stale /\ lists' = front
           \/ heap' = list_splice_tail(heap, g, h) /\ stale' = given /\ lists' = end
           \/ heap' = list_splice_tail_init(heap, g, h) /\ stale' = stale /\ lists' = end
    BY Zenon, <1>10 DEF Splice, Live
  <2>2. /\ Good(list_splice(heap, g, h), front, given)
        /\ Good(list_splice_init(heap, g, h), front, stale)
        /\ Good(list_splice_tail(heap, g, h), end, given)
        /\ Good(list_splice_tail_init(heap, g, h), end, stale)
    BY Zenon, <2>1, <1>1, SpliceGood
  <2> HIDE DEF front, end, given
  <2> QED BY <2>1, <2>2
<1>11. ASSUME NEW h \in Heads, NEW g \in Heads, NEW k \in 0 .. Len(lists[h]),
              Cut(g, h, k)
       PROVE  Good(heap', lists', stale')
  BY Zenon, <1>1, <1>4, <1>11, CutPositionGood DEF Cut, Live
<1>12. ASSUME NEW h \in Heads, Rotate(h) PROVE Good(heap', lists', stale')
  BY <1>1, <1>12, RotateGood DEF Rotate, Live
<1>13. ASSUME NEW h \in Heads, Initialise(h) PROVE Good(heap', lists', stale')
  <2>1. lists[h] = << >>
    BY <1>1, <1>13 DEF Initialise, Good
  <2> QED BY <2>1, <1>1, <1>13, InitHead DEF Initialise
<1>14. CASE UNCHANGED vars
  BY <1>1, <1>14 DEF vars
<1> QED BY <1>5, <1>6, <1>7, <1>8, <1>9, <1>10, <1>11, <1>12, <1>13, <1>14 DEF Next

(* The agreement of memory and lists is an inductive invariant of the      *)
(* calls of include/linux/list.h.                                          *)
THEOREM IInvInvariant == Spec => []IInv
BY IInvInit, IInvStep, PTL DEF Spec

(* Every pointer is a head, an entry or the poison of list_del, and no     *)
(* entry is in two places.                                                 *)
THEOREM TypeCorrect == Spec => []TypeOK
<1>1. IInv => TypeOK
  BY DEF IInv, Good, Heap, Apart, TypeOK
<1> QED BY <1>1, IInvInvariant, PTL

(* Following next from a head visits the entries that the calls put there, *)
(* in order, and following prev visits them in reverse, for any number of  *)
(* heads and entries.                                                      *)
THEOREM ListsRepresented == Spec => []Represents
<1>1. IInv => Represents
  BY DEF IInv, Good, Represents, Live
<1> QED BY <1>1, IInvInvariant, PTL

(* list_empty, list_empty_careful, list_is_singular and list_is_last are   *)
(* right about the lists, for any number of heads and entries.             *)
THEOREM QueriesRight == Spec => []QueriesAgree
<1>1. ASSUME IInv PROVE QueriesAgree
  <2> SUFFICES ASSUME NEW h \in Heads \ stale
               PROVE  /\ list_empty(heap, h) <=> lists[h] = << >>
                      /\ list_empty_careful(heap, h) <=> lists[h] = << >>
                      /\ list_is_singular(heap, h) <=> Len(lists[h]) = 1
                      /\ \A i \in 1 .. Len(lists[h]) :
                           list_is_last(heap, lists[h][i], h) <=> i = Len(lists[h])
    BY DEF QueriesAgree, Live
  <2> DEFINE s == lists[h]
  <2>1. /\ s \in Seq(Nodes) /\ Len(s) \in Nat /\ h \in Heads /\ h \notin Nodes
        /\ Ring(heap, h, s) /\ Good(heap, lists, stale)
        /\ \A i, j \in 1 .. Len(s) : s[i] = s[j] => i = j
    BY <1>1, ListAssumption DEF IInv, Good, Apart
  <2>2. /\ heap.next[h] = Place(h, s, 1) /\ heap.prev[h] = Place(h, s, Len(s))
        /\ heap.next[h] = h <=> s = << >>
    BY <2>1, HeadPointers
  <2>3. list_empty(heap, h) <=> s = << >>
    BY <2>2 DEF list_empty
  <2>4. list_empty_careful(heap, h) <=> s = << >>
    <3>1. s = << >> => heap.prev[h] = h
      BY <2>2 DEF Place
    <3> QED BY <3>1, <2>2 DEF list_empty_careful
  <2>5. list_is_singular(heap, h) <=> Len(s) = 1
    <3>1. CASE s = << >>
      BY <3>1, <2>3 DEF list_is_singular
    <3>2. CASE s # << >>
      <4>1. 1 \in 1 .. Len(s) /\ Len(s) \in 1 .. Len(s)
        BY <3>2, <2>1
      <4>2. heap.next[h] = s[1] /\ heap.prev[h] = s[Len(s)]
        BY <4>1, <2>2 DEF Place
      <4>3. s[1] = s[Len(s)] <=> Len(s) = 1
        BY Zenon, <4>1, <2>1
      <4> QED BY <4>2, <4>3, <3>2, <2>3 DEF list_is_singular
    <3> QED BY <3>1, <3>2
  <2>6. ASSUME NEW i \in 1 .. Len(s)
        PROVE  list_is_last(heap, s[i], h) <=> i = Len(s)
    <3>1. i \in 0 .. Len(s) /\ Place(h, s, i) = s[i]
      BY <2>1 DEF Place
    <3>2. heap.next[s[i]] = Place(h, s, i + 1)
      BY <3>1, <2>1 DEF Ring
    <3>3. Place(h, s, i + 1) = h <=> i = Len(s)
      BY <2>1 DEF Place
    <3> QED BY <3>2, <3>3 DEF list_is_last
  <2> QED BY <2>3, <2>4, <2>5, <2>6
<1> QED BY <1>1, IInvInvariant, PTL
=============================================================================
