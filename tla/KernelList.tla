----------------------------- MODULE KernelList -----------------------------
(***************************************************************************)
(* A caller of include/linux/list.h that makes any sequence of calls that  *)
(* the header allows, on any number of lists and entries.  lists is what   *)
(* the comments of the header promise: the entries of every list in order. *)
(* Represents says that the pointers are those lists.                      *)
(***************************************************************************)
EXTENDS LinuxList, Integers, Sequences

CONSTANTS Heads, Nodes

ASSUME ListAssumption ==
  /\ Heads \cap Nodes = {}
  /\ {LIST_POISON1, LIST_POISON2} \cap (Heads \cup Nodes) = {}

VARIABLES
  heap,    \* the pointers of all heads and entries
  lists,   \* the entries of each list, in order
  stale    \* the heads that were given away and not initialised again

vars == <<heap, lists, stale>>

Cells == Heads \cup Nodes

(* The heads are declared with LIST_HEAD, the entries are not initialised. *)
Init ==
  /\ heap = [next |-> [c \in Cells |-> IF c \in Heads THEN c ELSE LIST_POISON1],
             prev |-> [c \in Cells |-> IF c \in Heads THEN c ELSE LIST_POISON2]]
  /\ lists = [h \in Heads |-> << >>]
  /\ stale = {}

-----------------------------------------------------------------------------
(* What the calls do to the sequences *)

Free(n) == \A h \in Heads : \A k \in 1 .. Len(lists[h]) : lists[h][k] # n

Without(s, k) == [j \in 1 .. (Len(s) - 1) |-> IF j < k THEN s[j] ELSE s[j + 1]]

Live == Heads \ stale
Spare(h) == h \in stale \/ lists[h] = << >>

-----------------------------------------------------------------------------
Add(n, h) ==
  /\ Free(n) /\ h \in Live
  /\ \/ /\ heap' = list_add(heap, n, h)
        /\ lists' = [lists EXCEPT ![h] = <<n>> \o @]
     \/ /\ heap' = list_add_tail(heap, n, h)
        /\ lists' = [lists EXCEPT ![h] = Append(@, n)]
  /\ UNCHANGED stale

Delete(h, k) ==
  /\ h \in Live /\ k \in 1 .. Len(lists[h])
  /\ \/ heap' = list_del(heap, lists[h][k])
     \/ heap' = list_del_init(heap, lists[h][k])
  /\ lists' = [lists EXCEPT ![h] = Without(@, k)]
  /\ UNCHANGED stale

Replace(h, k, n) ==
  /\ h \in Live /\ k \in 1 .. Len(lists[h]) /\ Free(n)
  /\ \/ heap' = list_replace(heap, lists[h][k], n)
     \/ heap' = list_replace_init(heap, lists[h][k], n)
  /\ lists' = [lists EXCEPT ![h][k] = n]
  /\ UNCHANGED stale

(* A list gets a new head; the old one is given away, or initialised. *)
ReplaceHead(old, new) ==
  /\ old \in Live /\ Spare(new) /\ old # new
  /\ \/ heap' = list_replace(heap, old, new) /\ stale' = (stale \cup {old}) \ {new}
     \/ heap' = list_replace_init(heap, old, new) /\ stale' = stale \ {new}
  /\ lists' = [lists EXCEPT ![new] = lists[old], ![old] = << >>]

(* An entry moves to the front or to the end of a list, perhaps its own. *)
Move(h, k, g) ==
  /\ {h, g} \subseteq Live /\ k \in 1 .. Len(lists[h])
  /\ LET n == lists[h][k]
         rest == [lists EXCEPT ![h] = Without(@, k)]
     IN  \/ /\ heap' = list_move(heap, n, g)
            /\ lists' = [rest EXCEPT ![g] = <<n>> \o @]
         \/ /\ heap' = list_move_tail(heap, n, g)
            /\ lists' = [rest EXCEPT ![g] = Append(@, n)]
  /\ UNCHANGED stale

Rotate(h) ==
  /\ h \in Live
  /\ heap' = list_rotate_left(heap, h)
  /\ lists' = IF lists[h] = << >> THEN lists
              ELSE [lists EXCEPT ![h] = Append(Tail(@), Head(@))]
  /\ UNCHANGED stale

(* The first k entries of h move to g; the entry is the head if k = 0.  An *)
(* empty list h leaves g as it is.                                         *)
Cut(g, h, k) ==
  /\ h \in Live /\ Spare(g) /\ g # h /\ k \in 0 .. Len(lists[h])
  /\ heap' = list_cut_position(heap, g, h, IF k = 0 THEN h ELSE lists[h][k])
  /\ lists' = [lists EXCEPT ![g] = SubSeq(lists[h], 1, k),
                            ![h] = SubSeq(@, k + 1, Len(@))]
  /\ stale' = IF lists[h] = << >> THEN stale ELSE stale \ {g}

(* All entries of g go to the front or to the end of h.  Without _init the *)
(* head g must not be used any more, unless it was empty.                  *)
Splice(g, h) ==
  /\ {g, h} \subseteq Live /\ g # h
  /\ \/ /\ \/ heap' = list_splice(heap, g, h) /\
              stale' = (IF lists[g] = << >> THEN stale ELSE stale \cup {g})
           \/ heap' = list_splice_init(heap, g, h) /\ UNCHANGED stale
        /\ lists' = [lists EXCEPT ![h] = lists[g] \o @, ![g] = << >>]
     \/ /\ \/ heap' = list_splice_tail(heap, g, h) /\
              stale' = (IF lists[g] = << >> THEN stale ELSE stale \cup {g})
           \/ heap' = list_splice_tail_init(heap, g, h) /\ UNCHANGED stale
        /\ lists' = [lists EXCEPT ![h] = @ \o lists[g], ![g] = << >>]

Initialise(h) ==
  /\ h \in stale
  /\ heap' = INIT_LIST_HEAD(heap, h)
  /\ stale' = stale \ {h}
  /\ UNCHANGED lists

Next ==
  \E h \in Heads :
    \/ \E n \in Nodes : Add(n, h)
    \/ \E k \in 1 .. Len(lists[h]) :
         \/ Delete(h, k)
         \/ \E n \in Nodes : Replace(h, k, n)
         \/ \E g \in Heads : Move(h, k, g)
    \/ \E g \in Heads :
         \/ ReplaceHead(h, g) \/ Splice(g, h)
         \/ \E k \in 0 .. Len(lists[h]) : Cut(g, h, k)
    \/ Rotate(h) \/ Initialise(h)

Spec == Init /\ [][Next]_vars

-----------------------------------------------------------------------------
(* Properties *)

(* The cell in place i of a list, where the head is the place before the   *)
(* first entry and again the one after the last.                           *)
Place(h, s, i) == IF i \in 1 .. Len(s) THEN s[i] ELSE h

(* The pointers of m make a ring of the head h and the entries s. *)
Ring(m, h, s) ==
  \A i \in 0 .. Len(s) :
    /\ m.next[Place(h, s, i)] = Place(h, s, i + 1)
    /\ m.prev[Place(h, s, i + 1)] = Place(h, s, i)

(* The types of the variables; no entry is in two places. *)
TypeOK ==
  /\ heap \in [next : [Cells -> Cells \cup {LIST_POISON1}],
               prev : [Cells -> Cells \cup {LIST_POISON2}]]
  /\ lists \in [Heads -> Seq(Nodes)]
  /\ stale \in SUBSET Heads
  /\ \A h \in stale : lists[h] = << >>
  /\ \A g, h \in Heads :
       \A i \in 1 .. Len(lists[g]), j \in 1 .. Len(lists[h]) :
         lists[g][i] = lists[h][j] => g = h /\ i = j

(* Every sequence of calls leaves the lists that the comments of list.h    *)
(* promise: following next from a head visits its entries in order and     *)
(* comes back to the head, and following prev visits them in reverse.      *)
Represents == \A h \in Live : Ring(heap, h, lists[h])

(* list_empty, list_empty_careful, list_is_singular and list_is_last tell  *)
(* what is in a list from one or two pointers.                             *)
QueriesAgree ==
  \A h \in Live :
    /\ list_empty(heap, h) <=> lists[h] = << >>
    /\ list_empty_careful(heap, h) <=> lists[h] = << >>
    /\ list_is_singular(heap, h) <=> Len(lists[h]) = 1
    /\ \A i \in 1 .. Len(lists[h]) :
         list_is_last(heap, lists[h][i], h) <=> i = Len(lists[h])
=============================================================================
