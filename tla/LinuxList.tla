------------------------------ MODULE LinuxList -----------------------------
(***************************************************************************)
(* The circular doubly linked list of include/linux/list.h, which the      *)
(* kernel modules of chapters 2 and 3 use.  The operators take and return  *)
(* the memory m, the next and prev pointers of all list_head structures;   *)
(* an EXCEPT with several parts makes its stores in the order of the code, *)
(* and a pointer that the code reads after a store is read from the memory *)
(* after that store.                                                       *)
(***************************************************************************)

LIST_POISON1 == "LIST_POISON1"
LIST_POISON2 == "LIST_POISON2"

INIT_LIST_HEAD(m, list) == [m EXCEPT !.next[list] = list, !.prev[list] = list]

(* __list_add: new between two consecutive entries *)
list_insert(m, new, prev, next) ==
  [m EXCEPT !.prev[next] = new, !.next[new] = next,
            !.prev[new] = prev, !.next[prev] = new]

list_add(m, new, head) == list_insert(m, new, head, m.next[head])

(* Mutant: takes the successor of the head for its predecessor. *)
list_add_tailAfterFirst(m, new, head) ==
  list_insert(m, new, m.next[head], m.next[m.next[head]])

list_add_tail(m, new, head) == list_insert(m, new, m.prev[head], head)

(* __list_del and __list_del_entry *)
list_unlink(m, entry) ==
  [m EXCEPT !.prev[m.next[entry]] = m.prev[entry],
            !.next[m.prev[entry]] = m.next[entry]]

list_del(m, entry) ==
  [list_unlink(m, entry) EXCEPT !.next[entry] = LIST_POISON1,
                                !.prev[entry] = LIST_POISON2]

list_del_init(m, entry) == INIT_LIST_HEAD(list_unlink(m, entry), entry)

list_replace(m, old, new) ==
  LET m1 == [m EXCEPT !.next[new] = m.next[old], !.prev[m.next[old]] = new]
  IN  [m1 EXCEPT !.prev[new] = m1.prev[old], !.next[m1.prev[old]] = new]

list_replace_init(m, old, new) == INIT_LIST_HEAD(list_replace(m, old, new), old)

list_move(m, list, head) == list_add(list_unlink(m, list), list, head)

list_move_tail(m, list, head) == list_add_tail(list_unlink(m, list), list, head)

list_is_last(m, list, head) == m.next[list] = head

list_empty(m, head) == m.next[head] = head

list_empty_careful(m, head) == m.next[head] = head /\ m.next[head] = m.prev[head]

list_is_singular(m, head) == ~list_empty(m, head) /\ m.next[head] = m.prev[head]

list_rotate_left(m, head) ==
  IF list_empty(m, head) THEN m ELSE list_move_tail(m, m.next[head], head)

(* __list_cut_position *)
list_cut(m, list, head, entry) ==
  [m EXCEPT !.next[list] = m.next[head], !.prev[m.next[head]] = list,
            !.prev[list] = entry, !.next[entry] = list,
            !.next[head] = m.next[entry], !.prev[m.next[entry]] = head]

list_cut_position(m, list, head, entry) ==
  IF \/ list_empty(m, head)
     \/ list_is_singular(m, head) /\ entry \notin {m.next[head], head}
  THEN m
  ELSE IF entry = head THEN INIT_LIST_HEAD(m, list)
  ELSE list_cut(m, list, head, entry)

(* __list_splice: the entries of list between prev and next *)
list_join(m, list, prev, next) ==
  [m EXCEPT !.prev[m.next[list]] = prev, !.next[prev] = m.next[list],
            !.next[m.prev[list]] = next, !.prev[next] = m.prev[list]]

list_splice(m, list, head) ==
  IF list_empty(m, list) THEN m ELSE list_join(m, list, head, m.next[head])

list_splice_tail(m, list, head) ==
  IF list_empty(m, list) THEN m ELSE list_join(m, list, m.prev[head], head)

list_splice_init(m, list, head) ==
  IF list_empty(m, list) THEN m
  ELSE INIT_LIST_HEAD(list_join(m, list, head, m.next[head]), list)

list_splice_tail_init(m, list, head) ==
  IF list_empty(m, list) THEN m
  ELSE INIT_LIST_HEAD(list_join(m, list, m.prev[head], head), list)
=============================================================================
