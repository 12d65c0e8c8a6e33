----------------------------- MODULE Birthdays ------------------------------
(***************************************************************************)
(* The kernel module of chapter 2 that keeps birthdays in a list: loading  *)
(* it allocates and links two structures and prints the list, unloading it *)
(* unlinks and frees them.  It can be loaded again after it was unloaded.  *)
(* An iteration of a loop over the list is one step.                       *)
(***************************************************************************)
EXTENDS LinuxList, Integers, Sequences

CONSTANT Memory   \* where kmalloc can put a structure

birthday_list == "birthday_list"
Persons == <<"15 2 1988", "20 5 1961">>

VARIABLES
  links,       \* the list pointers of birthday_list and of the structures
  allocated,   \* the structures that kmalloc returned and kfree did not get
  person,      \* the birthday in each allocated structure
  phase,       \* where the module is
  added,       \* how many birthdays simple_init has added
  ptr, next,   \* the cursors of the two loops
  printed      \* what simple_init printed

vars == <<links, allocated, person, phase, added, ptr, next, printed>>

Cells == Memory \cup {birthday_list}

EmptyList == INIT_LIST_HEAD([next |-> [c \in Cells |-> LIST_POISON1],
                             prev |-> [c \in Cells |-> LIST_POISON2]],
                            birthday_list)

Init ==
  /\ links = EmptyList /\ allocated = {}
  /\ person = [c \in Memory |-> ""]
  /\ phase = "unloaded" /\ added = 0
  /\ ptr = birthday_list /\ next = birthday_list /\ printed = << >>

(* insmod initialises the static data of the module. *)
Load ==
  /\ phase = "unloaded"
  /\ phase' = "create" /\ added' = 0
  /\ links' = EmptyList /\ printed' = << >>
  /\ UNCHANGED <<allocated, person, ptr, next>>

(* kmalloc, the assignments, INIT_LIST_HEAD and list_add_tail, once for    *)
(* each birthday *)
Create ==
  /\ phase = "create"
  /\ added' = added + 1
  /\ \E c \in Memory \ allocated :
       /\ allocated' = allocated \cup {c}
       /\ person' = [person EXCEPT ![c] = Persons[added']]
       /\ links' = list_add_tail(INIT_LIST_HEAD(links, c), c, birthday_list)
  /\ phase' = IF added' < Len(Persons) THEN "create" ELSE "print"
  /\ ptr' = links'.next[birthday_list]
  /\ UNCHANGED <<next, printed>>

(* kmalloc may return NULL, which the module does not check. *)
Oops ==
  /\ phase = "create"
  /\ phase' = "oops"
  /\ UNCHANGED <<added, links, allocated, person, ptr, next, printed>>

(* list_for_each_entry *)
PrintEntry ==
  /\ phase = "print" /\ ptr # birthday_list
  /\ printed' = Append(printed, person[ptr])
  /\ ptr' = links.next[ptr]
  /\ UNCHANGED <<added, links, allocated, person, phase, next>>

Loaded ==
  /\ phase = "print" /\ ptr = birthday_list
  /\ phase' = "loaded"
  /\ UNCHANGED <<added, links, allocated, person, ptr, next, printed>>

(* list_for_each_entry_safe of simple_exit *)
Unload ==
  /\ phase = "loaded"
  /\ phase' = "free"
  /\ ptr' = links.next[birthday_list] /\ next' = links.next[ptr']
  /\ UNCHANGED <<added, links, allocated, person, printed>>

(* Mutant: list_for_each_entry, which reads the freed structure's pointer. *)
FreeEntryUnsafe ==
  /\ phase = "free" /\ ptr # birthday_list
  /\ links' = list_del(links, ptr)
  /\ allocated' = allocated \ {ptr}
  /\ ptr' = links'.next[ptr] /\ next' = ptr'
  /\ UNCHANGED <<added, person, phase, printed>>

FreeEntry ==
  /\ phase = "free" /\ ptr # birthday_list
  /\ links' = list_del(links, ptr)
  /\ allocated' = allocated \ {ptr}
  /\ ptr' = next /\ next' = links'.next[next]
  /\ UNCHANGED <<added, person, phase, printed>>

(* Mutant: the loop stops before the last entry. *)
UnloadedEarly ==
  /\ phase = "free" /\ next = birthday_list
  /\ phase' = "unloaded"
  /\ UNCHANGED <<added, links, allocated, person, ptr, next, printed>>

Unloaded ==
  /\ phase = "free" /\ ptr = birthday_list
  /\ phase' = "unloaded"
  /\ UNCHANGED <<added, links, allocated, person, ptr, next, printed>>

Next ==
  \/ Load \/ Create \/ Oops \/ PrintEntry \/ Loaded
  \/ Unload \/ FreeEntry \/ Unloaded

Spec == Init /\ [][Next]_vars

-----------------------------------------------------------------------------
(* Properties *)

(* The loops only follow pointers of structures that are still allocated:  *)
(* simple_exit frees the structure under its cursor and reads on.          *)
NoUseAfterFree ==
  phase \in {"print", "free"} =>
    {ptr} \cup (IF phase = "free" THEN {next} ELSE {})
      \subseteq allocated \cup {birthday_list}

(* simple_init prints the birthdays in the order they were added, and      *)
(* simple_exit frees every structure: nothing is left when it has run.     *)
ListedAndFreed ==
  /\ phase = "loaded" => printed = Persons
  /\ phase = "unloaded" => allocated = {}

-----------------------------------------------------------------------------
(* The inductive invariant *)

TypeOK ==
  /\ links \in [next : [Cells -> Cells \cup {LIST_POISON1}],
                prev : [Cells -> Cells \cup {LIST_POISON2}]]
  /\ allocated \subseteq Memory
  /\ person \in [Memory -> {"", Persons[1], Persons[2]}]

(* The structures in the list are none, a alone, or a before b. *)
NoneListed ==
  /\ allocated = {}
  /\ links.next[birthday_list] = birthday_list
  /\ links.prev[birthday_list] = birthday_list

OneListed(a) ==
  /\ allocated = {a}
  /\ links.next[birthday_list] = a /\ links.next[a] = birthday_list
  /\ links.prev[birthday_list] = a /\ links.prev[a] = birthday_list

TwoListed(a, b) ==
  /\ allocated = {a, b} /\ a # b
  /\ links.next[birthday_list] = a /\ links.next[a] = b
  /\ links.next[b] = birthday_list
  /\ links.prev[birthday_list] = b /\ links.prev[b] = a
  /\ links.prev[a] = birthday_list

(* simple_init adds the first birthday and then the second. *)
Creating ==
  /\ printed = << >>
  /\ \/ added = 0 /\ NoneListed
     \/ added = 1 /\ \E a \in Memory : OneListed(a) /\ person[a] = Persons[1]

(* It prints the two, ptr is on the next. *)
Printing ==
  \E a, b \in Memory :
    /\ TwoListed(a, b) /\ person[a] = Persons[1] /\ person[b] = Persons[2]
    /\ \/ ptr = a /\ printed = << >>
       \/ ptr = b /\ printed = <<Persons[1]>>
       \/ ptr = birthday_list /\ printed = Persons

(* simple_exit frees what is left, ptr is on the first and next behind it. *)
Freeing ==
  \/ \E a, b \in Memory : TwoListed(a, b) /\ ptr = a /\ next = b
  \/ \E b \in Memory : OneListed(b) /\ ptr = b /\ next = birthday_list
  \/ NoneListed /\ ptr = birthday_list /\ next = birthday_list

IInv ==
  /\ TypeOK
  /\ phase \in {"unloaded", "create", "oops", "print", "loaded", "free"}
  /\ phase = "unloaded" => allocated = {}
  /\ phase = "create" => Creating
  /\ phase = "print" => Printing
  /\ phase = "loaded" => printed = Persons /\ \E a, b \in Memory : TwoListed(a, b)
  /\ phase = "free" => Freeing
=============================================================================
