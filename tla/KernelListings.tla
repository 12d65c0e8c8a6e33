--------------------------- MODULE KernelListings ---------------------------
(***************************************************************************)
(* The small kernel modules on linked lists as Listings runs them: the     *)
(* birthday list of chapter 2 and the walks of the tasks of chapter 3,     *)
(* with what the proofs assume of their constants, and their properties.   *)
(***************************************************************************)
EXTENDS Integers

CONSTANTS
  Memory,      \* of Birthdays
  MAX_TASKS    \* of TaskWalk

ASSUME BirthdaysAssumption == "birthday_list" \notin Memory

ASSUME TaskWalkAssumption == MAX_TASKS \in Nat \ {0}

VARIABLES
  links, allocated, person, phase, added, ptr, next, printed,
  list_heads, alive, parent, walk, task, stack, seen, first

B == INSTANCE Birthdays
W == INSTANCE TaskWalk

-----------------------------------------------------------------------------
(* Properties, each stated in the module of its program *)

(* Unloading the birthday module never follows a freed pointer. *)
NoUseAfterFree == B!NoUseAfterFree

(* The birthday module prints its list in order and frees all of it. *)
ListedAndFreed == B!ListedAndFreed

(* The walks of the task list and of the task tree print every task once. *)
EveryTaskOnce == W!EveryTaskOnce

(* dfs_task_iter prints a whole subtree before it returns. *)
DepthFirst == W!DepthFirst

(* A walk of the tasks that has begun comes to its end. *)
WalkEnds == W!WalkEnds
=============================================================================
