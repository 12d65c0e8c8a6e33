------------------------------ MODULE TaskWalk ------------------------------
(***************************************************************************)
(* The kernel modules of chapter 3 that list the tasks: part 1 walks the   *)
(* list of all tasks, part 2 the tree of children, depth first.  Neither   *)
(* takes a lock, and tasks may be forked while a module walks.  A task     *)
(* that exits during the walk is not modelled: its links lead nowhere, see *)
(* the README.  A call or an iteration of dfs_task_iter is one step.       *)
(***************************************************************************)
EXTENDS LinuxList, Integers, Sequences

CONSTANT MAX_TASKS   \* bounds the forks

init_task == 0
Tasks == init_task .. (MAX_TASKS - 1)

(* The list_head structures of a task_struct *)
children(t) == <<"children", t>>
sibling(t)  == <<"sibling", t>>
tasks(t)    == <<"tasks", t>>
Cells == {"children", "sibling", "tasks"} \X Tasks

VARIABLES
  list_heads,  \* the pointers of all the list_head structures
  alive,       \* the tasks there are
  parent,      \* the parent of each task
  walk,        \* "no", "linear", "dfs" or "done"
  task,        \* the cursor of part 1
  stack,       \* the active calls of dfs_task_iter: the task and children_list
  seen,        \* the tasks in the order in which they were printed
  first        \* the tasks that were there when the walk began

vars == <<list_heads, alive, parent, walk, task, stack, seen, first>>

Init ==
  /\ list_heads = [next |-> [c \in Cells |-> c], prev |-> [c \in Cells |-> c]]
  /\ alive = {init_task}
  /\ parent = [t \in Tasks |-> init_task]
  /\ walk = "no"
  /\ task = init_task /\ stack = << >> /\ seen = << >> /\ first = {}

(* fork: the new task is linked behind its siblings and behind all tasks. *)
Fork(p) ==
  LET t == CHOOSE t \in Tasks \ alive : \A u \in Tasks \ alive : t <= u IN
  /\ p \in alive /\ alive # Tasks /\ walk # "done"
  /\ alive' = alive \cup {t}
  /\ parent' = [parent EXCEPT ![t] = p]
  /\ list_heads' =
       list_add_tail(list_add_tail(list_heads, sibling(t), children(p)),
                     tasks(t), tasks(init_task))
  /\ UNCHANGED <<walk, task, stack, seen, first>>

(* insmod of part 1: for_each_process starts behind init_task. *)
LoadLinear ==
  /\ walk = "no" /\ walk' = "linear"
  /\ task' = list_heads.next[tasks(init_task)][2]
  /\ first' = alive
  /\ UNCHANGED <<list_heads, alive, parent, stack, seen>>

(* Mutant: for_each_process does not move on. *)
EachProcessStays ==
  /\ walk = "linear" /\ task # init_task
  /\ seen' = <<task>>
  /\ UNCHANGED <<list_heads, alive, parent, walk, task, stack, first>>

EachProcess ==
  /\ walk = "linear" /\ task # init_task
  /\ seen' = Append(seen, task)
  /\ task' = list_heads.next[tasks(task)][2]
  /\ UNCHANGED <<list_heads, alive, parent, walk, stack, first>>

LinearDone ==
  /\ walk = "linear" /\ task = init_task
  /\ walk' = "done"
  /\ UNCHANGED <<list_heads, alive, parent, task, stack, seen, first>>

(* A call of dfs_task_iter up to the head of its loop *)
Call(t) ==
  /\ seen' = Append(seen, t)
  /\ stack' = Append(stack, [task |-> t,
                             pos |-> list_heads.next[children(t)]])

LoadDfs ==
  /\ walk = "no" /\ walk' = "dfs"
  /\ Call(init_task)
  /\ first' = alive
  /\ UNCHANGED <<list_heads, alive, parent, task>>

Top == stack[Len(stack)]

(* Mutant: a child is printed, but its children are not. *)
EachChildFlat ==
  LET n == Len(stack) IN
  /\ walk = "dfs" /\ Top.pos # children(Top.task)
  /\ seen' = Append(seen, Top.pos[2])
  /\ stack' = [stack EXCEPT ![n].pos = list_heads.next[Top.pos]]
  /\ UNCHANGED <<list_heads, alive, parent, walk, task, first>>

(* The loop's body: list_entry(children_list, struct task_struct, sibling) *)
EachChild ==
  /\ walk = "dfs" /\ Top.pos # children(Top.task)
  /\ Call(Top.pos[2])
  /\ UNCHANGED <<list_heads, alive, parent, walk, task, first>>

(* Mutant: the caller reads its own first child again. *)
ReturnToFirst ==
  LET n == Len(stack) - 1 IN
  /\ walk = "dfs" /\ Top.pos = children(Top.task)
  /\ IF n = 0 THEN walk' = "done" /\ stack' = << >>
     ELSE /\ stack' = [SubSeq(stack, 1, n) EXCEPT
                         ![n].pos = list_heads.next[list_heads.next[children(stack[n].task)]]]
          /\ UNCHANGED walk
  /\ UNCHANGED <<list_heads, alive, parent, task, seen, first>>

(* The loop is over; the caller goes on with the next child. *)
Return ==
  LET n == Len(stack) - 1 IN
  /\ walk = "dfs" /\ Top.pos = children(Top.task)
  /\ IF n = 0 THEN walk' = "done" /\ stack' = << >>
     ELSE /\ stack' = [SubSeq(stack, 1, n) EXCEPT
                         ![n].pos = list_heads.next[stack[n].pos]]
          /\ UNCHANGED walk
  /\ UNCHANGED <<list_heads, alive, parent, task, seen, first>>

Next ==
  \/ \E p \in Tasks : Fork(p)
  \/ LoadLinear \/ EachProcess \/ LinearDone
  \/ LoadDfs \/ EachChild \/ Return

Spec == Init /\ [][Next]_vars /\ WF_vars(Next)

-----------------------------------------------------------------------------
(* Properties *)

Printed == {seen[k] : k \in 1 .. Len(seen)}
Active  == {stack[k].task : k \in 1 .. Len(stack)}

(* Both walks print every task at most once, and at the end every task     *)
(* that was there when they began, whatever was forked meanwhile; only     *)
(* part 1 leaves out init_task, where for_each_process starts and stops.   *)
EveryTaskOnce ==
  /\ \A j, k \in 1 .. Len(seen) : seen[j] = seen[k] => j = k
  /\ walk = "done" => first \ {init_task} \subseteq Printed

(* dfs_task_iter goes down before it goes on: the active calls are a path  *)
(* of the tree from init_task, and when the call for a task has returned   *)
(* the whole subtree below it has been printed.                            *)
DepthFirst ==
  walk = "dfs" =>
    /\ stack[1].task = init_task
    /\ \A k \in 2 .. Len(stack) :
         /\ parent[stack[k].task] = stack[k - 1].task
         /\ stack[k - 1].pos = sibling(stack[k].task)
    /\ \A t \in first : parent[t] \in Printed \ Active => t \in Printed \ Active

(* A walk that has begun comes to its end.  dfs_task_iter relies on the    *)
(* tree having no cycle, as its comment says.                              *)
WalkEnds == (walk \in {"linear", "dfs"}) ~> (walk = "done")

-----------------------------------------------------------------------------
(* The inductive invariant *)

TypeOK ==
  /\ list_heads \in [next : [Cells -> Cells], prev : [Cells -> Cells]]
  /\ \E n \in 1 .. MAX_TASKS : alive = 0 .. (n - 1)
  /\ parent \in [Tasks -> Tasks]
  /\ walk \in {"no", "linear", "dfs", "done"}
  /\ task \in Tasks
  /\ stack \in Seq([task : Tasks, pos : Cells])
  /\ seen \in Seq(Tasks)
  /\ first \subseteq alive

(* The parents lead to init_task, and first holds them with their children. *)
Tree ==
  /\ \A t \in alive \ {init_task} : parent[t] \in alive /\ parent[t] < t
  /\ parent[init_task] = init_task
  /\ \A t \in first : parent[t] \in first

(* The list of all tasks is in the order of the forks. *)
TaskList ==
  \E n \in 1 .. MAX_TASKS :
    /\ alive = 0 .. (n - 1)
    /\ \A t \in alive : list_heads.next[tasks(t)] =
                          tasks(IF t = n - 1 THEN init_task ELSE t + 1)
    /\ list_heads.prev[tasks(init_task)] = tasks(n - 1)

Child(p) == {t \in alive \ {init_task} : parent[t] = p}

(* The cell c is the one of the first child of p behind i, or the head. *)
IsNext(p, i, c) ==
  \/ \E u \in Child(p) : /\ c = sibling(u) /\ i < u
                         /\ \A v \in Child(p) : i < v => u <= v
  \/ c = children(p) /\ \A v \in Child(p) : v <= i

IsLast(p, c) ==
  \/ \E u \in Child(p) : c = sibling(u) /\ \A v \in Child(p) : v <= u
  \/ c = children(p) /\ Child(p) = {}

(* So are the lists of the children of each task. *)
ChildLists ==
  \A p \in Tasks :
    /\ IsNext(p, init_task, list_heads.next[children(p)])
    /\ IsLast(p, list_heads.prev[children(p)])
    /\ \A t \in Child(p) : IsNext(p, t, list_heads.next[sibling(t)])

(* The walk of the list has printed the tasks before its cursor. *)
Linear ==
  walk = "linear" =>
    /\ \A k \in 1 .. Len(seen) : seen[k] = k
    /\ task # init_task => task \in alive /\ task = Len(seen) + 1
    /\ task = init_task => \A t \in first : t <= Len(seen)

(* The active calls are a path, and the printed tasks are a subtree that   *)
(* holds the path.                                                         *)
Path ==
  walk = "dfs" =>
    /\ Len(stack) >= 1 /\ stack[1].task = init_task
    /\ \A k \in 2 .. Len(stack) :
         /\ stack[k].task \in alive \ {init_task}
         /\ parent[stack[k].task] = stack[k - 1].task
         /\ stack[k - 1].pos = sibling(stack[k].task)
    /\ \A j, k \in 1 .. Len(stack) : j < k => stack[j].task < stack[k].task
    /\ Active \subseteq Printed /\ Printed \subseteq alive
    /\ \A t \in Printed : parent[t] \in Printed

(* The children behind the cursor of a call are not printed yet, and       *)
(* neither is the one under the cursor of the last call.                   *)
Ahead ==
  walk = "dfs" =>
    /\ \/ Top.pos = children(Top.task)
       \/ \E u \in alive \ {init_task} :
            parent[u] = Top.task /\ Top.pos = sibling(u) /\ u \notin Printed
    /\ \A k \in 1 .. Len(stack) :
         \A u \in Tasks : \A v \in alive \ {init_task} :
           parent[v] = stack[k].task /\ stack[k].pos = sibling(u) /\ u < v =>
             v \notin Printed

Returned == Printed \ Active

(* The calls for the children before the cursor have returned, and so have *)
(* those for all descendants of a task for which it has.                   *)
Behind ==
  walk = "dfs" =>
    /\ \A k \in 1 .. Len(stack) : \A t \in first \ {init_task} :
         /\ parent[t] = stack[k].task
         /\ \A u \in Tasks : stack[k].pos = sibling(u) => t < u
         => t \in Returned
    /\ \A t \in first \ {init_task} : parent[t] \in Returned => t \in Returned

IInv ==
  /\ TypeOK /\ Tree /\ TaskList /\ ChildLists
  /\ Linear /\ Path /\ Ahead /\ Behind
  /\ walk = "no" => seen = << >> /\ stack = << >> /\ first = {}
  /\ EveryTaskOnce
=============================================================================
