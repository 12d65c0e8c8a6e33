----------------------------- MODULE Processes ------------------------------
(***************************************************************************)
(* The programs of chapter 3 that fork: the question about fork(), the     *)
(* fork/exec example, the zombie of problem 3.19 and the UNIX pipe.  Each  *)
(* is the list of its system calls and of the output that matters; the     *)
(* actions run one of them in all the processes that fork makes of it.     *)
(***************************************************************************)
EXTENDS Integers, Sequences

Pids == 1 .. 2        \* none of the programs forks twice
init == 0            \* the parent of a process whose parent has exited

(* The child of a fork goes on at line child, its parent at the next line, *)
(* and at line error if there is no child.                                 *)
fork(child, error) == [op |-> "fork", child |-> child, error |-> error]
call(op) == [op |-> op]

question_1 ==
  <<fork(4, 5), call("wait"), call("print"), call("add"), call("exit")>>

newproc ==
  <<fork(4, 5), call("wait"), call("print"), call("exec"), call("exit")>>

(* Mutant: the parent relies on its sleep and does not wait. *)
zombieUnawaited == <<fork(4, 4), call("sleep"), call("sleep"), call("exit")>>

zombie == <<fork(4, 4), call("sleep"), call("wait"), call("exit")>>

unix_pipe ==
  <<call("pipe"), fork(6, 10),
    call("close_read"), call("write"), call("close_write"),
    call("close_write"), call("read"), call("print"), call("close_read"),
    call("exit")>>

Texts == [question_1 |-> question_1, newproc |-> newproc,
          zombie |-> zombie, unix_pipe |-> unix_pipe]

(* The lines after which the parent's branch jumps over the child's *)
Jumps == [question_1 |-> [x \in {3} |-> 5], newproc |-> [x \in {3} |-> 5],
          zombie |-> << >>,
          unix_pipe |-> [x \in {5} |-> 10]]

VARIABLES
  text,      \* the program that runs, "none" before
  status,    \* "unused", "running", "zombie" or "reaped", for each process
  ppid,      \* the parent of each process
  line,      \* the line each process is at
  value,     \* the variable each process has its own copy of
  fds,       \* the ends of the pipe each process has open
  pipe,      \* is there a message in the pipe
  output,    \* the processes that printed, with their value
  failed     \* has a fork or a pipe failed

vars == <<text, status, ppid, line, value, fds, pipe, output, failed>>

Init ==
  /\ text = "none"
  /\ status = [p \in Pids |-> IF p = 1 THEN "running" ELSE "unused"]
  /\ ppid = [p \in Pids |-> init]
  /\ line = [p \in Pids |-> 1]
  /\ value = [p \in Pids |-> 5]
  /\ fds = [p \in Pids |-> {}]
  /\ pipe = FALSE /\ output = {} /\ failed = FALSE

Start ==
  /\ text = "none"
  /\ text' \in DOMAIN Texts
  /\ UNCHANGED <<status, ppid, line, value, fds, pipe, output, failed>>

At(p, op) ==
  /\ text # "none" /\ status[p] = "running"
  /\ Texts[text][line[p]].op = op

After(p) == IF line[p] \in DOMAIN Jumps[text] THEN Jumps[text][line[p]] ELSE line[p] + 1

Step(p) == line' = [line EXCEPT ![p] = After(p)]

(* The child has copies of the parent's variables and descriptors. *)
Fork(p) ==
  \E c \in Pids :
    /\ At(p, "fork")
    /\ status[c] = "unused" /\ \A d \in Pids : d < c => status[d] # "unused"
    /\ status' = [status EXCEPT ![c] = "running"]
    /\ ppid' = [ppid EXCEPT ![c] = p]
    /\ line' = [line EXCEPT ![p] = @ + 1, ![c] = Texts[text][line[p]].child]
    /\ value' = [value EXCEPT ![c] = value[p]]
    /\ fds' = [fds EXCEPT ![c] = fds[p]]
    /\ UNCHANGED <<text, pipe, output, failed>>

ForkFails(p) ==
  /\ At(p, "fork")
  /\ line' = [line EXCEPT ![p] = Texts[text][line[p]].error]
  /\ failed' = TRUE
  /\ UNCHANGED <<text, status, ppid, value, fds, pipe, output>>

Children(p, s) == {c \in Pids : ppid[c] = p /\ status[c] = s}

(* Mutant: wait(NULL) does not block. *)
WaitNoHang(p) ==
  /\ At(p, "wait")
  /\ Step(p)
  /\ UNCHANGED <<text, status, ppid, value, fds, pipe, output, failed>>

(* wait(NULL) blocks until a child has exited, and reaps it. *)
Wait(p) ==
  /\ At(p, "wait")
  /\ \E c \in Children(p, "zombie") : status' = [status EXCEPT ![c] = "reaped"]
  /\ Step(p)
  /\ UNCHANGED <<text, ppid, value, fds, pipe, output, failed>>

(* A process that exits is a zombie until its parent waits for it or exits *)
(* too; init takes over its children and reaps them.                       *)
Exit(p) ==
  /\ At(p, "exit")
  /\ status' = [q \in Pids |->
       CASE q = p -> IF ppid[p] = init THEN "reaped" ELSE "zombie"
         [] q \in Children(p, "zombie") -> "reaped"
         [] OTHER -> status[q]]
  /\ ppid' = [q \in Pids |-> IF ppid[q] = p THEN init ELSE ppid[q]]
  /\ fds' = [fds EXCEPT ![p] = {}]
  /\ UNCHANGED <<text, line, value, pipe, output, failed>>

(* printf of the value, or of the process identifier *)
Output(p) ==
  /\ At(p, "print")
  /\ output' = output \cup {<<p, value[p]>>}
  /\ Step(p)
  /\ UNCHANGED <<text, status, ppid, value, fds, pipe, failed>>

(* value += 15 *)
Add(p) ==
  /\ At(p, "add")
  /\ value' = [value EXCEPT ![p] = @ + 15]
  /\ Step(p)
  /\ UNCHANGED <<text, status, ppid, fds, pipe, output, failed>>

(* sleep; or execlp, after which the process runs ls or, if there is no    *)
(* such program, the rest of main: in both cases all it does is to exit.   *)
Pass(p) ==
  /\ At(p, "sleep") \/ At(p, "exec")
  /\ Step(p)
  /\ UNCHANGED <<text, status, ppid, value, fds, pipe, output, failed>>

Pipe(p) ==
  /\ At(p, "pipe")
  /\ \/ fds' = [fds EXCEPT ![p] = {"read", "write"}] /\ Step(p) /\ UNCHANGED failed
     \/ line' = [line EXCEPT ![p] = 10] /\ failed' = TRUE /\ UNCHANGED fds
  /\ UNCHANGED <<text, status, ppid, value, pipe, output>>

Close(p) ==
  /\ \/ At(p, "close_read") /\ fds' = [fds EXCEPT ![p] = @ \ {"read"}]
     \/ At(p, "close_write") /\ fds' = [fds EXCEPT ![p] = @ \ {"write"}]
  /\ Step(p)
  /\ UNCHANGED <<text, status, ppid, value, pipe, output, failed>>

Write(p) ==
  /\ At(p, "write")
  /\ pipe' = TRUE
  /\ Step(p)
  /\ UNCHANGED <<text, status, ppid, value, fds, output, failed>>

(* read blocks until there is a message or nobody can write one; in that   *)
(* case read_msg stays uninitialised.                                      *)
Read(p) ==
  /\ At(p, "read")
  /\ \A q \in Pids : "write" \in fds[q] => pipe
  /\ value' = [value EXCEPT ![p] = IF pipe THEN "Greetings" ELSE "garbage"]
  /\ pipe' = FALSE
  /\ Step(p)
  /\ UNCHANGED <<text, status, ppid, fds, output, failed>>

Run(p) ==
  \/ Fork(p) \/ ForkFails(p) \/ Wait(p) \/ Exit(p) \/ Output(p) \/ Add(p)
  \/ Pass(p) \/ Pipe(p) \/ Close(p) \/ Write(p) \/ Read(p)

Next == Start \/ \E p \in Pids : Run(p)

Spec == Init /\ [][Next]_vars

-----------------------------------------------------------------------------
(* Properties *)

(* What the programs print: in question 1 the parent's value, still 5      *)
(* though the child added 15 to its own copy ("Answer is 5"), in the       *)
(* fork/exec example "Child Complete", each only after the child has       *)
(* exited; in the pipe example the child prints the parent's message.      *)
PrintedAfterChild ==
  /\ text \in {"question_1", "newproc"} /\ output # {} =>
       output = {<<1, 5>>} /\ status[2] = "reaped"
  /\ text = "unix_pipe" /\ output # {} => output = {<<2, "Greetings">>}

(* In all the programs but the pipe example, whose parent does not wait,   *)
(* the parent has reaped its child when it exits: it leaves neither a      *)
(* running child nor a zombie to init, however long the child takes.       *)
LeavesNoChild ==
  text # "unix_pipe" /\ status[1] = "running" /\ status'[1] # "running" =>
    status[2] \in {"unused", "reaped"}
ChildWaitedFor == [][LeavesNoChild]_vars
=============================================================================
