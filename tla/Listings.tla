------------------------------ MODULE Listings ------------------------------
(***************************************************************************)
(* The small programs of the repository, each modelled in a module of its  *)
(* own, side by side: one of them is started, and only it runs.  So the    *)
(* states of this specification are the disjoint union of theirs.          *)
(***************************************************************************)
EXTENDS KernelList, KernelListings, SumListings, BufferListings,
        SharingListings, ServiceListings

VARIABLES
  program,   \* the program that was started, "none" before
  text, status, ppid, line, value, fds, pipe, output, failed,
  owner, work_pc, joined

C == INSTANCE Processes
X == INSTANCE Deadlock

birthdays_vars ==
  <<links, allocated, person, phase, added, ptr, next, printed>>
tasks_vars ==
  <<list_heads, alive, parent, walk, task, stack, seen, first>>
statistics_vars ==
  <<val_buffer, avg, max, min, stat_i, val, calc_pc, stat_main>>
fibonacci_vars ==
  <<fib_sequence_buf, n_fib, fib_i, main_i, fib_main, fib_printed>>
montecarlo_vars ==
  <<shared, mc_mutex, mc_pc, my_inside_count, reg, mc_i, main>>
fork_vars ==
  <<text, status, ppid, line, value, fds, pipe, output, failed>>
shared_memory_vars ==
  <<shm_name, segments, shm_pc, shm_fd, shm_ptr, undisturbed, removed>>
date_server_vars ==
  <<version, server, worker, backlog, sent, closed, client>>
file_locks_vars ==
  <<raf_length, exclusiveLock, sharedLock, lock_pc>>
deadlock_vars ==
  <<owner, work_pc, joined>>

allvars ==
  <<program, vars,
    birthdays_vars, tasks_vars, statistics_vars, fibonacci_vars,
    montecarlo_vars, fork_vars, shared_memory_vars,
    date_server_vars, file_locks_vars, deadlock_vars>>

InitAll ==
  /\ program = "none" /\ Init
  /\ B!Init /\ W!Init /\ S!Init /\ F!Init /\ M!Init /\ C!Init
  /\ H!Init /\ D!Init /\ L!Init /\ X!Init

Launch ==
  /\ program = "none"
  /\ program' \in {"list", "birthdays", "tasks", "statistics", "fibonacci",
                   "montecarlo", "fork", "shared_memory",
                   "date_server", "file_locks", "deadlock"}
  /\ UNCHANGED
    <<vars,
      birthdays_vars, tasks_vars, statistics_vars, fibonacci_vars,
      montecarlo_vars, fork_vars, shared_memory_vars,
      date_server_vars, file_locks_vars, deadlock_vars>>

(* Only the program p runs. *)
Only(p) ==
  /\ UNCHANGED program
  /\ IF p = "list" THEN TRUE ELSE UNCHANGED vars
  /\ IF p = "birthdays" THEN TRUE ELSE UNCHANGED birthdays_vars
  /\ IF p = "tasks" THEN TRUE ELSE UNCHANGED tasks_vars
  /\ IF p = "statistics" THEN TRUE ELSE UNCHANGED statistics_vars
  /\ IF p = "fibonacci" THEN TRUE ELSE UNCHANGED fibonacci_vars
  /\ IF p = "montecarlo" THEN TRUE ELSE UNCHANGED montecarlo_vars
  /\ IF p = "fork" THEN TRUE ELSE UNCHANGED fork_vars
  /\ IF p = "shared_memory" THEN TRUE ELSE UNCHANGED shared_memory_vars
  /\ IF p = "date_server" THEN TRUE ELSE UNCHANGED date_server_vars
  /\ IF p = "file_locks" THEN TRUE ELSE UNCHANGED file_locks_vars
  /\ IF p = "deadlock" THEN TRUE ELSE UNCHANGED deadlock_vars

NextAll ==
  \/ Launch
  \/ program = "list" /\ Next /\ Only("list")
  \/ program = "birthdays" /\ B!Next /\ Only("birthdays")
  \/ program = "tasks" /\ W!Next /\ Only("tasks")
  \/ program = "statistics" /\ S!Next /\ Only("statistics")
  \/ program = "fibonacci" /\ F!Next /\ Only("fibonacci")
  \/ program = "montecarlo" /\ M!Next /\ Only("montecarlo")
  \/ program = "fork" /\ C!Next /\ Only("fork")
  \/ program = "shared_memory" /\ H!Next /\ Only("shared_memory")
  \/ program = "date_server" /\ D!Next /\ Only("date_server")
  \/ program = "file_locks" /\ L!Next /\ Only("file_locks")
  \/ program = "deadlock" /\ X!Next /\ Only("deadlock")

(* Programs that are not blocked go on; exceptions need not happen. *)
Fairness ==
  /\ WF_allvars(Launch)
  /\ WF_allvars(program = "tasks" /\ W!Next /\ Only("tasks"))
  /\ WF_allvars(program = "date_server" /\ D!Progress /\ Only("date_server"))
  /\ WF_allvars(program = "file_locks" /\ L!Progress /\ Only("file_locks"))
  /\ WF_allvars(program = "deadlock" /\ X!Next /\ Only("deadlock"))

SpecAll == InitAll /\ [][NextAll]_allvars /\ Fairness

-----------------------------------------------------------------------------
(* Properties of the programs that are run here only, each stated in the   *)
(* module of its program, and those that need the start of a program       *)

(* The parents of the fork examples print after their child has exited. *)
PrintedAfterChild == C!PrintedAfterChild

(* The parents of the fork examples that wait leave no child to init. *)
ChildWaitedFor == [][C!LeavesNoChild]_allvars

(* No client of a date server waits for ever. *)
EveryClientEnds == (program = "date_server") ~> D!ClientsEnded

(* No process that runs LockingExample waits for ever. *)
AllFinish == (program = "file_locks") ~> L!Finished

(* The deadlock example ends unless its two threads wait for each other. *)
JoinsUnlessCrossed == (program = "deadlock") ~> (X!Joined \/ []X!Crossed)
=============================================================================
