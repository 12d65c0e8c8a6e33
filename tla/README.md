# Verification of the concurrent programs of OSC9e-v0

The repository holds listings, exercises and programming projects of an operating
systems textbook (Operating System Concepts, 9th edition). There is no single
system: each directory is a program of its own, most of them small multithreaded C
programs on Pthreads mutexes, condition variables and POSIX semaphores, beside a few
kernel modules, process examples and Java programs. This project models every one of
them that has state worth checking; they do not interact, except that the kernel
modules share the list of `linux/list.h`.

## Inventory

| Part | Sources | Modules | Proved |
|---|---|---|---|
| PID manager with a mutex (5.36) | `ch5/problems/pp5_36` | `PidManager`, `PidPool` | `PidManagerProofs` |
| PID manager, no lock (4.20) | `ch4/programming_problems/pp4_20` | `PidManager`, `LOCKED = FALSE` | |
| sequential PID manager (3.20), partly | `ch3/programming_problems/pp3_20` | `PidManager` | |
| dining philosophers | `ch5/projects/proj2` | `DiningPhilosophers` | `SharingProofs` |
| producer-consumer | `ch5/projects/proj3` | `BoundedBuffer`, `ItemQueue` | `BufferProofs` |
| license manager (5.37) | `ch5/problems/pp5_37` | `LicenseManager` | `SumProofs` |
| barrier (5.41) | `ch5/problems/pp5_41` | `Barrier`, `Rendezvous` | `BarrierProofs` |
| sleeping teaching assistant | `ch5/projects/proj1` | `SleepingTA`, `ChairCount` | `ServiceProofs` (`SleepingTA`) |
| its first, abandoned version | `ch5/projects/proj1` | `FirstTry` | |
| Monte Carlo with a mutex (5.39), with OpenMP (4.23) | `ch5/problems/pp5_39`, `ch4/programming_problems/pp4_23` | `MonteCarlo` | `SumProofs` (5.39) |
| linked list of the kernel, partly | `linux_headers/include/linux/list.h` | `LinuxList`, `KernelList` | `KernelListProofs` |
| kernel module with a list | `ch2/simple.c` | `Birthdays` on `LinuxList` | `KernelModuleProofs` |
| kernel modules that list the tasks | `ch3/programming_projects` | `TaskWalk` on `LinuxList` | `KernelModuleProofs` |
| statistics threads (4.21) | `ch4/programming_problems/pp4_21` | `Statistics` | `SumProofs` |
| Fibonacci thread (4.26) | `ch4/programming_problems/pp4_26` | `Fibonacci` | `BufferProofs` |
| fork, exec, zombie and pipe | `ch3` | `Processes` | |
| POSIX shared memory | `ch3` | `SharedMemory` | `SharingProofs` |
| date servers and clients (also 4.25) | `ch3`, `ch4/programming_problems/pp4_25` | `DateServer` | `ServiceProofs` |
| file locking | `ch11/LockingExample.java` | `FileLocks` | `ServiceProofs` |
| deadlock example | `ch7/deadlock.c` | `Deadlock` | |

`Listings` puts the small programs (the last ten rows and the Monte Carlo estimate
with a mutex) side by side for one run: one of them is started and only it moves, so
its states are the disjoint union of theirs. `KernelListings`, `SumListings`,
`BufferListings`, `SharingListings` and `ServiceListings` declare the constants and
variables of those of these programs that have proofs, what the proofs assume of the
constants, and the properties; `Listings` and the proof modules extend them, so the run
and the theorems speak of the same definitions. `CIntegers` declares the width of an int
for the two programs that have one.
`PROJECT.json` lists every part of the repository, modelled or not, with the reason.

## Conventions

Every module has a program counter per thread or process. Where shared variables may
be touched without a lock, an action is one access (`x++` is a load and a store).
Where every access is inside a critical section of one mutex, an action is the
section between two blocking calls. `pthread_create` is an action `Create`; a thread
can run before the next one exists. A waiting thread on a condition variable may wake
up spuriously. `sem_wait` and `pthread_mutex_lock` are guards. Failing Pthreads calls,
after which the programs `assert(0)`, are left out; so are printing, unless a property
is about it, and sleeping, which only delays a thread. Definitions marked "Mutant" are
deliberate errors, used to see that the property that should notice them does.

## Modules

**PidManager.** `allocate_pid`, `release_pid`, the worker and `main()`, one statement
per action. A failed `assert` sends `main` to `"abort"`. With `LOCKED = FALSE` it is
problem 4.20. `PidPool` is what the manager promises: a PID that nobody owns, and a
refusal only when all are owned. The allocation takes effect where the entry is
marked, the refusal where the count is tested. (The comment at `pid_manager.c:18`,
that the index always points to a free PID, is not true of the code: the search
starts at the index and moves on over PIDs in use. Nothing relies on the comment.
The remark "asserts with 300+" at `pp5.36.c:34`, beside a thread count of 500, is copied from
`pp4.20.c:35`, where the missing mutex makes it true; with the mutex no assertion fails
for any number of workers.)

**DiningPhilosophers.** `pickup_forks`, `return_forks` and `test` under one mutex, a
condition variable per philosopher, the program's five philosophers. `eating_count` is
kept modulo 2, which is all that `return_forks` looks at.

**BoundedBuffer.** `insert_item`, `remove_item`, both thread functions and `main()` up
to `cleanup_state`. The code tests `n`, then waits on a semaphore with the mutex held.
`ItemQueue` is a bounded first-in first-out queue; its items are the `n` slots from
`head_index` on. A producer's refused item stays pending.

**LicenseManager.** `decrease_count` and `increase_count` with both semaphores, the
units one by one, and the user thread.

**Barrier.** One action per critical section of `enter_barrier` and `exit_barrier`.
`Rendezvous` is the promise: N threads gather, then all leave, then the next gather.
The run has N threads, as the program does; that with more of them the next group is not
mixed into the one that leaves is shown by the proof, for every N up to the number of
threads.

**SleepingTA.** The students, the TA and its semaphores. `free_chairs_count` steers
only an assertion and is left to `ChairCount`, which extends the module with its loads
and stores. The count drifts without bound there, so it is used for the violation
alone.

**FirstTry.** The version that `ch5/projects/proj1` keeps as "not working": students
hand the TA on among themselves, and read and reset their own entry of `Students`
without the semaphore that guards it. `i + 1 % NUM_STUDENTS` leaves the array; from
that write on (`Overrun`) the model claims nothing.

**MonteCarlo.** Threads add their counts to the shared ones, under the mutex
(`LOCKED = TRUE`) or by unprotected loads and stores. The points themselves are
floating point and abstracted to how many were inside.

**LinuxList, KernelList.** `LinuxList` has the functions of `list.h` as operators on
a memory of `next` and `prev` pointers, stores in the order of the code, so that
aliased arguments behave as they do in C. `KernelList` is a caller that makes any calls the
header's comments allow, next to the sequences that they promise. A head that was
spliced or replaced away without `_init` is `stale` until it is initialised again.

**Birthdays, TaskWalk.** The kernel modules on the same operators. Loading and
unloading repeat, and `kmalloc` may fail. The task walks read `tasks`, `children` and
`sibling` of `init_task` and its descendants without a lock while further tasks are
forked.

**Statistics, Fibonacci.** The worker threads by iteration; sums and Fibonacci numbers
are ints of a small width, so that overflow happens. The mean is kept as the pair that
is divided.

**Processes.** Each program is the list of its system calls, run by the process and
its child: `fork` (or its failure), `wait`, `exec`, `exit`, zombies, orphans, the pipe.

**SharedMemory.** Any number of producers and consumers on the name `"OS"`, character
by character; a segment lives on under its descriptors after `shm_unlink`. The producer
does not look at the result of `ftruncate`; a failing one is left out, and no property
depends on it.

**DateServer.** Both servers and their clients. An `IOException` can hit `accept`, the
output stream and `close`; a `close` that throws is taken to have released the
connection. `println` throws none: `PrintWriter` keeps a failed write to itself, and
the servers do not call `checkError`. So `WriteDate` may send the date or lose it, and
the code goes on to `close` in either case; the client then finds the end of the stream
and no date.

**FileLocks.** Both locks of `LockingExample` with the regions it really passes, several
processes, an exception after any call, the `finally` block. The operating system also
drops the locks of a process that ends; the model leaves that out, so that `main` has to
release them itself, which is stricter.

**Deadlock.** Both threads and the joins of `main()`.

## Runs

| Run | Instance | Shows |
|---|---|---|
| `pid_locked` | 4 workers, 3 PIDs | no assertion fails, refinement of `PidPool`; every worker exits and `main` joins it |
| `pid_unlocked` | 2 workers, 3 PIDs, no mutex | **violation**: a PID is released that is not marked |
| `dining_table` | the program's 5 philosophers | neighbours never eat together, no lost signal, nobody waits whose forks are free, no deadlock; the order of the tests in `return_forks` never matters; somebody eats again and again |
| `dining_starvation` | 5 philosophers | **violation**: a philosopher starves, in spite of the alternating tests |
| `buffer` | 2 producers, 1 consumer, 2 slots, 2 items | refinement of `ItemQueue`, no `sem_wait` blocks under the mutex; the program terminates, whether the buffer is full or empty |
| `license` | 3 users, 3 licenses | licenses and units are conserved; a request with its units is never refused; whoever has the turn is served |
| `barrier` | 5 threads, N = 5 | refinement of `Rendezvous`, no missed broadcast; everyone passes again and again |
| `office_hours` | 4 students, 3 chairs | the TA's assertions, one student at a time, no nap through a request; a seated student is helped |
| `chair_count` | 3 students, 2 chairs | **violation**: lost updates make an assertion fail |
| `first_try` | 4 students, 2 chairs | **violation**: the TA lock is taken though no student is with the TA, and the sanity check ends the program |
| `montecarlo_openmp` | 2 threads, no lock | **violation**: points are lost |
| `listings` | below | the properties of the small programs, below |

The violations are what comments and assertions of the repository say against what
the code does; `findings` in `PROJECT.json` quotes them.

`listings` checks, program by program:

| Program | Instance | Properties |
|---|---|---|
| `list.h` | 2 heads, 3 entries | `Represents`: after any calls the pointers are the lists the comments promise |
| `Birthdays` | 3 places for structures | `NoUseAfterFree`, `ListedAndFreed`: unloading reads no freed structure and frees all |
| `TaskWalk` | up to 5 tasks | `EveryTaskOnce`, `DepthFirst`, `WalkEnds`: every task once and whole subtrees first, whatever is forked meanwhile |
| `Statistics` | up to 4 values from 0 to 3, `INT_MAX` 3 | `StatisticsRight`: minimum and maximum; the average exactly as long as the sum is an int |
| `Fibonacci` | up to 12 numbers, `INT_MAX` 3 | `FibonacciPrinted`: exact as long as the number is an int, two's complement after that |
| `MonteCarlo` | 3 threads, 2 points each, mutex | `EveryPointCounted` |
| `Processes` | the four programs | `PrintedAfterChild`; `ChildWaitedFor`: a parent that waits leaves no running child and no zombie to init when it exits |
| `SharedMemory` | 2 producers, 2 consumers, messages that end at 2, 3 and 4 | `WholeMessage` for a consumer that nobody disturbs; `RemovesOwnUnlessOvertaken`: a consumer removes another segment than its own only if another consumer was faster |
| `DateServer` | 3 clients, both servers | `ServedInTurn`: one client at a time, and none forgotten or served twice; `EveryClientEnds`: no client waits for ever, whatever fails |
| `FileLocks` | 3 processes, length 0 to 4 | `HalvesLocked`; `AllFinish`: nobody waits for ever |
| `Deadlock` | the program | `JoinsUnlessCrossed`: the crossed wait is the only way to hang |

`HalvesLocked` says what `LockingExample` achieves, which is less than its header
comment: the byte in the middle (`length/2`) is in neither lock, and since a lock of
size 0 reaches to the end of the file, the "first half" of a file of one byte is all
of it. From two bytes on the exclusive lock is on the first half and nothing else.

`WholeMessage` and `RemovesOwnUnlessOvertaken` delimit what the shared memory pair does
without any synchronisation; they do not say that it is harmless. A consumer beside a
producer that still writes may print part of the message. And a consumer that another
one overtook (both printed the same segment, the other one removed it, a producer made
a new one) removes a segment that nobody has read. What the property excludes is that
this can come about in any other way, through a producer for instance.

**Bounds.** The dining philosophers run with the program's own table. Elsewhere there
are more threads than resources, so that refusals, full and empty buffers, wrap-around
of the indices and waiting all happen; the symmetric roles make further threads repeat
the same interleavings. The barrier of the program has 7 threads and N = 7, the
teaching assistant 5 students and 3 chairs. The runs are one or two threads smaller,
because liveness takes TLC most of its time. The safety properties of the barrier and
all properties of the office hours were also checked once with the program's numbers
and hold. In `listings`, three entries are enough for every position of an entry
(first, inner, last, only) and two heads for every function that takes two lists; five
tasks have subtrees beside and below each other; the ints are narrow so that every
overflow is within the bounds.

**Fairness.** Threads are scheduled by the system, so each gets weak fairness: one
that can go on does. That is all `PidManager` and `Barrier` need. Strong fairness is
added where a thread competes for a mutex for ever (`Lock` of the buffer,
`DecreaseLock` and `IncreaseLock` of the licenses, the steps of a philosopher) or for
a post of the office semaphore (`CalledIn`): a lock that is free again and again is
got in the end. POSIX does not promise this, so those liveness results are relative to
it; the starvation of `dining_starvation` happens even so. Nobody has to wake up
spuriously. The programs of `listings` with a liveness property take finitely many
steps, so weak fairness of a program as a whole is enough. For `DateServer` and
`FileLocks` it covers `Progress`, the steps that are not exceptions: an exception may
happen and never has to.

**Deadlock** is checked in every passing run but `listings`, whose programs end, and
one of which is meant to hang; there the liveness properties tell an end from a hang.
`first_try` and `montecarlo_openmp` stop too.

## Proofs

`PidManagerProofs` shows, for every range of PIDs and every set of workers with the
mutex, `IInvInvariant` and from it `PidsAreUnique`, `AssertionsHold`, `CountExact`,
`CleanExit` and `PidRefinement`. `UniquePids` alone is not inductive: that a PID found
free is still free when it is marked needs mutual exclusion (`LockInv`), that a loaded
value is still current when stored (`RegInv`), and that entries and owners correspond
(`OwnInv`). That the bounded search ends on a free entry needs the entries behind the
index to be in use (`SearchInv`) and the count to be exact up to the one thread
between entry and count (`CountInv`). The assumptions are those of `PidManager` on its
constants, with `LOCKED`.

`SharingProofs` is about processes that share something with their neighbours.

- `DiningPhilosophers`, the program's five philosophers: `EatingSafety`, `SignalSafety`,
  `NoIdleForks` and `ParityHasNoEffect`. The invariant says that `test` let everybody
  eat that could and nobody else: a philosopher that eats has no eating neighbour, a
  hungry one has one, and the thread is where its state says. The two tests of
  `return_forks` commute, because the neighbours of one of five are not neighbours of
  each other. So alternating them cannot prevent starvation.
- `SharedMemory`, for any producers, consumers and message lengths:
  `MessagePrintedWhole` and `SegmentRemovedOnce`. The invariant relates the place of
  each process to its segment, each character to the producers that are past it, and
  the name to the segments already removed. Assumed: there is a longest message, and
  no process is both a producer and a consumer.

`BarrierProofs` shows, for every finite set of threads and every N up to their number,
that no broadcast is missed and that the barrier implements `Rendezvous`. The
invariant adds to the exact counter and gate that while the second wall is open nobody
stands between the walls, and that a thread on its way out with the wall closed means
all N are inside: then the N threads the gate let in are all there.

`BufferProofs` is about programs whose threads fill a buffer.

- `BoundedBuffer`, for every size of the buffer and every set of producers and
  consumers: `IInvInvariant`, `SemWaitSafety` (no `sem_wait` blocks under the mutex),
  `CleanExit` and `BufferRefinement`. That a semaphore does not block follows from the
  test of `n` only if the semaphores agree with `n`, which they do except for the thread
  between its `sem_wait` and its `sem_post` (`Moving`); mutual exclusion makes that at
  most one thread. For the queue, `tail_index` is `n` places after `head_index` and the
  slots between hold items, which keeps an emptied or a never filled slot from being
  consumed.
- `Fibonacci`, for every buffer and width: `FibonacciNumbersPrinted`. The recursive
  reference definition is shown to have its one solution, by induction (with a set in
  the place of the induction hypothesis, `SetInduction`), and narrowing after each
  addition to be the same as narrowing at the end.

`KernelListProofs` shows, for any heads and entries and any sequence of allowed calls,
`ListsRepresented` (the pointers are the lists), `TypeCorrect`, and `QueriesRight`
(`list_empty`, `list_empty_careful`, `list_is_singular` and `list_is_last` judge a
whole list rightly from one or two pointers). `Represents` is not inductive alone: a
store for one list leaves the others alone only because no entry is in two lists. The
invariant `Good` is stated for any memory, lists and given-away heads, so that it can
be followed through the functions as they call each other. A first group of lemmas
says which pointers each function stores; a second what `__list_add`, `__list_del`,
`list_replace`, `__list_cut_position` and `__list_splice` do to the lists; the public
functions follow from those. The only assumption is that heads, entries and the two
poison values are different.

`ServiceProofs` is about three programs whose processes meet at something they share.

- `SleepingTA`, for every number of students and chairs: `StudentIsHelped`,
  `OneStudentInOffice` and `TASleepsThroughNoRequest`. Nothing but the order of eight
  semaphores keeps the students apart, so the invariant follows one call of the TA
  from `Chair_outside_sem` to the student that took it and back in
  `TA_help_request3` (`OneCall`), says where the TA is for each place of that student
  (`InStep`) and what `Students[]` holds (`StatesAgree`). That no request is slept
  through is a count: the students that asked and still sit outside are the posts of
  `TA_help_request`, the one the TA acts on and the one it has called
  (`RequestsCounted`).
- `FileLocks`, for any processes and lengths: `FileHalvesLocked`, from who holds which
  lock at which place, and that no two locks conflict.
- `DateServer`, for any clients: `ClientsServedInTurn`. The server accepts only when the
  last worker is done with its client (`AcceptWhenServed`). That nobody is forgotten or
  served twice needs the backlog to hold a client at most once and only before its
  service, and a connection to be closed exactly when its service is over
  (`BacklogInTurn`).

`KernelModuleProofs` is about the two small kernel modules.

- `Birthdays`: `NothingUsedAfterFree` and `BirthdaysListedAndFreed`, for any memory
  whose cells are not the list's head. The invariant gives the shape of the list with
  none, one or two structures while it is made, printed and freed, and `safe`'s second
  pointer as the structure behind the current one.
- `TaskWalk`, for any number of tasks: `TasksPrintedOnce` and `TreeWalkedDepthFirst`.
  The invariant has a part about the lists (the tasks, and the children of each, are
  linked in the order of the forks) and a part about the walk: the calls on the stack
  are a path of the tree (`Path`), no child at or behind the cursor of a call is printed
  (`Ahead`), and the calls for the children before it have returned with all their
  descendants (`Behind`). A fork during the walk goes to the end of a list, so it adds
  to what is ahead and takes nothing from what is behind. That the whole tree is printed
  when the first call returns is an argument by the least task that is not: its
  parent is less and so was printed.

`SumProofs` is about the programs that add or count. It begins with the sum of a
function's values, as `FoldFunction` defines it: the sum of zeroes, the sum after one
value changed, the sum of smaller values. These need induction over data, with a set in
the place of the induction hypothesis (`SetInduction`, `SubsetInduction`).

- `LicenseManager`, for every finite set of threads and every number of licenses:
  `LicensesAreConserved`, `NoThreadIsRefused` and `UnitsAreConserved`. The invariant
  is the two conservation laws and the ranges of the loops. No thread holds more
  licenses than units, and one about to decrease holds its units and no licenses yet,
  so what is left suffices.
- `MonteCarlo` with the mutex, for every finite set of threads: `NoPointLost`, from the
  shared count being the sum of what the threads have added, and a loaded value still
  being current when it is stored. `montecarlo_openmp` shows that the latter needs the
  mutex.
- `Statistics`, for every number of values and every width of an int:
  `StatisticsPrinted`. Each loop's result is that of the values it has passed; the
  values are positive, so if the whole sum is an int every sum on the way to it was.

The theorems about the programs of `listings` are about the specification of each
program by itself (`W!Spec => []W!DepthFirst`). `Listings` runs one of them and leaves
the variables of the others in their initial states, so a property that holds of every
program alone holds there.

`IInv`, `TypeOK`, `UniquePids`, `CountIsExact`, `CleanShutdown` and `QueriesAgree` are
proved and not in a run; TLC checked each `IInv` on the instances of the runs before it
was proved.

Only model-checked: every liveness property (the prover has no fairness reasoning), and
`PrintedAfterChild` and `ChildWaitedFor`: `Processes` has no constants, so TLC's run is
exhaustive and a proof would show no more.

## Not modelled

- The kernel headers in `linux_headers`, by far the most lines of the repository.
  They are not its programs; its modules use the list functions, which are modelled
  and proved, and the links between tasks in `sched.h`. The map of definitions to
  source lines therefore covers a small share of all lines, though most of the
  concurrent programs.
- The hash lists (`hlist`), RCU lists and debugging variants of `list.h`, which no
  program uses.
- Tasks that exit during a task walk: the modules take neither `tasklist_lock` nor an
  RCU read lock, so a walk may follow the links of a freed task, with no defined
  outcome to model.
- Start-up of thread identifiers: `get_t_num`, `get_student_id` and their like scan an
  array that `pthread_create` may still be filling. POSIX leaves the order open; glibc
  stores the identifier before the thread runs.
- The prime printer (4.24) and the estimate of pi with one worker (4.22): one thread
  that is joined, nothing shared. Floating point everywhere.
- `fork-question-2`, a count of processes; the shell, a skeleton without a body.
- Windows listings, scheduling attributes, memory-mapped files, the DNS lookup, the
  copies of the book's sources, makefiles and outlines without code.
