----------------------------- MODULE FileLocks ------------------------------
(***************************************************************************)
(* LockingExample of chapter 11, run by several processes on one file: an  *)
(* exclusive lock on the first half, then a shared lock on the second.     *)
(* The locks of the file are the operating system's; a lock of size 0      *)
(* reaches to the end of the file, however long it grows (fcntl).          *)
(***************************************************************************)
EXTENDS Integers

CONSTANTS Processes, MAX_LENGTH   \* MAX_LENGTH bounds the length of the file

VARIABLES
  raf_length,    \* the length of the file
  exclusiveLock, \* the bytes each process has locked, or {}
  sharedLock,
  lock_pc        \* where each process is

vars == <<raf_length, exclusiveLock, sharedLock, lock_pc>>

(* Bytes past the end can be locked too; this many are enough for a lock   *)
(* of raf.length() bytes that starts in the middle of the file.            *)
Bytes == 0 .. (2 * MAX_LENGTH)

Region(position, size) ==
  {b \in Bytes : b >= position /\ (size = 0 \/ b < position + size)}

Init ==
  /\ raf_length = -1     \* the file has not been made yet
  /\ exclusiveLock = [p \in Processes |-> {}]
  /\ sharedLock = [p \in Processes |-> {}]
  /\ lock_pc = [p \in Processes |-> "start"]

Goto(p, from, to) == lock_pc[p] = from /\ lock_pc' = [lock_pc EXCEPT ![p] = to]

(* The file as the processes find it *)
Prepare ==
  /\ raf_length = -1
  /\ raf_length' \in 0 .. MAX_LENGTH
  /\ UNCHANGED <<exclusiveLock, sharedLock, lock_pc>>

(* channel.lock blocks while another process has a lock that conflicts. *)
LockExclusive(p) ==
  LET region == Region(0, raf_length \div 2) IN
  /\ raf_length >= 0 /\ Goto(p, "start", "modify")
  /\ \A q \in Processes \ {p} : region \cap (exclusiveLock[q] \cup sharedLock[q]) = {}
  /\ exclusiveLock' = [exclusiveLock EXCEPT ![p] = region]
  /\ UNCHANGED <<raf_length, sharedLock>>

Release(p) ==
  /\ Goto(p, "modify", "modified")
  /\ exclusiveLock' = [exclusiveLock EXCEPT ![p] = {}]
  /\ UNCHANGED <<raf_length, sharedLock>>

(* Mutant: the position and the size are swapped. *)
LockSharedSwapped(p) ==
  LET region == Region(raf_length, raf_length \div 2 + 1) IN
  /\ Goto(p, "modified", "read")
  /\ \A q \in Processes \ {p} : region \cap exclusiveLock[q] = {}
  /\ sharedLock' = [sharedLock EXCEPT ![p] = region]
  /\ UNCHANGED <<raf_length, exclusiveLock>>

LockShared(p) ==
  LET region == Region(raf_length \div 2 + 1, raf_length) IN
  /\ Goto(p, "modified", "read")
  /\ \A q \in Processes \ {p} : region \cap exclusiveLock[q] = {}
  /\ sharedLock' = [sharedLock EXCEPT ![p] = region]
  /\ UNCHANGED <<raf_length, exclusiveLock>>

(* The second release() of the exclusive lock, which is no longer valid *)
ReleaseAgain(p) ==
  /\ Goto(p, "read", "finally")
  /\ exclusiveLock' = [exclusiveLock EXCEPT ![p] = {}]
  /\ UNCHANGED <<raf_length, sharedLock>>

(* An IOException of a call in the try block *)
Catch(p) ==
  /\ lock_pc[p] \in {"start", "modify", "modified", "read"} /\ raf_length >= 0
  /\ lock_pc' = [lock_pc EXCEPT ![p] = "finally"]
  /\ UNCHANGED <<raf_length, exclusiveLock, sharedLock>>

(* Mutant: finally releases the exclusive lock only. *)
FinallyExclusiveOnly(p) ==
  /\ Goto(p, "finally", "done")
  /\ exclusiveLock' = [exclusiveLock EXCEPT ![p] = {}]
  /\ UNCHANGED <<raf_length, sharedLock>>

Finally(p) ==
  /\ Goto(p, "finally", "done")
  /\ exclusiveLock' = [exclusiveLock EXCEPT ![p] = {}]
  /\ sharedLock' = [sharedLock EXCEPT ![p] = {}]
  /\ UNCHANGED raf_length

(* A step that is not an exception *)
Step(p) ==
  LockExclusive(p) \/ Release(p) \/ LockShared(p) \/ ReleaseAgain(p) \/ Finally(p)

Progress == Prepare \/ \E p \in Processes : Step(p)

Next == Progress \/ \E p \in Processes : Catch(p)

Spec == Init /\ [][Next]_vars /\ WF_vars(Progress)

-----------------------------------------------------------------------------
(* Properties *)

(* While a process modifies the data no other one has a lock on a byte of  *)
(* the first half, and in a file of two bytes or more it locks nothing     *)
(* else, so it keeps nobody from the second half; while it reads, all of   *)
(* the second half but its first byte is locked, and no other process is   *)
(* modifying a byte of it; and main leaves with no lock, an exception or   *)
(* not.                                                                    *)
HalvesLocked ==
  \A p \in Processes :
    /\ lock_pc[p] = "modify" =>
         \A b \in 0 .. (raf_length \div 2 - 1) :
           /\ b \in exclusiveLock[p]
           /\ \A q \in Processes \ {p} : b \notin exclusiveLock[q] \cup sharedLock[q]
    /\ lock_pc[p] = "modify" /\ raf_length >= 2 =>
         exclusiveLock[p] \subseteq 0 .. (raf_length \div 2 - 1)
    /\ lock_pc[p] = "read" =>
         \A b \in (raf_length \div 2 + 1) .. (raf_length - 1) :
           /\ b \in sharedLock[p]
           /\ \A q \in Processes : b \notin exclusiveLock[q]
    /\ lock_pc[p] = "done" => exclusiveLock[p] = {} /\ sharedLock[p] = {}

(* No process waits for ever: the exclusive lock is given back before the  *)
(* shared one is asked for, also when the file is so short that the        *)
(* exclusive lock covers all of it.                                        *)
Finished == \A p \in Processes : lock_pc[p] = "done"
AllFinish == <>Finished

-----------------------------------------------------------------------------
(* The inductive invariant *)

TypeOK ==
  /\ raf_length \in -1 .. MAX_LENGTH
  /\ exclusiveLock \in [Processes -> SUBSET Bytes]
  /\ sharedLock \in [Processes -> SUBSET Bytes]
  /\ lock_pc \in [Processes -> {"start", "modify", "modified", "read", "finally",
                                "done"}]

(* Which locks a process has at each place.  After an exception it may     *)
(* have any that it had before.                                            *)
LocksByPlace ==
  \A p \in Processes :
    /\ lock_pc[p] # "start" => raf_length >= 0
    /\ lock_pc[p] \in {"start", "modified", "read", "done"} => exclusiveLock[p] = {}
    /\ lock_pc[p] \in {"start", "modify", "modified", "done"} => sharedLock[p] = {}
    /\ lock_pc[p] = "modify" => exclusiveLock[p] = Region(0, raf_length \div 2)
    /\ lock_pc[p] = "read" =>
         sharedLock[p] = Region(raf_length \div 2 + 1, raf_length)

(* The operating system grants no two locks that conflict. *)
NoConflict ==
  \A p, q \in Processes :
    p # q => exclusiveLock[p] \cap (exclusiveLock[q] \cup sharedLock[q]) = {}

IInv == TypeOK /\ LocksByPlace /\ NoConflict
=============================================================================
