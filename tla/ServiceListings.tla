-------------------------- MODULE ServiceListings ---------------------------
(***************************************************************************)
(* The date servers and LockingExample as Listings runs them, with what    *)
(* the proofs assume of their constants, and their properties.             *)
(***************************************************************************)
EXTENDS Integers

CONSTANTS
  Clients,                     \* of DateServer
  Lockers, MAX_LENGTH          \* of FileLocks

ASSUME FileLocksAssumption == MAX_LENGTH \in Nat

VARIABLES
  version, server, worker, backlog, sent, closed, client,
  raf_length, exclusiveLock, sharedLock, lock_pc

D == INSTANCE DateServer
L == INSTANCE FileLocks WITH Processes <- Lockers

-----------------------------------------------------------------------------
(* Properties, each stated in the module of its program *)

(* The date servers serve one client at a time and forget none. *)
ServedInTurn == D!ServedInTurn

(* LockingExample holds the locks it needs, no lock on the second half     *)
(* while it modifies the first (of two bytes or more), and leaves none.    *)
HalvesLocked == L!HalvesLocked
=============================================================================
