-------------------------- MODULE SharingListings ---------------------------
(***************************************************************************)
(* The producers and the consumers of the shared memory pair, as Listings  *)
(* runs them, with what the proofs assume of their constants, and their    *)
(* properties.                                                             *)
(***************************************************************************)
EXTENDS Integers

CONSTANTS Producers, Consumers, Ends  \* of SharedMemory

ASSUME SharedMemoryAssumption ==
  /\ Ends \subseteq Nat \ {0} /\ \E e \in Ends : \A d \in Ends : d <= e
  /\ Producers \cap Consumers = {}

VARIABLES shm_name, segments, shm_pc, shm_fd, shm_ptr, undisturbed, removed

H == INSTANCE SharedMemory

-----------------------------------------------------------------------------
(* Properties, each stated in the module of its program *)

(* A consumer that nobody disturbs prints the whole shared memory message. *)
WholeMessage == H!WholeMessage

(* A consumer removes another segment than the one it printed only when    *)
(* another consumer has removed that one before.                           *)
RemovesOwnUnlessOvertaken == H!RemovesOwnUnlessOvertaken
=============================================================================
