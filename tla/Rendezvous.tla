----------------------------- MODULE Rendezvous -----------------------------
(***************************************************************************)
(* What a barrier promises: threads gather, nobody passes before N of them *)
(* have arrived, and nobody of the next group arrives before all of this   *)
(* one have left.                                                          *)
(***************************************************************************)
EXTENDS Integers, FiniteSets

CONSTANTS Threads, N

VARIABLES
  gathered,  \* the threads that arrived and may not pass yet
  released   \* the threads that may pass and have not left yet

Arrive(t) ==
  /\ released = {}
  /\ t \notin gathered
  /\ Cardinality(gathered) < N
  /\ gathered' = gathered \cup {t}
  /\ UNCHANGED released

(* N threads have gathered; t is the first of them to leave. *)
LeaveFirst(t) ==
  /\ Cardinality(gathered) = N
  /\ t \in gathered
  /\ gathered' = {}
  /\ released' = gathered \ {t}

Leave(t) ==
  /\ t \in released
  /\ released' = released \ {t}
  /\ UNCHANGED gathered

RendezvousInit == gathered = {} /\ released = {}

RendezvousNext == \E t \in Threads : Arrive(t) \/ LeaveFirst(t) \/ Leave(t)

RendezvousSpec == RendezvousInit /\ [][RendezvousNext]_<<gathered, released>>
=============================================================================
