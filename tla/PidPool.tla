------------------------------ MODULE PidPool -------------------------------
(***************************************************************************)
(* What the PID manager promises its callers: a process asks once for a    *)
(* PID, gets one that nobody holds, or is refused only when every PID is   *)
(* held, and gives it back once.                                           *)
(***************************************************************************)
EXTENDS Integers

CONSTANTS Procs, Pool, NoPid

VARIABLES
  phase,   \* "want" a PID, "have" one, "gone": refused or gave it back
  holds    \* the PID each process holds, or NoPid

Free == {p \in Pool : \A t \in Procs : holds[t] # p}

PoolInit ==
  /\ phase = [t \in Procs |-> "want"]
  /\ holds = [t \in Procs |-> NoPid]

Allocate(t) ==
  /\ phase[t] = "want"
  /\ \E p \in Free : holds' = [holds EXCEPT ![t] = p]
  /\ phase' = [phase EXCEPT ![t] = "have"]

Refuse(t) ==
  /\ phase[t] = "want"
  /\ Free = {}
  /\ phase' = [phase EXCEPT ![t] = "gone"]
  /\ UNCHANGED holds

Release(t) ==
  /\ phase[t] = "have"
  /\ phase' = [phase EXCEPT ![t] = "gone"]
  /\ holds' = [holds EXCEPT ![t] = NoPid]

PoolNext == \E t \in Procs : Allocate(t) \/ Refuse(t) \/ Release(t)

PoolSpec == PoolInit /\ [][PoolNext]_<<phase, holds>>
=============================================================================
