--------------------------- MODULE LicenseManager ---------------------------
(***************************************************************************)
(* Problem 5.37: threads that ask for and return several licenses at a     *)
(* time.  decrease_count takes the turn (user_req_pending_sem), then one   *)
(* unit of available_resources_sem per license, and only then looks at     *)
(* available_resources; increase_count adds to available_resources first   *)
(* and posts the units afterwards, one by one.                             *)
(***************************************************************************)
EXTENDS Integers, FiniteSets, Functions

CONSTANTS
  MAX_RESOURCES,
  Users,          \* the license user threads
  NoUser

ASSUME LicenseAssumption ==
  MAX_RESOURCES \in Nat \ {0} /\ IsFiniteSet(Users) /\ NoUser \notin Users

VARIABLES
  available_resources,
  available_resources_sem, user_req_pending_sem,   \* semaphore values
  mutex,
  pc,
  req_count,      \* how many licenses a thread asks for or holds
  i,              \* the loop counter of decrease_count and increase_count
  result

sems == <<available_resources_sem, user_req_pending_sem>>
vars == <<available_resources, sems, mutex, pc, req_count, i, result>>

Init ==
  /\ available_resources = MAX_RESOURCES
  /\ available_resources_sem = MAX_RESOURCES
  /\ user_req_pending_sem = 1
  /\ mutex = NoUser
  /\ pc = [u \in Users |-> "new"]
  /\ req_count = [u \in Users |-> 0]
  /\ i = [u \in Users |-> 0]
  /\ result = [u \in Users |-> 0]

Goto(u, from, to) == pc[u] = from /\ pc' = [pc EXCEPT ![u] = to]

Create(u) ==
  /\ Goto(u, "new", "ask")
  /\ UNCHANGED <<available_resources, sems, mutex, req_count, i, result>>

(* A new request, or the one that failed once more. *)
Ask(u) ==
  /\ Goto(u, "ask", "turn")
  /\ IF result[u] = 0
     THEN \E c \in 1 .. MAX_RESOURCES : req_count' = [req_count EXCEPT ![u] = c]
     ELSE UNCHANGED req_count
  /\ UNCHANGED <<available_resources, sems, mutex, i, result>>

-----------------------------------------------------------------------------
(* decrease_count *)

TakeTurn(u) ==
  /\ Goto(u, "turn", "units")
  /\ user_req_pending_sem > 0
  /\ user_req_pending_sem' = user_req_pending_sem - 1
  /\ i' = [i EXCEPT ![u] = 0]
  /\ UNCHANGED <<available_resources, available_resources_sem, mutex,
                 req_count, result>>

TakeUnit(u) ==
  /\ Goto(u, "units", "units")
  /\ i[u] < req_count[u]
  /\ available_resources_sem > 0
  /\ available_resources_sem' = available_resources_sem - 1
  /\ i' = [i EXCEPT ![u] = @ + 1]
  /\ UNCHANGED <<available_resources, user_req_pending_sem, mutex, req_count,
                 result>>

(* Mutant: takes the mutex before it has all of its units. *)
DecreaseLockEarly(u) ==
  /\ Goto(u, "units", "decrease")
  /\ mutex = NoUser
  /\ mutex' = u
  /\ UNCHANGED <<available_resources, sems, req_count, i, result>>

DecreaseLock(u) ==
  /\ Goto(u, "units", "decrease")
  /\ i[u] = req_count[u]
  /\ mutex = NoUser
  /\ mutex' = u
  /\ UNCHANGED <<available_resources, sems, req_count, i, result>>

(* Mutant: hands the units back, but refuses a request for all there are. *)
DecreaseNotTheLast(u) ==
  /\ Goto(u, "decrease", "pass")
  /\ IF available_resources <= req_count[u]
     THEN /\ result' = [result EXCEPT ![u] = -1]
          /\ available_resources_sem' = available_resources_sem + req_count[u]
          /\ UNCHANGED available_resources
     ELSE /\ result' = [result EXCEPT ![u] = 0]
          /\ available_resources' = available_resources - req_count[u]
          /\ UNCHANGED available_resources_sem
  /\ mutex' = NoUser
  /\ UNCHANGED <<user_req_pending_sem, req_count, i>>

(* The section under the mutex: enough licenses or not, then unlock. *)
Decrease(u) ==
  /\ Goto(u, "decrease", "pass")
  /\ IF available_resources < req_count[u]
     THEN /\ result' = [result EXCEPT ![u] = -1]
          /\ UNCHANGED available_resources
     ELSE /\ result' = [result EXCEPT ![u] = 0]
          /\ available_resources' = available_resources - req_count[u]
  /\ mutex' = NoUser
  /\ UNCHANGED <<sems, req_count, i>>

(* The next thread gets its chance. *)
PassTurn(u) ==
  /\ Goto(u, "pass", IF result[u] = 0 THEN "use" ELSE "ask")
  /\ user_req_pending_sem' = user_req_pending_sem + 1
  /\ UNCHANGED <<available_resources, available_resources_sem, mutex,
                 req_count, i, result>>

-----------------------------------------------------------------------------
(* increase_count *)
IncreaseLock(u) ==
  /\ Goto(u, "use", "increase")
  /\ mutex = NoUser
  /\ mutex' = u
  /\ UNCHANGED <<available_resources, sems, req_count, i, result>>

(* Mutant: the licenses are handed back by the posts only. *)
IncreaseForgotten(u) ==
  /\ Goto(u, "increase", "post")
  /\ mutex' = NoUser
  /\ i' = [i EXCEPT ![u] = 0]
  /\ UNCHANGED <<available_resources, sems, req_count, result>>

Increase(u) ==
  /\ Goto(u, "increase", "post")
  /\ available_resources' = available_resources + req_count[u]
  /\ mutex' = NoUser
  /\ i' = [i EXCEPT ![u] = 0]
  /\ UNCHANGED <<sems, req_count, result>>

(* Mutant: the loop posts once too often. *)
PostUnitOnceMore(u) ==
  /\ Goto(u, "post", IF i[u] < req_count[u] THEN "post" ELSE "ask")
  /\ available_resources_sem' = available_resources_sem + 1
  /\ i' = [i EXCEPT ![u] = @ + 1]
  /\ UNCHANGED <<available_resources, user_req_pending_sem, mutex, req_count,
                 result>>

PostUnit(u) ==
  /\ Goto(u, "post", IF i[u] + 1 < req_count[u] THEN "post" ELSE "ask")
  /\ available_resources_sem' = available_resources_sem + 1
  /\ i' = [i EXCEPT ![u] = @ + 1]
  /\ UNCHANGED <<available_resources, user_req_pending_sem, mutex, req_count,
                 result>>

-----------------------------------------------------------------------------
Licence_user_thread_func(u) ==
  \/ Ask(u) \/ TakeTurn(u) \/ TakeUnit(u) \/ DecreaseLock(u) \/ Decrease(u)
  \/ PassTurn(u) \/ IncreaseLock(u) \/ Increase(u) \/ PostUnit(u)

Next == \E u \in Users : Create(u) \/ Licence_user_thread_func(u)

Spec == Init /\ [][Next]_vars

(* Every thread runs.  A thread that waits for the mutex is not passed     *)
(* over for ever; the semaphores may be as unfair as they like.            *)
FairSpec ==
  /\ Spec
  /\ \A u \in Users :
       /\ WF_vars(Create(u) \/ Licence_user_thread_func(u))
       /\ SF_vars(DecreaseLock(u)) /\ SF_vars(IncreaseLock(u))

-----------------------------------------------------------------------------
(* Properties *)

(* Licenses taken from available_resources and not yet added back. *)
Held(u) ==
  IF (pc[u] = "pass" /\ result[u] = 0) \/ pc[u] \in {"use", "increase"}
  THEN req_count[u] ELSE 0

(* Units taken from the semaphore and not yet posted back. *)
Units(u) ==
  CASE pc[u] = "units" -> i[u]
    [] pc[u] \in {"decrease", "pass", "use", "increase"} -> req_count[u]
    [] pc[u] = "post" -> req_count[u] - i[u]
    [] OTHER -> 0

SumOver(f(_)) == FoldFunction(+, 0, [u \in Users |-> f(u)])

(* "There cannot be negative licenses": available_resources never is, nor  *)
(* does it exceed MAX_RESOURCES, as both functions assert; and it is what  *)
(* the threads have left of MAX_RESOURCES.                                 *)
LicensesConserved ==
  /\ available_resources \in 0 .. MAX_RESOURCES
  /\ available_resources = MAX_RESOURCES - SumOver(Held)

(* A thread that has got its units always finds enough licenses: the       *)
(* branch of decrease_count that answers -1, and would leak its units, is  *)
(* never taken.                                                            *)
NeverRefused ==
  \A u \in Users :
    pc[u] = "decrease" => req_count[u] <= available_resources

(* The semaphore and the count agree: units and licenses are lent          *)
(* together, units are the last to come back.                              *)
UnitsConserved == available_resources_sem = MAX_RESOURCES - SumOver(Units)

(* A thread whose turn it is gets all it asked for, however much that is   *)
(* and however the others compete: they return what they hold and cannot   *)
(* take units while they wait for the turn.                                *)
TurnIsServed == \A u \in Users : pc[u] = "units" ~> pc[u] = "use"

-----------------------------------------------------------------------------
(* The inductive invariant *)

TypeOK ==
  /\ available_resources \in Int
  /\ available_resources_sem \in Nat /\ user_req_pending_sem \in Nat
  /\ mutex \in Users \cup {NoUser}
  /\ pc \in [Users -> {"new", "ask", "turn", "units", "decrease", "pass", "use",
                       "increase", "post"}]
  /\ req_count \in [Users -> 0 .. MAX_RESOURCES]
  /\ i \in [Users -> Nat]
  /\ result \in [Users -> {-1, 0}]

(* No thread was refused yet, and the loop counters are in their loops. *)
InLoops ==
  \A u \in Users :
    /\ result[u] = 0
    /\ pc[u] \notin {"new", "ask"} => req_count[u] > 0
    /\ pc[u] = "units" => i[u] <= req_count[u]
    /\ pc[u] = "post" => i[u] < req_count[u]

(* The second half of LicensesConserved: the first one follows from IInv. *)
LicensesLent == available_resources = MAX_RESOURCES - SumOver(Held)

IInv == TypeOK /\ InLoops /\ UnitsConserved /\ LicensesLent
=============================================================================
