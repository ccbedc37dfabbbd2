-------------------------- MODULE ActionLifecycle --------------------------
(***************************************************************************)
(* What the life cycle of external actions (actions/service.py) promises   *)
(* to those who build on it: the statuses an operation goes through and    *)
(* whether its request has left.  ExternalActions implements it; Payments  *)
(* moves payments and refunds together with it.                            *)
(***************************************************************************)

CONSTANT Sites      \* one operation each: what opens a payment, sends a refund

VARIABLES
    action,         \* status of the operation of a site, NONE if never opened
    left            \* the sites whose request may have left

lifecycleVars == <<action, left>>

ActionStatuses ==
    {"NONE", "PENDING", "CALLING", "UNKNOWN_OUTCOME", "SUCCEEDED", "FAILED_CONFIRMED"}

LifecycleTypeOK == action \in [Sites -> ActionStatuses] /\ left \subseteq Sites

LifecycleInit == action = [s \in Sites |-> "NONE"] /\ left = {}

\* `open`, committed with what the caller writes.
OpenAction(s) ==
    /\ action[s] = "NONE"
    /\ action' = [action EXCEPT ![s] = "PENDING"]
    /\ UNCHANGED left

\* `begin_call`: once it is committed the request may leave.
BeginCall(s) ==
    /\ action[s] = "PENDING"
    /\ action' = [action EXCEPT ![s] = "CALLING"]
    /\ left' = left \cup {s}

\* An answer, a late answer, the reconciler or a person: it was done.
Succeeds(s) ==
    /\ action[s] \in {"CALLING", "UNKNOWN_OUTCOME"}
    /\ action' = [action EXCEPT ![s] = "SUCCEEDED"]
    /\ UNCHANGED left

\* The same, or the sweep of a PENDING row: it was not done.
Fails(s) ==
    /\ action[s] \in {"PENDING", "CALLING", "UNKNOWN_OUTCOME"}
    /\ action' = [action EXCEPT ![s] = "FAILED_CONFIRMED"]
    /\ UNCHANGED left

\* No answer, or a call that was interrupted: nobody knows.
IsLost(s) ==
    /\ action[s] = "CALLING"
    /\ action' = [action EXCEPT ![s] = "UNKNOWN_OUTCOME"]
    /\ UNCHANGED left

LifecycleNext ==
    \E s \in Sites : OpenAction(s) \/ BeginCall(s) \/ Succeeds(s) \/ Fails(s) \/ IsLost(s)

LifecycleSpec == LifecycleInit /\ [][LifecycleNext]_lifecycleVars

=============================================================================
