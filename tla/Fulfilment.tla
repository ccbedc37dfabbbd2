----------------------------- MODULE Fulfilment -----------------------------
(***************************************************************************)
(* The fulfilments of one order (orders/fulfilment.py): units of its lines *)
(* set aside, bought from a supplier and shipped, each phase an external   *)
(* action that the fulfilment follows (orders/fulfilment_projection.py),   *)
(* and the order that ends with them.                                      *)
(*                                                                         *)
(* Whoever creates, opens, completes, cancels or refunds holds the lock of *)
(* the order for the whole transaction, which is one step here.  The       *)
(* actions are opened under that lock and then move without it: requests,  *)
(* the sweep and people interleave.  The money of the order is Payments',  *)
(* here a number of full amounts.                                          *)
(***************************************************************************)
EXTENDS Integers, FiniteSets

CONSTANTS
    Requests,       \* requests being served, each in its own session
    Fulfilments,    \* the fulfilments the order may get
    Lines, Quantity, Supplier,   \* the lines of the order, their units, who sells them
    MaxSequence,    \* bound: operations of one phase of one fulfilment
    MaxCaptured,    \* bound: full amounts captured
    MaxTurns        \* bound: times the kill switch is turned

Phases == {"purchase", "ship"}
Operations == Fulfilments \X Phases \X (1..MaxSequence)

ASSUME FulfilmentAssumption ==
    /\ IsFiniteSet(Fulfilments)
    /\ Lines # {} /\ Quantity \in [Lines -> Nat \ {0}] /\ Supplier \in [Lines -> STRING]
    /\ {MaxSequence, MaxCaptured} \subseteq Nat \ {0} /\ MaxTurns \in Nat

VARIABLES
    order,          \* status of the order
    captured, committed,   \* full amounts captured, and refunded or being refunded
    allocated,      \* order_items.allocated_quantity
    row,            \* the fulfilments
    action, left,   \* their operations, as ActionLifecycle has them
    request,        \* what each request is doing
    enabled, turns, \* the kill switch
    anomaly         \* an observer found the fulfilment where it should not be

moneyVars == <<captured, committed>>
unitVars == <<order, allocated>>
switchVars == <<enabled, turns>>
vars == <<moneyVars, unitVars, row, action, left, request, switchVars, anomaly>>

Actions == INSTANCE ActionLifecycle WITH Sites <- Operations

FulfillmentStatus ==
    {"NONE", "READY", "PURCHASING", "PURCHASED", "SHIPPING", "SHIPPED", "COMPLETED", "FAILED",
     "CANCELLED", "UNKNOWN_OUTCOME"}
Released == {"NONE", "FAILED", "CANCELLED"}
Contents == {c \in [Lines -> UNION {0..Quantity[l] : l \in Lines}] : \A l \in Lines : c[l] <= Quantity[l]}
Empty == [l \in Lines |-> 0]

Rows == [status : FulfillmentStatus, lines : Contents, bought : BOOLEAN, failed : BOOLEAN,
         unknown : Phases \cup {"NONE"}]
NoRow == [status |-> "NONE", lines |-> Empty, bought |-> FALSE, failed |-> FALSE, unknown |-> "NONE"]
Idle == [pc |-> "idle"]

TypeOK ==
    /\ order \in {"AWAITING_PAYMENT", "PAID", "COMPLETED"}
    /\ captured \in 0..MaxCaptured /\ committed \in 0..captured
    /\ allocated \in Contents
    /\ row \in [Fulfilments -> Rows]
    /\ Actions!LifecycleTypeOK
    /\ request \in [Requests -> [pc : {"call", "abort", "answer"}, op : Operations] \cup {Idle}]
    /\ enabled \in BOOLEAN /\ turns \in 0..MaxTurns /\ anomaly \in BOOLEAN

-----------------------------------------------------------------------------
(* The money, under the lock of the order *)

Captures ==
    /\ captured < MaxCaptured
    /\ captured' = captured + 1
    /\ order' = IF order = "AWAITING_PAYMENT" THEN "PAID" ELSE order
    /\ UNCHANGED <<committed, allocated, row, action, left, request, switchVars, anomaly>>

\* Mutant of the next definition: what is already set aside is not looked at.
RefundsWithoutLimit ==
    /\ \/ captured > 0 /\ committed' = committed + 1
       \/ committed > 0 /\ committed' = committed - 1
    /\ UNCHANGED <<captured, unitVars, row, action, left, request, switchVars, anomaly>>

\* ledger.reserve when a refund is asked for, ledger.release when it failed.
Refunds ==
    /\ \/ committed < captured /\ committed' = committed + 1
       \/ committed > 0 /\ committed' = committed - 1
    /\ UNCHANGED <<captured, unitVars, row, action, left, request, switchVars, anomaly>>

Paid == order = "PAID" /\ captured - committed >= 1

-----------------------------------------------------------------------------
(* Units *)

\* `create`: every line fits, or nothing is written.
create(f, lines) ==
    /\ row[f].status = "NONE" /\ Paid
    /\ lines # Empty
    /\ Cardinality({Supplier[l] : l \in {x \in Lines : lines[x] > 0}}) = 1
    /\ \A l \in Lines : Quantity[l] - allocated[l] >= lines[l]
    /\ allocated' = [l \in Lines |-> allocated[l] + lines[l]]
    /\ row' = [row EXCEPT ![f] = [NoRow EXCEPT !.status = "READY", !.lines = lines]]
    /\ UNCHANGED <<order, moneyVars, action, left, request, switchVars, anomaly>>

\* Mutant of the next definition: what is being bought is given back.
ReleasableWhileCalling(f, to) ==
    /\ row[f].status \in {"READY", "PURCHASING"} /\ ~row[f].bought /\ row[f].unknown = "NONE"
    /\ to = "FAILED" => row[f].failed

\* The compare-and-set of `release_allocation`.
Releasable(f, to) ==
    /\ row[f].status = "READY" /\ ~row[f].bought /\ row[f].unknown = "NONE"
    /\ to = "FAILED" => row[f].failed

\* `cancel` and `fail`; a line that holds too few units undoes everything.
Abandon(f, to) ==
    /\ Releasable(f, to)
    /\ \A l \in Lines : allocated[l] >= row[f].lines[l]
    /\ allocated' = [l \in Lines |-> allocated[l] - row[f].lines[l]]
    /\ row' = [row EXCEPT ![f].status = to]
    /\ UNCHANGED <<order, moneyVars, action, left, request, switchVars, anomaly>>

\* One element per unit of the line that a fulfilment has, and how many they are.
Units(fs, l) == {u \in fs \X (1..Quantity[l]) : u[2] <= row[u[1]].lines[l]}
UnitsOf(fs, l) == Cardinality(Units(fs, l))
Delivered == {f \in Fulfilments : row[f].status = "COMPLETED"}

\* Mutant of the next definition: what is only on its way counts.
AllShipped(f) ==
    \A l \in Lines :
        UnitsOf(Delivered \cup {f} \cup {g \in Fulfilments : row[g].status = "SHIPPED"}, l) >= Quantity[l]

\* With the delivery of f.
AllDelivered(f) == \A l \in Lines : UnitsOf(Delivered \cup {f}, l) >= Quantity[l]

complete(f) ==
    /\ row[f].status = "SHIPPED"
    /\ row' = [row EXCEPT ![f].status = "COMPLETED"]
    /\ order' = IF order = "PAID" /\ AllDelivered(f) THEN "COMPLETED" ELSE order
    /\ UNCHANGED <<allocated, moneyVars, action, left, request, switchVars, anomaly>>

-----------------------------------------------------------------------------
(* The observer: in the transaction of each transition of an action *)

Before(phase) == IF phase = "purchase" THEN "READY" ELSE "PURCHASED"
During(phase) == IF phase = "purchase" THEN "PURCHASING" ELSE "SHIPPING"
After(phase) == IF phase = "purchase" THEN "PURCHASED" ELSE "SHIPPED"

\* `_move`: who is not where expected stays, and it is written down.
Moves(f, expected, new) ==
    IF row[f].status \in expected
    THEN row' = [row EXCEPT ![f] = new] /\ UNCHANGED anomaly
    ELSE UNCHANGED row /\ anomaly' = TRUE

Underway(phase) == {During(phase), "UNKNOWN_OUTCOME"}

ObserveDone(f, phase) ==
    Moves(f, Underway(phase), [row[f] EXCEPT !.status = After(phase), !.unknown = "NONE",
                                             !.bought = @ \/ phase = "purchase"])

ObserveFailed(f, phase) ==
    Moves(f, Underway(phase), [row[f] EXCEPT !.status = Before(phase), !.unknown = "NONE", !.failed = TRUE])

ObserveUnknown(f, phase) ==
    Moves(f, {During(phase)}, [row[f] EXCEPT !.status = "UNKNOWN_OUTCOME", !.unknown = phase])

\* It never left: nothing to count.
ObserveUnsent(f) ==
    /\ UNCHANGED row
    /\ anomaly' = (anomaly \/ row[f].status \notin {"READY", "PURCHASED", "CANCELLED", "FAILED"})

Succeeds(o) == Actions!Succeeds(o) /\ ObserveDone(o[1], o[2])
Fails(o) ==
    /\ Actions!Fails(o)
    /\ IF action[o] = "PENDING" THEN ObserveUnsent(o[1]) ELSE ObserveFailed(o[1], o[2])
IsLost(o) == Actions!IsLost(o) /\ ObserveUnknown(o[1], o[2])

-----------------------------------------------------------------------------
(* `purchase` and `ship`: what a request does *)

Runs(r, pc) == request[r].pc = pc
Ends(r) == request' = [request EXCEPT ![r] = Idle]
Goto(r, pc) == request' = [request EXCEPT ![r].pc = pc]

LatestOf(f, phase) == Cardinality({n \in 1..MaxSequence : action[<<f, phase, n>>] # "NONE"})

\* Checked and opened (or taken up) under the lock.  The gate, the policy of the
\* provider and the budget may refuse, and then nothing changes.
Open(r, f, phase) ==
    LET latest == LatestOf(f, phase)
        owned == latest > 0 /\ action[<<f, phase, latest>>] \in {"PENDING", "CALLING", "UNKNOWN_OUTCOME"}
        o == <<f, phase, IF owned THEN latest ELSE latest + 1>>
    IN  /\ Runs(r, "idle")
        /\ row[f].status = Before(phase) /\ Paid /\ enabled
        /\ o \in Operations
        /\ IF owned THEN UNCHANGED <<action, left>> ELSE Actions!OpenAction(o)
        /\ request' = [request EXCEPT ![r] = [pc |-> "call", op |-> o]]
        /\ UNCHANGED <<unitVars, moneyVars, row, switchVars, anomaly>>

\* Mutant of the next definition: the fulfilment is not asked where it is.
BeginAnyway(r) ==
    LET o == request[r].op
    IN  /\ Runs(r, "call") /\ enabled
        /\ Actions!BeginCall(o)
        /\ row' = [row EXCEPT ![o[1]].status = During(o[2])]
        /\ Goto(r, "answer")
        /\ UNCHANGED <<unitVars, moneyVars, switchVars, anomaly>>

\* The fulfilment crosses the boundary with its action.
BeginCall(r) ==
    LET o == request[r].op
    IN  /\ Runs(r, "call") /\ enabled
        /\ Actions!BeginCall(o)
        /\ row[o[1]].status = Before(o[2])
        /\ row' = [row EXCEPT ![o[1]].status = During(o[2])]
        /\ Goto(r, "answer")
        /\ UNCHANGED <<unitVars, moneyVars, switchVars, anomaly>>

\* The switch went off, or the fulfilment moved (FulfilmentMovedError): nothing left.
CallStopped(r) ==
    LET o == request[r].op
    IN  /\ Runs(r, "call")
        /\ ~enabled \/ (action[o] = "PENDING" /\ row[o[1]].status # Before(o[2]))
        /\ Goto(r, "abort")
        /\ UNCHANGED <<unitVars, moneyVars, row, action, left, switchVars, anomaly>>

\* Another request shares the operation and carries it out, or it was closed.
CallRefused(r) ==
    /\ Runs(r, "call") /\ enabled /\ action[request[r].op] # "PENDING"
    /\ Ends(r)
    /\ UNCHANGED <<unitVars, moneyVars, row, action, left, switchVars, anomaly>>

\* `finish_unstarted`, an error when another request started it.
Abort(r) ==
    /\ Runs(r, "abort")
    /\ IF action[request[r].op] = "PENDING" THEN Fails(request[r].op)
       ELSE UNCHANGED <<row, action, left, anomaly>>
    /\ Ends(r)
    /\ UNCHANGED <<unitVars, moneyVars, switchVars>>

\* The provider answers, also to a call that was declared unknown meanwhile.
Answered(r) ==
    /\ Runs(r, "answer")
    /\ Succeeds(request[r].op) \/ Fails(request[r].op)
    /\ Ends(r)
    /\ UNCHANGED <<unitVars, moneyVars, switchVars>>

NotAnswered(r) ==
    /\ Runs(r, "answer")
    /\ IsLost(request[r].op)
    /\ Ends(r)
    /\ UNCHANGED <<unitVars, moneyVars, switchVars>>

\* It was declared unknown or closed before, or the process died.
Leaves(r) ==
    /\ ~Runs(r, "idle")
    /\ Ends(r)
    /\ UNCHANGED <<unitVars, moneyVars, row, action, left, switchVars, anomaly>>

-----------------------------------------------------------------------------

\* The sweep takes PENDING and CALLING operations; reconcile and resolve close the
\* UNKNOWN_OUTCOME ones.
Reconcile(o) ==
    /\ \/ action[o] \in {"PENDING", "UNKNOWN_OUTCOME"} /\ Fails(o)
       \/ action[o] = "UNKNOWN_OUTCOME" /\ Succeeds(o)
       \/ IsLost(o)
    /\ UNCHANGED <<unitVars, moneyVars, request, switchVars>>

Turn ==
    /\ turns < MaxTurns
    /\ turns' = turns + 1 /\ enabled' = ~enabled
    /\ UNCHANGED <<unitVars, moneyVars, row, action, left, request, anomaly>>

Init ==
    /\ order = "AWAITING_PAYMENT" /\ captured = 0 /\ committed = 0
    /\ allocated = Empty
    /\ row = [f \in Fulfilments |-> NoRow]
    /\ Actions!LifecycleInit
    /\ request = [r \in Requests |-> Idle]
    /\ enabled = TRUE /\ turns = 0 /\ anomaly = FALSE

Serves(r) ==
    \/ \E f \in Fulfilments, phase \in Phases : Open(r, f, phase)
    \/ BeginCall(r) \/ CallStopped(r) \/ CallRefused(r) \/ Abort(r)
    \/ Answered(r) \/ NotAnswered(r) \/ Leaves(r)

People(f) ==
    \/ \E lines \in Contents : create(f, lines)
    \/ complete(f)
    \/ Abandon(f, "CANCELLED") \/ Abandon(f, "FAILED")

Next ==
    \/ \E r \in Requests : Serves(r)
    \/ \E f \in Fulfilments : People(f)
    \/ \E o \in Operations : Reconcile(o)
    \/ Captures \/ Refunds \/ Turn

Spec == Init /\ [][Next]_vars

-----------------------------------------------------------------------------
(* Properties *)

\* allocation.py: "giving back the units of a fulfilment that bought would allow
\* to assign them to another and buy them twice".  Whatever was cancelled, failed,
\* retried or lost, the units whose purchase may have been made are at most those
\* of the line, and the line counts exactly those of the fulfilments alive.
MayHaveBought ==
    {f \in Fulfilments : \E n \in 1..MaxSequence :
        <<f, "purchase", n>> \in left /\ action[<<f, "purchase", n>>] # "FAILED_CONFIRMED"}
NothingIsBoughtTwice ==
    \A l \in Lines :
        /\ UnitsOf(MayHaveBought, l) <= Quantity[l]
        /\ allocated[l] = UnitsOf({f \in Fulfilments : row[f].status \notin Released}, l)

\* fulfilment_projection.py: a fulfilment never says "nothing was sent" when the
\* request may have left, nor "it may have been sent" when it is known that it did
\* not, and no observer is surprised.
Has(f, phase, status) == \E n \in 1..MaxSequence : action[<<f, phase, n>>] = status
FulfilmentFollowsCalls ==
    /\ ~anomaly
    /\ \A f \in Fulfilments, phase \in Phases :
        /\ Has(f, phase, "CALLING") <=> row[f].status = During(phase)
        /\ Has(f, phase, "UNKNOWN_OUTCOME") <=> row[f].status = "UNKNOWN_OUTCOME" /\ row[f].unknown = phase
    /\ \A f \in Fulfilments :
        /\ Has(f, "purchase", "SUCCEEDED") <=> row[f].bought
        /\ Has(f, "ship", "SUCCEEDED") <=> row[f].status \in {"SHIPPED", "COMPLETED"}
        /\ row[f].status \in Released \cup {"READY"} => ~row[f].bought

\* fulfilment.py, "who closes the order": it is COMPLETED exactly when every unit
\* of every line was bought, shipped and delivered, by however many fulfilments.
OrdersEndDelivered ==
    order = "COMPLETED" <=> \A l \in Lines : UnitsOf(Delivered, l) = Quantity[l]

=============================================================================
