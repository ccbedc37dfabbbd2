------------------------------ MODULE Payments ------------------------------
(***************************************************************************)
(* The money of one order (orders/payment_attempts.py, orders/refunds.py,  *)
(* orders/service.py, payments/, reconciliation/events.py, revenue/): the  *)
(* attempts to charge it, their refunds, the provider's events and the     *)
(* revenue entries they leave.                                             *)
(*                                                                         *)
(* Opening a payment and sending a refund are external actions: each step  *)
(* of an action (ActionLifecycle) moves the payment or refund in the same  *)
(* transaction, through its observer and WITHOUT the lock of the order.    *)
(* Everything else takes that lock.  Applying an event is three steps: its *)
(* claim and the search of its refund, what is read once the lock is held, *)
(* and the writes.                                                         *)
(***************************************************************************)
EXTENDS Integers, FiniteSets

CONSTANTS
    Attempts,         \* payments of the order, one per attempt to charge it
    OwnRefunds,       \* refunds we may ask the provider for
    ProviderRefunds,  \* refunds the provider may make on its own
    NoRefund,         \* an event about no refund
    Events,           \* identities of the events the provider sends
    Due,              \* amount of the order, in cents
    MaxAmount,        \* largest amount of an event or refund
    Ingress,          \* sessions that receive webhooks or retry by hand
    Sweepers,         \* sessions of the sweep of events
    MaxReconcile      \* attempts of the sweep per event

ASSUME PaymentsAssumption ==
    /\ Due \in 1..MaxAmount /\ MaxAmount \in Nat /\ MaxReconcile \in Nat
    /\ IsFiniteSet(OwnRefunds \cup ProviderRefunds)
    /\ Attempts \cap (OwnRefunds \cup ProviderRefunds) = {}
    /\ OwnRefunds \cap ProviderRefunds = {}
    /\ NoRefund \notin OwnRefunds \cup ProviderRefunds
    /\ Ingress \cap Sweepers = {}

VARIABLES
    order,    \* Order.status
    payment,  \* payments: status and amounts
    refund,   \* refunds: status, payment, amount
    fact,     \* what each received event says
    event,    \* payment_events: processing_status, reconcile_attempts
    entries,  \* revenue_ledger_entries
    session,  \* what each session is doing
    action, left

Refunds == OwnRefunds \cup ProviderRefunds
Sessions == Ingress \cup Sweepers

Actions == INSTANCE ActionLifecycle WITH Sites <- Attempts \cup OwnRefunds

orderVars == <<order, payment, refund, entries>>
eventVars == <<fact, event>>
actionVars == <<action, left>>
vars == <<order, payment, refund, fact, event, entries, session, action, left>>

-----------------------------------------------------------------------------
(* The rows *)

Active == {"REQUESTED", "OPENING", "UNKNOWN_OUTCOME", "OPEN"}
Captured == {"SUCCEEDED", "DUPLICATE_CAPTURE", "CAPTURE_MISMATCH"}
Closed == {"FAILED", "EXPIRED"}
Closable == {"OPENING", "UNKNOWN_OUTCOME", "OPEN"}
CaptureAccepting == Closable \cup Closed

PendingRefund == {"REQUESTED", "SENDING", "UNKNOWN_OUTCOME"}
Reserving == PendingRefund \cup {"SUCCEEDED"}

Final == {"APPLIED", "STALE", "CONFLICT", "UNMATCHED"}

RefundTypes == {"refund.succeeded", "refund.failed"}

\* Amount 0 is an event without an amount or in another currency; where the
\* code does not look at the amount there is none.
Facts ==
    [type: {"payment.succeeded"}, payment: Attempts, refund: {NoRefund}, amount: 0..MaxAmount]
    \cup [type: {"payment.failed", "payment.expired", "payment.attempt_failed"},
          payment: Attempts, refund: {NoRefund}, amount: {0}]
    \cup [type: {"refund.succeeded"}, payment: Attempts, refund: Refunds, amount: 0..MaxAmount]
    \cup [type: {"refund.failed"}, payment: Attempts, refund: Refunds, amount: {0}]

NoPayment == [status |-> "NONE", captured |-> 0, committed |-> 0, refunded |-> 0]
NoRow == [status |-> "NONE"]
Idle == [pc |-> "idle"]

PaymentStatuses == {"NONE"} \cup Active \cup Captured \cup Closed
RefundStatuses == Reserving \cup {"FAILED"}
EventStatuses == {"NONE", "RECEIVED"} \cup Final

Payments == [status: PaymentStatuses, captured: Nat, committed: Nat, refunded: Nat]
RefundRows == [status: RefundStatuses, payment: Attempts, amount: 1..MaxAmount]
EventRows == [status: EventStatuses, attempts: 0..MaxReconcile]
Entries == [kind: {"CAPTURE", "REFUND"}, class: Captured, event: Events,
            payment: Attempts, refund: Refunds \cup {NoRefund}, amount: 0..MaxAmount]
Doing == {Idle} \cup [pc: {"apply"}, event: Events]
         \cup [pc: {"wait"}, event: Events, found: BOOLEAN]
         \cup [pc: {"decide"}, event: Events, payment: PaymentStatuses, refund: RefundStatuses \cup {"NONE"}]

TypeOK ==
    /\ order \in {"AWAITING_PAYMENT", "PAID", "CANCELLED"}
    /\ payment \in [Attempts -> Payments]
    /\ refund \in [Refunds -> RefundRows \cup {NoRow}]
    /\ fact \in [Events -> Facts \cup {NoRow}]
    /\ event \in [Events -> EventRows]
    /\ entries \subseteq Entries
    /\ session \in [Sessions -> Doing]
    /\ Actions!LifecycleTypeOK

-----------------------------------------------------------------------------
(* Reading *)

\* `_lock_order`: who applies an event keeps the order from its reads to its commit.
OrderIsFree == \A s \in Sessions : session[s].pc # "decide"

NeverCaptured == \A p \in Attempts : payment[p].captured = 0
\* Mutant of the next definition: an unknown outcome does not count.
NoneKnownActive == \A p \in Attempts : payment[p].status \notin {"REQUESTED", "OPENING", "OPEN"}

NoneActive == \A p \in Attempts : payment[p].status \notin Active

\* `_find_refund`: the refund the event names, if it has a row.
HasRefund(f) == f.refund \in Refunds /\ refund[f.refund].status # "NONE"

\* `_find_payment`: that row says whose payment the event is about.
PaymentOf(f) == IF HasRefund(f) THEN refund[f.refund].payment ELSE f.payment

-----------------------------------------------------------------------------
(* Writing a payment *)

\* A compare-and-set of the status: nothing if it is another.
StatusMoved(p, from, to) == IF payment[p].status \in from THEN [payment EXCEPT ![p].status = to] ELSE payment

\* payments/ledger.py: `reserve` (a, 0), `settle` (0, a), `release` (-a, 0) and
\* `reserve_and_settle` (a, a).
AmountsMoved(p, committed, refunded) ==
    [payment EXCEPT ![p].committed = payment[p].committed + committed,
                    ![p].refunded = payment[p].refunded + refunded]

CaptureRecorded(p, status, amount) ==
    [payment EXCEPT ![p].status = status, ![p].captured = amount]

\* The condition of `reserve`, and that of `settle` and `release`.
CanReserve(p, a) == payment[p].status \in Captured /\ a <= payment[p].captured - payment[p].committed
CanRelease(p, a) == a <= payment[p].committed - payment[p].refunded

-----------------------------------------------------------------------------
(* Requests of people, each one transaction under the lock of the order *)

\* `PaymentAttemptService.start` up to its commit: a new attempt and its action.
StartAttempt(p) ==
    /\ OrderIsFree
    /\ order = "AWAITING_PAYMENT"
    /\ NeverCaptured /\ NoneActive
    /\ payment[p].status = "NONE"
    /\ payment' = [payment EXCEPT ![p].status = "REQUESTED"]
    /\ Actions!OpenAction(p)
    /\ UNCHANGED <<order, refund, entries, eventVars, session>>

\* `OrderService.cancel`.
CancelOrder ==
    /\ OrderIsFree
    /\ order = "AWAITING_PAYMENT"
    /\ NoneActive /\ NeverCaptured
    /\ order' = "CANCELLED"
    /\ UNCHANGED <<payment, refund, entries, eventVars, session, actionVars>>

\* `RefundService.request` up to its commit: `reserve`, the refund and its action.
\* A refund whose outcome is unknown blocks the next one of its payment.
RequestRefund(r, p, a) ==
    /\ OrderIsFree
    /\ refund[r].status = "NONE"
    /\ CanReserve(p, a)
    /\ \A q \in Refunds : refund[q].status = "UNKNOWN_OUTCOME" => refund[q].payment # p
    /\ payment' = AmountsMoved(p, a, 0)
    /\ refund' = [refund EXCEPT ![r] = [status |-> "REQUESTED", payment |-> p, amount |-> a]]
    /\ Actions!OpenAction(r)
    /\ UNCHANGED <<order, entries, eventVars, session>>

-----------------------------------------------------------------------------
(* PaymentOpenObserver: the payment moves with the action that opens it, or *)
(* stays where an event already took it                                     *)

\* Mutant of the next definition: the action's word is final.
OverwritesPayment(p, from, to) ==
    /\ payment' = [payment EXCEPT ![p].status = to]
    /\ UNCHANGED <<order, refund, entries, eventVars, session>>

MovesPayment(p, from, to) ==
    /\ payment' = StatusMoved(p, from, to)
    /\ UNCHANGED <<order, refund, entries, eventVars, session>>

\* The call does not start unless the payment is REQUESTED.
OpenBegins(p) ==
    /\ payment[p].status = "REQUESTED"
    /\ Actions!BeginCall(p)
    /\ MovesPayment(p, {"REQUESTED"}, "OPENING")

OpenSucceeds(p) ==
    /\ Actions!Succeeds(p)
    /\ MovesPayment(p, {"OPENING", "UNKNOWN_OUTCOME"}, "OPEN")

OpenFails(p) ==
    /\ Actions!Fails(p)
    /\ MovesPayment(p, {"REQUESTED", "OPENING", "UNKNOWN_OUTCOME"}, "FAILED")

\* Mutant of the next definition: the payment is left as it was.
LostUnnoticed(p) ==
    /\ Actions!IsLost(p)
    /\ UNCHANGED <<orderVars, eventVars, session>>

OpenIsLost(p) ==
    /\ Actions!IsLost(p)
    /\ MovesPayment(p, {"OPENING"}, "UNKNOWN_OUTCOME")

-----------------------------------------------------------------------------
(* RefundActionObserver *)

MovesRefund(r, from, to) ==
    refund' = IF refund[r].status \in from THEN [refund EXCEPT ![r].status = to] ELSE refund

RefundBegins(r) ==
    /\ refund[r].status = "REQUESTED"
    /\ Actions!BeginCall(r)
    /\ MovesRefund(r, {"REQUESTED"}, "SENDING")
    /\ UNCHANGED <<order, payment, entries, eventVars, session>>

\* Accepted is not refunded: only an event settles it.
RefundAccepted(r) ==
    /\ Actions!Succeeds(r)
    /\ MovesRefund(r, {"UNKNOWN_OUTCOME"}, "SENDING")
    /\ UNCHANGED <<order, payment, entries, eventVars, session>>

RefundIsLost(r) ==
    /\ Actions!IsLost(r)
    /\ MovesRefund(r, {"SENDING"}, "UNKNOWN_OUTCOME")
    /\ UNCHANGED <<order, payment, entries, eventVars, session>>

\* Mutant of the next definition: released whatever the refund is now.
FailsAndReleases(r) ==
    /\ Actions!Fails(r)
    /\ MovesRefund(r, PendingRefund, "FAILED")
    /\ payment' = AmountsMoved(refund[r].payment, -refund[r].amount, 0)
    /\ UNCHANGED <<order, entries, eventVars, session>>

\* Only a confirmed failure returns what was set aside, with the status.  The
\* observer raises, and undoes the action's step, if the payment lacks it.
RefundFails(r) ==
    /\ Actions!Fails(r)
    /\ refund[r].status \in PendingRefund => CanRelease(refund[r].payment, refund[r].amount)
    /\ MovesRefund(r, PendingRefund, "FAILED")
    /\ payment' = IF refund[r].status \in PendingRefund
                  THEN AmountsMoved(refund[r].payment, -refund[r].amount, 0)
                  ELSE payment
    /\ UNCHANGED <<order, entries, eventVars, session>>

-----------------------------------------------------------------------------
(* Receiving events: the first transaction of the ingress, and every way an *)
(* event stored before comes back                                           *)

\* The provider only knows what was sent to it, and what it refunds by itself
\* of a payment it knows.
CanHappen(f) ==
    /\ f.payment \in left
    /\ f.refund \in OwnRefunds => f.refund \in left /\ f.payment = refund[f.refund].payment

Applies(s, e) == session' = [session EXCEPT ![s] = [pc |-> "apply", event |-> e]]

Receive(s, e, f) ==
    /\ session[s].pc = "idle"
    /\ event[e].status = "NONE"
    /\ CanHappen(f)
    /\ fact' = [fact EXCEPT ![e] = f]
    /\ event' = [event EXCEPT ![e].status = "RECEIVED"]
    /\ Applies(s, e)
    /\ UNCHANGED <<orderVars, actionVars>>

\* A second delivery finds the row and applies it again.
Redeliver(s, e) ==
    /\ session[s].pc = "idle"
    /\ event[e].status # "NONE"
    /\ Applies(s, e)
    /\ UNCHANGED <<orderVars, eventVars, actionVars>>

\* Mutant of the next definition: whoever was tried before is left alone.
ClaimFirstAttempt(s, e) ==
    /\ session[s].pc = "idle"
    /\ event[e].status = "RECEIVED"
    /\ event[e].attempts = 0
    /\ event' = [event EXCEPT ![e].attempts = 1]
    /\ Applies(s, e)
    /\ UNCHANGED <<fact, orderVars, actionVars>>

\* `_claim_attempt` of the sweep: the attempt is counted before it is made.
ClaimAttempt(s, e) ==
    /\ session[s].pc = "idle"
    /\ event[e].status = "RECEIVED"
    /\ event[e].attempts < MaxReconcile
    /\ event' = [event EXCEPT ![e].attempts = event[e].attempts + 1]
    /\ Applies(s, e)
    /\ UNCHANGED <<fact, orderVars, actionVars>>

\* `retry_event`, by a person.
RetryEvent(s, e) ==
    /\ session[s].pc = "idle"
    /\ event[e].status = "RECEIVED"
    /\ event' = [event EXCEPT ![e].attempts = 0]
    /\ Applies(s, e)
    /\ UNCHANGED <<fact, orderVars, actionVars>>

\* The session dies or is rolled back: the event stays as it was stored.
Crash(s) ==
    /\ session[s].pc # "idle"
    /\ session' = [session EXCEPT ![s] = Idle]
    /\ UNCHANGED <<orderVars, eventVars, actionVars>>

-----------------------------------------------------------------------------
(* PaymentService.apply *)

\* It was applied before, or by whoever held its row.
AlreadyApplied(s) ==
    /\ session[s].pc = "apply"
    /\ event[session[s].event].status # "RECEIVED"
    /\ session' = [session EXCEPT ![s] = Idle]
    /\ UNCHANGED <<orderVars, eventVars, actionVars>>

\* The claim holds the row of the event until the commit; the refund is looked for
\* before the order is locked.
Claims(s) ==
    /\ session[s].pc = "apply"
    /\ LET e == session[s].event
       IN  /\ event[e].status = "RECEIVED"
           /\ \A t \in Sessions : session[t].pc \in {"wait", "decide"} => session[t].event # e
           /\ session' = [session EXCEPT ![s] =
                             [pc |-> "wait", event |-> e, found |-> HasRefund(fact[e])]]
    /\ UNCHANGED <<orderVars, eventVars, actionVars>>

\* `_dispatch`: the lock of the order, and the rows found, read again.
ApplyReads(s) ==
    /\ session[s].pc = "wait"
    /\ OrderIsFree
    /\ LET f == fact[session[s].event]
           found == session[s].found
           p == IF found THEN refund[f.refund].payment ELSE f.payment
       IN  session' = [session EXCEPT ![s] =
             [pc |-> "decide", event |-> session[s].event, payment |-> payment[p].status,
              refund |-> IF found THEN refund[f.refund].status ELSE "NONE"]]
    /\ UNCHANGED <<orderVars, eventVars, actionVars>>

Decides(s, types) == session[s].pc = "decide" /\ fact[session[s].event].type \in types

\* `_finish` and the commit.
Finishes(s, outcome) ==
    /\ event' = [event EXCEPT ![session[s].event].status = outcome]
    /\ session' = [session EXCEPT ![s] = Idle]
    /\ UNCHANGED <<fact, actionVars>>

AttemptFailed(s) ==
    /\ Decides(s, {"payment.attempt_failed"})
    /\ Finishes(s, IF session[s].payment \in Captured \cup Closed THEN "STALE" ELSE "APPLIED")
    /\ UNCHANGED orderVars

\* `_close`: the UPDATE compares again, and its row count is not looked at.
ClosePayment(s) ==
    /\ Decides(s, {"payment.failed", "payment.expired"})
    /\ LET f == fact[session[s].event]
           to == IF f.type = "payment.failed" THEN "FAILED" ELSE "EXPIRED"
       IN  \/ /\ session[s].payment \in Closable
              /\ payment' = StatusMoved(f.payment, Closable, to)
              /\ Finishes(s, "APPLIED")
           \/ /\ session[s].payment \notin Closable
              /\ Finishes(s, IF session[s].payment \in Closed THEN "STALE" ELSE "CONFLICT")
              /\ UNCHANGED payment
    /\ UNCHANGED <<order, refund, entries>>

\* `_canonical_payment`: another attempt already is the payment of the order.
Canonical(p) == \E q \in Attempts \ {p} : payment[q].status = "SUCCEEDED"

\* Mutant of the next definition: the other attempts are not looked at.
AlwaysCanonical(p, amount) == IF amount # Due THEN "CAPTURE_MISMATCH" ELSE "SUCCEEDED"

CaptureStatus(p, amount) ==
    IF amount # Due THEN "CAPTURE_MISMATCH"
    ELSE IF Canonical(p) THEN "DUPLICATE_CAPTURE" ELSE "SUCCEEDED"

Entry(kind, class, e, p, r, amount) ==
    [kind |-> kind, class |-> class, event |-> e, payment |-> p, refund |-> r, amount |-> amount]

\* Mutant of the next definition: a closed payment takes no capture.
LateCaptureKept(s) ==
    /\ Decides(s, {"payment.succeeded"})
    /\ session[s].payment \in Closed \cup Captured
    /\ Finishes(s, "STALE")
    /\ UNCHANGED orderVars

\* A capture that cannot be recorded as money, or finds money already recorded.
CaptureKept(s) ==
    /\ Decides(s, {"payment.succeeded"})
    /\ LET f == fact[session[s].event]
       IN  \/ /\ f.amount = 0 \/ session[s].payment = "REQUESTED"
              /\ Finishes(s, "CONFLICT")
           \/ /\ f.amount # 0 /\ session[s].payment \in Captured
              /\ Finishes(s, IF payment[f.payment].captured = f.amount THEN "STALE" ELSE "CONFLICT")
    /\ UNCHANGED orderVars

\* `_record_capture`, its revenue entry and `_mark_order_paid`.  If the UPDATE
\* finds another status it raises: see Raises.
RecordCapture(s) ==
    /\ Decides(s, {"payment.succeeded"})
    /\ LET f == fact[session[s].event]
           status == CaptureStatus(f.payment, f.amount)
       IN  /\ f.amount # 0
           /\ session[s].payment \in CaptureAccepting
           /\ payment[f.payment].status \in CaptureAccepting
           /\ payment' = CaptureRecorded(f.payment, status, f.amount)
           /\ entries' = entries \cup
                            {Entry("CAPTURE", status, session[s].event, f.payment, NoRefund, f.amount)}
           /\ order' = IF status = "SUCCEEDED" /\ order = "AWAITING_PAYMENT" THEN "PAID" ELSE order
           /\ Finishes(s, "APPLIED")
    /\ UNCHANGED refund

\* The class a refund inherits from the capture it reverts.
ClassOf(p) == CHOOSE c \in Captured :
                 \E x \in entries : x.kind = "CAPTURE" /\ x.payment = p /\ x.class = c

\* Mutant of the next definition: every refund reverts the payment of the order.
PlainRefundEntry(e, p, r, amount) == {Entry("REFUND", "SUCCEEDED", e, p, r, amount)}

RefundEntry(e, p, r, amount) ==
    IF \E x \in entries : x.kind = "CAPTURE" /\ x.payment = p
    THEN {Entry("REFUND", ClassOf(p), e, p, r, amount)} ELSE {}

\* Mutant of the next definition: what was read is still so.
StatusAsRead(s) == session[s].refund

\* `_refund_succeeded` and `_refund_failed` decide on the status they read; if it
\* moved before the UPDATE they read it again, once.
StatusToDecide(s) ==
    LET r == fact[session[s].event].refund
    IN  IF session[s].refund \in PendingRefund THEN refund[r].status ELSE session[s].refund

\* A refund of ours is confirmed: settle what was set aside.
SettleRefund(s) ==
    /\ Decides(s, {"refund.succeeded"})
    /\ LET f == fact[session[s].event]
           r == f.refund
           p == PaymentOf(f)
       IN  /\ f.amount # 0
           /\ StatusToDecide(s) \in PendingRefund
           /\ f.amount = refund[r].amount
           /\ CanRelease(p, f.amount)
           /\ refund' = [refund EXCEPT ![r].status = "SUCCEEDED"]
           /\ payment' = AmountsMoved(p, 0, f.amount)
           /\ entries' = entries \cup RefundEntry(session[s].event, p, r, f.amount)
           /\ Finishes(s, "APPLIED")
    /\ UNCHANGED order

\* Mutant of the next definition: the reference of a refund is not unique.
AnyReference(f) == TRUE

\* `uq_refunds_provider_refund_ref`.
NewReference(f) == ~HasRefund(f)

\* `_provider_refund`: reserved and settled at once, if it fits.
RecordProviderRefund(s) ==
    /\ Decides(s, {"refund.succeeded"})
    /\ LET f == fact[session[s].event]
           p == f.payment
       IN  /\ f.amount # 0
           /\ session[s].refund = "NONE"
           /\ CanReserve(p, f.amount)
           /\ NewReference(f)
           /\ refund' = [refund EXCEPT ![f.refund] =
                            [status |-> "SUCCEEDED", payment |-> p, amount |-> f.amount]]
           /\ payment' = AmountsMoved(p, f.amount, f.amount)
           /\ entries' = entries \cup RefundEntry(session[s].event, p, f.refund, f.amount)
           /\ Finishes(s, "APPLIED")
    /\ UNCHANGED order

\* Another event created that refund after this one looked for it: the insert
\* breaks the unique reference, everything is rolled back and the event waits.
RefundWasRecorded(s) ==
    /\ Decides(s, {"refund.succeeded"})
    /\ LET f == fact[session[s].event]
       IN  /\ f.amount # 0
           /\ session[s].refund = "NONE"
           /\ CanReserve(f.payment, f.amount)
           /\ ~NewReference(f)
    /\ session' = [session EXCEPT ![s] = Idle]
    /\ UNCHANGED <<orderVars, eventVars, actionVars>>

\* A refund that happened and is kept only as evidence, or was already recorded.
RefundKept(s) ==
    /\ Decides(s, {"refund.succeeded"})
    /\ LET f == fact[session[s].event]
           status == StatusToDecide(s)
       IN  \/ /\ f.amount = 0
              /\ Finishes(s, "CONFLICT")
           \/ /\ f.amount # 0 /\ status = "NONE"
              /\ ~CanReserve(f.payment, f.amount)
              /\ Finishes(s, "CONFLICT")
           \/ /\ f.amount # 0 /\ status = "SUCCEEDED"
              /\ Finishes(s, "STALE")
           \/ /\ f.amount # 0 /\ status = "FAILED"
              /\ Finishes(s, "CONFLICT")
           \/ /\ f.amount # 0 /\ session[s].refund \in PendingRefund
              /\ f.amount # refund[f.refund].amount
              /\ Finishes(s, "CONFLICT")
    /\ UNCHANGED orderVars

\* `_refund_failed`: release what was set aside.
ReleaseRefund(s) ==
    /\ Decides(s, {"refund.failed"})
    /\ LET f == fact[session[s].event]
           p == PaymentOf(f)
       IN  /\ StatusToDecide(s) \in PendingRefund
           /\ CanRelease(p, refund[f.refund].amount)
           /\ refund' = [refund EXCEPT ![f.refund].status = "FAILED"]
           /\ payment' = AmountsMoved(p, -refund[f.refund].amount, 0)
           /\ Finishes(s, "APPLIED")
    /\ UNCHANGED <<order, entries>>

RefundFailureKept(s) ==
    /\ Decides(s, {"refund.failed"})
    /\ LET status == StatusToDecide(s)
       IN  \/ status = "NONE" /\ Finishes(s, "UNMATCHED")
           \/ status = "FAILED" /\ Finishes(s, "STALE")
           \/ status = "SUCCEEDED" /\ Finishes(s, "CONFLICT")
    /\ UNCHANGED orderVars

-----------------------------------------------------------------------------
Init ==
    /\ order = "AWAITING_PAYMENT"
    /\ payment = [p \in Attempts |-> NoPayment]
    /\ refund = [r \in Refunds |-> NoRow]
    /\ fact = [e \in Events |-> NoRow]
    /\ event = [e \in Events |-> [status |-> "NONE", attempts |-> 0]]
    /\ entries = {}
    /\ session = [s \in Sessions |-> Idle]
    /\ Actions!LifecycleInit

PeopleStep ==
    \/ \E p \in Attempts : StartAttempt(p)
    \/ CancelOrder
    \/ \E r \in OwnRefunds, p \in Attempts, a \in 1..MaxAmount : RequestRefund(r, p, a)

ActionStep ==
    \/ \E p \in Attempts : OpenBegins(p) \/ OpenSucceeds(p) \/ OpenFails(p) \/ OpenIsLost(p)
    \/ \E r \in OwnRefunds : RefundBegins(r) \/ RefundAccepted(r) \/ RefundFails(r) \/ RefundIsLost(r)

\* How an event reaches `apply`.
Arrival ==
    \/ \E s \in Ingress, e \in Events :
         \/ \E f \in Facts : Receive(s, e, f)
         \/ Redeliver(s, e)
         \/ RetryEvent(s, e)
    \/ \E s \in Sweepers, e \in Events : ClaimAttempt(s, e)

PaymentEventApplied(s) ==
    AttemptFailed(s) \/ ClosePayment(s) \/ CaptureKept(s) \/ RecordCapture(s)

RefundEventApplied(s) ==
    \/ SettleRefund(s) \/ RecordProviderRefund(s) \/ RefundWasRecorded(s) \/ RefundKept(s)
    \/ ReleaseRefund(s) \/ RefundFailureKept(s)

Apply(s) == AlreadyApplied(s) \/ Claims(s) \/ ApplyReads(s) \/ PaymentEventApplied(s) \/ RefundEventApplied(s)

Next ==
    \/ PeopleStep
    \/ ActionStep
    \/ Arrival
    \/ \E s \in Sessions : Apply(s) \/ Crash(s)

Spec == Init /\ [][Next]_vars

\* Every tick of `reconcile.payment_events` goes through the RECEIVED events, and
\* whoever applies one gets the lock of the order in its turn and commits.
Fairness ==
    /\ \A s \in Sessions : SF_vars(Apply(s))
    /\ \A e \in Events : SF_vars(\E s \in Sweepers : ClaimAttempt(s, e))

FairSpec == Spec /\ Fairness

-----------------------------------------------------------------------------
(* Properties *)

\* The cents of the refunds of a payment that are in one of these statuses.
Cents(p, statuses) ==
    {x \in Refunds \X (1..MaxAmount) :
        /\ refund[x[1]].status \in statuses
        /\ refund[x[1]].payment = p
        /\ x[2] <= refund[x[1]].amount}

\* What a payment has set aside and has refunded is exactly what its refunds say,
\* whoever moved each of them (observer, event, or both racing), and fits in
\* what was captured.
RefundsFit ==
    \A p \in Attempts :
        /\ payment[p].committed = Cardinality(Cents(p, Reserving))
        /\ payment[p].refunded = Cardinality(Cents(p, {"SUCCEEDED"}))
        /\ payment[p].refunded <= payment[p].committed
        /\ payment[p].committed <= payment[p].captured

\* An order is PAID by one canonical capture of its exact amount; every other
\* capture is a duplicate of it or a mismatch, and only a cancelled order stays
\* unpaid with its amount captured.
PaidByOneCapture ==
    LET canonical == {p \in Attempts : payment[p].status = "SUCCEEDED"}
    IN  /\ \A p, q \in canonical : p = q
        /\ order = "PAID" => canonical # {}
        /\ canonical # {} => order \in {"PAID", "CANCELLED"}
        /\ \A p \in Attempts :
             /\ payment[p].captured > 0 <=> payment[p].status \in Captured
             /\ payment[p].status \in {"SUCCEEDED", "DUPLICATE_CAPTURE"} => payment[p].captured = Due
             /\ payment[p].status = "DUPLICATE_CAPTURE" => canonical # {}

\* A capture event that was processed left its money on its payment, or
\* contradicts another amount already there: late, repeated or out of order, it
\* is never discarded.
NoCaptureIsLost ==
    \A e \in Events :
        (/\ event[e].status \in Final
         /\ fact[e].type = "payment.succeeded"
         /\ fact[e].amount # 0) =>
            LET p == fact[e].payment
            IN  /\ payment[p].status \in Captured
                /\ event[e].status \in {"APPLIED", "STALE"} <=> payment[p].captured = fact[e].amount

\* The revenue ledger says what the payments and refunds say: one entry per
\* capture and per refund done, from an applied event of its own, and a refund
\* has the class of the capture it reverts.
EntriesMatchMoney ==
    /\ \A x \in entries :
         /\ event[x.event].status = "APPLIED"
         /\ \A y \in entries : x # y => x.event # y.event
         /\ x.class = payment[x.payment].status
         /\ x.kind = "CAPTURE" => x.amount = payment[x.payment].captured
         /\ x.kind = "REFUND" => /\ refund[x.refund].status = "SUCCEEDED"
                                 /\ refund[x.refund].payment = x.payment
                                 /\ refund[x.refund].amount = x.amount
    /\ \A p \in Attempts : payment[p].status \in Captured =>
         Cardinality({x \in entries : x.kind = "CAPTURE" /\ x.payment = p}) = 1
    /\ \A r \in Refunds : refund[r].status = "SUCCEEDED" =>
         Cardinality({x \in entries : x.refund = r}) = 1

\* An order has at most one attempt that can still be charged, an attempt whose
\* outcome is unknown included, and none once it is cancelled.
OneLiveAttempt ==
    LET active == {p \in Attempts : payment[p].status \in Active}
    IN  /\ \A p, q \in active : p = q
        /\ order = "CANCELLED" => active = {}

\* A payment or refund that is still alive is so because of where its external
\* action is: none outlives an action that failed, and what may have left is
\* never taken for unsent.
RowsFollowCalls ==
    /\ \A p \in Attempts :
         /\ payment[p].status = "REQUESTED" <=> action[p] = "PENDING"
         /\ payment[p].status = "OPENING" => action[p] = "CALLING"
         /\ payment[p].status = "UNKNOWN_OUTCOME" => action[p] = "UNKNOWN_OUTCOME"
         /\ payment[p].status = "OPEN" => action[p] = "SUCCEEDED"
    /\ \A r \in OwnRefunds :
         /\ refund[r].status = "REQUESTED" <=> action[r] = "PENDING"
         /\ refund[r].status = "SENDING" => action[r] \in {"CALLING", "SUCCEEDED"}
         /\ refund[r].status = "UNKNOWN_OUTCOME" => action[r] = "UNKNOWN_OUTCOME"

\* The conditions under which `apply` raises RuntimeError and rolls back.
Raises(s) ==
    LET f == fact[session[s].event]
    IN  \/ /\ Decides(s, {"payment.succeeded"})
           /\ session[s].payment \in CaptureAccepting
           /\ payment[f.payment].status \notin CaptureAccepting
        \/ /\ Decides(s, RefundTypes)
           /\ StatusToDecide(s) \in PendingRefund
           /\ \/ refund[f.refund].status \notin PendingRefund
              \/ ~CanRelease(refund[f.refund].payment, refund[f.refund].amount)

\* What an event was decided on still holds when it is written, or reading it
\* once more is enough: no event fails for ever against the observers.
ApplyNeverRaises == \A s \in Sessions : ~Raises(s)

\* Money recorded is never unrecorded, and what was concluded stays so: no late
\* event, answer or person's word undoes a capture, a closed refund, an order
\* that was paid or cancelled, or the processing of an event.
Undoes ==
    \/ \E p \in Attempts :
         payment[p].status \in Captured
         /\ (payment'[p].status # payment[p].status \/ payment'[p].captured # payment[p].captured)
    \/ \E r \in Refunds : refund[r].status \in {"SUCCEEDED", "FAILED"} /\ refund'[r] # refund[r]
    \/ order # "AWAITING_PAYMENT" /\ order' # order
    \/ \E e \in Events : event[e].status \in Final /\ event'[e].status # event[e].status
    \/ ~(entries \subseteq entries')

NothingIsUndone == [][~Undoes]_vars

\* A stored event does not wait for ever: unless people keep resetting its
\* attempts, it is processed, or the sweep has spent its attempts on it and it
\* waits for a person.
PeopleStopRetrying == <>[][\A e \in Events : event'[e].attempts >= event[e].attempts]_vars

EventsSettle ==
    PeopleStopRetrying =>
        \A e \in Events :
            event[e].status = "RECEIVED" ~> (event[e].status \in Final \/ event[e].attempts = MaxReconcile)

=============================================================================
