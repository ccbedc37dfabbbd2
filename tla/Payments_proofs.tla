--------------------------- MODULE Payments_proofs ---------------------------
(***************************************************************************)
(* What holds of the money of an order for any attempts, refunds, events   *)
(* and sessions: its totals, and what its rows owe to what happened        *)
(* before.  Nothing concluded is undone, every live row is explained by    *)
(* its external action, no capture is lost, refunds fit in what was        *)
(* captured, and applying an event never finds its decision impossible.    *)
(***************************************************************************)
EXTENDS Payments, FiniteSetTheorems, TLAPS

\* An event that was stored says something, and whoever applies one has one that
\* was stored.
EventsAreKnown ==
    /\ \A e \in Events : event[e].status # "NONE" => fact[e] \in Facts
    /\ \A s \in Sessions : session[s].pc # "idle" => event[session[s].event].status # "NONE"

TypeInv == TypeOK /\ EventsAreKnown

\* A refund that was found before the order was locked is still there.
FoundStays ==
    \A s \in Sessions : session[s].pc = "wait" /\ session[s].found => HasRefund(fact[session[s].event])

Inv == TypeInv /\ FoundStays

-----------------------------------------------------------------------------
(* Rows *)

LEMMA PaymentFields ==
  ASSUME TypeOK, NEW p \in Attempts
  PROVE  /\ payment[p] \in Payments
         /\ payment[p].status \in PaymentStatuses
         /\ payment[p].captured \in Nat /\ payment[p].committed \in Nat /\ payment[p].refunded \in Nat
  BY DEF TypeOK, Payments

LEMMA StatusWrite ==
  ASSUME NEW x \in Payments, NEW v \in PaymentStatuses
  PROVE  [x EXCEPT !.status = v] \in Payments
  BY DEF Payments

LEMMA MovedStatuses ==
  ASSUME TypeOK, NEW p \in Attempts, NEW from, NEW to \in PaymentStatuses
  PROVE  StatusMoved(p, from, to) \in [Attempts -> Payments]
<1>1. payment \in [Attempts -> Payments]
    BY DEF TypeOK
<1>2. [payment[p] EXCEPT !.status = to] \in Payments
    BY <1>1, StatusWrite
<1>3. [payment EXCEPT ![p].status = to] = [payment EXCEPT ![p] = [payment[p] EXCEPT !.status = to]]
    OBVIOUS
<1> QED
    BY <1>1, <1>2, <1>3 DEF StatusMoved

LEMMA MovedAmounts ==
  ASSUME TypeOK, NEW p \in Attempts, NEW c \in Int, NEW d \in Nat, payment[p].committed + c >= 0
  PROVE  AmountsMoved(p, c, d) \in [Attempts -> Payments]
<1>1. payment \in [Attempts -> Payments]
    BY DEF TypeOK
<1> DEFINE x == [payment[p] EXCEPT !.committed = payment[p].committed + c, !.refunded = payment[p].refunded + d]
<1>2. payment[p].committed + c \in Nat /\ payment[p].refunded + d \in Nat
    BY PaymentFields
<1>3. x \in Payments
    BY <1>1, <1>2 DEF Payments
<1>4. AmountsMoved(p, c, d) = [payment EXCEPT ![p] = x]
    BY <1>1 DEF AmountsMoved, Payments
<1> QED
    BY <1>1, <1>3, <1>4

\* What can be released, can.
LEMMA Released ==
  ASSUME TypeOK, NEW p \in Attempts, NEW a \in 1..MaxAmount, CanRelease(p, a)
  PROVE  AmountsMoved(p, -a, 0) \in [Attempts -> Payments]
<1>1. payment[p].committed \in Nat /\ payment[p].refunded \in Nat
    BY PaymentFields
<1>2. a \in Int /\ -a \in Int /\ payment[p].committed + (-a) >= 0
    BY <1>1, PaymentsAssumption DEF CanRelease
<1> QED
    BY <1>2, MovedAmounts

LEMMA RefundRow ==
  ASSUME TypeOK, NEW r \in Refunds, refund[r].status # "NONE"
  PROVE  /\ refund[r] \in RefundRows
         /\ refund[r].status \in RefundStatuses
         /\ refund[r].payment \in Attempts
         /\ refund[r].amount \in 1..MaxAmount
  BY DEF TypeOK, RefundRows, NoRow

LEMMA RefundWrite ==
  ASSUME TypeOK, NEW r \in Refunds, refund[r].status # "NONE", NEW v \in RefundStatuses
  PROVE  [refund EXCEPT ![r].status = v] \in [Refunds -> RefundRows \cup {NoRow}]
<1>1. refund[r] \in RefundRows
    BY RefundRow
<1>2. [refund[r] EXCEPT !.status = v] \in RefundRows
    BY <1>1 DEF RefundRows
<1>3. [refund EXCEPT ![r].status = v] = [refund EXCEPT ![r] = [refund[r] EXCEPT !.status = v]]
    OBVIOUS
<1> QED
    BY <1>2, <1>3 DEF TypeOK

LEMMA RefundCreate ==
  ASSUME TypeOK, NEW r \in Refunds, NEW v \in RefundStatuses, NEW p \in Attempts, NEW a \in 1..MaxAmount
  PROVE  [refund EXCEPT ![r] = [status |-> v, payment |-> p, amount |-> a]]
            \in [Refunds -> RefundRows \cup {NoRow}]
<1>1. [status |-> v, payment |-> p, amount |-> a] \in RefundRows
    BY DEF RefundRows
<1> QED
    BY <1>1 DEF TypeOK

LEMMA EventFields ==
  ASSUME TypeOK, NEW e \in Events
  PROVE  event[e] \in EventRows /\ event[e].status \in EventStatuses /\ event[e].attempts \in 0..MaxReconcile
  BY DEF TypeOK, EventRows

LEMMA EventStatusWrite ==
  ASSUME TypeOK, NEW e \in Events, NEW v \in EventStatuses
  PROVE  /\ [event EXCEPT ![e].status = v] \in [Events -> EventRows]
         /\ [event EXCEPT ![e].status = v][e].status = v
         /\ \A x \in Events : x # e => [event EXCEPT ![e].status = v][x] = event[x]
<1>1. event[e] \in EventRows
    BY EventFields
<1>2. [event[e] EXCEPT !.status = v] \in EventRows
    BY <1>1 DEF EventRows
<1>3. [event[e] EXCEPT !.status = v].status = v
    BY <1>1 DEF EventRows
<1>4. [event EXCEPT ![e].status = v] = [event EXCEPT ![e] = [event[e] EXCEPT !.status = v]]
    OBVIOUS
<1> QED
    BY <1>2, <1>3, <1>4 DEF TypeOK

LEMMA EventAttemptWrite ==
  ASSUME TypeOK, NEW e \in Events, NEW n \in 0..MaxReconcile
  PROVE  /\ [event EXCEPT ![e].attempts = n] \in [Events -> EventRows]
         /\ \A x \in Events : [event EXCEPT ![e].attempts = n][x].status = event[x].status
<1>1. event[e] \in EventRows
    BY EventFields
<1>2. [event[e] EXCEPT !.attempts = n] \in EventRows
    BY <1>1 DEF EventRows
<1>3. [event[e] EXCEPT !.attempts = n].status = event[e].status
    BY <1>1 DEF EventRows
<1>4. [event EXCEPT ![e].attempts = n] = [event EXCEPT ![e] = [event[e] EXCEPT !.attempts = n]]
    OBVIOUS
<1> QED
    BY <1>2, <1>3, <1>4 DEF TypeOK

-----------------------------------------------------------------------------
(* Sessions *)

LEMMA Applying ==
  ASSUME TypeOK, NEW s \in Sessions, session[s].pc # "idle"
  PROVE  session[s].event \in Events
  BY DEF TypeOK, Doing, Idle

LEMMA Deciding ==
  ASSUME TypeOK, NEW s \in Sessions, session[s].pc = "decide"
  PROVE  /\ session[s].event \in Events
         /\ session[s].payment \in PaymentStatuses
         /\ session[s].refund \in RefundStatuses \cup {"NONE"}
  BY DEF TypeOK, Doing, Idle

LEMMA FactFields ==
  ASSUME NEW f \in Facts
  PROVE  /\ f.payment \in Attempts
         /\ f.refund \in Refunds \cup {NoRefund}
         /\ f.amount \in 0..MaxAmount
         /\ f.type \in RefundTypes => f.refund \in Refunds
         /\ f.type \notin RefundTypes => f.refund = NoRefund
  BY PaymentsAssumption DEF Facts, RefundTypes

LEMMA FactPayment ==
  ASSUME TypeOK, NEW f \in Facts
  PROVE  PaymentOf(f) \in Attempts
  BY FactFields, RefundRow DEF PaymentOf, HasRefund

-----------------------------------------------------------------------------
(* The types, in the three parts that actions move apart *)

OrderTypes ==
    /\ order \in {"AWAITING_PAYMENT", "PAID", "CANCELLED"}
    /\ payment \in [Attempts -> Payments]
    /\ refund \in [Refunds -> RefundRows \cup {NoRow}]
    /\ entries \subseteq Entries

EventTypes ==
    /\ fact \in [Events -> Facts \cup {NoRow}]
    /\ event \in [Events -> EventRows]
    /\ session \in [Sessions -> Doing]
    /\ EventsAreKnown

LEMMA TypeParts == TypeInv <=> OrderTypes /\ EventTypes /\ Actions!LifecycleTypeOK
  BY DEF TypeInv, TypeOK, OrderTypes, EventTypes

LEMMA SameOrder ==
  ASSUME OrderTypes, UNCHANGED orderVars
  PROVE  OrderTypes'
  BY DEF OrderTypes, orderVars

LEMMA SameEvents ==
  ASSUME EventTypes, UNCHANGED <<eventVars, session>>
  PROVE  EventTypes'
  BY DEF EventTypes, EventsAreKnown, eventVars

LEMMA SameActions ==
  ASSUME Actions!LifecycleTypeOK, UNCHANGED actionVars
  PROVE  Actions!LifecycleTypeOK'
  BY DEF Actions!LifecycleTypeOK, actionVars

LEMMA ActionTypes ==
  ASSUME Actions!LifecycleTypeOK, NEW x \in Attempts \cup OwnRefunds,
         \/ Actions!OpenAction(x) \/ Actions!BeginCall(x)
         \/ Actions!Succeeds(x) \/ Actions!Fails(x) \/ Actions!IsLost(x)
  PROVE  Actions!LifecycleTypeOK'
  BY DEF Actions!LifecycleTypeOK, Actions!ActionStatuses, Actions!OpenAction, Actions!BeginCall,
         Actions!Succeeds, Actions!Fails, Actions!IsLost

\* A session takes an event that was stored, in any of the ways it may do it.
LEMMA SessionApplies ==
  ASSUME TypeInv, NEW s \in Sessions, NEW e \in Events, Applies(s, e)
  PROVE  /\ session' \in [Sessions -> Doing]
         /\ session'[s].event = e
         /\ \A x \in Sessions : x # s => session'[x] = session[x]
<1>1. [pc |-> "apply", event |-> e] \in Doing
    BY DEF Doing
<1> QED
    BY <1>1 DEF Applies, TypeInv, TypeOK

\* A session that ends leaves the events known.
LEMMA SessionEnds ==
  ASSUME TypeInv, NEW s \in Sessions, session' = [session EXCEPT ![s] = Idle], UNCHANGED eventVars
  PROVE  EventTypes'
<1>1. session' \in [Sessions -> Doing]
    BY DEF TypeInv, TypeOK, Doing
<1>2. \A x \in Sessions : session'[x].pc # "idle" => session'[x] = session[x]
    BY DEF TypeInv, TypeOK, Idle
<1> QED
    BY <1>1, <1>2 DEF TypeInv, TypeOK, EventTypes, EventsAreKnown, eventVars

LEMMA EventFinished ==
  ASSUME TypeInv, NEW s \in Sessions, session[s].pc = "decide", NEW outcome \in Final, Finishes(s, outcome)
  PROVE  EventTypes' /\ Actions!LifecycleTypeOK'
<1> DEFINE e == session[s].event
<1>1. e \in Events
    BY Deciding DEF TypeInv
<1>2. /\ event' \in [Events -> EventRows]
      /\ event'[e].status = outcome
      /\ \A x \in Events : x # e => event'[x] = event[x]
    BY <1>1, EventStatusWrite DEF Finishes, EventStatuses, TypeInv
<1>3. session' \in [Sessions -> Doing]
    BY DEF Finishes, TypeInv, TypeOK, Doing
<1>4. \A x \in Sessions : session'[x].pc # "idle" => session'[x] = session[x]
    BY DEF Finishes, TypeInv, TypeOK, Idle
<1>5. outcome # "NONE"
    BY DEF Final
<1>6. event[e].status # "NONE"
    BY DEF TypeInv, EventsAreKnown
<1>7. EventsAreKnown'
    BY <1>1, <1>2, <1>4, <1>5, <1>6, Applying DEF TypeInv, EventsAreKnown, Finishes
<1> QED
    BY <1>2, <1>3, <1>7, SameActions DEF EventTypes, TypeInv, TypeOK, Finishes

-----------------------------------------------------------------------------
(* Each kind of step keeps the types *)

LEMMA PeopleKeepTypes ==
  ASSUME TypeInv, PeopleStep
  PROVE  TypeInv'
<1>0. TypeOK /\ OrderTypes /\ EventTypes /\ Actions!LifecycleTypeOK
    BY TypeParts DEF TypeInv
<1>1. ASSUME NEW p \in Attempts, StartAttempt(p)
      PROVE  OrderTypes' /\ EventTypes' /\ Actions!LifecycleTypeOK'
  <2>1. payment[p] \in Payments /\ "REQUESTED" \in PaymentStatuses
      BY <1>0, PaymentFields DEF PaymentStatuses, Active
  <2>2. [payment[p] EXCEPT !.status = "REQUESTED"] \in Payments
      BY <2>1, StatusWrite
  <2>3. payment' \in [Attempts -> Payments]
      BY <1>0, <1>1, <2>2 DEF StartAttempt, OrderTypes
  <2>4. OrderTypes'
      BY <1>0, <1>1, <2>3 DEF StartAttempt, OrderTypes
  <2>5. EventTypes'
      BY <1>0, <1>1, SameEvents DEF StartAttempt
  <2> QED
      BY <1>0, <1>1, <2>4, <2>5, ActionTypes DEF StartAttempt
<1>2. CASE CancelOrder
  <2>1. OrderTypes'
      BY <1>0, <1>2 DEF CancelOrder, OrderTypes
  <2>2. EventTypes'
      BY <1>0, <1>2, SameEvents DEF CancelOrder
  <2> QED
      BY <1>0, <1>2, <2>1, <2>2, SameActions DEF CancelOrder, TypeInv, TypeOK, OrderTypes, EventTypes
<1>3. ASSUME NEW r \in OwnRefunds, NEW p \in Attempts, NEW a \in 1..MaxAmount, RequestRefund(r, p, a)
      PROVE  OrderTypes' /\ EventTypes' /\ Actions!LifecycleTypeOK'
  <2>0. a \in Int /\ a >= 0 /\ 0 \in Nat /\ payment[p].committed \in Nat
      BY <1>0, PaymentFields, PaymentsAssumption
  <2>1. payment' \in [Attempts -> Payments]
      BY <1>0, <1>3, <2>0, MovedAmounts DEF RequestRefund
  <2>2. r \in Refunds /\ "REQUESTED" \in RefundStatuses
      BY DEF Refunds, RefundStatuses, Reserving, PendingRefund
  <2>3. refund' \in [Refunds -> RefundRows \cup {NoRow}]
      BY <1>0, <1>3, <2>2, RefundCreate DEF RequestRefund
  <2>4. OrderTypes'
      BY <1>0, <1>3, <2>1, <2>3 DEF RequestRefund, OrderTypes
  <2>5. EventTypes'
      BY <1>0, <1>3, SameEvents DEF RequestRefund
  <2> QED
      BY <1>0, <1>3, <2>4, <2>5, ActionTypes DEF RequestRefund
<1> QED
    BY <1>1, <1>2, <1>3 DEF PeopleStep, TypeInv, TypeOK, OrderTypes, EventTypes

LEMMA PaymentsKnown ==
  /\ PaymentStatuses = {"NONE", "REQUESTED", "OPENING", "UNKNOWN_OUTCOME", "OPEN",
                        "SUCCEEDED", "DUPLICATE_CAPTURE", "CAPTURE_MISMATCH", "FAILED", "EXPIRED"}
  /\ RefundStatuses = {"REQUESTED", "SENDING", "UNKNOWN_OUTCOME", "SUCCEEDED", "FAILED"}
  BY DEF PaymentStatuses, Active, Captured, Closed, RefundStatuses, Reserving, PendingRefund

\* The observers move a status, or nothing.
LEMMA MovesPaymentTypes ==
  ASSUME OrderTypes, EventTypes, TypeOK, NEW p \in Attempts, NEW from, NEW to \in PaymentStatuses,
         MovesPayment(p, from, to)
  PROVE  OrderTypes' /\ EventTypes'
<1>1. payment' \in [Attempts -> Payments]
    BY MovedStatuses DEF MovesPayment
<1>2. EventTypes'
    BY SameEvents DEF MovesPayment
<1> QED
    BY <1>1, <1>2 DEF MovesPayment, OrderTypes

LEMMA MovesRefundTypes ==
  ASSUME TypeOK, NEW r \in Refunds, NEW from, "NONE" \notin from, NEW to \in RefundStatuses,
         MovesRefund(r, from, to)
  PROVE  refund' \in [Refunds -> RefundRows \cup {NoRow}]
<1>1. CASE refund[r].status \in from
  <2>1. refund[r].status # "NONE"
      BY <1>1
  <2> QED
      BY <1>1, <2>1, RefundWrite DEF MovesRefund
<1>2. CASE refund[r].status \notin from
    BY <1>2 DEF MovesRefund, TypeOK
<1> QED
    BY <1>1, <1>2

LEMMA ActionsKeepTypes ==
  ASSUME TypeInv, ActionStep
  PROVE  TypeInv'
<1>0. TypeOK /\ OrderTypes /\ EventTypes /\ Actions!LifecycleTypeOK
    BY TypeParts DEF TypeInv
<1>1. ASSUME NEW p \in Attempts, OpenBegins(p) \/ OpenSucceeds(p) \/ OpenFails(p) \/ OpenIsLost(p)
      PROVE  OrderTypes' /\ EventTypes' /\ Actions!LifecycleTypeOK'
  <2>1. Actions!LifecycleTypeOK'
      BY <1>0, <1>1, ActionTypes DEF OpenBegins, OpenSucceeds, OpenFails, OpenIsLost
  <2>2. PICK to \in PaymentStatuses : \E from : MovesPayment(p, from, to)
      BY <1>1, PaymentsKnown DEF OpenBegins, OpenSucceeds, OpenFails, OpenIsLost
  <2> QED
      BY <1>0, <2>1, <2>2, MovesPaymentTypes
<1>2. ASSUME NEW r \in OwnRefunds, RefundBegins(r) \/ RefundAccepted(r) \/ RefundFails(r) \/ RefundIsLost(r)
      PROVE  OrderTypes' /\ EventTypes' /\ Actions!LifecycleTypeOK'
  <2>1. Actions!LifecycleTypeOK'
      BY <1>0, <1>2, ActionTypes DEF RefundBegins, RefundAccepted, RefundFails, RefundIsLost
  <2>2. r \in Refunds
      BY DEF Refunds
  <2>3. EventTypes'
      BY <1>0, <1>2, SameEvents DEF RefundBegins, RefundAccepted, RefundFails, RefundIsLost
  <2>4. refund' \in [Refunds -> RefundRows \cup {NoRow}]
    <3>1. CASE RefundBegins(r)
        BY <1>0, <2>2, <3>1, MovesRefundTypes, PaymentsKnown DEF RefundBegins
    <3>2. CASE RefundAccepted(r)
        BY <1>0, <2>2, <3>2, MovesRefundTypes, PaymentsKnown DEF RefundAccepted
    <3>3. CASE RefundFails(r)
        BY <1>0, <2>2, <3>3, MovesRefundTypes, PaymentsKnown DEF RefundFails, PendingRefund
    <3>4. CASE RefundIsLost(r)
        BY <1>0, <2>2, <3>4, MovesRefundTypes, PaymentsKnown DEF RefundIsLost
    <3> QED
        BY <1>2, <3>1, <3>2, <3>3, <3>4
  <2>5. payment' \in [Attempts -> Payments]
    <3>1. CASE payment' = payment
        BY <1>0, <3>1 DEF OrderTypes
    <3>2. CASE payment' # payment
      <4>1. RefundFails(r)
          BY <1>2, <3>2 DEF RefundBegins, RefundAccepted, RefundIsLost
      <4>2. /\ refund[r].status \in PendingRefund
            /\ CanRelease(refund[r].payment, refund[r].amount)
            /\ payment' = AmountsMoved(refund[r].payment, -refund[r].amount, 0)
          BY <3>2, <4>1 DEF RefundFails
      <4>3. refund[r].payment \in Attempts /\ refund[r].amount \in 1..MaxAmount
          BY <1>0, <2>2, <4>2, RefundRow DEF PendingRefund
      <4> QED
          BY <1>0, <4>2, <4>3, Released
    <3> QED
        BY <3>1, <3>2
  <2> QED
      BY <1>0, <1>2, <2>1, <2>3, <2>4, <2>5
         DEF OrderTypes, RefundBegins, RefundAccepted, RefundFails, RefundIsLost
<1> QED
    BY <1>1, <1>2 DEF ActionStep, TypeInv, TypeOK, OrderTypes, EventTypes

LEMMA ArrivalKeepsTypes ==
  ASSUME TypeInv, Arrival
  PROVE  TypeInv'
<1>0. TypeOK /\ OrderTypes /\ EventTypes /\ Actions!LifecycleTypeOK
    BY TypeParts DEF TypeInv
<1> SUFFICES OrderTypes' /\ EventTypes' /\ Actions!LifecycleTypeOK'
    BY DEF TypeInv, TypeOK, OrderTypes, EventTypes
<1>1. PICK s \in Sessions, e \in Events :
         Applies(s, e) /\
         \/ \E f \in Facts : Receive(s, e, f)
         \/ Redeliver(s, e) \/ RetryEvent(s, e) \/ ClaimAttempt(s, e)
    BY DEF Arrival, Sessions, Receive, Redeliver, RetryEvent, ClaimAttempt
<1>2. UNCHANGED <<orderVars, actionVars>>
    BY <1>1 DEF Receive, Redeliver, RetryEvent, ClaimAttempt
<1>3. /\ fact' \in [Events -> Facts \cup {NoRow}]
      /\ event' \in [Events -> EventRows]
      /\ event'[e].status # "NONE"
      /\ \A x \in Events : event'[x].status # "NONE" => fact'[x] \in Facts
      /\ \A x \in Events : event[x].status # "NONE" => event'[x].status # "NONE"
  <2>1. CASE \E f \in Facts : Receive(s, e, f)
    <3>1. PICK f \in Facts : Receive(s, e, f)
        BY <2>1
    <3>2. /\ event' \in [Events -> EventRows]
          /\ event'[e].status = "RECEIVED"
          /\ \A x \in Events : x # e => event'[x] = event[x]
        BY <1>0, <3>1, EventStatusWrite DEF Receive, EventStatuses
    <3>3. /\ fact' \in [Events -> Facts \cup {NoRow}]
          /\ fact'[e] = f
          /\ \A x \in Events : x # e => fact'[x] = fact[x]
        BY <1>0, <3>1 DEF Receive, EventTypes
    <3> QED
        BY <1>0, <3>2, <3>3 DEF EventTypes, EventsAreKnown
  <2>2. CASE Redeliver(s, e)
      BY <1>0, <2>2 DEF Redeliver, eventVars, EventTypes, EventsAreKnown
  <2>3. CASE RetryEvent(s, e) \/ ClaimAttempt(s, e)
    <3>1. PICK n \in 0..MaxReconcile : event' = [event EXCEPT ![e].attempts = n]
        BY <1>0, <2>3, EventFields, PaymentsAssumption DEF RetryEvent, ClaimAttempt
    <3>2. /\ event' \in [Events -> EventRows]
          /\ \A x \in Events : event'[x].status = event[x].status
        BY <1>0, <3>1, EventAttemptWrite
    <3>3. fact' = fact /\ event[e].status = "RECEIVED"
        BY <2>3 DEF RetryEvent, ClaimAttempt
    <3> QED
        BY <1>0, <3>2, <3>3 DEF EventTypes, EventsAreKnown
  <2> QED
      BY <1>1, <2>1, <2>2, <2>3
<1>4. /\ session' \in [Sessions -> Doing]
      /\ session'[s].event = e
      /\ \A x \in Sessions : x # s => session'[x] = session[x]
    BY <1>1, SessionApplies
<1>5. \A x \in Sessions : x # s /\ session[x].pc # "idle" =>
         session[x].event \in Events /\ event[session[x].event].status # "NONE"
    BY <1>0, Applying DEF EventTypes, EventsAreKnown
<1>6. EventsAreKnown'
    BY <1>3, <1>4, <1>5 DEF EventsAreKnown
<1>7. EventTypes'
    BY <1>3, <1>4, <1>6 DEF EventTypes
<1> QED
    BY <1>0, <1>2, <1>7, SameOrder, SameActions

\* What the settling and recording steps need of the event they apply.
LEMMA DecidedFact ==
  ASSUME TypeInv, NEW s \in Sessions, session[s].pc = "decide"
  PROVE  /\ session[s].event \in Events
         /\ fact[session[s].event] \in Facts
  BY Deciding DEF TypeInv, EventsAreKnown

LEMMA RefundToDecide ==
  ASSUME TypeInv, NEW s \in Sessions, Decides(s, RefundTypes), StatusToDecide(s) \in PendingRefund
  PROVE  /\ fact[session[s].event].refund \in Refunds
         /\ refund[fact[session[s].event].refund].status \in PendingRefund
         /\ refund[fact[session[s].event].refund].payment \in Attempts
         /\ refund[fact[session[s].event].refund].amount \in 1..MaxAmount
         /\ PaymentOf(fact[session[s].event]) = refund[fact[session[s].event].refund].payment
<1> DEFINE r == fact[session[s].event].refund
<1>1. r \in Refunds
    BY DecidedFact, FactFields DEF Decides
<1>2. refund[r].status \in PendingRefund
    BY DEF StatusToDecide
<1>3. refund[r].status # "NONE"
    BY <1>2 DEF PendingRefund
<1> QED
    BY <1>1, <1>2, <1>3, RefundRow DEF TypeInv, PaymentOf, HasRefund

LEMMA RefundEntryTyped ==
  ASSUME TypeOK, NEW e \in Events, NEW p \in Attempts, NEW r \in Refunds, NEW a \in 0..MaxAmount
  PROVE  RefundEntry(e, p, r, a) \subseteq Entries
<1>1. CASE \E x \in entries : x.kind = "CAPTURE" /\ x.payment = p
  <2>1. ClassOf(p) \in Captured
      BY <1>1 DEF ClassOf, TypeOK, Entries
  <2>2. Entry("REFUND", ClassOf(p), e, p, r, a) \in Entries
      BY <2>1 DEF Entry, Entries
  <2> QED
      BY <2>2 DEF RefundEntry
<1>2. CASE ~ \E x \in entries : x.kind = "CAPTURE" /\ x.payment = p
    BY <1>2 DEF RefundEntry
<1> QED
    BY <1>1, <1>2

LEMMA CaptureWrite ==
  ASSUME TypeOK, NEW p \in Attempts, NEW v \in PaymentStatuses, NEW a \in Nat
  PROVE  /\ CaptureRecorded(p, v, a) \in [Attempts -> Payments]
         /\ CaptureRecorded(p, v, a)[p].status = v
         /\ CaptureRecorded(p, v, a)[p].captured = a
         /\ CaptureRecorded(p, v, a)[p].committed = payment[p].committed
         /\ CaptureRecorded(p, v, a)[p].refunded = payment[p].refunded
         /\ \A q \in Attempts : q # p => CaptureRecorded(p, v, a)[q] = payment[q]
<1> DEFINE x == [payment[p] EXCEPT !.status = v, !.captured = a]
<1>1. payment \in [Attempts -> Payments] /\ payment[p] \in Payments
    BY DEF TypeOK
<1>2. x \in Payments
    BY <1>1 DEF Payments
<1>3. x.status = v /\ x.captured = a /\ x.committed = payment[p].committed /\ x.refunded = payment[p].refunded
    BY <1>1 DEF Payments
<1>4. CaptureRecorded(p, v, a) = [payment EXCEPT ![p] = x]
    BY <1>1 DEF CaptureRecorded, Payments
<1> HIDE DEF x
<1> QED
    BY <1>1, <1>2, <1>3, <1>4

LEMMA CapturedStatus ==
  ASSUME NEW p, NEW a
  PROVE  CaptureStatus(p, a) \in Captured
  BY DEF CaptureStatus, Captured

LEMMA PaymentEventsKeepTypes ==
  ASSUME TypeInv, NEW s \in Sessions, PaymentEventApplied(s)
  PROVE  TypeInv'
<1> DEFINE e == session[s].event
           f == fact[e]
<1>0. TypeOK /\ OrderTypes /\ EventTypes /\ Actions!LifecycleTypeOK /\ session[s].pc = "decide"
    BY TypeParts DEF TypeInv, PaymentEventApplied, Decides, AttemptFailed, ClosePayment, CaptureKept, RecordCapture
<1>1. e \in Events /\ f \in Facts /\ f.payment \in Attempts /\ f.amount \in 0..MaxAmount
    BY <1>0, DecidedFact, FactFields
<1>2. PICK outcome \in Final : Finishes(s, outcome)
    BY DEF PaymentEventApplied, AttemptFailed, ClosePayment, CaptureKept, RecordCapture, Final
<1>3. EventTypes' /\ Actions!LifecycleTypeOK'
    BY <1>0, <1>2, EventFinished
<1> SUFFICES OrderTypes'
    BY <1>3 DEF TypeInv, TypeOK, OrderTypes, EventTypes
<1>4. CASE AttemptFailed(s) \/ CaptureKept(s)
    BY <1>0, <1>4, SameOrder DEF AttemptFailed, CaptureKept
<1>5. CASE ClosePayment(s)
  <2>1. CASE payment' = payment
      BY <1>0, <1>5, <2>1 DEF ClosePayment, OrderTypes
  <2>2. CASE payment' # payment
    <3>1. PICK to \in PaymentStatuses : payment' = StatusMoved(f.payment, Closable, to)
        BY <1>5, <2>2, PaymentsKnown DEF ClosePayment
    <3>2. payment' \in [Attempts -> Payments]
        BY <1>0, <1>1, <3>1, MovedStatuses
    <3> QED
        BY <1>0, <1>5, <3>2 DEF ClosePayment, OrderTypes
  <2> QED
      BY <2>1, <2>2
<1>6. CASE RecordCapture(s)
  <2> DEFINE status == CaptureStatus(f.payment, f.amount)
  <2>1. status \in Captured
      BY CapturedStatus
  <2>2. status \in PaymentStatuses /\ f.amount \in Nat
      BY <1>1, <2>1, PaymentsAssumption DEF PaymentStatuses
  <2> HIDE DEF status
  <2>3. /\ payment' = CaptureRecorded(f.payment, status, f.amount)
        /\ entries' = entries \cup {Entry("CAPTURE", status, e, f.payment, NoRefund, f.amount)}
        /\ order' \in {order, "PAID"}
        /\ UNCHANGED refund
      BY <1>6 DEF RecordCapture, status
  <2>4. payment' \in [Attempts -> Payments]
      BY <1>0, <1>1, <2>2, <2>3, CaptureWrite
  <2>5. Entry("CAPTURE", status, e, f.payment, NoRefund, f.amount) \in Entries
      BY <1>1, <2>1 DEF Entry, Entries
  <2> QED
      BY <1>0, <2>3, <2>4, <2>5 DEF OrderTypes
<1> QED
    BY <1>4, <1>5, <1>6 DEF PaymentEventApplied

LEMMA RefundEventsKeepTypes ==
  ASSUME TypeInv, NEW s \in Sessions, RefundEventApplied(s), ~RefundWasRecorded(s)
  PROVE  TypeInv'
<1> DEFINE e == session[s].event
           f == fact[e]
           r == f.refund
<1>0. /\ TypeOK /\ OrderTypes /\ EventTypes /\ Actions!LifecycleTypeOK
      /\ Decides(s, RefundTypes) /\ session[s].pc = "decide"
    BY TypeParts DEF TypeInv, RefundEventApplied, Decides, RefundTypes,
       SettleRefund, RecordProviderRefund, RefundKept, ReleaseRefund, RefundFailureKept
<1>1. e \in Events /\ f \in Facts /\ f.payment \in Attempts /\ f.amount \in 0..MaxAmount /\ r \in Refunds
    BY <1>0, DecidedFact, FactFields DEF Decides
<1>2. PICK outcome \in Final : Finishes(s, outcome)
    BY DEF RefundEventApplied, SettleRefund, RecordProviderRefund, RefundKept, ReleaseRefund,
       RefundFailureKept, Final
<1>3. EventTypes' /\ Actions!LifecycleTypeOK'
    BY <1>0, <1>2, EventFinished
<1> SUFFICES OrderTypes'
    BY <1>3 DEF TypeInv, TypeOK, OrderTypes, EventTypes
<1>4. CASE RefundKept(s) \/ RefundFailureKept(s)
    BY <1>0, <1>4, SameOrder DEF RefundKept, RefundFailureKept
<1>5. CASE SettleRefund(s)
  <2>1. /\ StatusToDecide(s) \in PendingRefund
        /\ f.amount = refund[r].amount
        /\ refund' = [refund EXCEPT ![r].status = "SUCCEEDED"]
        /\ payment' = AmountsMoved(PaymentOf(f), 0, f.amount)
        /\ entries' = entries \cup RefundEntry(e, PaymentOf(f), r, f.amount)
        /\ UNCHANGED order
      BY <1>5 DEF SettleRefund
  <2>2. refund[r].status # "NONE" /\ PaymentOf(f) \in Attempts
      BY <1>0, <2>1, RefundToDecide DEF PendingRefund
  <2>3. refund' \in [Refunds -> RefundRows \cup {NoRow}]
      BY <1>0, <1>1, <2>1, <2>2, RefundWrite, PaymentsKnown
  <2>4. f.amount \in Nat /\ payment[PaymentOf(f)].committed + 0 >= 0
      BY <1>0, <1>1, <2>2, PaymentFields, PaymentsAssumption
  <2>5. payment' \in [Attempts -> Payments]
    <3>1. TypeOK /\ 0 \in Int
        BY <1>0
    <3> QED
        BY <2>1, <2>2, <2>4, <3>1, MovedAmounts
  <2>6. RefundEntry(e, PaymentOf(f), r, f.amount) \subseteq Entries
      BY <1>0, <1>1, <2>2, RefundEntryTyped
  <2> QED
      BY <1>0, <2>1, <2>3, <2>5, <2>6 DEF OrderTypes
<1>6. CASE RecordProviderRefund(s)
  <2>1. /\ f.amount # 0
        /\ refund' = [refund EXCEPT ![r] = [status |-> "SUCCEEDED", payment |-> f.payment, amount |-> f.amount]]
        /\ payment' = AmountsMoved(f.payment, f.amount, f.amount)
        /\ entries' = entries \cup RefundEntry(e, f.payment, r, f.amount)
        /\ UNCHANGED order
      BY <1>6 DEF RecordProviderRefund
  <2>2. f.amount \in 1..MaxAmount /\ f.amount \in Nat
      BY <1>1, <2>1, PaymentsAssumption
  <2>3. refund' \in [Refunds -> RefundRows \cup {NoRow}]
      BY <1>0, <1>1, <2>1, <2>2, RefundCreate, PaymentsKnown
  <2>4. f.amount \in Int /\ payment[f.payment].committed + f.amount >= 0
      BY <1>0, <1>1, <2>2, PaymentFields
  <2>5. payment' \in [Attempts -> Payments]
      BY <1>0, <1>1, <2>1, <2>2, <2>4, MovedAmounts
  <2>6. RefundEntry(e, f.payment, r, f.amount) \subseteq Entries
      BY <1>0, <1>1, RefundEntryTyped
  <2> QED
      BY <1>0, <2>1, <2>3, <2>5, <2>6 DEF OrderTypes
<1>7. CASE ReleaseRefund(s)
  <2>1. /\ StatusToDecide(s) \in PendingRefund
        /\ CanRelease(PaymentOf(f), refund[r].amount)
        /\ refund' = [refund EXCEPT ![r].status = "FAILED"]
        /\ payment' = AmountsMoved(PaymentOf(f), -refund[r].amount, 0)
        /\ UNCHANGED <<order, entries>>
      BY <1>7 DEF ReleaseRefund
  <2>2. refund[r].status # "NONE" /\ PaymentOf(f) \in Attempts /\ refund[r].amount \in 1..MaxAmount
      BY <1>0, <2>1, RefundToDecide DEF PendingRefund
  <2>3. refund' \in [Refunds -> RefundRows \cup {NoRow}]
      BY <1>0, <1>1, <2>1, <2>2, RefundWrite, PaymentsKnown
  <2>4. payment' \in [Attempts -> Payments]
      BY <1>0, <2>1, <2>2, Released
  <2> QED
      BY <1>0, <2>1, <2>3, <2>4 DEF OrderTypes
<1> QED
    BY <1>4, <1>5, <1>6, <1>7 DEF RefundEventApplied

\* The steps of a session that only move the session.
SessionStep(s) ==
    Crash(s) \/ AlreadyApplied(s) \/ Claims(s) \/ ApplyReads(s) \/ RefundWasRecorded(s)

LEMMA SessionMoves ==
  ASSUME TypeInv, NEW s \in Sessions, NEW x \in Doing, session[s].pc # "idle", x.event = session[s].event,
         session' = [session EXCEPT ![s] = x], UNCHANGED eventVars
  PROVE  EventTypes'
<1>1. session' \in [Sessions -> Doing]
    BY DEF TypeInv, TypeOK
<1>2. \A t \in Sessions : session'[t].pc # "idle" =>
         session[t].pc # "idle" /\ session'[t].event = session[t].event
    BY DEF TypeInv, TypeOK
<1> QED
    BY <1>1, <1>2 DEF TypeInv, TypeOK, EventTypes, EventsAreKnown, eventVars

LEMMA SessionsKeepTypes ==
  ASSUME Inv, NEW s \in Sessions, SessionStep(s)
  PROVE  TypeInv'
<1>0. OrderTypes /\ EventTypes /\ Actions!LifecycleTypeOK /\ TypeOK /\ TypeInv
    BY TypeParts DEF Inv, TypeInv
<1>1. OrderTypes' /\ Actions!LifecycleTypeOK' /\ UNCHANGED eventVars
    BY <1>0, SameOrder, SameActions
       DEF SessionStep, Crash, AlreadyApplied, Claims, ApplyReads, RefundWasRecorded
<1> SUFFICES EventTypes'
    BY <1>1 DEF TypeInv, TypeOK, OrderTypes, EventTypes
<1>2. CASE Crash(s) \/ AlreadyApplied(s) \/ RefundWasRecorded(s)
    BY <1>0, <1>1, <1>2, SessionEnds DEF Crash, AlreadyApplied, RefundWasRecorded
<1>3. CASE Claims(s)
  <2> DEFINE x == [pc |-> "wait", event |-> session[s].event, found |-> HasRefund(fact[session[s].event])]
  <2>1. session[s].pc # "idle" /\ session' = [session EXCEPT ![s] = x]
      BY <1>3 DEF Claims
  <2>2. x \in Doing /\ x.event = session[s].event
      BY <1>0, <2>1, Applying DEF Doing, HasRefund
  <2> HIDE DEF x
  <2> QED
      BY <1>0, <1>1, <2>1, <2>2, SessionMoves
<1>4. CASE ApplyReads(s)
  <2> DEFINE e == session[s].event
             f == fact[e]
             found == session[s].found
             p == IF found THEN refund[f.refund].payment ELSE f.payment
             r == IF found THEN refund[f.refund].status ELSE "NONE"
             x == [pc |-> "decide", event |-> e, payment |-> payment[p].status, refund |-> r]
  <2>1. session[s].pc = "wait" /\ session' = [session EXCEPT ![s] = x]
      BY <1>4 DEF ApplyReads
  <2>2. e \in Events /\ f \in Facts /\ f.payment \in Attempts
      BY <1>0, <2>1, Applying, FactFields DEF TypeInv, EventsAreKnown
  <2>3. found => f.refund \in Refunds /\ refund[f.refund].status # "NONE"
      BY <2>1 DEF Inv, FoundStays, HasRefund
  <2>4. found => refund[f.refund].payment \in Attempts /\ refund[f.refund].status \in RefundStatuses
      BY <1>0, <2>3, RefundRow
  <2>5. p \in Attempts /\ r \in RefundStatuses \cup {"NONE"}
      BY <2>2, <2>4
  <2>6. payment[p].status \in PaymentStatuses
      BY <1>0, <2>5, PaymentFields
  <2> HIDE DEF p, r
  <2>7. x \in Doing /\ x.event = e
      BY <2>2, <2>5, <2>6 DEF Doing
  <2> HIDE DEF x
  <2> QED
      BY <1>0, <1>1, <2>1, <2>7, SessionMoves
<1> QED
    BY <1>2, <1>3, <1>4 DEF SessionStep

-----------------------------------------------------------------------------
(* What was found stays: refunds are never deleted *)

LEMMA RefundWriteRow ==
  ASSUME TypeOK, NEW r \in Refunds, refund[r].status # "NONE", NEW v
  PROVE  /\ [refund EXCEPT ![r].status = v][r].status = v
         /\ [refund EXCEPT ![r].status = v][r].payment = refund[r].payment
         /\ [refund EXCEPT ![r].status = v][r].amount = refund[r].amount
         /\ \A q \in Refunds : q # r => [refund EXCEPT ![r].status = v][q] = refund[q]
<1> DEFINE x == [refund[r] EXCEPT !.status = v]
<1>1. x.status = v /\ x.payment = refund[r].payment /\ x.amount = refund[r].amount
    BY RefundRow DEF RefundRows
<1>2. [refund EXCEPT ![r].status = v] = [refund EXCEPT ![r] = x]
    OBVIOUS
<1> HIDE DEF x
<1> QED
    BY <1>1, <1>2 DEF TypeOK

\* How a step changes the refunds: not at all, the status of one that is pending, or
\* a new one.
RefundChange ==
    \/ UNCHANGED refund
    \/ \E r \in Refunds, v \in RefundStatuses :
         refund[r].status \in PendingRefund /\ refund' = [refund EXCEPT ![r].status = v]
    \/ \E r \in Refunds, v \in RefundStatuses, p \in Attempts, a \in 1..MaxAmount :
         /\ refund[r].status = "NONE"
         /\ refund' = [refund EXCEPT ![r] = [status |-> v, payment |-> p, amount |-> a]]

LEMMA MovesRefundChange ==
  ASSUME NEW r \in Refunds, NEW from \in SUBSET PendingRefund, NEW to \in RefundStatuses,
         MovesRefund(r, from, to)
  PROVE  RefundChange
  BY DEF MovesRefund, RefundChange

LEMMA ActionsChangeRefunds ==
  ASSUME ActionStep
  PROVE  RefundChange
<1>1. ASSUME NEW p \in Attempts, OpenBegins(p) \/ OpenSucceeds(p) \/ OpenFails(p) \/ OpenIsLost(p)
      PROVE  UNCHANGED refund
    BY <1>1 DEF OpenBegins, OpenSucceeds, OpenFails, OpenIsLost, MovesPayment
<1>2. ASSUME NEW r \in OwnRefunds, RefundBegins(r) \/ RefundAccepted(r) \/ RefundFails(r) \/ RefundIsLost(r)
      PROVE  RefundChange
  <2>1. r \in Refunds
      BY DEF Refunds
  <2>2. \E from \in SUBSET PendingRefund, to \in RefundStatuses : MovesRefund(r, from, to)
      BY <1>2, PaymentsKnown DEF RefundBegins, RefundAccepted, RefundFails, RefundIsLost, PendingRefund
  <2> QED
      BY <2>1, <2>2, MovesRefundChange
<1> QED
    BY <1>1, <1>2 DEF ActionStep, RefundChange

LEMMA EventsChangeRefunds ==
  ASSUME TypeInv, NEW s \in Sessions, PaymentEventApplied(s) \/ RefundEventApplied(s)
  PROVE  RefundChange
<1> DEFINE f == fact[session[s].event]
<1>0. CASE RefundKept(s) \/ RefundFailureKept(s) \/ RefundWasRecorded(s)
    BY <1>0 DEF RefundKept, RefundFailureKept, RefundWasRecorded, orderVars, RefundChange
<1>1. CASE PaymentEventApplied(s)
  <2>1. AttemptFailed(s) \/ CaptureKept(s) => UNCHANGED refund
      BY DEF AttemptFailed, CaptureKept, orderVars
  <2>2. ClosePayment(s) => UNCHANGED refund
      BY DEF ClosePayment
  <2>3. RecordCapture(s) => UNCHANGED refund
      BY DEF RecordCapture
  <2> QED
      BY <1>1, <2>1, <2>2, <2>3 DEF PaymentEventApplied, RefundChange
<1>2. CASE SettleRefund(s) \/ ReleaseRefund(s)
  <2>1. /\ Decides(s, RefundTypes) /\ StatusToDecide(s) \in PendingRefund
        /\ \/ refund' = [refund EXCEPT ![f.refund].status = "SUCCEEDED"]
           \/ refund' = [refund EXCEPT ![f.refund].status = "FAILED"]
      BY <1>2 DEF SettleRefund, ReleaseRefund, Decides, RefundTypes
  <2>2. f.refund \in Refunds /\ refund[f.refund].status \in PendingRefund
      BY <2>1, RefundToDecide
  <2>3. "SUCCEEDED" \in RefundStatuses /\ "FAILED" \in RefundStatuses
      BY PaymentsKnown
  <2> HIDE DEF f
  <2> QED
      BY <2>1, <2>2, <2>3 DEF RefundChange
<1>3. CASE RecordProviderRefund(s)
  <2>1. f \in Facts /\ f.type \in RefundTypes
      BY <1>3, DecidedFact DEF RecordProviderRefund, Decides, RefundTypes
  <2>2. f.payment \in Attempts /\ f.refund \in Refunds /\ f.amount \in 0..MaxAmount
      BY <2>1, FactFields
  <2>3. /\ f.amount # 0 /\ refund[f.refund].status = "NONE"
        /\ refund' = [refund EXCEPT ![f.refund] = [status |-> "SUCCEEDED", payment |-> f.payment, amount |-> f.amount]]
      BY <1>3, <2>2 DEF RecordProviderRefund, NewReference, HasRefund
  <2>4. f.amount \in 1..MaxAmount /\ "SUCCEEDED" \in RefundStatuses
      BY <2>2, <2>3, PaymentsKnown, PaymentsAssumption
  <2> HIDE DEF f
  <2> QED
      BY <2>2, <2>3, <2>4 DEF RefundChange
<1> QED
    BY <1>0, <1>1, <1>2, <1>3 DEF RefundEventApplied

\* The kinds of step there are.
LEMMA Steps ==
  ASSUME Next
  PROVE  \/ PeopleStep \/ ActionStep \/ Arrival
         \/ \E s \in Sessions : PaymentEventApplied(s) \/ RefundEventApplied(s) \/ SessionStep(s)
  BY DEF Next, Apply, SessionStep

LEMMA StepsChangeRefunds ==
  ASSUME TypeInv, [Next]_vars
  PROVE  RefundChange
<1>1. ASSUME PeopleStep PROVE RefundChange
  <2>1. ASSUME NEW r \in OwnRefunds, NEW p \in Attempts, NEW a \in 1..MaxAmount, RequestRefund(r, p, a)
        PROVE  RefundChange
      BY <2>1, PaymentsKnown DEF RequestRefund, RefundChange, Refunds
  <2> QED
      BY <1>1, <2>1 DEF PeopleStep, StartAttempt, CancelOrder, RefundChange
<1>2. ASSUME Arrival PROVE UNCHANGED refund
    BY <1>2 DEF Arrival, Receive, Redeliver, RetryEvent, ClaimAttempt, orderVars
<1>3. ASSUME NEW s \in Sessions, SessionStep(s) PROVE UNCHANGED refund
    BY <1>3 DEF SessionStep, Crash, AlreadyApplied, Claims, ApplyReads, RefundWasRecorded, orderVars
<1>4. CASE UNCHANGED vars
    BY <1>4 DEF vars, RefundChange
<1>5. CASE Next
    BY <1>1, <1>2, <1>3, <1>5, Steps, ActionsChangeRefunds, EventsChangeRefunds DEF RefundChange
<1> QED
    BY <1>4, <1>5

LEMMA RefundsStay ==
  ASSUME TypeInv, RefundChange, NEW r \in Refunds, refund[r].status # "NONE"
  PROVE  /\ refund'[r].status # "NONE"
         /\ refund'[r].payment = refund[r].payment /\ refund'[r].amount = refund[r].amount
<1>1. ASSUME NEW q \in Refunds, NEW v \in RefundStatuses, refund[q].status # "NONE",
             refund' = [refund EXCEPT ![q].status = v]
      PROVE  /\ refund'[r].status # "NONE"
             /\ refund'[r].payment = refund[r].payment /\ refund'[r].amount = refund[r].amount
    BY <1>1, RefundWriteRow, PaymentsKnown DEF TypeInv
<1>2. ASSUME NEW q \in Refunds, NEW x, refund[q].status = "NONE", refund' = [refund EXCEPT ![q] = x]
      PROVE  refund'[r] = refund[r]
    BY <1>2 DEF TypeInv, TypeOK
<1>3. "NONE" \notin PendingRefund
    BY DEF PendingRefund
<1> QED
    BY <1>1, <1>2, <1>3 DEF RefundChange

\* What an event says does not change once it is stored, and a session waits for the
\* lock of the order only after a claim of its own.
LEMMA EventsAndSessions ==
  ASSUME TypeInv, [Next]_vars
  PROVE  /\ \A e \in Events : event[e].status # "NONE" => fact'[e] = fact[e]
         /\ \A s \in Sessions : session'[s].pc \in {"wait", "decide"} =>
              \/ session'[s] = session[s]
              \/ Claims(s) /\ session'[s].pc = "wait"
              \/ ApplyReads(s) /\ session'[s].pc = "decide"
<1> DEFINE Facts1 == \A e \in Events : event[e].status # "NONE" => fact'[e] = fact[e]
           Sessions1 == \A s \in Sessions : session'[s].pc \in {"wait", "decide"} =>
              \/ session'[s] = session[s]
              \/ Claims(s) /\ session'[s].pc = "wait"
              \/ ApplyReads(s) /\ session'[s].pc = "decide"
<1>0. session \in [Sessions -> Doing] /\ fact \in [Events -> Facts \cup {NoRow}]
    BY DEF TypeInv, TypeOK
<1>1. ASSUME NEW s \in Sessions, NEW x, session' = [session EXCEPT ![s] = x], x.pc \in {"idle", "apply"}
      PROVE  Sessions1
    BY <1>0, <1>1
<1>2. ASSUME NEW s \in Sessions, session' = [session EXCEPT ![s] = Idle] PROVE Sessions1
    BY <1>1, <1>2 DEF Idle
<1>3. ASSUME PeopleStep \/ ActionStep PROVE UNCHANGED <<fact, session>>
    BY <1>3 DEF PeopleStep, ActionStep, StartAttempt, CancelOrder, RequestRefund, OpenBegins, OpenSucceeds,
       OpenFails, OpenIsLost, MovesPayment, RefundBegins, RefundAccepted, RefundFails, RefundIsLost, eventVars
<1>4. ASSUME Arrival PROVE Facts1 /\ Sessions1
  <2>1. PICK s \in Sessions, e \in Events :
           \/ \E f \in Facts : Receive(s, e, f)
           \/ Redeliver(s, e) \/ RetryEvent(s, e) \/ ClaimAttempt(s, e)
      BY <1>4 DEF Arrival, Sessions
  <2>2. session' = [session EXCEPT ![s] = [pc |-> "apply", event |-> e]]
      BY <2>1 DEF Receive, Redeliver, RetryEvent, ClaimAttempt, Applies
  <2>3. Sessions1
      BY <1>1, <2>2
  <2>4. \A x \in Events : event[x].status # "NONE" => fact'[x] = fact[x]
      BY <1>0, <2>1 DEF Receive, Redeliver, RetryEvent, ClaimAttempt, eventVars
  <2> QED
      BY <2>3, <2>4
<1>5. ASSUME NEW s \in Sessions, PaymentEventApplied(s) \/ RefundEventApplied(s)
             \/ Crash(s) \/ AlreadyApplied(s)
      PROVE  UNCHANGED fact /\ session' = [session EXCEPT ![s] = Idle]
    BY <1>5 DEF PaymentEventApplied, RefundEventApplied, AttemptFailed, ClosePayment, CaptureKept, RecordCapture,
       SettleRefund, RecordProviderRefund, RefundWasRecorded, RefundKept, ReleaseRefund, RefundFailureKept,
       Finishes, Crash, AlreadyApplied, eventVars
<1>6. ASSUME NEW s \in Sessions, Claims(s) PROVE UNCHANGED fact /\ Sessions1
  <2>1. session'[s].pc = "wait" /\ (\A t \in Sessions : t # s => session'[t] = session[t]) /\ UNCHANGED fact
      BY <1>0, <1>6 DEF Claims, eventVars
  <2> QED
      BY <1>6, <2>1
<1>7. ASSUME NEW s \in Sessions, ApplyReads(s) PROVE UNCHANGED fact /\ Sessions1
  <2>1. session'[s].pc = "decide" /\ (\A t \in Sessions : t # s => session'[t] = session[t]) /\ UNCHANGED fact
      BY <1>0, <1>7 DEF ApplyReads, eventVars
  <2> QED
      BY <1>7, <2>1
<1>8. CASE UNCHANGED vars
    BY <1>8 DEF vars
<1>9. CASE Next
  <2>1. CASE PeopleStep \/ ActionStep
      BY <1>3, <2>1
  <2>2. CASE Arrival
      BY <1>4, <2>2
  <2>3. CASE \E s \in Sessions : PaymentEventApplied(s) \/ RefundEventApplied(s) \/ SessionStep(s)
    <3>1. PICK s \in Sessions : PaymentEventApplied(s) \/ RefundEventApplied(s) \/ SessionStep(s)
        BY <2>3
    <3>2. CASE Claims(s) \/ ApplyReads(s)
        BY <1>6, <1>7, <3>2
    <3>3. CASE ~(Claims(s) \/ ApplyReads(s))
      <4>1. UNCHANGED fact /\ session' = [session EXCEPT ![s] = Idle]
          BY <1>5, <3>1, <3>3 DEF SessionStep, RefundEventApplied
      <4> QED
          BY <1>2, <4>1
    <3> QED
        BY <3>2, <3>3
  <2> QED
      BY <1>9, <2>1, <2>2, <2>3, Steps
<1> QED
    BY <1>8, <1>9

LEMMA FoundStep == Inv /\ [Next]_vars => FoundStays'
<1> SUFFICES ASSUME Inv, [Next]_vars,
                    NEW s \in Sessions, session'[s].pc = "wait", session'[s].found
             PROVE  HasRefund(fact[session[s].event])'
    BY DEF FoundStays
<1>0. TypeInv /\ RefundChange
    BY StepsChangeRefunds DEF Inv
<1>1. session'[s] = session[s] \/ Claims(s)
    BY <1>0, EventsAndSessions
<1>2. /\ session[s].pc # "idle" /\ session'[s].event = session[s].event
      /\ HasRefund(fact[session[s].event])
  <2>1. CASE session'[s] = session[s]
      BY <2>1 DEF Inv, FoundStays
  <2>2. CASE Claims(s)
      BY <1>0, <2>2 DEF Claims, TypeInv, TypeOK
  <2> QED
      BY <1>1, <2>1, <2>2
<1>3. session[s].event \in Events /\ fact'[session[s].event] = fact[session[s].event]
    BY <1>0, <1>2, Applying, EventsAndSessions DEF TypeInv, EventsAreKnown
<1> QED
    BY <1>0, <1>2, <1>3, RefundsStay DEF HasRefund

-----------------------------------------------------------------------------
LEMMA TypeInit == Init => TypeInv
<1> SUFFICES ASSUME Init PROVE TypeInv
    OBVIOUS
<1>1. NoPayment \in Payments
    BY DEF NoPayment, Payments, PaymentStatuses
<1>2. [status |-> "NONE", attempts |-> 0] \in EventRows
    BY PaymentsAssumption DEF EventRows, EventStatuses
<1>3. session \in [Sessions -> Doing] /\ \A s \in Sessions : session[s].pc = "idle"
    BY DEF Init, Doing, Idle
<1>4. \A e \in Events : event[e].status = "NONE"
    BY DEF Init
<1>5. Actions!LifecycleTypeOK
    BY DEF Init, Actions!LifecycleInit, Actions!LifecycleTypeOK, Actions!ActionStatuses
<1> QED
    BY <1>1, <1>2, <1>3, <1>4, <1>5 DEF Init, TypeInv, TypeOK, EventsAreKnown

LEMMA InvInit == Init => Inv
  BY TypeInit DEF Init, Inv, FoundStays, Idle

LEMMA InvStep == Inv /\ [Next]_vars => Inv'
<1>1. ASSUME Inv, Next PROVE TypeInv'
    BY <1>1, Steps, PeopleKeepTypes, ActionsKeepTypes, ArrivalKeepsTypes,
       PaymentEventsKeepTypes, RefundEventsKeepTypes, SessionsKeepTypes DEF Inv, SessionStep
<1>2. ASSUME TypeInv, UNCHANGED vars PROVE TypeInv'
    BY <1>2, TypeParts, SameOrder, SameEvents, SameActions
       DEF vars, orderVars, eventVars, actionVars, TypeInv, TypeOK, OrderTypes, EventTypes
<1> QED
    BY <1>1, <1>2, FoundStep DEF Inv

LEMMA Invariance == Spec => []Inv
  BY InvInit, InvStep, PTL DEF Spec

\* The rows always are what the columns of the code may hold: no payment or refund
\* is ever left with a negative amount, and no event, refund or entry without
\* the rows it names.
THEOREM TypeCorrect == Spec => []TypeOK
<1>1. Inv => TypeOK
    BY DEF Inv, TypeInv
<1> QED
    BY <1>1, Invariance, PTL

-----------------------------------------------------------------------------
(* The status and the captured amount of every payment: only a new attempt, *)
(* the cancellation of the order and the record of a capture do more than   *)
(* move an active attempt to another active or closed status                *)

KeepsMoney ==
    /\ order' = order
    /\ \A q \in Attempts :
         /\ payment'[q].captured = payment[q].captured
         /\ \/ payment'[q].status = payment[q].status
            \/ payment[q].status \in Active /\ payment'[q].status \in Active \cup Closed

LEMMA MovedKeepsMoney ==
  ASSUME TypeOK, NEW p \in Attempts, NEW from \in SUBSET Active, NEW to \in Active \cup Closed,
         payment' = StatusMoved(p, from, to), UNCHANGED order
  PROVE  KeepsMoney
<1>1. CASE payment[p].status \in from
  <2> DEFINE x == [payment[p] EXCEPT !.status = to]
  <2>1. payment[p] \in Payments
      BY DEF TypeOK
  <2>2. x.status = to /\ x.captured = payment[p].captured
      BY <2>1 DEF Payments
  <2>3. payment' = [payment EXCEPT ![p] = x]
      BY <1>1 DEF StatusMoved
  <2> HIDE DEF x
  <2>4. payment'[p] = x /\ \A q \in Attempts : q # p => payment'[q] = payment[q]
      BY <2>3 DEF TypeOK
  <2> QED
      BY <1>1, <2>2, <2>4 DEF KeepsMoney
<1>2. CASE payment[p].status \notin from
    BY <1>2 DEF StatusMoved, KeepsMoney
<1> QED
    BY <1>1, <1>2

LEMMA AmountsMovedRow ==
  ASSUME TypeOK, NEW p \in Attempts, NEW c, NEW d
  PROVE  /\ \A q \in Attempts : q # p => AmountsMoved(p, c, d)[q] = payment[q]
         /\ AmountsMoved(p, c, d)[p].status = payment[p].status
         /\ AmountsMoved(p, c, d)[p].captured = payment[p].captured
         /\ AmountsMoved(p, c, d)[p].committed = payment[p].committed + c
         /\ AmountsMoved(p, c, d)[p].refunded = payment[p].refunded + d
<1> DEFINE x == [payment[p] EXCEPT !.committed = payment[p].committed + c, !.refunded = payment[p].refunded + d]
<1>1. payment \in [Attempts -> Payments] /\ payment[p] \in Payments
    BY DEF TypeOK
<1>2. /\ x.status = payment[p].status /\ x.captured = payment[p].captured
      /\ x.committed = payment[p].committed + c /\ x.refunded = payment[p].refunded + d
    BY <1>1 DEF Payments
<1>3. AmountsMoved(p, c, d) = [payment EXCEPT ![p] = x]
    BY <1>1 DEF AmountsMoved, Payments
<1> HIDE DEF x
<1> QED
    BY <1>1, <1>2, <1>3

LEMMA AmountsKeepMoney ==
  ASSUME TypeOK, NEW p \in Attempts, NEW c, NEW d, payment' = AmountsMoved(p, c, d), UNCHANGED order
  PROVE  KeepsMoney
  BY AmountsMovedRow DEF KeepsMoney

LEMMA ActionsKeepMoney ==
  ASSUME TypeInv, ActionStep
  PROVE  KeepsMoney
<1>0. TypeOK
    BY DEF TypeInv
<1>1. ASSUME NEW p \in Attempts, OpenBegins(p) \/ OpenSucceeds(p) \/ OpenFails(p) \/ OpenIsLost(p)
      PROVE  KeepsMoney
  <2>1. PICK from \in SUBSET Active, to \in Active \cup Closed : MovesPayment(p, from, to)
    <3>1. /\ {"REQUESTED"} \in SUBSET Active /\ {"OPENING"} \in SUBSET Active
          /\ {"OPENING", "UNKNOWN_OUTCOME"} \in SUBSET Active
          /\ {"REQUESTED", "OPENING", "UNKNOWN_OUTCOME"} \in SUBSET Active
          /\ {"OPENING", "OPEN", "FAILED", "UNKNOWN_OUTCOME"} \subseteq Active \cup Closed
        BY DEF Active, Closed
    <3> QED
        BY <1>1, <3>1 DEF OpenBegins, OpenSucceeds, OpenFails, OpenIsLost
  <2> QED
      BY <1>0, <2>1, MovedKeepsMoney DEF MovesPayment
<1>2. ASSUME NEW r \in OwnRefunds, RefundBegins(r) \/ RefundAccepted(r) \/ RefundFails(r) \/ RefundIsLost(r)
      PROVE  KeepsMoney
  <2>1. CASE payment' = payment
      BY <1>2, <2>1 DEF KeepsMoney, RefundBegins, RefundAccepted, RefundFails, RefundIsLost
  <2>2. CASE payment' # payment
    <3>1. RefundFails(r) /\ refund[r].status \in PendingRefund
        BY <1>2, <2>2 DEF RefundBegins, RefundAccepted, RefundFails, RefundIsLost
    <3>2. refund[r].payment \in Attempts
        BY <1>0, <3>1, RefundRow DEF PendingRefund, Refunds
    <3>3. payment' = AmountsMoved(refund[r].payment, -refund[r].amount, 0) /\ UNCHANGED order
        BY <3>1 DEF RefundFails
    <3> QED
        BY <1>0, <3>2, <3>3, AmountsKeepMoney
  <2> QED
      BY <2>1, <2>2
<1> QED
    BY <1>1, <1>2 DEF ActionStep

LEMMA EventsKeepMoney ==
  ASSUME TypeInv, NEW s \in Sessions, PaymentEventApplied(s) \/ RefundEventApplied(s)
  PROVE  KeepsMoney \/ RecordCapture(s)
<1> DEFINE e == session[s].event
           f == fact[e]
<1>0. TypeOK
    BY DEF TypeInv
<1>1. CASE AttemptFailed(s) \/ CaptureKept(s) \/ RefundKept(s) \/ RefundFailureKept(s) \/ RefundWasRecorded(s)
    BY <1>1 DEF AttemptFailed, CaptureKept, RefundKept, RefundFailureKept, RefundWasRecorded, orderVars, KeepsMoney
<1>2. CASE ClosePayment(s)
  <2>1. CASE payment' = payment
      BY <1>2, <2>1 DEF ClosePayment, KeepsMoney
  <2>2. CASE payment' # payment
    <3>1. f.payment \in Attempts
        BY <1>2, DecidedFact, FactFields DEF ClosePayment, Decides
    <3>2. Closable \in SUBSET Active /\ {"FAILED", "EXPIRED"} \subseteq Active \cup Closed
        BY DEF Closable, Active, Closed
    <3>3. PICK to \in Active \cup Closed : payment' = StatusMoved(f.payment, Closable, to)
        BY <1>2, <2>2, <3>2 DEF ClosePayment
    <3> QED
        BY <1>0, <1>2, <3>1, <3>2, <3>3, MovedKeepsMoney DEF ClosePayment
  <2> QED
      BY <2>1, <2>2
<1>3. CASE SettleRefund(s)
  <2>1. PaymentOf(f) \in Attempts
      BY <1>0, <1>3, DecidedFact, FactPayment DEF SettleRefund, Decides
  <2>2. payment' = AmountsMoved(PaymentOf(f), 0, f.amount) /\ UNCHANGED order
      BY <1>3 DEF SettleRefund
  <2> QED
      BY <1>0, <2>1, <2>2, AmountsKeepMoney
<1>4. CASE RecordProviderRefund(s)
  <2>1. f.payment \in Attempts
      BY <1>4, DecidedFact, FactFields DEF RecordProviderRefund, Decides
  <2>2. payment' = AmountsMoved(f.payment, f.amount, f.amount) /\ UNCHANGED order
      BY <1>4 DEF RecordProviderRefund
  <2> QED
      BY <1>0, <2>1, <2>2, AmountsKeepMoney
<1>5. CASE ReleaseRefund(s)
  <2>1. PaymentOf(f) \in Attempts
      BY <1>0, <1>5, DecidedFact, FactPayment DEF ReleaseRefund, Decides
  <2>2. payment' = AmountsMoved(PaymentOf(f), -refund[f.refund].amount, 0) /\ UNCHANGED order
      BY <1>5 DEF ReleaseRefund
  <2> QED
      BY <1>0, <2>1, <2>2, AmountsKeepMoney
<1> QED
    BY <1>1, <1>2, <1>3, <1>4, <1>5 DEF PaymentEventApplied, RefundEventApplied

LEMMA MoneySteps ==
  ASSUME TypeInv, [Next]_vars
  PROVE  \/ KeepsMoney
         \/ \E p \in Attempts : StartAttempt(p)
         \/ CancelOrder
         \/ \E s \in Sessions : RecordCapture(s)
<1>0. TypeOK
    BY DEF TypeInv
<1>1. ASSUME NEW r \in OwnRefunds, NEW p \in Attempts, NEW a \in 1..MaxAmount, RequestRefund(r, p, a)
      PROVE  KeepsMoney
    BY <1>0, <1>1, AmountsKeepMoney DEF RequestRefund
<1>2. ASSUME UNCHANGED <<payment, order>> PROVE KeepsMoney
    BY <1>2 DEF KeepsMoney
<1>3. ASSUME Arrival PROVE UNCHANGED <<payment, order>>
    BY <1>3 DEF Arrival, Receive, Redeliver, RetryEvent, ClaimAttempt, orderVars
<1>4. ASSUME NEW s \in Sessions, SessionStep(s) PROVE UNCHANGED <<payment, order>>
    BY <1>4 DEF SessionStep, Crash, AlreadyApplied, Claims, ApplyReads, RefundWasRecorded, orderVars
<1>5. CASE UNCHANGED vars
    BY <1>2, <1>5 DEF vars
<1>6. CASE Next
    BY <1>1, <1>2, <1>3, <1>4, <1>6, Steps, ActionsKeepMoney, EventsKeepMoney DEF PeopleStep
<1> QED
    BY <1>5, <1>6

\* What a new attempt, and a capture, do to the payments.
LEMMA Started ==
  ASSUME TypeInv, NEW p \in Attempts, StartAttempt(p)
  PROVE  /\ order' = "AWAITING_PAYMENT"
         /\ payment'[p].status = "REQUESTED" /\ payment'[p].captured = payment[p].captured
         /\ payment[p].captured = 0 /\ payment[p].status = "NONE"
         /\ \A q \in Attempts : q # p => payment'[q] = payment[q]
<1> DEFINE x == [payment[p] EXCEPT !.status = "REQUESTED"]
<1>1. payment \in [Attempts -> Payments] /\ payment[p] \in Payments
    BY DEF TypeInv, TypeOK
<1>2. x.status = "REQUESTED" /\ x.captured = payment[p].captured
    BY <1>1 DEF Payments
<1>3. payment' = [payment EXCEPT ![p] = x]
    BY DEF StartAttempt
<1> HIDE DEF x
<1> QED
    BY <1>1, <1>2, <1>3 DEF StartAttempt, NeverCaptured

LEMMA Recorded ==
  ASSUME TypeInv, NEW s \in Sessions, RecordCapture(s)
  PROVE  LET p == fact[session[s].event].payment
             amount == fact[session[s].event].amount
         IN  /\ p \in Attempts /\ amount \in 1..MaxAmount
             /\ payment[p].status \in CaptureAccepting
             /\ payment'[p].status = CaptureStatus(p, amount) /\ payment'[p].captured = amount
             /\ \A q \in Attempts : q # p => payment'[q] = payment[q]
             /\ order' = IF CaptureStatus(p, amount) = "SUCCEEDED" /\ order = "AWAITING_PAYMENT"
                         THEN "PAID" ELSE order
<1> DEFINE f == fact[session[s].event]
           status == CaptureStatus(f.payment, f.amount)
<1>1. f \in Facts
    BY DecidedFact DEF RecordCapture, Decides
<1>2. /\ f.amount # 0 /\ payment[f.payment].status \in CaptureAccepting
      /\ payment' = CaptureRecorded(f.payment, status, f.amount)
      /\ order' = IF status = "SUCCEEDED" /\ order = "AWAITING_PAYMENT" THEN "PAID" ELSE order
    BY DEF RecordCapture
<1>3. f.payment \in Attempts /\ f.amount \in 1..MaxAmount /\ f.amount \in Nat
    BY <1>1, <1>2, FactFields, PaymentsAssumption
<1>4. status \in PaymentStatuses
    BY CapturedStatus DEF PaymentStatuses
<1> HIDE DEF f, status
<1>5. /\ payment'[f.payment].status = status /\ payment'[f.payment].captured = f.amount
      /\ \A q \in Attempts : q # f.payment => payment'[q] = payment[q]
    BY <1>2, <1>3, <1>4, CaptureWrite DEF TypeInv
<1> QED
    BY <1>2, <1>3, <1>5 DEF f, status

-----------------------------------------------------------------------------
LEMMA OneLiveStep == TypeInv /\ OneLiveAttempt /\ [Next]_vars => OneLiveAttempt'
<1> SUFFICES ASSUME TypeInv, OneLiveAttempt, [Next]_vars PROVE OneLiveAttempt'
    OBVIOUS
<1>1. CASE KeepsMoney
  <2>1. \A q \in Attempts : payment'[q].status \in Active => payment[q].status \in Active
      BY <1>1 DEF KeepsMoney
  <2> QED
      BY <1>1, <2>1 DEF KeepsMoney, OneLiveAttempt
<1>2. ASSUME NEW p \in Attempts, StartAttempt(p) PROVE OneLiveAttempt'
    BY <1>2, Started DEF OneLiveAttempt, StartAttempt, NoneActive
<1>3. CASE CancelOrder
    BY <1>3 DEF CancelOrder, NoneActive, OneLiveAttempt
<1>4. ASSUME NEW s \in Sessions, RecordCapture(s) PROVE OneLiveAttempt'
  <2>1. \A q \in Attempts : payment'[q].status \in Active => payment[q].status \in Active
      BY <1>4, Recorded, CapturedStatus DEF Captured, Active
  <2>2. order' = "CANCELLED" => order = "CANCELLED"
      BY <1>4, Recorded
  <2> QED
      BY <2>1, <2>2 DEF OneLiveAttempt
<1> QED
    BY <1>1, <1>2, <1>3, <1>4, MoneySteps

\* An order is never charged through two attempts at once, nor after it was
\* cancelled, whatever the observers, the events and people do meanwhile.
THEOREM OneAttemptAtATime == Spec => []OneLiveAttempt
<1>1. Init => OneLiveAttempt
    BY DEF Init, OneLiveAttempt, NoPayment, Active
<1>2. Inv /\ OneLiveAttempt /\ [Next]_vars => OneLiveAttempt'
    BY OneLiveStep DEF Inv
<1> QED
    BY <1>1, <1>2, Invariance, PTL DEF Spec

LEMMA PaidStep == TypeInv /\ PaidByOneCapture /\ [Next]_vars => PaidByOneCapture'
<1> SUFFICES ASSUME TypeInv, PaidByOneCapture, [Next]_vars PROVE PaidByOneCapture'
    OBVIOUS
<1>0. \A q \in Attempts : payment[q].captured \in Nat
    BY PaymentFields DEF TypeInv
<1>1. CASE KeepsMoney
  <2>1. \A q \in Attempts :
           /\ payment'[q].captured = payment[q].captured
           /\ \/ payment'[q].status = payment[q].status
              \/ payment'[q].status \notin Captured /\ payment[q].status \notin Captured
    <3>1. \A x : x \in Active \cup Closed => x \notin Captured
        BY DEF Captured, Active, Closed
    <3> QED
        BY <1>1, <3>1 DEF KeepsMoney
  <2> QED
      BY <1>1, <2>1 DEF KeepsMoney, PaidByOneCapture, Captured
<1>2. ASSUME NEW p \in Attempts, StartAttempt(p) PROVE PaidByOneCapture'
  <2>1. \A q \in Attempts :
           /\ payment'[q].captured = payment[q].captured
           /\ \/ payment'[q].status = payment[q].status
              \/ payment'[q].status \notin Captured /\ payment[q].status \notin Captured
    <3>1. "REQUESTED" \notin Captured /\ "NONE" \notin Captured
        BY DEF Captured
    <3> QED
        BY <1>2, <3>1, Started
  <2>2. order' = order
      BY <1>2 DEF StartAttempt
  <2> QED
      BY <2>1, <2>2 DEF PaidByOneCapture, Captured
<1>3. CASE CancelOrder
    BY <1>3 DEF CancelOrder, PaidByOneCapture, orderVars
<1>4. ASSUME NEW s \in Sessions, RecordCapture(s) PROVE PaidByOneCapture'
  <2> DEFINE p == fact[session[s].event].payment
             amount == fact[session[s].event].amount
  <2>1. /\ p \in Attempts /\ amount \in 1..MaxAmount
        /\ payment[p].status \notin Captured
        /\ payment'[p].status = CaptureStatus(p, amount) /\ payment'[p].captured = amount
        /\ \A q \in Attempts : q # p => payment'[q] = payment[q]
        /\ order' = IF CaptureStatus(p, amount) = "SUCCEEDED" /\ order = "AWAITING_PAYMENT" THEN "PAID" ELSE order
      BY <1>4, Recorded DEF CaptureAccepting, Closable, Closed, Captured
  <2> HIDE DEF p, amount
  <2>2. order \in {"AWAITING_PAYMENT", "PAID", "CANCELLED"} /\ amount > 0
      BY <2>1, PaymentsAssumption DEF TypeInv, TypeOK
  <2>3. CASE CaptureStatus(p, amount) = "SUCCEEDED"
    <3>1. amount = Due /\ \A q \in Attempts : q # p => payment[q].status # "SUCCEEDED"
        BY <2>3 DEF CaptureStatus, Canonical
    <3>2. order' \in {"PAID", "CANCELLED"}
        BY <2>1, <2>2, <2>3
    <3> QED
        BY <2>1, <2>2, <2>3, <3>1, <3>2 DEF PaidByOneCapture, Captured
  <2>4. CASE CaptureStatus(p, amount) = "DUPLICATE_CAPTURE"
    <3>1. amount = Due /\ \E q \in Attempts : q # p /\ payment[q].status = "SUCCEEDED"
        BY <2>4 DEF CaptureStatus, Canonical
    <3> QED
        BY <2>1, <2>2, <2>4, <3>1 DEF PaidByOneCapture, Captured
  <2>5. CASE CaptureStatus(p, amount) = "CAPTURE_MISMATCH"
      BY <2>1, <2>2, <2>5 DEF PaidByOneCapture, Captured
  <2> QED
      BY <2>3, <2>4, <2>5 DEF CaptureStatus
<1> QED
    BY <1>1, <1>2, <1>3, <1>4, MoneySteps

\* An order is PAID by exactly one capture of its amount; money captured beside it
\* is a duplicate of one that is there, or a mismatch.
THEOREM OneCanonicalCapture == Spec => []PaidByOneCapture
<1>1. Init => PaidByOneCapture
    BY DEF Init, PaidByOneCapture, NoPayment, Captured
<1>2. Inv /\ PaidByOneCapture /\ [Next]_vars => PaidByOneCapture'
    BY PaidStep DEF Inv
<1> QED
    BY <1>1, <1>2, Invariance, PTL DEF Spec

-----------------------------------------------------------------------------
(* Each event is applied by one session at a time, and only while RECEIVED *)

Holding == {"wait", "decide"}

OneApplier ==
    /\ \A s \in Sessions : session[s].pc \in Holding => event[session[s].event].status = "RECEIVED"
    /\ \A s, t \in Sessions :
         s # t /\ session[s].pc \in Holding /\ session[t].pc \in Holding => session[s].event # session[t].event

AppliesEvent(s) == PaymentEventApplied(s) \/ RefundEventApplied(s)

LEMMA AppliedEvent ==
  ASSUME TypeInv, NEW s \in Sessions, AppliesEvent(s)
  PROVE  /\ session[s].pc = "decide" /\ session[s].event \in Events
         /\ session'[s] = Idle
         /\ \A e \in Events : e # session[s].event => event'[e] = event[e]
<1>1. session[s].pc = "decide" /\ ((\E outcome : Finishes(s, outcome)) \/ RefundWasRecorded(s))
  <2>1. CASE PaymentEventApplied(s)
      BY <2>1 DEF PaymentEventApplied, AttemptFailed, ClosePayment, CaptureKept, RecordCapture, Decides
  <2>2. CASE SettleRefund(s) \/ RecordProviderRefund(s) \/ RefundWasRecorded(s) \/ ReleaseRefund(s)
      BY <2>2 DEF SettleRefund, RecordProviderRefund, RefundWasRecorded, ReleaseRefund, Decides
  <2>3. CASE RefundKept(s) \/ RefundFailureKept(s)
      BY <2>3 DEF RefundKept, RefundFailureKept, Decides
  <2> QED
      BY <2>1, <2>2, <2>3 DEF AppliesEvent, RefundEventApplied
<1>2. session[s].event \in Events
    BY <1>1, Deciding DEF TypeInv
<1>3. session' = [session EXCEPT ![s] = Idle]
    BY <1>1 DEF Finishes, RefundWasRecorded
<1>4. \A e \in Events : e # session[s].event => event'[e] = event[e]
    BY <1>1 DEF Finishes, RefundWasRecorded, eventVars, TypeInv, TypeOK
<1> QED
    BY <1>1, <1>2, <1>3, <1>4 DEF TypeInv, TypeOK

\* The only steps that conclude an event are those that apply it.
LEMMA EventSteps ==
  ASSUME TypeInv, [Next]_vars, NEW e \in Events
  PROVE  \/ event'[e].status = event[e].status
         \/ event[e].status = "NONE" /\ event'[e].status = "RECEIVED"
         \/ \E s \in Sessions : AppliesEvent(s) /\ session[s].event = e
<1>1. ASSUME Arrival
      PROVE  event'[e].status = event[e].status \/ (event[e].status = "NONE" /\ event'[e].status = "RECEIVED")
  <2>1. PICK s \in Sessions, x \in Events :
           \/ \E f \in Facts : Receive(s, x, f)
           \/ Redeliver(s, x) \/ RetryEvent(s, x) \/ ClaimAttempt(s, x)
      BY <1>1 DEF Arrival, Sessions
  <2>2. CASE \E f \in Facts : Receive(s, x, f)
      BY <2>2, EventStatusWrite DEF Receive, TypeInv, EventStatuses
  <2>3. CASE Redeliver(s, x)
      BY <2>3 DEF Redeliver, eventVars
  <2>4. CASE RetryEvent(s, x)
      BY <2>4, EventAttemptWrite, PaymentsAssumption DEF RetryEvent, TypeInv
  <2>5. CASE ClaimAttempt(s, x)
    <3>1. event[x].attempts + 1 \in 0..MaxReconcile
        BY <2>5, EventFields, PaymentsAssumption DEF ClaimAttempt, TypeInv
    <3> QED
        BY <2>5, <3>1, EventAttemptWrite DEF ClaimAttempt, TypeInv
  <2> QED
      BY <2>1, <2>2, <2>3, <2>4, <2>5
<1>2. ASSUME PeopleStep PROVE UNCHANGED event
    BY <1>2 DEF PeopleStep, StartAttempt, CancelOrder, RequestRefund, eventVars
<1>3. ASSUME ActionStep PROVE UNCHANGED event
    BY <1>3 DEF ActionStep, OpenBegins, OpenSucceeds, OpenFails, OpenIsLost, MovesPayment, RefundBegins,
       RefundAccepted, RefundFails, RefundIsLost, eventVars
<1>4. ASSUME NEW s \in Sessions, SessionStep(s) PROVE UNCHANGED event
    BY <1>4 DEF SessionStep, Crash, AlreadyApplied, Claims, ApplyReads, RefundWasRecorded, eventVars
<1>5. ASSUME NEW s \in Sessions, AppliesEvent(s), session[s].event # e PROVE event'[e] = event[e]
    BY <1>5, AppliedEvent
<1>6. CASE UNCHANGED vars
    BY <1>6 DEF vars
<1>7. CASE Next
    BY <1>1, <1>2, <1>3, <1>4, <1>5, <1>7, Steps DEF AppliesEvent
<1> QED
    BY <1>6, <1>7

LEMMA OneApplierStep == TypeInv /\ OneApplier /\ [Next]_vars => OneApplier'
<1> SUFFICES ASSUME TypeInv, OneApplier, [Next]_vars PROVE OneApplier'
    OBVIOUS
\* Who holds an event held it before or has just claimed it.
<1>1. ASSUME NEW s \in Sessions, session'[s].pc \in Holding
      PROVE  /\ session'[s].event = session[s].event /\ session[s].event \in Events
             /\ event[session[s].event].status = "RECEIVED"
             /\ session[s].pc \in Holding \/ Claims(s)
  <2>1. CASE session'[s] = session[s]
      BY <1>1, <2>1, Applying DEF OneApplier, Holding, TypeInv
  <2>2. CASE Claims(s)
      BY <2>2, Applying DEF Claims, TypeInv, TypeOK
  <2>3. CASE ApplyReads(s)
      BY <2>3, Applying DEF ApplyReads, OneApplier, Holding, TypeInv, TypeOK
  <2> QED
      BY <1>1, <2>1, <2>2, <2>3, EventsAndSessions DEF Holding
<1>2. ASSUME NEW s \in Sessions, Claims(s), NEW t \in Sessions, t # s
      PROVE  session'[t] = session[t] /\ (session[t].pc \in Holding => session[t].event # session[s].event)
    BY <1>2 DEF Claims, Holding, TypeInv, TypeOK
<1>3. ASSUME NEW s \in Sessions, session'[s].pc \in Holding
      PROVE  event'[session'[s].event].status = "RECEIVED"
  <2> DEFINE e == session[s].event
  <2>1. e \in Events /\ event[e].status = "RECEIVED" /\ session'[s].event = e
      BY <1>1, <1>3
  <2>2. ASSUME NEW t \in Sessions, AppliesEvent(t), session[t].event = e PROVE FALSE
    <3>1. session[t].pc = "decide" /\ session'[t].pc = "idle"
        BY <2>2, AppliedEvent DEF Idle
    <3>2. s # t
        BY <1>3, <3>1 DEF Holding
    <3> QED
        BY <1>1, <1>2, <1>3, <2>2, <3>1, <3>2 DEF OneApplier, Holding
  <2> QED
      BY <2>1, <2>2, EventSteps
<1>4. ASSUME NEW s \in Sessions, NEW t \in Sessions, s # t,
             session'[s].pc \in Holding, session'[t].pc \in Holding
      PROVE  session'[s].event # session'[t].event
  <2>1. CASE Claims(s)
      BY <1>1, <1>2, <1>4, <2>1
  <2>2. CASE Claims(t)
      BY <1>1, <1>2, <1>4, <2>2
  <2>3. CASE session[s].pc \in Holding /\ session[t].pc \in Holding
      BY <1>1, <1>4, <2>3 DEF OneApplier
  <2> QED
      BY <1>1, <1>4, <2>1, <2>2, <2>3
<1> QED
    BY <1>3, <1>4 DEF OneApplier

LEMMA Appliers == Spec => [](Inv /\ OneApplier)
<1>1. Init => OneApplier
    BY DEF Init, OneApplier, Holding, Idle
<1>2. Inv /\ OneApplier /\ [Next]_vars => OneApplier'
    BY OneApplierStep DEF Inv
<1> QED
    BY <1>1, <1>2, Invariance, PTL DEF Spec

-----------------------------------------------------------------------------
(* Nothing is undone *)

\* Captured money, and a closed order, stay.
LEMMA MoneyStays ==
  ASSUME TypeInv, [Next]_vars
  PROVE  /\ \A p \in Attempts : payment[p].status \in Captured =>
              payment'[p].status = payment[p].status /\ payment'[p].captured = payment[p].captured
         /\ order # "AWAITING_PAYMENT" => order' = order
<1>0. Captured \cap (Active \cup CaptureAccepting \cup {"NONE"}) = {}
    BY DEF Captured, Active, CaptureAccepting, Closable, Closed
<1>1. CASE KeepsMoney
    BY <1>0, <1>1 DEF KeepsMoney
<1>2. ASSUME NEW p \in Attempts, StartAttempt(p)
      PROVE  /\ order = "AWAITING_PAYMENT"
             /\ \A q \in Attempts : payment[q].status \in Captured => payment'[q] = payment[q]
    BY <1>0, <1>2, Started DEF StartAttempt
<1>3. CASE CancelOrder
    BY <1>3 DEF CancelOrder
<1>4. ASSUME NEW s \in Sessions, RecordCapture(s)
      PROVE  /\ order # "AWAITING_PAYMENT" => order' = order
             /\ \A q \in Attempts : payment[q].status \in Captured => payment'[q] = payment[q]
    BY <1>0, <1>4, Recorded
<1> QED
    BY <1>1, <1>2, <1>3, <1>4, MoneySteps

LEMMA ClosedRefundsStay ==
  ASSUME TypeInv, [Next]_vars, NEW r \in Refunds, refund[r].status \in {"SUCCEEDED", "FAILED"}
  PROVE  refund'[r] = refund[r]
<1>1. refund[r].status \notin PendingRefund /\ refund[r].status # "NONE"
    BY DEF PendingRefund
<1>2. \A q \in Refunds : (\E x : refund' = [refund EXCEPT ![q] = x]) /\ q # r => refund'[r] = refund[r]
    BY DEF TypeInv, TypeOK
<1>3. ASSUME NEW q \in Refunds, NEW v, refund[q].status \in PendingRefund,
             refund' = [refund EXCEPT ![q].status = v]
      PROVE  refund'[r] = refund[r]
    BY <1>1, <1>3 DEF TypeInv, TypeOK
<1> QED
    BY <1>1, <1>2, <1>3, StepsChangeRefunds DEF RefundChange

LEMMA EntriesStay ==
  ASSUME [Next]_vars
  PROVE  entries \subseteq entries'
<1>1. ASSUME PeopleStep PROVE UNCHANGED entries
    BY <1>1 DEF PeopleStep, StartAttempt, CancelOrder, RequestRefund
<1>2. ASSUME ActionStep PROVE UNCHANGED entries
    BY <1>2 DEF ActionStep, OpenBegins, OpenSucceeds, OpenFails, OpenIsLost, MovesPayment, RefundBegins,
       RefundAccepted, RefundFails, RefundIsLost
<1>3. ASSUME Arrival PROVE UNCHANGED entries
    BY <1>3 DEF Arrival, Receive, Redeliver, RetryEvent, ClaimAttempt, orderVars
<1>4. ASSUME NEW s \in Sessions, SessionStep(s) PROVE UNCHANGED entries
    BY <1>4 DEF SessionStep, Crash, AlreadyApplied, Claims, ApplyReads, RefundWasRecorded, orderVars
<1>5. ASSUME NEW s \in Sessions, PaymentEventApplied(s) PROVE entries \subseteq entries'
    BY <1>5 DEF PaymentEventApplied, AttemptFailed, ClosePayment, CaptureKept, RecordCapture, orderVars
<1>6. ASSUME NEW s \in Sessions, RefundEventApplied(s) PROVE entries \subseteq entries'
  <2>1. CASE SettleRefund(s) \/ RecordProviderRefund(s)
      BY <2>1 DEF SettleRefund, RecordProviderRefund
  <2>2. CASE RefundWasRecorded(s) \/ RefundKept(s) \/ ReleaseRefund(s) \/ RefundFailureKept(s)
      BY <2>2 DEF RefundWasRecorded, RefundKept, ReleaseRefund, RefundFailureKept, orderVars
  <2> QED
      BY <1>6, <2>1, <2>2 DEF RefundEventApplied
<1>7. CASE UNCHANGED vars
    BY <1>7 DEF vars
<1>8. CASE Next
    BY <1>1, <1>2, <1>3, <1>4, <1>5, <1>6, <1>8, Steps
<1> QED
    BY <1>7, <1>8

LEMMA FinalEventsStay ==
  ASSUME TypeInv, OneApplier, [Next]_vars, NEW e \in Events, event[e].status \in Final
  PROVE  event'[e].status = event[e].status
<1>1. event[e].status \notin {"NONE", "RECEIVED"}
    BY DEF Final
<1>2. ASSUME NEW s \in Sessions, AppliesEvent(s) PROVE session[s].event # e
    BY <1>1, <1>2, AppliedEvent DEF OneApplier, Holding
<1> QED
    BY <1>1, <1>2, EventSteps

\* No late event, late answer or word of a person undoes a capture, a closed
\* refund, an order that was paid or cancelled, an event that was processed or an
\* entry of the revenue ledger.
THEOREM NothingUndone == Spec => NothingIsUndone
<1>1. ASSUME Inv, OneApplier, [Next]_vars PROVE ~Undoes
  <2>0. TypeInv
      BY <1>1 DEF Inv
  <2>1. ~ \E p \in Attempts :
            /\ payment[p].status \in Captured
            /\ payment'[p].status # payment[p].status \/ payment'[p].captured # payment[p].captured
      BY <1>1, <2>0, MoneyStays
  <2>2. ~ \E r \in Refunds : refund[r].status \in {"SUCCEEDED", "FAILED"} /\ refund'[r] # refund[r]
      BY <1>1, <2>0, ClosedRefundsStay
  <2>3. ~(order # "AWAITING_PAYMENT" /\ order' # order)
      BY <1>1, <2>0, MoneyStays
  <2>4. ~ \E e \in Events : event[e].status \in Final /\ event'[e].status # event[e].status
      BY <1>1, <2>0, FinalEventsStay
  <2> QED
      BY <1>1, <2>1, <2>2, <2>3, <2>4, EntriesStay DEF Undoes
<1> QED
    BY <1>1, Appliers, PTL DEF Spec, NothingIsUndone

-----------------------------------------------------------------------------
(* Every live row is explained by its action *)

PaymentFollows(p) ==
    /\ payment[p].status = "REQUESTED" <=> action[p] = "PENDING"
    /\ payment[p].status = "OPENING" => action[p] = "CALLING"
    /\ payment[p].status = "UNKNOWN_OUTCOME" => action[p] = "UNKNOWN_OUTCOME"
    /\ payment[p].status = "OPEN" => action[p] = "SUCCEEDED"

\* A refund of ours is created with its action.
RefundFollows(r) ==
    /\ refund[r].status = "NONE" => action[r] = "NONE"
    /\ refund[r].status = "REQUESTED" <=> action[r] = "PENDING"
    /\ refund[r].status = "SENDING" => action[r] \in {"CALLING", "SUCCEEDED"}
    /\ refund[r].status = "UNKNOWN_OUTCOME" => action[r] = "UNKNOWN_OUTCOME"

\* What the provider tells us about was sent to it, and what was sent was begun.
EventsWereSent ==
    /\ \A x \in left : action[x] \notin {"NONE", "PENDING"}
    /\ \A e \in Events : event[e].status # "NONE" =>
         /\ fact[e].payment \in left
         /\ fact[e].refund \in OwnRefunds => fact[e].refund \in left

Explained ==
    /\ \A p \in Attempts : PaymentFollows(p)
    /\ \A r \in OwnRefunds : RefundFollows(r)
    /\ EventsWereSent

\* A step about one site.
SiteStep(x) ==
    Actions!OpenAction(x) \/ Actions!BeginCall(x) \/ Actions!Succeeds(x) \/ Actions!Fails(x) \/ Actions!IsLost(x)

LEMMA SiteSteps ==
  ASSUME TypeInv, NEW x \in Attempts \cup OwnRefunds, SiteStep(x)
  PROVE  /\ \A y \in Attempts \cup OwnRefunds : y # x => action'[y] = action[y]
         /\ Actions!OpenAction(x) => action[x] = "NONE" /\ action'[x] = "PENDING"
         /\ Actions!BeginCall(x) => action[x] = "PENDING" /\ action'[x] = "CALLING"
         /\ Actions!Succeeds(x) => action[x] \in {"CALLING", "UNKNOWN_OUTCOME"} /\ action'[x] = "SUCCEEDED"
         /\ Actions!Fails(x) => /\ action[x] \in {"PENDING", "CALLING", "UNKNOWN_OUTCOME"}
                                /\ action'[x] = "FAILED_CONFIRMED"
         /\ Actions!IsLost(x) => action[x] = "CALLING" /\ action'[x] = "UNKNOWN_OUTCOME"
  BY DEF SiteStep, TypeInv, TypeOK, Actions!LifecycleTypeOK, Actions!OpenAction, Actions!BeginCall,
         Actions!Succeeds, Actions!Fails, Actions!IsLost

LEMMA SitesStaySent ==
  ASSUME TypeInv, EventsWereSent, NEW x \in Attempts \cup OwnRefunds, SiteStep(x), UNCHANGED eventVars
  PROVE  EventsWereSent'
<1>1. /\ left \subseteq left'
      /\ \A y \in left' : y \in Attempts \cup OwnRefunds /\ (y \in left \/ (Actions!BeginCall(x) /\ y = x))
    BY DEF SiteStep, TypeInv, TypeOK, Actions!LifecycleTypeOK, Actions!OpenAction, Actions!BeginCall,
       Actions!Succeeds, Actions!Fails, Actions!IsLost
<1>2. action[x] \notin {"NONE", "PENDING"} => action'[x] \notin {"NONE", "PENDING"}
    BY SiteSteps DEF SiteStep
<1>3. \A y \in left' : action'[y] \notin {"NONE", "PENDING"}
    BY <1>1, <1>2, SiteSteps DEF EventsWereSent
<1> QED
    BY <1>1, <1>3 DEF EventsWereSent, eventVars

\* A step that leaves the actions alone and concludes nothing but what it applies.
LEMMA SameSitesStaySent ==
  ASSUME TypeInv, EventsWereSent, UNCHANGED <<fact, actionVars>>,
         \A e \in Events : event[e].status = "NONE" => event'[e].status = "NONE"
  PROVE  EventsWereSent'
  BY DEF EventsWereSent, actionVars

LEMMA MovedPayment ==
  ASSUME TypeInv, NEW p \in Attempts, NEW from, NEW to, MovesPayment(p, from, to)
  PROVE  /\ \A q \in Attempts : q # p => payment'[q] = payment[q]
         /\ payment'[p].status = IF payment[p].status \in from THEN to ELSE payment[p].status
<1> DEFINE x == [payment[p] EXCEPT !.status = to]
<1>1. payment \in [Attempts -> Payments] /\ payment[p] \in Payments
    BY DEF TypeInv, TypeOK
<1>2. x.status = to
    BY <1>1 DEF Payments
<1>3. payment' = IF payment[p].status \in from THEN [payment EXCEPT ![p] = x] ELSE payment
    BY DEF MovesPayment, StatusMoved
<1> HIDE DEF x
<1> QED
    BY <1>1, <1>2, <1>3

LEMMA OpeningsExplained ==
  ASSUME TypeInv, Explained, NEW p \in Attempts,
         OpenBegins(p) \/ OpenSucceeds(p) \/ OpenFails(p) \/ OpenIsLost(p)
  PROVE  Explained'
<1>1. SiteStep(p) /\ UNCHANGED <<refund, eventVars>>
    BY DEF OpenBegins, OpenSucceeds, OpenFails, OpenIsLost, MovesPayment, SiteStep
<1>2. PaymentFollows(p)
    BY DEF Explained
<1>3. PaymentFollows(p)'
  <2>1. CASE OpenBegins(p)
      BY <1>1, <1>2, <2>1, SiteSteps, MovedPayment DEF OpenBegins, PaymentFollows
  <2>2. CASE OpenSucceeds(p)
      BY <1>1, <1>2, <2>2, SiteSteps, MovedPayment DEF OpenSucceeds, PaymentFollows
  <2>3. CASE OpenFails(p)
      BY <1>1, <1>2, <2>3, SiteSteps, MovedPayment DEF OpenFails, PaymentFollows
  <2>4. CASE OpenIsLost(p)
      BY <1>1, <1>2, <2>4, SiteSteps, MovedPayment DEF OpenIsLost, PaymentFollows
  <2> QED
      BY <2>1, <2>2, <2>3, <2>4
<1>4. \A q \in Attempts : q # p => payment'[q] = payment[q] /\ action'[q] = action[q]
    BY <1>1, SiteSteps, MovedPayment DEF OpenBegins, OpenSucceeds, OpenFails, OpenIsLost
<1>5. \A r \in OwnRefunds : refund'[r] = refund[r] /\ action'[r] = action[r]
    BY <1>1, SiteSteps, PaymentsAssumption
<1>6. EventsWereSent'
    BY <1>1, SitesStaySent DEF Explained
<1> QED
    BY <1>3, <1>4, <1>5, <1>6 DEF Explained, PaymentFollows, RefundFollows

LEMMA MovedRefund ==
  ASSUME TypeInv, NEW r \in Refunds, NEW from \in SUBSET PendingRefund, NEW to, MovesRefund(r, from, to)
  PROVE  /\ \A q \in Refunds : q # r => refund'[q] = refund[q]
         /\ refund'[r].status = IF refund[r].status \in from THEN to ELSE refund[r].status
<1>1. CASE refund[r].status \in from
  <2>1. refund[r].status # "NONE"
      BY <1>1 DEF PendingRefund
  <2> QED
      BY <1>1, <2>1, RefundWriteRow DEF MovesRefund, TypeInv
<1>2. CASE refund[r].status \notin from
    BY <1>2 DEF MovesRefund
<1> QED
    BY <1>1, <1>2

LEMMA SendingsExplained ==
  ASSUME TypeInv, Explained, NEW r \in OwnRefunds,
         RefundBegins(r) \/ RefundAccepted(r) \/ RefundFails(r) \/ RefundIsLost(r)
  PROVE  Explained'
<1>0. /\ r \in Refunds /\ PendingRefund \in SUBSET PendingRefund
      /\ {"REQUESTED"} \in SUBSET PendingRefund /\ {"SENDING"} \in SUBSET PendingRefund
      /\ {"UNKNOWN_OUTCOME"} \in SUBSET PendingRefund
    BY DEF Refunds, PendingRefund
<1>1. SiteStep(r) /\ UNCHANGED eventVars
    BY DEF RefundBegins, RefundAccepted, RefundFails, RefundIsLost, SiteStep
<1>2. RefundFollows(r)
    BY DEF Explained
<1>3. RefundFollows(r)'
  <2>1. CASE RefundBegins(r)
      BY <1>0, <1>1, <1>2, <2>1, SiteSteps, MovedRefund DEF RefundBegins, RefundFollows
  <2>2. CASE RefundAccepted(r)
      BY <1>0, <1>1, <1>2, <2>2, SiteSteps, MovedRefund DEF RefundAccepted, RefundFollows
  <2>3. CASE RefundFails(r)
    <3>1. action[r] \in {"PENDING", "CALLING", "UNKNOWN_OUTCOME"} /\ action'[r] = "FAILED_CONFIRMED"
        BY <1>1, <2>3, SiteSteps DEF RefundFails
    <3>2. MovesRefund(r, PendingRefund, "FAILED") /\ PendingRefund \in SUBSET PendingRefund
        BY <1>0, <2>3 DEF RefundFails
    <3>3. refund'[r].status = IF refund[r].status \in PendingRefund THEN "FAILED" ELSE refund[r].status
        BY <1>0, <3>2, MovedRefund
    <3> QED
        BY <1>2, <3>1, <3>3 DEF RefundFollows, PendingRefund
  <2>4. CASE RefundIsLost(r)
      BY <1>0, <1>1, <1>2, <2>4, SiteSteps, MovedRefund DEF RefundIsLost, RefundFollows
  <2> QED
      BY <2>1, <2>2, <2>3, <2>4
<1>4. \A q \in OwnRefunds : q # r => refund'[q] = refund[q] /\ action'[q] = action[q]
  <2>1. \E from \in SUBSET PendingRefund : \E to : MovesRefund(r, from, to)
      BY <1>0 DEF RefundBegins, RefundAccepted, RefundFails, RefundIsLost
  <2> QED
      BY <1>0, <1>1, <2>1, SiteSteps, MovedRefund DEF Refunds
<1>5. \A p \in Attempts : payment'[p].status = payment[p].status /\ action'[p] = action[p]
  <2>1. \A p \in Attempts : action'[p] = action[p]
      BY <1>1, SiteSteps, PaymentsAssumption
  <2>2. CASE payment' = payment
      BY <2>1, <2>2
  <2>3. CASE payment' # payment
    <3>1. RefundFails(r) /\ refund[r].status \in PendingRefund
        BY <2>3 DEF RefundBegins, RefundAccepted, RefundFails, RefundIsLost
    <3>2. refund[r].payment \in Attempts
        BY <1>0, <3>1, RefundRow DEF PendingRefund, TypeInv
    <3> QED
        BY <2>1, <3>1, <3>2, AmountsMovedRow DEF RefundFails, TypeInv
  <2> QED
      BY <2>2, <2>3
<1>6. EventsWereSent'
    BY <1>1, SitesStaySent DEF Explained
<1> QED
    BY <1>3, <1>4, <1>5, <1>6 DEF Explained, PaymentFollows, RefundFollows

LEMMA PeopleExplained ==
  ASSUME TypeInv, Explained, PeopleStep
  PROVE  Explained'
<1>1. CASE CancelOrder
    BY <1>1 DEF CancelOrder, Explained, PaymentFollows, RefundFollows, EventsWereSent, eventVars, actionVars
<1>2. ASSUME NEW p \in Attempts, StartAttempt(p) PROVE Explained'
  <2>1. SiteStep(p) /\ Actions!OpenAction(p) /\ UNCHANGED <<refund, eventVars>>
      BY <1>2 DEF StartAttempt, SiteStep
  <2>2. /\ payment'[p].status = "REQUESTED" /\ action'[p] = "PENDING"
        /\ \A q \in Attempts : q # p => payment'[q] = payment[q] /\ action'[q] = action[q]
      BY <1>2, <2>1, Started, SiteSteps
  <2>3. \A r \in OwnRefunds : refund'[r] = refund[r] /\ action'[r] = action[r]
      BY <2>1, SiteSteps, PaymentsAssumption
  <2>4. EventsWereSent'
      BY <2>1, SitesStaySent DEF Explained
  <2> QED
      BY <2>2, <2>3, <2>4 DEF Explained, PaymentFollows, RefundFollows
<1>3. ASSUME NEW r \in OwnRefunds, NEW p \in Attempts, NEW a \in 1..MaxAmount, RequestRefund(r, p, a)
      PROVE  Explained'
  <2>1. /\ SiteStep(r) /\ Actions!OpenAction(r) /\ UNCHANGED eventVars
        /\ payment' = AmountsMoved(p, a, 0)
        /\ refund' = [refund EXCEPT ![r] = [status |-> "REQUESTED", payment |-> p, amount |-> a]]
      BY <1>3 DEF RequestRefund, SiteStep
  <2>2. /\ refund'[r].status = "REQUESTED" /\ action'[r] = "PENDING"
        /\ \A q \in OwnRefunds : q # r => refund'[q] = refund[q] /\ action'[q] = action[q]
      BY <2>1, SiteSteps DEF TypeInv, TypeOK, Refunds
  <2>3. \A q \in Attempts : payment'[q].status = payment[q].status /\ action'[q] = action[q]
      BY <2>1, SiteSteps, AmountsMovedRow, PaymentsAssumption DEF TypeInv
  <2>4. EventsWereSent'
      BY <2>1, SitesStaySent DEF Explained
  <2> QED
      BY <2>2, <2>3, <2>4 DEF Explained, PaymentFollows, RefundFollows
<1> QED
    BY <1>1, <1>2, <1>3 DEF PeopleStep

LEMMA ArrivalsExplained ==
  ASSUME TypeInv, Explained, Arrival
  PROVE  Explained'
<1>1. UNCHANGED <<orderVars, actionVars>>
    BY DEF Arrival, Receive, Redeliver, RetryEvent, ClaimAttempt
<1>2. PICK s \in Sessions, x \in Events :
         \/ \E f \in Facts : Receive(s, x, f)
         \/ Redeliver(s, x) \/ RetryEvent(s, x) \/ ClaimAttempt(s, x)
    BY DEF Arrival, Sessions
<1>3. EventsWereSent'
  <2>1. ASSUME NEW f \in Facts, Receive(s, x, f) PROVE EventsWereSent'
    <3>1. fact'[x] = f /\ \A e \in Events : e # x => fact'[e] = fact[e] /\ event'[e] = event[e]
        BY <2>1 DEF Receive, TypeInv, TypeOK
    <3>2. f.payment \in left /\ (f.refund \in OwnRefunds => f.refund \in left)
        BY <2>1 DEF Receive, CanHappen
    <3> QED
        BY <1>1, <3>1, <3>2 DEF Explained, EventsWereSent, actionVars
  <2>2. CASE Redeliver(s, x)
      BY <2>2, SameSitesStaySent DEF Redeliver, Explained, eventVars
  <2>3. CASE RetryEvent(s, x)
      BY <2>3, SameSitesStaySent, EventAttemptWrite, PaymentsAssumption DEF RetryEvent, Explained, TypeInv
  <2>4. CASE ClaimAttempt(s, x)
    <3>1. event[x].attempts + 1 \in 0..MaxReconcile
        BY <2>4, EventFields, PaymentsAssumption DEF ClaimAttempt, TypeInv
    <3> QED
        BY <2>4, <3>1, SameSitesStaySent, EventAttemptWrite DEF ClaimAttempt, Explained, TypeInv
  <2> QED
      BY <1>2, <2>1, <2>2, <2>3, <2>4
<1> QED
    BY <1>1, <1>3 DEF Explained, PaymentFollows, RefundFollows, orderVars, actionVars

\* What applying an event does to a payment: nothing, or the end of one that may
\* have left.
LEMMA AppliedPayments ==
  ASSUME TypeInv, NEW s \in Sessions, AppliesEvent(s), NEW p \in Attempts
  PROVE  \/ payment'[p].status = payment[p].status
         \/ payment[p].status \in CaptureAccepting /\ payment'[p].status \in Captured \cup Closed
<1> DEFINE f == fact[session[s].event]
<1>1. CASE ClosePayment(s)
  <2>1. f.payment \in Attempts
      BY <1>1, DecidedFact, FactFields DEF ClosePayment, Decides
  <2>2. CASE payment' = payment
      BY <2>2
  <2>3. CASE payment' # payment
    <3>2. payment[f.payment].status \in Closable
        BY <1>1, <2>3 DEF ClosePayment, StatusMoved
    <3> DEFINE x == [payment[f.payment] EXCEPT !.status = IF f.type = "payment.failed" THEN "FAILED" ELSE "EXPIRED"]
    <3>3. payment \in [Attempts -> Payments] /\ payment[f.payment] \in Payments
        BY <2>1 DEF TypeInv, TypeOK
    <3>4. x.status \in Closed
        BY <3>3 DEF Payments, Closed
    <3>5. payment' = [payment EXCEPT ![f.payment] = x]
        BY <1>1, <2>3 DEF ClosePayment, StatusMoved
    <3> HIDE DEF x, f
    <3> QED
        BY <2>1, <3>2, <3>3, <3>4, <3>5 DEF CaptureAccepting
  <2> QED
      BY <2>2, <2>3
<1>2. CASE RecordCapture(s)
    BY <1>2, Recorded, CapturedStatus
<1>3. CASE ~ClosePayment(s) /\ ~RecordCapture(s)
  <2>1. KeepsMoney
      BY <1>3, EventsKeepMoney DEF AppliesEvent
  <2>2. CASE payment' = payment
      BY <2>2
  <2>3. CASE payment' # payment
    <3>1. SettleRefund(s) \/ RecordProviderRefund(s) \/ ReleaseRefund(s)
        BY <1>3, <2>3 DEF AppliesEvent, PaymentEventApplied, RefundEventApplied, AttemptFailed, CaptureKept,
           RefundWasRecorded, RefundKept, RefundFailureKept, orderVars
    <3>2. \E q \in Attempts : \E c, d : payment' = AmountsMoved(q, c, d)
      <4>1. PaymentOf(f) \in Attempts /\ f.payment \in Attempts
          BY <3>1, DecidedFact, FactFields, FactPayment
             DEF SettleRefund, RecordProviderRefund, ReleaseRefund, Decides, TypeInv
      <4> QED
          BY <3>1, <4>1 DEF SettleRefund, RecordProviderRefund, ReleaseRefund
    <3> QED
        BY <3>2, AmountsMovedRow DEF TypeInv
  <2> QED
      BY <2>2, <2>3
<1> QED
    BY <1>1, <1>2, <1>3

\* What it does to the refunds: nothing, the end of one that is pending, or a new
\* one that is done.
LEMMA AppliedRefunds ==
  ASSUME TypeInv, NEW s \in Sessions, AppliesEvent(s), NEW r \in Refunds
  PROVE  \/ refund'[r] = refund[r]
         \/ /\ r = fact[session[s].event].refund
            /\ refund[r].status \in PendingRefund \cup {"NONE"}
            /\ refund'[r].status \in {"SUCCEEDED", "FAILED"}
<1> DEFINE f == fact[session[s].event]
<1>1. CASE SettleRefund(s) \/ ReleaseRefund(s)
  <2>1. /\ Decides(s, RefundTypes) /\ StatusToDecide(s) \in PendingRefund
        /\ \/ refund' = [refund EXCEPT ![f.refund].status = "SUCCEEDED"]
           \/ refund' = [refund EXCEPT ![f.refund].status = "FAILED"]
      BY <1>1 DEF SettleRefund, ReleaseRefund, Decides, RefundTypes
  <2>2. f.refund \in Refunds /\ refund[f.refund].status \in PendingRefund
      BY <2>1, RefundToDecide
  <2>3. refund[f.refund].status # "NONE"
      BY <2>2 DEF PendingRefund
  <2> HIDE DEF f
  <2>4. ASSUME NEW v \in {"SUCCEEDED", "FAILED"}, refund' = [refund EXCEPT ![f.refund].status = v]
        PROVE  refund'[f.refund].status = v /\ \A q \in Refunds : q # f.refund => refund'[q] = refund[q]
    <3>1. TypeOK
        BY DEF TypeInv
    <3>2. /\ [refund EXCEPT ![f.refund].status = v][f.refund].status = v
          /\ \A q \in Refunds : q # f.refund => [refund EXCEPT ![f.refund].status = v][q] = refund[q]
        BY <2>2, <2>3, <3>1, RefundWriteRow
    <3> QED
        BY <2>4, <3>2
  <2> QED
      BY <2>1, <2>2, <2>4 DEF f
<1>2. CASE RecordProviderRefund(s)
  <2>1. f.refund \in Refunds
      BY <1>2, DecidedFact, FactFields DEF RecordProviderRefund, Decides, RefundTypes
  <2>2. /\ refund[f.refund].status = "NONE"
        /\ refund' = [refund EXCEPT ![f.refund] = [status |-> "SUCCEEDED", payment |-> f.payment, amount |-> f.amount]]
      BY <1>2, <2>1 DEF RecordProviderRefund, NewReference, HasRefund
  <2> HIDE DEF f
  <2>3. refund'[f.refund].status = "SUCCEEDED" /\ \A q \in Refunds : q # f.refund => refund'[q] = refund[q]
      BY <2>1, <2>2 DEF TypeInv, TypeOK
  <2> QED
      BY <2>2, <2>3 DEF f
<1>3. CASE PaymentEventApplied(s)
    BY <1>3 DEF PaymentEventApplied, AttemptFailed, ClosePayment, CaptureKept, RecordCapture, orderVars
<1>4. CASE RefundWasRecorded(s) \/ RefundKept(s) \/ RefundFailureKept(s)
    BY <1>4 DEF RefundWasRecorded, RefundKept, RefundFailureKept, orderVars
<1> QED
    BY <1>1, <1>2, <1>3, <1>4 DEF AppliesEvent, RefundEventApplied

LEMMA AppliedSame ==
  ASSUME NEW s \in Sessions, AppliesEvent(s)
  PROVE  UNCHANGED <<fact, actionVars>>
<1>1. CASE PaymentEventApplied(s)
    BY <1>1 DEF PaymentEventApplied, AttemptFailed, ClosePayment, CaptureKept, RecordCapture, Finishes
<1>2. CASE SettleRefund(s) \/ RecordProviderRefund(s) \/ ReleaseRefund(s)
    BY <1>2 DEF SettleRefund, RecordProviderRefund, ReleaseRefund, Finishes
<1>3. CASE RefundWasRecorded(s) \/ RefundKept(s) \/ RefundFailureKept(s)
    BY <1>3 DEF RefundWasRecorded, RefundKept, RefundFailureKept, Finishes, eventVars
<1> QED
    BY <1>1, <1>2, <1>3 DEF AppliesEvent, RefundEventApplied

LEMMA AppliedExplained ==
  ASSUME TypeInv, Explained, NEW s \in Sessions, AppliesEvent(s)
  PROVE  Explained'
<1> DEFINE e == session[s].event
<1>1. /\ UNCHANGED <<fact, actionVars>> /\ session[s].pc = "decide" /\ e \in Events
      /\ event[e].status # "NONE"
    BY AppliedSame, AppliedEvent DEF TypeInv, EventsAreKnown
<1>2. ASSUME NEW p \in Attempts PROVE PaymentFollows(p)'
  <2>1. PaymentFollows(p) /\ action'[p] = action[p]
      BY <1>1 DEF Explained, actionVars
  <2>2. CASE payment'[p].status = payment[p].status
      BY <2>1, <2>2 DEF PaymentFollows
  <2>3. CASE payment[p].status \in CaptureAccepting /\ payment'[p].status \in Captured \cup Closed
    <3>1. payment[p].status # "REQUESTED"
        BY <2>3 DEF CaptureAccepting, Closable, Closed
    <3>2. payment'[p].status \notin {"REQUESTED", "OPENING", "UNKNOWN_OUTCOME", "OPEN"}
        BY <2>3 DEF Captured, Closed
    <3> QED
        BY <2>1, <3>1, <3>2 DEF PaymentFollows
  <2> QED
      BY <2>2, <2>3, AppliedPayments
<1>3. ASSUME NEW r \in OwnRefunds PROVE RefundFollows(r)'
  <2>1. RefundFollows(r) /\ action'[r] = action[r] /\ r \in Refunds
      BY <1>1 DEF Explained, actionVars, Refunds
  <2>2. CASE refund'[r] = refund[r]
      BY <2>1, <2>2 DEF RefundFollows
  <2>3. CASE r = fact[e].refund /\ refund'[r].status \in {"SUCCEEDED", "FAILED"}
    <3>1. action[r] \notin {"NONE", "PENDING"}
        BY <1>1, <2>3 DEF Explained, EventsWereSent
    <3> QED
        BY <2>1, <2>3, <3>1 DEF RefundFollows
  <2> QED
      BY <2>1, <2>2, <2>3, AppliedRefunds
<1>4. EventsWereSent'
  <2>1. \A x \in Events : event[x].status = "NONE" => event'[x].status = "NONE"
      BY <1>1, AppliedEvent
  <2> QED
      BY <1>1, <2>1, SameSitesStaySent DEF Explained
<1> QED
    BY <1>2, <1>3, <1>4 DEF Explained

LEMMA ExplainedStep == TypeInv /\ Explained /\ [Next]_vars => Explained'
<1> SUFFICES ASSUME TypeInv, Explained, [Next]_vars PROVE Explained'
    OBVIOUS
<1>1. ASSUME UNCHANGED <<orderVars, eventVars, actionVars>> PROVE Explained'
    BY <1>1 DEF Explained, PaymentFollows, RefundFollows, EventsWereSent, orderVars, eventVars, actionVars
<1>2. ASSUME NEW s \in Sessions, SessionStep(s) PROVE UNCHANGED <<orderVars, eventVars, actionVars>>
    BY <1>2 DEF SessionStep, Crash, AlreadyApplied, Claims, ApplyReads, RefundWasRecorded
<1>3. CASE UNCHANGED vars
    BY <1>1, <1>3 DEF vars, orderVars, eventVars, actionVars
<1>4. CASE ActionStep
    BY <1>4, OpeningsExplained, SendingsExplained DEF ActionStep
<1>5. CASE Next
    BY <1>1, <1>2, <1>4, <1>5, Steps, PeopleExplained, ArrivalsExplained, AppliedExplained DEF AppliesEvent
<1> QED
    BY <1>3, <1>5

LEMMA Explanations == Spec => [](Inv /\ OneApplier /\ Explained)
<1>1. Init => Explained
    BY DEF Init, Explained, PaymentFollows, RefundFollows, EventsWereSent, NoPayment, NoRow,
       Actions!LifecycleInit, Refunds
<1>2. Inv /\ Explained /\ [Next]_vars => Explained'
    BY ExplainedStep DEF Inv
<1> QED
    BY <1>1, <1>2, Appliers, PTL DEF Spec

\* A payment or refund that is alive is so because of where its action is, and
\* one that may have left is never taken for unsent: the observers and the events
\* never drift from the external actions.
THEOREM RowsFollow == Spec => []RowsFollowCalls
<1>1. Explained => RowsFollowCalls
    BY DEF Explained, PaymentFollows, RefundFollows, RowsFollowCalls
<1> QED
    BY <1>1, Explanations, PTL

-----------------------------------------------------------------------------
(* No capture is lost *)

\* Who decides on a capture holds the lock of the order: a payment it saw captured
\* still is, and it saw one that had left.
CapturesSeen ==
    \A s \in Sessions :
        session[s].pc = "decide" /\ fact[session[s].event].type = "payment.succeeded" =>
            /\ session[s].payment # "REQUESTED"
            /\ session[s].payment \in Captured =>
                 payment[fact[session[s].event].payment].status \in Captured

LEMMA CapturesSeenStep == Inv /\ Explained /\ CapturesSeen /\ [Next]_vars => CapturesSeen'
<1> SUFFICES ASSUME Inv, Explained, CapturesSeen, [Next]_vars, NEW s \in Sessions,
                    session'[s].pc = "decide",
                    fact'[session'[s].event].type = "payment.succeeded"
             PROVE  /\ session'[s].payment # "REQUESTED"
                    /\ session'[s].payment \in Captured =>
                         payment'[fact'[session'[s].event].payment].status \in Captured
    BY DEF CapturesSeen
<1> DEFINE e == session[s].event
<1>0. TypeInv
    BY DEF Inv
<1>1. session'[s] = session[s] \/ ApplyReads(s)
    BY <1>0, EventsAndSessions
<1>2. session'[s].event = e /\ session[s].pc # "idle"
    BY <1>0, <1>1 DEF ApplyReads, TypeInv, TypeOK
<1>3. e \in Events /\ event[e].status # "NONE" /\ fact'[e] = fact[e] /\ fact[e] \in Facts
    BY <1>0, <1>2, Applying, EventsAndSessions DEF TypeInv, EventsAreKnown
<1>4. fact[e].payment \in Attempts /\ fact[e].refund \notin Refunds
    BY <1>2, <1>3, FactFields, PaymentsAssumption DEF RefundTypes, Refunds
<1>5. payment[fact[e].payment].status \in Captured => payment'[fact[e].payment].status \in Captured
    BY <1>0, <1>4, MoneyStays
<1>6. CASE session'[s] = session[s]
    BY <1>2, <1>3, <1>5, <1>6 DEF CapturesSeen
<1>7. CASE ApplyReads(s)
  <2>1. ~session[s].found
      BY <1>4, <1>7 DEF ApplyReads, Inv, FoundStays, HasRefund
  <2>2. session'[s].payment = payment[fact[e].payment].status
      BY <1>0, <1>7, <2>1 DEF ApplyReads, TypeInv, TypeOK
  <2>3. payment[fact[e].payment].status # "REQUESTED"
      BY <1>3, <1>4 DEF Explained, EventsWereSent, PaymentFollows
  <2> QED
      BY <1>2, <1>3, <1>5, <2>2, <2>3
<1> QED
    BY <1>1, <1>6, <1>7

LEMMA CaptureApplied ==
  ASSUME TypeInv, CapturesSeen, NEW s \in Sessions, AppliesEvent(s),
         fact[session[s].event].type = "payment.succeeded", fact[session[s].event].amount # 0
  PROVE  LET p == fact[session[s].event].payment
             e == session[s].event
         IN  /\ payment'[p].status \in Captured
             /\ event'[e].status \in {"APPLIED", "STALE"} <=> payment'[p].captured = fact[e].amount
<1> DEFINE e == session[s].event
           f == fact[e]
           p == f.payment
<1>1. CaptureKept(s) \/ RecordCapture(s)
    BY DEF AppliesEvent, PaymentEventApplied, RefundEventApplied, AttemptFailed, ClosePayment, SettleRefund,
       RecordProviderRefund, RefundWasRecorded, RefundKept, ReleaseRefund, RefundFailureKept, Decides
<1>2. e \in Events /\ session[s].pc = "decide"
    BY AppliedEvent
<1>3. ASSUME NEW outcome \in Final, Finishes(s, outcome) PROVE event'[e].status = outcome
  <2>1. outcome \in EventStatuses /\ event' = [event EXCEPT ![e].status = outcome]
      BY <1>3 DEF Finishes, EventStatuses
  <2> HIDE DEF e
  <2> QED
      BY <1>2, <2>1, EventStatusWrite DEF TypeInv
<1>4. {"APPLIED", "STALE", "CONFLICT"} \subseteq Final
    BY DEF Final
<1>5. CASE CaptureKept(s)
  <2>1. session[s].payment # "REQUESTED"
      BY <1>2 DEF CapturesSeen
  <2>2. /\ session[s].payment \in Captured /\ payment' = payment
        /\ Finishes(s, IF payment[p].captured = f.amount THEN "STALE" ELSE "CONFLICT")
      BY <1>5, <2>1 DEF CaptureKept, orderVars
  <2>3. payment[p].status \in Captured
      BY <1>2, <2>2 DEF CapturesSeen
  <2>4. event'[e].status = IF payment[p].captured = f.amount THEN "STALE" ELSE "CONFLICT"
      BY <1>3, <1>4, <2>2
  <2> QED
      BY <2>2, <2>3, <2>4
<1>6. CASE RecordCapture(s)
  <2>1. payment'[p].status \in Captured /\ payment'[p].captured = f.amount
      BY <1>6, Recorded, CapturedStatus
  <2>2. event'[e].status = "APPLIED"
      BY <1>3, <1>4, <1>6 DEF RecordCapture
  <2> QED
      BY <2>1, <2>2
<1> QED
    BY <1>1, <1>5, <1>6

LEMMA NoCaptureIsLostStep ==
  Inv /\ OneApplier /\ CapturesSeen /\ NoCaptureIsLost /\ [Next]_vars => NoCaptureIsLost'
<1> SUFFICES ASSUME Inv, OneApplier, CapturesSeen, NoCaptureIsLost, [Next]_vars, NEW e \in Events,
                    event'[e].status \in Final, fact'[e].type = "payment.succeeded", fact'[e].amount # 0
             PROVE  LET p == fact'[e].payment
                    IN  /\ payment'[p].status \in Captured
                        /\ event'[e].status \in {"APPLIED", "STALE"} <=> payment'[p].captured = fact'[e].amount
    BY DEF NoCaptureIsLost
<1>0. TypeInv
    BY DEF Inv
<1>1. "RECEIVED" \notin Final /\ "NONE" \notin Final
    BY DEF Final
<1>2. CASE event'[e].status = event[e].status
  <2>1. event[e].status # "NONE" /\ fact'[e] = fact[e]
      BY <1>0, <1>1, <1>2, EventsAndSessions
  <2>2. fact[e].payment \in Attempts
      BY <1>0, <2>1, FactFields DEF TypeInv, EventsAreKnown
  <2>3. payment[fact[e].payment].status \in Captured
      BY <1>2, <2>1 DEF NoCaptureIsLost
  <2>4. /\ payment'[fact[e].payment].status \in Captured
        /\ payment'[fact[e].payment].captured = payment[fact[e].payment].captured
      BY <1>0, <2>2, <2>3, MoneyStays
  <2> QED
      BY <1>2, <2>1, <2>4 DEF NoCaptureIsLost
<1>3. ASSUME NEW s \in Sessions, AppliesEvent(s), session[s].event = e
      PROVE  LET p == fact'[e].payment
             IN  /\ payment'[p].status \in Captured
                 /\ event'[e].status \in {"APPLIED", "STALE"} <=> payment'[p].captured = fact'[e].amount
  <2>1. fact' = fact
      BY <1>3, AppliedSame
  <2> QED
      BY <1>0, <1>3, <2>1, CaptureApplied
<1> QED
    BY <1>0, <1>1, <1>2, <1>3, EventSteps

\* A capture the provider told us of, however late, repeated or out of order, is on
\* its payment once its event was processed, or contradicts another amount there.
THEOREM CapturesAreKept == Spec => []NoCaptureIsLost
<1>1. Init => CapturesSeen /\ NoCaptureIsLost
    BY DEF Init, CapturesSeen, NoCaptureIsLost, Idle, Final
<1>2. Inv /\ OneApplier /\ Explained /\ CapturesSeen /\ NoCaptureIsLost /\ [Next]_vars
        => CapturesSeen' /\ NoCaptureIsLost'
    BY CapturesSeenStep, NoCaptureIsLostStep
<1> QED
    BY <1>1, <1>2, Explanations, PTL DEF Spec

-----------------------------------------------------------------------------
(* Refunds fit: counting the cents of a payment *)

\* The cents of `p` by the refunds `f`, those of the refund `r` apart from the others.
CentsOf(f, p, S) ==
    {x \in Refunds \X (1..MaxAmount) :
        f[x[1]].status \in S /\ f[x[1]].payment = p /\ x[2] <= f[x[1]].amount}

CentsOfOthers(f, r, p, S) == {x \in CentsOf(f, p, S) : x[1] # r}

Part(f, r, p, S) == IF f[r].status \in S /\ f[r].payment = p THEN f[r].amount ELSE 0

\* What one refund counts, one element per cent.
Slice(r, n) == {r} \X (1..n)

RefundTable == [Refunds -> RefundRows \cup {NoRow}]

LEMMA CountedRow ==
  ASSUME NEW f \in RefundTable, NEW r \in Refunds, NEW S \in SUBSET RefundStatuses, f[r].status \in S
  PROVE  f[r].amount \in 1..MaxAmount
<1>1. f[r] \in RefundRows
    BY PaymentsKnown DEF RefundTable, NoRow
<1> QED
    BY <1>1 DEF RefundRows

LEMMA CentsSplit ==
  ASSUME NEW f \in RefundTable, NEW r \in Refunds, NEW p, NEW S \in SUBSET RefundStatuses
  PROVE  /\ Part(f, r, p, S) \in Nat
         /\ IsFiniteSet(CentsOfOthers(f, r, p, S))
         /\ Cardinality(CentsOfOthers(f, r, p, S)) \in Nat
         /\ Cardinality(CentsOf(f, p, S)) = Cardinality(CentsOfOthers(f, r, p, S)) + Part(f, r, p, S)
<1> DEFINE n == Part(f, r, p, S)
           Others == CentsOfOthers(f, r, p, S)
<1>1. n \in 0..MaxAmount /\ n \in Nat
    BY CountedRow, PaymentsAssumption DEF Part
<1>2. IsFiniteSet(Refunds \X (1..MaxAmount))
  <2>1. IsFiniteSet(Refunds) /\ MaxAmount \in Nat
      BY PaymentsAssumption DEF Refunds
  <2>2. IsFiniteSet(1..MaxAmount)
      BY <2>1, FS_Interval
  <2> QED
      BY <2>1, <2>2, FS_Product
<1>3. Others \in SUBSET (Refunds \X (1..MaxAmount))
    BY DEF CentsOfOthers, CentsOf
<1>4. IsFiniteSet(Others) /\ Cardinality(Others) \in Nat
    BY <1>2, <1>3, FS_Subset, FS_CardinalityType
<1>5. Others \cap Slice(r, n) = {}
    BY DEF CentsOfOthers, Slice
<1>6. CentsOf(f, p, S) = Others \cup Slice(r, n)
  <2>1. ASSUME NEW x \in CentsOf(f, p, S) PROVE x \in Others \cup Slice(r, n)
    <3>1. CASE x[1] = r
      <4>1. x = <<r, x[2]>> /\ x[2] \in 1..MaxAmount /\ x[2] <= n
          BY <2>1, <3>1 DEF CentsOf, Part
      <4>2. x[2] \in 1..n
          BY <1>1, <4>1, PaymentsAssumption
      <4> HIDE DEF n
      <4> QED
          BY <4>1, <4>2 DEF Slice
    <3>2. CASE x[1] # r
        BY <2>1, <3>2 DEF CentsOfOthers
    <3> QED
        BY <3>1, <3>2
  <2>2. ASSUME NEW i \in 1..n PROVE <<r, i>> \in CentsOf(f, p, S)
    <3>1. f[r].status \in S /\ f[r].payment = p /\ n = f[r].amount
        BY <2>2 DEF Part
    <3>2. i \in 1..MaxAmount /\ i <= f[r].amount
        BY <1>1, <2>2, <3>1, PaymentsAssumption
    <3> QED
        BY <3>1, <3>2 DEF CentsOf
  <2>3. Slice(r, n) \subseteq CentsOf(f, p, S)
      BY <2>2 DEF Slice
  <2>4. Others \subseteq CentsOf(f, p, S)
      BY DEF CentsOfOthers
  <2> QED
      BY <2>1, <2>3, <2>4
<1> HIDE DEF n, Others
<1>7. Cardinality(Others \cup Slice(r, n)) = Cardinality(Others) + n
  <2>1. IsFiniteSet({r}) /\ Cardinality({r}) = 1
      BY FS_Singleton
  <2>2. IsFiniteSet(Slice(r, n)) /\ Cardinality(Slice(r, n)) = n
    <3>1. IsFiniteSet(1..n) /\ Cardinality(1..n) = n
        BY <1>1, FS_Interval
    <3>2. IsFiniteSet({r} \X (1..n)) /\ Cardinality({r} \X (1..n)) = Cardinality({r}) * Cardinality(1..n)
        BY <2>1, <3>1, FS_Product
    <3> QED
        BY <1>1, <2>1, <3>1, <3>2 DEF Slice
  <2>3. Cardinality(Others \cup Slice(r, n)) =
          Cardinality(Others) + Cardinality(Slice(r, n)) - Cardinality(Others \cap Slice(r, n))
      BY <1>4, <2>2, FS_Union
  <2>4. Cardinality(Others \cap Slice(r, n)) = 0
      BY <1>5, FS_EmptySet
  <2> QED
      BY <1>1, <1>4, <2>2, <2>3, <2>4
<1> QED
    BY <1>1, <1>4, <1>6, <1>7 DEF n, Others

\* Changing one refund changes the cents of a payment by what that refund counts.
LEMMA CentsMoved ==
  ASSUME NEW f \in RefundTable, NEW g \in RefundTable, NEW r \in Refunds,
         \A q \in Refunds : q # r => g[q] = f[q],
         NEW p, NEW S \in SUBSET RefundStatuses
  PROVE  /\ Part(f, r, p, S) \in Nat /\ Part(g, r, p, S) \in Nat /\ Cardinality(CentsOf(f, p, S)) \in Nat
         /\ Cardinality(CentsOf(g, p, S)) = Cardinality(CentsOf(f, p, S)) - Part(f, r, p, S) + Part(g, r, p, S)
<1>1. CentsOfOthers(g, r, p, S) = CentsOfOthers(f, r, p, S)
    BY DEF CentsOfOthers, CentsOf
<1> QED
    BY <1>1, CentsSplit

\* The amounts of every payment follow a change of one refund.
FollowsAt(f, g, r, p) ==
    /\ payment'[p].committed = payment[p].committed - Part(f, r, p, Reserving) + Part(g, r, p, Reserving)
    /\ payment'[p].refunded = payment[p].refunded - Part(f, r, p, {"SUCCEEDED"}) + Part(g, r, p, {"SUCCEEDED"})
    /\ payment'[p].refunded <= payment'[p].committed
    /\ payment'[p].committed <= payment'[p].captured

Follows(f, g, r) == \A p \in Attempts : FollowsAt(f, g, r, p)

LEMMA Counted ==
  /\ RefundsFit <=> \A p \in Attempts :
        /\ payment[p].committed = Cardinality(CentsOf(refund, p, Reserving))
        /\ payment[p].refunded = Cardinality(CentsOf(refund, p, {"SUCCEEDED"}))
        /\ payment[p].refunded <= payment[p].committed
        /\ payment[p].committed <= payment[p].captured
  /\ RefundsFit' <=> \A p \in Attempts :
        /\ payment'[p].committed = Cardinality(CentsOf(refund', p, Reserving))
        /\ payment'[p].refunded = Cardinality(CentsOf(refund', p, {"SUCCEEDED"}))
        /\ payment'[p].refunded <= payment'[p].committed
        /\ payment'[p].committed <= payment'[p].captured
  BY DEF RefundsFit, Cents, CentsOf

LEMMA StillFits ==
  ASSUME TypeOK, refund' \in RefundTable, RefundsFit, NEW r \in Refunds,
         \A q \in Refunds : q # r => refund'[q] = refund[q],
         Follows(refund, refund', r)
  PROVE  RefundsFit'
<1>1. refund \in RefundTable /\ Reserving \in SUBSET RefundStatuses /\ {"SUCCEEDED"} \in SUBSET RefundStatuses
    BY DEF TypeOK, RefundTable, RefundStatuses, Reserving
<1> QED
    BY <1>1, Counted, CentsMoved DEF Follows, FollowsAt

\* A refund that was pending moves on, is confirmed or fails, and its payment with it.
LEMMA PendingFits ==
  ASSUME TypeInv, RefundsFit, NEW r \in Refunds, refund[r].status \in PendingRefund,
         NEW v \in RefundStatuses, refund' = [refund EXCEPT ![r].status = v],
         \/ v \in PendingRefund /\ payment' = payment
         \/ /\ v = "FAILED" /\ CanRelease(refund[r].payment, refund[r].amount)
            /\ payment' = AmountsMoved(refund[r].payment, -refund[r].amount, 0)
         \/ /\ v = "SUCCEEDED" /\ CanRelease(refund[r].payment, refund[r].amount)
            /\ payment' = AmountsMoved(refund[r].payment, 0, refund[r].amount)
  PROVE  RefundsFit'
<1> DEFINE o == refund[r].payment
           a == refund[r].amount
<1>0. TypeOK /\ refund[r].status # "NONE" /\ PendingRefund \subseteq RefundStatuses
    BY DEF TypeInv, PendingRefund, RefundStatuses, Reserving
<1>1. o \in Attempts /\ a \in 1..MaxAmount /\ a \in Nat
    BY <1>0, RefundRow, PaymentsAssumption
<1>2. refund' \in RefundTable
    BY <1>0, RefundWrite DEF RefundTable
<1>3. /\ refund'[r].status = v /\ refund'[r].payment = o /\ refund'[r].amount = a
      /\ \A q \in Refunds : q # r => refund'[q] = refund[q]
    BY <1>0, RefundWriteRow
<1>4. /\ refund[r].status \in Reserving /\ refund[r].status # "SUCCEEDED"
      /\ v \in Reserving <=> v # "FAILED"
      /\ v \in PendingRefund => v \notin {"FAILED", "SUCCEEDED"}
      /\ "FAILED" # "SUCCEEDED"
    BY PaymentsKnown DEF Reserving, PendingRefund
<1>5. ASSUME NEW p \in Attempts
      PROVE  /\ Part(refund, r, p, Reserving) = (IF p = o THEN a ELSE 0)
             /\ Part(refund, r, p, {"SUCCEEDED"}) = 0
             /\ Part(refund', r, p, Reserving) = (IF v # "FAILED" /\ p = o THEN a ELSE 0)
             /\ Part(refund', r, p, {"SUCCEEDED"}) = (IF v = "SUCCEEDED" /\ p = o THEN a ELSE 0)
    BY <1>3, <1>4 DEF Part
<1>6. \A p \in Attempts :
        /\ payment[p].captured \in Nat /\ payment[p].committed \in Nat /\ payment[p].refunded \in Nat
        /\ payment[p].refunded <= payment[p].committed /\ payment[p].committed <= payment[p].captured
    BY <1>0, PaymentFields DEF RefundsFit
<1>7. CanRelease(o, a) => a <= payment[o].committed - payment[o].refunded
    BY DEF CanRelease
<1> HIDE DEF o, a
<1>8. ASSUME v \in PendingRefund, payment' = payment PROVE Follows(refund, refund', r)
  <2> SUFFICES ASSUME NEW p \in Attempts PROVE FollowsAt(refund, refund', r, p)
      BY DEF Follows
  <2>1. /\ Part(refund', r, p, Reserving) = Part(refund, r, p, Reserving)
        /\ Part(refund', r, p, {"SUCCEEDED"}) = Part(refund, r, p, {"SUCCEEDED"})
      BY <1>3, <1>4, <1>8 DEF Part, o, a
  <2>2. Part(refund, r, p, Reserving) \in Nat /\ Part(refund, r, p, {"SUCCEEDED"}) \in Nat
      BY <1>1, <1>5
  <2> QED
      BY <1>6, <1>8, <2>1, <2>2 DEF FollowsAt
<1>9. ASSUME v = "FAILED", CanRelease(o, a), payment' = AmountsMoved(o, -a, 0)
      PROVE  Follows(refund, refund', r)
  <2>1. /\ \A q \in Attempts : q # o => payment'[q] = payment[q]
        /\ payment'[o].captured = payment[o].captured
        /\ payment'[o].committed = payment[o].committed + (-a)
        /\ payment'[o].refunded = payment[o].refunded + 0
      BY <1>0, <1>1, <1>9, AmountsMovedRow
  <2> QED
    <3> SUFFICES ASSUME NEW p \in Attempts PROVE FollowsAt(refund, refund', r, p)
        BY DEF Follows
    <3>1. CASE p # o
      <4>1. /\ Part(refund, r, p, Reserving) = 0 /\ Part(refund, r, p, {"SUCCEEDED"}) = 0
            /\ Part(refund', r, p, Reserving) = 0 /\ Part(refund', r, p, {"SUCCEEDED"}) = 0
          BY <1>5, <3>1
      <4> QED
          BY <1>6, <2>1, <3>1, <4>1 DEF FollowsAt
    <3>2. CASE p = o
      <4>1. /\ Part(refund, r, p, Reserving) = a /\ Part(refund, r, p, {"SUCCEEDED"}) = 0
            /\ Part(refund', r, p, Reserving) = 0 /\ Part(refund', r, p, {"SUCCEEDED"}) = 0
          BY <1>4, <1>5, <1>9, <3>2
      <4> QED
          BY <1>1, <1>6, <1>7, <1>9, <2>1, <3>2, <4>1 DEF FollowsAt
    <3> QED
        BY <3>1, <3>2
<1>10. ASSUME v = "SUCCEEDED", CanRelease(o, a), payment' = AmountsMoved(o, 0, a)
       PROVE  Follows(refund, refund', r)
  <2>1. /\ \A q \in Attempts : q # o => payment'[q] = payment[q]
        /\ payment'[o].captured = payment[o].captured
        /\ payment'[o].committed = payment[o].committed + 0
        /\ payment'[o].refunded = payment[o].refunded + a
      BY <1>0, <1>1, <1>10, AmountsMovedRow
  <2> QED
    <3> SUFFICES ASSUME NEW p \in Attempts PROVE FollowsAt(refund, refund', r, p)
        BY DEF Follows
    <3>1. CASE p # o
      <4>1. /\ Part(refund, r, p, Reserving) = 0 /\ Part(refund, r, p, {"SUCCEEDED"}) = 0
            /\ Part(refund', r, p, Reserving) = 0 /\ Part(refund', r, p, {"SUCCEEDED"}) = 0
          BY <1>5, <3>1
      <4> QED
          BY <1>6, <2>1, <3>1, <4>1 DEF FollowsAt
    <3>2. CASE p = o
      <4>1. /\ Part(refund, r, p, Reserving) = a /\ Part(refund, r, p, {"SUCCEEDED"}) = 0
            /\ Part(refund', r, p, Reserving) = a /\ Part(refund', r, p, {"SUCCEEDED"}) = a
          BY <1>4, <1>5, <1>10, <3>2
      <4> QED
          BY <1>1, <1>6, <1>7, <1>10, <2>1, <3>2, <4>1 DEF FollowsAt
    <3> QED
        BY <3>1, <3>2
<1>11. Follows(refund, refund', r)
    BY <1>8, <1>9, <1>10 DEF o, a
<1> QED
    BY <1>0, <1>2, <1>3, <1>11, StillFits

\* A new refund, of ours or of the provider, and what it sets aside.
LEMMA NewFits ==
  ASSUME TypeInv, RefundsFit, NEW r \in Refunds, refund[r].status = "NONE",
         NEW v \in {"REQUESTED", "SUCCEEDED"}, NEW p \in Attempts, NEW a \in 1..MaxAmount, CanReserve(p, a),
         refund' = [refund EXCEPT ![r] = [status |-> v, payment |-> p, amount |-> a]],
         payment' = AmountsMoved(p, a, IF v = "SUCCEEDED" THEN a ELSE 0)
  PROVE  RefundsFit'
<1>0. TypeOK /\ v \in RefundStatuses /\ a \in Nat
    BY PaymentsKnown, PaymentsAssumption DEF TypeInv
<1>1. refund' \in RefundTable
    BY <1>0, RefundCreate DEF RefundTable
<1>2. /\ refund'[r].status = v /\ refund'[r].payment = p /\ refund'[r].amount = a
      /\ \A q \in Refunds : q # r => refund'[q] = refund[q]
    BY <1>0 DEF TypeOK
<1>3. v \in Reserving /\ "NONE" \notin Reserving
    BY DEF Reserving, PendingRefund
<1>4. ASSUME NEW q \in Attempts
      PROVE  /\ Part(refund, r, q, Reserving) = 0 /\ Part(refund, r, q, {"SUCCEEDED"}) = 0
             /\ Part(refund', r, q, Reserving) = (IF q = p THEN a ELSE 0)
             /\ Part(refund', r, q, {"SUCCEEDED"}) = (IF v = "SUCCEEDED" /\ q = p THEN a ELSE 0)
    BY <1>2, <1>3 DEF Part
<1>5. \A q \in Attempts :
        /\ payment[q].captured \in Nat /\ payment[q].committed \in Nat /\ payment[q].refunded \in Nat
        /\ payment[q].refunded <= payment[q].committed /\ payment[q].committed <= payment[q].captured
    BY <1>0, PaymentFields DEF RefundsFit
<1>6. a <= payment[p].captured - payment[p].committed
    BY DEF CanReserve
<1> DEFINE d == IF v = "SUCCEEDED" THEN a ELSE 0
<1>7. /\ \A q \in Attempts : q # p => payment'[q] = payment[q]
      /\ payment'[p].captured = payment[p].captured
      /\ payment'[p].committed = payment[p].committed + a
      /\ payment'[p].refunded = payment[p].refunded + d
    BY <1>0, AmountsMovedRow
<1>8. Follows(refund, refund', r)
  <2> SUFFICES ASSUME NEW q \in Attempts PROVE FollowsAt(refund, refund', r, q)
      BY DEF Follows
  <2>1. d \in Nat /\ d <= a
      BY <1>0
  <2>2. CASE q # p
    <3>1. /\ Part(refund, r, q, Reserving) = 0 /\ Part(refund, r, q, {"SUCCEEDED"}) = 0
          /\ Part(refund', r, q, Reserving) = 0 /\ Part(refund', r, q, {"SUCCEEDED"}) = 0
        BY <1>4, <2>2
    <3> HIDE DEF d
    <3> QED
        BY <1>5, <1>7, <2>2, <3>1 DEF FollowsAt
  <2>3. CASE q = p
    <3>1. /\ Part(refund, r, q, Reserving) = 0 /\ Part(refund, r, q, {"SUCCEEDED"}) = 0
          /\ Part(refund', r, q, {"SUCCEEDED"}) = d /\ Part(refund', r, q, Reserving) = a
        BY <1>4, <2>3
    <3> HIDE DEF d
    <3> QED
        BY <1>0, <1>5, <1>6, <1>7, <2>1, <2>3, <3>1 DEF FollowsAt
  <2> QED
      BY <2>2, <2>3
<1> QED
    BY <1>0, <1>1, <1>2, <1>8, StillFits

\* A step that leaves the refunds and what is set aside alone.
LEMMA SameRefundsFit ==
  ASSUME RefundsFit, UNCHANGED refund,
         \A p \in Attempts :
           /\ payment'[p].committed = payment[p].committed
           /\ payment'[p].refunded = payment[p].refunded
           /\ payment'[p].committed <= payment'[p].captured
  PROVE  RefundsFit'
  BY Counted

LEMMA StatusKeepsAmounts ==
  ASSUME TypeInv, RefundsFit, NEW p \in Attempts, NEW v,
         UNCHANGED refund, payment' = [payment EXCEPT ![p].status = v] \/ payment' = payment
  PROVE  RefundsFit'
<1> DEFINE x == [payment[p] EXCEPT !.status = v]
<1>1. payment \in [Attempts -> Payments] /\ payment[p] \in Payments
    BY DEF TypeInv, TypeOK
<1>2. x.captured = payment[p].captured /\ x.committed = payment[p].committed /\ x.refunded = payment[p].refunded
    BY <1>1 DEF Payments
<1>3. payment' = [payment EXCEPT ![p] = x] \/ payment' = payment
    OBVIOUS
<1> HIDE DEF x
<1>4. \A q \in Attempts : /\ payment'[q].captured = payment[q].captured
                          /\ payment'[q].committed = payment[q].committed
                          /\ payment'[q].refunded = payment[q].refunded
    BY <1>1, <1>2, <1>3
<1>5. \A q \in Attempts : payment[q].committed <= payment[q].captured
    BY DEF RefundsFit
<1> QED
    BY <1>4, <1>5, SameRefundsFit

LEMMA PeopleFit ==
  ASSUME TypeInv, RefundsFit, PeopleStep
  PROVE  RefundsFit'
<1>1. CASE CancelOrder
    BY <1>1, Counted DEF CancelOrder
<1>2. ASSUME NEW p \in Attempts, StartAttempt(p) PROVE RefundsFit'
    BY <1>2, StatusKeepsAmounts DEF StartAttempt
<1>3. ASSUME NEW r \in OwnRefunds, NEW p \in Attempts, NEW a \in 1..MaxAmount, RequestRefund(r, p, a)
      PROVE  RefundsFit'
  <2>1. /\ r \in Refunds /\ refund[r].status = "NONE" /\ CanReserve(p, a)
        /\ refund' = [refund EXCEPT ![r] = [status |-> "REQUESTED", payment |-> p, amount |-> a]]
        /\ payment' = AmountsMoved(p, a, 0)
      BY <1>3 DEF RequestRefund, Refunds
  <2>2. payment' = AmountsMoved(p, a, IF "REQUESTED" = "SUCCEEDED" THEN a ELSE 0)
      BY <2>1
  <2> QED
      BY <2>1, <2>2, NewFits
<1> QED
    BY <1>1, <1>2, <1>3 DEF PeopleStep

LEMMA ActionsFit ==
  ASSUME TypeInv, RefundsFit, ActionStep
  PROVE  RefundsFit'
<1>1. ASSUME NEW p \in Attempts, OpenBegins(p) \/ OpenSucceeds(p) \/ OpenFails(p) \/ OpenIsLost(p)
      PROVE  RefundsFit'
  <2>1. PICK from, to : MovesPayment(p, from, to)
      BY <1>1 DEF OpenBegins, OpenSucceeds, OpenFails, OpenIsLost
  <2> QED
      BY <2>1, StatusKeepsAmounts DEF MovesPayment, StatusMoved
<1>2. ASSUME NEW r \in OwnRefunds, RefundBegins(r) \/ RefundAccepted(r) \/ RefundIsLost(r)
      PROVE  RefundsFit'
  <2>1. PICK from \in SUBSET PendingRefund, to \in PendingRefund : MovesRefund(r, from, to) /\ payment' = payment
    <3>1. /\ {"REQUESTED"} \in SUBSET PendingRefund /\ {"SENDING"} \in SUBSET PendingRefund
          /\ {"UNKNOWN_OUTCOME"} \in SUBSET PendingRefund
          /\ "SENDING" \in PendingRefund /\ "UNKNOWN_OUTCOME" \in PendingRefund
        BY DEF PendingRefund
    <3> QED
        BY <1>2, <3>1 DEF RefundBegins, RefundAccepted, RefundIsLost
  <2>2. CASE refund[r].status \in from
      BY <2>1, <2>2, PendingFits DEF MovesRefund, Refunds, RefundStatuses, Reserving
  <2>3. CASE refund[r].status \notin from
      BY <2>1, <2>3, Counted DEF MovesRefund
  <2> QED
      BY <2>2, <2>3
<1>3. ASSUME NEW r \in OwnRefunds, RefundFails(r) PROVE RefundsFit'
  <2>1. CASE refund[r].status \in PendingRefund
    <3>1. /\ r \in Refunds /\ "FAILED" \in RefundStatuses
          /\ CanRelease(refund[r].payment, refund[r].amount)
          /\ refund' = [refund EXCEPT ![r].status = "FAILED"]
          /\ payment' = AmountsMoved(refund[r].payment, -refund[r].amount, 0)
        BY <1>3, <2>1, PaymentsKnown DEF RefundFails, MovesRefund, Refunds
    <3> QED
        BY <2>1, <3>1, PendingFits
  <2>2. CASE refund[r].status \notin PendingRefund
      BY <1>3, <2>2, Counted DEF RefundFails, MovesRefund
  <2> QED
      BY <2>1, <2>2
<1> QED
    BY <1>1, <1>2, <1>3 DEF ActionStep

LEMMA PaymentEventsFit ==
  ASSUME TypeInv, RefundsFit, PaidByOneCapture, NEW s \in Sessions, PaymentEventApplied(s)
  PROVE  RefundsFit'
<1> DEFINE f == fact[session[s].event]
<1>1. CASE AttemptFailed(s) \/ CaptureKept(s)
    BY <1>1, Counted DEF AttemptFailed, CaptureKept, orderVars
<1>2. CASE ClosePayment(s)
  <2>1. f.payment \in Attempts
      BY <1>2, DecidedFact, FactFields DEF ClosePayment, Decides
  <2>2. UNCHANGED refund /\ \E v : payment' = [payment EXCEPT ![f.payment].status = v] \/ payment' = payment
      BY <1>2 DEF ClosePayment, StatusMoved
  <2> HIDE DEF f
  <2> QED
      BY <2>1, <2>2, StatusKeepsAmounts
<1>3. CASE RecordCapture(s)
  <2> DEFINE p == f.payment
             v == CaptureStatus(p, f.amount)
  <2>1. /\ p \in Attempts /\ f.amount \in Nat /\ payment[p].status \in CaptureAccepting /\ UNCHANGED refund
        /\ payment' = CaptureRecorded(p, v, f.amount)
      BY <1>3, DecidedFact, FactFields, PaymentsAssumption DEF RecordCapture, Decides
  <2>2. v \in PaymentStatuses
      BY CapturedStatus DEF PaymentStatuses
  <2>3. payment[p].status \notin Captured
      BY <2>1 DEF CaptureAccepting, Closable, Closed, Captured
  <2>4. \A q \in Attempts :
          /\ payment[q].captured \in Nat /\ payment[q].committed \in Nat
          /\ payment[q].captured > 0 => payment[q].status \in Captured
          /\ payment[q].committed <= payment[q].captured
      BY PaymentFields DEF PaidByOneCapture, RefundsFit, TypeInv
  <2> HIDE DEF f, p, v
  <2>5. /\ payment'[p].captured = f.amount /\ payment'[p].committed = payment[p].committed
        /\ payment'[p].refunded = payment[p].refunded
        /\ \A q \in Attempts : q # p => payment'[q] = payment[q]
      BY <2>1, <2>2, CaptureWrite DEF TypeInv
  <2>6. payment'[p].committed <= payment'[p].captured
      BY <2>1, <2>3, <2>4, <2>5
  <2> QED
      BY <2>1, <2>4, <2>5, <2>6, SameRefundsFit
<1> QED
    BY <1>1, <1>2, <1>3 DEF PaymentEventApplied

LEMMA RefundEventsFit ==
  ASSUME TypeInv, RefundsFit, NEW s \in Sessions, RefundEventApplied(s)
  PROVE  RefundsFit'
<1> DEFINE f == fact[session[s].event]
           r == f.refund
<1>1. CASE RefundWasRecorded(s) \/ RefundKept(s) \/ RefundFailureKept(s)
    BY <1>1, Counted DEF RefundWasRecorded, RefundKept, RefundFailureKept, orderVars
<1>2. CASE SettleRefund(s)
  <2>1. Decides(s, RefundTypes) /\ StatusToDecide(s) \in PendingRefund
      BY <1>2 DEF SettleRefund, Decides, RefundTypes
  <2>2. /\ r \in Refunds /\ refund[r].status \in PendingRefund /\ PaymentOf(f) = refund[r].payment
        /\ "SUCCEEDED" \in RefundStatuses
      BY <2>1, RefundToDecide, PaymentsKnown
  <2>3. /\ CanRelease(refund[r].payment, refund[r].amount)
        /\ refund' = [refund EXCEPT ![r].status = "SUCCEEDED"]
        /\ payment' = AmountsMoved(refund[r].payment, 0, refund[r].amount)
      BY <1>2, <2>2 DEF SettleRefund
  <2> HIDE DEF f, r
  <2> QED
      BY <2>2, <2>3, PendingFits
<1>3. CASE ReleaseRefund(s)
  <2>1. Decides(s, RefundTypes) /\ StatusToDecide(s) \in PendingRefund
      BY <1>3 DEF ReleaseRefund, Decides, RefundTypes
  <2>2. /\ r \in Refunds /\ refund[r].status \in PendingRefund /\ PaymentOf(f) = refund[r].payment
        /\ "FAILED" \in RefundStatuses
      BY <2>1, RefundToDecide, PaymentsKnown
  <2>3. /\ CanRelease(refund[r].payment, refund[r].amount)
        /\ refund' = [refund EXCEPT ![r].status = "FAILED"]
        /\ payment' = AmountsMoved(refund[r].payment, -refund[r].amount, 0)
      BY <1>3, <2>2 DEF ReleaseRefund
  <2> HIDE DEF f, r
  <2> QED
      BY <2>2, <2>3, PendingFits
<1>4. CASE RecordProviderRefund(s)
  <2>1. f.payment \in Attempts /\ r \in Refunds /\ f.amount \in 0..MaxAmount /\ f.amount # 0
      BY <1>4, DecidedFact, FactFields DEF RecordProviderRefund, Decides, RefundTypes
  <2>2. f.amount \in 1..MaxAmount
      BY <2>1, PaymentsAssumption
  <2>3. /\ refund[r].status = "NONE" /\ CanReserve(f.payment, f.amount)
        /\ refund' = [refund EXCEPT ![r] = [status |-> "SUCCEEDED", payment |-> f.payment, amount |-> f.amount]]
        /\ payment' = AmountsMoved(f.payment, f.amount, f.amount)
      BY <1>4, <2>1 DEF RecordProviderRefund, NewReference, HasRefund
  <2> HIDE DEF f, r
  <2>4. payment' = AmountsMoved(f.payment, f.amount, IF "SUCCEEDED" = "SUCCEEDED" THEN f.amount ELSE 0)
      BY <2>3
  <2> QED
      BY <2>1, <2>2, <2>3, <2>4, NewFits
<1> QED
    BY <1>1, <1>2, <1>3, <1>4 DEF RefundEventApplied

LEMMA RefundsFitStep == TypeInv /\ PaidByOneCapture /\ RefundsFit /\ [Next]_vars => RefundsFit'
<1> SUFFICES ASSUME TypeInv, PaidByOneCapture, RefundsFit, [Next]_vars PROVE RefundsFit'
    OBVIOUS
<1>1. ASSUME UNCHANGED <<payment, refund>> PROVE RefundsFit'
    BY <1>1, Counted
<1>2. ASSUME Arrival PROVE UNCHANGED <<payment, refund>>
    BY <1>2 DEF Arrival, Receive, Redeliver, RetryEvent, ClaimAttempt, orderVars
<1>3. ASSUME NEW s \in Sessions, SessionStep(s) PROVE UNCHANGED <<payment, refund>>
    BY <1>3 DEF SessionStep, Crash, AlreadyApplied, Claims, ApplyReads, RefundWasRecorded, orderVars
<1>4. CASE UNCHANGED vars
    BY <1>1, <1>4 DEF vars
<1>5. CASE Next
    BY <1>1, <1>2, <1>3, <1>5, Steps, PeopleFit, ActionsFit, PaymentEventsFit, RefundEventsFit
<1> QED
    BY <1>4, <1>5

LEMMA RefundsFitInit == Init => RefundsFit
<1> SUFFICES ASSUME Init PROVE RefundsFit
    OBVIOUS
<1>1. "NONE" \notin Reserving \cup {"SUCCEEDED"}
    BY DEF Reserving, PendingRefund
<1>2. \A p \in Attempts : CentsOf(refund, p, Reserving) = {} /\ CentsOf(refund, p, {"SUCCEEDED"}) = {}
    BY <1>1 DEF Init, NoRow, CentsOf
<1>3. Cardinality({}) = 0
    BY FS_EmptySet
<1>4. \A p \in Attempts : payment[p].committed = 0 /\ payment[p].refunded = 0 /\ payment[p].captured = 0
    BY DEF Init, NoPayment
<1>5. \A p \in Attempts : /\ Cardinality(CentsOf(refund, p, Reserving)) = 0
                          /\ Cardinality(CentsOf(refund, p, {"SUCCEEDED"})) = 0
    BY <1>2, <1>3
<1> HIDE DEF Init
<1> QED
    BY <1>4, <1>5, Counted

LEMMA Fitting == Spec => [](Inv /\ PaidByOneCapture /\ RefundsFit)
<1>1. Inv /\ PaidByOneCapture /\ RefundsFit /\ [Next]_vars => RefundsFit'
    BY RefundsFitStep DEF Inv
<1> QED
    BY <1>1, RefundsFitInit, Invariance, OneCanonicalCapture, PTL DEF Spec

\* What a payment has set aside and refunded is what its refunds say, and never more
\* than was captured: neither our refunds nor those of the provider, confirmed by
\* an event or released by an observer, are ever counted twice or left out.
THEOREM RefundsNeverExceed == Spec => []RefundsFit
  BY Fitting, PTL

-----------------------------------------------------------------------------
(* No decision goes stale for good *)

\* One session at a time decides, and an attempt it saw able to take a capture
\* still is: observers only move it among the statuses that take one.
OneDecider == \A s, t \in Sessions : session[s].pc = "decide" /\ session[t].pc = "decide" => s = t

CapturesTaken ==
    \A s \in Sessions :
        (/\ session[s].pc = "decide"
         /\ fact[session[s].event].type = "payment.succeeded"
         /\ session[s].payment \in CaptureAccepting) =>
            payment[fact[session[s].event].payment].status \in CaptureAccepting

LEMMA OneDeciderStep == TypeInv /\ OneDecider /\ [Next]_vars => OneDecider'
<1> SUFFICES ASSUME TypeInv, OneDecider, [Next]_vars, NEW s \in Sessions, NEW t \in Sessions,
                    session'[s].pc = "decide", session'[t].pc = "decide", s # t
             PROVE  FALSE
    BY DEF OneDecider
<1>1. ASSUME NEW x \in Sessions, session'[x].pc = "decide"
      PROVE  session[x].pc = "decide" \/ ApplyReads(x)
    BY <1>1, EventsAndSessions DEF Claims
<1>2. ASSUME NEW x \in Sessions, ApplyReads(x), NEW y \in Sessions, y # x PROVE session'[y].pc # "decide"
    BY <1>2 DEF ApplyReads, OrderIsFree, TypeInv, TypeOK
<1>3. session[s].pc = "decide" /\ session[t].pc = "decide"
    BY <1>1, <1>2
<1> QED
    BY <1>3 DEF OneDecider

\* What a step of an action, or of a person, does to an attempt that takes captures.
LEMMA OthersKeepAccepting ==
  ASSUME TypeInv, NEW p \in Attempts, payment[p].status \in CaptureAccepting, ActionStep \/ PeopleStep
  PROVE  payment'[p].status \in CaptureAccepting
<1>1. ASSUME NEW q \in Attempts, OpenBegins(q) \/ OpenSucceeds(q) \/ OpenFails(q) \/ OpenIsLost(q)
      PROVE  payment'[p].status \in CaptureAccepting
  <2>1. {"OPENING", "OPEN", "FAILED", "UNKNOWN_OUTCOME"} \subseteq CaptureAccepting
      BY DEF CaptureAccepting, Closable, Closed
  <2>2. PICK to \in CaptureAccepting : \E from : MovesPayment(q, from, to)
      BY <1>1, <2>1 DEF OpenBegins, OpenSucceeds, OpenFails, OpenIsLost
  <2> QED
      BY <2>2, MovedPayment
<1>2. ASSUME NEW r \in OwnRefunds, RefundBegins(r) \/ RefundAccepted(r) \/ RefundFails(r) \/ RefundIsLost(r)
      PROVE  payment'[p].status = payment[p].status
  <2>1. CASE payment' = payment
      BY <2>1
  <2>2. CASE payment' # payment
    <3>1. RefundFails(r) /\ refund[r].status \in PendingRefund
        BY <1>2, <2>2 DEF RefundBegins, RefundAccepted, RefundFails, RefundIsLost
    <3>2. refund[r].payment \in Attempts
        BY <3>1, RefundRow DEF PendingRefund, TypeInv, Refunds
    <3> QED
        BY <3>1, <3>2, AmountsMovedRow DEF RefundFails, TypeInv
  <2> QED
      BY <2>1, <2>2
<1>3. ASSUME NEW q \in Attempts, StartAttempt(q) PROVE payment'[p] = payment[p]
    BY <1>3, Started DEF CaptureAccepting, Closable, Closed
<1>4. ASSUME NEW r \in OwnRefunds, NEW q \in Attempts, NEW a \in 1..MaxAmount, RequestRefund(r, q, a)
      PROVE  payment'[p].status = payment[p].status
    BY <1>4, AmountsMovedRow DEF RequestRefund, TypeInv
<1> QED
    BY <1>1, <1>2, <1>3, <1>4 DEF ActionStep, PeopleStep, CancelOrder

LEMMA CapturesTakenStep == Inv /\ OneDecider /\ CapturesTaken /\ [Next]_vars => CapturesTaken'
<1> SUFFICES ASSUME Inv, OneDecider, CapturesTaken, [Next]_vars, NEW s \in Sessions,
                    session'[s].pc = "decide",
                    fact'[session'[s].event].type = "payment.succeeded",
                    session'[s].payment \in CaptureAccepting
             PROVE  payment'[fact'[session'[s].event].payment].status \in CaptureAccepting
    BY DEF CapturesTaken
<1> DEFINE e == session[s].event
           p == fact[e].payment
<1>0. TypeInv
    BY DEF Inv
<1>1. session'[s] = session[s] \/ ApplyReads(s)
    BY <1>0, EventsAndSessions
<1>2. session'[s].event = e /\ session[s].pc # "idle"
    BY <1>0, <1>1 DEF ApplyReads, TypeInv, TypeOK
<1>3. e \in Events /\ fact'[e] = fact[e] /\ fact[e] \in Facts
    BY <1>0, <1>2, Applying, EventsAndSessions DEF TypeInv, EventsAreKnown
<1>4. p \in Attempts /\ fact[e].refund \notin Refunds
    BY <1>2, <1>3, FactFields, PaymentsAssumption DEF RefundTypes, Refunds
<1>5. CASE ApplyReads(s)
  <2>1. ~session[s].found
      BY <1>4, <1>5 DEF ApplyReads, Inv, FoundStays, HasRefund
  <2>2. session'[s].payment = payment[p].status /\ payment' = payment
      BY <1>0, <1>5, <2>1 DEF ApplyReads, TypeInv, TypeOK, orderVars
  <2> QED
      BY <1>2, <1>3, <2>2
<1>6. CASE session'[s] = session[s]
  <2>1. session[s].pc = "decide" /\ payment[p].status \in CaptureAccepting
      BY <1>2, <1>3, <1>6 DEF CapturesTaken
  <2>2. ASSUME NEW t \in Sessions, AppliesEvent(t) PROVE FALSE
    <3>1. session[t].pc = "decide" /\ session'[t].pc = "idle"
        BY <1>0, <2>2, AppliedEvent DEF Idle
    <3> QED
        BY <1>6, <2>1, <3>1 DEF OneDecider
  <2>3. ASSUME NEW t \in Sessions, SessionStep(t) PROVE payment' = payment
      BY <2>3 DEF SessionStep, Crash, AlreadyApplied, Claims, ApplyReads, RefundWasRecorded, orderVars
  <2>4. ASSUME Arrival PROVE payment' = payment
      BY <2>4 DEF Arrival, Receive, Redeliver, RetryEvent, ClaimAttempt, orderVars
  <2>5. payment'[p].status \in CaptureAccepting
    <3>1. CASE UNCHANGED vars
        BY <2>1, <3>1 DEF vars
    <3>2. CASE Next
        BY <1>0, <1>4, <2>1, <2>2, <2>3, <2>4, <3>2, Steps, OthersKeepAccepting DEF AppliesEvent
    <3> QED
        BY <3>1, <3>2
  <2> QED
      BY <1>2, <1>3, <2>5
<1> QED
    BY <1>1, <1>5, <1>6

\* A refund that is pending can always be settled or released.
LEMMA PendingCanMove ==
  ASSUME TypeInv, RefundsFit, NEW r \in Refunds, refund[r].status \in PendingRefund
  PROVE  CanRelease(refund[r].payment, refund[r].amount)
<1> DEFINE o == refund[r].payment
           a == refund[r].amount
<1>0. refund \in RefundTable /\ Reserving \in SUBSET RefundStatuses /\ {"SUCCEEDED"} \in SUBSET RefundStatuses
    BY DEF TypeInv, TypeOK, RefundTable, RefundStatuses, Reserving
<1>1. /\ o \in Attempts /\ a \in Nat
      /\ refund[r].status \in Reserving /\ refund[r].status # "SUCCEEDED"
    BY RefundRow, PaymentsAssumption DEF TypeInv, Reserving, PendingRefund
<1>2. Part(refund, r, o, Reserving) = a /\ Part(refund, r, o, {"SUCCEEDED"}) = 0
    BY <1>1 DEF Part
<1> DEFINE Kept == CentsOfOthers(refund, r, o, Reserving)
           Done == CentsOfOthers(refund, r, o, {"SUCCEEDED"})
<1>3. /\ IsFiniteSet(Kept) /\ Cardinality(Kept) \in Nat
      /\ Cardinality(CentsOf(refund, o, Reserving)) = Cardinality(Kept) + a
    BY <1>0, <1>2, CentsSplit
<1>4. /\ Cardinality(Done) \in Nat
      /\ Cardinality(CentsOf(refund, o, {"SUCCEEDED"})) = Cardinality(Done) + 0
    BY <1>0, <1>2, CentsSplit
<1>5. Done \in SUBSET Kept
    BY DEF CentsOfOthers, CentsOf, Reserving
<1>6. Cardinality(Done) <= Cardinality(Kept)
    BY <1>3, <1>5, FS_Subset
<1>7. /\ payment[o].committed = Cardinality(CentsOf(refund, o, Reserving))
      /\ payment[o].refunded = Cardinality(CentsOf(refund, o, {"SUCCEEDED"}))
    BY <1>1, Counted
<1> HIDE DEF o, a, Kept, Done
<1>8. a <= payment[o].committed - payment[o].refunded
    BY <1>1, <1>3, <1>4, <1>6, <1>7
<1> QED
    BY <1>8 DEF CanRelease, o, a

\* Whoever applies an event never finds that what it decided on has become
\* impossible: the errors of the code that roll such an event back are never raised,
\* so no event is left to fail again and again against the observers.
THEOREM ApplyIsTotal == Spec => []ApplyNeverRaises
<1>1. Init => OneDecider /\ CapturesTaken
    BY DEF Init, OneDecider, CapturesTaken, Idle
<1>2. Inv /\ OneDecider /\ CapturesTaken /\ [Next]_vars => OneDecider' /\ CapturesTaken'
    BY OneDeciderStep, CapturesTakenStep DEF Inv
<1>3. Inv /\ RefundsFit /\ CapturesTaken => ApplyNeverRaises
  <2> SUFFICES ASSUME TypeInv, RefundsFit, CapturesTaken, NEW s \in Sessions, Raises(s) PROVE FALSE
      BY DEF ApplyNeverRaises, Inv
  <2> DEFINE f == fact[session[s].event]
  <2>1. CASE Decides(s, {"payment.succeeded"})
      BY <2>1 DEF Raises, Decides, CapturesTaken, RefundTypes
  <2>2. CASE /\ Decides(s, RefundTypes)
             /\ StatusToDecide(s) \in PendingRefund
             /\ \/ refund[f.refund].status \notin PendingRefund
                \/ ~CanRelease(refund[f.refund].payment, refund[f.refund].amount)
      BY <2>2, RefundToDecide, PendingCanMove
  <2> QED
      BY <2>1, <2>2 DEF Raises
<1> QED
    BY <1>1, <1>2, <1>3, Fitting, PTL DEF Spec

-----------------------------------------------------------------------------
(* The revenue ledger says what the payments and the refunds say *)

CapturesOf(p) == {x \in entries : x.kind = "CAPTURE" /\ x.payment = p}
RefundsOf(r) == {x \in entries : x.refund = r}

\* An entry is of an event that was applied, and says what its rows say.
EntryMatches(x) ==
    /\ event[x.event].status = "APPLIED"
    /\ x.class = payment[x.payment].status
    /\ x.kind = "CAPTURE" => x.refund = NoRefund /\ x.amount = payment[x.payment].captured
    /\ x.kind = "REFUND" => /\ x.refund \in Refunds
                            /\ refund[x.refund].status = "SUCCEEDED"
                            /\ refund[x.refund].payment = x.payment
                            /\ refund[x.refund].amount = x.amount

Bookkeeping ==
    /\ \A x \in entries : EntryMatches(x)
    /\ \A x, y \in entries : x # y => x.event # y.event
    /\ \A p \in Attempts : payment[p].status \in Captured => \E x \in entries : CapturesOf(p) = {x}
    /\ \A r \in Refunds : refund[r].status = "SUCCEEDED" => \E x \in entries : RefundsOf(r) = {x}

LEMMA BooksMatch == Bookkeeping => EntriesMatchMoney
<1> SUFFICES ASSUME Bookkeeping PROVE EntriesMatchMoney
    OBVIOUS
<1>1. \A S, x : S = {x} => Cardinality(S) = 1
    BY FS_Singleton
<1>2. ASSUME NEW p \in Attempts, payment[p].status \in Captured
      PROVE  Cardinality({x \in entries : x.kind = "CAPTURE" /\ x.payment = p}) = 1
    BY <1>1, <1>2 DEF Bookkeeping, CapturesOf
<1>3. ASSUME NEW r \in Refunds, refund[r].status = "SUCCEEDED"
      PROVE  Cardinality({x \in entries : x.refund = r}) = 1
    BY <1>1, <1>3 DEF Bookkeeping, RefundsOf
<1>4. \A x \in entries :
         /\ event[x.event].status = "APPLIED"
         /\ \A y \in entries : x # y => x.event # y.event
         /\ x.class = payment[x.payment].status
         /\ x.kind = "CAPTURE" => x.amount = payment[x.payment].captured
         /\ x.kind = "REFUND" => /\ refund[x.refund].status = "SUCCEEDED"
                                 /\ refund[x.refund].payment = x.payment
                                 /\ refund[x.refund].amount = x.amount
    BY DEF Bookkeeping, EntryMatches
<1> QED
    BY <1>2, <1>3, <1>4 DEF EntriesMatchMoney

LEMMA EntryFields ==
  ASSUME NEW x \in Entries
  PROVE  /\ x.kind \in {"CAPTURE", "REFUND"} /\ x.class \in Captured
         /\ x.event \in Events /\ x.payment \in Attempts
  BY DEF Entries

\* An entry that was made stays right.
LEMMA EntriesStayRight ==
  ASSUME TypeInv, OneApplier, [Next]_vars, NEW x \in Entries, EntryMatches(x)
  PROVE  EntryMatches(x)'
<1>1. event'[x.event].status = "APPLIED"
  <2>1. event[x.event].status \in Final
      BY DEF EntryMatches, Final
  <2> QED
      BY <2>1, EntryFields, FinalEventsStay DEF EntryMatches
<1>2. payment'[x.payment].status = payment[x.payment].status /\ payment'[x.payment].captured = payment[x.payment].captured
    BY EntryFields, MoneyStays DEF EntryMatches
<1>3. x.kind = "REFUND" => refund'[x.refund] = refund[x.refund]
    BY ClosedRefundsStay DEF EntryMatches
<1> QED
    BY <1>1, <1>2, <1>3 DEF EntryMatches

\* A step that records no money leaves the ledger right.
LEMMA NothingBooked ==
  ASSUME TypeInv, OneApplier, [Next]_vars, Bookkeeping, UNCHANGED entries,
         \A p \in Attempts : payment'[p].status \in Captured => payment[p].status \in Captured,
         \A r \in Refunds : refund'[r].status = "SUCCEEDED" => refund[r].status = "SUCCEEDED"
  PROVE  Bookkeeping'
<1>1. entries \subseteq Entries
    BY DEF TypeInv, TypeOK
<1>2. \A x \in entries' : EntryMatches(x)'
    BY <1>1, EntriesStayRight DEF Bookkeeping
<1>3. \A p : CapturesOf(p)' = CapturesOf(p)
    BY DEF CapturesOf
<1>4. \A r : RefundsOf(r)' = RefundsOf(r)
    BY DEF RefundsOf
<1> QED
    BY <1>2, <1>3, <1>4 DEF Bookkeeping

\* A step that records one capture, or concludes one refund, with its entry.
LEMMA OneBooked ==
  ASSUME TypeInv, OneApplier, [Next]_vars, Bookkeeping, NEW y \in Entries, entries' = entries \cup {y},
         event[y.event].status = "RECEIVED", EntryMatches(y)',
         y.kind = "CAPTURE" => payment[y.payment].status \notin Captured,
         y.kind = "REFUND" => refund[y.refund].status # "SUCCEEDED",
         \A p \in Attempts : payment'[p].status \in Captured =>
            payment[p].status \in Captured \/ (y.kind = "CAPTURE" /\ y.payment = p),
         \A r \in Refunds : refund'[r].status = "SUCCEEDED" =>
            refund[r].status = "SUCCEEDED" \/ (y.kind = "REFUND" /\ y.refund = r)
  PROVE  Bookkeeping'
<1>0. entries \subseteq Entries
    BY DEF TypeInv, TypeOK
<1>1. \A x \in entries' : EntryMatches(x)'
    BY <1>0, EntriesStayRight DEF Bookkeeping
<1>2. \A x \in entries : x.event # y.event
    BY DEF Bookkeeping, EntryMatches
<1>3. \A x, z \in entries' : x # z => x.event # z.event
    BY <1>2 DEF Bookkeeping
<1>4. ASSUME NEW p \in Attempts, payment'[p].status \in Captured
      PROVE  \E x \in entries' : CapturesOf(p)' = {x}
  <2>1. CASE y.kind = "CAPTURE" /\ y.payment = p
    <3>1. CapturesOf(p) = {}
        BY <1>0, <2>1, EntryFields DEF CapturesOf, Bookkeeping, EntryMatches
    <3>2. CapturesOf(p)' = {y}
        BY <2>1, <3>1 DEF CapturesOf
    <3> QED
        BY <3>2
  <2>2. CASE ~(y.kind = "CAPTURE" /\ y.payment = p)
    <3>1. CapturesOf(p)' = CapturesOf(p)
        BY <2>2 DEF CapturesOf
    <3> QED
        BY <1>4, <2>2, <3>1 DEF Bookkeeping
  <2> QED
      BY <2>1, <2>2
<1>5. ASSUME NEW r \in Refunds, refund'[r].status = "SUCCEEDED"
      PROVE  \E x \in entries' : RefundsOf(r)' = {x}
  <2>0. NoRefund \notin Refunds
      BY PaymentsAssumption DEF Refunds
  <2>1. CASE y.kind = "REFUND" /\ y.refund = r
    <3>1. RefundsOf(r) = {}
        BY <1>0, <2>0, <2>1, EntryFields DEF RefundsOf, Bookkeeping, EntryMatches
    <3>2. RefundsOf(r)' = {y}
        BY <2>1, <3>1 DEF RefundsOf
    <3> QED
        BY <3>2
  <2>2. CASE ~(y.kind = "REFUND" /\ y.refund = r)
    <3>1. y.refund # r
        BY <2>0, <2>2, EntryFields DEF EntryMatches
    <3>2. RefundsOf(r)' = RefundsOf(r)
        BY <3>1 DEF RefundsOf
    <3> QED
        BY <1>5, <2>2, <3>2 DEF Bookkeeping
  <2> QED
      BY <2>1, <2>2
<1> QED
    BY <1>1, <1>3, <1>4, <1>5 DEF Bookkeeping

\* What concludes an event that is being applied.
LEMMA FinishedEvent ==
  ASSUME TypeInv, OneApplier, NEW s \in Sessions, session[s].pc = "decide", Finishes(s, "APPLIED")
  PROVE  /\ session[s].event \in Events
         /\ event[session[s].event].status = "RECEIVED"
         /\ event'[session[s].event].status = "APPLIED"
<1>1. session[s].event \in Events
    BY Deciding DEF TypeInv
<1>2. "APPLIED" \in EventStatuses
    BY DEF EventStatuses, Final
<1> QED
    BY <1>1, <1>2, EventStatusWrite DEF Finishes, OneApplier, Holding, TypeInv

LEMMA CaptureBooked ==
  ASSUME TypeInv, OneApplier, [Next]_vars, Bookkeeping, NEW s \in Sessions, RecordCapture(s)
  PROVE  Bookkeeping'
<1> DEFINE e == session[s].event
           f == fact[e]
           p == f.payment
           status == CaptureStatus(p, f.amount)
           y == Entry("CAPTURE", status, e, p, NoRefund, f.amount)
<1>1. /\ entries' = entries \cup {y} /\ UNCHANGED refund
      /\ session[s].pc = "decide" /\ Finishes(s, "APPLIED")
    BY DEF RecordCapture, Decides
<1>2. e \in Events /\ event[e].status = "RECEIVED" /\ event'[e].status = "APPLIED"
    BY <1>1, FinishedEvent
<1>3. /\ p \in Attempts /\ f.amount \in 1..MaxAmount /\ payment[p].status \in CaptureAccepting
      /\ payment'[p].status = status /\ payment'[p].captured = f.amount
      /\ \A q \in Attempts : q # p => payment'[q] = payment[q]
    BY Recorded
<1>4. status \in Captured
    BY CapturedStatus
<1>5. payment[p].status \notin Captured
    BY <1>3 DEF CaptureAccepting, Closable, Closed, Captured
<1> HIDE DEF status, f, e
<1>6. /\ y.kind = "CAPTURE" /\ y.class = status /\ y.event = e /\ y.payment = p
      /\ y.refund = NoRefund /\ y.amount = f.amount
    BY DEF Entry
<1>7. y \in Entries
    BY <1>2, <1>3, <1>4, PaymentsAssumption DEF Entry, Entries
<1> HIDE DEF y
<1>8. PICK booked \in Entries : booked = y
    BY <1>7
<1>9. EntryMatches(booked)'
    BY <1>2, <1>3, <1>6, <1>8 DEF EntryMatches
<1> QED
    BY <1>1, <1>2, <1>3, <1>5, <1>6, <1>8, <1>9, OneBooked

\* The class of a refund is that of the one capture of its payment.
LEMMA RefundClass ==
  ASSUME TypeInv, Bookkeeping, NEW p \in Attempts, payment[p].status \in Captured, NEW e, NEW r, NEW a
  PROVE  RefundEntry(e, p, r, a) = {Entry("REFUND", payment[p].status, e, p, r, a)}
<1>1. PICK x \in entries : CapturesOf(p) = {x}
    BY DEF Bookkeeping
<1>2. x \in entries /\ x.kind = "CAPTURE" /\ x.payment = p
    BY <1>1 DEF CapturesOf
<1>3. \A z \in entries : z.payment = p => z.class = payment[p].status
    BY DEF Bookkeeping, EntryMatches
<1>4. ClassOf(p) = payment[p].status
    BY <1>2, <1>3 DEF ClassOf
<1> QED
    BY <1>2, <1>4 DEF RefundEntry

\* Only a captured payment has something set aside.
LEMMA SetAsideIsCaptured ==
  ASSUME TypeInv, RefundsFit, PaidByOneCapture, NEW p \in Attempts, NEW a \in 1..MaxAmount, CanRelease(p, a)
  PROVE  payment[p].status \in Captured
<1>1. payment[p].captured \in Nat /\ payment[p].committed \in Nat /\ payment[p].refunded \in Nat
    BY PaymentFields DEF TypeInv
<1>2. a \in Nat /\ a > 0
    BY PaymentsAssumption
<1>3. payment[p].captured > 0
    BY <1>1, <1>2 DEF CanRelease, RefundsFit
<1> QED
    BY <1>3 DEF PaidByOneCapture

LEMMA RefundBooked ==
  ASSUME TypeInv, OneApplier, RefundsFit, PaidByOneCapture, [Next]_vars, Bookkeeping, NEW s \in Sessions,
         SettleRefund(s) \/ RecordProviderRefund(s)
  PROVE  Bookkeeping'
<1> DEFINE e == session[s].event
           f == fact[e]
           r == f.refund
<1>1. session[s].pc = "decide" /\ Finishes(s, "APPLIED") /\ Decides(s, RefundTypes) /\ f.amount # 0
    BY DEF SettleRefund, RecordProviderRefund, Decides, RefundTypes
<1>2. e \in Events /\ event[e].status = "RECEIVED" /\ event'[e].status = "APPLIED"
    BY <1>1, FinishedEvent
<1>3. f.payment \in Attempts /\ r \in Refunds /\ f.amount \in 1..MaxAmount
    BY <1>1, DecidedFact, FactFields, PaymentsAssumption DEF Decides
<1>4. PICK p \in Attempts :
        /\ payment[p].status \in Captured
        /\ entries' = entries \cup RefundEntry(e, p, r, f.amount)
        /\ \E c, d : payment' = AmountsMoved(p, c, d)
        /\ refund[r].status # "SUCCEEDED"
        /\ refund'[r].status = "SUCCEEDED" /\ refund'[r].payment = p /\ refund'[r].amount = f.amount
        /\ \A q \in Refunds : q # r => refund'[q] = refund[q]
  <2>1. CASE SettleRefund(s)
    <3>1. StatusToDecide(s) \in PendingRefund
        BY <2>1 DEF SettleRefund
    <3>2. /\ refund[r].status \in PendingRefund /\ refund[r].payment \in Attempts
          /\ refund[r].amount \in 1..MaxAmount /\ PaymentOf(f) = refund[r].payment
        BY <1>1, <3>1, RefundToDecide
    <3>3. /\ f.amount = refund[r].amount /\ CanRelease(refund[r].payment, f.amount)
          /\ refund' = [refund EXCEPT ![r].status = "SUCCEEDED"]
          /\ payment' = AmountsMoved(refund[r].payment, 0, f.amount)
          /\ entries' = entries \cup RefundEntry(e, refund[r].payment, r, f.amount)
        BY <2>1, <3>2 DEF SettleRefund
    <3>4. payment[refund[r].payment].status \in Captured
        BY <1>3, <3>2, <3>3, SetAsideIsCaptured
    <3>5. refund[r].status \notin {"NONE", "SUCCEEDED"}
        BY <3>2 DEF PendingRefund
    <3> HIDE DEF e, f, r
    <3>6. /\ refund'[r].status = "SUCCEEDED" /\ refund'[r].payment = refund[r].payment
          /\ refund'[r].amount = f.amount
          /\ \A q \in Refunds : q # r => refund'[q] = refund[q]
        BY <1>3, <3>3, <3>5, RefundWriteRow DEF TypeInv
    <3> QED
        BY <3>2, <3>3, <3>4, <3>5, <3>6
  <2>2. CASE RecordProviderRefund(s)
    <3>1. /\ refund[r].status = "NONE" /\ CanReserve(f.payment, f.amount)
          /\ refund' = [refund EXCEPT ![r] = [status |-> "SUCCEEDED", payment |-> f.payment, amount |-> f.amount]]
          /\ payment' = AmountsMoved(f.payment, f.amount, f.amount)
          /\ entries' = entries \cup RefundEntry(e, f.payment, r, f.amount)
        BY <1>3, <2>2 DEF RecordProviderRefund, NewReference, HasRefund
    <3> HIDE DEF e, f, r
    <3>2. /\ refund'[r].status = "SUCCEEDED" /\ refund'[r].payment = f.payment
          /\ refund'[r].amount = f.amount
          /\ \A q \in Refunds : q # r => refund'[q] = refund[q]
        BY <1>3, <3>1 DEF TypeInv, TypeOK
    <3> QED
        BY <1>3, <3>1, <3>2 DEF CanReserve
  <2> QED
      BY <2>1, <2>2
<1> HIDE DEF e, f, r
<1> DEFINE y == Entry("REFUND", payment[p].status, e, p, r, f.amount)
<1>5. entries' = entries \cup {y}
    BY <1>4, RefundClass
<1>6. /\ y.kind = "REFUND" /\ y.class = payment[p].status /\ y.event = e /\ y.payment = p
      /\ y.refund = r /\ y.amount = f.amount
    BY DEF Entry
<1>7. y \in Entries
    BY <1>2, <1>3, <1>4, PaymentsAssumption DEF Entry, Entries
<1>8. \A q \in Attempts : payment'[q].status = payment[q].status
    BY <1>4, AmountsMovedRow DEF TypeInv
<1> HIDE DEF y
<1>9. PICK booked \in Entries : booked = y
    BY <1>7
<1>10. EntryMatches(booked)'
    BY <1>2, <1>3, <1>4, <1>6, <1>8, <1>9 DEF EntryMatches
<1> QED
    BY <1>2, <1>4, <1>5, <1>6, <1>8, <1>9, <1>10, OneBooked

\* The steps that write an entry, and what the others leave alone.
LEMMA BookingSteps ==
  ASSUME TypeInv, [Next]_vars
  PROVE  \/ /\ UNCHANGED entries
            /\ \A p \in Attempts : payment'[p].status \in Captured => payment[p].status \in Captured
            /\ \A r \in Refunds : refund'[r].status = "SUCCEEDED" => refund[r].status = "SUCCEEDED"
         \/ \E s \in Sessions : RecordCapture(s) \/ SettleRefund(s) \/ RecordProviderRefund(s)
<1> SUFFICES ASSUME ~\E s \in Sessions : RecordCapture(s) \/ SettleRefund(s) \/ RecordProviderRefund(s)
             PROVE  /\ UNCHANGED entries
                    /\ \A p \in Attempts : payment'[p].status \in Captured => payment[p].status \in Captured
                    /\ \A r \in Refunds : refund'[r].status = "SUCCEEDED" => refund[r].status = "SUCCEEDED"
    OBVIOUS
<1> DEFINE NoneConcluded == \A r \in Refunds : refund'[r].status = "SUCCEEDED" => refund[r].status = "SUCCEEDED"
<1>1. \A p \in Attempts : payment'[p].status \in Captured => payment[p].status \in Captured
  <2>1. CASE KeepsMoney
      BY <2>1 DEF KeepsMoney, Active, Closed, Captured
  <2>2. ASSUME NEW p \in Attempts, StartAttempt(p)
        PROVE  \A q \in Attempts : payment'[q].status \in Captured => payment[q].status \in Captured
      BY <2>2, Started DEF Captured
  <2>3. CASE CancelOrder
      BY <2>3 DEF CancelOrder
  <2> QED
      BY <2>1, <2>2, <2>3, MoneySteps
<1>2. ASSUME NEW r \in Refunds, NEW v, v # "SUCCEEDED", refund[r].status # "NONE",
             refund' = [refund EXCEPT ![r].status = v]
      PROVE  NoneConcluded
    BY <1>2, RefundWriteRow DEF TypeInv
<1>3. ASSUME PeopleStep PROVE UNCHANGED entries /\ NoneConcluded
  <2>1. ASSUME NEW r \in OwnRefunds, NEW p \in Attempts, NEW a \in 1..MaxAmount, RequestRefund(r, p, a)
        PROVE  NoneConcluded
      BY <2>1 DEF RequestRefund, TypeInv, TypeOK, Refunds
  <2> QED
      BY <1>3, <2>1 DEF PeopleStep, StartAttempt, CancelOrder, RequestRefund
<1>4. ASSUME ActionStep PROVE UNCHANGED entries /\ NoneConcluded
  <2>1. ASSUME NEW p \in Attempts, OpenBegins(p) \/ OpenSucceeds(p) \/ OpenFails(p) \/ OpenIsLost(p)
        PROVE  UNCHANGED <<entries, refund>>
      BY <2>1 DEF OpenBegins, OpenSucceeds, OpenFails, OpenIsLost, MovesPayment
  <2>2. ASSUME NEW r \in OwnRefunds, RefundBegins(r) \/ RefundAccepted(r) \/ RefundFails(r) \/ RefundIsLost(r)
        PROVE  UNCHANGED entries /\ NoneConcluded
    <3>1. UNCHANGED entries
        BY <2>2 DEF RefundBegins, RefundAccepted, RefundFails, RefundIsLost
    <3>2. PICK from \in SUBSET PendingRefund, to \in {"SENDING", "UNKNOWN_OUTCOME", "FAILED"} :
             MovesRefund(r, from, to)
        BY <2>2 DEF RefundBegins, RefundAccepted, RefundFails, RefundIsLost, PendingRefund
    <3>3. CASE refund' = refund
        BY <3>1, <3>3
    <3>4. CASE refund' # refund
      <4>1. r \in Refunds /\ refund[r].status # "NONE" /\ refund' = [refund EXCEPT ![r].status = to]
          BY <3>2, <3>4 DEF MovesRefund, PendingRefund, Refunds
      <4> QED
          BY <1>2, <3>1, <4>1
    <3> QED
        BY <3>3, <3>4
  <2> QED
      BY <1>4, <2>1, <2>2 DEF ActionStep
<1>5. ASSUME Arrival PROVE UNCHANGED <<entries, refund>>
    BY <1>5 DEF Arrival, Receive, Redeliver, RetryEvent, ClaimAttempt, orderVars
<1>6. ASSUME NEW s \in Sessions, SessionStep(s) PROVE UNCHANGED <<entries, refund>>
    BY <1>6 DEF SessionStep, Crash, AlreadyApplied, Claims, ApplyReads, RefundWasRecorded, orderVars
<1>7. ASSUME NEW s \in Sessions, PaymentEventApplied(s) PROVE UNCHANGED <<entries, refund>>
    BY <1>7 DEF PaymentEventApplied, AttemptFailed, ClosePayment, CaptureKept, orderVars
<1>8. ASSUME NEW s \in Sessions, RefundEventApplied(s) PROVE UNCHANGED entries /\ NoneConcluded
  <2>1. CASE RefundWasRecorded(s) \/ RefundKept(s) \/ RefundFailureKept(s)
      BY <2>1 DEF RefundWasRecorded, RefundKept, RefundFailureKept, orderVars
  <2>2. CASE ReleaseRefund(s)
    <3> DEFINE r == fact[session[s].event].refund
    <3>1. Decides(s, RefundTypes) /\ StatusToDecide(s) \in PendingRefund
        BY <2>2 DEF ReleaseRefund, Decides, RefundTypes
    <3>2. r \in Refunds /\ refund[r].status # "NONE"
        BY <3>1, RefundToDecide DEF PendingRefund
    <3>3. UNCHANGED entries /\ refund' = [refund EXCEPT ![r].status = "FAILED"]
        BY <2>2 DEF ReleaseRefund
    <3> HIDE DEF r
    <3> QED
        BY <1>2, <3>2, <3>3
  <2> QED
      BY <1>8, <2>1, <2>2 DEF RefundEventApplied
<1>9. CASE UNCHANGED vars
    BY <1>1, <1>9 DEF vars
<1>10. CASE Next
    BY <1>1, <1>3, <1>4, <1>5, <1>6, <1>7, <1>8, <1>10, Steps
<1> QED
    BY <1>9, <1>10

\* One entry per capture and per refund done, each of an event of its own and of the
\* class of the capture it is about, whoever concluded what and in which order:
\* the revenue ledger neither misses money nor counts it twice.
THEOREM EntriesAreTheMoney == Spec => []EntriesMatchMoney
<1>1. Init => Bookkeeping
  <2>1. Init => entries = {} /\ \A p \in Attempts : payment[p].status \notin Captured
      BY DEF Init, NoPayment, Captured
  <2>2. Init => \A r \in Refunds : refund[r].status # "SUCCEEDED"
      BY DEF Init, NoRow
  <2> QED
      BY <2>1, <2>2 DEF Bookkeeping
<1>2. Inv /\ OneApplier /\ PaidByOneCapture /\ RefundsFit /\ Bookkeeping /\ [Next]_vars => Bookkeeping'
    BY BookingSteps, NothingBooked, CaptureBooked, RefundBooked DEF Inv
<1> QED
    BY <1>1, <1>2, BooksMatch, Appliers, Fitting, PTL DEF Spec

=============================================================================
