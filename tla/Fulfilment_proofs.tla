-------------------------- MODULE Fulfilment_proofs --------------------------
(***************************************************************************)
(* The fulfilments of an order follow their calls, buy nothing twice and   *)
(* close the order, for any number of requests, fulfilments, lines, units  *)
(* and operations.                                                         *)
(*                                                                         *)
(* The operations of a phase are opened one by one, and a new one only     *)
(* when all the earlier ones are known to have failed.  So at most one of  *)
(* them says something of the fulfilment, and its status follows it.       *)
(* Units are counted with sets: Alive has the fulfilments that hold some.  *)
(***************************************************************************)
EXTENDS Fulfilment, FiniteSetTheorems, TLAPS

\* The operations of a phase were opened in order.
OpenedInOrder(f) ==
    \A phase \in Phases : \E k \in 0..MaxSequence :
        \A n \in 1..MaxSequence : action[<<f, phase, n>>] # "NONE" <=> n <= k

\* An operation that is not the last one of its phase failed.
EarlierFailed(f) ==
    \A phase \in Phases, m, n \in 1..MaxSequence :
        m < n /\ action[<<f, phase, n>>] # "NONE" => action[<<f, phase, m>>] = "FAILED_CONFIRMED"

\* Where a fulfilment may be while an operation waits to be sent.
PendingIsEarly(f) ==
    /\ Has(f, "purchase", "PENDING") => row[f].status \in {"READY", "CANCELLED", "FAILED"}
    /\ Has(f, "ship", "PENDING") => row[f].status = "PURCHASED"

\* FulfilmentFollowsCalls, of one fulfilment.
Follows(f) ==
    /\ \A phase \in Phases :
        /\ Has(f, phase, "CALLING") <=> row[f].status = During(phase)
        /\ Has(f, phase, "UNKNOWN_OUTCOME") <=> row[f].status = "UNKNOWN_OUTCOME" /\ row[f].unknown = phase
    /\ Has(f, "purchase", "SUCCEEDED") <=> row[f].bought
    /\ Has(f, "ship", "SUCCEEDED") <=> row[f].status \in {"SHIPPED", "COMPLETED"}
    /\ row[f].status \in Released \cup {"READY"} => ~row[f].bought

Orderly(f) == OpenedInOrder(f) /\ EarlierFailed(f) /\ PendingIsEarly(f) /\ Follows(f)

\* What left was called, and is not waiting any more.
LeftWasCalled == \A o \in left : action[o] \notin {"NONE", "PENDING"}

FollowInv ==
    /\ \A f \in Fulfilments : Orderly(f)
    /\ LeftWasCalled
    /\ ~anomaly

\* The fulfilments that hold units.
Alive == {f \in Fulfilments : row[f].status \notin Released}

CountInv ==
    /\ \A l \in Lines : allocated[l] = UnitsOf(Alive, l)
    /\ order = "AWAITING_PAYMENT" => \A f \in Fulfilments : row[f].status = "NONE"
    /\ OrdersEndDelivered

IInv == TypeOK /\ FollowInv /\ CountInv

-----------------------------------------------------------------------------
(* One operation moves *)

\* The statuses that say something of the fulfilment.
Telling == {"PENDING", "CALLING", "UNKNOWN_OUTCOME", "SUCCEEDED"}

\* Where every other operation of its phase failed or was never opened.
Alone(f, phase, n) ==
    \A m \in 1..MaxSequence : m # n => action[<<f, phase, m>>] \in {"NONE", "FAILED_CONFIRMED"}

\* An operation opened and not failed is alone in its phase.
LEMMA OpenIsAlone ==
    ASSUME NEW f \in Fulfilments, NEW phase \in Phases, NEW n \in 1..MaxSequence, EarlierFailed(f),
           action[<<f, phase, n>>] \notin {"NONE", "FAILED_CONFIRMED"}
    PROVE  Alone(f, phase, n)
<1> SUFFICES ASSUME NEW m \in 1..MaxSequence, m # n
             PROVE  action[<<f, phase, m>>] \in {"NONE", "FAILED_CONFIRMED"}
  BY DEF Alone
<1>1. CASE m < n
  BY <1>1 DEF EarlierFailed
<1>2. CASE n < m
  BY <1>2 DEF EarlierFailed
<1> QED
  BY <1>1, <1>2

\* The order of the operations is kept by those that were opened.
LEMMA OrderIsKept ==
    ASSUME TypeOK, NEW f \in Fulfilments, NEW phase \in Phases, NEW n \in 1..MaxSequence,
           OpenedInOrder(f), EarlierFailed(f),
           action[<<f, phase, n>>] \notin {"NONE", "FAILED_CONFIRMED"},
           NEW status \in Actions!ActionStatuses, status # "NONE",
           action' = [action EXCEPT ![<<f, phase, n>>] = status]
    PROVE  OpenedInOrder(f)' /\ EarlierFailed(f)'
<1>1. \A p \in Phases, m \in 1..MaxSequence :
        action'[<<f, p, m>>] = IF p = phase /\ m = n THEN status ELSE action[<<f, p, m>>]
  <2>1. action \in [Operations -> Actions!ActionStatuses]
    BY DEF TypeOK, Actions!LifecycleTypeOK
  <2> QED
    BY <2>1 DEF Operations
<1>2. \A p \in Phases, m \in 1..MaxSequence : action'[<<f, p, m>>] # "NONE" <=> action[<<f, p, m>>] # "NONE"
  BY <1>1
<1>3. OpenedInOrder(f)'
  BY <1>2 DEF OpenedInOrder
<1>4. \A m \in 1..MaxSequence : n < m => action[<<f, phase, m>>] = "NONE"
  BY DEF EarlierFailed
<1>5. EarlierFailed(f)'
  BY <1>1, <1>2, <1>4 DEF EarlierFailed
<1> QED
  BY <1>3, <1>5

\* A fulfilment whose row and operations stay is as orderly as it was.
LEMMA OrderlyStays ==
    ASSUME NEW f \in Fulfilments, row'[f] = row[f], Orderly(f),
           \A p \in Phases, n \in 1..MaxSequence : action'[<<f, p, n>>] = action[<<f, p, n>>]
    PROVE  Orderly(f)'
<1>1. \A p \in Phases, s \in Telling : Has(f, p, s)' <=> Has(f, p, s)
  BY DEF Has
<1>2. OpenedInOrder(f)' /\ EarlierFailed(f)'
  BY DEF Orderly, OpenedInOrder, EarlierFailed
<1>3. PendingIsEarly(f)' /\ Follows(f)'
  BY <1>1 DEF Orderly, PendingIsEarly, Follows, Phases, Telling, During
<1> QED
  BY <1>2, <1>3 DEF Orderly

\* One operation of one fulfilment moves, and the row of that fulfilment with it.
LEMMA OthersFollow ==
    ASSUME TypeOK, FollowInv, NEW f \in Fulfilments, NEW phase \in Phases, NEW n \in 1..MaxSequence,
           NEW status \in Actions!ActionStatuses \ {"NONE", "PENDING"},
           action' = [action EXCEPT ![<<f, phase, n>>] = status],
           left' \subseteq left \cup {<<f, phase, n>>},
           \A g \in Fulfilments : g # f => row'[g] = row[g],
           Orderly(f)', ~anomaly'
    PROVE  FollowInv'
<1>1. action \in [Operations -> Actions!ActionStatuses] /\ left \subseteq Operations
  BY DEF TypeOK, Actions!LifecycleTypeOK
<1>2. \A g \in Fulfilments, p \in Phases, m \in 1..MaxSequence :
        g # f => action'[<<g, p, m>>] = action[<<g, p, m>>]
  BY <1>1 DEF Operations
<1>3. \A g \in Fulfilments : Orderly(g)'
  <2> SUFFICES ASSUME NEW g \in Fulfilments, g # f PROVE Orderly(g)'
    OBVIOUS
  <2>1. Orderly(g) /\ row'[g] = row[g]
    BY DEF FollowInv
  <2> QED
    BY <1>2, <2>1, OrderlyStays
<1>4. LeftWasCalled'
  <2> SUFFICES ASSUME NEW o \in left' PROVE action'[o] \notin {"NONE", "PENDING"}
    BY DEF LeftWasCalled
  <2>1. CASE o = <<f, phase, n>>
    BY <1>1, <2>1 DEF Operations
  <2>2. CASE o # <<f, phase, n>>
    BY <1>1, <2>2 DEF FollowInv, LeftWasCalled
  <2> QED
    BY <2>1, <2>2
<1> QED
  BY <1>3, <1>4 DEF FollowInv

\* The operation that is sent, answered or lost is the only one of its phase that tells
\* something, before and after.
LEMMA TheOneThatTells ==
    ASSUME TypeOK, FollowInv, NEW f \in Fulfilments, NEW phase \in Phases, NEW n \in 1..MaxSequence,
           action[<<f, phase, n>>] \in Telling,
           NEW status \in Actions!ActionStatuses \ {"NONE"},
           action' = [action EXCEPT ![<<f, phase, n>>] = status]
    PROVE  /\ OpenedInOrder(f)' /\ EarlierFailed(f)'
           /\ \A s \in Telling : /\ Has(f, phase, s) <=> action[<<f, phase, n>>] = s
                                 /\ Has(f, phase, s)' <=> status = s
           /\ \A p \in Phases, s \in Telling : p # phase => (Has(f, p, s)' <=> Has(f, p, s))
<1>1. OpenedInOrder(f) /\ EarlierFailed(f)
  BY DEF FollowInv, Orderly
<1>2. action[<<f, phase, n>>] \notin {"NONE", "FAILED_CONFIRMED"}
  BY DEF Telling
<1>3. Alone(f, phase, n)
  BY <1>1, <1>2, OpenIsAlone
<1>4. OpenedInOrder(f)' /\ EarlierFailed(f)'
  BY <1>1, <1>2, OrderIsKept
<1>5. action \in [Operations -> Actions!ActionStatuses]
  BY DEF TypeOK, Actions!LifecycleTypeOK
<1>6. \A p \in Phases, m \in 1..MaxSequence :
        action'[<<f, p, m>>] = IF p = phase /\ m = n THEN status ELSE action[<<f, p, m>>]
  BY <1>5 DEF Operations
<1>7. ASSUME NEW s \in Telling
      PROVE  /\ Has(f, phase, s) <=> action[<<f, phase, n>>] = s
             /\ Has(f, phase, s)' <=> status = s
  <2>1. \A m \in 1..MaxSequence : m # n => action[<<f, phase, m>>] # s
    BY <1>3 DEF Alone, Telling
  <2>2. Has(f, phase, s) <=> action[<<f, phase, n>>] = s
    BY <2>1 DEF Has
  <2>3. Has(f, phase, s)' <=> status = s
    BY <1>6, <2>1 DEF Has
  <2> QED
    BY <2>2, <2>3
<1>8. \A p \in Phases, s \in Telling : p # phase => (Has(f, p, s)' <=> Has(f, p, s))
  BY <1>6 DEF Has
<1> QED
  BY <1>4, <1>7, <1>8

\* begin_call, with the fulfilment where it starts.
LEMMA BeginFollows ==
    ASSUME TypeOK, FollowInv, NEW f \in Fulfilments, NEW phase \in Phases, NEW n \in 1..MaxSequence,
           Actions!BeginCall(<<f, phase, n>>), row[f].status = Before(phase),
           row' = [row EXCEPT ![f].status = During(phase)], UNCHANGED anomaly
    PROVE  FollowInv'
<1>1. /\ action[<<f, phase, n>>] = "PENDING"
      /\ action' = [action EXCEPT ![<<f, phase, n>>] = "CALLING"]
      /\ left' = left \cup {<<f, phase, n>>}
  BY DEF Actions!BeginCall
<1>2. /\ OpenedInOrder(f)' /\ EarlierFailed(f)'
      /\ \A s \in Telling : /\ Has(f, phase, s) <=> s = "PENDING"
                            /\ Has(f, phase, s)' <=> s = "CALLING"
      /\ \A p \in Phases, s \in Telling : p # phase => (Has(f, p, s)' <=> Has(f, p, s))
  <2>1. action[<<f, phase, n>>] \in Telling /\ "CALLING" \in Actions!ActionStatuses \ {"NONE"}
    BY <1>1 DEF Telling, Actions!ActionStatuses
  <2>2. /\ action[<<f, phase, n>>] = "PENDING"
        /\ action' = [action EXCEPT ![<<f, phase, n>>] = "CALLING"]
    BY <1>1
  <2>3. /\ OpenedInOrder(f)' /\ EarlierFailed(f)'
        /\ \A s \in Telling : /\ Has(f, phase, s) <=> action[<<f, phase, n>>] = s
                              /\ Has(f, phase, s)' <=> "CALLING" = s
        /\ \A p \in Phases, s \in Telling : p # phase => (Has(f, p, s)' <=> Has(f, p, s))
    BY <2>1, <2>2, TheOneThatTells
  <2> QED
    BY <2>2, <2>3
<1>3. /\ row'[f].status = During(phase) /\ row'[f].bought = row[f].bought
      /\ row'[f].unknown = row[f].unknown
      /\ \A g \in Fulfilments : g # f => row'[g] = row[g]
  BY DEF TypeOK, Rows
<1>4. Follows(f) /\ PendingIsEarly(f)
  BY DEF FollowInv, Orderly
<1>5. PendingIsEarly(f)'
  BY <1>2, <1>3, <1>4 DEF PendingIsEarly, Phases, Telling, Before
<1>6. Follows(f)'
  BY <1>2, <1>3, <1>4 DEF Follows, Phases, Telling, Before, During, Released
<1>7. Orderly(f)' /\ ~anomaly'
  BY <1>2, <1>5, <1>6 DEF Orderly, FollowInv
<1> QED
  BY <1>1, <1>3, <1>7, OthersFollow DEF Actions!ActionStatuses

\* An answer that it was done: whoever called or lost the call is where the
\* observer expects the fulfilment.
LEMMA SucceedsFollows ==
    ASSUME TypeOK, FollowInv, NEW f \in Fulfilments, NEW phase \in Phases, NEW n \in 1..MaxSequence,
           Succeeds(<<f, phase, n>>)
    PROVE  FollowInv' /\ row[f].status \in Underway(phase)
<1>1. /\ action[<<f, phase, n>>] \in {"CALLING", "UNKNOWN_OUTCOME"}
      /\ action' = [action EXCEPT ![<<f, phase, n>>] = "SUCCEEDED"]
      /\ left' = left
      /\ ObserveDone(f, phase)
  BY DEF Succeeds, Actions!Succeeds
<1>2. /\ OpenedInOrder(f)' /\ EarlierFailed(f)'
      /\ \A s \in Telling : /\ Has(f, phase, s) <=> action[<<f, phase, n>>] = s
                            /\ Has(f, phase, s)' <=> s = "SUCCEEDED"
      /\ \A p \in Phases, s \in Telling : p # phase => (Has(f, p, s)' <=> Has(f, p, s))
  <2>1. action[<<f, phase, n>>] \in Telling /\ "SUCCEEDED" \in Actions!ActionStatuses \ {"NONE"}
    BY <1>1 DEF Telling, Actions!ActionStatuses
  <2>2. action' = [action EXCEPT ![<<f, phase, n>>] = "SUCCEEDED"]
    BY <1>1
  <2> QED
    BY <2>1, <2>2, TheOneThatTells
<1>3. Follows(f) /\ PendingIsEarly(f)
  BY DEF FollowInv, Orderly
<1>4. \/ row[f].status = During(phase)
      \/ row[f].status = "UNKNOWN_OUTCOME" /\ row[f].unknown = phase
  <2>1. Has(f, phase, "CALLING") \/ Has(f, phase, "UNKNOWN_OUTCOME")
    BY <1>1, <1>2 DEF Telling
  <2> QED
    BY <1>3, <2>1 DEF Follows
<1>5. row[f].status \in Underway(phase)
  BY <1>4 DEF Underway
<1>6. /\ row' = [row EXCEPT ![f] = [row[f] EXCEPT !.status = After(phase), !.unknown = "NONE",
                                                  !.bought = @ \/ phase = "purchase"]]
      /\ anomaly' = anomaly
  BY <1>1, <1>5 DEF ObserveDone, Moves
<1>7. /\ row'[f].status = After(phase) /\ row'[f].unknown = "NONE"
      /\ row'[f].bought = (row[f].bought \/ phase = "purchase")
      /\ \A g \in Fulfilments : g # f => row'[g] = row[g]
  BY <1>6 DEF TypeOK, Rows
<1>8. PendingIsEarly(f)'
  BY <1>2, <1>3, <1>4, <1>7 DEF PendingIsEarly, Phases, Telling, During, After
<1>9. Follows(f)'
  BY <1>2, <1>3, <1>4, <1>7 DEF Follows, Phases, Telling, During, After, Released
<1>10. Orderly(f)' /\ ~anomaly'
  BY <1>2, <1>6, <1>8, <1>9 DEF Orderly, FollowInv
<1> QED
  BY <1>1, <1>5, <1>7, <1>10, OthersFollow DEF Actions!ActionStatuses

\* No answer: the fulfilment does not know either.
LEMMA IsLostFollows ==
    ASSUME TypeOK, FollowInv, NEW f \in Fulfilments, NEW phase \in Phases, NEW n \in 1..MaxSequence,
           IsLost(<<f, phase, n>>)
    PROVE  FollowInv' /\ row[f].status = During(phase)
<1>1. /\ action[<<f, phase, n>>] = "CALLING"
      /\ action' = [action EXCEPT ![<<f, phase, n>>] = "UNKNOWN_OUTCOME"]
      /\ left' = left
      /\ ObserveUnknown(f, phase)
  BY DEF IsLost, Actions!IsLost
<1>2. /\ OpenedInOrder(f)' /\ EarlierFailed(f)'
      /\ \A s \in Telling : /\ Has(f, phase, s) <=> s = "CALLING"
                            /\ Has(f, phase, s)' <=> s = "UNKNOWN_OUTCOME"
      /\ \A p \in Phases, s \in Telling : p # phase => (Has(f, p, s)' <=> Has(f, p, s))
  <2>1. action[<<f, phase, n>>] \in Telling /\ "UNKNOWN_OUTCOME" \in Actions!ActionStatuses \ {"NONE"}
    BY <1>1 DEF Telling, Actions!ActionStatuses
  <2>2. /\ action[<<f, phase, n>>] = "CALLING"
        /\ action' = [action EXCEPT ![<<f, phase, n>>] = "UNKNOWN_OUTCOME"]
    BY <1>1
  <2>3. /\ OpenedInOrder(f)' /\ EarlierFailed(f)'
        /\ \A s \in Telling : /\ Has(f, phase, s) <=> action[<<f, phase, n>>] = s
                              /\ Has(f, phase, s)' <=> "UNKNOWN_OUTCOME" = s
        /\ \A p \in Phases, s \in Telling : p # phase => (Has(f, p, s)' <=> Has(f, p, s))
    BY <2>1, <2>2, TheOneThatTells
  <2> QED
    BY <2>2, <2>3
<1>3. Follows(f) /\ PendingIsEarly(f)
  BY DEF FollowInv, Orderly
<1>4. row[f].status = During(phase)
  BY <1>2, <1>3 DEF Follows, Telling
<1>5. row' = [row EXCEPT ![f] = [row[f] EXCEPT !.status = "UNKNOWN_OUTCOME", !.unknown = phase]]
      /\ anomaly' = anomaly
  BY <1>1, <1>4 DEF ObserveUnknown, Moves
<1>6. /\ row'[f].status = "UNKNOWN_OUTCOME" /\ row'[f].unknown = phase
      /\ row'[f].bought = row[f].bought
      /\ \A g \in Fulfilments : g # f => row'[g] = row[g]
  BY <1>5 DEF TypeOK, Rows
<1>7. PendingIsEarly(f)'
  BY <1>2, <1>3, <1>4, <1>6 DEF PendingIsEarly, Phases, Telling, During
<1>8. Follows(f)'
  BY <1>2, <1>3, <1>4, <1>6 DEF Follows, Phases, Telling, During, Released
<1>9. Orderly(f)' /\ ~anomaly'
  BY <1>2, <1>5, <1>7, <1>8 DEF Orderly, FollowInv
<1> QED
  BY <1>1, <1>4, <1>6, <1>9, OthersFollow DEF Actions!ActionStatuses

\* An answer that it was not done.  What never left tells nothing of the fulfilment,
\* which is early in the phase or was given up; what left leads it back.
LEMMA FailsFollows ==
    ASSUME TypeOK, FollowInv, NEW f \in Fulfilments, NEW phase \in Phases, NEW n \in 1..MaxSequence,
           Fails(<<f, phase, n>>)
    PROVE  /\ FollowInv'
           /\ \/ row' = row
              \/ row[f].status \in Underway(phase) /\ ObserveFailed(f, phase)
<1>1. /\ action[<<f, phase, n>>] \in {"PENDING", "CALLING", "UNKNOWN_OUTCOME"}
      /\ action' = [action EXCEPT ![<<f, phase, n>>] = "FAILED_CONFIRMED"]
      /\ left' = left
      /\ IF action[<<f, phase, n>>] = "PENDING" THEN ObserveUnsent(f) ELSE ObserveFailed(f, phase)
  BY DEF Fails, Actions!Fails
<1>2. /\ OpenedInOrder(f)' /\ EarlierFailed(f)'
      /\ \A s \in Telling : /\ Has(f, phase, s) <=> action[<<f, phase, n>>] = s
                            /\ ~Has(f, phase, s)'
      /\ \A p \in Phases, s \in Telling : p # phase => (Has(f, p, s)' <=> Has(f, p, s))
  <2>1. action[<<f, phase, n>>] \in Telling
    BY <1>1 DEF Telling
  <2>2. /\ OpenedInOrder(f)' /\ EarlierFailed(f)'
        /\ \A s \in Telling : /\ Has(f, phase, s) <=> action[<<f, phase, n>>] = s
                              /\ Has(f, phase, s)' <=> "FAILED_CONFIRMED" = s
        /\ \A p \in Phases, s \in Telling : p # phase => (Has(f, p, s)' <=> Has(f, p, s))
    BY <1>1, <2>1, TheOneThatTells DEF Actions!ActionStatuses
  <2> QED
    BY <2>2 DEF Telling
<1>3. Follows(f) /\ PendingIsEarly(f)
  BY DEF FollowInv, Orderly
<1>4. CASE action[<<f, phase, n>>] = "PENDING"
  <2>1. Has(f, phase, "PENDING")
    BY <1>2, <1>4 DEF Telling
  <2>2. row[f].status \in {"READY", "PURCHASED", "CANCELLED", "FAILED"}
    BY <1>3, <2>1 DEF PendingIsEarly, Phases
  <2>3. row' = row /\ ~anomaly'
    BY <1>1, <1>4, <2>2 DEF ObserveUnsent, FollowInv
  <2>4. \A s \in {"CALLING", "UNKNOWN_OUTCOME", "SUCCEEDED"}, p \in Phases : Has(f, p, s)' <=> Has(f, p, s)
    BY <1>2, <1>4 DEF Telling
  <2>5. PendingIsEarly(f)'
    BY <1>2, <1>3, <2>3 DEF PendingIsEarly, Phases, Telling
  <2>6. Follows(f)'
    BY <1>3, <2>3, <2>4 DEF Follows, Phases
  <2>7. Orderly(f)'
    BY <1>2, <2>5, <2>6 DEF Orderly
  <2> QED
    BY <1>1, <2>3, <2>7, OthersFollow DEF Actions!ActionStatuses
<1>5. CASE action[<<f, phase, n>>] # "PENDING"
  <2>1. \/ row[f].status = During(phase)
        \/ row[f].status = "UNKNOWN_OUTCOME" /\ row[f].unknown = phase
    BY <1>1, <1>2, <1>3, <1>5 DEF Follows, Telling
  <2>2. row[f].status \in Underway(phase)
    BY <2>1 DEF Underway
  <2>3. /\ ObserveFailed(f, phase)
        /\ row' = [row EXCEPT ![f] = [row[f] EXCEPT !.status = Before(phase), !.unknown = "NONE",
                                                    !.failed = TRUE]]
        /\ anomaly' = anomaly
    BY <1>1, <1>5, <2>2 DEF ObserveFailed, Moves
  <2>4. /\ row'[f].status = Before(phase) /\ row'[f].unknown = "NONE"
        /\ row'[f].bought = row[f].bought
        /\ \A g \in Fulfilments : g # f => row'[g] = row[g]
    BY <2>3 DEF TypeOK, Rows
  <2>5. phase = "purchase" => ~row[f].bought
    BY <1>1, <1>2, <1>3, <1>5 DEF Follows, Telling
  <2>6. PendingIsEarly(f)'
    BY <1>2, <1>3, <2>1, <2>4 DEF PendingIsEarly, Phases, Telling, During, Before
  <2>7. Follows(f)'
    BY <1>2, <1>3, <2>1, <2>4, <2>5 DEF Follows, Phases, Telling, During, Before, Released
  <2>8. Orderly(f)' /\ ~anomaly'
    BY <1>2, <2>3, <2>6, <2>7 DEF Orderly, FollowInv
  <2> QED
    BY <1>1, <2>2, <2>3, <2>4, <2>8, OthersFollow DEF Actions!ActionStatuses
<1> QED
  BY <1>4, <1>5

\* How many operations a phase has is the number of the last one.
LEMMA LatestIsLast ==
    ASSUME NEW f \in Fulfilments, NEW phase \in Phases, OpenedInOrder(f)
    PROVE  /\ LatestOf(f, phase) \in 0..MaxSequence
           /\ \A n \in 1..MaxSequence : action[<<f, phase, n>>] # "NONE" <=> n <= LatestOf(f, phase)
<1>1. MaxSequence \in Nat
  BY FulfilmentAssumption
<1>2. PICK k \in 0..MaxSequence :
        \A n \in 1..MaxSequence : action[<<f, phase, n>>] # "NONE" <=> n <= k
  BY DEF OpenedInOrder
<1>3. {n \in 1..MaxSequence : action[<<f, phase, n>>] # "NONE"} = 1..k
  BY <1>1, <1>2
<1>4. k \in Nat /\ Cardinality(1..k) = k
  BY <1>1, FS_Interval
<1>5. LatestOf(f, phase) = k
  BY <1>3, <1>4 DEF LatestOf
<1> QED
  BY <1>2, <1>5

\* A new operation is opened when all the earlier ones are known to have failed.
LEMMA EarlierOnesFailed ==
    ASSUME TypeOK, FollowInv, NEW f \in Fulfilments, NEW phase \in Phases, NEW n \in 1..MaxSequence,
           n = LatestOf(f, phase) + 1, row[f].status = Before(phase),
           LatestOf(f, phase) > 0
             => action[<<f, phase, LatestOf(f, phase)>>] \notin {"PENDING", "CALLING", "UNKNOWN_OUTCOME"}
    PROVE  \A m \in 1..MaxSequence :
             action[<<f, phase, m>>] = IF m < n THEN "FAILED_CONFIRMED" ELSE "NONE"
<1>1. Orderly(f)
  BY DEF FollowInv
<1>2. /\ LatestOf(f, phase) \in 0..MaxSequence
      /\ \A m \in 1..MaxSequence : action[<<f, phase, m>>] # "NONE" <=> m <= LatestOf(f, phase)
  BY <1>1, LatestIsLast DEF Orderly
<1> DEFINE k == LatestOf(f, phase)
<1>3. k > 0 => action[<<f, phase, k>>] = "FAILED_CONFIRMED"
  <2> SUFFICES ASSUME k > 0 PROVE action[<<f, phase, k>>] = "FAILED_CONFIRMED"
    OBVIOUS
  <2>1. k \in 1..MaxSequence /\ action[<<f, phase, k>>] # "NONE"
    BY <1>2
  <2>2. action[<<f, phase, k>>] \in Actions!ActionStatuses
    BY <2>1 DEF TypeOK, Actions!LifecycleTypeOK, Operations
  <2>3. action[<<f, phase, k>>] # "SUCCEEDED"
    <3>1. ~Has(f, phase, "SUCCEEDED")
      BY <1>1 DEF Orderly, Follows, Phases, Before, Released
    <3> QED
      BY <2>1, <3>1 DEF Has
  <2> QED
    BY <2>1, <2>2, <2>3 DEF Actions!ActionStatuses
<1>4. \A m \in 1..MaxSequence : m < k => action[<<f, phase, m>>] = "FAILED_CONFIRMED"
  <2> SUFFICES ASSUME NEW m \in 1..MaxSequence, m < k PROVE action[<<f, phase, m>>] = "FAILED_CONFIRMED"
    OBVIOUS
  <2>1. k \in 1..MaxSequence /\ action[<<f, phase, k>>] # "NONE"
    BY <1>2
  <2> QED
    BY <1>1, <2>1 DEF Orderly, EarlierFailed
<1> SUFFICES ASSUME NEW m \in 1..MaxSequence
             PROVE  action[<<f, phase, m>>] = IF m < n THEN "FAILED_CONFIRMED" ELSE "NONE"
  OBVIOUS
<1>5. CASE m < n
  <2>1. m < k \/ (m = k /\ k > 0)
    BY <1>2, <1>5
  <2> QED
    BY <1>3, <1>4, <1>5, <2>1
<1>6. CASE ~(m < n)
  <2>1. ~(m <= k)
    BY <1>2, <1>6
  <2> QED
    BY <1>2, <1>6, <2>1
<1> QED
  BY <1>5, <1>6

\* The opening of a new operation.
LEMMA OpenFollows ==
    ASSUME TypeOK, FollowInv, NEW f \in Fulfilments, NEW phase \in Phases, NEW n \in 1..MaxSequence,
           row[f].status = Before(phase),
           \A m \in 1..MaxSequence :
             action[<<f, phase, m>>] = IF m < n THEN "FAILED_CONFIRMED" ELSE "NONE",
           Actions!OpenAction(<<f, phase, n>>), row' = row, anomaly' = anomaly
    PROVE  FollowInv'
<1>1. /\ action \in [Operations -> Actions!ActionStatuses] /\ left \subseteq Operations
      /\ MaxSequence \in Nat
  BY FulfilmentAssumption DEF TypeOK, Actions!LifecycleTypeOK
<1>2. /\ action[<<f, phase, n>>] = "NONE" /\ left' = left
      /\ action' = [action EXCEPT ![<<f, phase, n>>] = "PENDING"]
  BY DEF Actions!OpenAction
<1>3. \A g \in Fulfilments, p \in Phases, m \in 1..MaxSequence :
        action'[<<g, p, m>>] = IF g = f /\ p = phase /\ m = n THEN "PENDING" ELSE action[<<g, p, m>>]
  BY <1>1, <1>2 DEF Operations
<1>4. Orderly(f)
  BY DEF FollowInv
<1>5. OpenedInOrder(f)'
  <2> SUFFICES ASSUME NEW p \in Phases
               PROVE  \E k \in 0..MaxSequence :
                        \A m \in 1..MaxSequence : action'[<<f, p, m>>] # "NONE" <=> m <= k
    BY DEF OpenedInOrder
  <2>1. CASE p = phase
    <3>1. \A m \in 1..MaxSequence : action'[<<f, p, m>>] # "NONE" <=> m <= n
      BY <1>3, <2>1
    <3> QED
      BY <1>1, <3>1
  <2>2. CASE p # phase
    BY <1>3, <1>4, <2>2 DEF Orderly, OpenedInOrder
  <2> QED
    BY <2>1, <2>2
<1>6. EarlierFailed(f)'
  <2> SUFFICES ASSUME NEW p \in Phases, NEW i \in 1..MaxSequence, NEW j \in 1..MaxSequence,
                      i < j, action'[<<f, p, j>>] # "NONE"
               PROVE  action'[<<f, p, i>>] = "FAILED_CONFIRMED"
    BY DEF EarlierFailed
  <2>1. CASE p = phase
    <3>1. j <= n
      BY <1>3, <2>1
    <3>2. i < n
      BY <3>1
    <3> QED
      BY <1>3, <2>1, <3>2
  <2>2. CASE p # phase
    BY <1>3, <1>4, <2>2 DEF Orderly, EarlierFailed
  <2> QED
    BY <2>1, <2>2
<1>7. \A p \in Phases : \A s \in {"CALLING", "UNKNOWN_OUTCOME", "SUCCEEDED"} : Has(f, p, s)' <=> Has(f, p, s)
  <2> SUFFICES ASSUME NEW p \in Phases, NEW s \in {"CALLING", "UNKNOWN_OUTCOME", "SUCCEEDED"}
               PROVE  Has(f, p, s)' <=> Has(f, p, s)
    OBVIOUS
  <2>1. \A m \in 1..MaxSequence : action'[<<f, p, m>>] = s <=> action[<<f, p, m>>] = s
    BY <1>2, <1>3
  <2> QED
    BY <2>1 DEF Has
<1>8. Follows(f)'
  BY <1>4, <1>7 DEF Orderly, Follows, Phases
<1>9. PendingIsEarly(f)'
  <2>1. \A p \in Phases : p # phase => (Has(f, p, "PENDING")' <=> Has(f, p, "PENDING"))
    BY <1>3 DEF Has
  <2> QED
    BY <1>4, <2>1 DEF Orderly, PendingIsEarly, Phases, Before
<1>10. \A g \in Fulfilments : Orderly(g)'
  <2> SUFFICES ASSUME NEW g \in Fulfilments, g # f PROVE Orderly(g)'
    BY <1>5, <1>6, <1>8, <1>9 DEF Orderly
  <2>1. Orderly(g)
    BY DEF FollowInv
  <2> QED
    BY <1>3, <2>1, OrderlyStays
<1>11. LeftWasCalled'
  <2> SUFFICES ASSUME NEW o \in left PROVE action'[o] \notin {"NONE", "PENDING"}
    BY <1>2 DEF LeftWasCalled
  <2>1. action[o] \notin {"NONE", "PENDING"} /\ o \in Operations
    BY <1>1 DEF FollowInv, LeftWasCalled
  <2> QED
    BY <1>1, <1>2, <2>1
<1> QED
  BY <1>10, <1>11 DEF FollowInv

\* A step that touches the row of one fulfilment, and no operation.
LEMMA RowFollows ==
    ASSUME FollowInv, NEW f \in Fulfilments, \A g \in Fulfilments : g # f => row'[g] = row[g],
           Orderly(f)', UNCHANGED <<action, left, anomaly>>
    PROVE  FollowInv'
<1>1. \A g \in Fulfilments : Orderly(g)'
  <2> SUFFICES ASSUME NEW g \in Fulfilments, g # f PROVE Orderly(g)'
    OBVIOUS
  <2>1. Orderly(g) /\ row'[g] = row[g]
    BY DEF FollowInv
  <2> QED
    BY <2>1, OrderlyStays
<1> QED
  BY <1>1 DEF FollowInv, LeftWasCalled

\* A step that touches no row and no operation.
LEMMA NothingFollows ==
    ASSUME FollowInv, UNCHANGED <<row, action, left, anomaly>>
    PROVE  FollowInv'
<1>1. \A g \in Fulfilments : Orderly(g)'
  BY OrderlyStays DEF FollowInv
<1> QED
  BY <1>1 DEF FollowInv, LeftWasCalled

LEMMA CreateFollows ==
    ASSUME TypeOK, FollowInv, NEW f \in Fulfilments, NEW lines \in Contents, create(f, lines)
    PROVE  FollowInv'
<1>1. row' = [row EXCEPT ![f] = [NoRow EXCEPT !.status = "READY", !.lines = lines]]
  BY DEF create
<1>2. /\ row[f].status = "NONE" /\ row'[f].status = "READY" /\ ~row'[f].bought
      /\ row'[f].unknown = "NONE"
      /\ \A g \in Fulfilments : g # f => row'[g] = row[g]
  BY <1>1 DEF create, TypeOK, Rows, NoRow
<1>3. UNCHANGED <<action, left, anomaly>>
  BY DEF create
<1>4. Orderly(f)
  BY DEF FollowInv
<1>5. Orderly(f)'
  <2>1. \A p \in Phases, s \in Telling : Has(f, p, s)' <=> Has(f, p, s)
    BY <1>3 DEF Has
  <2>2. OpenedInOrder(f)' /\ EarlierFailed(f)'
    BY <1>3, <1>4 DEF Orderly, OpenedInOrder, EarlierFailed
  <2>3. PendingIsEarly(f)'
    BY <1>2, <1>4, <2>1 DEF Orderly, PendingIsEarly, Phases, Telling
  <2>4. Follows(f)'
    BY <1>2, <1>4, <2>1 DEF Orderly, Follows, Phases, Telling, During, Released
  <2> QED
    BY <2>2, <2>3, <2>4 DEF Orderly
<1> QED
  BY <1>2, <1>3, <1>5, RowFollows

\* A fulfilment nothing was sent for is given up; one that was shipped is delivered.
LEMMA ClosingFollows ==
    ASSUME TypeOK, FollowInv, NEW f \in Fulfilments, NEW to \in {"CANCELLED", "FAILED", "COMPLETED"},
           row[f].status = IF to = "COMPLETED" THEN "SHIPPED" ELSE "READY",
           row' = [row EXCEPT ![f].status = to], UNCHANGED <<action, left, anomaly>>
    PROVE  FollowInv'
<1>1. /\ row'[f].status = to /\ row'[f].bought = row[f].bought
      /\ row'[f].unknown = row[f].unknown
      /\ \A g \in Fulfilments : g # f => row'[g] = row[g]
  BY DEF TypeOK, Rows
<1>2. Orderly(f)
  BY DEF FollowInv
<1>3. Orderly(f)'
  <2>1. \A p \in Phases, s \in Telling : Has(f, p, s)' <=> Has(f, p, s)
    BY DEF Has
  <2>2. OpenedInOrder(f)' /\ EarlierFailed(f)'
    BY <1>2 DEF Orderly, OpenedInOrder, EarlierFailed
  <2>3. PendingIsEarly(f)'
    BY <1>1, <1>2, <2>1 DEF Orderly, PendingIsEarly, Phases, Telling
  <2>4. Follows(f)'
    BY <1>1, <1>2, <2>1 DEF Orderly, Follows, Phases, Telling, During, Released
  <2> QED
    BY <2>2, <2>3, <2>4 DEF Orderly
<1> QED
  BY <1>1, <1>3, RowFollows

\* The operation of a request.
LEMMA OperationOf ==
    ASSUME NEW o \in Operations
    PROVE  \E f \in Fulfilments, phase \in Phases, n \in 1..MaxSequence : o = <<f, phase, n>>
  BY DEF Operations

LEMMA RequestFollows ==
    ASSUME TypeOK, FollowInv, NEW r \in Requests, Serves(r)
    PROVE  FollowInv'
<1> DEFINE o == request[r].op
<1>0. ~Runs(r, "idle") => o \in Operations
  BY DEF TypeOK, Runs, Idle
<1>1. ASSUME NEW f \in Fulfilments, NEW phase \in Phases, Open(r, f, phase) PROVE FollowInv'
  <2> DEFINE latest == LatestOf(f, phase)
             owned == latest > 0 /\ action[<<f, phase, latest>>] \in {"PENDING", "CALLING", "UNKNOWN_OUTCOME"}
  <2>1. /\ row[f].status = Before(phase) /\ UNCHANGED <<row, anomaly>>
        /\ <<f, phase, IF owned THEN latest ELSE latest + 1>> \in Operations
        /\ IF owned THEN UNCHANGED <<action, left>>
           ELSE Actions!OpenAction(<<f, phase, IF owned THEN latest ELSE latest + 1>>)
    BY <1>1 DEF Open
  <2>2. CASE owned
    BY <2>1, <2>2, NothingFollows
  <2>3. CASE ~owned
    <3> DEFINE n == latest + 1
    <3>1. n \in 1..MaxSequence /\ Actions!OpenAction(<<f, phase, n>>)
      BY <2>1, <2>3 DEF Operations
    <3>2. \A m \in 1..MaxSequence :
            action[<<f, phase, m>>] = IF m < n THEN "FAILED_CONFIRMED" ELSE "NONE"
      BY <2>1, <2>3, <3>1, EarlierOnesFailed
    <3> QED
      BY <2>1, <3>1, <3>2, OpenFollows
  <2> QED
    BY <2>2, <2>3
<1>2. ASSUME BeginCall(r) PROVE FollowInv'
  <2>1. PICK f \in Fulfilments, phase \in Phases, n \in 1..MaxSequence : o = <<f, phase, n>>
    BY <1>0, <1>2, OperationOf DEF BeginCall, Runs
  <2>2. /\ Actions!BeginCall(<<f, phase, n>>) /\ row[f].status = Before(phase)
        /\ row' = [row EXCEPT ![f].status = During(phase)] /\ UNCHANGED anomaly
    BY <1>2, <2>1 DEF BeginCall
  <2> QED
    BY <2>2, BeginFollows
<1>3. ASSUME CallStopped(r) \/ CallRefused(r) \/ Leaves(r) PROVE FollowInv'
  BY <1>3, NothingFollows DEF CallStopped, CallRefused, Leaves
<1>4. ASSUME Succeeds(o) \/ Fails(o) \/ IsLost(o), ~Runs(r, "idle") PROVE FollowInv'
  <2>1. PICK f \in Fulfilments, phase \in Phases, n \in 1..MaxSequence : o = <<f, phase, n>>
    BY <1>0, <1>4, OperationOf
  <2>2. Succeeds(<<f, phase, n>>) \/ Fails(<<f, phase, n>>) \/ IsLost(<<f, phase, n>>)
    BY <1>4, <2>1
  <2> QED
    BY <2>2, SucceedsFollows, FailsFollows, IsLostFollows
<1>5. ASSUME Abort(r) PROVE FollowInv'
  <2>1. CASE action[o] = "PENDING"
    BY <1>4, <1>5, <2>1 DEF Abort, Runs
  <2>2. CASE action[o] # "PENDING"
    BY <1>5, <2>2, NothingFollows DEF Abort
  <2> QED
    BY <2>1, <2>2
<1>6. ASSUME Answered(r) \/ NotAnswered(r) PROVE FollowInv'
  BY <1>4, <1>6 DEF Answered, NotAnswered, Runs
<1> QED
  BY <1>1, <1>2, <1>3, <1>5, <1>6 DEF Serves

LEMMA FollowStep ==
    ASSUME TypeOK, FollowInv, [Next]_vars
    PROVE  FollowInv'
<1>1. ASSUME NEW f \in Fulfilments, People(f) PROVE FollowInv'
  <2>1. ASSUME NEW lines \in Contents, create(f, lines) PROVE FollowInv'
    BY <2>1, CreateFollows
  <2>2. ASSUME complete(f) PROVE FollowInv'
    BY <2>2, ClosingFollows DEF complete
  <2>3. ASSUME Abandon(f, "CANCELLED") PROVE FollowInv'
    BY <2>3, ClosingFollows DEF Abandon, Releasable
  <2>4. ASSUME Abandon(f, "FAILED") PROVE FollowInv'
    BY <2>4, ClosingFollows DEF Abandon, Releasable
  <2> QED
    BY <1>1, <2>1, <2>2, <2>3, <2>4 DEF People
<1>2. ASSUME NEW o \in Operations, Reconcile(o) PROVE FollowInv'
  <2>1. PICK f \in Fulfilments, phase \in Phases, n \in 1..MaxSequence : o = <<f, phase, n>>
    BY OperationOf
  <2>2. Succeeds(<<f, phase, n>>) \/ Fails(<<f, phase, n>>) \/ IsLost(<<f, phase, n>>)
    BY <1>2, <2>1 DEF Reconcile
  <2> QED
    BY <2>2, SucceedsFollows, FailsFollows, IsLostFollows
<1>3. ASSUME Captures \/ Refunds \/ Turn PROVE FollowInv'
  BY <1>3, NothingFollows DEF Captures, Refunds, Turn
<1>4. ASSUME UNCHANGED vars PROVE FollowInv'
  BY <1>4, NothingFollows DEF vars
<1> QED
  BY <1>1, <1>2, <1>3, <1>4, RequestFollows DEF Next

-----------------------------------------------------------------------------
(* Types *)

\* A content has, of every line, between none and all of its units.
LEMMA ContentsRange ==
    ASSUME NEW c \in Contents, NEW l \in Lines
    PROVE  c[l] \in Nat /\ c[l] <= Quantity[l] /\ Quantity[l] \in Nat /\ Quantity[l] >= 1
<1>1. PICK m \in Lines : c[l] \in 0..Quantity[m]
  BY DEF Contents
<1>2. Quantity[m] \in Nat /\ Quantity[l] \in Nat \ {0}
  BY FulfilmentAssumption
<1> QED
  BY <1>1, <1>2 DEF Contents

LEMMA ContentsType ==
    ASSUME NEW c, c = [l \in Lines |-> c[l]], \A l \in Lines : c[l] \in Nat /\ c[l] <= Quantity[l]
    PROVE  c \in Contents
<1>1. \A l \in Lines : Quantity[l] \in Nat
  BY FulfilmentAssumption
<1>2. \A l \in Lines : c[l] \in 0..Quantity[l]
  BY <1>1
<1>3. c \in [Lines -> UNION {0..Quantity[l] : l \in Lines}]
  BY <1>2
<1> QED
  BY <1>3 DEF Contents

LEMMA InitType ==
    ASSUME Init
    PROVE  TypeOK
<1>1. Empty \in Contents
  <2>1. \A l \in Lines : Empty[l] \in Nat /\ Empty[l] <= Quantity[l]
    BY FulfilmentAssumption DEF Empty
  <2>2. Empty = [l \in Lines |-> Empty[l]]
    BY DEF Empty
  <2> QED
    BY <2>1, <2>2, ContentsType
<1>2. NoRow \in Rows
  BY <1>1 DEF NoRow, Rows, FulfillmentStatus
<1>3. Actions!LifecycleTypeOK
  BY DEF Init, Actions!LifecycleInit, Actions!LifecycleTypeOK, Actions!ActionStatuses
<1>4. row \in [Fulfilments -> Rows]
  BY <1>2 DEF Init
<1>5. request \in [Requests -> [pc : {"call", "abort", "answer"}, op : Operations] \cup {Idle}]
  BY DEF Init
<1>6. captured \in 0..MaxCaptured /\ committed \in 0..captured /\ turns \in 0..MaxTurns
  BY FulfilmentAssumption DEF Init
<1> QED
  BY <1>1, <1>3, <1>4, <1>5, <1>6 DEF Init, TypeOK

\* A move of a fulfilment to a row of the right type.
LEMMA RowType ==
    ASSUME TypeOK, NEW f \in Fulfilments, NEW new \in Rows, row' = [row EXCEPT ![f] = new]
    PROVE  row' \in [Fulfilments -> Rows]
BY DEF TypeOK

\* Every step of an action and of the fulfilment that follows it.
LEMMA ObservedType ==
    ASSUME TypeOK, NEW o \in Operations, Succeeds(o) \/ Fails(o) \/ IsLost(o)
    PROVE  row' \in [Fulfilments -> Rows] /\ Actions!LifecycleTypeOK' /\ anomaly' \in BOOLEAN
<1>1. PICK f \in Fulfilments, phase \in Phases, n \in 1..MaxSequence : o = <<f, phase, n>>
  BY OperationOf
<1>2. o[1] = f /\ o[2] = phase
  BY <1>1
<1>3. Actions!LifecycleTypeOK'
  <2>1. Actions!Succeeds(o) \/ Actions!Fails(o) \/ Actions!IsLost(o)
    BY DEF Succeeds, Fails, IsLost
  <2> QED
    BY <2>1 DEF TypeOK, Actions!LifecycleTypeOK, Actions!ActionStatuses, Actions!Succeeds,
                Actions!Fails, Actions!IsLost
<1>4. row[f] \in Rows
  BY DEF TypeOK
<1>5. ASSUME NEW expected, NEW new \in Rows, Moves(f, expected, new)
      PROVE  row' \in [Fulfilments -> Rows] /\ anomaly' \in BOOLEAN
  BY <1>5, RowType DEF Moves, TypeOK
<1>6. CASE Succeeds(o)
  <2>1. [row[f] EXCEPT !.status = After(phase), !.unknown = "NONE",
                       !.bought = @ \/ phase = "purchase"] \in Rows
    BY <1>4 DEF Rows, FulfillmentStatus, After
  <2> QED
    BY <1>2, <1>3, <1>5, <1>6, <2>1 DEF Succeeds, ObserveDone
<1>7. CASE IsLost(o)
  <2>1. [row[f] EXCEPT !.status = "UNKNOWN_OUTCOME", !.unknown = phase] \in Rows
    BY <1>4 DEF Rows, FulfillmentStatus
  <2> QED
    BY <1>2, <1>3, <1>5, <1>7, <2>1 DEF IsLost, ObserveUnknown
<1>8. CASE Fails(o)
  <2>1. [row[f] EXCEPT !.status = Before(phase), !.unknown = "NONE", !.failed = TRUE] \in Rows
    BY <1>4 DEF Rows, FulfillmentStatus, Before
  <2>2. ObserveUnsent(f) \/ ObserveFailed(f, phase)
    BY <1>2, <1>8 DEF Fails
  <2>3. CASE ObserveUnsent(f)
    BY <1>3, <2>3 DEF ObserveUnsent, TypeOK
  <2>4. CASE ObserveFailed(f, phase)
    BY <1>3, <1>5, <2>1, <2>4 DEF ObserveFailed
  <2> QED
    BY <2>2, <2>3, <2>4
<1> QED
  BY <1>6, <1>7, <1>8

LEMMA RequestType ==
    ASSUME TypeOK, NEW r \in Requests, Serves(r)
    PROVE  TypeOK'
<1> DEFINE o == request[r].op
           Served == [pc : {"call", "abort", "answer"}, op : Operations] \cup {Idle}
<1>0. request \in [Requests -> Served]
  BY DEF TypeOK
<1>1. ~Runs(r, "idle") => request[r] \in [pc : {"call", "abort", "answer"}, op : Operations]
  BY <1>0 DEF Runs, Idle
<1>2. Ends(r) => request' \in [Requests -> Served]
  BY <1>0 DEF Ends
<1>3. ASSUME NEW pc \in {"call", "abort", "answer"}, Goto(r, pc), ~Runs(r, "idle")
      PROVE  request' \in [Requests -> Served]
  BY <1>0, <1>1, <1>3 DEF Goto
<1>4. ASSUME NEW f \in Fulfilments, NEW phase \in Phases, Open(r, f, phase) PROVE TypeOK'
  <2>1. PICK p \in Operations :
          /\ UNCHANGED <<action, left>> \/ Actions!OpenAction(p)
          /\ request' = [request EXCEPT ![r] = [pc |-> "call", op |-> p]]
    BY <1>4 DEF Open
  <2>2. UNCHANGED <<unitVars, moneyVars, row, switchVars, anomaly>>
    BY <1>4 DEF Open
  <2>3. request' \in [Requests -> Served]
    BY <1>0, <2>1
  <2>4. Actions!LifecycleTypeOK'
    BY <2>1 DEF TypeOK, Actions!LifecycleTypeOK, Actions!OpenAction, Actions!ActionStatuses
  <2> QED
    BY <2>2, <2>3, <2>4 DEF TypeOK, unitVars, moneyVars, switchVars
<1>5. ASSUME BeginCall(r) PROVE TypeOK'
  <2>1. o \in Operations /\ ~Runs(r, "idle")
    BY <1>1, <1>5 DEF BeginCall, Runs
  <2>2. PICK f \in Fulfilments, phase \in Phases, n \in 1..MaxSequence : o = <<f, phase, n>>
    BY <2>1, OperationOf
  <2>3. row' = [row EXCEPT ![f] = [row[f] EXCEPT !.status = During(phase)]]
    BY <1>5, <2>2 DEF BeginCall
  <2>4. [row[f] EXCEPT !.status = During(phase)] \in Rows
    BY DEF TypeOK, Rows, FulfillmentStatus, During
  <2>5. row' \in [Fulfilments -> Rows]
    BY <2>3, <2>4, RowType
  <2>6. Actions!LifecycleTypeOK'
    BY <1>5, <2>1 DEF BeginCall, TypeOK, Actions!LifecycleTypeOK, Actions!BeginCall, Actions!ActionStatuses
  <2>7. request' \in [Requests -> Served] /\ UNCHANGED <<unitVars, moneyVars, switchVars, anomaly>>
    BY <1>3, <1>5, <2>1 DEF BeginCall
  <2> QED
    BY <2>5, <2>6, <2>7 DEF TypeOK, unitVars, moneyVars, switchVars
<1>6. ASSUME CallStopped(r) \/ CallRefused(r) \/ Leaves(r) PROVE TypeOK'
  <2>1. /\ UNCHANGED <<unitVars, moneyVars, row, action, left, switchVars, anomaly>>
        /\ ~Runs(r, "idle") /\ (Goto(r, "abort") \/ Ends(r))
    BY <1>6 DEF CallStopped, CallRefused, Leaves, Runs
  <2>2. request' \in [Requests -> Served]
    BY <1>2, <1>3, <2>1
  <2> QED
    BY <2>1, <2>2 DEF TypeOK, unitVars, moneyVars, switchVars, Actions!LifecycleTypeOK
<1>7. ASSUME Succeeds(o) \/ Fails(o) \/ IsLost(o), ~Runs(r, "idle"), Ends(r),
             UNCHANGED <<unitVars, moneyVars, switchVars>>
      PROVE  TypeOK'
  <2>1. o \in Operations
    BY <1>1, <1>7
  <2>2. row' \in [Fulfilments -> Rows] /\ Actions!LifecycleTypeOK' /\ anomaly' \in BOOLEAN
    BY <1>7, <2>1, ObservedType
  <2> QED
    BY <1>2, <1>7, <2>2 DEF TypeOK, unitVars, moneyVars, switchVars
<1>8. ASSUME Abort(r) PROVE TypeOK'
  <2>1. CASE action[o] = "PENDING"
    BY <1>7, <1>8, <2>1 DEF Abort, Runs
  <2>2. CASE action[o] # "PENDING"
    <3>1. UNCHANGED <<unitVars, moneyVars, row, action, left, switchVars, anomaly>> /\ Ends(r)
      BY <1>8, <2>2 DEF Abort
    <3> QED
      BY <1>2, <3>1 DEF TypeOK, unitVars, moneyVars, switchVars, Actions!LifecycleTypeOK
  <2> QED
    BY <2>1, <2>2
<1>9. ASSUME Answered(r) \/ NotAnswered(r) PROVE TypeOK'
  BY <1>7, <1>9 DEF Answered, NotAnswered, Runs
<1> QED
  BY <1>4, <1>5, <1>6, <1>8, <1>9 DEF Serves

LEMMA PeopleType ==
    ASSUME TypeOK, NEW f \in Fulfilments, People(f)
    PROVE  TypeOK'
<1>1. ASSUME NEW lines \in Contents, create(f, lines) PROVE TypeOK'
  <2>1. allocated' \in Contents
    <3>1. allocated' = [l \in Lines |-> allocated[l] + lines[l]]
      BY <1>1 DEF create
    <3>2. \A l \in Lines : allocated[l] + lines[l] \in Nat /\ allocated[l] + lines[l] <= Quantity[l]
      <4> SUFFICES ASSUME NEW l \in Lines
                   PROVE  allocated[l] + lines[l] \in Nat /\ allocated[l] + lines[l] <= Quantity[l]
        OBVIOUS
      <4>1. Quantity[l] - allocated[l] >= lines[l]
        BY <1>1 DEF create
      <4>2. lines[l] \in Nat /\ Quantity[l] \in Nat
        BY ContentsRange
      <4>3. allocated[l] \in Nat
        BY ContentsRange DEF TypeOK
      <4> QED
        BY <4>1, <4>2, <4>3
    <3> QED
      BY <3>1, <3>2, ContentsType
  <2>2. [NoRow EXCEPT !.status = "READY", !.lines = lines] \in Rows
    BY DEF NoRow, Rows, FulfillmentStatus
  <2>3. row' \in [Fulfilments -> Rows]
    BY <1>1, <2>2, RowType DEF create
  <2> QED
    BY <1>1, <2>1, <2>3 DEF create, TypeOK, moneyVars, switchVars, Actions!LifecycleTypeOK
<1>2. ASSUME NEW to \in {"CANCELLED", "FAILED"}, Abandon(f, to) PROVE TypeOK'
  <2>1. allocated' \in Contents
    <3>1. allocated' = [l \in Lines |-> allocated[l] - row[f].lines[l]]
      BY <1>2 DEF Abandon
    <3>2. \A l \in Lines : /\ allocated[l] - row[f].lines[l] \in Nat
                           /\ allocated[l] - row[f].lines[l] <= Quantity[l]
      <4> SUFFICES ASSUME NEW l \in Lines
                   PROVE  /\ allocated[l] - row[f].lines[l] \in Nat
                          /\ allocated[l] - row[f].lines[l] <= Quantity[l]
        OBVIOUS
      <4>1. allocated[l] >= row[f].lines[l]
        BY <1>2 DEF Abandon
      <4>2. row[f].lines \in Contents /\ allocated \in Contents
        BY DEF TypeOK, Rows
      <4>3. row[f].lines[l] \in Nat /\ allocated[l] \in Nat /\ allocated[l] <= Quantity[l] /\ Quantity[l] \in Nat
        BY <4>2, ContentsRange
      <4> QED
        BY <4>1, <4>3
    <3> QED
      BY <3>1, <3>2, ContentsType
  <2>2. [row[f] EXCEPT !.status = to] \in Rows
    BY DEF TypeOK, Rows, FulfillmentStatus
  <2>3. row' \in [Fulfilments -> Rows]
    BY <1>2, <2>2, RowType DEF Abandon
  <2> QED
    BY <1>2, <2>1, <2>3 DEF Abandon, TypeOK, moneyVars, switchVars, Actions!LifecycleTypeOK
<1>3. ASSUME complete(f) PROVE TypeOK'
  <2>1. [row[f] EXCEPT !.status = "COMPLETED"] \in Rows
    BY DEF TypeOK, Rows, FulfillmentStatus
  <2>2. row' \in [Fulfilments -> Rows]
    BY <1>3, <2>1, RowType DEF complete
  <2> QED
    BY <1>3, <2>2 DEF complete, TypeOK, moneyVars, switchVars, Actions!LifecycleTypeOK
<1> QED
  BY <1>1, <1>2, <1>3 DEF People

LEMMA TypeStep ==
    ASSUME TypeOK, [Next]_vars
    PROVE  TypeOK'
<1>1. ASSUME NEW r \in Requests, Serves(r) PROVE TypeOK'
  BY <1>1, RequestType
<1>2. ASSUME NEW f \in Fulfilments, People(f) PROVE TypeOK'
  BY <1>2, PeopleType
<1>3. ASSUME NEW o \in Operations, Reconcile(o) PROVE TypeOK'
  <2>1. Succeeds(o) \/ Fails(o) \/ IsLost(o)
    BY <1>3 DEF Reconcile
  <2>2. row' \in [Fulfilments -> Rows] /\ Actions!LifecycleTypeOK' /\ anomaly' \in BOOLEAN
    BY <2>1, ObservedType
  <2> QED
    BY <1>3, <2>2 DEF Reconcile, TypeOK, unitVars, moneyVars, switchVars
<1>4. ASSUME Captures PROVE TypeOK'
  <2>1. captured' \in 0..MaxCaptured /\ committed' \in 0..captured'
    BY <1>4, FulfilmentAssumption DEF Captures, TypeOK
  <2> QED
    BY <1>4, <2>1 DEF Captures, TypeOK, switchVars, Actions!LifecycleTypeOK
<1>5. ASSUME Refunds PROVE TypeOK'
  <2>1. captured' \in 0..MaxCaptured /\ committed' \in 0..captured'
    BY <1>5, FulfilmentAssumption DEF Refunds, TypeOK
  <2> QED
    BY <1>5, <2>1 DEF Refunds, TypeOK, unitVars, switchVars, Actions!LifecycleTypeOK
<1>6. ASSUME Turn PROVE TypeOK'
  <2>1. turns' \in 0..MaxTurns /\ enabled' \in BOOLEAN
    BY <1>6, FulfilmentAssumption DEF Turn, TypeOK
  <2> QED
    BY <1>6, <2>1 DEF Turn, TypeOK, unitVars, moneyVars, Actions!LifecycleTypeOK
<1>7. ASSUME UNCHANGED vars PROVE TypeOK'
  BY <1>7 DEF vars, TypeOK, unitVars, moneyVars, switchVars, Actions!LifecycleTypeOK
<1> QED
  BY <1>1, <1>2, <1>3, <1>4, <1>5, <1>6, <1>7 DEF Next

-----------------------------------------------------------------------------
(* Units *)

LEMMA UnitsAreFinite ==
    ASSUME TypeOK, NEW fs \in SUBSET Fulfilments, NEW l \in Lines
    PROVE  IsFiniteSet(Units(fs, l)) /\ UnitsOf(fs, l) \in Nat
<1>1. IsFiniteSet(fs) /\ Quantity[l] \in Nat
  BY FulfilmentAssumption, FS_Subset
<1>2. IsFiniteSet(1..Quantity[l])
  BY <1>1, FS_Interval
<1>3. IsFiniteSet(fs \X (1..Quantity[l]))
  BY <1>1, <1>2, FS_Product
<1>4. Units(fs, l) \subseteq fs \X (1..Quantity[l])
  BY DEF Units
<1>5. IsFiniteSet(Units(fs, l))
  BY <1>3, <1>4, FS_Subset
<1> QED
  BY <1>5, FS_CardinalityType DEF UnitsOf

\* More fulfilments have no fewer units.
LEMMA UnitsGrow ==
    ASSUME TypeOK, NEW few \in SUBSET Fulfilments, NEW many \in SUBSET Fulfilments, few \subseteq many,
           NEW l \in Lines
    PROVE  UnitsOf(few, l) <= UnitsOf(many, l)
<1>1. IsFiniteSet(Units(many, l))
  BY UnitsAreFinite
<1>2. Units(few, l) \subseteq Units(many, l)
  BY DEF Units
<1> QED
  BY <1>1, <1>2, FS_Subset DEF UnitsOf

\* A step that gives no unit and takes none, and ends no order.
SameUnits ==
    /\ \A f \in Fulfilments : /\ row'[f].lines = row[f].lines
                              /\ row'[f].status \in Released <=> row[f].status \in Released
                              /\ row'[f].status = "COMPLETED" <=> row[f].status = "COMPLETED"
                              /\ row'[f].status = "NONE" <=> row[f].status = "NONE"
    /\ allocated' = allocated
    /\ order' = "COMPLETED" <=> order = "COMPLETED"
    /\ order' = "AWAITING_PAYMENT" => order = "AWAITING_PAYMENT"

LEMMA SameUnitsCount ==
    ASSUME CountInv, SameUnits
    PROVE  CountInv'
<1>1. Alive' = Alive /\ Delivered' = Delivered
  BY DEF SameUnits, Alive, Delivered
<1>2. ASSUME NEW l \in Lines
      PROVE  UnitsOf(Alive, l)' = UnitsOf(Alive, l) /\ UnitsOf(Delivered, l)' = UnitsOf(Delivered, l)
  <2>1. Units(Alive, l)' = Units(Alive, l)
    BY <1>1 DEF Units, SameUnits, Alive
  <2>2. Units(Delivered, l)' = Units(Delivered, l)
    BY <1>1 DEF Units, SameUnits, Delivered
  <2> QED
    BY <2>1, <2>2 DEF UnitsOf
<1> QED
  BY <1>2 DEF CountInv, SameUnits, OrdersEndDelivered

\* A fulfilment that follows its operation keeps its units.
LEMMA ObservedUnits ==
    ASSUME TypeOK, FollowInv, NEW o \in Operations, Succeeds(o) \/ Fails(o) \/ IsLost(o),
           UNCHANGED unitVars
    PROVE  SameUnits
<1>1. PICK f \in Fulfilments, phase \in Phases, n \in 1..MaxSequence : o = <<f, phase, n>>
  BY OperationOf
<1>2. ASSUME NEW status \in {After(phase), Before(phase), "UNKNOWN_OUTCOME"}, NEW new,
             row' = [row EXCEPT ![f] = new], row[f].status \in Underway(phase),
             new.status = status, new.lines = row[f].lines
      PROVE  SameUnits
  <2>1. row'[f] = new /\ \A g \in Fulfilments : g # f => row'[g] = row[g]
    BY <1>2 DEF TypeOK
  <2>2. row[f].status \notin Released \cup {"COMPLETED"} /\ status \notin Released \cup {"COMPLETED"}
    BY <1>2 DEF Underway, During, After, Before, Released
  <2>3. \A g \in Fulfilments : /\ row'[g].lines = row[g].lines
                               /\ row'[g].status \in Released <=> row[g].status \in Released
                               /\ row'[g].status = "COMPLETED" <=> row[g].status = "COMPLETED"
                               /\ row'[g].status = "NONE" <=> row[g].status = "NONE"
    BY <1>2, <2>1, <2>2 DEF Released
  <2> QED
    BY <2>3 DEF SameUnits, unitVars
<1>3. row[f] \in Rows
  BY DEF TypeOK
<1>4. CASE Succeeds(o)
  <2>1. row[f].status \in Underway(phase)
    BY <1>1, <1>4, SucceedsFollows
  <2> DEFINE new == [row[f] EXCEPT !.status = After(phase), !.unknown = "NONE",
                                   !.bought = @ \/ phase = "purchase"]
  <2>2. row' = [row EXCEPT ![f] = new]
    BY <1>1, <1>4, <2>1 DEF Succeeds, ObserveDone, Moves
  <2>3. new.status = After(phase) /\ new.lines = row[f].lines
    BY <1>3 DEF Rows
  <2> HIDE DEF new
  <2> QED
    BY <1>2, <2>1, <2>2, <2>3
<1>5. CASE IsLost(o)
  <2>1. row[f].status = During(phase) /\ row[f].status \in Underway(phase)
    BY <1>1, <1>5, IsLostFollows DEF Underway
  <2> DEFINE new == [row[f] EXCEPT !.status = "UNKNOWN_OUTCOME", !.unknown = phase]
  <2>2. row' = [row EXCEPT ![f] = new]
    BY <1>1, <1>5, <2>1 DEF IsLost, ObserveUnknown, Moves
  <2>3. new.status = "UNKNOWN_OUTCOME" /\ new.lines = row[f].lines
    BY <1>3 DEF Rows
  <2> HIDE DEF new
  <2> QED
    BY <1>2, <2>1, <2>2, <2>3
<1>6. CASE Fails(o)
  <2>1. row' = row \/ (row[f].status \in Underway(phase) /\ ObserveFailed(f, phase))
    BY <1>1, <1>6, FailsFollows
  <2>2. CASE row' = row
    BY <2>2 DEF SameUnits, unitVars
  <2>3. CASE row[f].status \in Underway(phase) /\ ObserveFailed(f, phase)
    <3> DEFINE new == [row[f] EXCEPT !.status = Before(phase), !.unknown = "NONE", !.failed = TRUE]
    <3>1. row' = [row EXCEPT ![f] = new]
      BY <2>3 DEF ObserveFailed, Moves
    <3>2. new.status = Before(phase) /\ new.lines = row[f].lines
      BY <1>3 DEF Rows
    <3> HIDE DEF new
    <3> QED
      BY <1>2, <2>3, <3>1, <3>2
  <2> QED
    BY <2>1, <2>2, <2>3
<1> QED
  BY <1>4, <1>5, <1>6

LEMMA RequestUnits ==
    ASSUME TypeOK, FollowInv, NEW r \in Requests, Serves(r)
    PROVE  SameUnits
<1> DEFINE o == request[r].op
<1>0. ~Runs(r, "idle") => o \in Operations
  BY DEF TypeOK, Runs, Idle
<1>1. ASSUME UNCHANGED <<row, unitVars>> PROVE SameUnits
  BY <1>1 DEF SameUnits, unitVars
<1>2. ASSUME BeginCall(r) PROVE SameUnits
  <2>1. PICK f \in Fulfilments, phase \in Phases, n \in 1..MaxSequence : o = <<f, phase, n>>
    BY <1>0, <1>2, OperationOf DEF BeginCall, Runs
  <2>2. /\ row[f].status = Before(phase) /\ row' = [row EXCEPT ![f].status = During(phase)]
        /\ UNCHANGED unitVars
    BY <1>2, <2>1 DEF BeginCall
  <2>3. /\ row'[f].status = During(phase) /\ row'[f].lines = row[f].lines
        /\ \A g \in Fulfilments : g # f => row'[g] = row[g]
    BY <2>2 DEF TypeOK, Rows
  <2>4. /\ row[f].status \notin Released \cup {"COMPLETED"}
        /\ row'[f].status \notin Released \cup {"COMPLETED"}
    BY <2>2, <2>3 DEF Before, During, Released
  <2>5. \A g \in Fulfilments : /\ row'[g].lines = row[g].lines
                               /\ row'[g].status \in Released <=> row[g].status \in Released
                               /\ row'[g].status = "COMPLETED" <=> row[g].status = "COMPLETED"
                               /\ row'[g].status = "NONE" <=> row[g].status = "NONE"
    BY <2>3, <2>4 DEF Released
  <2> QED
    BY <2>2, <2>5 DEF SameUnits, unitVars
<1>3. ASSUME Succeeds(o) \/ Fails(o) \/ IsLost(o), ~Runs(r, "idle"), UNCHANGED unitVars PROVE SameUnits
  BY <1>0, <1>3, ObservedUnits
<1>4. ASSUME Abort(r) PROVE SameUnits
  <2>1. CASE action[o] = "PENDING"
    BY <1>3, <1>4, <2>1 DEF Abort, Runs
  <2>2. CASE action[o] # "PENDING"
    BY <1>1, <1>4, <2>2 DEF Abort
  <2> QED
    BY <2>1, <2>2
<1>5. ASSUME Answered(r) \/ NotAnswered(r) PROVE SameUnits
  BY <1>3, <1>5 DEF Answered, NotAnswered, Runs
<1>6. ASSUME \/ \E f \in Fulfilments, phase \in Phases : Open(r, f, phase)
             \/ CallStopped(r) \/ CallRefused(r) \/ Leaves(r)
      PROVE  SameUnits
  BY <1>1, <1>6 DEF Open, CallStopped, CallRefused, Leaves
<1> QED
  BY <1>2, <1>4, <1>5, <1>6 DEF Serves

\* Amounts are counted with sets, one element per unit: those of one fulfilment.
Slice(ref, a) == {ref} \X (1..a)

\* Adding a slice nobody counted yet adds as many, and taking one away takes as many away.
LEMMA SlicesCount ==
    ASSUME NEW S, IsFiniteSet(S), NEW ref, NEW a \in Nat
    PROVE  /\ S \cap Slice(ref, a) = {} => Cardinality(S \cup Slice(ref, a)) = Cardinality(S) + a
           /\ Slice(ref, a) \subseteq S => /\ Cardinality(S \ Slice(ref, a)) = Cardinality(S) - a
                                         /\ a <= Cardinality(S)
<1>1. IsFiniteSet({ref}) /\ Cardinality({ref}) = 1
  BY FS_Singleton
<1>2. IsFiniteSet(1..a) /\ Cardinality(1..a) = a
  BY FS_Interval
<1>3. IsFiniteSet(Slice(ref, a)) /\ Cardinality(Slice(ref, a)) = a
  <2>1. /\ IsFiniteSet({ref} \X (1..a))
        /\ Cardinality({ref} \X (1..a)) = Cardinality({ref}) * Cardinality(1..a)
    BY <1>1, <1>2, FS_Product
  <2> QED
    BY <1>1, <1>2, <2>1 DEF Slice
<1>4. Cardinality(S) \in Nat
  BY FS_CardinalityType
<1>5. ASSUME S \cap Slice(ref, a) = {}
      PROVE  Cardinality(S \cup Slice(ref, a)) = Cardinality(S) + a
  <2>1. Cardinality(S \cup Slice(ref, a)) =
          Cardinality(S) + Cardinality(Slice(ref, a)) - Cardinality(S \cap Slice(ref, a))
    BY <1>3, FS_Union
  <2>2. Cardinality(S \cap Slice(ref, a)) = 0
    BY <1>5, FS_EmptySet
  <2> QED
    BY <1>3, <1>4, <2>1, <2>2
<1>6. ASSUME Slice(ref, a) \subseteq S
      PROVE  Cardinality(S \ Slice(ref, a)) = Cardinality(S) - a /\ a <= Cardinality(S)
  <2>1. S \cap Slice(ref, a) = Slice(ref, a)
    BY <1>6
  <2>2. Cardinality(S \ Slice(ref, a)) = Cardinality(S) - Cardinality(S \cap Slice(ref, a))
    BY FS_Difference
  <2>3. Cardinality(Slice(ref, a)) <= Cardinality(S)
    BY <1>6, FS_Subset
  <2> QED
    BY <1>3, <2>1, <2>2, <2>3
<1> QED
  BY <1>5, <1>6

\* The units of one fulfilment are a slice of a line.
LEMMA UnitsOfOne ==
    ASSUME NEW f \in Fulfilments, NEW lines \in Contents, NEW l \in Lines
    PROVE  /\ {u \in {f} \X (1..Quantity[l]) : u[2] <= lines[l]} = Slice(f, lines[l])
           /\ lines[l] \in Nat
<1>1. lines[l] \in Nat /\ lines[l] <= Quantity[l] /\ Quantity[l] \in Nat
  BY ContentsRange
<1>2. \A k \in 1..Quantity[l] : k <= lines[l] <=> k \in 1..lines[l]
  BY <1>1
<1>3. 1..lines[l] \subseteq 1..Quantity[l]
  BY <1>1
<1>4. ASSUME NEW u PROVE u \in {v \in {f} \X (1..Quantity[l]) : v[2] <= lines[l]} <=> u \in Slice(f, lines[l])
  BY <1>2, <1>3 DEF Slice
<1> QED
  BY <1>1, <1>4

LEMMA CreateCounts ==
    ASSUME TypeOK, CountInv, NEW f \in Fulfilments, NEW lines \in Contents, create(f, lines)
    PROVE  CountInv'
<1>1. /\ row[f].status = "NONE" /\ order = "PAID" /\ order' = order
      /\ allocated' = [l \in Lines |-> allocated[l] + lines[l]]
      /\ row' = [row EXCEPT ![f] = [NoRow EXCEPT !.status = "READY", !.lines = lines]]
  BY DEF create, Paid
<1>2. /\ row'[f].status = "READY" /\ row'[f].lines = lines
      /\ \A g \in Fulfilments : g # f => row'[g] = row[g]
  BY <1>1 DEF TypeOK, NoRow
<1>3. Alive' = Alive \cup {f} /\ f \notin Alive
  BY <1>1, <1>2 DEF Alive, Released
<1>4. Delivered' = Delivered /\ f \notin Delivered
  BY <1>1, <1>2 DEF Delivered
<1>5. ASSUME NEW l \in Lines PROVE allocated'[l] = UnitsOf(Alive, l)'
  <2>1. Units(Alive, l)' = Units(Alive, l) \cup {u \in {f} \X (1..Quantity[l]) : u[2] <= lines[l]}
    <3>1. ASSUME NEW u
          PROVE  u \in Units(Alive, l)'
                   <=> u \in Units(Alive, l) \/ u \in {v \in {f} \X (1..Quantity[l]) : v[2] <= lines[l]}
      BY <1>2, <1>3 DEF Units, Alive
    <3> QED
      BY <3>1
  <2>2. Units(Alive, l)' = Units(Alive, l) \cup Slice(f, lines[l]) /\ lines[l] \in Nat
    BY <2>1, UnitsOfOne
  <2>3. Units(Alive, l) \cap Slice(f, lines[l]) = {}
    BY <1>3 DEF Units, Slice
  <2>4. IsFiniteSet(Units(Alive, l))
    BY UnitsAreFinite DEF Alive
  <2>5. UnitsOf(Alive, l)' = UnitsOf(Alive, l) + lines[l]
    BY <2>2, <2>3, <2>4, SlicesCount DEF UnitsOf
  <2> QED
    BY <1>1, <2>5 DEF CountInv
<1>6. ASSUME NEW l \in Lines PROVE UnitsOf(Delivered, l)' = UnitsOf(Delivered, l)
  <2>1. Units(Delivered, l)' = Units(Delivered, l)
    BY <1>2, <1>4 DEF Units, Delivered
  <2> QED
    BY <2>1 DEF UnitsOf
<1> QED
  BY <1>1, <1>5, <1>6 DEF CountInv, OrdersEndDelivered

LEMMA AbandonCounts ==
    ASSUME TypeOK, CountInv, NEW f \in Fulfilments, NEW to \in {"CANCELLED", "FAILED"}, Abandon(f, to)
    PROVE  CountInv'
<1>1. /\ row[f].status = "READY" /\ order' = order
      /\ allocated' = [l \in Lines |-> allocated[l] - row[f].lines[l]]
      /\ row' = [row EXCEPT ![f].status = to]
  BY DEF Abandon, Releasable
<1>2. /\ row'[f].status = to
      /\ \A g \in Fulfilments : row'[g].lines = row[g].lines
      /\ \A g \in Fulfilments : g # f => row'[g] = row[g]
  BY <1>1 DEF TypeOK, Rows
<1>3. Alive' = Alive \ {f} /\ f \in Alive
  BY <1>1, <1>2 DEF Alive, Released
<1>4. Delivered' = Delivered
  BY <1>1, <1>2 DEF Delivered
<1>5. ASSUME NEW l \in Lines PROVE allocated'[l] = UnitsOf(Alive, l)'
  <2> DEFINE lines == row[f].lines
  <2>1. lines \in Contents
    BY DEF TypeOK, Rows
  <2>2. {u \in {f} \X (1..Quantity[l]) : u[2] <= lines[l]} = Slice(f, lines[l]) /\ lines[l] \in Nat
    BY <2>1, UnitsOfOne
  <2>3. Slice(f, lines[l]) \subseteq Units(Alive, l)
    BY <1>3, <2>2 DEF Units
  <2>4. Units(Alive, l)' = Units(Alive, l) \ {u \in {f} \X (1..Quantity[l]) : u[2] <= lines[l]}
    <3>1. ASSUME NEW u
          PROVE  u \in Units(Alive, l)'
                   <=> u \in Units(Alive, l) /\ u \notin {v \in {f} \X (1..Quantity[l]) : v[2] <= lines[l]}
      BY <1>2, <1>3 DEF Units, Alive
    <3> QED
      BY <3>1
  <2>5. IsFiniteSet(Units(Alive, l))
    BY UnitsAreFinite DEF Alive
  <2>6. UnitsOf(Alive, l)' = UnitsOf(Alive, l) - lines[l]
    BY <2>2, <2>3, <2>4, <2>5, SlicesCount DEF UnitsOf
  <2> QED
    BY <1>1, <2>6 DEF CountInv
<1>6. ASSUME NEW l \in Lines PROVE UnitsOf(Delivered, l)' = UnitsOf(Delivered, l)
  <2>1. Units(Delivered, l)' = Units(Delivered, l)
    BY <1>2, <1>4 DEF Units, Delivered
  <2> QED
    BY <2>1 DEF UnitsOf
<1>7. order # "AWAITING_PAYMENT"
  BY <1>1 DEF CountInv
<1> QED
  BY <1>1, <1>5, <1>6, <1>7 DEF CountInv, OrdersEndDelivered

\* The delivery that brings every line to its units ends the order; none brings a
\* line beyond them.
LEMMA CompleteCounts ==
    ASSUME TypeOK, CountInv, NEW f \in Fulfilments, complete(f)
    PROVE  CountInv'
<1>1. /\ row[f].status = "SHIPPED" /\ row' = [row EXCEPT ![f].status = "COMPLETED"]
      /\ order' = IF order = "PAID" /\ AllDelivered(f) THEN "COMPLETED" ELSE order
      /\ allocated' = allocated
  BY DEF complete
<1>2. /\ row'[f].status = "COMPLETED"
      /\ \A g \in Fulfilments : row'[g].lines = row[g].lines
      /\ \A g \in Fulfilments : g # f => row'[g] = row[g]
  BY <1>1 DEF TypeOK, Rows
<1>3. Alive' = Alive /\ Delivered' = Delivered \cup {f}
  BY <1>1, <1>2 DEF Alive, Delivered, Released
<1>4. ASSUME NEW l \in Lines
      PROVE  /\ UnitsOf(Alive, l)' = UnitsOf(Alive, l)
             /\ UnitsOf(Delivered, l)' = UnitsOf(Delivered \cup {f}, l)
             /\ UnitsOf(Delivered, l) <= UnitsOf(Delivered \cup {f}, l)
             /\ UnitsOf(Delivered \cup {f}, l) <= Quantity[l]
             /\ UnitsOf(Delivered \cup {f}, l) \in Nat /\ UnitsOf(Delivered, l) \in Nat
             /\ Quantity[l] \in Nat
  <2>1. Units(Alive, l)' = Units(Alive, l)
    BY <1>2, <1>3 DEF Units, Alive
  <2>2. Units(Delivered, l)' = Units(Delivered \cup {f}, l)
    BY <1>2, <1>3 DEF Units, Delivered
  <2>3. Delivered \cup {f} \subseteq Alive /\ Alive \subseteq Fulfilments /\ Delivered \subseteq Fulfilments
    BY <1>1 DEF Alive, Delivered, Released
  <2>4. /\ UnitsOf(Delivered, l) <= UnitsOf(Delivered \cup {f}, l)
        /\ UnitsOf(Delivered \cup {f}, l) <= UnitsOf(Alive, l)
    BY <2>3, UnitsGrow
  <2>5. /\ UnitsOf(Delivered \cup {f}, l) \in Nat /\ UnitsOf(Delivered, l) \in Nat
        /\ UnitsOf(Alive, l) \in Nat
    BY <2>3, UnitsAreFinite
  <2>6. allocated[l] <= Quantity[l] /\ Quantity[l] \in Nat
    BY ContentsRange DEF TypeOK
  <2>7. allocated[l] = UnitsOf(Alive, l)
    BY DEF CountInv
  <2>8. UnitsOf(Delivered \cup {f}, l) <= Quantity[l]
    BY <2>4, <2>5, <2>6, <2>7
  <2> QED
    BY <2>1, <2>2, <2>4, <2>5, <2>6, <2>8 DEF UnitsOf
<1>5. order \in {"PAID", "COMPLETED"}
  BY <1>1 DEF CountInv, TypeOK
<1>6. AllDelivered(f) <=> \A l \in Lines : UnitsOf(Delivered \cup {f}, l) = Quantity[l]
  <2>1. ASSUME NEW l \in Lines
        PROVE  UnitsOf(Delivered \cup {f}, l) >= Quantity[l] <=> UnitsOf(Delivered \cup {f}, l) = Quantity[l]
    <3>1. /\ UnitsOf(Delivered \cup {f}, l) <= Quantity[l]
          /\ UnitsOf(Delivered \cup {f}, l) \in Nat /\ Quantity[l] \in Nat
      BY <1>4
    <3> QED
      BY <3>1
  <2> QED
    BY <2>1 DEF AllDelivered
<1>7. order = "COMPLETED" => \A l \in Lines : UnitsOf(Delivered \cup {f}, l) = Quantity[l]
  <2> SUFFICES ASSUME order = "COMPLETED", NEW l \in Lines
               PROVE  UnitsOf(Delivered \cup {f}, l) = Quantity[l]
    OBVIOUS
  <2>1. UnitsOf(Delivered, l) = Quantity[l]
    BY DEF CountInv, OrdersEndDelivered
  <2>2. /\ UnitsOf(Delivered, l) <= UnitsOf(Delivered \cup {f}, l)
        /\ UnitsOf(Delivered \cup {f}, l) <= Quantity[l]
        /\ UnitsOf(Delivered \cup {f}, l) \in Nat /\ Quantity[l] \in Nat
    BY <1>4
  <2> QED
    BY <2>1, <2>2
<1>8. OrdersEndDelivered'
  <2>1. order' = "COMPLETED" <=> \A l \in Lines : UnitsOf(Delivered \cup {f}, l) = Quantity[l]
    BY <1>1, <1>5, <1>6, <1>7
  <2> QED
    BY <1>4, <2>1 DEF OrdersEndDelivered
<1>9. \A l \in Lines : allocated'[l] = UnitsOf(Alive, l)'
  BY <1>1, <1>4 DEF CountInv
<1>10. order' # "AWAITING_PAYMENT"
  BY <1>1, <1>5
<1> QED
  BY <1>8, <1>9, <1>10 DEF CountInv

LEMMA CountStep ==
    ASSUME TypeOK, FollowInv, CountInv, [Next]_vars
    PROVE  CountInv'
<1>1. ASSUME NEW r \in Requests, Serves(r) PROVE CountInv'
  BY <1>1, RequestUnits, SameUnitsCount
<1>2. ASSUME NEW f \in Fulfilments, People(f) PROVE CountInv'
  BY <1>2, CreateCounts, AbandonCounts, CompleteCounts DEF People
<1>3. ASSUME NEW o \in Operations, Reconcile(o) PROVE CountInv'
  BY <1>3, ObservedUnits, SameUnitsCount DEF Reconcile
<1>4. ASSUME Captures \/ Refunds \/ Turn \/ UNCHANGED vars PROVE CountInv'
  <2>1. SameUnits
    BY <1>4 DEF Captures, Refunds, Turn, vars, unitVars, SameUnits
  <2> QED
    BY <2>1, SameUnitsCount
<1> QED
  BY <1>1, <1>2, <1>3, <1>4 DEF Next

-----------------------------------------------------------------------------
(* The theorems *)

LEMMA InitInv ==
    ASSUME Init
    PROVE  IInv
<1>1. TypeOK
  BY InitType
<1>2. FollowInv
  <2>1. \A o \in Operations : action[o] = "NONE"
    BY DEF Init, Actions!LifecycleInit
  <2>2. ASSUME NEW f \in Fulfilments PROVE Orderly(f)
    <3>1. \A phase \in Phases, n \in 1..MaxSequence : action[<<f, phase, n>>] = "NONE"
      BY <2>1 DEF Operations
    <3>2. OpenedInOrder(f)
      <4>1. 0 \in 0..MaxSequence /\ \A n \in 1..MaxSequence : ~(n <= 0)
        BY FulfilmentAssumption
      <4> QED
        BY <3>1, <4>1 DEF OpenedInOrder
    <3>3. EarlierFailed(f)
      BY <3>1 DEF EarlierFailed
    <3>4. \A phase \in Phases, s \in Telling : ~Has(f, phase, s)
      BY <3>1 DEF Has, Telling
    <3>5. row[f] = NoRow
      BY DEF Init
    <3>6. PendingIsEarly(f) /\ Follows(f)
      BY <3>4, <3>5 DEF PendingIsEarly, Follows, Telling, Phases, NoRow, During
    <3> QED
      BY <3>2, <3>3, <3>6 DEF Orderly
  <2> QED
    BY <2>2 DEF FollowInv, LeftWasCalled, Init, Actions!LifecycleInit
<1>3. CountInv
  <2>1. \A f \in Fulfilments : row[f].status = "NONE"
    BY DEF Init, NoRow
  <2>2. Alive = {} /\ Delivered = {}
    BY <2>1 DEF Alive, Delivered, Released
  <2>3. ASSUME NEW l \in Lines PROVE UnitsOf({}, l) = 0
    <3>1. Units({}, l) = {}
      BY DEF Units
    <3> QED
      BY <3>1, FS_EmptySet DEF UnitsOf
  <2>4. \A l \in Lines : allocated[l] = 0
    BY DEF Init, Empty
  <2>5. PICK l \in Lines : Quantity[l] # 0
    BY FulfilmentAssumption
  <2>6. OrdersEndDelivered
    BY <2>2, <2>3, <2>5 DEF OrdersEndDelivered, Init
  <2> QED
    BY <2>1, <2>2, <2>3, <2>4, <2>6 DEF CountInv
<1> QED
  BY <1>1, <1>2, <1>3 DEF IInv

\* What holds in every state: the types, that fulfilments follow their operations,
\* and the count of their units.
LEMMA Invariant == Spec => []IInv
<1>1. Init => IInv
  BY InitInv
<1>2. IInv /\ [Next]_vars => IInv'
  BY TypeStep, FollowStep, CountStep DEF IInv
<1> QED
  BY <1>1, <1>2, PTL DEF Spec

\* The rows, the operations and the counters keep their types; in particular no
\* line ever has more units set aside than it has (order_items' CHECK of
\* allocated_quantity).
THEOREM TypeCorrect == Spec => []TypeOK
<1>1. IInv => TypeOK
  BY DEF IInv
<1> QED
  BY <1>1, Invariant, PTL

\* A fulfilment says that it may have been sent exactly when a call of its phase may
\* have left, and no observer is ever surprised (fulfilment_projection.py), for any
\* number of operations, requests and fulfilments.
THEOREM FulfilmentsFollowTheirCalls == Spec => []FulfilmentFollowsCalls
<1>1. FollowInv => FulfilmentFollowsCalls
  BY DEF FollowInv, Orderly, Follows, FulfilmentFollowsCalls
<1>2. IInv => FulfilmentFollowsCalls
  BY <1>1 DEF IInv
<1> QED
  BY <1>2, Invariant, PTL

\* A purchase that left and is not known to have failed holds its units.
LEMMA BoughtIsAlive ==
    ASSUME TypeOK, FollowInv
    PROVE  MayHaveBought \subseteq Alive
<1> SUFFICES ASSUME NEW f \in Fulfilments, NEW n \in 1..MaxSequence,
                    <<f, "purchase", n>> \in left, action[<<f, "purchase", n>>] # "FAILED_CONFIRMED"
             PROVE  row[f].status \notin Released
  BY DEF MayHaveBought, Alive
<1>1. action[<<f, "purchase", n>>] \in Actions!ActionStatuses
  BY DEF TypeOK, Actions!LifecycleTypeOK
<1>2. action[<<f, "purchase", n>>] \in {"CALLING", "UNKNOWN_OUTCOME", "SUCCEEDED"}
  BY <1>1 DEF FollowInv, LeftWasCalled, Actions!ActionStatuses
<1>3. \E s \in {"CALLING", "UNKNOWN_OUTCOME", "SUCCEEDED"} : Has(f, "purchase", s)
  BY <1>2 DEF Has
<1>4. Follows(f)
  BY DEF FollowInv, Orderly
<1> QED
  BY <1>3, <1>4 DEF Follows, Phases, During, Released

\* allocation.py: the units whose purchase may have been made never exceed those of
\* their line, and the line counts exactly the units of the fulfilments alive,
\* whatever was cancelled, failed, retried or lost.
THEOREM NothingBoughtTwice == Spec => []NothingIsBoughtTwice
<1>1. ASSUME IInv PROVE NothingIsBoughtTwice
  <2> SUFFICES ASSUME NEW l \in Lines
               PROVE  UnitsOf(MayHaveBought, l) <= Quantity[l] /\ allocated[l] = UnitsOf(Alive, l)
    BY DEF NothingIsBoughtTwice, Alive
  <2>1. MayHaveBought \subseteq Alive /\ Alive \subseteq Fulfilments
    BY <1>1, BoughtIsAlive DEF IInv, Alive
  <2>2. UnitsOf(MayHaveBought, l) <= UnitsOf(Alive, l)
    BY <1>1, <2>1, UnitsGrow DEF IInv
  <2>3. allocated[l] = UnitsOf(Alive, l)
    BY <1>1 DEF IInv, CountInv
  <2>4. allocated[l] \in Nat /\ allocated[l] <= Quantity[l] /\ Quantity[l] \in Nat
    BY <1>1, ContentsRange DEF IInv, TypeOK
  <2>5. UnitsOf(MayHaveBought, l) \in Nat
    BY <1>1, <2>1, UnitsAreFinite DEF IInv
  <2> QED
    BY <2>2, <2>3, <2>4, <2>5
<1> QED
  BY <1>1, Invariant, PTL

\* fulfilment.py, "who closes the order": it is COMPLETED exactly when all the units
\* of all its lines were delivered, by however many fulfilments and in any order.
THEOREM OrdersAreDelivered == Spec => []OrdersEndDelivered
<1>1. IInv => OrdersEndDelivered
  BY DEF IInv, CountInv
<1> QED
  BY <1>1, Invariant, PTL

=============================================================================
