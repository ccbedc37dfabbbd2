-------------------------- MODULE ExternalActions --------------------------
(***************************************************************************)
(* The life cycle of an action with an effect outside the system           *)
(* (actions/service.py), over the budget ledger it reserves from.          *)
(*                                                                         *)
(*   open, reserve -> PENDING -begin_call (commit)-> CALLING -adapter->    *)
(*       SUCCEEDED | FAILED_CONFIRMED | UNKNOWN_OUTCOME                    *)
(*                                                                         *)
(* The actors are executors (each with its own database session, whose     *)
(* copy of the row is only as fresh as its last refresh), the scheduled    *)
(* sweep, a reconciler, a person at the command line, the owner of the     *)
(* budget, and the provider, which may act on a request long after its     *)
(* sender gave up or died.  One action is one committed transaction.       *)
(*                                                                         *)
(* Age thresholds are left out: the sweep may take any row at any moment,  *)
(* so what holds here holds however short `older_than` is.                 *)
(***************************************************************************)
EXTENDS BudgetLedger

CONSTANTS
    Sites,       \* `reference` of an operation: where in the domain it belongs
    MaxSequence, \* bound: operations opened at one site
    Requests,    \* what may be asked for (what the fingerprint tells apart)
    Amount,      \* the cents each request spends
    Executors,   \* sessions that open and execute operations
    Idempotent,  \* the sites whose adapter declares supports_idempotency
    Lookup       \* the sites whose adapter declares an authoritative lookup

Operations == Sites \X (1..MaxSequence)

ASSUME ActionsAssumption ==
    /\ MaxSequence \in Nat
    /\ References = Operations
    /\ Amount \in [Requests -> 0..MaxAmount]
    /\ Idempotent \subseteq Sites
    /\ Lookup \subseteq Sites

VARIABLES
    row,      \* external_actions: one row per (reference, sequence)
    enabled,  \* the kill switch
    session,  \* what each executor is doing and what its session has cached
    call,     \* the request `begin_call` announced, as the provider has it
    replay,   \* the same request sent again by `reconcile` with the same key
    effects   \* how often the provider really did it

actionVars == <<row, enabled, session, call, replay, effects>>
vars == <<ledgerVars, actionVars>>

OpenStatuses == {"PENDING", "CALLING", "UNKNOWN_OUTCOME"}
ClosedStatuses == {"SUCCEEDED", "FAILED_CONFIRMED"}
Statuses == OpenStatuses \cup ClosedStatuses

\* Who closed a row, as its columns and the audit trail say: the call that made
\* it (`late_response` or not), the sweep, a lookup, a key replay or a person.
Closers == {"nobody", "answer", "late_answer", "sweep", "lookup", "key-replay", "person"}

NoRow == [status |-> "NONE", applied |-> FALSE, by |-> "nobody"]
Pending(q) == [status |-> "PENDING", request |-> q, applied |-> FALSE, by |-> "nobody"]
Idle == [pc |-> "idle"]

\* Where a request is: never sent, on its way, executed, refused without an
\* effect, or lost on the way.
Sendings == {"none", "sent", "done", "rejected", "lost"}

Rows == [status: Statuses, request: Requests, applied: BOOLEAN, by: Closers]
Sessions == [pc: {"ready", "calling", "finished"}, op: Operations, seen: Statuses]

ActionsTypeOK ==
    /\ row \in [Operations -> Rows \cup {NoRow}]
    /\ enabled \in BOOLEAN
    /\ session \in [Executors -> Sessions \cup {Idle}]
    /\ call \in [Operations -> Sendings]
    /\ replay \in [Operations -> Sendings]
    /\ effects \in [Operations -> Nat]

TypeOK == LedgerTypeOK /\ ActionsTypeOK

-----------------------------------------------------------------------------
(* Reading the rows *)

Exists(op) == row[op].status # "NONE"

\* The operations ever opened at a site.  Sequences are given out one by one, so
\* `n` is the latest of the site when they are exactly 1..n (0: there is none).
Opened(s) == {n \in 1..MaxSequence : Exists(<<s, n>>)}
IsLatest(s, n) == Opened(s) = 1..n

\* Mutant of the next definition: done is done, recorded or not.
OwnsWhileOpen(op) == row[op].status \in OpenStatuses

\* An operation keeps its site until it failed for sure or its result is
\* recorded locally.
StillOwnsTheSite(op) ==
    \/ row[op].status \in OpenStatuses
    \/ row[op].status = "SUCCEEDED" /\ ~row[op].applied

\* Nothing is reserved for what costs nothing, nor while no budget exists.
Spends(q) == Amount[q] > 0 /\ HasBudget

-----------------------------------------------------------------------------
(* Moving a row and the ledger together *)

\* `_transition`: the compare-and-set every change of status goes through.
Transition(op, expected, to, by) ==
    /\ row[op].status \in expected
    /\ row' = [row EXCEPT ![op].status = to, ![op].by = by]

\* Mutant of the next definition: the amount of the operation, reserved or not.
MoveBlindly(op, kind) ==
    /\ totals' = Settled(kind, Amount[row[op].request])
    /\ events' = [events EXCEPT ![op].settled = kind]
    /\ UNCHANGED limit

\* `_move_ledger`: settle what this operation has reserved and nothing else.
MoveLedger(op, kind) ==
    IF outstanding(op) > 0 THEN move(op, outstanding(op), kind) ELSE UNCHANGED ledgerVars

Settlement(to) == IF to = "SUCCEEDED" THEN "COMMIT" ELSE "RELEASE"

\* `reserve` of a PENDING operation: nothing to do when it does not spend, when
\* no budget was ever authorised, or when its reservation is already live.
ReserveFor(op, q) ==
    \/ /\ ~Spends(q) \/ Live(op)
       /\ UNCHANGED ledgerVars
    \/ /\ Spends(q)
       /\ reserve(op, Amount[q])

-----------------------------------------------------------------------------
(* An executor *)

Put(e, pc, op, seen) == session' = [session EXCEPT ![e] = [pc |-> pc, op |-> op, seen |-> seen]]

Quit(e) == session' = [session EXCEPT ![e] = Idle]

\* `open` + `reserve` in one transaction: a new operation of the site, unless
\* an earlier one still owns it.
OpenNew(e, s, q) ==
    /\ session[e].pc = "idle"
    /\ \E n \in 0..(MaxSequence - 1) :
         /\ IsLatest(s, n)
         /\ n > 0 => ~StillOwnsTheSite(<<s, n>>)
         /\ row' = [row EXCEPT ![<<s, n + 1>>] = Pending(q)]
         /\ ReserveFor(<<s, n + 1>>, q)
         /\ Put(e, "ready", <<s, n + 1>>, "PENDING")
    /\ UNCHANGED <<enabled, call, replay, effects>>

\* A retry of the same request takes the operation that still owns the site,
\* with its key and its reservation.  Another request is refused.
OpenAgain(e, s, q) ==
    /\ session[e].pc = "idle"
    /\ \E n \in 1..MaxSequence :
         LET op == <<s, n>>
         IN  /\ IsLatest(s, n)
             /\ StillOwnsTheSite(op)
             /\ row[op].request = q
             /\ IF row[op].status = "PENDING" THEN ReserveFor(op, q) ELSE UNCHANGED ledgerVars
             /\ Put(e, "ready", op, row[op].status)
    /\ UNCHANGED <<row, enabled, call, replay, effects>>

\* Mutant of the next definition: the row is written by what the session saw.
BeginWithoutCompare(e) ==
    /\ session[e].pc = "ready"
    /\ session[e].seen = "PENDING"
    /\ enabled
    /\ LET op == session[e].op
       IN  /\ row' = [row EXCEPT ![op].status = "CALLING"]
           /\ call' = [call EXCEPT ![op] = "sent"]
           /\ Put(e, "calling", op, "CALLING")
    /\ UNCHANGED <<ledgerVars, enabled, replay, effects>>

\* `begin_call`: PENDING -> CALLING and commit; only then the request leaves.
Begin(e) ==
    /\ session[e].pc = "ready"
    /\ session[e].seen = "PENDING"
    /\ enabled
    /\ LET op == session[e].op
       IN  /\ Transition(op, {"PENDING"}, "CALLING", "nobody")
           /\ call' = [call EXCEPT ![op] = "sent"]
           /\ Put(e, "calling", op, "CALLING")
    /\ UNCHANGED <<ledgerVars, enabled, replay, effects>>

\* `begin_call` raises: the session saw another status, the kill switch is off,
\* or someone else moved the row first.  Nothing is written.
BeginRefused(e) ==
    /\ session[e].pc = "ready"
    /\ session[e].seen # "SUCCEEDED"
    /\ session[e].seen # "PENDING" \/ ~enabled \/ row[session[e].op].status # "PENDING"
    /\ Quit(e)
    /\ UNCHANGED <<ledgerVars, row, enabled, call, replay, effects>>

\* `execute` of an operation already done: nothing is sent again.
AlreadyDone(e) ==
    /\ session[e].pc = "ready"
    /\ session[e].seen = "SUCCEEDED"
    /\ Put(e, "finished", session[e].op, "SUCCEEDED")
    /\ UNCHANGED <<ledgerVars, row, enabled, call, replay, effects>>

\* What the adapter can tell its caller: what the provider answered, or that no
\* answer came in time.
Answers(op) ==
    {"UNKNOWN_OUTCOME"}
    \cup (IF call[op] = "done" THEN {"SUCCEEDED"} ELSE {})
    \cup (IF call[op] = "rejected" THEN {"FAILED_CONFIRMED"} ELSE {})

\* `finish` marks an answer late by comparing with the status the session has
\* cached, not with the row.
CloserOf(e) ==
    IF session[e].seen = "UNKNOWN_OUTCOME" THEN "late_answer" ELSE "answer"

\* Mutant of the next definition: the answer closes the row and forgets the ledger.
FinishUnsettled(e, to) ==
    /\ session[e].pc = "calling"
    /\ LET op == session[e].op
       IN  /\ to \in Answers(op)
           /\ Transition(op, {"CALLING", "UNKNOWN_OUTCOME"}, to, CloserOf(e))
           /\ IF to = "SUCCEEDED" THEN Put(e, "finished", op, to) ELSE Quit(e)
    /\ UNCHANGED <<ledgerVars, enabled, call, replay, effects>>

\* `finish` with an answer: it closes the row and settles its reservation, also
\* when someone marked the row UNKNOWN_OUTCOME meanwhile.  Without an answer
\* the row becomes UNKNOWN_OUTCOME and the reservation stays.
Finish(e, to) ==
    /\ session[e].pc = "calling"
    /\ LET op == session[e].op
       IN  /\ to \in Answers(op)
           /\ \/ /\ to \in ClosedStatuses
                 /\ Transition(op, {"CALLING", "UNKNOWN_OUTCOME"}, to, CloserOf(e))
                 /\ MoveLedger(op, Settlement(to))
              \/ /\ to = "UNKNOWN_OUTCOME"
                 /\ Transition(op, {"CALLING"}, to, "nobody")
                 /\ UNCHANGED ledgerVars
           /\ IF to = "SUCCEEDED" THEN Put(e, "finished", op, to) ELSE Quit(e)
    /\ UNCHANGED <<enabled, call, replay, effects>>

\* `finish` loses the compare-and-set and raises: nothing is written.
FinishRefused(e, to) ==
    /\ session[e].pc = "calling"
    /\ LET op == session[e].op
       IN  /\ to \in Answers(op)
           /\ \/ row[op].status \in ClosedStatuses
              \/ to = "UNKNOWN_OUTCOME" /\ row[op].status = "UNKNOWN_OUTCOME"
    /\ Quit(e)
    /\ UNCHANGED <<ledgerVars, row, enabled, call, replay, effects>>

\* Mutant of the next definition: a status of its own, unknown to the others.
MarkAsApplied(e) ==
    /\ session[e].pc = "finished"
    /\ row' = [row EXCEPT ![session[e].op].status = "APPLIED"]
    /\ Quit(e)
    /\ UNCHANGED <<ledgerVars, enabled, call, replay, effects>>

\* `mark_applied`, committed with the step that records the result.
MarkApplied(e) ==
    /\ session[e].pc = "finished"
    /\ row' = [row EXCEPT ![session[e].op].applied = TRUE]
    /\ Quit(e)
    /\ UNCHANGED <<ledgerVars, enabled, call, replay, effects>>

\* The process of an executor dies, or its session is rolled back and closed.
Crash(e) ==
    /\ session[e].pc # "idle"
    /\ Quit(e)
    /\ UNCHANGED <<ledgerVars, row, enabled, call, replay, effects>>

-----------------------------------------------------------------------------
(* The sweep, the retry that finds an interrupted call, the reconciler and *)
(* the person                                                              *)

\* A PENDING row never left: close it and release what it held.
SweepPending(op) ==
    /\ Transition(op, {"PENDING"}, "FAILED_CONFIRMED", "sweep")
    /\ MoveLedger(op, "RELEASE")
    /\ UNCHANGED <<enabled, session, call, replay, effects>>

\* Mutant of the next definition: the status expected is that of the other branch.
SweepPendingTwice(op) ==
    /\ Transition(op, {"PENDING"}, "UNKNOWN_OUTCOME", "nobody")
    /\ UNCHANGED <<ledgerVars, enabled, session, call, replay, effects>>

\* A CALLING row may have left: nobody knows, and the reservation stays.
SweepCalling(op) ==
    /\ Transition(op, {"CALLING"}, "UNKNOWN_OUTCOME", "nobody")
    /\ UNCHANGED <<ledgerVars, enabled, session, call, replay, effects>>

\* A retry that finds the latest operation of its site CALLING does not know
\* whether that attempt is alive.
MarkInterrupted(s) ==
    /\ \E n \in 1..MaxSequence :
         /\ IsLatest(s, n)
         /\ Transition(<<s, n>>, {"CALLING"}, "UNKNOWN_OUTCOME", "nobody")
    /\ UNCHANGED <<ledgerVars, enabled, session, call, replay, effects>>

\* `_close_unknown`.
CloseUnknown(op, to, by) ==
    /\ Transition(op, {"UNKNOWN_OUTCOME"}, to, by)
    /\ MoveLedger(op, Settlement(to))
    /\ UNCHANGED <<enabled, session, call, replay, effects>>

\* Mutant of the next definition: the settle time of the adapter is not awaited.
LookupUnsettled(op) ==
    /\ op[1] \in Lookup
    /\ CloseUnknown(op, IF call[op] = "done" THEN "SUCCEEDED" ELSE "FAILED_CONFIRMED", "lookup")

\* `reconcile` by an authoritative lookup.  "It does not exist" is believed only
\* after the settle time the adapter declares: once the request is no longer on
\* its way.
LookupReconcile(op) ==
    /\ op[1] \in Lookup
    /\ call[op] # "sent"
    /\ CloseUnknown(op, IF call[op] = "done" THEN "SUCCEEDED" ELSE "FAILED_CONFIRMED", "lookup")

\* `reconcile` without a lookup: the same request with the same key.
ReplaySend(op) ==
    /\ op[1] \in Idempotent \ Lookup
    /\ row[op].status = "UNKNOWN_OUTCOME"
    /\ replay[op] # "sent"
    /\ replay' = [replay EXCEPT ![op] = "sent"]
    /\ UNCHANGED <<ledgerVars, row, enabled, session, call, effects>>

\* ... and its answer.  A refusal or a timeout of the replay closes nothing.
ReplayAnswer(op) ==
    /\ replay[op] = "done"
    /\ CloseUnknown(op, "SUCCEEDED", "key-replay")

\* A person closes it after checking on their own.
Resolve(op, succeeded) ==
    CloseUnknown(op, IF succeeded THEN "SUCCEEDED" ELSE "FAILED_CONFIRMED", "person")

-----------------------------------------------------------------------------
(* The operator, the owner and the provider *)

SwitchTo(b) ==
    /\ enabled' = b
    /\ UNCHANGED <<ledgerVars, row, session, call, replay, effects>>

Authorise(h) ==
    /\ authorise_budget(h)
    /\ UNCHANGED actionVars

\* A provider that honours keys does what a key asks at most once.
EffectsAfter(op) == IF op[1] \in Idempotent /\ effects[op] > 0 THEN effects[op] ELSE effects[op] + 1

ProviderExecutes(op) ==
    /\ effects' = [effects EXCEPT ![op] = EffectsAfter(op)]
    /\ \/ /\ call[op] = "sent"
          /\ call' = [call EXCEPT ![op] = "done"]
          /\ UNCHANGED replay
       \/ /\ replay[op] = "sent"
          /\ replay' = [replay EXCEPT ![op] = "done"]
          /\ UNCHANGED call
    /\ UNCHANGED <<ledgerVars, row, enabled, session>>

\* Refused by the provider, never sent by the transport, or lost on the way.
ProviderIgnores(op, how) ==
    /\ \/ /\ call[op] = "sent"
          /\ call' = [call EXCEPT ![op] = how]
          /\ UNCHANGED replay
       \/ /\ replay[op] = "sent"
          /\ replay' = [replay EXCEPT ![op] = how]
          /\ UNCHANGED call
    /\ UNCHANGED <<ledgerVars, row, enabled, session, effects>>

-----------------------------------------------------------------------------

Init ==
    /\ LedgerInit
    /\ row = [op \in Operations |-> NoRow]
    /\ enabled = TRUE
    /\ session = [e \in Executors |-> Idle]
    /\ call = [op \in Operations |-> "none"]
    /\ replay = [op \in Operations |-> "none"]
    /\ effects = [op \in Operations |-> 0]

ExecutorStep(e) ==
    \/ \E s \in Sites, q \in Requests : OpenNew(e, s, q) \/ OpenAgain(e, s, q)
    \/ Begin(e)
    \/ BeginRefused(e)
    \/ AlreadyDone(e)
    \/ \E to \in Statuses : Finish(e, to) \/ FinishRefused(e, to)
    \/ MarkApplied(e)
    \/ Crash(e)

ReconcilerStep ==
    \/ \E op \in Operations : SweepPending(op) \/ SweepCalling(op)
    \/ \E s \in Sites : MarkInterrupted(s)
    \/ \E op \in Operations : LookupReconcile(op) \/ ReplaySend(op) \/ ReplayAnswer(op)
    \/ \E op \in Operations, succeeded \in BOOLEAN : Resolve(op, succeeded)

EnvironmentStep ==
    \/ \E b \in BOOLEAN : SwitchTo(b)
    \/ \E h \in Limits : Authorise(h)
    \/ \E op \in Operations : ProviderExecutes(op)
    \/ \E op \in Operations, how \in {"rejected", "lost"} : ProviderIgnores(op, how)

Next == (\E e \in Executors : ExecutorStep(e)) \/ ReconcilerStep \/ EnvironmentStep

Spec == Init /\ [][Next]_vars

\* The sweep is a recurring job (reconciliation_actions) that every worker
\* enqueues in each bucket, so a row that stays stale is eventually taken.
SweepFairness ==
    \A op \in Operations : WF_vars(SweepPending(op)) /\ WF_vars(SweepCalling(op))

FairSpec == Spec /\ SweepFairness

-----------------------------------------------------------------------------
(* Properties *)

\* The reservation of an operation is exactly as settled as its outcome is
\* known: live while it is PENDING, CALLING or UNKNOWN_OUTCOME, committed once
\* SUCCEEDED and released once FAILED_CONFIRMED, whoever moved the row and in
\* whatever order (ADR 0024, table of section 1).
ReservationFollowsOutcome ==
    \A op \in Operations :
        events[op].amount > 0 =>
            /\ Exists(op)
            /\ events[op].amount = Amount[row[op].request]
            /\ events[op].settled =
                 (CASE row[op].status = "SUCCEEDED" -> "COMMIT"
                    [] row[op].status = "FAILED_CONFIRMED" -> "RELEASE"
                    [] OTHER -> "NO")

\* A request leaves only after `begin_call` is committed, and the provider does
\* what one operation asks at most once, also when its adapter ignores keys.
OneEffectAfterTheBoundary ==
    \A op \in Operations :
        /\ effects[op] <= 1
        /\ row[op].status \in {"NONE", "PENDING"} => call[op] = "none" /\ effects[op] = 0

\* FAILED_CONFIRMED means the effect did not happen and will not: no path but a
\* person's word, and no replay of the key meanwhile, closes an operation so
\* when the provider did it or still may.
FailedMeansNoEffect ==
    \A op \in Operations :
        /\ row[op].status = "FAILED_CONFIRMED"
        /\ row[op].by # "person"
        /\ replay[op] = "none"
        => effects[op] = 0 /\ call[op] # "sent"

\* A site starts another operation only when the one before it is closed for
\* good: failed, or done and recorded locally.  So an effect of the earlier one
\* that nobody denied is never followed by a second one for the same site.
SiteAdvancesWhenClosed ==
    \A s \in Sites : \A n \in Opened(s) :
        n > 1 =>
            /\ row[<<s, n - 1>>].status \in ClosedStatuses
            /\ row[<<s, n - 1>>].status = "SUCCEEDED" => row[<<s, n - 1>>].applied

\* Every operation that was opened stops holding money on its own account of
\* being forgotten: sooner or later it is sent, closed or declared unknown.
NothingStaysUnderway ==
    \A op \in Operations :
        row[op].status \in {"PENDING", "CALLING"} ~> row[op].status \notin {"PENDING", "CALLING"}

\* The life cycle others build on: seen from outside, an operation is its status
\* and whether its request has left.
Lifecycle == INSTANCE ActionLifecycle WITH
    Sites <- Operations,
    action <- [op \in Operations |-> row[op].status],
    left <- {op \in Operations : call[op] # "none"}

\* Executors, the sweep, the reconciler and people together only take an
\* operation through the steps of ActionLifecycle: none sends what was swept,
\* and none reopens what was closed.
FollowsLifecycle == Lifecycle!LifecycleSpec

=============================================================================
