# Amazona: a TLA+ development of its transactional core

Amazona (`src/backend/app`, Python, FastAPI over PostgreSQL) runs a simulated commerce company: agents analyse
products, a pipeline of steps buys, publishes and advertises, orders are charged, refunded and fulfilled, and a
human owner authorises budgets and approvals. Two kinds of code are modelled here. The transactional core, where
mistakes are expensive and tests reach little: actions with effects outside the system, the money reserved for them,
the queue that carries work, the runs of the pipeline, orders with their payments and fulfilments, missions, and the
conversation through which the owner decides. And the decisions that the core acts on: the gate, the legal screening,
the exchange rates and the economics, the risk of a supplier, which are functions or nearly so.

## 1. The system

### Components, their state and operations

| Component (`src/backend/app/`) | State | Operations | What is hard | What makes it correct |
|---|---|---|---|---|
| External actions (`actions/`) | one `external_actions` row per (reference, sequence): status, `applied_at`, fingerprint, key | `open`, `reserve`, `begin_call`, `execute`/`finish`, `mark_applied`, `mark_interrupted`, sweep, `reconcile`, `resolve` | crash after the request left; late answers; retries; several closers racing; sessions that cache the row | at most one effect per operation, a failure is only said when true, a site advances only when closed, money follows the outcome |
| Budget ledger (`budgets/`) | limit, `reserved`/`committed` totals, RESERVE/COMMIT/RELEASE rows | `authorise_budget`, `reserve`, `_move` | two spends that each fit; double settlement; limit lowered below what is held | totals equal the movements, one settlement per reference, never past the limit |
| Kill switch (`pipeline/kill_switch.py`) | one bit (missing row = on) | `enable`, `disable` | flipped between the decision and the call | nothing leaves while it is off |
| Reconciliation (`reconciliation/`) | none of its own (attempt counters on payment events) | sweep of stale actions, sweep of unapplied payment events, human retry, report | races with whoever is alive; starving batches | every stale row is eventually classified, none is invented |
| Job queue and workers (`jobs/`) | `jobs` rows with lease, `job_attempts`, `job_events` | `enqueue`, `claim`, `heartbeat`, `complete`, `fail`, `block`, `hold_for_approval`, `cancel`, `requeue`, `reap_expired_leases`, `release_due_retries`, `purge_completed` | dead and zombie workers; read-then-write from different sessions; requests of people in the middle | a job has one holder, is recoverable, is on record, and comes to rest |
| Recurring jobs (`jobs/recurring.py`) | last bucket per worker; tick key per bucket | `enqueue_due`, `purge` | several schedulers, clock edges | one tick per bucket, none skipped for ever |
| Pipeline (`pipeline/`) | runs, steps, spent approvals | `enqueue_or_replay`, `execute_run`, `resume_run`, `cancel_run`, `resolve_unknown_outcome` | a run executed by a zombie worker; cancel during execution; approvals spent once | no side effect twice, none without its gate, a spent approval stays spent |
| Gates and approvals (`gates/`, `approvals/`) | approvals (PENDING, APPROVED, REJECTED, EXPIRED) | `evaluate`, `approve`, `reject`, expire | decision read, then used later | nothing passes a veto |
| Orders and payments (`orders/`, `payments/`) | orders, payment attempts, refunds, provider events | `create`, `cancel`, `start`, `receive`/`apply`, `request` (refund), observers of both actions | provider events duplicated, reordered, late, contradicting the answers of calls; observers that do not take the order lock | money is recorded once and never lost, at most one live attempt, refunds never exceed what was captured |
| Revenue ledger (`revenue/`) | append-only entries | `record_capture`, `record_refund` | one transaction with the event | one entry per capture and refund |
| Fulfilment (`orders/fulfilment.py`) | fulfilments, allocated units | `create`, `purchase`, `ship`, `complete`, `cancel`, `fail` | refund during purchase; units released while a purchase leaves; answers that come late | no unit bought twice, none lost; a fulfilment says what its calls did |
| Idempotency (`idempotency/`) | one row per (scope, actor, key) | `claim`, `complete`, `release`, `mark_unknown` | crash while in progress; error after a commit | the work of a key happens once |
| Tasks and missions (`tasks/`, `ceo/`) | tasks, executions, assignments, decisions | retry, reassign, block and unblock dependents, resume | concurrent people, stale views | attempts within limits, no completed task repeated |
| CEO chat (`ceo_chat/`) | conversations, messages, proposed actions | message, propose, confirm | confirm twice, stale proposal | an action is carried out once |
| Exchange rates (`money/`) | append-only observations | declare, refresh, resolve, convert | republication, stale rates, rounding | history is kept, a fresh rate is never hidden by a stale one |
| Economics (`economics/`) | append-only analyses | breakdown, scenario, recommendation | facts nobody declared; rounding | a verdict has grounds and says what the money says |
| Legal screening (`legal/`) | requirements, transpositions, evidence, anchors | declare, supersede, withdraw, verify, analyse | an analysis that is many transactions while people and sources go on | a verdict is one that the facts of some moment of it support |
| Supplier risk (`sourcing/risk.py`) | none | eight dimensions from stated facts | silence taken for a good answer | nothing is low by silence, nothing known is lost |
| The CEO's decision (`ceo/decision_engine.py`, `agents/`) | decisions, the approvals they open | four specialists, `evaluate_decision`, `_maybe_create_approval` | specialists that did not finish or had no data; a budget used up between the look and the reservation | nothing goes on by lack of data, no money is asked for that is not held |

The remaining components (other agents, research, the rest of sourcing, marketing, marketplace, storefront, cost metering,
authentication, the API routes, the command line, the Next.js control center) keep no protocol of their own: they
validate, compute, and append. `PROJECT.json` lists every one with its reason.

### How they interact

    people, API ──► jobs ──► worker ──► pipeline step ──► gate ──► external action ──► provider
                     ▲                                              │      ▲   ▲
                     └── recurring ticks ──► sweep / reconciler ────┼──────┘   └── person (resolve-action)
                                                                    ▼
                                              budget ledger, and observers that move
                                              the payment, refund or fulfilment with it
    provider events ──► ingress (stored) ──► PaymentService.apply ──► payment, refund, order, revenue entry

Everything goes through PostgreSQL at READ COMMITTED. A transaction is the unit of visibility, a row lock the unit
of exclusion, and a session of SQLAlchemy **keeps what it read** (`expire_on_commit=False`, `db/session.py`): the
most interesting behaviours come from a session that decides on its copy of a row another session has moved.

## 2. Modules

| Module | Models | Extends |
|---|---|---|
| `BudgetLedger` | `budgets/service.py`; also the abstract specification of what external actions do to money | |
| `ExternalActions` | `actions/service.py`, its callers in the sweep, command line and kill switch, and the provider | `BudgetLedger` |
| `ActionLifecycle` | what `actions/service.py` promises to those who build on it: statuses, and whether a request has left | |
| `JobQueue` | `jobs/queue.py`, `jobs/worker.py`, the two routes of people in `api/jobs.py` | |
| `Payments` | the money of an order: `orders/payment_attempts.py`, `orders/refunds.py`, `orders/service.py` (cancel), `payments/`, `reconciliation/events.py`, `revenue/ledger.py` | |
| `ActionGate` | `gates/action_gate.py`, `gates/service.py`, the tables of `permissions/`: a pure decision | |
| `CeoDecision` | `ceo/decision_engine.py`, the agents of a product validation, the decision and the approval of `ceo/orchestrator.py`: pure | `ActionGate` |
| `Pipeline` | one run: `pipeline/service.py`, `pipeline/review.py`, `api/pipeline.py`, its job and its operations | `ActionGate`, over `ActionLifecycle` |
| `Fulfilment` | the fulfilments of an order: `orders/fulfilment.py`, `orders/fulfilment_projection.py`, `orders/allocation.py` | over `ActionLifecycle` |
| `Missions` | one mission: `ceo/orchestrator.py`, `ceo/planner.py`, `tasks/`, `fault_injection.py` | |
| `Chat` | the conversation: `ceo_chat/`, `api/approvals.py`, `approvals/service.py`, `idempotency/service.py` | |
| `Regulatory` | the legal screening of a product: `legal/`, `integrations/regulatory/` | |
| `ExchangeRates` | `money/`: the table of rates, the choice of one, conversion | |
| `Economics` | `economics/` and the agent of the analysis: costs, margins, recommendation | `ExchangeRates` |
| `SupplierRisk` | `sourcing/risk.py`, `sourcing/capabilities.py` | `ExchangeRates` (provenances) |
| `MC*` | the constants of the small instances | the module they instantiate |
| `*_proofs` | the theorems of each (those of the ledger are in `ExternalActions_proofs`; `Missions_proofs` ends with those of the pure modules: gate, CEO, rates, economics, risk of a supplier) | the modules they are about |

### BudgetLedger

`limit`, `totals` and `events` are the rows of `budgets`, `budget_allocations` and `financial_events`. One action is
one transaction, because `reserve` compares and writes in one UPDATE and `_move` takes an advisory lock on the
reference. Amounts are whole cents; `spent` always moves with `committed` and is left out. The totals are defined
independently of the events, so that `TotalsMatchEvents`, which counts cents of the events, can fail.

### ExternalActions

`row` is `external_actions`, one record per operation (site, sequence). An *executor* is a database session that
opens an operation, begins the call, and records the answer; `session[e].seen` is the status its copy of the row
has, which is not refreshed by what others commit. The request itself lives in `call` (and `replay`, when `reconcile`
sends it again with the same key): it is `sent` once `begin_call` is committed and stays so until the provider
executes it, refuses it or it is lost, whatever the row says meanwhile. `effects` counts what the provider really
did; a provider that honours keys does a key once. `Crash` forgets an executor at any point.

* `open` and `reserve` are one action (one transaction); both branches of `open` (a new operation, the operation
  that still owns the site) are actions of their own. A request with another fingerprint is refused.
* The sweep may take any PENDING or CALLING row at any moment: `older_than` is left open, so what holds here holds
  however short it is configured.
* The settle time an authoritative lookup awaits is modelled by what it is for: the lookup answers when the request
  is no longer on its way.
* `row[op].by` is who closed the row, as the columns and the audit trail say.

### ActionLifecycle

One operation per site with its status and the set of sites whose request may have left. It is the abstract
specification between two components: `ExternalActions` instantiates it (`Lifecycle`, from the last row of a site)
and the run `ActionBudget` checks that it implements it (`FollowsLifecycle`); `Payments` instantiates it with one site
per payment and refund and builds each of its observers on one of its steps. So Payments assumes of the actions
nothing but what ExternalActions was shown to do.

### JobQueue

`job` is a row of `jobs` with time reduced to two bits (a lease runs out, a wait is over); `tries` is the newest
attempt row of each number. Only `claim` locks the row it takes (`FOR UPDATE SKIP LOCKED`): it is one action. Every
other operation reads in one statement and writes in a later one by id, with no condition, so it is two actions and
anything may happen between them: `ReadDueRetries`/`ReleaseDueRetries`, `ReadExpiredLeases`/`ReapExpiredLeases`,
`Ask`/`CancelWrites` and `Ask`/`RequeueWrites`. An UPDATE of the ORM writes only the columns that differ from the
copy the session holds; `Released` and the `IF` in `RequeueWrites` say exactly that. An executing worker has a copy
of its row (`cached`) until a rollback expires it: with the copy `_require_held` believes it, without it the row is
read again (`Reread`, `TakenAway`). Which due job is the oldest, and whether a handler is registered, are left open.

### Payments

One order, in one currency, at one provider and origin. `payment`, `refund`, `event`, `entries` and `order` are the
rows of `payments`, `refunds`, `payment_events`, `revenue_ledger_entries` and `orders`; `fact[e]` is what the stored
event says. Which refunds are ours and which the provider makes by itself are sets of constants; the provider may send
any event about any payment it was told of (`left`), in any order and as often as it likes, contradicting its own
answers: `CanHappen` is all that limits it.

* **Who locks.** `start`, `cancel` and `request` take the lock of the order and are one transaction each. The
  observers of the two external actions take no lock of the order: each is a compare-and-set on its row in the
  transaction of the action's step (`OpenBegins` ... `RefundFails`).
* **Apply** is three steps. `Claims` holds the row of the event and looks for the refund the event names *before* the
  order is locked; `ApplyReads` waits for the lock (`OrderIsFree`) and reads payment and refund again; then one of the
  decisions writes and commits. An observer, or another session's event, can move the row between any two of them:
  what `apply` does then is the UPDATE's own comparison (`StatusMoved`), a second read (`StatusToDecide`), a broken
  unique reference (`RefundWasRecorded`), or a `RuntimeError` (`Raises`, which `ApplyNeverRaises` shows impossible).
* **Arrivals.** `Receive` and `Redeliver` are the webhook, `RetryEvent` the person, `ClaimAttempt` the sweep, which
  counts an attempt before it makes it. `Crash` drops a session at any point and leaves the event as stored.
* **Amounts** are cents; 0 stands for an event without an amount or in another currency, which the code treats alike.
* Left out: events that match no payment or come from another origin (stored and never applied), the references of the
  provider, payload hashes, and row locks other than those of the event and the order.

### ActionGate and Pipeline

`Outcome` is `evaluate`: vetoes first, doubts that a person may lift next. `GateInputOf` says where each answer comes
from: permission of the role, budget signal, the human answer. Both are functions of records, so that the theorems
range over every request and the pipeline asks them where the code does.

In `Pipeline`, an executor (`exec[w]`) has copies of the job, the run and the steps (`cached`, `run`, `steps`). Only
`refresh(run)` before a step and a rollback bring them up to date, and an UPDATE writes the columns that differ from
the copy (`Written`): a worker that lost its job writes over what its substitute did only where its copy is stale.
Every commit of `_execute_step` is an action: reading the gate, asking a person, spending the approval with `begin_call`
(`Start`), calling, recording the answer, recording the work. `Reconcile` is the sweep and the person closing an
operation; `Resume`, `AnswerReview`, `AnswerPostHoc` and `SwitchTo` are the people. `overlap` is a history variable: the
job was queued again while a worker was still at it, which `JobQueue` shows can happen. The properties say what is
promised of runs without overlap; with it an effect may be sent twice.

Two things the model shows and no property forbids. A person who resolves an unknown operation between the gate's
denial and the look at the latest operation lets the run end COMPLETED with the step DENIED, though its effect
happened. And a CANCELLED run may come back by being resumed, against the comment at `pipeline/schemas.py:33`.
`cancel_run` reads a status and then writes; it is one action here.

### CeoDecision

`EvaluateDecision` is the CEO's rules over what the four specialists say of an objective (one record), and `Conclusion`
what `_conclude` leaves: the decision, the approval, the money held, the state of the project. `Funds` is the budget at
two moments, when it is assessed and when the reservation is written, with anything in between but its removal. Three
things the module says plainly. When a task did not complete the decision is REVIEW whatever the others found, so
"vetoes and human stop always win" (`ceo/decision_engine.py:20`) is of complete missions only. The finance task has a
cost of its own: nothing relates it to the one the supplier quoted, although `ceo/planner.py:8` says that finance waits
for the supplier because of it. And a price below zero has no negative margin, so only a positive price is known to
cover its cost. The recommendations of the specialists are read by no decision and are left out; so is a number of
searches below zero, which ends in an error. No run checks the module: its theorems range over every objective.

### Fulfilment

Whoever creates, opens, completes, cancels or refunds holds the lock of the order, one action each; the calls then move
without it, each step with its observer. `Releasable` says when units go back to the pool. The refunds of the order are
a number of full amounts (`captured`, `committed`), which is what `_require_paid` tells apart. `anomaly` is set when an
observer finds the fulfilment where it should not be. A refund reserved between the transaction that opens a purchase
and `begin_call` does not stop it: the code flags the order for attention instead.

### Missions

A run of an objective and a resumption are one transaction each: `work` is what they will write and becomes visible at
the end (`Conclude`); a retry holds the row of its task (`retrying`). A resumption takes the lock of the project and the
rows of the tasks it loads, so retries and resumptions exclude each other where the code says so and not elsewhere; an
unblocking lost by two retries that end at once is repaired by `UnblockReady`. A deployment (`Deploy`) kills what is in
progress and may change the registry of agents, which each request builds anew. `AssignmentStatus` is
`describe_relation`: what the record says of who was assigned and who executed. The breadth-first search of
`block_dependents` is the set it computes, `Descendants`.
Left out: the texts and the risks of a decision, traces older than the assignments (`load_relations`). A
reassignment that commits between the orchestrator's read of a task and its `start_attempt` makes the old agent execute
(`ceo/orchestrator.py:453-480`); the model takes both as one step.

### Chat

A request goes from commit to commit: claim of the key, the message, rounds of tools, the answer; or claim of the key,
claim of the proposal (a compare-and-set), effect, result. `Crash` may come between any two. `record` are the
idempotency rows of three scopes, so that a proposal confirmed in the chat and the route that does the same share a key.
A subject has a version, by which the services refuse what has moved since the proposal was drawn up.
Not modelled: `reassign` proposals carry no version at all; `create_mission` commits the objective before running it,
so an error leaves it RECEIVED. A 503 of the chat comes after commits and releases the key all the same
(`idempotency/service.py:205`): asking again adds a second message, and that is what `KeysTellTheTruth` allows.
Resolving an expired approval commits EXPIRED and then raises.

### Regulatory

An analysis reads the requirements once and then goes through them, asking EUR-Lex and the BOE, each answer a commit of
its own (`CheckNorm`, `StoreAnswer`, `CheckNational`, `ReadEvidence`, `Judge`, `Report`). People declare, replace and
withdraw meanwhile; checks and evidence get old; sources change what they say. `seen` is a history variable with what was
true at any moment of the analysis: `VerdictsAreGrounded` compares the verdict with it. Of two checks the one with the
later `verified_at` counts, which is taken after the answer, so the older answer may win (`Stored`). Anybody may ask the
sources about a declaration that no longer holds, and its answer counts for those that do (`Verify`, `everDeclared`). Two concurrent
replacements of one declaration both succeed; evidence does not pass to the heir; a GO is not looked at again when its
evidence ends. Confidence ceilings, one analysis after another, and the text of the terms are left out.

### ExchangeRates, Economics, SupplierRisk

Pure modules. Rows are a set, instants numbers, and amounts ten-thousandths of a currency, which is what `Money` keeps.
`BestStored` chooses within a source and `Choose` between sources; `Convert` refuses a rate that is old, and goes through
the 28 digits of decimal arithmetic (`Kept`), which an inverse rate may not fit in. A quotation may lack its price, its
shipping or its currency; an unknown amount is a record that says so and never zero. `Analyse` is the economic analysis, `Verdict` what the agent says of it.
`SupplierRisk.Assess` has one level per dimension and none above. Reading them showed three things: within one source a
stale direct rate hides a fresh inverse one (`money/manual.py`); two concurrent refreshes may write the same row twice
(nothing is unique); and the alternatives of a product, documented as suppliers, are counted as quotations
(`sourcing/service.py:118-120`), which `FactsOf` follows.

## 3. Runs

| Run | Instance | Question | Result |
|---|---|---|---|
| `ActionRetries` | one site, two operations, two executors, a provider that ignores keys | effects, succession and money under retries, crashes and every closer; does an abandoned row ever stay underway | holds, the latter under the sweep's fairness |
| `ActionBudget` | two sites (one with a lookup) of providers that honour keys, two amounts, two limits, one executor | does the life cycle implement the ledger and `ActionLifecycle`; is a failure only said when true; do totals match; is the limit respected | holds |
| `JobQueue` | one job, two workers (one mortal), one operator, two attempts, one request | recoverability, record of the holder, orphans, rest | holds |
| `TwoWorkers` | the same without requests or deaths | is a row under a live lease ever claimed again | violated (finding) |
| `Captures` | two attempts, two events, a webhook and the sweep | is an order paid by one capture, is none lost, is one attempt live, do rows follow their actions, is anything undone | holds |
| `Refunds` | one payment, one refund of ours and one of the provider, three events, two sessions | do amounts set aside, refunded and entered add up; can a decision go stale for good | holds |
| `EventSweep` | one attempt, two events, a webhook that crashes, the sweep with two attempts | is a stored event processed, or its attempts spent | holds, under the sweep's fairness |
| `Pipeline` | five steps, two that advise the gate and one with an effect behind it, two workers, two attempts, two operations, two questions, two requests of people | was every effect authorised; does a run end with money in the air; is a completed run done | holds without overlap |
| `Fulfilment` | a line of two units, two fulfilments, two requests, two operations of each phase | is a unit bought twice; does a fulfilment say what its calls did; does the order end with the last delivery | holds |
| `Missions` | the plan of five tasks, two agents, one deployment, six attempts that fail | are attempts numbered one by one within their limits; do decisions rest on the work they claim; can the mission always be moved on | holds |
| `Chat` | two requests, two proposals, a task, an approval with money, two keys, one crash | does a confirmed action run at most once and over what was shown; is an approval settled once; does a key tell the truth | holds |
| `Regulatory` | a restriction of a regulation, an obligation of a directive, one analysis, 3 answers, 4 changes | does a verdict rest on facts of some moment of the analysis | holds |

**Bounds.** `MaxSequence` 2 is the least with a successor of an operation; one amount per request and cents 1 and 2
with limits 2 and 3 make two reservations that each fit and together do not, and a limit lowered below what is held.
Two executors are two concurrent attempts at one operation. `MaxAttempts` 2 gives a job that retries once and then
fails; one job is enough because no operation of the queue relates two jobs but the order of claims, which is left
open. `MaxRequests` bounds what people ask; one request meets every state of the row. In Payments, `Due` 2 with `MaxAmount` 2
has a canonical capture, a mismatched one (1) and an event without amount (0), and a partial and a total refund; two
attempts make a duplicate capture, two events make a repeated, a late or a contradicting one, and three events let a
capture be followed by two about one refund. `Captures` and `Refunds` split the two halves because their product is
out of reach: captures do not look at refunds, and a refund only at the payment it reverts. `MaxReconcile` is the cap
of the sweep (0 where it plays no part). In `Pipeline` five steps are one of each kind the code tells apart: one that may
deliver nothing, the two whose recommendations the gate reads (economics and legal), one with an effect, one that only works; two operations are an operation and
its successor. Where two workers are at the run at once (`BoundOverlap`) one operation, one question and favourable
advice are enough, since the properties are not about them. `Fulfilment` needs two fulfilments and two units: a unit given back and bought again.
`Missions` has the real plan and the real limits (`MaxRetries` 2 gives 3 attempts per assignment and 6 per task, reached
with six failures). In `Chat`, `BoundOverlap` lets the second request do what meets the model's turn: resolve or begin.
In `Regulatory` four changes let a check get old, a source change, a person withdraw and another declare within one
analysis. Deadlock checking is off where
everything may be closed and nothing be left to do: every row closed, or an order cancelled before any event.

**Symmetry** is used for the attempts and events of `Captures`, the events and sessions of `Refunds`, the workers of
`Pipeline`, the requests and fulfilments of `Fulfilment` and the requests, proposals and keys of `Chat`, none of which
checks liveness.

**Fairness.** `SweepFairness` is weak fairness of the sweep on each row: every worker enqueues the sweep in every
bucket (`jobs/recurring.py`) and the rows of a bucket are taken oldest first. In `JobQueue`, time passes (`WF` of
`LeaseRunsOut` and `WaitIsOver`), every execution ends or its worker dies (`WF` of `End` and `Get`, which is the
assumption that handlers return), and workers that do not die keep cycling (`WF` of `Cycle`, the loop of
`run_forever`). Nothing is assumed of people, of heartbeats or of mortal workers.
In `Payments`, the sweep returns to every RECEIVED event while it has attempts (strong fairness: the session that takes
them is busy in between), and whoever applies an event gets locks that are released again and again (strong fairness
of `Apply` per session). `Crash` is not limited by fairness; what bounds it is the cap. `EventsSettle` is conditional on
people not resetting the attempts for ever (`PeopleStopRetrying`). The other modules state safety only: what moves a
run, a fulfilment or a mission on is a person or a queue, for which nothing is assumed. In `Missions`, `NobodyIsStranded`
says instead that there is always something a person can do.

`TwoWorkers` shows a disagreement between the code and what it says of itself; the counterexample is the finding in
`PROJECT.json`. Three more that the models contain and no run is spent on: a worker that lost its job concludes it over
its substitute (`jobs/queue.py:372`); an answer that closes an operation declared unknown is not always audited as late
(`actions/service.py:220`); an order whose only capture was of another amount, refunded in full, can be neither charged
again nor cancelled (`orders/payment_attempts.py:184`, whose message says that refunding is the way out).

## 4. Proofs

Everything below is proved by TLAPS for every value of the constants that satisfies the assumptions named in the modules
(`LedgerAssumption`, `ActionsAssumption`, `QueueAssumption`, `PaymentsAssumption`, `FulfilmentAssumption`,
`PipelineAssumption`, `MissionAssumption`, `ChatAssumption`, `RegulatoryAssumption`). Two theorems have a hypothesis more, stated with them:
`EffectsAreAuthorised` and `VerdictsRestOnFacts`. Every inductive invariant was first checked by TLC on the run of its
module. Money and units are counted with sets (a slice of cents per movement), so that a total changes by the
cardinality of one slice; no induction over data is needed.

* **`ExternalActions_proofs`.** Of the ledger: `LedgerTotals`, `LedgerSettlesOnce`, `LedgerRespectsLimit`. Its invariant
  is the type together with `TotalsMatchEvents`: the floor at zero of `Settled` is harmless only because `reserved` is at
  least the amount being settled, which is what counting the cents of the live reservations gives. Of the actions:
  `TypeCorrect`, `MoneyFollowsOutcome`, `OneEffect`, `FailureIsTrue`, `SitesAdvance`, `ActionsKeepTheLedger`. The
  invariant adds what a session may believe of its row (`calling` implies the row left PENDING), what the request of a
  row can be in each status, and that every request is executed at most once. Two refinements: `ImplementsLedger`, and
  `ImplementsLifecycle`, that the rows are the abstract life cycle which Payments, Fulfilment and Pipeline are built
  over. A step of a row maps to the abstract step of its statuses (`StatusSeen`, `TransitionIsSeen`), the begin of a
  call to the abstract one, the rest to stutters.
* **`JobQueue_proofs`.** `TypeCorrect`, `Recoverable`, `LiveWorkersLeaveNoOrphans`, `ClaimsAreOnRecord`. The invariant
  adds that a request in flight has been counted, so that `NobodyRequeued` excludes every session in the middle of a
  requeue. `ClaimsAreOnRecord` needs nothing more: a late worker closes only attempts of its own, and what it writes of
  a row it no longer holds leaves the row not RUNNING.
* **`Payments_proofs`.** `TypeCorrect`, which includes that no amount set aside becomes negative, `OneAttemptAtATime` and
  `OneCanonicalCapture`. The inductive invariant is the type, that every event being applied is stored and says something
  (`EventsAreKnown`), and that a refund found before the lock is still there when it is read (`FoundStays`): without it
  an applied event could write a refund that has no row. The two properties rest on `MoneySteps`: every step keeps
  status and captured amount of every payment up to the compare-and-sets of the observers, but for starting an attempt
  and recording a capture, which are treated on their own.
  `NothingUndone`: an event is applied by one session at a time and only while RECEIVED (`OneApplier`), and the rows that
  count as concluded are written by no guard. `RowsFollow`: a row alive is explained by its external action, an event
  by a request that left (`EventsWereSent`), so that an action found closed as failed has no capture on its way
  (`Explained`). `CapturesAreKept`: what a session read of its payment under the lock is what it decides on
  (`OneDecider`), so a processed capture is on its payment or contradicts another amount (`CapturesTaken`).
  `RefundsNeverExceed`: a refund is a slice of the cents of its payment, and each step adds or takes away the slice of
  one refund. `ApplyIsTotal` combines them. `EntriesAreTheMoney`: only `Apply` and the observers write entries, each
  with the capture or the refund it concludes, and a capture keeps its class (canonical, duplicate, mismatch).
* **`Fulfilment_proofs`.** `TypeCorrect`, `FulfilmentsFollowTheirCalls`, `NothingBoughtTwice`, `OrdersAreDelivered`. The
  operations of a phase are opened in order and a new one only when the earlier ones are known to have failed
  (`OpenedInOrder`, `EarlierFailed`), so at most one of them says something of the fulfilment (`OpenIsAlone`), and its
  status follows that one (`Follows`); what left was called (`LeftWasCalled`). A fulfilment that may have bought is
  therefore alive, and the units of those alive are exactly what the line has set aside (`CountInv`).
* **`Pipeline_proofs`.** `TypeCorrect`, `NothingLeftInTheAir`, `CompletedAreDone`, `EffectsAreAuthorised`. While the job
  was never queued again under a worker still at it (`~overlap`), one worker at most executes the run (`Alone`); its
  copies of the steps are the rows (`UpToDate`), the steps behind it are passed with their latest operation recorded
  (`Behind`, `DoneIsRecorded`), and the operations of a step are opened in order (`OperationsInv`).
  `EffectsAreAuthorised` assumes `EveryEffectNeedsAPerson`: that each effect is of an action for which the table of
  permissions asks a person or refuses, or that spends where the environment enforces approvals. So it is whenever a role
  is behind the run (every action but a refund and a collection is an `external.spend`) and outside simulations. Then every request sent was preceded by an authorisation spent on it
  and on nothing else.
* **`Chat_proofs`.** `TypeCorrect`, `ConfirmedRunsOnce`. The invariant says what a request may count on between its
  commits: the record of its key is its own (`Works`, `KeysApart`), the proposal it executes is EXECUTING and no other
  request's (`ExecutionsApart`, `ExecutionsAreBehindAKey`), a key completed means that its confirmation is done
  (`CompletedKeysAreDone`); and what has run cannot run again, because the version it was shown has passed
  (`RunsAreOnce`).
* **`Regulatory_proofs`.** `TypeCorrect`, `VerdictsRestOnFacts`. The invariant follows the evidence of a verdict back to
  the moment it was so: what is so now was seen by every analysis under way (`Watched`), what got old under an analysis
  was seen before it did (`Remembered`), and what an analysis has concluded, or holds to conclude, was seen
  (`Grounded`). `VerdictsRestOnFacts` assumes `SourceNamesDirectives`: that EUR-Lex calls a directive every act whose
  CELEX number is one's. The code reads the kind of an act from the answer in one place (`legal/regulatory.py:69`) and
  from the number in another (`legal/national.py:73`), and the property speaks of the number.
* **`Missions_proofs`, of the missions.** `TypeCorrect`, `AttemptsCounted`, `MissionsGo`, of any plan whose tasks come after
  those they need and whose synthesis needs all the others, any agents and any limits. The invariant says the same two things of the rows that are
  committed and of the graph that the orchestrator has in memory. They are `Ordered`: what is completed has its parents
  completed, and what is pending has none that failed or is blocked. And they are `Earned`: attempts are numbered one
  after the other within the limits, a task is completed exactly when its last one went well, and one that has not
  ended has none, but for those of a task that the orchestrator will try again. `WorkInv` adds what the locks keep under
  a resumption (nothing failed, every task that is not done has an agent of the registry), and that who is blocked waits
  for somebody: so when nothing can run any more the mission is done or a task failed (`WorkEnds`), which is what a
  decision says. `RetriesInv` says what a retry counts on between its two commits: its row, and those it releases, stay
  as it found them. What depends on a task is the least set closed under children (`DescendantsLeast`), so blocking it
  keeps the order (`FailingKeepsOrder`); that somebody can always go on (`SomebodyIsNext`) takes the least place of the
  plan that is not done.
* **`Missions_proofs`, of the decisions.** `GateIsSound`, `MoneyIsCovered`, `PeopleOnlyLiftDoubts`, of every request: by cases on the
  vetoes and the doubts, through one lemma that says what an ALLOW means. `DecisionsAreEarned` and `ApprovalsAreFunded`,
  of every objective, every set of unfinished tasks and every budget: the rules from the last to the first, then the
  cases of the reservation. `HistoryIsKept` and `StaleHidesNothing` of the rates; `BreakdownsHold`,
  `VerdictsNeedGrounds` and `VerdictsSayTheMoney` of the economics. The last needs what rounding half up does
  (`RoundedIsNear`: half a cent) and that products of amounts and units keep order; its half cent is the code's, which
  takes the verdict on a rounded cost and keeps the exact margin. `KnowledgeIsNotLost` and `LowIsStated`, of the risk of
  a supplier: one step per dimension.

Every safety property of the runs is stated by a theorem. Only model-checked: liveness (`NothingStaysUnderway`,
`JobsSettle`, `EventsSettle`), which is out of reach of the prover.

## 5. Not modelled

* `purge_completed`, the scheduler of recurring jobs, the batch limit of the sweep and its failure handling.
* A handler that never returns (the queue has no timeout for a worker that keeps its heartbeat).
* `reconcile` has no caller in production code; it is modelled as the service offers it.
* The first authorisation of a budget racing a `begin_call` at the grain of single statements: `open`/`reserve` is
  one transaction here.
* The audit trail, other than who closed a row.
* The metering of costs of external services: it reads what was spent within its own session, so that two concurrent
  runs may together pass the daily limit.
* What a step of the pipeline, an agent or a directory computes, unless a decision reads it; texts, prompts, redaction.
* In each module, what its part of section 2 leaves out.
* Every component whose status is not `modelled` in `PROJECT.json`, with its reason there: provider adapters and parsing,
  content generation, the API routes, the command line, authentication and the user interface keep no protocol.

## 6. Plan

1. **Done**: `BudgetLedger`, `ExternalActions` over it and over `ActionLifecycle`, `JobQueue`, `Payments` with the sweep
   of events; `ActionGate` and `Pipeline`; `Fulfilment`; `Missions`; `Chat` with idempotency and approvals;
   `Regulatory`; `ExchangeRates`, `Economics`, `SupplierRisk`, `CeoDecision`; their runs and theorems.
2. **Theorems**: done for every safety property that a run checks.
3. **Further**: the buckets of the recurring jobs, the metering of costs.
