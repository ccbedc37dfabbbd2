--------------------------- MODULE JobQueue_proofs ---------------------------
(***************************************************************************)
(* What holds of the job queue for any jobs, workers and operators.        *)
(*                                                                         *)
(* The inductive invariant adds to the three properties the types and one  *)
(* fact about operators: whoever is about to write a requeue was counted.  *)
(***************************************************************************)
EXTENDS JobQueue, TLAPS

RequeuesAreCounted == NobodyRequeued => \A o \in Operators : operator[o].pc # "requeuing"

Inv ==
    /\ TypeOK
    /\ RequeuesAreCounted
    /\ RecoverableUntilRequeued
    /\ LiveHolderIsExecuting
    /\ HolderIsOnRecord

-----------------------------------------------------------------------------
(* Rows and workers *)

LEMMA ReleasedRow == \A now, seen \in Rows : Released(now, seen) \in Rows
<1> SUFFICES ASSUME NEW now \in Rows, NEW seen \in Rows PROVE Released(now, seen) \in Rows
  OBVIOUS
<1> DEFINE worker1 == IF seen.worker = Nobody THEN now.worker ELSE Nobody
           lease1 == IF seen.lease = "none" THEN now.lease ELSE "none"
<1>1. worker1 \in Workers \cup {Nobody} /\ lease1 \in {"none", "live", "expired"}
  BY DEF Rows
<1>2. Released(now, seen) = [now EXCEPT !.worker = worker1, !.lease = lease1]
  BY DEF Released
<1> HIDE DEF worker1, lease1
<1> QED
  BY <1>1, <1>2 DEF Rows

LEMMA FailedStatus == \A n, again : AfterFailure(n, again) \in {again, "FAILED"}
  BY DEF AfterFailure

LEMMA ClosedAttempts ==
  ASSUME NEW A \in SUBSET [number: Nat, worker: Workers, open: BOOLEAN], NEW n
  PROVE  Closed(A, n) \in SUBSET [number: Nat, worker: Workers, open: BOOLEAN]
<1> SUFFICES ASSUME NEW a \in A
             PROVE  [a EXCEPT !.open = @ /\ a.number # n] \in [number: Nat, worker: Workers, open: BOOLEAN]
    BY DEF Closed
<1>1. a \in [number: Nat, worker: Workers, open: BOOLEAN]
    OBVIOUS
<1>2. (a.open /\ a.number # n) \in BOOLEAN
    OBVIOUS
<1> QED
    BY <1>1, <1>2

LEMMA OpenedAttempts ==
  ASSUME NEW A \in SUBSET [number: Nat, worker: Workers, open: BOOLEAN], NEW n \in Nat, NEW w \in Workers
  PROVE  Opened(A, n, w) \in SUBSET [number: Nat, worker: Workers, open: BOOLEAN]
<1>1. [number |-> n, worker |-> w, open |-> TRUE] \in [number: Nat, worker: Workers, open: BOOLEAN]
    OBVIOUS
<1> QED
    BY <1>1 DEF Opened

\* A worker that executes has a job, an attempt and a session.
LEMMA ExecutingWorker ==
  ASSUME TypeOK, NEW w \in Workers, Executing(w)
  PROVE  /\ worker[w] \in [pc: {"claimed", "running", "failing"}, job: Jobs, attempt: Nat, cached: BOOLEAN]
         /\ worker[w].job \in Jobs
         /\ worker[w].attempt \in Nat
  BY DEF TypeOK, WorkerStates, Executing

\* A worker with a batch has read rows.
LEMMA ReadingWorker ==
  ASSUME TypeOK, NEW w \in Workers, worker[w].pc \in {"releasing", "reaping"}
  PROVE  worker[w].seen \in [Jobs -> Rows]
  BY DEF TypeOK, WorkerStates, Batches

LEMMA WorkerMoves ==
  ASSUME TypeOK, NEW w \in Workers, NEW state \in WorkerStates, Goto(w, state)
  PROVE  /\ worker' \in [Workers -> WorkerStates]
         /\ worker'[w] = state
         /\ \A v \in Workers : v # w => worker'[v] = worker[v]
  BY DEF TypeOK, Goto

LEMMA NoJobIsRow == NoJob \in Rows
  BY DEF NoJob, Rows, Statuses, TERMINAL, Parked, Waiting

\* A batch of rows as they are.
LEMMA BatchStates ==
  ASSUME NEW seen \in Batches, NEW what \in {"releasing", "reaping"}
  PROVE  [pc |-> what, seen |-> seen] \in WorkerStates
  BY DEF WorkerStates

LEMMA OtherStates ==
  /\ Idle \in WorkerStates
  /\ [pc |-> "to reap"] \in WorkerStates
  /\ [pc |-> "to claim"] \in WorkerStates
  BY DEF WorkerStates, Idle

-----------------------------------------------------------------------------
(* The invariant, by what a step does to the rows *)

\* A step that gives no row to anybody keeps the invariant, when a worker that
\* still holds a job goes on executing it.
LEMMA RowsAreKept ==
  ASSUME Inv, TypeOK', RequeuesAreCounted',
         NobodyRequeued' => NobodyRequeued,
         \A j \in Jobs : NobodyRequeued' /\ job'[j].status = "RUNNING" =>
            /\ job[j].status = "RUNNING"
            /\ job'[j].worker = job[j].worker
            /\ job[j].lease # "none" => job'[j].lease # "none"
            /\ tries'[j] = tries[j],
         \A w \in Workers, j \in Jobs : Holds(w, j)' => Holds(w, j),
         \A w \in Workers \ Mortal, j \in Jobs :
            Executing(w) /\ worker[w].job = j /\ Holds(w, j)' => (Executing(w) /\ worker[w].job = j)'
  PROVE  Inv'
<1>1. RecoverableUntilRequeued'
    BY DEF Inv, RecoverableUntilRequeued, RunningIsRecoverable
<1>2. LiveHolderIsExecuting'
    BY DEF Inv, LiveHolderIsExecuting
<1>3. HolderIsOnRecord'
    BY DEF Inv, HolderIsOnRecord
<1> QED
    BY <1>1, <1>2, <1>3 DEF Inv

\* In particular a step of one worker that writes no row.
LEMMA OnlyTheWorker ==
  ASSUME Inv, NEW w \in Workers, NEW state \in WorkerStates, Goto(w, state),
         UNCHANGED <<job, tries, operator, requests>>,
         \A j \in Jobs : w \notin Mortal /\ Executing(w) /\ worker[w].job = j /\ Holds(w, j) =>
            state.pc \in {"claimed", "running", "failing"} /\ state.job = j
  PROVE  Inv'
<1>1. /\ worker' \in [Workers -> WorkerStates]
      /\ worker'[w] = state
      /\ \A v \in Workers : v # w => worker'[v] = worker[v]
    BY WorkerMoves DEF Inv
<1>2. TypeOK'
    BY <1>1 DEF Inv, TypeOK
<1>3. RequeuesAreCounted' /\ (NobodyRequeued' => NobodyRequeued)
    BY DEF Inv, RequeuesAreCounted, NobodyRequeued
<1>4. \A v \in Workers, j \in Jobs : Holds(v, j)' => Holds(v, j)
    BY DEF Holds
<1>5. ASSUME NEW v \in Workers \ Mortal, NEW j \in Jobs, Executing(v), worker[v].job = j, Holds(v, j)'
      PROVE  (Executing(v) /\ worker[v].job = j)'
    BY <1>1, <1>4, <1>5 DEF Executing
<1> QED
    BY <1>2, <1>3, <1>4, <1>5, RowsAreKept

-----------------------------------------------------------------------------
(* The steps *)

LEMMA InitInv == Init => Inv
<1> SUFFICES ASSUME Init PROVE Inv
    OBVIOUS
<1>1. TypeOK
  <2>1. job \in [Jobs -> Rows]
      BY NoJobIsRow DEF Init
  <2>2. worker \in [Workers -> WorkerStates]
      BY OtherStates DEF Init
  <2>3. requests \in [Asks -> 0..MaxRequests]
      BY QueueAssumption DEF Init
  <2>4. operator \in [Operators -> OperatorStates]
      BY DEF Init, OperatorStates, Idle
  <2>5. tries \in [Jobs -> SUBSET [number: Nat, worker: Workers, open: BOOLEAN]]
      BY DEF Init
  <2> QED
      BY <2>1, <2>2, <2>3, <2>4, <2>5 DEF TypeOK
<1>2. \A j \in Jobs : job[j].status # "RUNNING"
    BY DEF Init, NoJob
<1>3. RequeuesAreCounted
    BY DEF Init, RequeuesAreCounted, Idle
<1> QED
    BY <1>1, <1>2, <1>3 DEF Inv, RecoverableUntilRequeued, RunningIsRecoverable, LiveHolderIsExecuting,
       HolderIsOnRecord, Holds

\* Enqueuing and the clock change the rows of jobs nobody runs, or one bit.
LEMMA EnqueueStep == ASSUME Inv, NEW j \in Jobs, NEW later \in BOOLEAN, Enqueue(j, later) PROVE Inv'
<1>1. TypeOK'
  <2>1. job' \in [Jobs -> Rows]
    <3>1. (IF later THEN "PENDING" ELSE "QUEUED") \in Statuses \cup {"NONE"}
        BY DEF Statuses, Waiting
    <3>2. job[j] \in Rows /\ (~later) \in BOOLEAN
        BY DEF Inv, TypeOK
    <3>3. [job[j] EXCEPT !.status = IF later THEN "PENDING" ELSE "QUEUED", !.due = ~later] \in Rows
        BY <3>1, <3>2 DEF Rows
    <3> QED
        BY <3>3 DEF Inv, TypeOK, Enqueue
  <2> QED
      BY <2>1 DEF Inv, TypeOK, Enqueue
<1>2. \A k \in Jobs : job'[k].status = "RUNNING" => job'[k] = job[k]
    BY DEF Inv, TypeOK, Enqueue, Rows
<1> QED
    BY <1>1, <1>2, RowsAreKept DEF Inv, Enqueue, RequeuesAreCounted, NobodyRequeued, Holds, Executing

LEMMA LeaseRunsOutStep == ASSUME Inv, NEW j \in Jobs, LeaseRunsOut(j) PROVE Inv'
<1>1. TypeOK'
  <2>1. job' \in [Jobs -> Rows]
      BY DEF Inv, TypeOK, LeaseRunsOut, Rows
  <2> QED
      BY <2>1 DEF Inv, TypeOK, LeaseRunsOut
<1>2. \A k \in Jobs : /\ job'[k].status = job[k].status
                      /\ job'[k].worker = job[k].worker
                      /\ job[k].lease # "none" => job'[k].lease # "none"
    BY DEF Inv, TypeOK, LeaseRunsOut, Rows
<1> QED
    BY <1>1, <1>2, RowsAreKept DEF Inv, LeaseRunsOut, RequeuesAreCounted, NobodyRequeued, Holds, Executing

LEMMA WaitIsOverStep == ASSUME Inv, NEW j \in Jobs, WaitIsOver(j) PROVE Inv'
<1>1. TypeOK'
  <2>1. job' \in [Jobs -> Rows]
      BY DEF Inv, TypeOK, WaitIsOver, Rows
  <2> QED
      BY <2>1 DEF Inv, TypeOK, WaitIsOver
<1>2. \A k \in Jobs : /\ job'[k].status = job[k].status
                      /\ job'[k].worker = job[k].worker
                      /\ job'[k].lease = job[k].lease
    BY DEF Inv, TypeOK, WaitIsOver, Rows
<1> QED
    BY <1>1, <1>2, RowsAreKept DEF Inv, WaitIsOver, RequeuesAreCounted, NobodyRequeued, Holds, Executing

\* What the queries of a cycle bring into a session.
LEMMA ReadDueRetriesStep == ASSUME Inv, NEW w \in Workers, ReadDueRetries(w) PROVE Inv'
<1> DEFINE due(j) == job[j].status \in Waiting /\ job[j].due
           state == IF \E j \in Jobs : due(j) THEN [pc |-> "releasing", seen |-> Found(due)]
                                              ELSE [pc |-> "to reap"]
<1>1. Found(due) \in Batches
    BY NoJobIsRow DEF Found, Batches, Inv, TypeOK
<1>2. state \in WorkerStates
    BY <1>1, BatchStates, OtherStates
<1>3. Goto(w, state)
    BY DEF ReadDueRetries
<1> QED
    BY <1>2, <1>3, OnlyTheWorker DEF ReadDueRetries, Executing

LEMMA ReadExpiredLeasesStep == ASSUME Inv, NEW w \in Workers, ReadExpiredLeases(w) PROVE Inv'
<1> DEFINE orphan(j) == job[j].status = "RUNNING" /\ job[j].lease = "expired"
           state == IF \E j \in Jobs : orphan(j) THEN [pc |-> "reaping", seen |-> Found(orphan)]
                                                 ELSE [pc |-> "to claim"]
<1>1. Found(orphan) \in Batches
    BY NoJobIsRow DEF Found, Batches, Inv, TypeOK
<1>2. state \in WorkerStates
    BY <1>1, BatchStates, OtherStates
<1>3. Goto(w, state)
    BY DEF ReadExpiredLeases
<1> QED
    BY <1>2, <1>3, OnlyTheWorker DEF ReadExpiredLeases, Executing

LEMMA NothingToClaimStep == ASSUME Inv, NEW w \in Workers, NothingToClaim(w) PROVE Inv'
  BY OtherStates, OnlyTheWorker DEF NothingToClaim, Executing

\* The executions that only move the worker.
LEMMA ExecutionStep ==
  ASSUME Inv, NEW w \in Workers,
         HandlerRollsBack(w) \/ Reread(w) \/ TakenAway(w) \/ HandlerFails(w) \/ Die(w)
  PROVE  Inv'
<1>1. CASE HandlerRollsBack(w)
  <2>1. [worker[w] EXCEPT !.cached = FALSE] \in WorkerStates
      BY <1>1, ExecutingWorker DEF Inv, HandlerRollsBack, Executing, WorkerStates
  <2>2. [worker[w] EXCEPT !.cached = FALSE].pc = worker[w].pc
        /\ [worker[w] EXCEPT !.cached = FALSE].job = worker[w].job
      BY <1>1, ExecutingWorker DEF Inv, HandlerRollsBack, Executing
  <2> QED
      BY <1>1, <2>1, <2>2, OnlyTheWorker DEF HandlerRollsBack, Executing
<1>2. CASE Reread(w)
  <2> DEFINE state == [worker[w] EXCEPT !.cached = TRUE, !.attempt = job[worker[w].job].attempt]
  <2>1. job[worker[w].job].attempt \in Nat
      BY <1>2, ExecutingWorker DEF Inv, Reread, TypeOK, Rows
  <2>2. state \in WorkerStates /\ state.pc = worker[w].pc /\ state.job = worker[w].job
      BY <1>2, <2>1, ExecutingWorker DEF Inv, Reread, WorkerStates
  <2> QED
      BY <1>2, <2>2, OnlyTheWorker DEF Reread, Executing
<1>3. CASE TakenAway(w)
    BY <1>3, OtherStates, OnlyTheWorker DEF TakenAway, Executing
<1>4. CASE HandlerFails(w)
  <2> DEFINE state == [worker[w] EXCEPT !.pc = "failing", !.cached = FALSE]
  <2>1. state \in WorkerStates /\ state.pc = "failing" /\ state.job = worker[w].job
      BY <1>4, ExecutingWorker DEF Inv, HandlerFails, Executing, WorkerStates
  <2> QED
      BY <1>4, <2>1, OnlyTheWorker DEF HandlerFails
<1>5. CASE Die(w)
    BY <1>5, OtherStates, OnlyTheWorker DEF Die
<1> QED
    BY <1>1, <1>2, <1>3, <1>4, <1>5

\* `release_due_retries` writes QUEUED and nothing else.
LEMMA ReleaseDueRetriesStep == ASSUME Inv, NEW w \in Workers, ReleaseDueRetries(w) PROVE Inv'
<1>1. /\ worker' \in [Workers -> WorkerStates]
      /\ \A v \in Workers : v # w => worker'[v] = worker[v]
    BY WorkerMoves, OtherStates DEF Inv, ReleaseDueRetries
<1>2. ~Executing(w)
    BY DEF ReleaseDueRetries, Executing
<1>3. \A j \in Jobs : job'[j] = job[j] \/ job'[j] = [job[j] EXCEPT !.status = "QUEUED"]
    BY DEF ReleaseDueRetries
<1>4. \A j \in Jobs : [job[j] EXCEPT !.status = "QUEUED"] \in Rows
                      /\ [job[j] EXCEPT !.status = "QUEUED"].status = "QUEUED"
    BY DEF Inv, TypeOK, Rows, Statuses
<1>5. job' \in [Jobs -> Rows]
  <2>1. \A j \in Jobs : job'[j] \in Rows
      BY <1>3, <1>4 DEF Inv, TypeOK
  <2> QED
      BY <2>1 DEF ReleaseDueRetries
<1>6. TypeOK'
    BY <1>1, <1>5 DEF Inv, TypeOK, ReleaseDueRetries
<1>7. \A j \in Jobs : job'[j].status = "RUNNING" => job'[j] = job[j]
    BY <1>3, <1>4
<1> QED
    BY <1>1, <1>2, <1>6, <1>7, RowsAreKept
    DEF Inv, ReleaseDueRetries, RequeuesAreCounted, NobodyRequeued, Holds, Executing

\* The reaper writes QUEUED or FAILED, never RUNNING.
LEMMA ReapExpiredLeasesStep == ASSUME Inv, NEW w \in Workers, ReapExpiredLeases(w) PROVE Inv'
<1> DEFINE seen == worker[w].seen
           again(j) == seen[j].attempt < MaxAttempts
           reaped(j) == [Released(job[j], seen[j]) EXCEPT
                           !.status = AfterFailure(seen[j].attempt, "QUEUED"),
                           !.due = IF again(j) THEN TRUE ELSE @]
<1>1. /\ worker' \in [Workers -> WorkerStates]
      /\ \A v \in Workers : v # w => worker'[v] = worker[v]
    BY WorkerMoves, OtherStates DEF Inv, ReapExpiredLeases
<1>2. ~Executing(w)
    BY DEF ReapExpiredLeases, Executing
<1>3. \A j \in Jobs : job'[j] = job[j] \/ job'[j] = reaped(j)
    BY DEF ReapExpiredLeases
<1>4. ASSUME NEW j \in Jobs
      PROVE  reaped(j) \in Rows /\ reaped(j).status # "RUNNING"
  <2>1. Released(job[j], seen[j]) \in Rows
      BY ReleasedRow, ReadingWorker DEF Inv, TypeOK, ReapExpiredLeases
  <2>2. AfterFailure(seen[j].attempt, "QUEUED") \in {"QUEUED", "FAILED"}
      BY FailedStatus
  <2>3. {"QUEUED", "FAILED"} \subseteq Statuses
      BY DEF Statuses, TERMINAL
  <2> HIDE DEF seen
  <2> QED
      BY <2>1, <2>2, <2>3 DEF Rows
<1>5. job' \in [Jobs -> Rows]
  <2>1. \A j \in Jobs : job'[j] \in Rows
      BY <1>3, <1>4 DEF Inv, TypeOK
  <2> QED
      BY <2>1 DEF ReapExpiredLeases
<1>6. tries' \in [Jobs -> SUBSET [number: Nat, worker: Workers, open: BOOLEAN]]
    BY ClosedAttempts DEF Inv, TypeOK, ReapExpiredLeases
<1>7. TypeOK'
    BY <1>1, <1>5, <1>6 DEF Inv, TypeOK, ReapExpiredLeases
<1>8. \A j \in Jobs : job'[j].status = "RUNNING" => job'[j] = job[j]
    BY <1>3, <1>4
<1>9. \A j \in Jobs : job'[j].status = "RUNNING" => tries'[j] = tries[j]
  <2> SUFFICES ASSUME NEW j \in Jobs, job'[j].status = "RUNNING" PROVE tries'[j] = tries[j]
      OBVIOUS
  <2>1. ~InBatch(seen, j)
      BY <1>4 DEF ReapExpiredLeases
  <2> QED
      BY <2>1 DEF ReapExpiredLeases
<1> QED
    BY <1>1, <1>2, <1>7, <1>8, <1>9, RowsAreKept
    DEF Inv, ReapExpiredLeases, RequeuesAreCounted, NobodyRequeued, Holds, Executing

\* A claim gives the row to a worker that executes it from then on.
LEMMA ClaimStep ==
  ASSUME Inv, NEW w \in Workers, NEW j \in Jobs, NEW registered \in BOOLEAN, Claim(w, j, registered)
  PROVE  Inv'
<1> DEFINE n == job[j].attempt + 1
           claimed == [status |-> "RUNNING", attempt |-> n, worker |-> w, lease |-> "live", due |-> TRUE]
           state == [pc |-> IF registered THEN "running" ELSE "claimed",
                     job |-> j, attempt |-> n, cached |-> TRUE]
<1>1. n \in Nat
    BY DEF Inv, TypeOK, Rows
<1>2. state \in WorkerStates /\ state.pc \in {"claimed", "running", "failing"} /\ state.job = j
    BY <1>1 DEF WorkerStates
<1>3. Goto(w, state)
    BY DEF Claim
<1>4. /\ worker' \in [Workers -> WorkerStates]
      /\ worker'[w] = state
      /\ \A v \in Workers : v # w => worker'[v] = worker[v]
    BY <1>2, <1>3, WorkerMoves DEF Inv
<1>5. claimed \in Rows
    BY <1>1 DEF Rows, Statuses
<1>6. /\ job' \in [Jobs -> Rows]
      /\ job'[j] = claimed
      /\ \A k \in Jobs : k # j => job'[k] = job[k]
    BY <1>5 DEF Inv, TypeOK, Claim
<1>7. tries' \in [Jobs -> SUBSET [number: Nat, worker: Workers, open: BOOLEAN]]
    BY <1>1, OpenedAttempts DEF Inv, TypeOK, Claim
<1>8. TypeOK'
    BY <1>4, <1>6, <1>7 DEF Inv, TypeOK, Claim
<1>9. RequeuesAreCounted' /\ (NobodyRequeued' => NobodyRequeued)
    BY DEF Inv, Claim, RequeuesAreCounted, NobodyRequeued
<1>10. RecoverableUntilRequeued'
    BY <1>6, <1>9, QueueAssumption DEF Inv, RecoverableUntilRequeued, RunningIsRecoverable
<1>11. LiveHolderIsExecuting'
  <2> SUFFICES ASSUME NEW k \in Jobs, NEW v \in Workers \ Mortal, Holds(v, k)'
               PROVE  (Executing(v) /\ worker[v].job = k)'
      BY DEF LiveHolderIsExecuting
  <2>1. CASE k = j
      BY <2>1, <1>2, <1>4, <1>6 DEF Holds, Executing
  <2>2. CASE k # j
    <3>1. Holds(v, k)
        BY <2>2, <1>6 DEF Holds
    <3>2. Executing(v) /\ worker[v].job = k
        BY <3>1 DEF Inv, LiveHolderIsExecuting
    <3>3. v # w
        BY <3>2 DEF Claim, Executing
    <3> QED
        BY <3>2, <3>3, <1>4 DEF Executing
  <2> QED
      BY <2>1, <2>2
<1>12. HolderIsOnRecord'
  <2> SUFFICES ASSUME NobodyRequeued', NEW k \in Jobs, job'[k].status = "RUNNING"
               PROVE  \E a \in tries'[k] : a.worker = job'[k].worker /\ a.open
      BY DEF HolderIsOnRecord
  <2>1. CASE k = j
    <3> DEFINE attempt == [number |-> n, worker |-> w, open |-> TRUE]
    <3>1. attempt \in tries'[j]
        BY DEF Claim, Opened, Inv, TypeOK
    <3>2. attempt.worker = job'[j].worker /\ attempt.open
        BY <1>6
    <3> QED
        BY <2>1, <3>1, <3>2
  <2>2. CASE k # j
    <3>1. job'[k] = job[k] /\ tries'[k] = tries[k]
        BY <2>2, <1>6 DEF Claim, Inv, TypeOK
    <3> QED
        BY <3>1, <1>9 DEF Inv, HolderIsOnRecord
  <2> QED
      BY <2>1, <2>2
<1> QED
    BY <1>8, <1>9, <1>10, <1>11, <1>12 DEF Inv

\* The execution of an unknown type writes the attempts of the row.
LEMMA UnknownTypeStep == ASSUME Inv, NEW w \in Workers, UnknownType(w) PROVE Inv'
<1> DEFINE state == [worker[w] EXCEPT !.pc = "failing", !.attempt = MaxAttempts]
<1>1. Executing(w) /\ worker[w].job \in Jobs
    BY ExecutingWorker DEF Inv, UnknownType, Executing
<1>2. state \in WorkerStates /\ state.pc = "failing" /\ state.job = worker[w].job
    BY <1>1, ExecutingWorker, QueueAssumption DEF Inv, WorkerStates
<1>3. /\ worker' \in [Workers -> WorkerStates]
      /\ worker'[w] = state
      /\ \A v \in Workers : v # w => worker'[v] = worker[v]
    BY <1>2, WorkerMoves DEF Inv, UnknownType
<1>4. /\ job' \in [Jobs -> Rows]
      /\ \A j \in Jobs : /\ job'[j].status = job[j].status
                         /\ job'[j].worker = job[j].worker
                         /\ job'[j].lease = job[j].lease
  <2> DEFINE j == worker[w].job
             row == [job[j] EXCEPT !.attempt = IF worker[w].attempt = MaxAttempts THEN @ ELSE MaxAttempts]
  <2>1. /\ row \in Rows
        /\ row.status = job[j].status /\ row.worker = job[j].worker /\ row.lease = job[j].lease
      BY <1>1, QueueAssumption DEF Inv, TypeOK, Rows
  <2>2. job' = [job EXCEPT ![j] = row]
      BY <1>1 DEF Inv, TypeOK, UnknownType
  <2>3. j \in Jobs /\ job \in [Jobs -> Rows]
      BY <1>1 DEF Inv, TypeOK
  <2> HIDE DEF row, j
  <2>4. job' \in [Jobs -> Rows]
      BY <2>1, <2>2, <2>3
  <2> SUFFICES ASSUME NEW k \in Jobs
               PROVE  /\ job'[k].status = job[k].status
                      /\ job'[k].worker = job[k].worker
                      /\ job'[k].lease = job[k].lease
      BY <2>4
  <2>5. CASE k = j
      BY <2>1, <2>2, <2>3, <2>5
  <2>6. CASE k # j
      BY <2>2, <2>3, <2>6
  <2> QED
      BY <2>5, <2>6
<1>5. TypeOK'
    BY <1>3, <1>4 DEF Inv, TypeOK, UnknownType
<1>6. RequeuesAreCounted' /\ (NobodyRequeued' => NobodyRequeued)
    BY DEF Inv, UnknownType, RequeuesAreCounted, NobodyRequeued
<1>7. \A v \in Workers, j \in Jobs : Holds(v, j)' => Holds(v, j)
    BY <1>4 DEF Holds
<1>8. \A v \in Workers : Executing(v) => Executing(v)' /\ worker'[v].job = worker[v].job
    BY <1>2, <1>3 DEF Executing
<1> QED
    BY <1>4, <1>5, <1>6, <1>7, <1>8, RowsAreKept DEF UnknownType

LEMMA HeartbeatStep == ASSUME Inv, NEW w \in Workers, Heartbeat(w) PROVE Inv'
<1>1. worker[w].job \in Jobs
    BY ExecutingWorker DEF Inv, Heartbeat, Executing
<1>2. /\ job' \in [Jobs -> Rows]
      /\ \A j \in Jobs : /\ job'[j].status = job[j].status
                         /\ job'[j].worker = job[j].worker
                         /\ job[j].lease # "none" => job'[j].lease # "none"
    BY <1>1 DEF Inv, TypeOK, Heartbeat, Rows
<1>3. TypeOK'
    BY <1>2 DEF Inv, TypeOK, Heartbeat
<1> QED
    BY <1>2, <1>3, RowsAreKept DEF Inv, Heartbeat, RequeuesAreCounted, NobodyRequeued, Holds, Executing

\* A conclusion takes the row out of RUNNING, whoever holds it.
LEMMA FinishStep ==
  ASSUME Inv, NEW w \in Workers, Executing(w), NEW status \in Statuses, status # "RUNNING", Finish(w, status)
  PROVE  Inv'
<1> DEFINE j == worker[w].job
           row == [job[j] EXCEPT !.status = status, !.worker = Nobody, !.lease = "none",
                                 !.due = IF status = "RETRYING" THEN FALSE ELSE @]
<1>1. j \in Jobs
    BY ExecutingWorker DEF Inv
<1>2. row \in Rows /\ row.status = status
  <2>1. job[j] \in Rows
      BY <1>1 DEF Inv, TypeOK
  <2> QED
      BY <2>1 DEF Rows
<1>3. /\ job' \in [Jobs -> Rows]
      /\ job'[j] = row
      /\ \A k \in Jobs : k # j => job'[k] = job[k]
    BY <1>1, <1>2 DEF Inv, TypeOK, Finish
<1>4. /\ worker' \in [Workers -> WorkerStates]
      /\ \A v \in Workers : v # w => worker'[v] = worker[v]
    BY WorkerMoves, OtherStates DEF Inv, Finish
<1>5. tries' \in [Jobs -> SUBSET [number: Nat, worker: Workers, open: BOOLEAN]]
    BY <1>1, ClosedAttempts DEF Inv, TypeOK, Finish
<1>6. TypeOK'
    BY <1>3, <1>4, <1>5 DEF Inv, TypeOK, Finish
<1>7. RequeuesAreCounted' /\ (NobodyRequeued' => NobodyRequeued)
    BY DEF Inv, Finish, RequeuesAreCounted, NobodyRequeued
<1>8. \A k \in Jobs : job'[k].status = "RUNNING" => k # j /\ job'[k] = job[k]
    BY <1>2, <1>3
<1>9. \A v \in Workers, k \in Jobs : Holds(v, k)' => Holds(v, k) /\ k # j
    BY <1>8 DEF Holds
<1>10. ASSUME NEW v \in Workers \ Mortal, NEW k \in Jobs, Executing(v), worker[v].job = k, Holds(v, k)'
       PROVE  (Executing(v) /\ worker[v].job = k)'
  <2>1. v # w
      BY <1>9, <1>10
  <2> QED
      BY <2>1, <1>4, <1>10 DEF Executing
<1>11. \A k \in Jobs : k # j => tries'[k] = tries[k]
    BY DEF Inv, TypeOK, Finish
<1> QED
    BY <1>6, <1>7, <1>8, <1>9, <1>10, <1>11, RowsAreKept

LEMMA ConcludeStep ==
  ASSUME Inv, NEW w \in Workers, NEW status \in {"COMPLETED", "BLOCKED", "WAITING_APPROVAL"}, Conclude(w, status)
  PROVE  Inv'
<1>1. status \in Statuses /\ status # "RUNNING"
    BY DEF Statuses, TERMINAL, Parked
<1> QED
    BY <1>1, FinishStep DEF Conclude, Executing

LEMMA FailStep == ASSUME Inv, NEW w \in Workers, Fail(w) PROVE Inv'
<1> DEFINE status == AfterFailure(worker[w].attempt, "RETRYING")
<1>1. status \in {"RETRYING", "FAILED"}
    BY FailedStatus
<1>2. status \in Statuses /\ status # "RUNNING"
    BY <1>1 DEF Statuses, TERMINAL, Waiting
<1>3. Executing(w) /\ Finish(w, status)
    BY DEF Fail, Executing
<1> HIDE DEF status
<1> QED
    BY <1>2, <1>3, FinishStep

\* People.  A cancel is the end of a row; a requeue takes its holder away, and
\* whoever may leave a row RUNNING without a lease was counted.
LEMMA AskStep ==
  ASSUME Inv, NEW o \in Operators, NEW what \in Asks, NEW j \in Jobs, Ask(o, what, j)
  PROVE  Inv'
<1> DEFINE state == [pc |-> what, job |-> j, seen |-> job[j]]
<1>1. state \in OperatorStates
    BY DEF OperatorStates, Asks, Inv, TypeOK
<1>2. /\ operator' \in [Operators -> OperatorStates]
      /\ \A p \in Operators : p # o => operator'[p] = operator[p]
      /\ operator'[o] = state
    BY <1>1 DEF Inv, TypeOK, Ask
<1>3. /\ requests["cancelling"] \in 0..MaxRequests
      /\ requests["requeuing"] \in 0..MaxRequests
      /\ requests["cancelling"] + requests["requeuing"] < MaxRequests
    BY DEF Inv, TypeOK, Ask, Asks
<1>4. requests[what] + 1 \in 0..MaxRequests
    BY <1>3, QueueAssumption DEF Asks
<1>5. requests' \in [Asks -> 0..MaxRequests]
    BY <1>4 DEF Inv, TypeOK, Ask
<1>6. TypeOK'
    BY <1>2, <1>5 DEF Inv, TypeOK, Ask
<1>7. NobodyRequeued' => NobodyRequeued /\ what = "cancelling"
    BY <1>3, QueueAssumption DEF Inv, TypeOK, Ask, Asks, NobodyRequeued
<1>8. RequeuesAreCounted'
  <2> SUFFICES ASSUME NobodyRequeued', NEW p \in Operators
               PROVE  operator'[p].pc # "requeuing"
      BY DEF RequeuesAreCounted
  <2>1. CASE p = o
      BY <2>1, <1>2, <1>7
  <2>2. CASE p # o
      BY <2>2, <1>2, <1>7 DEF Inv, RequeuesAreCounted
  <2> QED
      BY <2>1, <2>2
<1> QED
    BY <1>6, <1>7, <1>8, RowsAreKept DEF Ask, Holds, Executing

LEMMA OperatorRests ==
  ASSUME Inv, NEW o \in Operators, operator' = [operator EXCEPT ![o] = Idle], requests' = requests
  PROVE  /\ operator' \in [Operators -> OperatorStates]
         /\ RequeuesAreCounted'
         /\ NobodyRequeued' => NobodyRequeued
  BY DEF Inv, TypeOK, OperatorStates, Idle, RequeuesAreCounted, NobodyRequeued

LEMMA CancelWritesStep == ASSUME Inv, NEW o \in Operators, CancelWrites(o) PROVE Inv'
<1> DEFINE j == operator[o].job
           row == [Released(job[j], operator[o].seen) EXCEPT !.status = "CANCELLED"]
<1>1. j \in Jobs /\ operator[o].seen \in Rows
    BY DEF Inv, TypeOK, OperatorStates, CancelWrites
<1>2. row \in Rows /\ row.status = "CANCELLED"
  <2>1. Released(job[j], operator[o].seen) \in Rows
      BY <1>1, ReleasedRow DEF Inv, TypeOK
  <2> QED
      BY <2>1 DEF Rows, Statuses, TERMINAL
<1>3. job' = [job EXCEPT ![j] = row]
    BY DEF CancelWrites
<1> HIDE DEF row, j
<1>4. job' \in [Jobs -> Rows] /\ \A k \in Jobs : job'[k].status = "RUNNING" => job'[k] = job[k]
    BY <1>1, <1>2, <1>3 DEF Inv, TypeOK
<1>5. /\ operator' \in [Operators -> OperatorStates]
      /\ RequeuesAreCounted'
      /\ NobodyRequeued' => NobodyRequeued
    BY OperatorRests DEF CancelWrites
<1>6. TypeOK'
    BY <1>4, <1>5 DEF Inv, TypeOK, CancelWrites
<1> QED
    BY <1>4, <1>5, <1>6, RowsAreKept DEF CancelWrites, Holds, Executing

LEMMA RequeueWritesStep == ASSUME Inv, NEW o \in Operators, RequeueWrites(o) PROVE Inv'
<1> DEFINE j == operator[o].job
           seen == operator[o].seen
           row == [Released(job[j], seen) EXCEPT
                     !.status = IF seen.status = "QUEUED" THEN @ ELSE "QUEUED",
                     !.attempt = IF seen.attempt = 0 THEN @ ELSE 0,
                     !.due = TRUE]
<1>1. j \in Jobs /\ seen \in Rows
    BY DEF Inv, TypeOK, OperatorStates, RequeueWrites
<1>2. row \in Rows /\ row.status \in {job[j].status, "QUEUED"} /\ row.worker \in {job[j].worker, Nobody}
  <2> DEFINE released == Released(job[j], seen)
  <2>1. released \in Rows
      BY <1>1, ReleasedRow DEF Inv, TypeOK
  <2>2. released.status = job[j].status /\ released.worker \in {job[j].worker, Nobody}
      BY <1>1 DEF Released, Inv, TypeOK, Rows
  <2> HIDE DEF released, seen
  <2>3. row \in Rows /\ row.status \in {released.status, "QUEUED"} /\ row.worker = released.worker
      BY <2>1 DEF Rows, Statuses, released
  <2> QED
      BY <2>2, <2>3
<1>3. job' = [job EXCEPT ![j] = row]
    BY <1>1 DEF RequeueWrites, Released, Inv, TypeOK
<1> HIDE DEF row, j
<1>4. /\ job' \in [Jobs -> Rows]
      /\ \A k \in Jobs : k # j => job'[k] = job[k]
      /\ job'[j] = row
    BY <1>1, <1>2, <1>3 DEF Inv, TypeOK
<1>5. /\ operator' \in [Operators -> OperatorStates]
      /\ RequeuesAreCounted'
      /\ NobodyRequeued' => NobodyRequeued
    BY OperatorRests DEF RequeueWrites
<1>6. TypeOK'
    BY <1>4, <1>5 DEF Inv, TypeOK, RequeueWrites
<1>7. ~NobodyRequeued'
    BY <1>5 DEF Inv, RequeuesAreCounted, RequeueWrites
<1>8. \A v \in Workers, k \in Jobs : Holds(v, k)' => Holds(v, k)
    BY <1>2, <1>4, QueueAssumption DEF Holds
<1> QED
    BY <1>5, <1>6, <1>7, <1>8, RowsAreKept DEF RequeueWrites, Executing

-----------------------------------------------------------------------------
(* The theorems *)

LEMMA StepInv == Inv /\ [Next]_vars => Inv'
<1> SUFFICES ASSUME Inv, [Next]_vars PROVE Inv'
    OBVIOUS
<1>1. ASSUME NEW j \in Jobs, NEW later \in BOOLEAN, Enqueue(j, later) PROVE Inv'
    BY <1>1, EnqueueStep
<1>2. ASSUME NEW j \in Jobs, LeaseRunsOut(j) \/ WaitIsOver(j) PROVE Inv'
    BY <1>2, LeaseRunsOutStep, WaitIsOverStep
<1>3. ASSUME NEW w \in Workers, Cycle(w) PROVE Inv'
    BY <1>3, ReadDueRetriesStep, ReleaseDueRetriesStep, ReadExpiredLeasesStep, ReapExpiredLeasesStep,
       ClaimStep, NothingToClaimStep DEF Cycle
<1>4. ASSUME NEW w \in Workers, End(w) PROVE Inv'
    BY <1>4, UnknownTypeStep, ConcludeStep, ExecutionStep, FailStep DEF End
<1>5. ASSUME NEW w \in Workers, Get(w) \/ HandlerRollsBack(w) \/ Heartbeat(w) \/ Die(w) PROVE Inv'
    BY <1>5, ExecutionStep, HeartbeatStep DEF Get
<1>6. ASSUME NEW o \in Operators, NEW what \in Asks, NEW j \in Jobs, Ask(o, what, j) PROVE Inv'
    BY <1>6, AskStep
<1>7. ASSUME NEW o \in Operators, CancelWrites(o) \/ RequeueWrites(o) PROVE Inv'
    BY <1>7, CancelWritesStep, RequeueWritesStep
<1>8. CASE UNCHANGED vars
    BY <1>8 DEF vars, Inv, TypeOK, RequeuesAreCounted, NobodyRequeued, RecoverableUntilRequeued,
       RunningIsRecoverable, LiveHolderIsExecuting, HolderIsOnRecord, Holds, Executing
<1> QED
    BY <1>1, <1>2, <1>3, <1>4, <1>5, <1>6, <1>7, <1>8 DEF Next

LEMMA InvHolds == Spec => []Inv
  BY InitInv, StepInv, PTL DEF Spec

\* Rows, sessions and requests always have their types: no write made from an
\* old copy leaves a row that the next reader could not take.
THEOREM TypeCorrect == Spec => []TypeOK
<1>1. Inv => TypeOK
    BY DEF Inv
<1> QED
    BY <1>1, InvHolds, PTL

\* However many workers race and die, until somebody requeues a RUNNING row has
\* the holder and the lease by which `reap_expired_leases` finds it.
THEOREM Recoverable == Spec => []RecoverableUntilRequeued
<1>1. Inv => RecoverableUntilRequeued
    BY DEF Inv
<1> QED
    BY <1>1, InvHolds, PTL

\* A worker that does not die never stops executing a job that its row says it
\* holds: `_execute` gives the job up only on rows that are no longer its own.
THEOREM LiveWorkersLeaveNoOrphans == Spec => []LiveHolderIsExecuting
<1>1. Inv => LiveHolderIsExecuting
    BY DEF Inv
<1> QED
    BY <1>1, InvHolds, PTL

\* However late other workers close their attempts, until somebody requeues the
\* holder of a RUNNING row has an attempt that is open: of the attempts that a
\* write closes, none is of a row it leaves RUNNING.
THEOREM ClaimsAreOnRecord == Spec => []HolderIsOnRecord
<1>1. Inv => HolderIsOnRecord
    BY DEF Inv
<1> QED
    BY <1>1, InvHolds, PTL

=============================================================================
