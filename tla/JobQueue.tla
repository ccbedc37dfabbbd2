------------------------------ MODULE JobQueue ------------------------------
(***************************************************************************)
(* The job queue and its workers (jobs/queue.py, jobs/worker.py).          *)
(*                                                                         *)
(* Only `claim` locks the row it takes (FOR UPDATE SKIP LOCKED).  All the  *)
(* rest reads a row in one statement and writes it in a later one, by id   *)
(* and without a condition, so every such operation is two actions here.   *)
(* A worker keeps the session of its cycle, which answers `get` from the   *)
(* copy it loaded at the claim until a rollback expires it; an UPDATE      *)
(* writes the columns that differ from the copy and no other.              *)
(*                                                                         *)
(* Time is two bits: a lease runs out, a wait is over.                     *)
(***************************************************************************)
EXTENDS Integers

CONSTANTS
    Jobs,         \* idempotency keys: what may be enqueued
    Workers,      \* worker processes
    Mortal,       \* the ones that may die in the middle of anything
    Operators,    \* API sessions of people who cancel and requeue
    MaxAttempts,  \* Job.max_attempts
    MaxRequests,  \* bound: requests the operators make in all
    Nobody        \* lease_worker is NULL

ASSUME QueueAssumption ==
    /\ Mortal \subseteq Workers
    /\ MaxAttempts \in Nat \ {0}
    /\ MaxRequests \in Nat
    /\ Nobody \notin Workers

VARIABLES
    job,       \* the rows of `jobs`
    tries,     \* of each job, the newest row of `job_attempts` of each number
    worker,    \* where each worker is in its cycle, and what its session has
    operator,  \* the same for the people's sessions
    requests   \* how many requests of each kind the operators made

vars == <<job, tries, worker, operator, requests>>

Asks == {"cancelling", "requeuing"}

TERMINAL == {"COMPLETED", "FAILED", "CANCELLED"}
Parked == {"BLOCKED", "WAITING_APPROVAL"}
Waiting == {"PENDING", "RETRYING"}
Statuses == TERMINAL \cup Parked \cup Waiting \cup {"QUEUED", "RUNNING"}

Rows == [status: Statuses \cup {"NONE"}, attempt: Nat, worker: Workers \cup {Nobody},
         lease: {"none", "live", "expired"}, due: BOOLEAN]
NoJob == [status |-> "NONE", attempt |-> 0, worker |-> Nobody, lease |-> "none", due |-> FALSE]

\* What a query brought to a session: the rows it found (NoJob: not this one).
Batches == [Jobs -> Rows]

WorkerStates ==
    [pc: {"idle", "to reap", "to claim"}]
    \cup [pc: {"releasing", "reaping"}, seen: Batches]
    \cup [pc: {"claimed", "running", "failing"}, job: Jobs, attempt: Nat, cached: BOOLEAN]

OperatorStates == [pc: {"idle"}] \cup [pc: {"cancelling", "requeuing"}, job: Jobs, seen: Rows]

TypeOK ==
    /\ job \in [Jobs -> Rows]
    /\ tries \in [Jobs -> SUBSET [number: Nat, worker: Workers, open: BOOLEAN]]
    /\ worker \in [Workers -> WorkerStates]
    /\ operator \in [Operators -> OperatorStates]
    /\ requests \in [Asks -> 0..MaxRequests]

-----------------------------------------------------------------------------
(* Rows and sessions *)

Idle == [pc |-> "idle"]
Goto(w, state) == worker' = [worker EXCEPT ![w] = state]

\* The rows a query finds, as they are now.
Found(Matches(_)) == [j \in Jobs |-> IF Matches(j) THEN job[j] ELSE NoJob]
InBatch(seen, j) == seen[j].status # "NONE"

Executing(w) == worker[w].pc \in {"claimed", "running", "failing"}

\* `_require_held`, on the row itself.
Holds(w, j) == job[j].status = "RUNNING" /\ job[j].worker = w

\* `_release` writes NULL over a holder and a lease the session knows of.
Released(now, seen) ==
    [now EXCEPT !.worker = IF seen.worker = Nobody THEN @ ELSE Nobody,
                !.lease = IF seen.lease = "none" THEN @ ELSE "none"]

\* `_finish_attempt` closes the newest attempt of that number.
Closed(attempts, n) == {[a EXCEPT !.open = @ /\ a.number # n] : a \in attempts}

\* Mutant of the next definition: the attempt is left for the handler to write.
OpenedLater(attempts, n, w) == attempts

\* A claim adds the newest attempt of its number.
Opened(attempts, n, w) ==
    {a \in attempts : a.number # n} \cup {[number |-> n, worker |-> w, open |-> TRUE]}

\* Mutant of the next definition: a dead letter with a status of its own.
DeadLetter(n, again) == IF n < MaxAttempts THEN again ELSE "DEAD"

\* Queued again or failed for good, by the attempts the session saw.
AfterFailure(n, again) == IF n < MaxAttempts THEN again ELSE "FAILED"

-----------------------------------------------------------------------------
(* Enqueuing and time *)

\* `enqueue`: a key that exists is left alone; the unique column decides races.
Enqueue(j, later) ==
    /\ job[j].status = "NONE"
    /\ job' = [job EXCEPT ![j].status = IF later THEN "PENDING" ELSE "QUEUED", ![j].due = ~later]
    /\ UNCHANGED <<tries, worker, operator, requests>>

LeaseRunsOut(j) ==
    /\ job[j].lease = "live"
    /\ job' = [job EXCEPT ![j].lease = "expired"]
    /\ UNCHANGED <<tries, worker, operator, requests>>

WaitIsOver(j) ==
    /\ job[j].status # "NONE"
    /\ ~job[j].due
    /\ job' = [job EXCEPT ![j].due = TRUE]
    /\ UNCHANGED <<tries, worker, operator, requests>>

-----------------------------------------------------------------------------
(* The cycle of a worker: release, reap, claim *)

\* A query that finds nothing has nothing to write, and the cycle goes on.
ReadDueRetries(w) ==
    /\ worker[w].pc = "idle"
    /\ LET due(j) == job[j].status \in Waiting /\ job[j].due
       IN  Goto(w, IF \E j \in Jobs : due(j) THEN [pc |-> "releasing", seen |-> Found(due)]
                                             ELSE [pc |-> "to reap"])
    /\ UNCHANGED <<job, tries, operator, requests>>

\* `release_due_retries`, its UPDATE: QUEUED, whatever the row has become.
ReleaseDueRetries(w) ==
    /\ worker[w].pc = "releasing"
    /\ job' = [j \in Jobs |->
                 IF InBatch(worker[w].seen, j) THEN [job[j] EXCEPT !.status = "QUEUED"] ELSE job[j]]
    /\ Goto(w, [pc |-> "to reap"])
    /\ UNCHANGED <<tries, operator, requests>>

ReadExpiredLeases(w) ==
    /\ worker[w].pc = "to reap"
    /\ LET orphan(j) == job[j].status = "RUNNING" /\ job[j].lease = "expired"
       IN  Goto(w, IF \E j \in Jobs : orphan(j) THEN [pc |-> "reaping", seen |-> Found(orphan)]
                                                ELSE [pc |-> "to claim"])
    /\ UNCHANGED <<job, tries, operator, requests>>

\* Mutants of the next definition: the status is left to the next release; jobs
\* without attempts left are passed over.
ReapWithoutStatus(w) ==
    /\ worker[w].pc = "reaping"
    /\ LET seen == worker[w].seen
       IN  job' = [j \in Jobs |-> IF InBatch(seen, j) THEN Released(job[j], seen[j]) ELSE job[j]]
    /\ Goto(w, [pc |-> "to claim"])
    /\ UNCHANGED <<tries, operator, requests>>

ReapOnlyRetries(w) ==
    /\ worker[w].pc = "reaping"
    /\ LET seen == worker[w].seen
           again == {j \in Jobs : InBatch(seen, j) /\ seen[j].attempt < MaxAttempts}
       IN  job' = [j \in Jobs |->
                     IF j \in again
                     THEN [Released(job[j], seen[j]) EXCEPT !.status = "QUEUED", !.due = TRUE]
                     ELSE job[j]]
    /\ Goto(w, [pc |-> "to claim"])
    /\ UNCHANGED <<tries, operator, requests>>

\* `reap_expired_leases`, its UPDATEs.
ReapExpiredLeases(w) ==
    /\ worker[w].pc = "reaping"
    /\ LET seen == worker[w].seen
           again(j) == seen[j].attempt < MaxAttempts
       IN  /\ job' = [j \in Jobs |->
                        IF InBatch(seen, j)
                        THEN [Released(job[j], seen[j]) EXCEPT
                                !.status = AfterFailure(seen[j].attempt, "QUEUED"),
                                !.due = IF again(j) THEN TRUE ELSE @]
                        ELSE job[j]]
           /\ tries' = [j \in Jobs |->
                          IF InBatch(seen, j)
                          THEN Closed(tries[j], seen[j].attempt) ELSE tries[j]]
    /\ Goto(w, [pc |-> "to claim"])
    /\ UNCHANGED <<operator, requests>>

\* `claim`: the row, its lease and its attempt in one transaction that locks it.
\* Which of the due jobs is the oldest, and whether this worker's build has a
\* handler for its type, are left open.
Claim(w, j, registered) ==
    /\ worker[w].pc = "to claim"
    /\ job[j].status = "QUEUED" /\ job[j].due
    /\ LET n == job[j].attempt + 1
       IN  /\ job' = [job EXCEPT ![j] = [status |-> "RUNNING", attempt |-> n, worker |-> w,
                                         lease |-> "live", due |-> TRUE]]
           /\ tries' = [tries EXCEPT ![j] = Opened(@, n, w)]
           /\ Goto(w, [pc |-> IF registered THEN "running" ELSE "claimed",
                       job |-> j, attempt |-> n, cached |-> TRUE])
    /\ UNCHANGED <<operator, requests>>

NothingToClaim(w) ==
    /\ worker[w].pc = "to claim"
    /\ \A j \in Jobs : ~(job[j].status = "QUEUED" /\ job[j].due)
    /\ Goto(w, Idle)
    /\ UNCHANGED <<job, tries, operator, requests>>

-----------------------------------------------------------------------------
(* The execution of a job *)

\* A type without a handler uses up its attempts at once, and then fails.
UnknownType(w) ==
    /\ worker[w].pc = "claimed"
    /\ job' = [job EXCEPT ![worker[w].job].attempt =
                 IF worker[w].attempt = MaxAttempts THEN @ ELSE MaxAttempts]
    /\ Goto(w, [worker[w] EXCEPT !.pc = "failing", !.attempt = MaxAttempts])
    /\ UNCHANGED <<tries, operator, requests>>

\* The handler rolls its session back: the copy of the row is gone.
HandlerRollsBack(w) ==
    /\ worker[w].pc = "running"
    /\ worker[w].cached
    /\ Goto(w, [worker[w] EXCEPT !.cached = FALSE])
    /\ UNCHANGED <<job, tries, operator, requests>>

\* `get` without a copy: the row is read again.
Reread(w) ==
    /\ Executing(w) /\ ~worker[w].cached
    /\ Holds(w, worker[w].job)
    /\ Goto(w, [worker[w] EXCEPT !.cached = TRUE, !.attempt = job[worker[w].job].attempt])
    /\ UNCHANGED <<job, tries, operator, requests>>

\* Mutant of the next definition: a session without a copy gives the job up.
GivesUp(w) ==
    /\ Executing(w) /\ ~worker[w].cached
    /\ Goto(w, Idle)
    /\ UNCHANGED <<job, tries, operator, requests>>

\* The same when the job is no longer the worker's: JobCancelledError, and the
\* result of the handler is discarded.
TakenAway(w) ==
    /\ Executing(w) /\ ~worker[w].cached
    /\ ~Holds(w, worker[w].job)
    /\ Goto(w, Idle)
    /\ UNCHANGED <<job, tries, operator, requests>>

\* `heartbeat`: a session with a copy believes it and extends the lease.
Heartbeat(w) ==
    /\ worker[w].pc = "running"
    /\ worker[w].cached
    /\ job' = [job EXCEPT ![worker[w].job].lease = "live"]
    /\ UNCHANGED <<tries, worker, operator, requests>>

\* What `complete`, `block`, `hold_for_approval` and `fail` write, on what the
\* session knows of the job.
Finish(w, status) ==
    /\ LET j == worker[w].job
       IN  /\ job' = [job EXCEPT ![j] = [job[j] EXCEPT !.status = status, !.worker = Nobody, !.lease = "none",
                                                       !.due = IF status = "RETRYING" THEN FALSE ELSE @]]
           /\ tries' = [tries EXCEPT ![j] = Closed(@, worker[w].attempt)]
    /\ Goto(w, Idle)
    /\ UNCHANGED <<operator, requests>>

\* The handler returned, or raised one of the errors that park a job.
Conclude(w, status) ==
    /\ worker[w].pc = "running" /\ worker[w].cached
    /\ Finish(w, status)

\* Any other exception: the session is rolled back before `fail` looks at the row.
HandlerFails(w) ==
    /\ worker[w].pc = "running"
    /\ Goto(w, [worker[w] EXCEPT !.pc = "failing", !.cached = FALSE])
    /\ UNCHANGED <<job, tries, operator, requests>>

Fail(w) ==
    /\ worker[w].pc = "failing" /\ worker[w].cached
    /\ Finish(w, AfterFailure(worker[w].attempt, "RETRYING"))

Die(w) ==
    /\ w \in Mortal
    /\ worker[w].pc # "idle"
    /\ Goto(w, Idle)
    /\ UNCHANGED <<job, tries, operator, requests>>

-----------------------------------------------------------------------------
(* People *)

Ask(o, what, j) ==
    /\ operator[o].pc = "idle"
    /\ requests["cancelling"] + requests["requeuing"] < MaxRequests
    /\ job[j].status # "NONE"
    /\ what = "cancelling" => job[j].status \notin TERMINAL
    /\ operator' = [operator EXCEPT ![o] = [pc |-> what, job |-> j, seen |-> job[j]]]
    /\ requests' = [requests EXCEPT ![what] = @ + 1]
    /\ UNCHANGED <<job, tries, worker>>

CancelWrites(o) ==
    /\ operator[o].pc = "cancelling"
    /\ LET j == operator[o].job
       IN  job' = [job EXCEPT ![j] = [Released(job[j], operator[o].seen) EXCEPT !.status = "CANCELLED"]]
    /\ operator' = [operator EXCEPT ![o] = Idle]
    /\ UNCHANGED <<tries, worker, requests>>

\* `requeue` takes a job in any status and starts its attempts over.
RequeueWrites(o) ==
    /\ operator[o].pc = "requeuing"
    /\ LET j == operator[o].job
           seen == operator[o].seen
       IN  job' = [job EXCEPT ![j] = [Released(job[j], seen) EXCEPT
                     !.status = IF seen.status = "QUEUED" THEN @ ELSE "QUEUED",
                     !.attempt = IF seen.attempt = 0 THEN @ ELSE 0,
                     !.due = TRUE]]
    /\ operator' = [operator EXCEPT ![o] = Idle]
    /\ UNCHANGED <<tries, worker, requests>>

-----------------------------------------------------------------------------

Init ==
    /\ job = [j \in Jobs |-> NoJob]
    /\ tries = [j \in Jobs |-> {}]
    /\ worker = [w \in Workers |-> Idle]
    /\ operator = [o \in Operators |-> Idle]
    /\ requests = [what \in Asks |-> 0]

\* What a worker does between two jobs.
Cycle(w) ==
    \/ ReadDueRetries(w)
    \/ ReleaseDueRetries(w)
    \/ ReadExpiredLeases(w)
    \/ ReapExpiredLeases(w)
    \/ \E j \in Jobs, registered \in BOOLEAN : Claim(w, j, registered)
    \/ NothingToClaim(w)

\* How an execution ends.
End(w) ==
    \/ UnknownType(w)
    \/ \E status \in {"COMPLETED", "BLOCKED", "WAITING_APPROVAL"} : Conclude(w, status)
    \/ HandlerFails(w)
    \/ Fail(w)

\* `get` of the job when the session has no copy.
Get(w) == Reread(w) \/ TakenAway(w)

Next ==
    \/ \E j \in Jobs, later \in BOOLEAN : Enqueue(j, later)
    \/ \E j \in Jobs : LeaseRunsOut(j) \/ WaitIsOver(j)
    \/ \E w \in Workers : Cycle(w) \/ Get(w) \/ End(w) \/ HandlerRollsBack(w) \/ Heartbeat(w) \/ Die(w)
    \/ \E o \in Operators, what \in Asks, j \in Jobs : Ask(o, what, j)
    \/ \E o \in Operators : CancelWrites(o) \/ RequeueWrites(o)

Spec == Init /\ [][Next]_vars

\* Time passes, handlers end (or their worker dies), and the workers that do not
\* die keep cycling.
Fairness ==
    /\ \A j \in Jobs : WF_vars(LeaseRunsOut(j)) /\ WF_vars(WaitIsOver(j))
    /\ \A w \in Workers : WF_vars(End(w)) /\ WF_vars(Get(w))
    /\ \A w \in Workers \ Mortal : WF_vars(Cycle(w))

FairSpec == Spec /\ Fairness

-----------------------------------------------------------------------------
(* Properties *)

NobodyRequeued == requests["requeuing"] = 0

\* queue.py: "it is enough that an expired lease can be recovered".  A RUNNING
\* row always has a holder and a lease, so that the reaper, which only looks at
\* leases, can take it back from a worker that died.
RunningIsRecoverable ==
    \A j \in Jobs : job[j].status = "RUNNING" => job[j].worker # Nobody /\ job[j].lease # "none"

\* The same until somebody requeues: of all the writes made from an old copy of
\* the row, only those of `requeue` can take the lease of a row and leave it RUNNING.
RecoverableUntilRequeued == NobodyRequeued => RunningIsRecoverable

\* The reaper is for the dead: a worker that lives never leaves behind a job whose
\* row says that it holds it, whichever way its execution ended.
LiveHolderIsExecuting ==
    \A j \in Jobs : \A w \in Workers \ Mortal :
        Holds(w, j) => Executing(w) /\ worker[w].job = j

\* queue.py: "the state in which a job is claimed and nobody wrote down by whom
\* does not exist".  Until somebody requeues, which starts the numbers over, the
\* holder has an open attempt, however late other workers close theirs.
HolderIsOnRecord ==
    NobodyRequeued =>
        \A j \in Jobs : job[j].status = "RUNNING" =>
            \E a \in tries[j] : a.worker = job[j].worker /\ a.open

\* Every job that was enqueued comes to rest (done, failed, cancelled or parked
\* for a person) though workers die and rows are written from old copies.
JobsSettle ==
    \A j \in Jobs :
        []NobodyRequeued => (job[j].status # "NONE" ~> job[j].status \in TERMINAL \cup Parked)

\* worker.py: "two workers never take the same row".  No worker takes over a job
\* that another holds under a lease that has not run out.
NeverTwoWorkers ==
    [][\A j \in Jobs :
         job[j].worker # Nobody /\ job[j].lease = "live"
             => job'[j].worker \in {job[j].worker, Nobody}]_vars

=============================================================================
