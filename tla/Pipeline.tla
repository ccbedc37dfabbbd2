------------------------------ MODULE Pipeline ------------------------------
(***************************************************************************)
(* One run of the purchase pipeline (pipeline/service.py), the job that    *)
(* carries it, the workers that execute it and the people who answer,      *)
(* cancel and resume it (api/pipeline.py).                                 *)
(*                                                                         *)
(* An executor keeps copies of the job, the run and the steps from when it *)
(* loaded them: only `refresh(run)` before each step and a rollback bring  *)
(* them up to date, and an UPDATE writes the columns that differ from the  *)
(* copy.  Operations and reviews are read from the database each time.     *)
(*                                                                         *)
(* The job queue is JobQueue's without its own races, and the operations   *)
(* of a step move through ActionLifecycle.  What a step computes is left   *)
(* out, save the recommendations the gate reads.                            *)
(***************************************************************************)
EXTENDS ActionGate, Sequences, FiniteSets

CONSTANTS
    Workers,       \* processes that execute jobs
    N,             \* the steps are 1..N
    Halting,       \* the steps that may deliver nothing to the next (research, sourcing)
    Costing,       \* the step whose recommendation on the money the gate reads (economics), as a set
    Counselling,   \* and the one whose recommendation on the law it reads (legal)
    Effects,       \* the steps with an effect outside the system
    ActionOf,      \* which action each of them is
    Role,          \* of who asked for the run
    Environment, Simulated,
    MaxAttempts,   \* Job.max_attempts
    MaxSequence,   \* bound: operations of one step
    MaxReviews,    \* bound: questions about one step
    MaxRequests    \* bound: times people cancel, resume or turn the switch

Steps == 1..N
Advising == Costing \cup Counselling
Operations == Effects \X (1..MaxSequence)

ASSUME PipelineAssumption ==
    /\ N \in Nat \ {0}
    /\ Halting \cup Advising \cup Effects \subseteq Steps
    /\ ActionOf \in [Effects -> SideEffectActions]
    /\ Environment \in Environments /\ Simulated \in BOOLEAN
    /\ {MaxAttempts, MaxSequence, MaxReviews, MaxRequests} \subseteq Nat \ {0}

VARIABLES
    run,        \* pipeline_runs.status
    step,       \* pipeline_steps: status and recommendation
    job,        \* the job of the run: status, attempt, holder
    action,     \* status of each operation
    left,       \* the operations whose request may have left
    applied,    \* the operations whose result is recorded (applied_at)
    reviews,    \* the questions about each step with an effect, oldest first
    postHoc,    \* the question about the run as a whole, and needs_review
    enabled,    \* the kill switch
    exec,       \* what each worker is doing, and the copies its session keeps
    requests,   \* how often people did
    overlap     \* history: the job was queued again while a worker was still at it

runVars == <<run, step, job>>
actionVars == <<action, left, applied>>
peopleVars == <<reviews, postHoc, enabled, requests>>
vars == <<runVars, actionVars, peopleVars, exec, overlap>>

Actions == INSTANCE ActionLifecycle WITH Sites <- Operations

RunStatuses == {"NONE", "QUEUED", "RUNNING", "COMPLETED", "PARTIAL", "FAILED", "BLOCKED",
                "CANCELLED", "WAITING_APPROVAL"}
StepStatuses == {"PENDING", "RUNNING", "COMPLETED", "FAILED", "SKIPPED", "CANCELLED", "DENIED",
                 "WAITING_APPROVAL"}
RESUMABLE == {"FAILED", "PARTIAL", "BLOCKED", "CANCELLED", "WAITING_APPROVAL"}
CANCELLABLE == {"QUEUED", "RUNNING", "FAILED", "BLOCKED", "WAITING_APPROVAL"}
JobStatuses == {"NONE", "QUEUED", "RUNNING", "COMPLETED", "FAILED", "CANCELLED", "BLOCKED", "WAITING_APPROVAL"}
ReviewStatuses == {"PENDING", "APPROVED", "REJECTED", "CONSUMED"}

Nobody == "nobody"
StepRows == [status : StepStatuses, advice : Recommendations]
Fresh == [status |-> "PENDING", advice |-> "NONE"]

\* At a run, on the way out of it, and waiting for one.
Executing ==
    [pc : {"load", "begin", "disable", "next", "gate", "deny", "denied", "await", "ask", "asked", "start",
           "call", "answer", "work", "halt", "settle"},
     at : 1..(N + 1), run : RunStatuses, steps : [Steps -> StepRows], cached : BOOLEAN,
     review : 0..MaxReviews, op : 0..MaxSequence, seen : Actions!ActionStatuses]
Leaving == [pc : {"complete", "block", "hold", "fail"}, cached : BOOLEAN]
Idle == [pc |-> "idle"]

TypeOK ==
    /\ run \in RunStatuses
    /\ step \in [Steps -> StepRows]
    /\ job \in [status : JobStatuses, attempt : 0..MaxAttempts, worker : Workers \cup {Nobody}]
    /\ Actions!LifecycleTypeOK /\ applied \subseteq Operations
    /\ reviews \in [Effects -> Seq(ReviewStatuses)] /\ \A s \in Effects : Len(reviews[s]) <= MaxReviews
    /\ postHoc \in [asked : {"NONE", "PENDING", "RESOLVED"}, needed : BOOLEAN]
    /\ enabled \in BOOLEAN /\ overlap \in BOOLEAN
    /\ exec \in [Workers -> Executing \cup Leaving \cup {Idle}]
    /\ requests \in 0..MaxRequests

-----------------------------------------------------------------------------
(* Operations and questions, as the database has them *)

LatestOf(s) == Cardinality({n \in 1..MaxSequence : action[<<s, n>>] # "NONE"})
LatestStatus(s) == IF LatestOf(s) = 0 THEN "NONE" ELSE action[<<s, LatestOf(s)>>]
Unrecorded(s) == LatestStatus(s) = "SUCCEEDED" /\ <<s, LatestOf(s)>> \notin applied
OwnsTheSite(s) == LatestStatus(s) \in {"PENDING", "CALLING", "UNKNOWN_OUTCOME"} \/ Unrecorded(s)

\* What was last answered about a step.
Answer(s) == IF reviews[s] = <<>> THEN "NONE" ELSE reviews[s][Len(reviews[s])]

\* Mutant of the next definition: an authorisation that was used still counts.
HumanApprovalForEver(s) ==
    CASE Answer(s) \in {"APPROVED", "CONSUMED"} -> "GRANTED"
      [] Answer(s) = "REJECTED" -> "REJECTED"
      [] OTHER -> "NONE"

HumanApproval(s) ==
    CASE Answer(s) = "APPROVED" -> "GRANTED"
      [] Answer(s) = "REJECTED" -> "REJECTED"
      [] OTHER -> "NONE"
Pending(s) == {k \in 1..Len(reviews[s]) : reviews[s][k] = "PENDING"}

-----------------------------------------------------------------------------
(* The session of a worker *)

Runs(w, pc) == exec[w].pc = pc
Holds(w) == job.status = "RUNNING" /\ job.worker = w

\* The column is written when it differs from the copy.
SetRun(w, status) == run' = IF exec[w].run = status THEN run ELSE status
Written(now, copy, new) ==
    [status |-> IF new.status = copy.status THEN now.status ELSE new.status,
     advice |-> IF new.advice = copy.advice THEN now.advice ELSE new.advice]
SetSteps(w, new) == step' = [s \in Steps |-> Written(step[s], exec[w].steps[s], new[s])]
WithStatus(steps, s, status) == [steps EXCEPT ![s].status = status]

\* The job is for the next worker to take, whoever is still at it.
QueueJob(attempt) ==
    /\ job' = [status |-> "QUEUED", attempt |-> attempt, worker |-> Nobody]
    /\ overlap' = (overlap \/ \E w \in Workers : ~Runs(w, "idle"))

Goto(w, pc) == exec' = [exec EXCEPT ![w].pc = pc]
GoOn(w, copy) == exec' = [exec EXCEPT ![w] = copy]
Return(w, how) == GoOn(w, [pc |-> how, cached |-> exec[w].cached])

\* Everything the session kept is read again after a rollback.
RolledBack(w) == [exec[w] EXCEPT !.run = run, !.steps = step, !.cached = FALSE]

\* The step and then the run are marked, in two commits nothing is read between.
StepFails(w, status, pc) ==
    LET steps == WithStatus(exec[w].steps, exec[w].at, "FAILED")
    IN  /\ SetSteps(w, steps)
        /\ SetRun(w, status)
        /\ Return(w, pc)

-----------------------------------------------------------------------------
(* Enqueuing; the same key brings the same run back *)

enqueue_or_replay ==
    /\ run = "NONE" /\ enabled
    /\ run' = "QUEUED"
    /\ QueueJob(0)
    /\ UNCHANGED <<step, actionVars, peopleVars, exec>>

-----------------------------------------------------------------------------
(* execute_run *)

Claim(w) ==
    /\ Runs(w, "idle") /\ job.status = "QUEUED"
    /\ job' = [status |-> "RUNNING", attempt |-> job.attempt + 1, worker |-> w]
    /\ GoOn(w, [pc |-> "load", at |-> 1, run |-> run, steps |-> step, cached |-> TRUE,
                review |-> 0, op |-> 0, seen |-> "NONE"])
    /\ UNCHANGED <<run, step, actionVars, peopleVars, overlap>>

\* The run and the kill switch are read before anything is written.
Load(w) ==
    /\ Runs(w, "load")
    /\ IF run = "CANCELLED" THEN Return(w, "complete")
       ELSE GoOn(w, [exec[w] EXCEPT !.run = run, !.pc = IF enabled THEN "begin" ELSE "disable"])
    /\ UNCHANGED <<runVars, actionVars, peopleVars, overlap>>

Disable(w) ==
    /\ Runs(w, "disable")
    /\ SetRun(w, "BLOCKED")
    /\ Return(w, "block")
    /\ UNCHANGED <<step, job, actionVars, peopleVars, overlap>>

Begin(w) ==
    /\ Runs(w, "begin")
    /\ SetRun(w, "RUNNING")
    /\ GoOn(w, [exec[w] EXCEPT !.pc = "next", !.run = "RUNNING", !.steps = step])
    /\ UNCHANGED <<step, job, actionVars, peopleVars, overlap>>

\* The next step whose copy is not COMPLETED; a heartbeat, which believes a copy
\* of the job, and a fresh look at the run.
NextStep(w) ==
    LET left_ == {s \in exec[w].at..N : exec[w].steps[s].status # "COMPLETED"}
    IN  /\ Runs(w, "next")
        /\ \/ /\ left_ = {}
              /\ Goto(w, "settle")
           \/ \E s \in left_ :
                /\ \A x \in left_ : s <= x
                /\ exec[w].cached \/ Holds(w)
                /\ IF run = "CANCELLED" THEN GoOn(w, [pc |-> "complete", cached |-> TRUE])
                   ELSE GoOn(w, [exec[w] EXCEPT !.at = s, !.run = run, !.cached = TRUE,
                                   !.pc = IF s \in Effects THEN "gate" ELSE "start"])
        /\ UNCHANGED <<runVars, actionVars, peopleVars, overlap>>

\* The heartbeat finds the job taken away: `_reconcile_lost`.
Lost(w) ==
    /\ Runs(w, "next") /\ ~exec[w].cached /\ ~Holds(w)
    /\ \E s \in exec[w].at..N : exec[w].steps[s].status # "COMPLETED"
    /\ run' = IF job.status = "CANCELLED" THEN "CANCELLED" ELSE run
    /\ GoOn(w, Idle)
    /\ UNCHANGED <<step, job, actionVars, peopleVars, overlap>>

\* What the copy says that a step recommended, if there is such a step.
AdviceOf(w, advisers) ==
    IF advisers = {} THEN "NONE" ELSE exec[w].steps[CHOOSE a \in advisers : TRUE].advice

\* What the gate is asked about a step.
StepInput(w, s, funded) ==
    [action |-> ActionOf[s], enabled |-> enabled, funded |-> funded,
     economics |-> AdviceOf(w, Costing), legal |-> AdviceOf(w, Counselling),
     unresolved |-> LatestStatus(s) \in {"CALLING", "UNKNOWN_OUTCOME"},
     human |-> HumanApproval(s),
     permission |-> PermissionOf(Role, ActionOf[s], Simulated), environment |-> Environment,
     cost |-> "UNDECLARED"]

\* `_gate_step`: nothing is asked when only the recording is missing; a call
\* that was interrupted becomes UNKNOWN_OUTCOME.  Others share the budget.
Gate(w, funded) ==
    LET s == exec[w].at
        decision == Outcome(StepInput(w, s, funded))
        latest == <<s, LatestOf(s)>>
    IN  /\ Runs(w, "gate")
        /\ funded \/ ActionOf[s] \in SpendingActions
        /\ IF Unrecorded(s)
           THEN GoOn(w, [exec[w] EXCEPT !.pc = "start", !.review = 0]) /\ UNCHANGED action
           ELSE /\ action' = IF LatestStatus(s) = "CALLING"
                             THEN [action EXCEPT ![latest] = "UNKNOWN_OUTCOME"] ELSE action
                /\ GoOn(w, [exec[w] EXCEPT
                        !.pc = CASE decision = "DENY" -> "deny"
                                 [] decision = "REQUIRE_APPROVAL" -> "await"
                                 [] decision = "ALLOW" -> "start",
                        !.review = IF decision = "ALLOW" /\ Answer(s) = "APPROVED"
                                   THEN Len(reviews[s]) ELSE 0])
        /\ UNCHANGED <<runVars, left, applied, peopleVars, overlap>>

Deny(w) ==
    LET steps == WithStatus(exec[w].steps, exec[w].at, "DENIED")
    IN  /\ Runs(w, "deny")
        /\ SetSteps(w, steps)
        /\ GoOn(w, [exec[w] EXCEPT !.pc = "denied", !.steps = steps])
        /\ UNCHANGED <<run, job, actionVars, peopleVars, overlap>>

\* Mutant of the next definition: a denied step is left behind, whatever is unknown.
DeniedGoesOn(w) ==
    /\ Runs(w, "denied")
    /\ GoOn(w, [exec[w] EXCEPT !.pc = "next", !.at = @ + 1])
    /\ UNCHANGED <<runVars, actionVars, peopleVars, overlap>>

\* The chain goes on after a denial, unless an effect of the step may have happened.
Denied(w) ==
    /\ Runs(w, "denied")
    /\ IF LatestStatus(exec[w].at) = "UNKNOWN_OUTCOME"
       THEN SetRun(w, "BLOCKED") /\ Return(w, "block")
       ELSE UNCHANGED run /\ GoOn(w, [exec[w] EXCEPT !.pc = "next", !.at = @ + 1])
    /\ UNCHANGED <<step, job, actionVars, peopleVars, overlap>>

\* `_await_approval`: the step, then the question, then the run.
Await(w) ==
    LET steps == WithStatus(exec[w].steps, exec[w].at, "WAITING_APPROVAL")
    IN  /\ Runs(w, "await")
        /\ SetSteps(w, steps)
        /\ GoOn(w, [exec[w] EXCEPT !.pc = "ask", !.steps = steps])
        /\ UNCHANGED <<run, job, actionVars, peopleVars, overlap>>

\* A new question is committed with the run that waits for it; the unique index
\* leaves one open question per step.
Ask(w) ==
    LET s == exec[w].at
    IN  /\ Runs(w, "ask") /\ Pending(s) = {} /\ Len(reviews[s]) < MaxReviews
        /\ reviews' = [reviews EXCEPT ![s] = Append(@, "PENDING")]
        /\ SetRun(w, "WAITING_APPROVAL")
        /\ postHoc' = [postHoc EXCEPT !.needed = TRUE]
        /\ Return(w, "hold")
        /\ UNCHANGED <<step, job, actionVars, enabled, requests, overlap>>

\* An open question is found, and may be answered before the run waits for it.
AskedBefore(w) ==
    /\ Runs(w, "ask") /\ Pending(exec[w].at) # {}
    /\ Goto(w, "asked")
    /\ UNCHANGED <<runVars, actionVars, peopleVars, overlap>>

Waits(w) ==
    /\ Runs(w, "asked")
    /\ SetRun(w, "WAITING_APPROVAL")
    /\ postHoc' = [postHoc EXCEPT !.needed = TRUE]
    /\ Return(w, "hold")
    /\ UNCHANGED <<step, job, actionVars, reviews, enabled, requests, overlap>>

\* `_start_step`: the authorisation is spent, the operation opened (or taken up)
\* and the step RUNNING in one transaction.
Start(w) ==
    LET s == exec[w].at
        steps == WithStatus(exec[w].steps, s, "RUNNING")
        owned == OwnsTheSite(s)
        n == IF owned THEN LatestOf(s) ELSE LatestOf(s) + 1
    IN  /\ Runs(w, "start")
        /\ IF exec[w].review = 0 THEN UNCHANGED reviews
           ELSE /\ reviews[s][exec[w].review] = "APPROVED"
                /\ reviews' = [reviews EXCEPT ![s][exec[w].review] = "CONSUMED"]
        /\ SetSteps(w, steps)
        /\ IF s \in Effects
           THEN /\ n <= MaxSequence
                /\ IF owned THEN UNCHANGED <<action, left>> ELSE Actions!OpenAction(<<s, n>>)
                /\ GoOn(w, [exec[w] EXCEPT !.pc = "call", !.steps = steps, !.review = 0, !.op = n,
                              !.seen = IF owned THEN LatestStatus(s) ELSE "PENDING"])
           ELSE /\ UNCHANGED <<action, left>>
                /\ GoOn(w, [exec[w] EXCEPT !.pc = "work", !.steps = steps])
        /\ UNCHANGED <<run, job, applied, postHoc, enabled, requests, overlap>>

\* Another executor spent the authorisation: rolled back, and the error escapes
\* execute_run with the run still RUNNING.
StartRefused(w) ==
    /\ Runs(w, "start") /\ exec[w].review # 0
    /\ reviews[exec[w].at][exec[w].review] # "APPROVED"
    /\ GoOn(w, [pc |-> "fail", cached |-> FALSE])
    /\ UNCHANGED <<runVars, actionVars, peopleVars, overlap>>

\* The budget was used up since the gate looked at it: everything is rolled back
\* and the step denied.
BudgetExhausted(w) ==
    LET s == exec[w].at
    IN  /\ Runs(w, "start") /\ s \in Effects /\ ActionOf[s] \in SpendingActions
        /\ LatestStatus(s) = "PENDING" \/ ~OwnsTheSite(s)
        /\ step' = [step EXCEPT ![s].status = "DENIED"]
        /\ GoOn(w, [RolledBack(w) EXCEPT !.pc = "next", !.at = s + 1, !.review = 0,
                                         !.steps = WithStatus(step, s, "DENIED")])
        /\ UNCHANGED <<run, job, actionVars, peopleVars, overlap>>

\* `execute`: nothing is sent when it was done before; otherwise `begin_call`.
AlreadyDone(w) ==
    /\ Runs(w, "call") /\ exec[w].seen = "SUCCEEDED"
    /\ Goto(w, "work")
    /\ UNCHANGED <<runVars, actionVars, peopleVars, overlap>>

Call(w) ==
    /\ Runs(w, "call") /\ exec[w].seen = "PENDING" /\ enabled
    /\ Actions!BeginCall(<<exec[w].at, exec[w].op>>)
    /\ Goto(w, "answer")
    /\ UNCHANGED <<runVars, applied, peopleVars, overlap>>

\* The kill switch went off before the effect: the step is put back (or ends, if
\* the copies say it was cancelled) and the run waits.
CallDisabled(w) ==
    LET steps == [exec[w].steps EXCEPT ![exec[w].at] = Fresh]
    IN  /\ Runs(w, "call") /\ exec[w].seen = "PENDING" /\ ~enabled
        /\ SetSteps(w, steps)
        /\ SetRun(w, "BLOCKED")
        /\ Return(w, "block")
        /\ UNCHANGED <<job, actionVars, peopleVars, overlap>>

\* The operation is not where the session thinks: an error like any other.
CallRefused(w) ==
    /\ Runs(w, "call") /\ exec[w].seen # "SUCCEEDED"
    /\ exec[w].seen # "PENDING" \/ (enabled /\ action[<<exec[w].at, exec[w].op>>] # "PENDING")
    /\ StepFails(w, "FAILED", "fail")
    /\ UNCHANGED <<job, actionVars, peopleVars, overlap>>

\* The provider answers, also to a call that was declared unknown meanwhile.
Answered(w) ==
    LET o == <<exec[w].at, exec[w].op>>
    IN  /\ Runs(w, "answer")
        /\ \/ Actions!Succeeds(o) /\ Goto(w, "work") /\ UNCHANGED <<run, step>>
           \/ Actions!Fails(o) /\ StepFails(w, "FAILED", "fail")
        /\ UNCHANGED <<job, applied, peopleVars, overlap>>

\* No answer: nobody knows, and the run stops until somebody does.
NotAnswered(w) ==
    /\ Runs(w, "answer")
    /\ Actions!IsLost(<<exec[w].at, exec[w].op>>)
    /\ StepFails(w, "BLOCKED", "block")
    /\ UNCHANGED <<job, applied, peopleVars, overlap>>

\* Somebody closed the operation first, or declared it unknown when no answer came.
AnswerRefused(w) ==
    /\ Runs(w, "answer")
    /\ action[<<exec[w].at, exec[w].op>>] # "CALLING"
    /\ StepFails(w, "FAILED", "fail")
    /\ UNCHANGED <<job, actionVars, peopleVars, overlap>>

\* Mutant of the next definition: the result is not recorded with the step.
WorkForgets(w, advice) ==
    LET s == exec[w].at
        steps == [exec[w].steps EXCEPT ![s] = [status |-> "COMPLETED", advice |-> advice]]
    IN  /\ Runs(w, "work")
        /\ (s \in Advising) <=> (advice # "NONE")
        /\ SetSteps(w, steps)
        /\ GoOn(w, [exec[w] EXCEPT !.pc = "next", !.at = s + 1, !.steps = steps, !.op = 0, !.seen = "NONE"])
        /\ UNCHANGED <<run, job, actionVars, peopleVars, overlap>>

\* The step is done; its effect, if it has one, is recorded with it.
Work(w, advice) ==
    LET s == exec[w].at
        steps == [exec[w].steps EXCEPT ![s] = [status |-> "COMPLETED", advice |-> advice]]
    IN  /\ Runs(w, "work")
        /\ (s \in Advising) <=> (advice # "NONE")
        /\ SetSteps(w, steps)
        /\ applied' = IF s \in Effects THEN applied \cup {<<s, exec[w].op>>} ELSE applied
        /\ GoOn(w, [exec[w] EXCEPT !.pc = "next", !.at = s + 1, !.steps = steps, !.op = 0, !.seen = "NONE"])
        /\ UNCHANGED <<run, job, action, left, peopleVars, overlap>>

WorkFails(w) ==
    /\ Runs(w, "work")
    /\ StepFails(w, "FAILED", "fail")
    /\ UNCHANGED <<job, actionVars, peopleVars, overlap>>

\* It delivers nothing to the next: the steps nobody will run are SKIPPED.
WorkHalts(w) ==
    LET s == exec[w].at
        steps == [x \in Steps |->
                    IF x = s THEN [exec[w].steps[x] EXCEPT !.status = "FAILED"]
                    ELSE IF x > s /\ exec[w].steps[x].status = "PENDING"
                    THEN [exec[w].steps[x] EXCEPT !.status = "SKIPPED"] ELSE exec[w].steps[x]]
    IN  /\ Runs(w, "work") /\ s \in Halting
        /\ SetSteps(w, steps)
        /\ GoOn(w, [exec[w] EXCEPT !.pc = "halt", !.steps = steps])
        /\ UNCHANGED <<run, job, actionVars, peopleVars, overlap>>

\* assess_pipeline_run on the copies: who should look at what it produced.
NeedsReview(steps, status) ==
    \/ status = "PARTIAL"
    \/ \E s \in Advising : steps[s].advice = "NO_GO"
    \/ \E s \in Steps : steps[s].status = "DENIED"

\* `_settle`: an open question of any kind stands for the new one.
Settle(w) ==
    LET status == IF exec[w].pc = "halt" THEN "PARTIAL" ELSE "COMPLETED"
        needed == NeedsReview(exec[w].steps, status)
        open == postHoc.asked = "PENDING" \/ \E s \in Effects : Pending(s) # {}
    IN  /\ exec[w].pc \in {"halt", "settle"}
        /\ SetRun(w, status)
        /\ postHoc' = [asked |-> IF needed /\ ~open THEN "PENDING" ELSE postHoc.asked, needed |-> needed]
        /\ Return(w, "complete")
        /\ UNCHANGED <<step, job, actionVars, reviews, enabled, requests, overlap>>

\* How the worker leaves the job: a copy is believed, else the row must be held.
Leave(w, pc, status) ==
    /\ Runs(w, pc)
    /\ job' = IF exec[w].cached \/ Holds(w) THEN [job EXCEPT !.status = status, !.worker = Nobody] ELSE job
    /\ GoOn(w, Idle)
    /\ UNCHANGED <<run, step, actionVars, peopleVars, overlap>>

\* Mutant of the next definition: a job is queued again however often it failed.
AgainAlways == "QUEUED"

Again == IF job.attempt < MaxAttempts THEN "QUEUED" ELSE "FAILED"

\* `fail` follows a rollback; the wait before the retry is left out.
Fail(w) ==
    /\ Runs(w, "fail")
    /\ job' = IF Holds(w) THEN [job EXCEPT !.status = Again, !.worker = Nobody] ELSE job
    /\ GoOn(w, Idle)
    /\ UNCHANGED <<run, step, actionVars, peopleVars, overlap>>

Die(w) ==
    /\ ~Runs(w, "idle")
    /\ GoOn(w, Idle)
    /\ UNCHANGED <<runVars, actionVars, peopleVars, overlap>>

-----------------------------------------------------------------------------
(* The reaper, the sweep, and people *)

\* The lease of a worker ran out, dead or just slow.
Reap ==
    /\ job.status = "RUNNING"
    /\ IF job.attempt < MaxAttempts THEN QueueJob(job.attempt)
       ELSE job' = [job EXCEPT !.status = "FAILED", !.worker = Nobody] /\ UNCHANGED overlap
    /\ UNCHANGED <<run, step, actionVars, peopleVars, exec>>

\* What is not finished by the one who started it: the sweep takes the PENDING
\* and CALLING ones, and a person resolves the UNKNOWN_OUTCOME ones.
Reconcile(o) ==
    /\ \/ action[o] \in {"PENDING", "UNKNOWN_OUTCOME"} /\ Actions!Fails(o)
       \/ action[o] = "UNKNOWN_OUTCOME" /\ Actions!Succeeds(o)
       \/ Actions!IsLost(o)
    /\ UNCHANGED <<runVars, applied, peopleVars, exec, overlap>>

\* `resume_run` from a step: it and the ones after it start over.
ResumeFrom(first) ==
    /\ run # "RUNNING" /\ job.status # "RUNNING"
    /\ step' = [s \in Steps |-> IF s >= first THEN Fresh ELSE step[s]]
    /\ run' = "QUEUED"
    /\ QueueJob(0)

\* Without a step, from the first that is not COMPLETED.
Resume ==
    /\ run \in RESUMABLE
    /\ \E s \in Steps : /\ step[s].status # "COMPLETED"
                        /\ \A x \in 1..(s - 1) : step[x].status = "COMPLETED"
                        /\ ResumeFrom(s)

resume_run ==
    /\ run # "NONE" /\ requests < MaxRequests
    /\ Resume \/ \E s \in Steps : ResumeFrom(s)
    /\ requests' = requests + 1
    /\ UNCHANGED <<actionVars, reviews, postHoc, enabled, exec>>

\* The job is cancelled with the run, unless it ended before.
cancel_run ==
    /\ run \in CANCELLABLE /\ requests < MaxRequests
    /\ run' = "CANCELLED"
    /\ job' = [job EXCEPT !.status = "CANCELLED", !.worker = Nobody]
    /\ requests' = requests + 1
    /\ UNCHANGED <<step, actionVars, reviews, postHoc, enabled, exec, overlap>>

\* `_resolve_review`: the first answer counts, and a run that waits moves on
\* with it, or the answer is not taken.
AnswerReview(s, k, answer) ==
    /\ reviews[s][k] = "PENDING"
    /\ reviews' = [reviews EXCEPT ![s][k] = answer]
    /\ IF run = "WAITING_APPROVAL" THEN Resume ELSE UNCHANGED <<runVars, overlap>>
    /\ UNCHANGED <<actionVars, postHoc, enabled, requests, exec>>

AnswerPostHoc ==
    /\ postHoc.asked = "PENDING"
    /\ postHoc' = [postHoc EXCEPT !.asked = "RESOLVED"]
    /\ UNCHANGED <<runVars, actionVars, reviews, enabled, requests, exec, overlap>>

SwitchTo(b) ==
    /\ enabled # b /\ requests < MaxRequests
    /\ enabled' = b
    /\ requests' = requests + 1
    /\ UNCHANGED <<runVars, actionVars, reviews, postHoc, exec, overlap>>

-----------------------------------------------------------------------------

Init ==
    /\ run = "NONE"
    /\ step = [s \in Steps |-> Fresh]
    /\ job = [status |-> "NONE", attempt |-> 0, worker |-> Nobody]
    /\ Actions!LifecycleInit /\ applied = {}
    /\ reviews = [s \in Effects |-> <<>>]
    /\ postHoc = [asked |-> "NONE", needed |-> FALSE]
    /\ enabled = TRUE /\ overlap = FALSE
    /\ exec = [w \in Workers |-> Idle]
    /\ requests = 0

\* A step is looked for, asked about and started.
Advances(w) ==
    \/ Claim(w) \/ Load(w) \/ Disable(w) \/ Begin(w) \/ NextStep(w) \/ Lost(w)
    \/ \E funded \in BOOLEAN : Gate(w, funded)
    \/ Deny(w) \/ Denied(w) \/ Await(w) \/ Ask(w) \/ AskedBefore(w) \/ Waits(w)
    \/ Start(w) \/ StartRefused(w) \/ BudgetExhausted(w)

\* Its effect is asked for, and its work done.
Works(w) ==
    \/ AlreadyDone(w) \/ Call(w) \/ CallDisabled(w) \/ CallRefused(w)
    \/ Answered(w) \/ NotAnswered(w) \/ AnswerRefused(w)
    \/ \E advice \in Recommendations : Work(w, advice)
    \/ WorkFails(w) \/ WorkHalts(w)

Leaves(w) ==
    \/ Settle(w) \/ Fail(w) \/ Die(w)
    \/ Leave(w, "complete", "COMPLETED") \/ Leave(w, "block", "BLOCKED") \/ Leave(w, "hold", "WAITING_APPROVAL")

People ==
    \/ enqueue_or_replay \/ resume_run \/ cancel_run \/ AnswerPostHoc
    \/ \E s \in Effects, k \in 1..MaxReviews, answer \in {"APPROVED", "REJECTED"} :
         k \in Pending(s) /\ AnswerReview(s, k, answer)
    \/ \E b \in BOOLEAN : SwitchTo(b)

Next ==
    \/ \E w \in Workers : Advances(w) \/ Works(w) \/ Leaves(w)
    \/ Reap \/ \E o \in Operations : Reconcile(o)
    \/ People

Spec == Init /\ [][Next]_vars

-----------------------------------------------------------------------------
(* Properties *)

\* service.py, `_human_approval`: an authorisation is good for one use.  Where
\* every effect has to be authorised, no step sends more requests than it has
\* authorisations spent, as long as no two workers execute the run at once:
\* through crashes, resumed runs, answers nobody heard and steps done again.
EveryEffectWasAuthorised ==
    ~overlap => \A s \in Effects :
        Cardinality({o \in left : o[1] = s}) <= Cardinality({k \in 1..Len(reviews[s]) : reviews[s][k] = "CONSUMED"})

\* service.py: a run does not end "with money in the air".  When it is COMPLETED
\* the outcome of everything it asked for is known, though the kill switch, the
\* sweep and people close operations while it goes on.
NothingInTheAir ==
    run = "COMPLETED" /\ ~overlap => \A o \in Operations : action[o] \notin {"CALLING", "UNKNOWN_OUTCOME"}

\* schemas.py: COMPLETED is "the nine steps ended".  Each was done or denied, and
\* a step with an effect is only done when the result of the last thing it asked
\* for is recorded, through resumes, steps done again and answers that come late.
CompletedRunsAreDone ==
    ~overlap =>
        /\ run = "COMPLETED" => \A s \in Steps : step[s].status \in {"COMPLETED", "DENIED"}
        /\ \A s \in Effects : step[s].status = "COMPLETED" => <<s, LatestOf(s)>> \in applied

=============================================================================
