--------------------------- MODULE Pipeline_proofs ---------------------------
(***************************************************************************)
(* One run of the pipeline never ends with an effect whose outcome nobody  *)
(* knows, is only COMPLETED when its steps are done and their effects      *)
(* recorded, and sends no more requests than people authorised, for any    *)
(* number of steps, workers, operations, questions and requests.           *)
(*                                                                         *)
(* While the job was never queued under a worker still at it, one worker   *)
(* executes the run, its copies of the steps are the rows, and what it has *)
(* left behind stays as it left it.                                        *)
(***************************************************************************)
EXTENDS Pipeline, FiniteSetTheorems, SequenceTheorems, TLAPS

\* Where a worker may be at the run, past its beginning; at a step; and before an
\* effect is started.
Going == {"next", "gate", "deny", "denied", "await", "ask", "asked", "start", "call", "answer", "work",
          "halt", "settle"}
AtStep == Going \ {"next", "settle"}
Asking == {"gate", "deny", "denied", "await", "ask", "asked"}

\* Who is at a step has it in hand, with the operation of its effect.
InHand(x) ==
    /\ x.pc \in AtStep => x.at \in Steps
    /\ x.pc \in Asking \cup {"call", "answer"} => x.at \in Effects
    /\ x.pc \in {"call", "answer"} => x.op \in 1..MaxSequence
    /\ x.pc = "work" /\ x.at \in Effects => x.op \in 1..MaxSequence

TypeInv ==
    /\ TypeOK
    /\ job.status = "QUEUED" => job.attempt < MaxAttempts
    /\ \A w \in Workers : InHand(exec[w])

Active(w) == ~Runs(w, "idle")

OneExecutor ==
    /\ \A v, w \in Workers : Active(v) /\ Active(w) => v = w
    /\ job.status = "QUEUED" => \A w \in Workers : ~Active(w)

\* The operations of a step were opened in order, each when the earlier ones were
\* closed, and what is recorded, or about to be, succeeded.
InOrder(s) ==
    /\ \E k \in 0..MaxSequence : \A n \in 1..MaxSequence : action[<<s, n>>] # "NONE" <=> n <= k
    /\ \A m, n \in 1..MaxSequence :
         m < n /\ action[<<s, n>>] # "NONE" => action[<<s, m>>] \in {"SUCCEEDED", "FAILED_CONFIRMED"}

Done(x) ==
    \/ x.pc = "call" /\ x.seen = "SUCCEEDED"
    \/ x.pc = "work" /\ x.at \in Effects

OperationsInv ==
    /\ \A s \in Effects : InOrder(s)
    /\ \A o \in applied : action[o] = "SUCCEEDED"
    /\ \A w \in Workers : Done(exec[w]) => action[<<exec[w].at, exec[w].op>>] = "SUCCEEDED"

\* A step is behind: done or denied, and the outcome of what it asked for is known.
InTheAir(s) == LatestStatus(s) \in {"CALLING", "UNKNOWN_OUTCOME"}
Passed(s) == step[s].status \in {"COMPLETED", "DENIED"} /\ (s \in Effects => ~InTheAir(s))

DoneIsRecorded == \A s \in Effects : step[s].status = "COMPLETED" => <<s, LatestOf(s)>> \in applied
CompletedPassed == run = "COMPLETED" => \A s \in Steps : Passed(s)

\* The copies of a worker are the rows.
UpToDate(w) ==
    /\ exec[w].pc \in Going => exec[w].steps = step /\ run \in {"RUNNING", "CANCELLED"}
    /\ exec[w].pc = "begin" /\ exec[w].run = "RUNNING" => run \in {"RUNNING", "CANCELLED"}

\* What a worker has behind, and the step it is at.
Behind(w) ==
    /\ exec[w].pc \in {"load", "begin"} => exec[w].at = 1
    /\ exec[w].pc \in Going => \A s \in Steps : s < exec[w].at => Passed(s)
    /\ exec[w].pc = "settle" => \A s \in Steps : Passed(s)
    /\ exec[w].pc \in AtStep => step[exec[w].at].status # "COMPLETED"
    /\ exec[w].pc \in {"deny", "denied"} => LatestStatus(exec[w].at) # "CALLING"
    /\ exec[w].pc = "denied" => step[exec[w].at].status = "DENIED"
    /\ exec[w].pc \in {"call", "answer"} \/ Done(exec[w]) => exec[w].op = LatestOf(exec[w].at)

ProgressInv ==
    /\ DoneIsRecorded /\ CompletedPassed
    /\ \A w \in Workers : UpToDate(w) /\ Behind(w)

\* The requests of a step, and the authorisations it has spent.
Sent(s) == {o \in left : o[1] = s}
Spent(s) == {k \in 1..Len(reviews[s]) : reviews[s][k] = "CONSUMED"}

\* Who is about to send has spent an authorisation nothing was sent with.
Authorised(w) ==
    /\ exec[w].pc = "start" /\ exec[w].at \in Effects => exec[w].review # 0 \/ Unrecorded(exec[w].at)
    /\ exec[w].pc = "start" /\ exec[w].review # 0 =>
         exec[w].at \in Effects /\ exec[w].review <= Len(reviews[exec[w].at])
    /\ exec[w].pc \in Going \cup {"load", "begin"} => exec[w].pc = "start" \/ exec[w].review = 0
    /\ exec[w].pc = "call" /\ exec[w].seen = "PENDING" =>
         Cardinality(Sent(exec[w].at)) < Cardinality(Spent(exec[w].at))

AuthorisedInv ==
    /\ \A s \in Effects : Cardinality(Sent(s)) <= Cardinality(Spent(s))
    /\ \A w \in Workers : Authorised(w)

Alone == ~overlap => OneExecutor
Progress == ~overlap => ProgressInv
AuthorisedAlone == ~overlap => AuthorisedInv

-----------------------------------------------------------------------------
(* Types *)

ExecTypes == Executing \cup Leaving \cup {Idle}
ExecutingAt == {"load", "begin", "disable"} \cup Going

LEMMA ExecutingType ==
    ASSUME TypeOK, NEW w \in Workers, exec[w].pc \in ExecutingAt
    PROVE  exec[w] \in Executing
  BY DEF TypeOK, Executing, Leaving, Idle, ExecutingAt, Going

LEMMA LatestType ==
    ASSUME TypeOK, NEW s \in Effects
    PROVE  LatestOf(s) \in 0..MaxSequence /\ LatestStatus(s) \in Actions!ActionStatuses
<1>1. MaxSequence \in Nat
  BY PipelineAssumption
<1> DEFINE opened == {n \in 1..MaxSequence : action[<<s, n>>] # "NONE"}
<1>2. IsFiniteSet(1..MaxSequence) /\ Cardinality(1..MaxSequence) = MaxSequence
  BY <1>1, FS_Interval
<1>3. Cardinality(opened) \in Nat /\ Cardinality(opened) <= MaxSequence
  BY <1>2, FS_Subset, FS_CardinalityType
<1>4. LatestOf(s) \in 0..MaxSequence
  BY <1>1, <1>3 DEF LatestOf
<1>5. LatestStatus(s) \in Actions!ActionStatuses
  <2>1. CASE LatestOf(s) = 0
    BY <2>1 DEF LatestStatus, Actions!ActionStatuses
  <2>2. CASE LatestOf(s) # 0
    BY <1>1, <1>4, <2>2 DEF LatestStatus, TypeOK, Actions!LifecycleTypeOK, Operations
  <2> QED
    BY <2>1, <2>2
<1> QED
  BY <1>4, <1>5

\* What a session writes of the steps are rows of steps.
LEMMA SetStepsType ==
    ASSUME TypeOK, NEW w \in Workers, exec[w] \in Executing, NEW new \in [Steps -> StepRows], SetSteps(w, new)
    PROVE  step' \in [Steps -> StepRows]
<1>1. \A s \in Steps : step[s] \in StepRows /\ exec[w].steps[s] \in StepRows /\ new[s] \in StepRows
  BY DEF TypeOK, Executing
<1>2. \A s \in Steps : Written(step[s], exec[w].steps[s], new[s]) \in StepRows
  BY <1>1 DEF Written, StepRows
<1> QED
  BY <1>2 DEF SetSteps

LEMMA SetRunType ==
    ASSUME TypeOK, NEW w \in Workers, NEW status \in RunStatuses, SetRun(w, status)
    PROVE  run' \in RunStatuses
  BY DEF TypeOK, SetRun

LEMMA WithStatusType ==
    ASSUME NEW steps \in [Steps -> StepRows], NEW s, NEW status \in StepStatuses
    PROVE  WithStatus(steps, s, status) \in [Steps -> StepRows]
<1>1. CASE s \in Steps
  BY <1>1 DEF WithStatus, StepRows
<1>2. CASE s \notin Steps
  BY <1>2 DEF WithStatus
<1> QED
  BY <1>1, <1>2

\* A worker goes on as one of its types, with its step in hand.
LEMMA WorkerType ==
    ASSUME TypeInv, NEW w \in Workers, NEW new \in ExecTypes, InHand(new), exec' = [exec EXCEPT ![w] = new]
    PROVE  exec' \in [Workers -> ExecTypes] /\ \A v \in Workers : InHand(exec'[v])
<1>1. exec \in [Workers -> ExecTypes]
  BY DEF TypeInv, TypeOK, ExecTypes
<1>2. \A v \in Workers : exec'[v] = IF v = w THEN new ELSE exec[v]
  BY <1>1
<1> QED
  BY <1>1, <1>2 DEF TypeInv

LEMMA LeavingInHand ==
    ASSUME NEW new \in Leaving \cup {Idle}
    PROVE  new \in ExecTypes /\ InHand(new)
  BY DEF Leaving, Idle, InHand, AtStep, Going, Asking, ExecTypes

\* What a worker does with its record.
LEMMA GotoType ==
    ASSUME TypeInv, NEW w \in Workers, exec[w] \in Executing, NEW pc \in ExecutingAt, Goto(w, pc),
           InHand([exec[w] EXCEPT !.pc = pc])
    PROVE  exec' \in [Workers -> ExecTypes] /\ \A v \in Workers : InHand(exec'[v])
<1>1. [exec[w] EXCEPT !.pc = pc] \in Executing
  BY DEF Executing, ExecutingAt, Going
<1>2. exec' = [exec EXCEPT ![w] = [exec[w] EXCEPT !.pc = pc]]
  BY DEF Goto
<1> QED
  BY <1>1, <1>2, WorkerType DEF ExecTypes

LEMMA ReturnType ==
    ASSUME TypeInv, NEW w \in Workers, exec[w] \in Executing, NEW how \in {"complete", "block", "hold", "fail"},
           Return(w, how)
    PROVE  exec' \in [Workers -> ExecTypes] /\ \A v \in Workers : InHand(exec'[v])
<1>1. [pc |-> how, cached |-> exec[w].cached] \in Leaving
  BY DEF Executing, Leaving
<1> QED
  BY <1>1, LeavingInHand, WorkerType DEF Return, GoOn

\* What keeps the types of the rest.
LEMMA RestType ==
    ASSUME TypeInv, exec' \in [Workers -> ExecTypes], \A v \in Workers : InHand(exec'[v]),
           run' \in RunStatuses, step' \in [Steps -> StepRows],
           UNCHANGED <<job, actionVars, peopleVars, overlap>>
    PROVE  TypeInv'
  BY DEF TypeInv, TypeOK, ExecTypes, actionVars, peopleVars, Actions!LifecycleTypeOK

LEMMA StepFailsType ==
    ASSUME TypeInv, NEW w \in Workers, exec[w].pc \in AtStep, NEW status \in {"FAILED", "BLOCKED"},
           NEW how \in {"fail", "block"}, StepFails(w, status, how)
    PROVE  /\ run' \in RunStatuses /\ step' \in [Steps -> StepRows]
           /\ exec' \in [Workers -> ExecTypes] /\ \A v \in Workers : InHand(exec'[v])
<1>1. exec[w] \in Executing /\ TypeOK
  BY ExecutingType DEF TypeInv, ExecutingAt, AtStep
<1> DEFINE steps == WithStatus(exec[w].steps, exec[w].at, "FAILED")
<1>2. steps \in [Steps -> StepRows]
  BY <1>1, WithStatusType DEF Executing, StepStatuses
<1>3. SetSteps(w, steps) /\ SetRun(w, status) /\ Return(w, how)
  BY DEF StepFails
<1>4. step' \in [Steps -> StepRows]
  BY <1>1, <1>2, <1>3, SetStepsType
<1>5. run' \in RunStatuses
  BY <1>1, <1>3, SetRunType DEF RunStatuses
<1> QED
  BY <1>1, <1>3, <1>4, <1>5, ReturnType

\* A step is looked for.
LEMMA BeginningType ==
    ASSUME TypeInv, NEW w \in Workers, Claim(w) \/ Load(w) \/ Disable(w) \/ Begin(w) \/ NextStep(w) \/ Lost(w)
    PROVE  TypeInv'
<1>0. TypeOK
  BY DEF TypeInv
<1>1. CASE Claim(w)
  <2> DEFINE new == [pc |-> "load", at |-> 1, run |-> run, steps |-> step, cached |-> TRUE,
                     review |-> 0, op |-> 0, seen |-> "NONE"]
  <2>1. new \in Executing
    BY <1>0, PipelineAssumption DEF Executing, TypeOK, Actions!ActionStatuses
  <2>2. InHand(new)
    BY DEF InHand, AtStep, Going, Asking
  <2> HIDE DEF new
  <2>3. exec' \in [Workers -> ExecTypes] /\ \A v \in Workers : InHand(exec'[v])
    <3>1. exec' = [exec EXCEPT ![w] = new]
      BY <1>1 DEF Claim, GoOn, new
    <3> QED
      BY <2>1, <2>2, <3>1, WorkerType DEF ExecTypes
  <2>4. /\ job' \in [status : JobStatuses, attempt : 0..MaxAttempts, worker : Workers \cup {Nobody}]
        /\ job'.status # "QUEUED"
    BY <1>0, <1>1, PipelineAssumption DEF Claim, TypeInv, TypeOK, JobStatuses
  <2> QED
    BY <1>1, <2>3, <2>4 DEF Claim, TypeInv, TypeOK, ExecTypes, actionVars, peopleVars, Actions!LifecycleTypeOK
<1>2. CASE Load(w)
  <2>1. exec[w] \in Executing
    BY <1>0, <1>2, ExecutingType DEF Load, Runs, ExecutingAt
  <2>2. ASSUME NEW pc \in {"begin", "disable"}
        PROVE  [exec[w] EXCEPT !.run = run, !.pc = pc] \in Executing /\ InHand([exec[w] EXCEPT !.run = run, !.pc = pc])
    BY <1>0, <2>1, <2>2 DEF Executing, TypeOK, InHand, AtStep, Going, Asking
  <2>3. exec' \in [Workers -> ExecTypes] /\ \A v \in Workers : InHand(exec'[v])
    <3>1. CASE run = "CANCELLED"
      BY <1>2, <2>1, <3>1, ReturnType DEF Load
    <3>2. CASE run # "CANCELLED"
      <4>1. exec' = [exec EXCEPT ![w] = [exec[w] EXCEPT !.run = run, !.pc = IF enabled THEN "begin" ELSE "disable"]]
        BY <1>2, <3>2 DEF Load, GoOn
      <4> QED
        BY <2>2, <4>1, WorkerType DEF ExecTypes
    <3> QED
      BY <3>1, <3>2
  <2> QED
    BY <1>0, <1>2, <2>3, RestType DEF Load, runVars, TypeOK
<1>3. CASE Disable(w)
  <2>1. exec[w] \in Executing
    BY <1>0, <1>3, ExecutingType DEF Disable, Runs, ExecutingAt
  <2>2. exec' \in [Workers -> ExecTypes] /\ \A v \in Workers : InHand(exec'[v])
    BY <1>3, <2>1, ReturnType DEF Disable
  <2>3. run' \in RunStatuses
    BY <1>0, <1>3, SetRunType DEF Disable, RunStatuses
  <2> QED
    BY <1>0, <1>3, <2>2, <2>3, RestType DEF Disable, TypeOK
<1>4. CASE Begin(w)
  <2> DEFINE new == [exec[w] EXCEPT !.pc = "next", !.run = "RUNNING", !.steps = step]
  <2>1. exec[w] \in Executing
    BY <1>0, <1>4, ExecutingType DEF Begin, Runs, ExecutingAt
  <2>2. new \in Executing /\ InHand(new)
    BY <1>0, <2>1 DEF Executing, TypeOK, InHand, AtStep, Going, Asking, RunStatuses
  <2>3. exec' = [exec EXCEPT ![w] = new]
    BY <1>4 DEF Begin, GoOn
  <2> HIDE DEF new
  <2>4. exec' \in [Workers -> ExecTypes] /\ \A v \in Workers : InHand(exec'[v])
    BY <2>2, <2>3, WorkerType DEF ExecTypes
  <2>5. run' \in RunStatuses
    BY <1>0, <1>4, SetRunType DEF Begin, RunStatuses
  <2> QED
    BY <1>0, <1>4, <2>4, <2>5, RestType DEF Begin, TypeOK
<1>5. CASE NextStep(w)
  <2> DEFINE left_ == {s \in exec[w].at..N : exec[w].steps[s].status # "COMPLETED"}
  <2>1. exec[w] \in Executing
    BY <1>0, <1>5, ExecutingType DEF NextStep, Runs, ExecutingAt, Going
  <2>2. CASE Goto(w, "settle")
    <3>1. InHand([exec[w] EXCEPT !.pc = "settle"])
      BY <2>1 DEF Executing, InHand, AtStep, Going, Asking
    <3> QED
      BY <1>0, <1>5, <2>1, <2>2, <3>1, GotoType, RestType DEF NextStep, runVars, TypeOK, ExecutingAt, Going
  <2>3. CASE GoOn(w, [pc |-> "complete", cached |-> TRUE])
    <3>1. [pc |-> "complete", cached |-> TRUE] \in Leaving
      BY DEF Leaving
    <3>2. exec' \in [Workers -> ExecTypes] /\ \A v \in Workers : InHand(exec'[v])
      BY <2>3, <3>1, LeavingInHand, WorkerType DEF GoOn
    <3> QED
      BY <1>0, <1>5, <3>2, RestType DEF NextStep, runVars, TypeOK
  <2>4. ASSUME NEW s \in left_,
               GoOn(w, [exec[w] EXCEPT !.at = s, !.run = run, !.cached = TRUE,
                                       !.pc = IF s \in Effects THEN "gate" ELSE "start"])
        PROVE  TypeInv'
    <3> DEFINE new == [exec[w] EXCEPT !.at = s, !.run = run, !.cached = TRUE,
                                      !.pc = IF s \in Effects THEN "gate" ELSE "start"]
    <3>1. s \in Steps /\ s \in 1..(N + 1)
      BY <2>1, PipelineAssumption DEF Executing, Steps
    <3>2. new \in Executing /\ InHand(new)
      BY <1>0, <2>1, <3>1 DEF Executing, TypeOK, InHand, AtStep, Going, Asking
    <3>3. exec' = [exec EXCEPT ![w] = new]
      BY <2>4 DEF GoOn
    <3> HIDE DEF new
    <3>4. exec' \in [Workers -> ExecTypes] /\ \A v \in Workers : InHand(exec'[v])
      BY <3>2, <3>3, WorkerType DEF ExecTypes
    <3> QED
      BY <1>0, <1>5, <3>4, RestType DEF NextStep, runVars, TypeOK
  <2> QED
    BY <1>5, <2>2, <2>3, <2>4 DEF NextStep
<1>6. CASE Lost(w)
  <2>1. exec' \in [Workers -> ExecTypes] /\ \A v \in Workers : InHand(exec'[v])
    BY <1>6, LeavingInHand, WorkerType DEF Lost, GoOn
  <2> QED
    BY <1>0, <1>6, <2>1, RestType DEF Lost, TypeOK, RunStatuses
<1> QED
  BY <1>1, <1>2, <1>3, <1>4, <1>5, <1>6

\* An answered question keeps its place.
LEMMA AnsweredReviews ==
    ASSUME TypeOK, NEW s, NEW k, NEW answer \in ReviewStatuses,
           reviews' = [reviews EXCEPT ![s] = [reviews[s] EXCEPT ![k] = answer]]
    PROVE  /\ reviews' \in [Effects -> Seq(ReviewStatuses)]
           /\ \A x \in Effects : Len(reviews'[x]) = Len(reviews[x]) /\ Len(reviews'[x]) <= MaxReviews
<1>1. reviews \in [Effects -> Seq(ReviewStatuses)] /\ \A x \in Effects : Len(reviews[x]) <= MaxReviews
  BY DEF TypeOK
<1>2. CASE s \in Effects
  <2>1. reviews[s] \in Seq(ReviewStatuses)
    BY <1>1, <1>2
  <2> DEFINE new == [reviews[s] EXCEPT ![k] = answer]
  <2>2. new \in Seq(ReviewStatuses) /\ Len(new) = Len(reviews[s])
    <3>1. CASE k \in 1..Len(reviews[s])
      BY <2>1, <3>1, ExceptSeq
    <3>2. CASE k \notin 1..Len(reviews[s])
      <4>1. DOMAIN reviews[s] = 1..Len(reviews[s])
        BY <2>1
      <4>2. new = reviews[s]
        BY <2>1, <3>2, <4>1
      <4> QED
        BY <2>1, <4>2
    <3> QED
      BY <3>1, <3>2
  <2> HIDE DEF new
  <2> QED
    BY <1>1, <1>2, <2>2 DEF new
<1>3. CASE s \notin Effects
  BY <1>1, <1>3
<1> QED
  BY <1>2, <1>3

\* The gate, the denial and the question.
LEMMA AskingType ==
    ASSUME TypeInv, NEW w \in Workers,
           \/ \E funded \in BOOLEAN : Gate(w, funded)
           \/ Deny(w) \/ Denied(w) \/ Await(w) \/ Ask(w) \/ AskedBefore(w) \/ Waits(w)
    PROVE  TypeInv'
<1>0. TypeOK /\ exec[w].pc \in Asking /\ exec[w] \in Executing /\ exec[w].at \in Effects
  <2>1. TypeOK /\ exec[w].pc \in Asking /\ InHand(exec[w])
    BY DEF TypeInv, Gate, Deny, Denied, Await, Ask, AskedBefore, Waits, Runs, Asking
  <2>2. exec[w].pc \in ExecutingAt
    BY <2>1 DEF Asking, ExecutingAt, Going
  <2> QED
    BY <2>1, <2>2, ExecutingType DEF InHand
<1>1. exec[w].at \in Steps /\ N \in Nat
  BY <1>0, PipelineAssumption DEF Steps
<1>2. ASSUME NEW pc \in {"deny", "await", "start", "denied", "ask", "asked"},
             NEW steps \in [Steps -> StepRows], NEW review \in 0..MaxReviews
      PROVE  LET new == [exec[w] EXCEPT !.pc = pc, !.steps = steps, !.review = review]
             IN  new \in Executing /\ InHand(new)
  BY <1>0, <1>1 DEF Executing, InHand, AtStep, Going, Asking
<1>3. exec[w].steps \in [Steps -> StepRows] /\ exec[w].review \in 0..MaxReviews
  BY <1>0 DEF Executing
<1>4. ASSUME NEW status \in StepStatuses
      PROVE  WithStatus(exec[w].steps, exec[w].at, status) \in [Steps -> StepRows]
  BY <1>3, WithStatusType
<1>5. CASE \E funded \in BOOLEAN : Gate(w, funded)
  <2>1. PICK funded \in BOOLEAN : Gate(w, funded)
    BY <1>5
  <2> DEFINE s == exec[w].at
             latest == <<s, LatestOf(s)>>
  <2>2. PICK pc \in {"deny", "await", "start"}, review \in {0, Len(reviews[s])} :
          exec' = [exec EXCEPT ![w] = [exec[w] EXCEPT !.pc = pc, !.review = review]]
    BY <2>1 DEF Gate, GoOn, Outcome
  <2>3. review \in 0..MaxReviews
    BY <1>0, <2>2, PipelineAssumption DEF TypeOK
  <2> DEFINE new == [exec[w] EXCEPT !.pc = pc, !.review = review]
  <2>4. new \in Executing /\ InHand(new)
    <3>1. new \in Executing
      BY <1>0, <2>2, <2>3 DEF Executing
    <3>2. new.at = exec[w].at /\ new.pc = pc
      BY <1>0 DEF Executing
    <3>3. InHand(new)
      BY <1>0, <1>1, <2>2, <3>2 DEF InHand, AtStep, Going, Asking
    <3> QED
      BY <3>1, <3>3
  <2> HIDE DEF new
  <2>5. exec' \in [Workers -> ExecTypes] /\ \A v \in Workers : InHand(exec'[v])
    BY <2>2, <2>4, WorkerType DEF ExecTypes, new
  <2>6. Actions!LifecycleTypeOK'
    <3>1. action' = action \/ action' = [action EXCEPT ![latest] = "UNKNOWN_OUTCOME"]
      BY <2>1 DEF Gate
    <3>2. left' = left
      BY <2>1 DEF Gate
    <3> QED
      BY <1>0, <3>1, <3>2 DEF TypeOK, Actions!LifecycleTypeOK, Actions!ActionStatuses
  <2> QED
    BY <1>0, <2>1, <2>5, <2>6 DEF Gate, TypeInv, TypeOK, ExecTypes, runVars, peopleVars
<1>6. CASE Deny(w)
  <2> DEFINE steps == WithStatus(exec[w].steps, exec[w].at, "DENIED")
             new == [exec[w] EXCEPT !.pc = "denied", !.steps = steps]
  <2>1. steps \in [Steps -> StepRows]
    BY <1>4 DEF StepStatuses
  <2>2. new \in Executing /\ InHand(new)
    BY <1>0, <1>1, <2>1 DEF Executing, InHand, AtStep, Going, Asking
  <2>3. SetSteps(w, steps) /\ exec' = [exec EXCEPT ![w] = new]
    BY <1>6 DEF Deny, GoOn
  <2> HIDE DEF new, steps
  <2>4. exec' \in [Workers -> ExecTypes] /\ \A v \in Workers : InHand(exec'[v])
    BY <2>2, <2>3, WorkerType DEF ExecTypes
  <2>5. step' \in [Steps -> StepRows]
    BY <1>0, <2>1, <2>3, SetStepsType
  <2> QED
    BY <1>0, <1>6, <2>4, <2>5, RestType DEF Deny, TypeOK
<1>7. CASE Denied(w)
  <2> DEFINE new == [exec[w] EXCEPT !.pc = "next", !.at = @ + 1]
  <2>1. new \in Executing /\ InHand(new)
    <3>1. exec[w].at + 1 \in 1..(N + 1)
      BY <1>1 DEF Steps
    <3>2. new \in Executing
      BY <1>0, <3>1 DEF Executing
    <3>3. new.pc = "next"
      BY <1>0 DEF Executing
    <3> QED
      BY <3>2, <3>3 DEF InHand, AtStep, Going, Asking
  <2> HIDE DEF new
  <2>2. /\ run' \in RunStatuses
        /\ exec' \in [Workers -> ExecTypes] /\ \A v \in Workers : InHand(exec'[v])
    <3>1. CASE LatestStatus(exec[w].at) = "UNKNOWN_OUTCOME"
      BY <1>0, <1>7, <3>1, SetRunType, ReturnType DEF Denied, RunStatuses
    <3>2. CASE LatestStatus(exec[w].at) # "UNKNOWN_OUTCOME"
      <4>1. run' = run /\ exec' = [exec EXCEPT ![w] = new]
        BY <1>7, <3>2 DEF Denied, GoOn, new
      <4> QED
        BY <1>0, <2>1, <4>1, WorkerType DEF ExecTypes, TypeOK
    <3> QED
      BY <3>1, <3>2
  <2> QED
    BY <1>0, <1>7, <2>2, RestType DEF Denied, TypeOK
<1>8. CASE Await(w)
  <2> DEFINE steps == WithStatus(exec[w].steps, exec[w].at, "WAITING_APPROVAL")
             new == [exec[w] EXCEPT !.pc = "ask", !.steps = steps]
  <2>1. steps \in [Steps -> StepRows]
    BY <1>4 DEF StepStatuses
  <2>2. new \in Executing /\ InHand(new)
    BY <1>0, <1>1, <2>1 DEF Executing, InHand, AtStep, Going, Asking
  <2>3. SetSteps(w, steps) /\ exec' = [exec EXCEPT ![w] = new]
    BY <1>8 DEF Await, GoOn
  <2> HIDE DEF new, steps
  <2>4. exec' \in [Workers -> ExecTypes] /\ \A v \in Workers : InHand(exec'[v])
    BY <2>2, <2>3, WorkerType DEF ExecTypes
  <2>5. step' \in [Steps -> StepRows]
    BY <1>0, <2>1, <2>3, SetStepsType
  <2> QED
    BY <1>0, <1>8, <2>4, <2>5, RestType DEF Await, TypeOK
<1>9. CASE Ask(w)
  <2> DEFINE s == exec[w].at
  <2>1. exec' \in [Workers -> ExecTypes] /\ \A v \in Workers : InHand(exec'[v])
    BY <1>0, <1>9, ReturnType DEF Ask
  <2>2. run' \in RunStatuses
    BY <1>0, <1>9, SetRunType DEF Ask, RunStatuses
  <2>3. /\ reviews' \in [Effects -> Seq(ReviewStatuses)]
        /\ \A x \in Effects : Len(reviews'[x]) <= MaxReviews
    <3>1. reviews \in [Effects -> Seq(ReviewStatuses)] /\ \A x \in Effects : Len(reviews[x]) <= MaxReviews
      BY <1>0 DEF TypeOK
    <3>2. reviews' = [reviews EXCEPT ![s] = Append(reviews[s], "PENDING")] /\ Len(reviews[s]) < MaxReviews
      BY <1>9 DEF Ask
    <3>3. /\ Append(reviews[s], "PENDING") \in Seq(ReviewStatuses)
          /\ Len(Append(reviews[s], "PENDING")) = Len(reviews[s]) + 1 /\ Len(reviews[s]) \in Nat
      BY <1>0, <3>1 DEF ReviewStatuses
    <3>4. Len(Append(reviews[s], "PENDING")) <= MaxReviews
      BY <3>2, <3>3, PipelineAssumption
    <3> QED
      BY <1>0, <3>1, <3>2, <3>3, <3>4
  <2>4. postHoc' \in [asked : {"NONE", "PENDING", "RESOLVED"}, needed : BOOLEAN]
    BY <1>0, <1>9 DEF Ask, TypeOK
  <2> QED
    BY <1>0, <1>9, <2>1, <2>2, <2>3, <2>4 DEF Ask, TypeInv, TypeOK, ExecTypes, actionVars, Actions!LifecycleTypeOK
<1>10. CASE AskedBefore(w)
  <2>1. InHand([exec[w] EXCEPT !.pc = "asked"])
    BY <1>0, <1>1 DEF Executing, InHand, AtStep, Going, Asking
  <2>2. exec' \in [Workers -> ExecTypes] /\ \A v \in Workers : InHand(exec'[v])
    BY <1>0, <1>10, <2>1, GotoType DEF AskedBefore, ExecutingAt, Going
  <2> QED
    BY <1>0, <1>10, <2>2, RestType DEF AskedBefore, runVars, TypeOK
<1>11. CASE Waits(w)
  <2>1. exec' \in [Workers -> ExecTypes] /\ \A v \in Workers : InHand(exec'[v])
    BY <1>0, <1>11, ReturnType DEF Waits
  <2>2. run' \in RunStatuses
    BY <1>0, <1>11, SetRunType DEF Waits, RunStatuses
  <2>3. postHoc' \in [asked : {"NONE", "PENDING", "RESOLVED"}, needed : BOOLEAN]
    BY <1>0, <1>11 DEF Waits, TypeOK
  <2> QED
    BY <1>0, <1>11, <2>1, <2>2, <2>3 DEF Waits, TypeInv, TypeOK, ExecTypes, actionVars, Actions!LifecycleTypeOK
<1> QED
  BY <1>5, <1>6, <1>7, <1>8, <1>9, <1>10, <1>11

\* The start of a step.
LEMMA StartingType ==
    ASSUME TypeInv, NEW w \in Workers, Start(w) \/ StartRefused(w) \/ BudgetExhausted(w)
    PROVE  TypeInv'
<1>0. TypeOK /\ exec[w].pc = "start" /\ exec[w] \in Executing /\ exec[w].at \in Steps
  <2>1. TypeOK /\ exec[w].pc = "start" /\ InHand(exec[w])
    BY DEF TypeInv, Start, StartRefused, BudgetExhausted, Runs
  <2> QED
    BY <2>1, ExecutingType DEF InHand, ExecutingAt, AtStep, Going
<1>1. N \in Nat /\ MaxReviews \in Nat \ {0} /\ MaxSequence \in Nat \ {0}
  BY PipelineAssumption
<1>2. CASE Start(w)
  <2> DEFINE s == exec[w].at
             steps == WithStatus(exec[w].steps, s, "RUNNING")
             owned == OwnsTheSite(s)
             n == IF owned THEN LatestOf(s) ELSE LatestOf(s) + 1
             atEffect == [exec[w] EXCEPT !.pc = "call", !.steps = steps, !.review = 0, !.op = n,
                                         !.seen = IF owned THEN LatestStatus(s) ELSE "PENDING"]
             atWork == [exec[w] EXCEPT !.pc = "work", !.steps = steps]
  <2>1. steps \in [Steps -> StepRows]
    BY <1>0, WithStatusType DEF Executing, StepStatuses
  <2>2. step' \in [Steps -> StepRows]
    BY <1>0, <1>2, <2>1, SetStepsType DEF Start
  <2>3. /\ reviews' \in [Effects -> Seq(ReviewStatuses)]
        /\ \A x \in Effects : Len(reviews'[x]) <= MaxReviews
    <3>1. CASE exec[w].review = 0
      BY <1>0, <1>2, <3>1 DEF Start, TypeOK
    <3>2. CASE exec[w].review # 0
      <4>1. reviews' = [reviews EXCEPT ![s] = [reviews[s] EXCEPT ![exec[w].review] = "CONSUMED"]]
        BY <1>2, <3>2 DEF Start
      <4> QED
        BY <1>0, <4>1, AnsweredReviews DEF ReviewStatuses
    <3> QED
      BY <3>1, <3>2
  <2>4. /\ Actions!LifecycleTypeOK'
        /\ exec' \in [Workers -> ExecTypes] /\ \A v \in Workers : InHand(exec'[v])
    <3>1. CASE s \in Effects
      <4>1. LatestOf(s) \in 0..MaxSequence /\ LatestStatus(s) \in Actions!ActionStatuses
        BY <1>0, <3>1, LatestType
      <4>2. n \in 1..MaxSequence
        <5>1. owned => LatestOf(s) # 0
          BY DEF OwnsTheSite, LatestStatus, Unrecorded
        <5>2. n <= MaxSequence
          BY <1>2, <3>1 DEF Start
        <5> QED
          BY <1>1, <4>1, <5>1, <5>2
      <4>3. atEffect \in Executing /\ InHand(atEffect)
        <5> DEFINE seen == IF owned THEN LatestStatus(s) ELSE "PENDING"
        <5>1. seen \in Actions!ActionStatuses /\ 0 \in 0..MaxReviews /\ n \in 0..MaxSequence
          BY <1>1, <4>1, <4>2 DEF Actions!ActionStatuses
        <5> HIDE DEF n, steps, seen
        <5>2. atEffect \in Executing
          BY <1>0, <2>1, <5>1 DEF Executing, seen
        <5>3. atEffect.pc = "call" /\ atEffect.at = s /\ atEffect.op = n
          BY <1>0 DEF Executing
        <5>4. InHand(atEffect)
          BY <1>0, <3>1, <4>2, <5>3 DEF InHand, AtStep, Going, Asking
        <5> QED
          BY <5>2, <5>4
      <4>4. exec' = [exec EXCEPT ![w] = atEffect]
        BY <1>2, <3>1 DEF Start, GoOn
      <4>5. Actions!LifecycleTypeOK'
        BY <1>0, <1>2, <3>1 DEF Start, TypeOK, Actions!LifecycleTypeOK, Actions!OpenAction, Actions!ActionStatuses
      <4> HIDE DEF atEffect
      <4> QED
        BY <4>3, <4>4, <4>5, WorkerType DEF ExecTypes
    <3>2. CASE s \notin Effects
      <4>1. atWork \in Executing /\ InHand(atWork)
        BY <1>0, <2>1, <3>2 DEF Executing, InHand, AtStep, Going, Asking
      <4>2. exec' = [exec EXCEPT ![w] = atWork] /\ UNCHANGED <<action, left>>
        BY <1>2, <3>2 DEF Start, GoOn
      <4> HIDE DEF atWork
      <4>3. exec' \in [Workers -> ExecTypes] /\ \A v \in Workers : InHand(exec'[v])
        BY <4>1, <4>2, WorkerType DEF ExecTypes
      <4> QED
        BY <1>0, <4>2, <4>3 DEF TypeOK, Actions!LifecycleTypeOK
    <3> QED
      BY <3>1, <3>2
  <2> QED
    BY <1>0, <1>2, <2>2, <2>3, <2>4 DEF Start, TypeInv, TypeOK, ExecTypes
<1>3. CASE StartRefused(w)
  <2>1. [pc |-> "fail", cached |-> FALSE] \in Leaving
    BY DEF Leaving
  <2>2. exec' \in [Workers -> ExecTypes] /\ \A v \in Workers : InHand(exec'[v])
    BY <1>3, <2>1, LeavingInHand, WorkerType DEF StartRefused, GoOn
  <2> QED
    BY <1>0, <1>3, <2>2, RestType DEF StartRefused, runVars, TypeOK
<1>4. CASE BudgetExhausted(w)
  <2> DEFINE s == exec[w].at
             new == [RolledBack(w) EXCEPT !.pc = "next", !.at = s + 1, !.review = 0,
                                          !.steps = WithStatus(step, s, "DENIED")]
  <2>1. WithStatus(step, s, "DENIED") \in [Steps -> StepRows]
    BY <1>0, WithStatusType DEF TypeOK, StepStatuses
  <2>2. new \in Executing /\ InHand(new)
    <3>1. RolledBack(w) \in Executing
      BY <1>0 DEF RolledBack, Executing, TypeOK
    <3>2. s + 1 \in 1..(N + 1)
      BY <1>0, <1>1 DEF Steps
    <3>3. 0 \in 0..MaxReviews
      BY <1>1
    <3>4. new \in Executing
      BY <2>1, <3>1, <3>2, <3>3 DEF Executing
    <3>5. new.pc = "next"
      BY <3>1 DEF Executing
    <3> QED
      BY <3>4, <3>5 DEF InHand, AtStep, Going, Asking
  <2>3. exec' = [exec EXCEPT ![w] = new]
    BY <1>4 DEF BudgetExhausted, GoOn
  <2> HIDE DEF new
  <2>4. exec' \in [Workers -> ExecTypes] /\ \A v \in Workers : InHand(exec'[v])
    BY <2>2, <2>3, WorkerType DEF ExecTypes
  <2>5. step' \in [Steps -> StepRows]
    <3>1. step' = WithStatus(step, s, "DENIED")
      BY <1>4 DEF BudgetExhausted, WithStatus
    <3> QED
      BY <2>1, <3>1
  <2> QED
    BY <1>0, <1>4, <2>4, <2>5, RestType DEF BudgetExhausted, TypeOK
<1> QED
  BY <1>2, <1>3, <1>4

\* A step of the life cycle keeps its types.
LEMMA LifecycleType ==
    ASSUME TypeOK, NEW o \in Operations,
           \/ Actions!BeginCall(o) \/ Actions!Succeeds(o) \/ Actions!Fails(o) \/ Actions!IsLost(o)
    PROVE  Actions!LifecycleTypeOK'
  BY DEF TypeOK, Actions!LifecycleTypeOK, Actions!ActionStatuses, Actions!BeginCall, Actions!Succeeds,
         Actions!Fails, Actions!IsLost

LEMMA WorksType ==
    ASSUME TypeInv, NEW w \in Workers, Works(w)
    PROVE  TypeInv'
<1>0. TypeOK /\ InHand(exec[w])
  BY DEF TypeInv
<1>1. exec[w].pc \in AtStep /\ exec[w] \in Executing /\ exec[w].at \in Steps
  <2>1. exec[w].pc \in {"call", "answer", "work"}
    BY DEF Works, AlreadyDone, Call, CallDisabled, CallRefused, Answered, NotAnswered, AnswerRefused, Work,
           WorkFails, WorkHalts, Runs
  <2> QED
    BY <1>0, <2>1, ExecutingType DEF InHand, AtStep, Going, ExecutingAt
<1>2. exec[w].pc \in {"call", "answer"} => <<exec[w].at, exec[w].op>> \in Operations
  BY <1>0 DEF InHand, Operations
<1>3. ASSUME NEW status \in {"FAILED", "BLOCKED"}, NEW how \in {"fail", "block"}, StepFails(w, status, how),
             UNCHANGED <<job, applied, peopleVars, overlap>>, Actions!LifecycleTypeOK'
      PROVE  TypeInv'
  <2>1. /\ run' \in RunStatuses /\ step' \in [Steps -> StepRows]
        /\ exec' \in [Workers -> ExecTypes] /\ \A v \in Workers : InHand(exec'[v])
    BY <1>1, <1>3, StepFailsType
  <2> QED
    BY <1>0, <1>3, <2>1 DEF TypeInv, TypeOK, ExecTypes, peopleVars
<1>4. ASSUME UNCHANGED <<action, left>> PROVE Actions!LifecycleTypeOK'
  BY <1>0, <1>4 DEF TypeOK, Actions!LifecycleTypeOK
<1>5. ASSUME NEW pc \in {"work", "answer"}, Goto(w, pc), exec[w].pc \in {"call", "answer"}
      PROVE  exec' \in [Workers -> ExecTypes] /\ \A v \in Workers : InHand(exec'[v])
  <2>1. InHand([exec[w] EXCEPT !.pc = pc])
    BY <1>0, <1>1, <1>5 DEF Executing, InHand, AtStep, Going, Asking
  <2> QED
    BY <1>1, <1>5, <2>1, GotoType DEF ExecutingAt, Going
<1>6. CASE AlreadyDone(w)
  BY <1>0, <1>5, <1>6, RestType DEF AlreadyDone, Runs, runVars, TypeOK
<1>7. CASE Call(w)
  <2>1. Actions!LifecycleTypeOK'
    BY <1>0, <1>2, <1>7, LifecycleType DEF Call, Runs
  <2>2. exec' \in [Workers -> ExecTypes] /\ \A v \in Workers : InHand(exec'[v])
    BY <1>5, <1>7 DEF Call, Runs
  <2> QED
    BY <1>0, <1>7, <2>1, <2>2 DEF Call, TypeInv, TypeOK, ExecTypes, runVars, peopleVars
<1>8. CASE CallDisabled(w)
  <2> DEFINE steps == [exec[w].steps EXCEPT ![exec[w].at] = Fresh]
  <2>1. steps \in [Steps -> StepRows]
    BY <1>1 DEF Executing, Fresh, StepRows, StepStatuses, Recommendations
  <2>2. SetSteps(w, steps) /\ SetRun(w, "BLOCKED") /\ Return(w, "block")
    BY <1>8 DEF CallDisabled
  <2> HIDE DEF steps
  <2>3. run' \in RunStatuses /\ step' \in [Steps -> StepRows]
    BY <1>0, <1>1, <2>1, <2>2, SetStepsType, SetRunType DEF RunStatuses
  <2>4. exec' \in [Workers -> ExecTypes] /\ \A v \in Workers : InHand(exec'[v])
    BY <1>1, <2>2, ReturnType
  <2> QED
    BY <1>8, <2>3, <2>4, RestType DEF CallDisabled
<1>9. CASE CallRefused(w) \/ AnswerRefused(w) \/ WorkFails(w)
  BY <1>3, <1>4, <1>9 DEF CallRefused, AnswerRefused, WorkFails, actionVars
<1>10. CASE Answered(w)
  <2> DEFINE o == <<exec[w].at, exec[w].op>>
  <2>1. o \in Operations
    BY <1>2, <1>10 DEF Answered, Runs
  <2>2. CASE Actions!Succeeds(o) /\ Goto(w, "work") /\ UNCHANGED <<run, step>>
    <3>1. Actions!LifecycleTypeOK'
      BY <1>0, <2>1, <2>2, LifecycleType
    <3>2. exec' \in [Workers -> ExecTypes] /\ \A v \in Workers : InHand(exec'[v])
      BY <1>5, <1>10, <2>2 DEF Answered, Runs
    <3> QED
      BY <1>0, <1>10, <2>2, <3>1, <3>2 DEF Answered, TypeInv, TypeOK, ExecTypes, peopleVars
  <2>3. CASE Actions!Fails(o) /\ StepFails(w, "FAILED", "fail")
    <3>1. Actions!LifecycleTypeOK'
      BY <1>0, <2>1, <2>3, LifecycleType
    <3> QED
      BY <1>3, <1>10, <2>3, <3>1 DEF Answered
  <2> QED
    BY <1>10, <2>2, <2>3 DEF Answered
<1>11. CASE NotAnswered(w)
  <2>1. Actions!LifecycleTypeOK'
    BY <1>0, <1>2, <1>11, LifecycleType DEF NotAnswered, Runs
  <2> QED
    BY <1>3, <1>11, <2>1 DEF NotAnswered
<1>12. ASSUME NEW advice \in Recommendations, Work(w, advice) PROVE TypeInv'
  <2> DEFINE s == exec[w].at
             steps == [exec[w].steps EXCEPT ![s] = [status |-> "COMPLETED", advice |-> advice]]
             new == [exec[w] EXCEPT !.pc = "next", !.at = s + 1, !.steps = steps, !.op = 0, !.seen = "NONE"]
  <2>1. steps \in [Steps -> StepRows]
    BY <1>1 DEF Executing, StepRows, StepStatuses
  <2>2. SetSteps(w, steps) /\ exec' = [exec EXCEPT ![w] = new]
    BY <1>12 DEF Work, GoOn
  <2>3. applied' \subseteq Operations
    <3>1. s \in Effects => <<s, exec[w].op>> \in Operations
      BY <1>0, <1>12 DEF Work, Runs, InHand, Operations
    <3> QED
      BY <1>0, <1>12, <3>1 DEF Work, TypeOK
  <2>4. s + 1 \in 1..(N + 1) /\ 0 \in 0..MaxSequence /\ "NONE" \in Actions!ActionStatuses
    BY <1>1, PipelineAssumption DEF Steps, Actions!ActionStatuses
  <2> HIDE DEF steps
  <2>5. new \in Executing
    BY <1>1, <2>1, <2>4 DEF Executing
  <2>6. new.pc = "next"
    BY <1>1 DEF Executing
  <2>7. InHand(new)
    BY <2>6 DEF InHand, AtStep, Going, Asking
  <2> HIDE DEF new
  <2>8. exec' \in [Workers -> ExecTypes] /\ \A v \in Workers : InHand(exec'[v])
    BY <2>2, <2>5, <2>7, WorkerType DEF ExecTypes
  <2>9. step' \in [Steps -> StepRows]
    BY <1>0, <1>1, <2>1, <2>2, SetStepsType
  <2> QED
    BY <1>0, <1>12, <2>3, <2>8, <2>9 DEF Work, TypeInv, TypeOK, ExecTypes, peopleVars, Actions!LifecycleTypeOK
<1>13. CASE WorkHalts(w)
  <2> DEFINE s == exec[w].at
             steps == [x \in Steps |->
                         IF x = s THEN [exec[w].steps[x] EXCEPT !.status = "FAILED"]
                         ELSE IF x > s /\ exec[w].steps[x].status = "PENDING"
                         THEN [exec[w].steps[x] EXCEPT !.status = "SKIPPED"] ELSE exec[w].steps[x]]
             new == [exec[w] EXCEPT !.pc = "halt", !.steps = steps]
  <2>1. steps \in [Steps -> StepRows]
    BY <1>1 DEF Executing, StepRows, StepStatuses
  <2>2. SetSteps(w, steps) /\ exec' = [exec EXCEPT ![w] = new]
    BY <1>13 DEF WorkHalts, GoOn
  <2> HIDE DEF steps
  <2>3. new \in Executing
    BY <1>1, <2>1 DEF Executing
  <2>4. new.pc = "halt" /\ new.at = s
    BY <1>1 DEF Executing
  <2>5. InHand(new)
    BY <1>1, <2>4 DEF InHand, AtStep, Going, Asking
  <2> HIDE DEF new
  <2>6. exec' \in [Workers -> ExecTypes] /\ \A v \in Workers : InHand(exec'[v])
    BY <2>2, <2>3, <2>5, WorkerType DEF ExecTypes
  <2>7. step' \in [Steps -> StepRows]
    BY <1>0, <1>1, <2>1, <2>2, SetStepsType
  <2> QED
    BY <1>0, <1>13, <2>6, <2>7, RestType DEF WorkHalts, TypeOK
<1> QED
  BY <1>6, <1>7, <1>8, <1>9, <1>10, <1>11, <1>12, <1>13 DEF Works

LEMMA LeavesType ==
    ASSUME TypeInv, NEW w \in Workers, Leaves(w)
    PROVE  TypeInv'
<1>0. TypeOK
  BY DEF TypeInv
<1>1. GoOn(w, Idle) => exec' \in [Workers -> ExecTypes] /\ \A v \in Workers : InHand(exec'[v])
  BY LeavingInHand, WorkerType DEF GoOn
<1>2. CASE Settle(w)
  <2>1. exec[w] \in Executing
    BY <1>0, <1>2, ExecutingType DEF Settle, ExecutingAt, Going
  <2>2. exec' \in [Workers -> ExecTypes] /\ \A v \in Workers : InHand(exec'[v])
    BY <1>2, <2>1, ReturnType DEF Settle
  <2>3. run' \in RunStatuses
    BY <1>0, <1>2, SetRunType DEF Settle, RunStatuses
  <2>4. postHoc' \in [asked : {"NONE", "PENDING", "RESOLVED"}, needed : BOOLEAN]
    <3>1. PICK asked \in {"PENDING", postHoc.asked}, needed \in BOOLEAN :
            postHoc' = [asked |-> asked, needed |-> needed]
      BY <1>2 DEF Settle, NeedsReview
    <3> QED
      BY <1>0, <3>1 DEF TypeOK
  <2> QED
    BY <1>0, <1>2, <2>2, <2>3, <2>4 DEF Settle, TypeInv, TypeOK, ExecTypes, actionVars, Actions!LifecycleTypeOK
<1>3. ASSUME NEW status \in {"COMPLETED", "BLOCKED", "WAITING_APPROVAL"}, NEW pc, Leave(w, pc, status)
      PROVE  TypeInv'
  <2>1. /\ job' \in [status : JobStatuses, attempt : 0..MaxAttempts, worker : Workers \cup {Nobody}]
        /\ job'.status = "QUEUED" => job' = job
    BY <1>0, <1>3 DEF Leave, TypeOK, JobStatuses
  <2> QED
    BY <1>0, <1>1, <1>3, <2>1 DEF Leave, TypeInv, TypeOK, ExecTypes, actionVars, peopleVars, Actions!LifecycleTypeOK
<1>4. CASE Fail(w)
  <2>1. /\ job' \in [status : JobStatuses, attempt : 0..MaxAttempts, worker : Workers \cup {Nobody}]
        /\ job'.status = "QUEUED" => job'.attempt < MaxAttempts
    BY <1>0, <1>4 DEF Fail, Again, TypeInv, TypeOK, JobStatuses
  <2> QED
    BY <1>0, <1>1, <1>4, <2>1 DEF Fail, TypeInv, TypeOK, ExecTypes, actionVars, peopleVars, Actions!LifecycleTypeOK
<1>5. CASE Die(w)
  BY <1>0, <1>1, <1>5, RestType DEF Die, runVars, TypeOK
<1> QED
  BY <1>2, <1>3, <1>4, <1>5 DEF Leaves

\* A job that is queued again has attempts left.
LEMMA QueueType ==
    ASSUME TypeInv, NEW attempt \in 0..MaxAttempts, attempt < MaxAttempts, QueueJob(attempt)
    PROVE  /\ job' \in [status : JobStatuses, attempt : 0..MaxAttempts, worker : Workers \cup {Nobody}]
           /\ job'.status = "QUEUED" => job'.attempt < MaxAttempts
           /\ overlap' \in BOOLEAN
  BY DEF QueueJob, TypeInv, TypeOK, JobStatuses

LEMMA ResumeType ==
    ASSUME TypeInv, NEW first \in Steps, ResumeFrom(first)
    PROVE  /\ job' \in [status : JobStatuses, attempt : 0..MaxAttempts, worker : Workers \cup {Nobody}]
           /\ job'.status = "QUEUED" => job'.attempt < MaxAttempts
           /\ overlap' \in BOOLEAN
           /\ run' \in RunStatuses /\ step' \in [Steps -> StepRows]
<1>1. 0 \in 0..MaxAttempts /\ 0 < MaxAttempts
  BY PipelineAssumption
<1>2. QueueJob(0)
  BY DEF ResumeFrom
<1>3. Fresh \in StepRows
  BY DEF Fresh, StepRows, StepStatuses, Recommendations
<1>4. run' \in RunStatuses /\ step' \in [Steps -> StepRows]
  BY <1>3 DEF ResumeFrom, TypeInv, TypeOK, RunStatuses
<1> QED
  BY <1>1, <1>2, <1>4, QueueType

LEMMA OutsideType ==
    ASSUME TypeInv, Reap \/ (\E o \in Operations : Reconcile(o)) \/ People
    PROVE  TypeInv'
<1>0. TypeOK
  BY DEF TypeInv
<1>1. 0 \in 0..MaxAttempts /\ 0 < MaxAttempts /\ MaxAttempts \in Nat /\ MaxRequests \in Nat
  BY PipelineAssumption
<1>2. CASE Reap
  <2>1. /\ job' \in [status : JobStatuses, attempt : 0..MaxAttempts, worker : Workers \cup {Nobody}]
        /\ job'.status = "QUEUED" => job'.attempt < MaxAttempts
        /\ overlap' \in BOOLEAN
    <3>1. CASE job.attempt < MaxAttempts
      <4>1. QueueJob(job.attempt)
        BY <1>2, <3>1 DEF Reap
      <4> QED
        BY <1>0, <3>1, <4>1, QueueType DEF TypeOK
    <3>2. CASE ~(job.attempt < MaxAttempts)
      BY <1>0, <1>2, <3>2 DEF Reap, TypeOK, JobStatuses
    <3> QED
      BY <3>1, <3>2
  <2> QED
    BY <1>0, <1>2, <2>1 DEF Reap, TypeInv, TypeOK, actionVars, peopleVars, Actions!LifecycleTypeOK
<1>3. ASSUME NEW o \in Operations, Reconcile(o) PROVE TypeInv'
  <2>1. Actions!LifecycleTypeOK'
    BY <1>0, <1>3, LifecycleType DEF Reconcile
  <2> QED
    BY <1>0, <1>3, <2>1 DEF Reconcile, TypeInv, TypeOK, runVars, peopleVars
<1>4. CASE enqueue_or_replay
  <2>1. /\ job' \in [status : JobStatuses, attempt : 0..MaxAttempts, worker : Workers \cup {Nobody}]
        /\ job'.status = "QUEUED" => job'.attempt < MaxAttempts
        /\ overlap' \in BOOLEAN
    BY <1>1, <1>4, QueueType DEF enqueue_or_replay
  <2> QED
    BY <1>0, <1>4, <2>1 DEF enqueue_or_replay, TypeInv, TypeOK, actionVars, peopleVars, Actions!LifecycleTypeOK, RunStatuses
<1>5. CASE resume_run
  <2>1. PICK first \in Steps : ResumeFrom(first)
    BY <1>5 DEF resume_run, Resume
  <2>2. /\ job' \in [status : JobStatuses, attempt : 0..MaxAttempts, worker : Workers \cup {Nobody}]
        /\ job'.status = "QUEUED" => job'.attempt < MaxAttempts
        /\ overlap' \in BOOLEAN
        /\ run' \in RunStatuses /\ step' \in [Steps -> StepRows]
    BY <2>1, ResumeType
  <2>3. requests' \in 0..MaxRequests
    BY <1>0, <1>1, <1>5 DEF resume_run, TypeOK
  <2> QED
    BY <1>0, <1>5, <2>2, <2>3 DEF resume_run, TypeInv, TypeOK, actionVars, Actions!LifecycleTypeOK
<1>6. CASE cancel_run
  <2>1. job' \in [status : JobStatuses, attempt : 0..MaxAttempts, worker : Workers \cup {Nobody}]
        /\ job'.status # "QUEUED"
    BY <1>0, <1>6 DEF cancel_run, TypeOK, JobStatuses
  <2>2. requests' \in 0..MaxRequests
    BY <1>0, <1>1, <1>6 DEF cancel_run, TypeOK
  <2> QED
    BY <1>0, <1>6, <2>1, <2>2 DEF cancel_run, TypeInv, TypeOK, actionVars, Actions!LifecycleTypeOK, RunStatuses
<1>7. CASE AnswerPostHoc
  BY <1>0, <1>7 DEF AnswerPostHoc, TypeInv, TypeOK, runVars, actionVars, Actions!LifecycleTypeOK
<1>8. ASSUME NEW s \in Effects, NEW k \in 1..MaxReviews, NEW answer \in {"APPROVED", "REJECTED"},
             AnswerReview(s, k, answer)
      PROVE  TypeInv'
  <2>1. /\ reviews' \in [Effects -> Seq(ReviewStatuses)]
        /\ \A x \in Effects : Len(reviews'[x]) <= MaxReviews
    <3>1. reviews' = [reviews EXCEPT ![s] = [reviews[s] EXCEPT ![k] = answer]]
      BY <1>8 DEF AnswerReview
    <3> QED
      BY <1>0, <3>1, AnsweredReviews DEF ReviewStatuses
  <2>2. /\ job' \in [status : JobStatuses, attempt : 0..MaxAttempts, worker : Workers \cup {Nobody}]
        /\ job'.status = "QUEUED" => job'.attempt < MaxAttempts
        /\ overlap' \in BOOLEAN
        /\ run' \in RunStatuses /\ step' \in [Steps -> StepRows]
    <3>1. CASE run = "WAITING_APPROVAL"
      <4>1. PICK first \in Steps : ResumeFrom(first)
        BY <1>8, <3>1 DEF AnswerReview, Resume
      <4> QED
        BY <4>1, ResumeType
    <3>2. CASE run # "WAITING_APPROVAL"
      BY <1>0, <1>8, <3>2 DEF AnswerReview, runVars, TypeInv, TypeOK
    <3> QED
      BY <3>1, <3>2
  <2> QED
    BY <1>0, <1>8, <2>1, <2>2 DEF AnswerReview, TypeInv, TypeOK, actionVars, Actions!LifecycleTypeOK
<1>9. ASSUME NEW b \in BOOLEAN, SwitchTo(b) PROVE TypeInv'
  <2>1. requests' \in 0..MaxRequests
    BY <1>0, <1>1, <1>9 DEF SwitchTo, TypeOK
  <2> QED
    BY <1>0, <1>9, <2>1 DEF SwitchTo, TypeInv, TypeOK, runVars, actionVars, Actions!LifecycleTypeOK
<1> QED
  BY <1>2, <1>3, <1>4, <1>5, <1>6, <1>7, <1>8, <1>9 DEF People

LEMMA TypeInit ==
    ASSUME Init
    PROVE  TypeInv
<1>1. run \in RunStatuses /\ step \in [Steps -> StepRows] /\ enabled \in BOOLEAN /\ overlap \in BOOLEAN
  BY DEF Init, RunStatuses, Fresh, StepRows, StepStatuses, Recommendations
<1>2. /\ job \in [status : JobStatuses, attempt : 0..MaxAttempts, worker : Workers \cup {Nobody}]
      /\ job.status # "QUEUED" /\ requests \in 0..MaxRequests
  BY PipelineAssumption DEF Init, JobStatuses
<1>3. Actions!LifecycleTypeOK /\ applied \subseteq Operations
  BY DEF Init, Actions!LifecycleInit, Actions!LifecycleTypeOK, Actions!ActionStatuses
<1>4. reviews \in [Effects -> Seq(ReviewStatuses)] /\ \A s \in Effects : Len(reviews[s]) <= MaxReviews
  BY PipelineAssumption DEF Init
<1>5. postHoc \in [asked : {"NONE", "PENDING", "RESOLVED"}, needed : BOOLEAN]
  BY DEF Init
<1>6. exec \in [Workers -> Executing \cup Leaving \cup {Idle}] /\ \A w \in Workers : InHand(exec[w])
  BY DEF Init, Idle, InHand, AtStep, Going, Asking
<1> QED
  BY <1>1, <1>2, <1>3, <1>4, <1>5, <1>6 DEF TypeInv, TypeOK

LEMMA TypeStep ==
    ASSUME TypeInv, [Next]_vars
    PROVE  TypeInv'
<1>1. ASSUME NEW w \in Workers, Advances(w) \/ Works(w) \/ Leaves(w) PROVE TypeInv'
  BY <1>1, BeginningType, AskingType, StartingType, WorksType, LeavesType DEF Advances
<1>2. ASSUME Reap \/ (\E o \in Operations : Reconcile(o)) \/ People PROVE TypeInv'
  BY <1>2, OutsideType
<1>3. ASSUME UNCHANGED vars PROVE TypeInv'
  BY <1>3 DEF vars, TypeInv, TypeOK, runVars, actionVars, peopleVars, Actions!LifecycleTypeOK
<1> QED
  BY <1>1, <1>2, <1>3 DEF Next

-----------------------------------------------------------------------------
(* Who executes the run *)

WorkerSteps(w) == Advances(w) \/ Works(w) \/ Leaves(w)

\* What a worker's step leaves alone: the others, and whether the run has one
\* executor; only a claim begins with nobody at the run.
LEMMA AdvancesFrame ==
    ASSUME NEW w \in Workers, Advances(w)
    PROVE  /\ \E new : exec' = [exec EXCEPT ![w] = new]
           /\ overlap' = overlap /\ applied' = applied
           /\ (Active(w) /\ job' = job) \/ Claim(w)
<1>1. CASE Claim(w) \/ Load(w) \/ Disable(w) \/ Begin(w)
  BY <1>1 DEF Claim, Load, Disable, Begin, Return, GoOn, Runs, runVars, actionVars, Active
<1>2. CASE NextStep(w) \/ Lost(w)
  BY <1>2 DEF NextStep, Lost, Goto, GoOn, Runs, runVars, actionVars, Active
<1>3. CASE \E funded \in BOOLEAN : Gate(w, funded)
  BY <1>3 DEF Gate, GoOn, Runs, runVars, Active
<1>4. CASE Deny(w) \/ Denied(w) \/ Await(w) \/ Ask(w) \/ AskedBefore(w) \/ Waits(w)
  BY <1>4 DEF Deny, Denied, Await, Ask, AskedBefore, Waits, Goto, Return, GoOn, Runs, runVars, actionVars, Active
<1>5. CASE Start(w) \/ StartRefused(w) \/ BudgetExhausted(w)
  BY <1>5 DEF Start, StartRefused, BudgetExhausted, GoOn, Runs, runVars, actionVars, Active
<1> QED
  BY <1>1, <1>2, <1>3, <1>4, <1>5 DEF Advances

LEMMA WorksFrame ==
    ASSUME NEW w \in Workers, Works(w)
    PROVE  /\ \E new : exec' = [exec EXCEPT ![w] = new]
           /\ overlap' = overlap
           /\ Active(w) /\ job' = job
<1>1. CASE AlreadyDone(w) \/ Call(w) \/ CallDisabled(w) \/ CallRefused(w)
  BY <1>1 DEF AlreadyDone, Call, CallDisabled, CallRefused, StepFails, Goto, Return, GoOn, Runs, runVars, Active
<1>2. CASE Answered(w) \/ NotAnswered(w) \/ AnswerRefused(w)
  BY <1>2 DEF Answered, NotAnswered, AnswerRefused, StepFails, Goto, Return, GoOn, Runs, Active
<1>3. CASE \E advice \in Recommendations : Work(w, advice)
  BY <1>3 DEF Work, GoOn, Runs, Active
<1>4. CASE WorkFails(w) \/ WorkHalts(w)
  BY <1>4 DEF WorkFails, WorkHalts, StepFails, Return, GoOn, Runs, Active
<1> QED
  BY <1>1, <1>2, <1>3, <1>4 DEF Works

LEMMA LeavesFrame ==
    ASSUME NEW w \in Workers, Leaves(w)
    PROVE  /\ \E new : exec' = [exec EXCEPT ![w] = new]
           /\ overlap' = overlap /\ action' = action /\ applied' = applied
           /\ Active(w)
           /\ job'.status # "QUEUED" \/ job' = job \/ exec' = [exec EXCEPT ![w] = Idle]
<1>1. CASE Settle(w) \/ Fail(w) \/ Die(w)
  BY <1>1 DEF Settle, Fail, Die, Return, GoOn, Runs, runVars, actionVars, Active
<1>2. ASSUME NEW pc \in {"complete", "block", "hold"}, NEW status, Leave(w, pc, status)
      PROVE  Active(w) /\ exec' = [exec EXCEPT ![w] = Idle] /\ overlap' = overlap
             /\ action' = action /\ applied' = applied
  BY <1>2 DEF Leave, GoOn, Runs, actionVars, Active
<1> QED
  BY <1>1, <1>2 DEF Leaves

\* Whoever queues the job looks at who is at the run.
LEMMA OutsideFrame ==
    ASSUME TypeOK, Reap \/ (\E o \in Operations : Reconcile(o)) \/ People
    PROVE  /\ exec' = exec /\ applied' = applied
           /\ ~overlap' => ~overlap
           /\ ~overlap' /\ job'.status = "QUEUED" /\ job.status # "QUEUED" => \A w \in Workers : ~Active(w)
<1>1. ASSUME NEW attempt, QueueJob(attempt)
      PROVE  /\ ~overlap' => ~overlap
             /\ ~overlap' => \A w \in Workers : ~Active(w)
  BY <1>1 DEF QueueJob, Active
<1>2. CASE Reap
  <2>1. exec' = exec /\ applied' = applied
    BY <1>2 DEF Reap, actionVars
  <2>2. CASE job.attempt < MaxAttempts
    <3>1. QueueJob(job.attempt)
      BY <1>2, <2>2 DEF Reap
    <3> QED
      BY <1>1, <2>1, <3>1
  <2>3. CASE ~(job.attempt < MaxAttempts)
    <3>1. job' = [job EXCEPT !.status = "FAILED", !.worker = Nobody] /\ overlap' = overlap
      BY <1>2, <2>3 DEF Reap
    <3>2. job'.status = "FAILED"
      BY <3>1 DEF TypeOK
    <3> QED
      BY <2>1, <3>1, <3>2
  <2> QED
    BY <2>2, <2>3
<1>3. CASE \E o \in Operations : Reconcile(o)
  BY <1>3 DEF Reconcile, runVars
<1>4. CASE enqueue_or_replay \/ resume_run
  BY <1>1, <1>4 DEF enqueue_or_replay, resume_run, Resume, ResumeFrom, actionVars
<1>5. CASE cancel_run
  <2>1. job' = [job EXCEPT !.status = "CANCELLED", !.worker = Nobody]
    BY <1>5 DEF cancel_run
  <2>2. job'.status = "CANCELLED"
    BY <2>1 DEF TypeOK
  <2>3. exec' = exec /\ applied' = applied /\ overlap' = overlap
    BY <1>5 DEF cancel_run, actionVars
  <2> QED
    BY <2>2, <2>3
<1>7. CASE AnswerPostHoc \/ \E b \in BOOLEAN : SwitchTo(b)
  BY <1>7 DEF AnswerPostHoc, SwitchTo, actionVars, runVars
<1>6. ASSUME NEW s \in Effects, NEW k \in 1..MaxReviews, NEW answer \in {"APPROVED", "REJECTED"},
             AnswerReview(s, k, answer)
      PROVE  /\ exec' = exec /\ applied' = applied
             /\ ~overlap' => ~overlap
             /\ ~overlap' /\ job'.status = "QUEUED" /\ job.status # "QUEUED" => \A w \in Workers : ~Active(w)
  <2>1. exec' = exec /\ applied' = applied
    BY <1>6 DEF AnswerReview, actionVars
  <2>2. CASE run = "WAITING_APPROVAL"
    <3>1. QueueJob(0)
      BY <1>6, <2>2 DEF AnswerReview, Resume, ResumeFrom
    <3> QED
      BY <1>1, <2>1, <3>1
  <2>3. CASE run # "WAITING_APPROVAL"
    BY <1>6, <2>1, <2>3 DEF AnswerReview, runVars
  <2> QED
    BY <2>2, <2>3
<1> QED
  BY <1>2, <1>3, <1>4, <1>5, <1>6, <1>7 DEF People

LEMMA AloneStep ==
    ASSUME TypeInv, Alone, [Next]_vars
    PROVE  Alone' /\ (~overlap' => ~overlap)
<1>0. TypeOK /\ exec \in [Workers -> ExecTypes]
  BY DEF TypeInv, TypeOK, ExecTypes
<1>1. ASSUME NEW w \in Workers, WorkerSteps(w) PROVE Alone' /\ (~overlap' => ~overlap)
  <2>1. PICK new : exec' = [exec EXCEPT ![w] = new]
    BY <1>1, AdvancesFrame, WorksFrame, LeavesFrame DEF WorkerSteps
  <2>2. /\ overlap' = overlap
        /\ Active(w) \/ Claim(w)
        /\ Claim(w) => job.status = "QUEUED" /\ job'.status # "QUEUED"
        /\ job'.status # "QUEUED" \/ job' = job \/ exec' = [exec EXCEPT ![w] = Idle]
    <3>1. Claim(w) => job.status = "QUEUED" /\ job'.status # "QUEUED"
      BY DEF Claim
    <3> QED
      BY <1>1, <3>1, AdvancesFrame, WorksFrame, LeavesFrame DEF WorkerSteps
  <2>3. \A v \in Workers : v # w => Active(v)' = Active(v)
    BY <1>0, <2>1 DEF Active, Runs
  <2>4. exec' = [exec EXCEPT ![w] = Idle] => ~Active(w)'
    BY <1>0 DEF Active, Runs, Idle
  <2>5. ASSUME OneExecutor PROVE OneExecutor'
    BY <2>2, <2>3, <2>4, <2>5 DEF OneExecutor
  <2> QED
    BY <2>2, <2>5 DEF Alone
<1>2. ASSUME Reap \/ (\E o \in Operations : Reconcile(o)) \/ People PROVE Alone' /\ (~overlap' => ~overlap)
  BY <1>0, <1>2, OutsideFrame DEF Alone, OneExecutor, Active, Runs
<1>3. ASSUME UNCHANGED vars PROVE Alone' /\ (~overlap' => ~overlap)
  BY <1>3 DEF vars, runVars, Alone, OneExecutor, Active, Runs
<1> QED
  BY <1>1, <1>2, <1>3 DEF Next, WorkerSteps

-----------------------------------------------------------------------------
(* The operations of a step *)

OpenStatuses == {"PENDING", "CALLING", "UNKNOWN_OUTCOME"}

LEMMA LatestIsLast ==
    ASSUME NEW s \in Effects, InOrder(s)
    PROVE  /\ LatestOf(s) \in 0..MaxSequence
           /\ \A n \in 1..MaxSequence : action[<<s, n>>] # "NONE" <=> n <= LatestOf(s)
<1>1. MaxSequence \in Nat
  BY PipelineAssumption
<1>2. PICK k \in 0..MaxSequence : \A n \in 1..MaxSequence : action[<<s, n>>] # "NONE" <=> n <= k
  BY DEF InOrder
<1>3. {n \in 1..MaxSequence : action[<<s, n>>] # "NONE"} = 1..k
  BY <1>1, <1>2
<1>4. k \in Nat /\ Cardinality(1..k) = k
  BY <1>1, FS_Interval
<1>5. LatestOf(s) = k
  BY <1>3, <1>4 DEF LatestOf
<1> QED
  BY <1>2, <1>5

\* The operation of a step that was opened last is told by the ones of that step.
LEMMA SameOperations ==
    ASSUME NEW s \in Effects, TypeOK, \A n \in 1..MaxSequence : action'[<<s, n>>] = action[<<s, n>>]
    PROVE  /\ LatestOf(s)' = LatestOf(s) /\ LatestStatus(s)' = LatestStatus(s)
           /\ InOrder(s) => InOrder(s)'
<1>1. LatestOf(s)' = LatestOf(s) /\ LatestOf(s) \in 0..MaxSequence /\ MaxSequence \in Nat
  BY LatestType, PipelineAssumption DEF LatestOf
<1>2. LatestStatus(s)' = LatestStatus(s)
  BY <1>1 DEF LatestStatus
<1>3. InOrder(s) => InOrder(s)'
  BY DEF InOrder
<1> QED
  BY <1>1, <1>2, <1>3

\* An operation that is not closed moves on.
LEMMA MoveKeepsOrder ==
    ASSUME TypeOK, \A s \in Effects : InOrder(s),
           NEW o \in Operations, action[o] \in OpenStatuses,
           NEW status \in Actions!ActionStatuses \ {"NONE"}, action' = [action EXCEPT ![o] = status]
    PROVE  /\ \A s \in Effects : InOrder(s)' /\ LatestOf(s)' = LatestOf(s)
           /\ \A s \in Effects : LatestOf(s) # 0 => <<s, LatestOf(s)>> \in Operations
           /\ \A p \in Operations : p # o => action'[p] = action[p]
           /\ action'[o] = status
<1>1. \A p \in Operations : action'[p] = IF p = o THEN status ELSE action[p]
  BY DEF TypeOK, Actions!LifecycleTypeOK
<1>2. \A p \in Operations : action'[p] = "NONE" <=> action[p] = "NONE"
  BY <1>1 DEF OpenStatuses
<1>3. ASSUME NEW s \in Effects PROVE InOrder(s)' /\ LatestOf(s)' = LatestOf(s)
  <2>1. InOrder(s)
    OBVIOUS
  <2>2. \A n \in 1..MaxSequence : <<s, n>> \in Operations
    BY DEF Operations
  <2>3. {n \in 1..MaxSequence : action'[<<s, n>>] # "NONE"} = {n \in 1..MaxSequence : action[<<s, n>>] # "NONE"}
    BY <1>2, <2>2
  <2>4. LatestOf(s)' = LatestOf(s)
    BY <2>3 DEF LatestOf
  <2>5. \E k \in 0..MaxSequence : \A n \in 1..MaxSequence : action'[<<s, n>>] # "NONE" <=> n <= k
    BY <1>2, <2>1, <2>2 DEF InOrder
  <2>6. ASSUME NEW m \in 1..MaxSequence, NEW n \in 1..MaxSequence, m < n, action'[<<s, n>>] # "NONE"
        PROVE  action'[<<s, m>>] \in {"SUCCEEDED", "FAILED_CONFIRMED"}
    <3>1. action[<<s, m>>] \in {"SUCCEEDED", "FAILED_CONFIRMED"}
      BY <1>2, <2>1, <2>2, <2>6 DEF InOrder
    <3>2. <<s, m>> # o
      BY <3>1 DEF OpenStatuses
    <3> QED
      BY <1>1, <2>2, <3>1, <3>2
  <2> QED
    BY <2>4, <2>5, <2>6 DEF InOrder
<1>4. \A s \in Effects : LatestOf(s) # 0 => <<s, LatestOf(s)>> \in Operations
  BY LatestType, PipelineAssumption DEF Operations
<1> QED
  BY <1>1, <1>3, <1>4

\* A new one is opened after the last, which is closed.
LEMMA OpenKeepsOrder ==
    ASSUME TypeOK, \A s \in Effects : InOrder(s),
           NEW s \in Effects, ~OwnsTheSite(s), LatestOf(s) + 1 <= MaxSequence,
           Actions!OpenAction(<<s, LatestOf(s) + 1>>)
    PROVE  /\ \A x \in Effects : InOrder(x)'
           /\ \A x \in Effects : x # s => LatestOf(x)' = LatestOf(x) /\ LatestStatus(x)' = LatestStatus(x)
           /\ LatestOf(s)' = LatestOf(s) + 1 /\ LatestOf(s) + 1 \in 1..MaxSequence
           /\ action'[<<s, LatestOf(s) + 1>>] = "PENDING"
           /\ \A p \in Operations : p # <<s, LatestOf(s) + 1>> => action'[p] = action[p]
<1> DEFINE n == LatestOf(s) + 1
<1>1. /\ LatestOf(s) \in 0..MaxSequence /\ MaxSequence \in Nat
      /\ \A m \in 1..MaxSequence : action[<<s, m>>] # "NONE" <=> m <= LatestOf(s)
  BY LatestIsLast, PipelineAssumption
<1>2. n \in 1..MaxSequence /\ <<s, n>> \in Operations
  BY <1>1 DEF Operations
<1>3. \A p \in Operations : action'[p] = IF p = <<s, n>> THEN "PENDING" ELSE action[p]
  BY <1>2 DEF Actions!OpenAction, TypeOK, Actions!LifecycleTypeOK
<1>4. ASSUME NEW x \in Effects, x # s
      PROVE  InOrder(x)' /\ LatestOf(x)' = LatestOf(x) /\ LatestStatus(x)' = LatestStatus(x)
  <2>1. \A m \in 1..MaxSequence : action'[<<x, m>>] = action[<<x, m>>]
    BY <1>3, <1>4 DEF Operations
  <2> QED
    BY <2>1, SameOperations
<1>5. \A m \in 1..MaxSequence : action'[<<s, m>>] # "NONE" <=> m <= n
  BY <1>1, <1>2, <1>3 DEF Operations
<1>6. \A m \in 1..MaxSequence : m < n => action[<<s, m>>] \in {"SUCCEEDED", "FAILED_CONFIRMED"}
  <2>1. LatestOf(s) # 0 => action[<<s, LatestOf(s)>>] \in {"SUCCEEDED", "FAILED_CONFIRMED"}
    <3>1. LatestOf(s) # 0 => action[<<s, LatestOf(s)>>] \in Actions!ActionStatuses \ {"NONE"}
      BY <1>1, LatestType DEF LatestStatus
    <3> QED
      BY <3>1 DEF OwnsTheSite, LatestStatus, Actions!ActionStatuses
  <2>2. \A m \in 1..MaxSequence : m < LatestOf(s) => action[<<s, m>>] \in {"SUCCEEDED", "FAILED_CONFIRMED"}
    <3>1. \A m, k \in 1..MaxSequence :
            m < k /\ action[<<s, k>>] # "NONE" => action[<<s, m>>] \in {"SUCCEEDED", "FAILED_CONFIRMED"}
      BY DEF InOrder
    <3> SUFFICES ASSUME NEW m \in 1..MaxSequence, m < LatestOf(s)
                 PROVE  action[<<s, m>>] \in {"SUCCEEDED", "FAILED_CONFIRMED"}
      OBVIOUS
    <3>2. LatestOf(s) \in 1..MaxSequence
      BY <1>1
    <3>3. action[<<s, LatestOf(s)>>] # "NONE"
      BY <1>1, <3>2
    <3> QED
      BY <3>1, <3>2, <3>3
  <2> QED
    BY <1>1, <2>1, <2>2
<1>7. LatestOf(s)' = n
  <2>1. {m \in 1..MaxSequence : action'[<<s, m>>] # "NONE"} = 1..n
    BY <1>1, <1>2, <1>5
  <2>2. n \in Nat /\ Cardinality(1..n) = n
    BY <1>2, FS_Interval
  <2> QED
    BY <2>1, <2>2 DEF LatestOf
<1>8. InOrder(s)'
  <2>1. \A m, k \in 1..MaxSequence :
          m < k /\ action'[<<s, k>>] # "NONE" => action'[<<s, m>>] \in {"SUCCEEDED", "FAILED_CONFIRMED"}
    <3>1. \A m \in 1..MaxSequence : m < n => action'[<<s, m>>] = action[<<s, m>>]
      BY <1>1, <1>2, <1>3 DEF Operations
    <3> QED
      BY <1>1, <1>2, <1>5, <1>6, <3>1
  <2>2. n \in 0..MaxSequence
    BY <1>2
  <2> QED
    BY <1>5, <2>1, <2>2 DEF InOrder
<1> QED
  BY <1>2, <1>3, <1>4, <1>7, <1>8

\* A worker at the end of an effect finds what it did.
LEMMA OperationsKept ==
    ASSUME TypeInv, OperationsInv, NEW w \in Workers,
           \A v \in Workers : v # w => exec'[v] = exec[v],
           \A s \in Effects : InOrder(s)',
           \A o \in Operations : action[o] = "SUCCEEDED" => action'[o] = "SUCCEEDED",
           \A o \in applied' : action'[o] = "SUCCEEDED",
           Done(exec'[w]) => action'[<<exec'[w].at, exec'[w].op>>] = "SUCCEEDED"
    PROVE  OperationsInv'
<1>1. ASSUME NEW v \in Workers, Done(exec'[v])
      PROVE  action'[<<exec'[v].at, exec'[v].op>>] = "SUCCEEDED"
  <2>1. CASE v = w
    BY <1>1, <2>1
  <2>2. CASE v # w
    <3>1. exec'[v] = exec[v] /\ Done(exec[v]) /\ InHand(exec[v])
      BY <1>1, <2>2 DEF TypeInv
    <3>2. <<exec[v].at, exec[v].op>> \in Operations
      BY <3>1 DEF InHand, Done, Asking, Operations
    <3> QED
      BY <3>1, <3>2 DEF OperationsInv
  <2> QED
    BY <2>1, <2>2
<1> QED
  BY <1>1 DEF OperationsInv

-----------------------------------------------------------------------------
(* What a step makes of the record of its worker *)

Becomes(w, pc, at, status, steps, review, op, seen) ==
    /\ exec'[w].pc = pc /\ exec'[w].at = at /\ exec'[w].run = status /\ exec'[w].steps = steps
    /\ exec'[w].review = review /\ exec'[w].op = op /\ exec'[w].seen = seen

Gone(w) == exec'[w].pc \in {"complete", "block", "hold", "fail", "idle"}

LEMMA Returned ==
    ASSUME TypeInv, NEW w \in Workers, NEW how \in {"complete", "block", "hold", "fail"}, Return(w, how)
    PROVE  Gone(w)
  BY DEF TypeInv, TypeOK, Return, GoOn, Gone

LEMMA WentOn ==
    ASSUME TypeInv, NEW w \in Workers, NEW new, GoOn(w, new)
    PROVE  exec'[w] = new
  BY DEF TypeInv, TypeOK, GoOn

LEMMA WentTo ==
    ASSUME TypeInv, NEW w \in Workers, exec[w].pc \in ExecutingAt, NEW pc, Goto(w, pc)
    PROVE  Becomes(w, pc, exec[w].at, exec[w].run, exec[w].steps, exec[w].review, exec[w].op, exec[w].seen)
<1>1. exec[w] \in Executing /\ exec' = [exec EXCEPT ![w] = [exec[w] EXCEPT !.pc = pc]]
  BY ExecutingType DEF TypeInv, Goto
<1>2. exec'[w] = [exec[w] EXCEPT !.pc = pc]
  BY <1>1 DEF TypeInv, TypeOK
<1> QED
  BY <1>1, <1>2 DEF Becomes, Executing

LEMMA BeginningMoves ==
    ASSUME TypeInv, NEW w \in Workers
    PROVE  /\ Claim(w) => Becomes(w, "load", 1, run, step, 0, 0, "NONE")
           /\ Load(w) => \/ Gone(w)
                         \/ \E pc \in {"begin", "disable"} :
                              Becomes(w, pc, exec[w].at, run, exec[w].steps, exec[w].review, exec[w].op, exec[w].seen)
           /\ Disable(w) => Gone(w)
           /\ Begin(w) => Becomes(w, "next", exec[w].at, "RUNNING", step, exec[w].review, exec[w].op, exec[w].seen)
           /\ Lost(w) => Gone(w)
<1>1. ASSUME Claim(w) PROVE Becomes(w, "load", 1, run, step, 0, 0, "NONE")
  BY <1>1, WentOn DEF Claim, Becomes
<1>2. ASSUME Load(w), ~Gone(w)
      PROVE  \E pc \in {"begin", "disable"} :
               Becomes(w, pc, exec[w].at, run, exec[w].steps, exec[w].review, exec[w].op, exec[w].seen)
  <2>1. GoOn(w, [exec[w] EXCEPT !.run = run, !.pc = IF enabled THEN "begin" ELSE "disable"])
    BY <1>2, Returned DEF Load
  <2>2. exec'[w] = [exec[w] EXCEPT !.run = run, !.pc = IF enabled THEN "begin" ELSE "disable"]
    BY <2>1, WentOn
  <2>3. exec[w] \in Executing
    BY <1>2, ExecutingType DEF Load, Runs, ExecutingAt, TypeInv
  <2> QED
    BY <2>2, <2>3 DEF Becomes, Executing
<1>3. ASSUME Begin(w)
      PROVE  Becomes(w, "next", exec[w].at, "RUNNING", step, exec[w].review, exec[w].op, exec[w].seen)
  <2>1. exec'[w] = [exec[w] EXCEPT !.pc = "next", !.run = "RUNNING", !.steps = step]
    BY <1>3, WentOn DEF Begin
  <2>2. exec[w] \in Executing
    BY <1>3, ExecutingType DEF Begin, Runs, ExecutingAt, TypeInv
  <2> QED
    BY <2>1, <2>2 DEF Becomes, Executing
<1>4. ASSUME Lost(w) PROVE Gone(w)
  BY <1>4, WentOn DEF Lost, Gone, Idle
<1> QED
  BY <1>1, <1>2, <1>3, <1>4, Returned DEF Disable

LEMMA NextStepMoves ==
    ASSUME TypeInv, NEW w \in Workers, NextStep(w)
    PROVE  \/ Gone(w)
           \/ /\ \A s \in exec[w].at..N : exec[w].steps[s].status = "COMPLETED"
              /\ Becomes(w, "settle", exec[w].at, exec[w].run, exec[w].steps, exec[w].review, exec[w].op, exec[w].seen)
           \/ \E s \in exec[w].at..N :
                /\ exec[w].steps[s].status # "COMPLETED"
                /\ \A x \in exec[w].at..N : x < s => exec[w].steps[x].status = "COMPLETED"
                /\ run # "CANCELLED" /\ s \in Steps
                /\ Becomes(w, IF s \in Effects THEN "gate" ELSE "start", s, run, exec[w].steps, exec[w].review,
                           exec[w].op, exec[w].seen)
<1> DEFINE left_ == {s \in exec[w].at..N : exec[w].steps[s].status # "COMPLETED"}
<1>1. exec[w] \in Executing /\ exec[w].pc \in ExecutingAt
  BY ExecutingType DEF NextStep, Runs, ExecutingAt, Going, TypeInv
<1>2. CASE left_ = {} /\ Goto(w, "settle")
  BY <1>1, <1>2, WentTo
<1>3. CASE GoOn(w, [pc |-> "complete", cached |-> TRUE])
  BY <1>3, WentOn DEF Gone
<1>4. ASSUME NEW s \in left_, \A x \in left_ : s <= x, run # "CANCELLED",
             GoOn(w, [exec[w] EXCEPT !.at = s, !.run = run, !.cached = TRUE,
                                     !.pc = IF s \in Effects THEN "gate" ELSE "start"])
      PROVE  \E x \in exec[w].at..N :
               /\ exec[w].steps[x].status # "COMPLETED"
               /\ \A y \in exec[w].at..N : y < x => exec[w].steps[y].status = "COMPLETED"
               /\ run # "CANCELLED" /\ x \in Steps
               /\ Becomes(w, IF x \in Effects THEN "gate" ELSE "start", x, run, exec[w].steps, exec[w].review,
                          exec[w].op, exec[w].seen)
  <2>1. s \in Steps /\ s \in Int /\ exec[w].at \in Int /\ N \in Nat
    BY <1>1, PipelineAssumption DEF Executing, Steps
  <2>2. exec'[w] = [exec[w] EXCEPT !.at = s, !.run = run, !.cached = TRUE,
                                   !.pc = IF s \in Effects THEN "gate" ELSE "start"]
    BY <1>4, WentOn
  <2>3. Becomes(w, IF s \in Effects THEN "gate" ELSE "start", s, run, exec[w].steps, exec[w].review,
                exec[w].op, exec[w].seen)
    BY <1>1, <2>2 DEF Becomes, Executing
  <2>4. \A y \in exec[w].at..N : y < s => exec[w].steps[y].status = "COMPLETED"
    BY <1>4, <2>1
  <2> QED
    BY <1>4, <2>1, <2>3, <2>4
<1>5. \/ left_ = {} /\ Goto(w, "settle")
      \/ GoOn(w, [pc |-> "complete", cached |-> TRUE])
      \/ \E s \in left_ :
           /\ \A x \in left_ : s <= x
           /\ run # "CANCELLED"
           /\ GoOn(w, [exec[w] EXCEPT !.at = s, !.run = run, !.cached = TRUE,
                                      !.pc = IF s \in Effects THEN "gate" ELSE "start"])
  BY DEF NextStep
<1> HIDE DEF left_
<1> QED
  BY <1>2, <1>3, <1>4, <1>5

\* What the gate decides, and when it asks for the outcome of a call.
LEMMA GateMoves ==
    ASSUME TypeInv, NEW w \in Workers, NEW funded \in BOOLEAN, Gate(w, funded)
    PROVE  LET s == exec[w].at
               decision == Outcome(StepInput(w, s, funded))
               move(pc, review) == Becomes(w, pc, s, exec[w].run, exec[w].steps, review, exec[w].op, exec[w].seen)
           IN  \/ Unrecorded(s) /\ move("start", 0) /\ UNCHANGED action
               \/ /\ ~Unrecorded(s)
                  /\ \/ LatestStatus(s) = "CALLING" /\ action' = [action EXCEPT ![<<s, LatestOf(s)>>] = "UNKNOWN_OUTCOME"]
                     \/ LatestStatus(s) # "CALLING" /\ UNCHANGED action
                  /\ \/ decision = "DENY" /\ move("deny", 0)
                     \/ decision = "REQUIRE_APPROVAL" /\ move("await", 0)
                     \/ decision = "ALLOW" /\ move("start", IF Answer(s) = "APPROVED" THEN Len(reviews[s]) ELSE 0)
<1> DEFINE s == exec[w].at
           decision == Outcome(StepInput(w, s, funded))
           to(pc, review) == [exec[w] EXCEPT !.pc = pc, !.review = review]
<1>1. exec[w] \in Executing
  BY ExecutingType DEF Gate, Runs, ExecutingAt, Going, TypeInv
<1>2. ASSUME NEW pc, NEW review, GoOn(w, to(pc, review))
      PROVE  Becomes(w, pc, s, exec[w].run, exec[w].steps, review, exec[w].op, exec[w].seen)
  <2>1. exec'[w] = to(pc, review)
    BY <1>2, WentOn
  <2> QED
    BY <1>1, <2>1 DEF Becomes, Executing
<1>3. CASE Unrecorded(s)
  <2>1. GoOn(w, to("start", 0)) /\ UNCHANGED action
    BY <1>3 DEF Gate
  <2> QED
    BY <1>2, <1>3, <2>1
<1>4. CASE ~Unrecorded(s)
  <2>1. \/ LatestStatus(s) = "CALLING" /\ action' = [action EXCEPT ![<<s, LatestOf(s)>>] = "UNKNOWN_OUTCOME"]
        \/ LatestStatus(s) # "CALLING" /\ UNCHANGED action
    BY <1>4 DEF Gate
  <2>2. decision \in {"DENY", "REQUIRE_APPROVAL", "ALLOW"}
    BY DEF Outcome
  <2>3. \/ decision = "DENY" /\ GoOn(w, to("deny", 0))
        \/ decision = "REQUIRE_APPROVAL" /\ GoOn(w, to("await", 0))
        \/ decision = "ALLOW" /\ GoOn(w, to("start", IF Answer(s) = "APPROVED" THEN Len(reviews[s]) ELSE 0))
    <3>1. GoOn(w, to(CASE decision = "DENY" -> "deny"
                      [] decision = "REQUIRE_APPROVAL" -> "await"
                      [] decision = "ALLOW" -> "start",
                     IF decision = "ALLOW" /\ Answer(s) = "APPROVED" THEN Len(reviews[s]) ELSE 0))
      BY <1>4 DEF Gate
    <3> HIDE DEF decision, s
    <3> QED
      BY <2>2, <3>1
  <2> HIDE DEF to, decision
  <2> QED
    BY <1>2, <1>4, <2>1, <2>3 DEF decision
<1> QED
  BY <1>3, <1>4

LEMMA AskingMoves ==
    ASSUME TypeInv, NEW w \in Workers
    PROVE  LET s == exec[w].at
               become(pc, at, steps) == Becomes(w, pc, at, exec[w].run, steps, exec[w].review, exec[w].op, exec[w].seen)
           IN  /\ Deny(w) => become("denied", s, WithStatus(exec[w].steps, s, "DENIED"))
               /\ Denied(w) => \/ Gone(w) /\ SetRun(w, "BLOCKED")
                               \/ LatestStatus(s) # "UNKNOWN_OUTCOME" /\ UNCHANGED run /\ become("next", s + 1, exec[w].steps)
               /\ Await(w) => become("ask", s, WithStatus(exec[w].steps, s, "WAITING_APPROVAL"))
               /\ Ask(w) => Gone(w)
               /\ AskedBefore(w) => become("asked", s, exec[w].steps)
               /\ Waits(w) => Gone(w)
<1> DEFINE s == exec[w].at
           become(pc, at, steps) == Becomes(w, pc, at, exec[w].run, steps, exec[w].review, exec[w].op, exec[w].seen)
<1>1. ASSUME exec[w].pc \in Asking PROVE exec[w] \in Executing /\ exec[w].pc \in ExecutingAt
  BY <1>1, ExecutingType DEF Asking, ExecutingAt, Going, TypeInv
<1>2. ASSUME NEW pc, NEW steps, exec[w].pc \in Asking, GoOn(w, [exec[w] EXCEPT !.pc = pc, !.steps = steps])
      PROVE  become(pc, s, steps)
  <2>1. exec'[w] = [exec[w] EXCEPT !.pc = pc, !.steps = steps]
    BY <1>2, WentOn
  <2> QED
    BY <1>1, <1>2, <2>1 DEF Becomes, Executing
<1>3. ASSUME exec[w].pc \in Asking, GoOn(w, [exec[w] EXCEPT !.pc = "next", !.at = @ + 1])
      PROVE  become("next", s + 1, exec[w].steps)
  <2>1. exec'[w] = [exec[w] EXCEPT !.pc = "next", !.at = exec[w].at + 1]
    BY <1>3, WentOn
  <2> QED
    BY <1>1, <1>3, <2>1 DEF Becomes, Executing
<1>4. Deny(w) => become("denied", s, WithStatus(exec[w].steps, s, "DENIED"))
  <2> DEFINE steps == WithStatus(exec[w].steps, s, "DENIED")
  <2>1. Deny(w) => exec[w].pc \in Asking /\ GoOn(w, [exec[w] EXCEPT !.pc = "denied", !.steps = steps])
    BY DEF Deny, Runs, Asking
  <2> HIDE DEF steps, become
  <2>2. Deny(w) => become("denied", s, steps)
    BY <1>2, <2>1
  <2> QED
    BY <2>2 DEF steps
<1>5. Denied(w) => \/ Gone(w) /\ SetRun(w, "BLOCKED")
                   \/ LatestStatus(s) # "UNKNOWN_OUTCOME" /\ UNCHANGED run /\ become("next", s + 1, exec[w].steps)
  BY <1>3, Returned DEF Denied, Runs, Asking
<1>6. Await(w) => become("ask", s, WithStatus(exec[w].steps, s, "WAITING_APPROVAL"))
  <2> DEFINE steps == WithStatus(exec[w].steps, s, "WAITING_APPROVAL")
  <2>1. Await(w) => exec[w].pc \in Asking /\ GoOn(w, [exec[w] EXCEPT !.pc = "ask", !.steps = steps])
    BY DEF Await, Runs, Asking
  <2> HIDE DEF steps, become
  <2>2. Await(w) => become("ask", s, steps)
    BY <1>2, <2>1
  <2> QED
    BY <2>2 DEF steps
<1>7. AskedBefore(w) => become("asked", s, exec[w].steps)
  BY <1>1, WentTo DEF AskedBefore, Runs, Asking
<1>8. (Ask(w) => Gone(w)) /\ (Waits(w) => Gone(w))
  BY Returned DEF Ask, Waits
<1> QED
  BY <1>4, <1>5, <1>6, <1>7, <1>8

LEMMA StartingMoves ==
    ASSUME TypeInv, NEW w \in Workers
    PROVE  LET s == exec[w].at
               steps == WithStatus(exec[w].steps, s, "RUNNING")
               n == IF OwnsTheSite(s) THEN LatestOf(s) ELSE LatestOf(s) + 1
           IN  /\ Start(w) /\ s \in Effects =>
                    Becomes(w, "call", s, exec[w].run, steps, 0, n, IF OwnsTheSite(s) THEN LatestStatus(s) ELSE "PENDING")
               /\ Start(w) /\ s \notin Effects =>
                    Becomes(w, "work", s, exec[w].run, steps, exec[w].review, exec[w].op, exec[w].seen)
               /\ StartRefused(w) => Gone(w)
               /\ BudgetExhausted(w) =>
                    Becomes(w, "next", s + 1, run, WithStatus(step, s, "DENIED"), 0, exec[w].op, exec[w].seen)
<1> DEFINE s == exec[w].at
           steps == WithStatus(exec[w].steps, s, "RUNNING")
           n == IF OwnsTheSite(s) THEN LatestOf(s) ELSE LatestOf(s) + 1
           seen == IF OwnsTheSite(s) THEN LatestStatus(s) ELSE "PENDING"
           denied == WithStatus(step, s, "DENIED")
<1>1. ASSUME Runs(w, "start") PROVE exec[w] \in Executing
  BY <1>1, ExecutingType DEF Runs, ExecutingAt, Going, TypeInv
<1>2. ASSUME Start(w), s \in Effects PROVE Becomes(w, "call", s, exec[w].run, steps, 0, n, seen)
  <2>1. GoOn(w, [exec[w] EXCEPT !.pc = "call", !.steps = steps, !.review = 0, !.op = n, !.seen = seen])
    BY <1>2 DEF Start
  <2> HIDE DEF steps, n, seen
  <2>2. exec'[w] = [exec[w] EXCEPT !.pc = "call", !.steps = steps, !.review = 0, !.op = n, !.seen = seen]
    BY <2>1, WentOn
  <2>3. exec[w] \in Executing
    BY <1>1, <1>2 DEF Start
  <2> QED
    BY <2>2, <2>3 DEF Becomes, Executing
<1>3. ASSUME Start(w), s \notin Effects
      PROVE  Becomes(w, "work", s, exec[w].run, steps, exec[w].review, exec[w].op, exec[w].seen)
  <2>1. GoOn(w, [exec[w] EXCEPT !.pc = "work", !.steps = steps])
    BY <1>3 DEF Start
  <2> HIDE DEF steps
  <2>2. exec'[w] = [exec[w] EXCEPT !.pc = "work", !.steps = steps]
    BY <2>1, WentOn
  <2>3. exec[w] \in Executing
    BY <1>1, <1>3 DEF Start
  <2> QED
    BY <2>2, <2>3 DEF Becomes, Executing
<1>4. ASSUME StartRefused(w) PROVE Gone(w)
  BY <1>4, WentOn DEF StartRefused, Gone
<1>5. ASSUME BudgetExhausted(w) PROVE Becomes(w, "next", s + 1, run, denied, 0, exec[w].op, exec[w].seen)
  <2>1. GoOn(w, [RolledBack(w) EXCEPT !.pc = "next", !.at = s + 1, !.review = 0, !.steps = denied])
    BY <1>5 DEF BudgetExhausted
  <2> HIDE DEF denied
  <2>2. exec'[w] = [RolledBack(w) EXCEPT !.pc = "next", !.at = s + 1, !.review = 0, !.steps = denied]
    BY <2>1, WentOn
  <2>3. exec[w] \in Executing
    BY <1>1, <1>5 DEF BudgetExhausted
  <2> QED
    BY <2>2, <2>3 DEF Becomes, Executing, RolledBack
<1> QED
  BY <1>2, <1>3, <1>4, <1>5

LEMMA WorksMoves ==
    ASSUME TypeInv, NEW w \in Workers
    PROVE  LET s == exec[w].at
               become(pc, at, steps) == Becomes(w, pc, at, exec[w].run, steps, exec[w].review, exec[w].op, exec[w].seen)
           IN  /\ AlreadyDone(w) => become("work", s, exec[w].steps)
               /\ Call(w) => become("answer", s, exec[w].steps)
               /\ CallDisabled(w) \/ CallRefused(w) \/ NotAnswered(w) \/ AnswerRefused(w) \/ WorkFails(w) => Gone(w)
               /\ Answered(w) =>
                    \/ Actions!Succeeds(<<s, exec[w].op>>) /\ become("work", s, exec[w].steps) /\ UNCHANGED <<run, step>>
                    \/ Actions!Fails(<<s, exec[w].op>>) /\ StepFails(w, "FAILED", "fail") /\ Gone(w)
               /\ \A advice \in Recommendations : Work(w, advice) =>
                    Becomes(w, "next", s + 1, exec[w].run,
                            [exec[w].steps EXCEPT ![s] = [status |-> "COMPLETED", advice |-> advice]],
                            exec[w].review, 0, "NONE")
               /\ WorkHalts(w) => \E steps : SetSteps(w, steps) /\ become("halt", s, steps)
                                    /\ steps \in [Steps -> StepRows]
                                    /\ \A x \in Steps : /\ x < s => steps[x] = exec[w].steps[x]
                                                        /\ steps[x].status = "COMPLETED" => x # s /\ steps[x] = exec[w].steps[x]
<1> DEFINE s == exec[w].at
           become(pc, at, steps) == Becomes(w, pc, at, exec[w].run, steps, exec[w].review, exec[w].op, exec[w].seen)
<1>1. ASSUME exec[w].pc \in {"call", "answer", "work"}
      PROVE  exec[w] \in Executing /\ exec[w].pc \in ExecutingAt /\ s \in Steps
  BY <1>1, ExecutingType DEF ExecutingAt, Going, AtStep, InHand, TypeInv
<1>2. ASSUME NEW pc, Goto(w, pc), exec[w].pc \in {"call", "answer", "work"} PROVE become(pc, s, exec[w].steps)
  BY <1>1, <1>2, WentTo
<1>3. /\ AlreadyDone(w) => become("work", s, exec[w].steps)
      /\ Call(w) => become("answer", s, exec[w].steps)
  BY <1>2 DEF AlreadyDone, Call, Runs
<1>4. ASSUME NEW status, NEW how \in {"fail", "block"}, StepFails(w, status, how) PROVE Gone(w)
  BY <1>4, Returned DEF StepFails
<1>5. CallDisabled(w) \/ CallRefused(w) \/ NotAnswered(w) \/ AnswerRefused(w) \/ WorkFails(w) => Gone(w)
  BY <1>4, Returned DEF CallDisabled, CallRefused, NotAnswered, AnswerRefused, WorkFails
<1>6. ASSUME Answered(w)
      PROVE  \/ Actions!Succeeds(<<s, exec[w].op>>) /\ become("work", s, exec[w].steps) /\ UNCHANGED <<run, step>>
             \/ Actions!Fails(<<s, exec[w].op>>) /\ StepFails(w, "FAILED", "fail") /\ Gone(w)
  BY <1>2, <1>4, <1>6 DEF Answered, Runs
<1>7. ASSUME NEW advice \in Recommendations, Work(w, advice)
      PROVE  Becomes(w, "next", s + 1, exec[w].run,
                     [exec[w].steps EXCEPT ![s] = [status |-> "COMPLETED", advice |-> advice]], exec[w].review, 0, "NONE")
  <2> DEFINE steps == [exec[w].steps EXCEPT ![s] = [status |-> "COMPLETED", advice |-> advice]]
  <2>1. GoOn(w, [exec[w] EXCEPT !.pc = "next", !.at = s + 1, !.steps = steps, !.op = 0, !.seen = "NONE"])
    BY <1>7 DEF Work
  <2> HIDE DEF steps
  <2>2. exec'[w] = [exec[w] EXCEPT !.pc = "next", !.at = s + 1, !.steps = steps, !.op = 0, !.seen = "NONE"]
    BY <2>1, WentOn
  <2>3. exec[w] \in Executing
    BY <1>1, <1>7 DEF Work, Runs
  <2>4. Becomes(w, "next", s + 1, exec[w].run, steps, exec[w].review, 0, "NONE")
    BY <2>2, <2>3 DEF Becomes, Executing
  <2> QED
    BY <2>4 DEF steps
<1>8. ASSUME WorkHalts(w)
      PROVE  \E steps : SetSteps(w, steps) /\ become("halt", s, steps)
               /\ steps \in [Steps -> StepRows]
               /\ \A x \in Steps : /\ x < s => steps[x] = exec[w].steps[x]
                                   /\ steps[x].status = "COMPLETED" => x # s /\ steps[x] = exec[w].steps[x]
  <2> DEFINE steps == [x \in Steps |->
                         IF x = s THEN [exec[w].steps[x] EXCEPT !.status = "FAILED"]
                         ELSE IF x > s /\ exec[w].steps[x].status = "PENDING"
                         THEN [exec[w].steps[x] EXCEPT !.status = "SKIPPED"] ELSE exec[w].steps[x]]
  <2>1. SetSteps(w, steps) /\ GoOn(w, [exec[w] EXCEPT !.pc = "halt", !.steps = steps])
    BY <1>8 DEF WorkHalts
  <2>2. exec[w] \in Executing /\ s \in Steps /\ s \in Int /\ \A x \in Steps : x \in Int
    BY <1>1, <1>8, PipelineAssumption DEF WorkHalts, Runs, Steps
  <2>3. \A x \in Steps : exec[w].steps[x] \in StepRows
    BY <2>2 DEF Executing
  <2>4. steps \in [Steps -> StepRows]
    BY <2>3 DEF StepRows, StepStatuses
  <2>5. \A x \in Steps : /\ x < s => steps[x] = exec[w].steps[x]
                         /\ steps[x].status = "COMPLETED" => x # s /\ steps[x] = exec[w].steps[x]
    BY <2>2, <2>3 DEF StepRows
  <2> HIDE DEF steps
  <2>6. exec'[w] = [exec[w] EXCEPT !.pc = "halt", !.steps = steps]
    BY <2>1, WentOn
  <2>7. become("halt", s, steps)
    BY <2>2, <2>6 DEF Becomes, Executing
  <2> QED
    BY <2>1, <2>4, <2>5, <2>7
<1> QED
  BY <1>3, <1>5, <1>6, <1>7, <1>8

LEMMA LeavesMoves ==
    ASSUME TypeInv, NEW w \in Workers, Leaves(w)
    PROVE  Gone(w)
<1>1. Settle(w) => Gone(w)
  BY Returned DEF Settle
<1>2. GoOn(w, Idle) => Gone(w)
  BY WentOn DEF Gone, Idle
<1> QED
  BY <1>1, <1>2 DEF Leaves, Fail, Die, Leave

-----------------------------------------------------------------------------
(* Operations are opened in order, and what is recorded succeeded *)

\* A step that leaves the operations alone, of a worker that has not done an effect.
LEMMA OperationsUntouched ==
    ASSUME TypeInv, OperationsInv, NEW w \in Workers, \A v \in Workers : v # w => exec'[v] = exec[v],
           UNCHANGED <<action, applied>>, ~Done(exec'[w])
    PROVE  OperationsInv'
<1>1. \A s \in Effects : InOrder(s)'
  BY DEF OperationsInv, InOrder
<1> QED
  BY <1>1, OperationsKept DEF OperationsInv

\* One that moves an operation on.
LEMMA OperationsMoved ==
    ASSUME TypeInv, OperationsInv, NEW w \in Workers, \A v \in Workers : v # w => exec'[v] = exec[v],
           NEW o \in Operations, action[o] \in OpenStatuses,
           NEW status \in Actions!ActionStatuses \ {"NONE"}, action' = [action EXCEPT ![o] = status],
           UNCHANGED applied,
           Done(exec'[w]) => <<exec'[w].at, exec'[w].op>> = o /\ status = "SUCCEEDED"
    PROVE  OperationsInv'
<1>1. /\ \A s \in Effects : InOrder(s)'
      /\ \A p \in Operations : p # o => action'[p] = action[p]
      /\ action'[o] = status
  BY MoveKeepsOrder DEF TypeInv, OperationsInv
<1>2. \A p \in Operations : action[p] = "SUCCEEDED" => action'[p] = "SUCCEEDED"
  BY <1>1 DEF OpenStatuses
<1>3. \A p \in applied' : action'[p] = "SUCCEEDED"
  BY <1>2 DEF OperationsInv, TypeInv, TypeOK
<1> QED
  BY <1>1, <1>2, <1>3, OperationsKept

LEMMA AdvancesOperations ==
    ASSUME TypeInv, OperationsInv, NEW w \in Workers, Advances(w)
    PROVE  OperationsInv'
<1>0. /\ \A v \in Workers : v # w => exec'[v] = exec[v]
      /\ applied' = applied
  <2>1. PICK new : exec' = [exec EXCEPT ![w] = new]
    BY AdvancesFrame
  <2> QED
    BY <2>1, AdvancesFrame DEF TypeInv, TypeOK
<1>1. Gone(w) => ~Done(exec'[w])
  BY DEF Gone, Done
<1>2. CASE Claim(w) \/ Load(w) \/ Disable(w) \/ Begin(w) \/ Lost(w)
  <2>1. ~Done(exec'[w])
    BY <1>1, <1>2, BeginningMoves DEF Done, Becomes
  <2>2. UNCHANGED action
    BY <1>2 DEF Claim, Load, Disable, Begin, Lost, actionVars
  <2> QED
    BY <1>0, <2>1, <2>2, OperationsUntouched
<1>3. CASE NextStep(w)
  <2>1. ~Done(exec'[w])
    BY <1>1, <1>3, NextStepMoves DEF Done, Becomes
  <2>2. UNCHANGED action
    BY <1>3 DEF NextStep, actionVars
  <2> QED
    BY <1>0, <2>1, <2>2, OperationsUntouched
<1>4. ASSUME NEW funded \in BOOLEAN, Gate(w, funded) PROVE OperationsInv'
  <2>1. ~Done(exec'[w])
    BY <1>4, GateMoves DEF Done, Becomes
  <2>2. CASE UNCHANGED action
    BY <1>0, <2>1, <2>2, OperationsUntouched
  <2>3. CASE /\ LatestStatus(exec[w].at) = "CALLING"
             /\ action' = [action EXCEPT ![<<exec[w].at, LatestOf(exec[w].at)>>] = "UNKNOWN_OUTCOME"]
    <3>1. exec[w].at \in Effects
      BY <1>4 DEF Gate, Runs, TypeInv, InHand, Asking
    <3>2. <<exec[w].at, LatestOf(exec[w].at)>> \in Operations /\ action[<<exec[w].at, LatestOf(exec[w].at)>>] = "CALLING"
      BY <2>3, <3>1, LatestType, PipelineAssumption DEF TypeInv, LatestStatus, Operations
    <3> QED
      BY <1>0, <2>1, <2>3, <3>2, OperationsMoved DEF OpenStatuses, Actions!ActionStatuses
  <2> QED
    BY <1>4, <2>2, <2>3, GateMoves
<1>5. CASE Deny(w) \/ Denied(w) \/ Await(w) \/ Ask(w) \/ AskedBefore(w) \/ Waits(w)
  <2>1. ~Done(exec'[w])
    BY <1>1, <1>5, AskingMoves DEF Done, Becomes
  <2>2. UNCHANGED action
    BY <1>5 DEF Deny, Denied, Await, Ask, AskedBefore, Waits, actionVars
  <2> QED
    BY <1>0, <2>1, <2>2, OperationsUntouched
<1>6. CASE StartRefused(w) \/ BudgetExhausted(w)
  <2>1. ~Done(exec'[w])
    BY <1>1, <1>6, StartingMoves DEF Done, Becomes
  <2>2. UNCHANGED action
    BY <1>6 DEF StartRefused, BudgetExhausted, actionVars
  <2> QED
    BY <1>0, <2>1, <2>2, OperationsUntouched
<1>7. CASE Start(w) /\ exec[w].at \notin Effects
  <2>1. ~Done(exec'[w]) /\ UNCHANGED action
    BY <1>7, StartingMoves DEF Done, Becomes, Start
  <2> QED
    BY <1>0, <2>1, OperationsUntouched
<1>8. CASE Start(w) /\ exec[w].at \in Effects
  <2> DEFINE s == exec[w].at
  <2>1. LatestOf(s) \in 0..MaxSequence /\ MaxSequence \in Nat
    BY <1>8, LatestType, PipelineAssumption DEF TypeInv
  <2>2. CASE OwnsTheSite(s)
    <3>1. Becomes(w, "call", s, exec[w].run, WithStatus(exec[w].steps, s, "RUNNING"), 0, LatestOf(s), LatestStatus(s))
      BY <1>8, <2>2, StartingMoves
    <3>2. UNCHANGED action /\ \A x \in Effects : InOrder(x)'
      BY <1>8, <2>2 DEF Start, OperationsInv, InOrder
    <3>3. Done(exec'[w]) => action'[<<exec'[w].at, exec'[w].op>>] = "SUCCEEDED"
      BY <3>1, <3>2 DEF Becomes, Done, LatestStatus
    <3> QED
      BY <1>0, <3>2, <3>3, OperationsKept DEF OperationsInv
  <2>3. CASE ~OwnsTheSite(s)
    <3>1. Becomes(w, "call", s, exec[w].run, WithStatus(exec[w].steps, s, "RUNNING"), 0, LatestOf(s) + 1, "PENDING")
      BY <1>8, <2>3, StartingMoves
    <3>2. Actions!OpenAction(<<s, LatestOf(s) + 1>>) /\ LatestOf(s) + 1 <= MaxSequence
      BY <1>8, <2>3 DEF Start
    <3>3. /\ \A x \in Effects : InOrder(x)'
          /\ \A p \in Operations : p # <<s, LatestOf(s) + 1>> => action'[p] = action[p]
      BY <1>8, <2>3, <3>2, OpenKeepsOrder DEF TypeInv, OperationsInv
    <3>4. \A p \in Operations : action[p] = "SUCCEEDED" => action'[p] = "SUCCEEDED"
      BY <3>2, <3>3 DEF Actions!OpenAction
    <3>5. \A p \in applied' : action'[p] = "SUCCEEDED"
      BY <1>0, <3>4 DEF OperationsInv, TypeInv, TypeOK
    <3>6. ~Done(exec'[w])
      BY <3>1 DEF Becomes, Done
    <3> QED
      BY <1>0, <3>3, <3>4, <3>5, <3>6, OperationsKept
  <2> QED
    BY <2>2, <2>3
<1> QED
  BY <1>2, <1>3, <1>4, <1>5, <1>6, <1>7, <1>8 DEF Advances

LEMMA WorksOperations ==
    ASSUME TypeInv, OperationsInv, NEW w \in Workers, Works(w)
    PROVE  OperationsInv'
<1> DEFINE o == <<exec[w].at, exec[w].op>>
<1>0. \A v \in Workers : v # w => exec'[v] = exec[v]
  <2>1. PICK new : exec' = [exec EXCEPT ![w] = new]
    BY WorksFrame
  <2> QED
    BY <2>1 DEF TypeInv, TypeOK
<1>1. Gone(w) => ~Done(exec'[w])
  BY DEF Gone, Done
<1>2. exec[w].pc \in {"call", "answer"} \/ Done(exec[w]) => o \in Operations
  BY DEF TypeInv, InHand, Operations, Done, Asking
<1>3. CASE AlreadyDone(w)
  <2>1. UNCHANGED <<action, applied>> /\ Done(exec[w])
    BY <1>3 DEF AlreadyDone, actionVars, Runs, Done
  <2>2. exec'[w].at = exec[w].at /\ exec'[w].op = exec[w].op
    BY <1>3, WorksMoves DEF Becomes
  <2>3. \A s \in Effects : InOrder(s)'
    BY <2>1 DEF OperationsInv, InOrder
  <2> QED
    BY <1>0, <2>1, <2>2, <2>3, OperationsKept DEF OperationsInv
<1>4. CASE Call(w)
  <2>1. action[o] = "PENDING" /\ action' = [action EXCEPT ![o] = "CALLING"] /\ UNCHANGED applied /\ o \in Operations
    BY <1>2, <1>4 DEF Call, Actions!BeginCall, Runs
  <2>2. ~Done(exec'[w])
    BY <1>4, WorksMoves DEF Becomes, Done
  <2> QED
    BY <1>0, <2>1, <2>2, OperationsMoved DEF OpenStatuses, Actions!ActionStatuses
<1>5. CASE CallDisabled(w) \/ CallRefused(w) \/ AnswerRefused(w) \/ WorkFails(w)
  <2>1. Gone(w) /\ UNCHANGED <<action, applied>>
    BY <1>5, WorksMoves DEF CallDisabled, CallRefused, AnswerRefused, WorkFails, actionVars
  <2> QED
    BY <1>0, <1>1, <2>1, OperationsUntouched
<1>6. CASE NotAnswered(w)
  <2>1. /\ action[o] = "CALLING" /\ action' = [action EXCEPT ![o] = "UNKNOWN_OUTCOME"]
        /\ UNCHANGED applied /\ o \in Operations /\ Gone(w)
    BY <1>2, <1>6, WorksMoves DEF NotAnswered, Actions!IsLost, Runs
  <2> QED
    BY <1>0, <1>1, <2>1, OperationsMoved DEF OpenStatuses, Actions!ActionStatuses
<1>7. CASE Answered(w)
  <2>1. o \in Operations /\ UNCHANGED applied
    BY <1>2, <1>7 DEF Answered, Runs
  <2>2. CASE Actions!Succeeds(o) /\ exec'[w].at = exec[w].at /\ exec'[w].op = exec[w].op
    <3>1. action[o] \in OpenStatuses /\ action' = [action EXCEPT ![o] = "SUCCEEDED"]
      BY <2>2 DEF Actions!Succeeds, OpenStatuses
    <3>2. <<exec'[w].at, exec'[w].op>> = o
      BY <2>2
    <3> QED
      BY <1>0, <2>1, <3>1, <3>2, OperationsMoved DEF Actions!ActionStatuses
  <2>3. CASE Actions!Fails(o) /\ Gone(w)
    <3>1. action[o] \in OpenStatuses /\ action' = [action EXCEPT ![o] = "FAILED_CONFIRMED"]
      BY <2>3 DEF Actions!Fails, OpenStatuses
    <3> QED
      BY <1>0, <1>1, <2>1, <2>3, <3>1, OperationsMoved DEF Actions!ActionStatuses
  <2> QED
    BY <1>7, <2>2, <2>3, WorksMoves DEF Becomes
<1>8. ASSUME NEW advice \in Recommendations, Work(w, advice) PROVE OperationsInv'
  <2>1. UNCHANGED action /\ applied' \subseteq applied \cup {p \in {o} : exec[w].at \in Effects}
    BY <1>8 DEF Work
  <2>2. exec[w].at \in Effects => action[o] = "SUCCEEDED"
    BY <1>8 DEF Work, Runs, Done, OperationsInv
  <2>3. \A p \in applied' : action'[p] = "SUCCEEDED"
    BY <2>1, <2>2 DEF OperationsInv
  <2>4. ~Done(exec'[w])
    BY <1>8, WorksMoves DEF Becomes, Done
  <2>5. \A s \in Effects : InOrder(s)'
    BY <2>1 DEF OperationsInv, InOrder
  <2> QED
    BY <1>0, <2>1, <2>3, <2>4, <2>5, OperationsKept
<1>9. CASE WorkHalts(w)
  <2>1. UNCHANGED <<action, applied>> /\ ~Done(exec'[w])
    BY <1>9, WorksMoves DEF WorkHalts, actionVars, Becomes, Done
  <2> QED
    BY <1>0, <2>1, OperationsUntouched
<1> QED
  BY <1>3, <1>4, <1>5, <1>6, <1>7, <1>8, <1>9 DEF Works

\* What the sweep and people move is open.
LEMMA ReconcileMoves ==
    ASSUME TypeInv, OperationsInv, NEW o \in Operations, Reconcile(o)
    PROVE  \E status \in Actions!ActionStatuses \ {"NONE", "PENDING", "CALLING"} :
             /\ action[o] \in OpenStatuses /\ action' = [action EXCEPT ![o] = status]
             /\ status = "UNKNOWN_OUTCOME" => action[o] = "CALLING"
  BY DEF Reconcile, Actions!Fails, Actions!Succeeds, Actions!IsLost, OpenStatuses, Actions!ActionStatuses

LEMMA OperationsStep ==
    ASSUME TypeInv, OperationsInv, [Next]_vars
    PROVE  OperationsInv'
<1>1. ASSUME NEW w \in Workers, Leaves(w) PROVE OperationsInv'
  <2>1. PICK new : exec' = [exec EXCEPT ![w] = new]
    BY <1>1, LeavesFrame
  <2>2. \A v \in Workers : v # w => exec'[v] = exec[v]
    BY <2>1 DEF TypeInv, TypeOK
  <2>3. ~Done(exec'[w])
    BY <1>1, LeavesMoves DEF Gone, Done
  <2> QED
    BY <1>1, <2>2, <2>3, LeavesFrame, OperationsUntouched
<1>2. ASSUME NEW o \in Operations, Reconcile(o) PROVE OperationsInv'
  <2>1. PICK status \in Actions!ActionStatuses \ {"NONE", "PENDING", "CALLING"} :
          action[o] \in OpenStatuses /\ action' = [action EXCEPT ![o] = status]
    BY <1>2, ReconcileMoves
  <2>2. UNCHANGED <<exec, applied>>
    BY <1>2 DEF Reconcile
  <2>3. /\ \A s \in Effects : InOrder(s)'
        /\ \A p \in Operations : p # o => action'[p] = action[p]
    BY <2>1, MoveKeepsOrder DEF TypeInv, OperationsInv
  <2>4. \A p \in Operations : action[p] = "SUCCEEDED" => action'[p] = "SUCCEEDED"
    BY <2>1, <2>3 DEF OpenStatuses
  <2>5. \A v \in Workers : Done(exec[v]) => <<exec[v].at, exec[v].op>> \in Operations
    BY DEF TypeInv, InHand, Operations, Done, Asking
  <2> QED
    BY <2>2, <2>3, <2>4, <2>5 DEF OperationsInv, TypeInv, TypeOK
<1>3. CASE UNCHANGED <<action, applied, exec>>
  BY <1>3 DEF OperationsInv, InOrder
<1>4. Reap \/ People \/ UNCHANGED vars => UNCHANGED <<action, applied, exec>>
  BY DEF Reap, People, enqueue_or_replay, resume_run, cancel_run, AnswerPostHoc, AnswerReview, SwitchTo, actionVars, vars
<1> QED
  BY <1>1, <1>2, <1>3, <1>4, AdvancesOperations, WorksOperations DEF Next

-----------------------------------------------------------------------------
(* What is left behind is done or denied, and its outcome known *)

\* While one worker executes the run, the others are idle.
LEMMA OthersIdle ==
    ASSUME TypeInv, OneExecutor, NEW w \in Workers, WorkerSteps(w)
    PROVE  \A v \in Workers : v # w => exec'[v].pc = "idle"
<1>1. PICK new : exec' = [exec EXCEPT ![w] = new]
  BY AdvancesFrame, WorksFrame, LeavesFrame DEF WorkerSteps
<1>2. Active(w) \/ job.status = "QUEUED"
  BY AdvancesFrame, WorksFrame, LeavesFrame DEF WorkerSteps, Claim
<1>3. \A v \in Workers : v # w => ~Active(v)
  BY <1>2 DEF OneExecutor
<1> QED
  BY <1>1, <1>3 DEF TypeInv, TypeOK, Active, Runs

\* What the one executor becomes is all that counts.
LEMMA OneGoesOn ==
    ASSUME NEW w \in Workers, \A v \in Workers : v # w => exec'[v].pc = "idle",
           DoneIsRecorded', CompletedPassed', UpToDate(w)', Behind(w)'
    PROVE  ProgressInv'
<1>1. ASSUME NEW v \in Workers, v # w PROVE UpToDate(v)' /\ Behind(v)'
  <2>1. exec'[v].pc = "idle"
    BY <1>1
  <2> QED
    BY <2>1 DEF UpToDate, Behind, Done, Going, AtStep
<1> QED
  BY <1>1 DEF ProgressInv

\* It goes away,
LEMMA Departs ==
    ASSUME NEW w \in Workers, \A v \in Workers : v # w => exec'[v].pc = "idle", Gone(w),
           DoneIsRecorded', CompletedPassed'
    PROVE  ProgressInv'
<1>1. UpToDate(w)' /\ Behind(w)'
  BY DEF Gone, UpToDate, Behind, Done, Going, AtStep
<1> QED
  BY <1>1, OneGoesOn

\* is still at its step,
LEMMA StaysAt ==
    ASSUME NEW w \in Workers, \A v \in Workers : v # w => exec'[v].pc = "idle",
           NEW s \in Steps, exec'[w].pc \in AtStep, exec'[w].at = s, exec'[w].steps = step',
           run' \in {"RUNNING", "CANCELLED"}, DoneIsRecorded', \A x \in Steps : x < s => Passed(x)',
           step'[s].status # "COMPLETED",
           exec'[w].pc \in {"deny", "denied"} => LatestStatus(s)' # "CALLING",
           exec'[w].pc = "denied" => step'[s].status = "DENIED",
           exec'[w].pc \in {"call", "answer"} \/ Done(exec'[w]) => exec'[w].op = LatestOf(s)'
    PROVE  ProgressInv'
<1>1. UpToDate(w)'
  BY DEF UpToDate, AtStep, Going
<1>2. Behind(w)'
  BY DEF Behind, AtStep, Going
<1>3. CompletedPassed'
  BY DEF CompletedPassed
<1> QED
  BY <1>1, <1>2, <1>3, OneGoesOn

\* or has it behind.
LEMMA PassesOn ==
    ASSUME NEW w \in Workers, \A v \in Workers : v # w => exec'[v].pc = "idle",
           NEW s \in Steps, exec'[w].pc = "next", exec'[w].at = s + 1, exec'[w].steps = step',
           run' \in {"RUNNING", "CANCELLED"}, DoneIsRecorded', \A x \in Steps : x < s => Passed(x)', Passed(s)'
    PROVE  ProgressInv'
<1>1. UpToDate(w)'
  BY DEF UpToDate
<1>2. \A x \in Steps : x < s + 1 => Passed(x)'
  BY PipelineAssumption DEF Steps
<1>3. Behind(w)'
  BY <1>2 DEF Behind, AtStep, Going, Done
<1>4. CompletedPassed'
  BY DEF CompletedPassed
<1> QED
  BY <1>1, <1>3, <1>4, OneGoesOn

\* Where the operations stay, the last ones do.
LEMMA SameLatest ==
    ASSUME TypeInv, UNCHANGED action
    PROVE  \A x \in Effects : LatestOf(x)' = LatestOf(x) /\ LatestStatus(x)' = LatestStatus(x)
  BY SameOperations DEF TypeInv

\* Where an operation of a step moves, those of the others stay.
LEMMA OneMoves ==
    ASSUME TypeInv, OperationsInv, NEW s \in Effects, NEW n \in 1..MaxSequence, action[<<s, n>>] \in OpenStatuses,
           NEW status \in Actions!ActionStatuses \ {"NONE"}, action' = [action EXCEPT ![<<s, n>>] = status]
    PROVE  /\ \A x \in Effects : x # s => LatestOf(x)' = LatestOf(x) /\ LatestStatus(x)' = LatestStatus(x)
           /\ LatestOf(s)' = LatestOf(s)
           /\ n = LatestOf(s) /\ LatestStatus(s)' = status
<1>1. /\ <<s, n>> \in Operations
      /\ \A x \in Effects : LatestOf(x)' = LatestOf(x)
      /\ \A p \in Operations : p # <<s, n>> => action'[p] = action[p]
      /\ action'[<<s, n>>] = status
  <2>1. <<s, n>> \in Operations
    BY DEF Operations
  <2> DEFINE o == <<s, n>>
  <2>2. o \in Operations /\ action[o] \in OpenStatuses /\ action' = [action EXCEPT ![o] = status]
    BY <2>1
  <2> HIDE DEF o
  <2>3. /\ \A x \in Effects : LatestOf(x)' = LatestOf(x)
        /\ \A p \in Operations : p # o => action'[p] = action[p]
        /\ action'[o] = status
    BY <2>2, MoveKeepsOrder DEF TypeInv, OperationsInv
  <2> QED
    BY <2>1, <2>3 DEF o
<1>2. ASSUME NEW x \in Effects, x # s PROVE LatestOf(x)' = LatestOf(x) /\ LatestStatus(x)' = LatestStatus(x)
  <2>1. \A k \in 1..MaxSequence : action'[<<x, k>>] = action[<<x, k>>]
    BY <1>1, <1>2 DEF Operations
  <2> QED
    BY <2>1, SameOperations DEF TypeInv
<1>3. n = LatestOf(s)
  <2>1. InOrder(s) /\ MaxSequence \in Nat
    BY PipelineAssumption DEF OperationsInv
  <2>2. /\ LatestOf(s) \in 0..MaxSequence
        /\ \A k \in 1..MaxSequence : action[<<s, k>>] # "NONE" <=> k <= LatestOf(s)
    BY <2>1, LatestIsLast
  <2>3. n <= LatestOf(s)
    BY <2>2 DEF OpenStatuses
  <2>4. CASE n < LatestOf(s)
    <3>1. LatestOf(s) \in 1..MaxSequence /\ action[<<s, LatestOf(s)>>] # "NONE"
      BY <2>1, <2>2, <2>4
    <3>2. action[<<s, n>>] \in {"SUCCEEDED", "FAILED_CONFIRMED"}
      BY <2>1, <2>4, <3>1 DEF InOrder
    <3> QED
      BY <3>2 DEF OpenStatuses
  <2> QED
    BY <2>1, <2>2, <2>3, <2>4
<1>4. LatestStatus(s)' = status
  BY <1>1, <1>3 DEF LatestStatus
<1> QED
  BY <1>1, <1>2, <1>3, <1>4

\* A change of one step leaves the others as they were.
LEMMA OnlyHere ==
    ASSUME TypeInv, ProgressInv, NEW s \in Steps,
           \A x \in Steps : x < s => step'[x] = step[x],
           \A x \in Steps : x # s /\ step'[x].status = "COMPLETED" => step[x].status = "COMPLETED",
           \A x \in Effects : x # s => LatestOf(x)' = LatestOf(x) /\ LatestStatus(x)' = LatestStatus(x),
           applied \subseteq applied',
           s \in Effects /\ step'[s].status = "COMPLETED" => <<s, LatestOf(s)'>> \in applied'
    PROVE  DoneIsRecorded' /\ \A x \in Steps : x < s /\ Passed(x) => Passed(x)'
<1>0. Effects \subseteq Steps
  BY PipelineAssumption
<1>1. DoneIsRecorded'
  <2> SUFFICES ASSUME NEW x \in Effects, step'[x].status = "COMPLETED" PROVE <<x, LatestOf(x)'>> \in applied'
    BY DEF DoneIsRecorded
  <2>1. CASE x = s
    BY <2>1
  <2>2. CASE x # s
    <3>1. step[x].status = "COMPLETED" /\ LatestOf(x)' = LatestOf(x)
      BY <1>0, <2>2
    <3> QED
      BY <3>1 DEF ProgressInv, DoneIsRecorded
  <2> QED
    BY <2>1, <2>2
<1>2. ASSUME NEW x \in Steps, x < s, Passed(x) PROVE Passed(x)'
  <2>1. x # s /\ step'[x] = step[x]
    BY <1>2, PipelineAssumption DEF Steps
  <2>2. x \in Effects => LatestStatus(x)' = LatestStatus(x)
    BY <2>1
  <2> QED
    BY <1>2, <2>1, <2>2 DEF Passed, InTheAir
<1> QED
  BY <1>1, <1>2

\* What an up-to-date session writes is what the rows become.
LEMMA StepsWritten ==
    ASSUME TypeInv, NEW w \in Workers, exec[w].steps = step, NEW new \in [Steps -> StepRows], SetSteps(w, new)
    PROVE  step' = new
<1>1. \A s \in Steps : step[s] \in StepRows /\ new[s] \in StepRows
  BY DEF TypeInv, TypeOK
<1>2. \A s \in Steps : Written(step[s], exec[w].steps[s], new[s]) = new[s]
  BY <1>1 DEF Written, StepRows
<1> QED
  BY <1>2 DEF SetSteps

LEMMA AtItsStep ==
    ASSUME TypeInv, ProgressInv, NEW w \in Workers, exec[w].pc \in AtStep
    PROVE  /\ exec[w] \in Executing /\ exec[w].at \in Steps
           /\ exec[w].steps = step /\ run \in {"RUNNING", "CANCELLED"}
           /\ \A x \in Steps : x < exec[w].at => Passed(x)
           /\ step[exec[w].at].status # "COMPLETED"
<1>1. exec[w].pc \in Going /\ exec[w].pc \in ExecutingAt
  BY DEF AtStep, ExecutingAt
<1> QED
  BY <1>1, ExecutingType DEF TypeInv, InHand, ProgressInv, UpToDate, Behind

\* Where nothing moves but who executes.
LEMMA NothingMoves ==
    ASSUME TypeInv, ProgressInv, UNCHANGED <<step, action, applied>>
    PROVE  /\ DoneIsRecorded' /\ \A x \in Steps : Passed(x)' = Passed(x)
           /\ run' # "COMPLETED" \/ run' = run => CompletedPassed'
<1>1. \A x \in Effects : LatestOf(x)' = LatestOf(x) /\ LatestStatus(x)' = LatestStatus(x)
  BY SameLatest
<1>2. DoneIsRecorded'
  BY <1>1 DEF ProgressInv, DoneIsRecorded
<1>3. \A x \in Steps : Passed(x)' = Passed(x)
  BY <1>1 DEF Passed, InTheAir
<1> QED
  BY <1>2, <1>3 DEF ProgressInv, CompletedPassed

LEMMA BeginningProgress ==
    ASSUME TypeInv, OperationsInv, ProgressInv, OneExecutor, NEW w \in Workers,
           Claim(w) \/ Load(w) \/ Disable(w) \/ Begin(w) \/ Lost(w)
    PROVE  ProgressInv'
<1>1. \A v \in Workers : v # w => exec'[v].pc = "idle"
  BY OthersIdle DEF WorkerSteps, Advances
<1>2. UNCHANGED <<step, action, applied>>
  BY DEF Claim, Load, Disable, Begin, Lost, runVars, actionVars
<1>3. DoneIsRecorded' /\ (run' # "COMPLETED" \/ run' = run => CompletedPassed')
  BY <1>2, NothingMoves
<1>4. CASE Gone(w)
  <2>1. ~Begin(w) /\ ~Claim(w)
    BY <1>4, BeginningMoves DEF Becomes, Gone
  <2>2. run' # "COMPLETED" \/ run' = run
    BY <2>1 DEF Load, Disable, Lost, SetRun, runVars
  <2> QED
    BY <1>1, <1>3, <1>4, <2>2, Departs
<1>5. CASE Claim(w)
  <2>1. exec'[w].pc = "load" /\ exec'[w].at = 1 /\ run' = run
    BY <1>5, BeginningMoves DEF Becomes, Claim
  <2>2. UpToDate(w)' /\ Behind(w)'
    BY <2>1 DEF UpToDate, Behind, Going, AtStep, Done
  <2> QED
    BY <1>1, <1>3, <2>1, <2>2, OneGoesOn
<1>6. CASE Load(w) /\ ~Gone(w)
  <2>1. exec'[w].pc \in {"begin", "disable"} /\ exec'[w].at = exec[w].at /\ exec'[w].run = run /\ run' = run
    BY <1>6, BeginningMoves DEF Becomes, Load, runVars
  <2>2. exec[w].at = 1
    BY <1>6 DEF Load, Runs, ProgressInv, Behind
  <2>3. UpToDate(w)' /\ Behind(w)'
    BY <2>1, <2>2 DEF UpToDate, Behind, Going, AtStep, Done
  <2> QED
    BY <1>1, <1>3, <2>1, <2>3, OneGoesOn
<1>7. CASE Begin(w)
  <2>1. exec'[w].pc = "next" /\ exec'[w].at = exec[w].at /\ exec'[w].steps = step
    BY <1>7, BeginningMoves DEF Becomes
  <2>2. exec[w].at = 1
    BY <1>7 DEF Begin, Runs, ProgressInv, Behind
  <2>3. run' \in {"RUNNING", "CANCELLED"}
    BY <1>7 DEF Begin, Runs, SetRun, ProgressInv, UpToDate
  <2>4. \A x \in Steps : ~(x < 1)
    BY PipelineAssumption DEF Steps
  <2>5. UpToDate(w)' /\ Behind(w)'
    BY <1>2, <2>1, <2>2, <2>3, <2>4 DEF UpToDate, Behind, Going, AtStep, Done
  <2> QED
    BY <1>1, <1>3, <2>3, <2>5, OneGoesOn
<1> QED
  BY <1>4, <1>5, <1>6, <1>7, BeginningMoves

LEMMA NextStepProgress ==
    ASSUME TypeInv, OperationsInv, ProgressInv, OneExecutor, NEW w \in Workers, NextStep(w)
    PROVE  ProgressInv'
<1> DEFINE at == exec[w].at
<1>1. \A v \in Workers : v # w => exec'[v].pc = "idle"
  BY OthersIdle DEF WorkerSteps, Advances
<1>2. UNCHANGED <<run, step, action, applied>>
  BY DEF NextStep, runVars, actionVars
<1>3. DoneIsRecorded' /\ CompletedPassed' /\ \A x \in Steps : Passed(x)' = Passed(x)
  BY <1>2, NothingMoves
<1>4. /\ exec[w] \in Executing /\ exec[w].steps = step /\ run \in {"RUNNING", "CANCELLED"}
      /\ \A x \in Steps : x < at => Passed(x)
  BY ExecutingType DEF NextStep, Runs, ExecutingAt, Going, TypeInv, ProgressInv, UpToDate, Behind
<1>5. ASSUME NEW x \in Steps, step[x].status = "COMPLETED" PROVE Passed(x)
  <2>1. ASSUME x \in Effects PROVE ~InTheAir(x)
    <3>1. <<x, LatestOf(x)>> \in applied
      BY <1>5, <2>1 DEF ProgressInv, DoneIsRecorded
    <3>2. action[<<x, LatestOf(x)>>] = "SUCCEEDED"
      BY <3>1 DEF OperationsInv
    <3> QED
      BY <3>2 DEF InTheAir, LatestStatus
  <2> QED
    BY <1>5, <2>1 DEF Passed
<1>6. at \in Int /\ N \in Nat /\ \A x \in Steps : x \in Int /\ x <= N
  BY <1>4, PipelineAssumption DEF Steps, Executing
<1>7. CASE Gone(w)
  BY <1>1, <1>3, <1>7, Departs
<1>8. CASE /\ \A s \in at..N : exec[w].steps[s].status = "COMPLETED"
           /\ Becomes(w, "settle", at, exec[w].run, exec[w].steps, exec[w].review, exec[w].op, exec[w].seen)
  <2>1. \A x \in Steps : Passed(x)
    <3> SUFFICES ASSUME NEW x \in Steps PROVE Passed(x)
      OBVIOUS
    <3>1. x < at \/ x \in at..N
      BY <1>6
    <3> QED
      BY <1>4, <1>5, <1>8, <3>1
  <2>2. UpToDate(w)' /\ Behind(w)'
    BY <1>2, <1>3, <1>4, <1>8, <2>1 DEF UpToDate, Behind, Becomes, Going, AtStep, Done
  <2> QED
    BY <1>1, <1>3, <2>2, OneGoesOn
<1>9. ASSUME NEW s \in at..N,
             exec[w].steps[s].status # "COMPLETED",
             \A x \in at..N : x < s => exec[w].steps[x].status = "COMPLETED",
             s \in Steps,
             Becomes(w, IF s \in Effects THEN "gate" ELSE "start", s, run, exec[w].steps, exec[w].review,
                     exec[w].op, exec[w].seen)
      PROVE  ProgressInv'
  <2>1. ASSUME NEW x \in Steps, x < s PROVE Passed(x)
    <3>1. x < at \/ x \in at..N
      BY <1>6
    <3> QED
      BY <1>4, <1>5, <1>9, <2>1, <3>1
  <2>2. /\ exec'[w].pc \in {"gate", "start"} /\ exec'[w].at = s /\ exec'[w].steps = step'
        /\ run' \in {"RUNNING", "CANCELLED"} /\ step'[s].status # "COMPLETED"
    BY <1>2, <1>4, <1>9 DEF Becomes
  <2>3. exec'[w].pc \in AtStep /\ ~Done(exec'[w])
    BY <2>2 DEF AtStep, Going, Done
  <2>4. \A x \in Steps : x < s => Passed(x)'
    BY <1>3, <2>1
  <2> QED
    BY <1>1, <1>3, <1>9, <2>2, <2>3, <2>4, StaysAt
<1> QED
  BY <1>7, <1>8, <1>9, NextStepMoves

LEMMA GateProgress ==
    ASSUME TypeInv, OperationsInv, ProgressInv, OneExecutor, NEW w \in Workers,
           NEW funded \in BOOLEAN, Gate(w, funded)
    PROVE  ProgressInv'
<1>0. exec[w].pc \in AtStep /\ exec[w].at \in Effects
  BY DEF Gate, Runs, AtStep, Going, TypeInv, InHand, Asking
<1> PICK s \in Effects : s = exec[w].at
  BY <1>0
<1> DEFINE n == LatestOf(s)
<1>1. \A v \in Workers : v # w => exec'[v].pc = "idle"
  BY OthersIdle DEF WorkerSteps, Advances
<1>2. UNCHANGED <<run, step, applied>>
  BY DEF Gate, runVars
<1>4. /\ s \in Steps /\ exec[w].steps = step /\ run \in {"RUNNING", "CANCELLED"}
      /\ \A x \in Steps : x < s => Passed(x)
      /\ step[s].status # "COMPLETED"
  BY <1>0, AtItsStep
<1>5. PICK pc \in {"start", "deny", "await"} :
        /\ exec'[w].pc = pc /\ exec'[w].at = s /\ exec'[w].steps = step
        /\ pc = "deny" => ~Unrecorded(s)
        /\ \/ UNCHANGED action /\ (~Unrecorded(s) => LatestStatus(s) # "CALLING")
           \/ LatestStatus(s) = "CALLING" /\ action' = [action EXCEPT ![<<s, n>>] = "UNKNOWN_OUTCOME"]
  BY <1>4, GateMoves DEF Becomes
<1>6. /\ \A x \in Effects : x # s => LatestOf(x)' = LatestOf(x) /\ LatestStatus(x)' = LatestStatus(x)
      /\ pc = "deny" => LatestStatus(s)' # "CALLING"
  <2>1. CASE UNCHANGED action /\ (~Unrecorded(s) => LatestStatus(s) # "CALLING")
    BY <1>5, <2>1, SameLatest
  <2>2. CASE LatestStatus(s) = "CALLING" /\ action' = [action EXCEPT ![<<s, n>>] = "UNKNOWN_OUTCOME"]
    <3>1. n \in 1..MaxSequence /\ action[<<s, n>>] \in OpenStatuses
      BY <2>2, LatestType, PipelineAssumption DEF TypeInv, LatestStatus, OpenStatuses
    <3>3. "UNKNOWN_OUTCOME" \in Actions!ActionStatuses \ {"NONE"}
      BY DEF Actions!ActionStatuses
    <3>4. action' = [action EXCEPT ![<<s, n>>] = "UNKNOWN_OUTCOME"]
      BY <2>2
    <3> HIDE DEF n
    <3>2. /\ \A x \in Effects : x # s => LatestOf(x)' = LatestOf(x) /\ LatestStatus(x)' = LatestStatus(x)
          /\ LatestStatus(s)' = "UNKNOWN_OUTCOME"
      BY <3>1, <3>3, <3>4, OneMoves
    <3> QED
      BY <3>2
  <2> QED
    BY <1>5, <2>1, <2>2
<1>7. DoneIsRecorded' /\ \A x \in Steps : x < s => Passed(x)'
  BY <1>2, <1>4, <1>6, OnlyHere
<1>8. exec'[w].pc \in AtStep /\ ~Done(exec'[w]) /\ exec'[w].pc \notin {"denied", "call", "answer"}
  BY <1>5 DEF AtStep, Going, Done
<1> QED
  BY <1>1, <1>2, <1>4, <1>5, <1>6, <1>7, <1>8, StaysAt

LEMMA AskingProgress ==
    ASSUME TypeInv, OperationsInv, ProgressInv, OneExecutor, NEW w \in Workers,
           Deny(w) \/ Denied(w) \/ Await(w) \/ Ask(w) \/ AskedBefore(w) \/ Waits(w)
    PROVE  ProgressInv'
<1> DEFINE s == exec[w].at
<1>1. \A v \in Workers : v # w => exec'[v].pc = "idle"
  BY OthersIdle DEF WorkerSteps, Advances
<1>2. UNCHANGED <<action, applied>>
  BY DEF Deny, Denied, Await, Ask, AskedBefore, Waits, actionVars
<1>3. exec[w].pc \in AtStep /\ exec[w].pc \in Asking
  BY DEF Deny, Denied, Await, Ask, AskedBefore, Waits, Runs, AtStep, Going, Asking
<1>4. /\ s \in Steps /\ exec[w].steps = step /\ run \in {"RUNNING", "CANCELLED"}
      /\ \A x \in Steps : x < s => Passed(x)
      /\ step[s].status # "COMPLETED"
      /\ step \in [Steps -> StepRows]
  BY <1>3, AtItsStep DEF TypeInv, TypeOK
<1>5. \A x \in Effects : LatestOf(x)' = LatestOf(x) /\ LatestStatus(x)' = LatestStatus(x)
  BY <1>2, SameLatest
<1>6. ASSUME NEW pc \in {"denied", "ask"}, NEW status \in {"DENIED", "WAITING_APPROVAL"},
             SetSteps(w, WithStatus(exec[w].steps, s, status)), run' = run,
             exec'[w].pc = pc, exec'[w].at = s, exec'[w].steps = WithStatus(exec[w].steps, s, status),
             pc = "denied" => status = "DENIED" /\ exec[w].pc = "deny"
      PROVE  ProgressInv'
  <2> DEFINE steps == WithStatus(exec[w].steps, s, status)
  <2>1. steps \in [Steps -> StepRows]
    BY <1>4, WithStatusType DEF StepStatuses
  <2>2. step' = steps
    BY <1>4, <1>6, <2>1, StepsWritten
  <2>3. steps[s].status = status /\ \A x \in Steps : x # s => steps[x] = step[x]
    BY <1>4 DEF WithStatus, StepRows
  <2>4. DoneIsRecorded' /\ \A x \in Steps : x < s => Passed(x)'
    <3>1. \A x \in Steps : x < s => x # s
      BY PipelineAssumption DEF Steps
    <3> HIDE DEF steps
    <3> QED
      BY <1>2, <1>4, <1>5, <2>2, <2>3, <3>1, OnlyHere
  <2>5. s \in Effects /\ (exec[w].pc = "deny" => LatestStatus(s) # "CALLING")
    BY <1>3 DEF TypeInv, InHand, ProgressInv, Behind
  <2>6. exec'[w].pc \in AtStep /\ ~Done(exec'[w]) /\ exec'[w].pc \notin {"call", "answer", "deny"}
    BY <1>6 DEF AtStep, Going, Done
  <2> QED
    BY <1>1, <1>4, <1>5, <1>6, <2>2, <2>3, <2>4, <2>5, <2>6, StaysAt
<1>7. CASE Deny(w)
  BY <1>6, <1>7, AskingMoves DEF Deny, Becomes, Runs
<1>8. CASE Await(w)
  BY <1>6, <1>8, AskingMoves DEF Await, Becomes
<1>9. CASE step' = step /\ Gone(w)
  <2>1. run' # "COMPLETED"
    BY <1>4, <1>9 DEF Deny, Denied, Await, Ask, AskedBefore, Waits, SetRun, runVars
  <2> QED
    BY <1>1, <1>2, <1>9, <2>1, NothingMoves, Departs
<1>10. CASE Denied(w) /\ ~Gone(w)
  <2>1. /\ LatestStatus(s) # "UNKNOWN_OUTCOME" /\ run' = run /\ step' = step
        /\ exec'[w].pc = "next" /\ exec'[w].at = s + 1 /\ exec'[w].steps = step
    BY <1>4, <1>10, AskingMoves DEF Becomes, Denied
  <2>2. Passed(s)
    BY <1>10, <2>1 DEF Denied, Runs, ProgressInv, Behind, Passed, InTheAir
  <2>3. DoneIsRecorded' /\ \A x \in Steps : Passed(x)' = Passed(x)
    BY <1>2, <2>1, NothingMoves
  <2> QED
    BY <1>1, <1>4, <2>1, <2>2, <2>3, PassesOn
<1>11. CASE AskedBefore(w)
  <2>1. run' = run /\ step' = step /\ exec'[w].pc = "asked" /\ exec'[w].at = s /\ exec'[w].steps = step
    BY <1>4, <1>11, AskingMoves DEF Becomes, AskedBefore, runVars
  <2>2. DoneIsRecorded' /\ \A x \in Steps : Passed(x)' = Passed(x)
    BY <1>2, <2>1, NothingMoves
  <2>3. exec'[w].pc \in AtStep /\ ~Done(exec'[w])
    BY <2>1 DEF AtStep, Going, Done
  <2> QED
    BY <1>1, <1>4, <2>1, <2>2, <2>3, StaysAt
<1> QED
  BY <1>7, <1>8, <1>9, <1>10, <1>11, AskingMoves DEF Denied, Ask, Waits

LEMMA StartingProgress ==
    ASSUME TypeInv, OperationsInv, ProgressInv, OneExecutor, NEW w \in Workers,
           Start(w) \/ StartRefused(w) \/ BudgetExhausted(w)
    PROVE  ProgressInv'
<1>1. \A v \in Workers : v # w => exec'[v].pc = "idle"
  BY OthersIdle DEF WorkerSteps, Advances
<1>2. UNCHANGED <<run, applied>>
  BY DEF Start, StartRefused, BudgetExhausted, runVars, actionVars
<1>3. exec[w].pc \in AtStep /\ exec[w].pc = "start"
  BY DEF Start, StartRefused, BudgetExhausted, Runs, AtStep, Going
<1> PICK s \in Steps : s = exec[w].at
  BY <1>3, AtItsStep
<1>4. /\ exec[w].steps = step /\ run \in {"RUNNING", "CANCELLED"}
      /\ \A x \in Steps : x < s => Passed(x)
      /\ step[s].status # "COMPLETED"
      /\ step \in [Steps -> StepRows]
  BY <1>3, AtItsStep DEF TypeInv, TypeOK
<1>5. \A x \in Steps : x < s => x # s
  BY PipelineAssumption DEF Steps
<1>6. CASE StartRefused(w)
  <2>1. Gone(w) /\ UNCHANGED <<step, action>>
    BY <1>6, StartingMoves DEF StartRefused, runVars, actionVars
  <2> QED
    BY <1>1, <1>2, <2>1, NothingMoves, Departs
<1>7. CASE BudgetExhausted(w)
  <2> DEFINE steps == WithStatus(step, s, "DENIED")
  <2>1. /\ step' = steps /\ UNCHANGED action
        /\ exec'[w].pc = "next" /\ exec'[w].at = s + 1 /\ exec'[w].steps = steps
    BY <1>7, StartingMoves DEF BudgetExhausted, Becomes, actionVars, WithStatus
  <2>2. s \in Effects /\ (LatestStatus(s) = "PENDING" \/ ~OwnsTheSite(s))
    BY <1>7 DEF BudgetExhausted
  <2>3. steps[s].status = "DENIED" /\ \A x \in Steps : x # s => steps[x] = step[x]
    BY <1>4 DEF WithStatus, StepRows
  <2> HIDE DEF steps
  <2>4. \A x \in Effects : LatestOf(x)' = LatestOf(x) /\ LatestStatus(x)' = LatestStatus(x)
    BY <2>1, SameLatest
  <2>5. DoneIsRecorded' /\ \A x \in Steps : x < s => Passed(x)'
    BY <1>2, <1>4, <1>5, <2>1, <2>3, <2>4, OnlyHere
  <2>6. Passed(s)'
    BY <2>1, <2>2, <2>3, <2>4 DEF Passed, InTheAir, OwnsTheSite
  <2> QED
    BY <1>1, <1>2, <1>4, <2>1, <2>5, <2>6, PassesOn
<1>8. CASE Start(w)
  <2> DEFINE steps == WithStatus(step, s, "RUNNING")
  <2>1. steps \in [Steps -> StepRows] /\ steps[s].status = "RUNNING" /\ \A x \in Steps : x # s => steps[x] = step[x]
    <3>1. steps \in [Steps -> StepRows]
      BY <1>4, WithStatusType DEF StepStatuses
    <3> QED
      BY <1>4, <3>1 DEF WithStatus, StepRows
  <2>2. SetSteps(w, steps)
    BY <1>4, <1>8 DEF Start
  <2>3. exec'[w].steps = steps /\ exec'[w].at = s
    BY <1>4, <1>8, StartingMoves DEF Becomes
  <2> HIDE DEF steps
  <2>4. step' = steps
    BY <1>4, <2>1, <2>2, StepsWritten
  <2>5. ASSUME \A x \in Effects : x # s => LatestOf(x)' = LatestOf(x) /\ LatestStatus(x)' = LatestStatus(x)
        PROVE  DoneIsRecorded' /\ \A x \in Steps : x < s => Passed(x)'
    BY <1>2, <1>4, <1>5, <2>1, <2>4, <2>5, OnlyHere
  <2>6. CASE s \notin Effects
    <3>1. UNCHANGED action /\ exec'[w].pc = "work"
      BY <1>8, <2>6, StartingMoves DEF Start, Becomes
    <3>2. DoneIsRecorded' /\ \A x \in Steps : x < s => Passed(x)'
      BY <2>5, <3>1, SameLatest
    <3>3. exec'[w].pc \in AtStep /\ ~Done(exec'[w])
      BY <2>3, <2>6, <3>1 DEF AtStep, Going, Done
    <3> QED
      BY <1>1, <1>2, <1>4, <2>1, <2>3, <2>4, <3>1, <3>2, <3>3, StaysAt
  <2>7. CASE s \in Effects
    <3>1. /\ exec'[w].pc = "call"
          /\ exec'[w].op = IF OwnsTheSite(s) THEN LatestOf(s) ELSE LatestOf(s) + 1
      BY <1>8, <2>7, StartingMoves DEF Becomes
    <3>2. /\ \A x \in Effects : x # s => LatestOf(x)' = LatestOf(x) /\ LatestStatus(x)' = LatestStatus(x)
          /\ exec'[w].op = LatestOf(s)'
      <4>1. CASE OwnsTheSite(s)
        <5>1. UNCHANGED action
          BY <1>8, <2>7, <4>1 DEF Start
        <5> QED
          BY <2>7, <3>1, <4>1, <5>1, SameLatest
      <4>2. CASE ~OwnsTheSite(s)
        <5>1. Actions!OpenAction(<<s, LatestOf(s) + 1>>) /\ LatestOf(s) + 1 <= MaxSequence
          BY <1>8, <2>7, <4>2 DEF Start
        <5> QED
          BY <2>7, <3>1, <4>2, <5>1, OpenKeepsOrder DEF TypeInv, OperationsInv
      <4> QED
        BY <4>1, <4>2
    <3>3. DoneIsRecorded' /\ \A x \in Steps : x < s => Passed(x)'
      BY <2>5, <3>2
    <3>4. exec'[w].pc \in AtStep
      BY <3>1 DEF AtStep, Going
    <3> QED
      BY <1>1, <1>2, <1>4, <2>1, <2>3, <2>4, <3>1, <3>2, <3>3, <3>4, StaysAt
  <2> QED
    BY <2>6, <2>7
<1> QED
  BY <1>6, <1>7, <1>8

LEMMA WorksProgress ==
    ASSUME TypeInv, OperationsInv, ProgressInv, OneExecutor, NEW w \in Workers, Works(w)
    PROVE  ProgressInv'
<1>1. \A v \in Workers : v # w => exec'[v].pc = "idle"
  BY OthersIdle DEF WorkerSteps
<1>2. exec[w].pc \in AtStep
  BY DEF Works, AlreadyDone, Call, CallDisabled, CallRefused, Answered, NotAnswered, AnswerRefused, Work,
         WorkFails, WorkHalts, Runs, AtStep, Going
<1> PICK s \in Steps : s = exec[w].at
  BY <1>2, AtItsStep
<1>3. /\ exec[w] \in Executing /\ exec[w].steps = step /\ run \in {"RUNNING", "CANCELLED"}
      /\ \A x \in Steps : x < s => Passed(x)
      /\ step[s].status # "COMPLETED"
      /\ step \in [Steps -> StepRows]
  BY <1>2, AtItsStep DEF TypeInv, TypeOK
<1>4. \A x \in Steps : x < s => x # s
  BY PipelineAssumption DEF Steps
<1>5. exec[w].pc \in {"call", "answer"} => s \in Effects /\ exec[w].op \in 1..MaxSequence /\ exec[w].op = LatestOf(s)
  BY DEF TypeInv, InHand, ProgressInv, Behind, Asking
\* What a step that is not completed writes leaves those before it behind.
<1>6. ASSUME NEW steps \in [Steps -> StepRows], SetSteps(w, steps),
             \A x \in Steps : x < s => steps[x] = step[x],
             \A x \in Steps : x # s /\ steps[x].status = "COMPLETED" => step[x].status = "COMPLETED",
             steps[s].status # "COMPLETED", applied' = applied,
             \A x \in Effects : x # s => LatestOf(x)' = LatestOf(x) /\ LatestStatus(x)' = LatestStatus(x)
      PROVE  step' = steps /\ DoneIsRecorded' /\ \A x \in Steps : x < s => Passed(x)'
  <2>1. step' = steps
    BY <1>3, <1>6, StepsWritten
  <2> QED
    BY <1>3, <1>6, <2>1, OnlyHere
<1>7. ASSUME NEW status \in {"FAILED", "BLOCKED"}, NEW how, StepFails(w, status, how), applied' = applied, Gone(w),
             \A x \in Effects : x # s => LatestOf(x)' = LatestOf(x) /\ LatestStatus(x)' = LatestStatus(x)
      PROVE  ProgressInv'
  <2> DEFINE steps == WithStatus(step, s, "FAILED")
  <2>1. steps \in [Steps -> StepRows] /\ steps[s].status = "FAILED" /\ \A x \in Steps : x # s => steps[x] = step[x]
    <3>1. steps \in [Steps -> StepRows]
      BY <1>3, WithStatusType DEF StepStatuses
    <3> QED
      BY <1>3, <3>1 DEF WithStatus, StepRows
  <2>2. SetSteps(w, steps) /\ run' # "COMPLETED"
    BY <1>3, <1>7 DEF StepFails, SetRun
  <2> HIDE DEF steps
  <2>3. DoneIsRecorded'
    BY <1>4, <1>6, <1>7, <2>1, <2>2
  <2> QED
    BY <1>1, <1>7, <2>2, <2>3, Departs DEF CompletedPassed
<1>8. ASSUME NEW status \in Actions!ActionStatuses \ {"NONE"}, exec[w].pc \in {"call", "answer"},
             action[<<s, exec[w].op>>] \in OpenStatuses, action' = [action EXCEPT ![<<s, exec[w].op>>] = status]
      PROVE  /\ \A x \in Effects : x # s => LatestOf(x)' = LatestOf(x) /\ LatestStatus(x)' = LatestStatus(x)
             /\ LatestOf(s)' = LatestOf(s)
  <2> PICK n \in 1..MaxSequence : n = exec[w].op
    BY <1>5, <1>8
  <2> QED
    BY <1>5, <1>8, OneMoves
\* The step goes on.
<1>9. ASSUME UNCHANGED <<run, step, applied>>, exec'[w].pc \in {"answer", "work"}, exec'[w].at = s, exec'[w].steps = step,
             exec'[w].op = exec[w].op, exec[w].pc \in {"call", "answer"},
             \A x \in Effects : x # s => LatestOf(x)' = LatestOf(x) /\ LatestStatus(x)' = LatestStatus(x),
             LatestOf(s)' = LatestOf(s)
      PROVE  ProgressInv'
  <2>1. DoneIsRecorded' /\ \A x \in Steps : x < s => Passed(x)'
    BY <1>3, <1>4, <1>9, OnlyHere
  <2>2. exec'[w].pc \in AtStep /\ exec'[w].op = LatestOf(s)'
    BY <1>5, <1>9 DEF AtStep, Going
  <2> QED
    BY <1>1, <1>3, <1>9, <2>1, <2>2, StaysAt
<1>10. CASE AlreadyDone(w)
  <2>1. UNCHANGED <<run, step, action, applied>> /\ exec[w].pc = "call"
    BY <1>10 DEF AlreadyDone, runVars, actionVars, Runs
  <2>2. /\ exec'[w].pc = "work" /\ exec'[w].at = s /\ exec'[w].steps = step /\ exec'[w].op = exec[w].op
    BY <1>3, <1>10, WorksMoves DEF Becomes
  <2> QED
    BY <1>5, <1>9, <2>1, <2>2, SameLatest
<1>11. CASE Call(w)
  <2>1. /\ UNCHANGED <<run, step, applied>> /\ exec[w].pc = "call"
        /\ action[<<s, exec[w].op>>] = "PENDING" /\ action' = [action EXCEPT ![<<s, exec[w].op>>] = "CALLING"]
    BY <1>11 DEF Call, runVars, Runs, Actions!BeginCall
  <2>2. /\ exec'[w].pc = "answer" /\ exec'[w].at = s /\ exec'[w].steps = step /\ exec'[w].op = exec[w].op
    BY <1>3, <1>11, WorksMoves DEF Becomes
  <2> QED
    BY <1>8, <1>9, <2>1, <2>2 DEF OpenStatuses, Actions!ActionStatuses
<1>12. CASE CallDisabled(w)
  <2> DEFINE steps == [step EXCEPT ![s] = Fresh]
  <2>1. Fresh \in StepRows /\ Fresh.status # "COMPLETED"
    BY DEF Fresh, StepRows, StepStatuses, Recommendations
  <2>2. steps \in [Steps -> StepRows] /\ steps[s].status # "COMPLETED" /\ \A x \in Steps : x # s => steps[x] = step[x]
    BY <1>3, <2>1
  <2>3. SetSteps(w, steps) /\ run' # "COMPLETED" /\ UNCHANGED <<action, applied>> /\ Gone(w)
    BY <1>3, <1>12, WorksMoves DEF CallDisabled, SetRun, actionVars
  <2> HIDE DEF steps
  <2>4. DoneIsRecorded'
    BY <1>4, <1>6, <2>2, <2>3, SameLatest
  <2> QED
    BY <1>1, <2>3, <2>4, Departs DEF CompletedPassed
<1>13. CASE CallRefused(w) \/ AnswerRefused(w) \/ WorkFails(w)
  BY <1>7, <1>13, SameLatest, WorksMoves DEF CallRefused, AnswerRefused, WorkFails, actionVars
<1>14. CASE NotAnswered(w)
  <2>1. /\ exec[w].pc = "answer" /\ applied' = applied /\ Gone(w) /\ StepFails(w, "BLOCKED", "block")
        /\ action[<<s, exec[w].op>>] = "CALLING" /\ action' = [action EXCEPT ![<<s, exec[w].op>>] = "UNKNOWN_OUTCOME"]
    BY <1>14, WorksMoves DEF NotAnswered, Runs, Actions!IsLost
  <2> QED
    BY <1>7, <1>8, <2>1 DEF OpenStatuses, Actions!ActionStatuses
<1>15. CASE Answered(w)
  <2>1. exec[w].pc = "answer" /\ applied' = applied
    BY <1>15 DEF Answered, Runs
  <2>2. CASE /\ Actions!Succeeds(<<s, exec[w].op>>) /\ UNCHANGED <<run, step>>
             /\ Becomes(w, "work", s, exec[w].run, exec[w].steps, exec[w].review, exec[w].op, exec[w].seen)
    <3>1. action[<<s, exec[w].op>>] \in OpenStatuses /\ action' = [action EXCEPT ![<<s, exec[w].op>>] = "SUCCEEDED"]
      BY <2>2 DEF Actions!Succeeds, OpenStatuses
    <3>2. exec'[w].pc = "work" /\ exec'[w].at = s /\ exec'[w].steps = step /\ exec'[w].op = exec[w].op
      BY <1>3, <2>2 DEF Becomes
    <3> QED
      BY <1>8, <1>9, <2>1, <2>2, <3>1, <3>2 DEF Actions!ActionStatuses
  <2>3. CASE Actions!Fails(<<s, exec[w].op>>) /\ StepFails(w, "FAILED", "fail") /\ Gone(w)
    <3>1. action[<<s, exec[w].op>>] \in OpenStatuses /\ action' = [action EXCEPT ![<<s, exec[w].op>>] = "FAILED_CONFIRMED"]
      BY <2>3 DEF Actions!Fails, OpenStatuses
    <3> QED
      BY <1>7, <1>8, <2>1, <2>3, <3>1 DEF Actions!ActionStatuses
  <2> QED
    BY <1>15, <2>2, <2>3, WorksMoves
<1>16. ASSUME NEW advice \in Recommendations, Work(w, advice) PROVE ProgressInv'
  <2> DEFINE row == [status |-> "COMPLETED", advice |-> advice]
             steps == [step EXCEPT ![s] = row]
  <2>1. row \in StepRows /\ row.status = "COMPLETED"
    BY DEF StepRows, StepStatuses
  <2>2. steps \in [Steps -> StepRows] /\ steps[s].status = "COMPLETED" /\ \A x \in Steps : x # s => steps[x] = step[x]
    BY <1>3, <2>1
  <2>3. /\ SetSteps(w, steps) /\ UNCHANGED <<run, action>>
        /\ applied' = IF s \in Effects THEN applied \cup {<<s, exec[w].op>>} ELSE applied
        /\ exec'[w].pc = "next" /\ exec'[w].at = s + 1 /\ exec'[w].steps = steps
    BY <1>3, <1>16, WorksMoves DEF Work, Becomes
  <2> HIDE DEF steps
  <2>4. step' = steps
    BY <1>3, <2>2, <2>3, StepsWritten
  <2>5. \A x \in Effects : LatestOf(x)' = LatestOf(x) /\ LatestStatus(x)' = LatestStatus(x)
    BY <2>3, SameLatest
  <2>6. s \in Effects => exec[w].op = LatestOf(s) /\ action[<<s, LatestOf(s)>>] = "SUCCEEDED"
    BY <1>16 DEF Work, Runs, Done, OperationsInv, ProgressInv, Behind
  <2>7. DoneIsRecorded' /\ \A x \in Steps : x < s => Passed(x)'
    BY <1>3, <1>4, <2>2, <2>3, <2>4, <2>5, <2>6, OnlyHere
  <2>8. Passed(s)'
    <3>1. s \in Effects => LatestStatus(s) \in {"NONE", "SUCCEEDED"}
      BY <2>6 DEF LatestStatus
    <3> QED
      BY <2>2, <2>4, <2>5, <3>1 DEF Passed, InTheAir
  <2> QED
    BY <1>1, <1>3, <2>3, <2>4, <2>7, <2>8, PassesOn
<1>17. CASE WorkHalts(w)
  <2>1. PICK steps \in [Steps -> StepRows] :
          /\ SetSteps(w, steps) /\ exec'[w].pc = "halt" /\ exec'[w].at = s /\ exec'[w].steps = steps
          /\ \A x \in Steps : /\ x < s => steps[x] = step[x]
                              /\ steps[x].status = "COMPLETED" => x # s /\ steps[x] = step[x]
    BY <1>3, <1>17, WorksMoves DEF Becomes
  <2>2. UNCHANGED <<run, action, applied>>
    BY <1>17 DEF WorkHalts, actionVars
  <2>3. step' = steps /\ DoneIsRecorded' /\ \A x \in Steps : x < s => Passed(x)'
    BY <1>6, <2>1, <2>2, SameLatest
  <2>4. exec'[w].pc \in AtStep /\ ~Done(exec'[w])
    BY <2>1 DEF AtStep, Going, Done
  <2> QED
    BY <1>1, <1>3, <2>1, <2>2, <2>3, <2>4, StaysAt
<1> QED
  BY <1>10, <1>11, <1>12, <1>13, <1>14, <1>15, <1>16, <1>17 DEF Works

LEMMA LeavesProgress ==
    ASSUME TypeInv, ProgressInv, OneExecutor, NEW w \in Workers, Leaves(w)
    PROVE  ProgressInv'
<1>1. (\A v \in Workers : v # w => exec'[v].pc = "idle") /\ Gone(w)
  BY OthersIdle, LeavesMoves DEF WorkerSteps
<1>2. UNCHANGED <<step, action, applied>>
  BY LeavesFrame DEF Leaves, Settle, Fail, Die, Leave, runVars
<1>3. DoneIsRecorded' /\ (\A x \in Steps : Passed(x)' = Passed(x)) /\ (run' # "COMPLETED" \/ run' = run => CompletedPassed')
  BY <1>2, NothingMoves
<1>4. CASE Settle(w)
  <2>1. CASE exec[w].pc = "settle"
    <3>1. \A x \in Steps : Passed(x)
      BY <2>1 DEF ProgressInv, Behind
    <3> QED
      BY <1>1, <1>3, <3>1, Departs DEF CompletedPassed
  <2>2. CASE exec[w].pc = "halt"
    <3>1. run \in {"RUNNING", "CANCELLED"} /\ run' \in {run, "PARTIAL"}
      BY <1>4, <2>2 DEF Settle, SetRun, ProgressInv, UpToDate, Going
    <3> QED
      BY <1>1, <1>3, <3>1, Departs
  <2> QED
    BY <1>4, <2>1, <2>2 DEF Settle
<1>5. CASE run' = run
  BY <1>1, <1>3, <1>5, Departs
<1> QED
  BY <1>4, <1>5 DEF Leaves, Fail, Die, Leave, runVars

\* The run starts over at a step, with nobody at it.
LEMMA ResumeProgress ==
    ASSUME TypeInv, ProgressInv, NEW first \in Steps, ResumeFrom(first), ~overlap', UNCHANGED <<action, applied, exec>>
    PROVE  ProgressInv'
<1>1. \A w \in Workers : exec'[w].pc = "idle"
  BY DEF ResumeFrom, QueueJob, Runs
<1>2. \A s \in Steps : step'[s] = Fresh \/ step'[s] = step[s]
  BY DEF ResumeFrom
<1>3. DoneIsRecorded'
  <2>1. \A x \in Effects : LatestOf(x)' = LatestOf(x)
    BY SameLatest
  <2>2. \A x \in Effects : step'[x].status = "COMPLETED" => step[x].status = "COMPLETED"
    BY <1>2, PipelineAssumption DEF Fresh
  <2> QED
    BY <2>1, <2>2 DEF ProgressInv, DoneIsRecorded
<1>4. CompletedPassed'
  BY DEF ResumeFrom, CompletedPassed
<1>5. ASSUME NEW w \in Workers PROVE UpToDate(w)' /\ Behind(w)'
  <2>1. exec'[w].pc = "idle"
    BY <1>1
  <2> QED
    BY <2>1 DEF UpToDate, Behind, Done, Going, AtStep
<1> QED
  BY <1>3, <1>4, <1>5 DEF ProgressInv

\* The sweep and people only bring what is unknown to an end, and never to a call.
LEMMA ReconcileProgress ==
    ASSUME TypeInv, OperationsInv, ProgressInv, NEW o \in Operations, Reconcile(o)
    PROVE  ProgressInv'
<1>1. PICK status \in Actions!ActionStatuses \ {"NONE", "PENDING", "CALLING"} :
        /\ action[o] \in OpenStatuses /\ action' = [action EXCEPT ![o] = status]
        /\ status = "UNKNOWN_OUTCOME" => action[o] = "CALLING"
  BY ReconcileMoves
<1>2. PICK s \in Effects, n \in 1..MaxSequence : o = <<s, n>>
  BY DEF Operations
<1>3. /\ \A x \in Effects : x # s => LatestOf(x)' = LatestOf(x) /\ LatestStatus(x)' = LatestStatus(x)
      /\ LatestOf(s)' = LatestOf(s)
      /\ n = LatestOf(s) /\ LatestStatus(s)' = status
  BY <1>1, <1>2, OneMoves
<1>4. UNCHANGED <<run, step, applied, exec>>
  BY DEF Reconcile, runVars
<1>5. LatestStatus(s) = action[o]
  BY <1>1, <1>2, <1>3 DEF LatestStatus
<1>6. \A x \in Effects : LatestOf(x)' = LatestOf(x)
  BY <1>3
<1>7. \A x \in Effects : (LatestStatus(x)' = "CALLING" => LatestStatus(x) = "CALLING") /\ (InTheAir(x)' => InTheAir(x))
  <2> SUFFICES ASSUME NEW x \in Effects
               PROVE  (LatestStatus(x)' = "CALLING" => LatestStatus(x) = "CALLING") /\ (InTheAir(x)' => InTheAir(x))
    OBVIOUS
  <2>1. CASE x = s
    BY <1>1, <1>3, <1>5, <2>1 DEF InTheAir
  <2>2. CASE x # s
    BY <1>3, <2>2 DEF InTheAir
  <2> QED
    BY <2>1, <2>2
<1>8. \A x \in Steps : Passed(x) => Passed(x)'
  BY <1>4, <1>7 DEF Passed
<1>9. DoneIsRecorded' /\ CompletedPassed'
  BY <1>4, <1>6, <1>8 DEF ProgressInv, DoneIsRecorded, CompletedPassed
<1>10. ASSUME NEW w \in Workers PROVE UpToDate(w)' /\ Behind(w)'
  <2>1. UpToDate(w) /\ Behind(w) /\ (Done(exec[w]) \/ exec[w].pc \in {"call", "answer", "deny", "denied"} => exec[w].at \in Effects)
    BY DEF ProgressInv, TypeInv, InHand, Done, Asking
  <2>2. UpToDate(w)'
    BY <1>4, <2>1 DEF UpToDate
  <2>3. Behind(w)'
    BY <1>4, <1>6, <1>7, <1>8, <2>1 DEF Behind
  <2> QED
    BY <2>2, <2>3
<1> QED
  BY <1>9, <1>10 DEF ProgressInv

LEMMA OutsideProgress ==
    ASSUME TypeInv, OperationsInv, ProgressInv, ~overlap', Reap \/ (\E o \in Operations : Reconcile(o)) \/ People
    PROVE  ProgressInv'
<1>1. ASSUME UNCHANGED <<step, action, applied, exec>>, run' = run \/ run' = "CANCELLED" PROVE ProgressInv'
  <2>1. DoneIsRecorded' /\ CompletedPassed' /\ \A x \in Steps : Passed(x)' = Passed(x)
    BY <1>1, NothingMoves
  <2>2. \A x \in Effects : LatestOf(x)' = LatestOf(x) /\ LatestStatus(x)' = LatestStatus(x)
    BY <1>1, SameLatest
  <2>3. ASSUME NEW w \in Workers PROVE UpToDate(w)' /\ Behind(w)'
    <3>1. UpToDate(w) /\ Behind(w) /\ (Done(exec[w]) \/ exec[w].pc \in {"call", "answer", "deny", "denied"} => exec[w].at \in Effects)
      BY DEF ProgressInv, TypeInv, InHand, Done, Asking
    <3>2. UpToDate(w)'
      BY <1>1, <3>1 DEF UpToDate
    <3>3. Behind(w)'
      BY <1>1, <2>1, <2>2, <3>1 DEF Behind
    <3> QED
      BY <3>2, <3>3
  <2> QED
    BY <2>1, <2>3 DEF ProgressInv
<1>2. CASE Reap \/ AnswerPostHoc \/ cancel_run \/ \E b \in BOOLEAN : SwitchTo(b)
  BY <1>1, <1>2 DEF Reap, AnswerPostHoc, cancel_run, SwitchTo, actionVars, runVars
<1>3. ASSUME NEW o \in Operations, Reconcile(o) PROVE ProgressInv'
  BY <1>3, ReconcileProgress
<1>4. CASE enqueue_or_replay
  <2>1. UNCHANGED <<step, action, applied, exec>> /\ run' = "QUEUED" /\ \A w \in Workers : exec'[w].pc = "idle"
    BY <1>4 DEF enqueue_or_replay, QueueJob, Runs, actionVars
  <2>2. DoneIsRecorded' /\ CompletedPassed'
    BY <2>1, NothingMoves
  <2>3. ASSUME NEW w \in Workers PROVE UpToDate(w)' /\ Behind(w)'
    <3>1. exec'[w].pc = "idle"
      BY <2>1
    <3> QED
      BY <3>1 DEF UpToDate, Behind, Done, Going, AtStep
  <2> QED
    BY <2>2, <2>3 DEF ProgressInv
<1>5. CASE resume_run
  <2>1. PICK first \in Steps : ResumeFrom(first)
    BY <1>5 DEF resume_run, Resume
  <2> QED
    BY <1>5, <2>1, ResumeProgress DEF resume_run, actionVars
<1>6. ASSUME NEW s \in Effects, NEW k \in 1..MaxReviews, NEW answer \in {"APPROVED", "REJECTED"},
             AnswerReview(s, k, answer)
      PROVE  ProgressInv'
  <2>1. UNCHANGED <<action, applied, exec>>
    BY <1>6 DEF AnswerReview, actionVars
  <2>2. CASE run = "WAITING_APPROVAL"
    <3>1. PICK first \in Steps : ResumeFrom(first)
      BY <1>6, <2>2 DEF AnswerReview, Resume
    <3> QED
      BY <2>1, <3>1, ResumeProgress
  <2>3. CASE run # "WAITING_APPROVAL"
    BY <1>1, <1>6, <2>1, <2>3 DEF AnswerReview, runVars
  <2> QED
    BY <2>2, <2>3
<1> QED
  BY <1>2, <1>3, <1>4, <1>5, <1>6 DEF People

LEMMA ProgressStep ==
    ASSUME TypeInv, OperationsInv, Alone, Progress, [Next]_vars
    PROVE  Progress'
<1> SUFFICES ASSUME ~overlap' PROVE ProgressInv'
  BY DEF Progress
<1>1. ~overlap /\ OneExecutor /\ ProgressInv
  BY AloneStep DEF Alone, Progress
<1>2. ASSUME NEW w \in Workers, WorkerSteps(w) PROVE ProgressInv'
  BY <1>1, <1>2, BeginningProgress, NextStepProgress, GateProgress, AskingProgress, StartingProgress,
     WorksProgress, LeavesProgress DEF WorkerSteps, Advances
<1>3. ASSUME Reap \/ (\E o \in Operations : Reconcile(o)) \/ People PROVE ProgressInv'
  BY <1>1, <1>3, OutsideProgress
<1>4. ASSUME UNCHANGED vars PROVE ProgressInv'
  <2>1. UNCHANGED <<run, step, action, applied, exec>>
    BY <1>4 DEF vars, runVars, actionVars
  <2>2. DoneIsRecorded' /\ CompletedPassed' /\ \A x \in Steps : Passed(x)' = Passed(x)
    BY <1>1, <2>1, NothingMoves
  <2>3. \A w \in Workers : UpToDate(w)' /\ Behind(w)'
    BY <1>1, <2>1 DEF ProgressInv, UpToDate, Behind, Passed, InTheAir, LatestStatus, LatestOf
  <2> QED
    BY <2>2, <2>3 DEF ProgressInv
<1> QED
  BY <1>2, <1>3, <1>4 DEF Next, WorkerSteps

-----------------------------------------------------------------------------
(* Nothing is sent that nobody authorised *)

\* Whatever was decided of the product, somebody has to agree to every effect: the
\* policy asks a person, or money is spent where the environment enforces it.
EveryEffectNeedsAPerson ==
    \A s \in Effects :
        \/ PermissionOf(Role, ActionOf[s], Simulated) \in {"HUMAN_APPROVAL_REQUIRED", "DENIED"}
        \/ ActionOf[s] \in SpendingActions /\ Environment \in Enforcing

LEMMA AllowedWasAuthorised ==
    ASSUME TypeInv, EveryEffectNeedsAPerson, NEW w \in Workers, NEW s \in Effects, NEW funded,
           Outcome(StepInput(w, s, funded)) = "ALLOW"
    PROVE  Answer(s) = "APPROVED" /\ Len(reviews[s]) \in 1..MaxReviews
<1> DEFINE i == StepInput(w, s, funded)
<1>1. /\ i.action = ActionOf[s] /\ i.permission = PermissionOf(Role, ActionOf[s], Simulated)
      /\ i.environment = Environment /\ i.human = HumanApproval(s)
  BY DEF StepInput
<1>2. ~Vetoed(i) /\ (Doubted(i) => i.human = "GRANTED")
  BY DEF Outcome
<1>3. i.permission # "DENIED"
  BY <1>2 DEF Vetoed
<1>4. i.permission = "HUMAN_APPROVAL_REQUIRED" \/ (i.action \in SpendingActions /\ i.environment \in Enforcing)
  BY <1>1, <1>3 DEF EveryEffectNeedsAPerson
<1>5. Doubted(i)
  BY <1>4 DEF Doubted, Spends
<1>6. HumanApproval(s) = "GRANTED"
  BY <1>1, <1>2, <1>5
<1>7. Answer(s) = "APPROVED"
  BY <1>6 DEF HumanApproval
<1>8. reviews[s] \in Seq(ReviewStatuses) /\ reviews[s] # <<>> /\ Len(reviews[s]) <= MaxReviews /\ MaxReviews \in Nat
  BY <1>7, PipelineAssumption DEF Answer, TypeInv, TypeOK
<1>9. Len(reviews[s]) # 0
  BY <1>8, EmptySeq
<1> QED
  BY <1>7, <1>8, <1>9

LEMMA CountsAreFinite ==
    ASSUME TypeInv, NEW s \in Effects
    PROVE  /\ IsFiniteSet(Sent(s)) /\ Cardinality(Sent(s)) \in Nat
           /\ IsFiniteSet(Spent(s)) /\ Cardinality(Spent(s)) \in Nat
<1>1. IsFiniteSet(Operations)
  <2>1. IsFiniteSet(1..N) /\ IsFiniteSet(1..MaxSequence)
    BY FS_Interval, PipelineAssumption
  <2>2. IsFiniteSet(Effects)
    BY <2>1, FS_Subset, PipelineAssumption DEF Steps
  <2> QED
    BY <2>1, <2>2, FS_Product DEF Operations
<1>2. Sent(s) \subseteq Operations
  BY DEF Sent, TypeInv, TypeOK, Actions!LifecycleTypeOK
<1>3. Len(reviews[s]) \in Nat
  BY DEF TypeInv, TypeOK
<1>4. IsFiniteSet(1..Len(reviews[s])) /\ Spent(s) \subseteq 1..Len(reviews[s])
  <2>1. 1 \in Int /\ Len(reviews[s]) \in Int
    BY <1>3
  <2>2. IsFiniteSet(1..Len(reviews[s]))
    BY <2>1, FS_Interval
  <2>3. Spent(s) \subseteq 1..Len(reviews[s])
    BY DEF Spent
  <2> QED
    BY <2>2, <2>3
<1> QED
  BY <1>1, <1>2, <1>4, FS_Subset, FS_CardinalityType

\* What the one executor becomes is all that counts, where nothing is sent or spent.
LEMMA OneStaysAuthorised ==
    ASSUME NEW w \in Workers, \A v \in Workers : v # w => exec'[v].pc = "idle",
           \A s \in Effects : Cardinality(Sent(s))' <= Cardinality(Spent(s))',
           Authorised(w)'
    PROVE  AuthorisedInv'
<1>1. ASSUME NEW v \in Workers, v # w PROVE Authorised(v)'
  <2>1. exec'[v].pc = "idle"
    BY <1>1
  <2> QED
    BY <2>1 DEF Authorised, Going
<1> QED
  BY <1>1 DEF AuthorisedInv

\* A worker that is neither about to start an effect nor about to ask for one.
LEMMA NotAboutToSend ==
    ASSUME AuthorisedInv, NEW w \in Workers, \A v \in Workers : v # w => exec'[v].pc = "idle",
           \A s \in Effects : Sent(s)' = Sent(s) /\ Spent(s)' = Spent(s),
           \/ Gone(w)
           \/ exec'[w].pc \notin {"start", "call"} /\ exec'[w].review = 0
    PROVE  AuthorisedInv'
<1>1. Authorised(w)'
  BY DEF Authorised, Gone, Going
<1>2. \A s \in Effects : Cardinality(Sent(s))' <= Cardinality(Spent(s))'
  BY DEF AuthorisedInv
<1> QED
  BY <1>1, <1>2, OneStaysAuthorised

LEMMA SameCounts ==
    ASSUME UNCHANGED <<left, reviews>>
    PROVE  \A s \in Effects : Sent(s)' = Sent(s) /\ Spent(s)' = Spent(s)
  BY DEF Sent, Spent

LEMMA BeginningAuthorised ==
    ASSUME TypeInv, AuthorisedInv, OneExecutor, NEW w \in Workers,
           Claim(w) \/ Load(w) \/ Disable(w) \/ Begin(w) \/ NextStep(w) \/ Lost(w)
    PROVE  AuthorisedInv'
<1>1. \A v \in Workers : v # w => exec'[v].pc = "idle"
  BY OthersIdle DEF WorkerSteps, Advances
<1>2. \A s \in Effects : Sent(s)' = Sent(s) /\ Spent(s)' = Spent(s)
  <2>1. UNCHANGED <<left, reviews>>
    BY DEF Claim, Load, Disable, Begin, NextStep, Lost, actionVars, peopleVars
  <2> QED
    BY <2>1, SameCounts
<1>3. exec[w].pc \in {"load", "begin", "next"} => exec[w].review = 0
  BY DEF AuthorisedInv, Authorised, Going
<1>4. CASE ~NextStep(w)
  <2>1. Gone(w) \/ (exec'[w].pc \in {"load", "begin", "disable", "next"} /\ exec'[w].review = 0)
    BY <1>3, <1>4, BeginningMoves DEF Becomes, Load, Begin, Runs
  <2> QED
    BY <1>1, <1>2, <2>1, NotAboutToSend
<1>5. CASE NextStep(w)
  <2>1. \/ Gone(w)
        \/ exec'[w].pc \in {"settle", "gate"} /\ exec'[w].review = 0
        \/ exec'[w].pc = "start" /\ exec'[w].review = 0 /\ exec'[w].at \notin Effects
    BY <1>3, <1>5, NextStepMoves DEF Becomes, NextStep, Runs
  <2>2. CASE exec'[w].pc = "start" /\ exec'[w].review = 0 /\ exec'[w].at \notin Effects
    <3>1. Authorised(w)'
      BY <2>2 DEF Authorised, Going
    <3>2. \A s \in Effects : Cardinality(Sent(s))' <= Cardinality(Spent(s))'
      BY <1>2 DEF AuthorisedInv
    <3> QED
      BY <1>1, <3>1, <3>2, OneStaysAuthorised
  <2> QED
    BY <1>1, <1>2, <2>1, <2>2, NotAboutToSend
<1> QED
  BY <1>4, <1>5

LEMMA GateAuthorised ==
    ASSUME TypeInv, AuthorisedInv, OneExecutor, EveryEffectNeedsAPerson, NEW w \in Workers,
           NEW funded \in BOOLEAN, Gate(w, funded)
    PROVE  AuthorisedInv'
<1>1. \A v \in Workers : v # w => exec'[v].pc = "idle"
  BY OthersIdle DEF WorkerSteps, Advances
<1>2. \A s \in Effects : Sent(s)' = Sent(s) /\ Spent(s)' = Spent(s)
  BY SameCounts DEF Gate, peopleVars
<1>3. exec[w].at \in Effects
  BY DEF Gate, Runs, TypeInv, InHand, Asking
<1> PICK s \in Effects : s = exec[w].at
  BY <1>3
<1>4. CASE exec'[w].pc \in {"deny", "await"} /\ exec'[w].review = 0
  BY <1>1, <1>2, <1>4, NotAboutToSend
<1>5. CASE Unrecorded(s) /\ UNCHANGED action /\ exec'[w].pc = "start" /\ exec'[w].at = s /\ exec'[w].review = 0
  <2>1. Unrecorded(s)'
    <3>1. UNCHANGED applied
      BY DEF Gate
    <3>2. LatestOf(s)' = LatestOf(s) /\ LatestStatus(s)' = LatestStatus(s)
      BY <1>5, SameLatest
    <3> QED
      BY <1>5, <3>1, <3>2 DEF Unrecorded
  <2>2. Authorised(w)'
    BY <1>5, <2>1 DEF Authorised, Going
  <2>3. \A x \in Effects : Cardinality(Sent(x))' <= Cardinality(Spent(x))'
    BY <1>2 DEF AuthorisedInv
  <2> QED
    BY <1>1, <2>2, <2>3, OneStaysAuthorised
<1>6. CASE /\ Outcome(StepInput(w, s, funded)) = "ALLOW"
           /\ exec'[w].pc = "start" /\ exec'[w].at = s
           /\ exec'[w].review = IF Answer(s) = "APPROVED" THEN Len(reviews[s]) ELSE 0
  <2>1. Answer(s) = "APPROVED" /\ Len(reviews[s]) \in 1..MaxReviews
    BY <1>6, AllowedWasAuthorised
  <2>2. exec'[w].review # 0 /\ exec'[w].review <= Len(reviews'[s])
    BY <1>6, <2>1 DEF Gate, peopleVars
  <2>3. Authorised(w)'
    BY <1>6, <2>2 DEF Authorised, Going
  <2>4. \A x \in Effects : Cardinality(Sent(x))' <= Cardinality(Spent(x))'
    BY <1>2 DEF AuthorisedInv
  <2> QED
    BY <1>1, <2>3, <2>4, OneStaysAuthorised
<1> QED
  BY <1>4, <1>5, <1>6, GateMoves DEF Becomes

LEMMA AskingAuthorised ==
    ASSUME TypeInv, AuthorisedInv, OneExecutor, NEW w \in Workers,
           Deny(w) \/ Denied(w) \/ Await(w) \/ Ask(w) \/ AskedBefore(w) \/ Waits(w)
    PROVE  AuthorisedInv'
<1>1. \A v \in Workers : v # w => exec'[v].pc = "idle"
  BY OthersIdle DEF WorkerSteps, Advances
<1>2. exec[w].review = 0 /\ exec[w].at \in Effects
  BY DEF Deny, Denied, Await, Ask, AskedBefore, Waits, Runs, AuthorisedInv, Authorised, Going, TypeInv, InHand, Asking
<1>3. \A s \in Effects : Sent(s)' = Sent(s) /\ Spent(s)' = Spent(s)
  <2>1. CASE Ask(w)
    <3>1. UNCHANGED left /\ reviews' = [reviews EXCEPT ![exec[w].at] = Append(reviews[exec[w].at], "PENDING")]
      BY <2>1 DEF Ask, actionVars
    <3> SUFFICES ASSUME NEW s \in Effects PROVE Spent(s)' = Spent(s)
      BY <3>1 DEF Sent
    <3>2. reviews[s] \in Seq(ReviewStatuses) /\ "PENDING" \in ReviewStatuses /\ reviews \in [Effects -> Seq(ReviewStatuses)]
      BY DEF TypeInv, TypeOK, ReviewStatuses
    <3>3. CASE s = exec[w].at
      <4> DEFINE new == Append(reviews[s], "PENDING")
      <4>1. /\ Len(new) = Len(reviews[s]) + 1 /\ Len(reviews[s]) \in Nat
            /\ \A k \in 1..Len(reviews[s]) : new[k] = reviews[s][k]
            /\ new[Len(reviews[s]) + 1] = "PENDING"
        BY <3>2, AppendProperties
      <4>2. reviews'[s] = new
        BY <3>1, <3>2, <3>3
      <4> HIDE DEF new
      <4>3. {k \in 1..Len(new) : new[k] = "CONSUMED"} = {k \in 1..Len(reviews[s]) : reviews[s][k] = "CONSUMED"}
        BY <4>1
      <4> QED
        BY <4>2, <4>3 DEF Spent
    <3>4. CASE s # exec[w].at
      BY <3>1, <3>2, <3>4 DEF Spent
    <3> QED
      BY <3>3, <3>4
  <2>2. CASE ~Ask(w)
    BY <2>2, SameCounts DEF Deny, Denied, Await, AskedBefore, Waits, actionVars, peopleVars
  <2> QED
    BY <2>1, <2>2
<1>4. Gone(w) \/ (exec'[w].pc \in {"denied", "next", "ask", "asked"} /\ exec'[w].review = 0)
  BY <1>2, AskingMoves DEF Becomes
<1> QED
  BY <1>1, <1>3, <1>4, NotAboutToSend

\* An authorisation that is used is one more that is spent.
LEMMA OneMoreSpent ==
    ASSUME TypeInv, NEW s \in Effects, NEW r, r # 0, r \in Nat, r <= Len(reviews[s]), reviews[s][r] = "APPROVED",
           reviews' = [reviews EXCEPT ![s][r] = "CONSUMED"]
    PROVE  /\ \A x \in Effects : x # s => Spent(x)' = Spent(x)
           /\ Cardinality(Spent(s)') = Cardinality(Spent(s)) + 1
<1>1. reviews \in [Effects -> Seq(ReviewStatuses)] /\ reviews[s] \in Seq(ReviewStatuses) /\ Len(reviews[s]) \in Nat
  BY DEF TypeInv, TypeOK
<1> DEFINE new == [reviews[s] EXCEPT ![r] = "CONSUMED"]
<1>2. r \in 1..Len(reviews[s]) /\ "CONSUMED" \in ReviewStatuses
  BY <1>1 DEF ReviewStatuses
<1>3. /\ Len(new) = Len(reviews[s])
      /\ \A k \in 1..Len(reviews[s]) : new[k] = IF k = r THEN "CONSUMED" ELSE reviews[s][k]
  BY <1>1, <1>2, ExceptSeq
<1>4. reviews'[s] = new /\ \A x \in Effects : x # s => reviews'[x] = reviews[x]
  BY <1>1
<1> HIDE DEF new
<1>5. \A x \in Effects : x # s => Spent(x)' = Spent(x)
  BY <1>4 DEF Spent
<1>6. Spent(s)' = Spent(s) \cup {r} /\ r \notin Spent(s)
  BY <1>2, <1>3, <1>4 DEF Spent
<1>7. Cardinality(Spent(s) \cup {r}) = Cardinality(Spent(s)) + 1
  BY <1>6, CountsAreFinite, FS_AddElement
<1> QED
  BY <1>5, <1>6, <1>7

LEMMA StartingAuthorised ==
    ASSUME TypeInv, AuthorisedInv, OneExecutor, NEW w \in Workers,
           Start(w) \/ StartRefused(w) \/ BudgetExhausted(w)
    PROVE  AuthorisedInv'
<1>1. \A v \in Workers : v # w => exec'[v].pc = "idle"
  BY OthersIdle DEF WorkerSteps, Advances
<1>2. Authorised(w) /\ exec[w].pc = "start" /\ exec[w] \in Executing
  BY ExecutingType DEF Start, StartRefused, BudgetExhausted, Runs, ExecutingAt, Going, AuthorisedInv, TypeInv
<1>3. CASE StartRefused(w) \/ BudgetExhausted(w)
  <2>1. UNCHANGED <<left, reviews>>
    BY <1>3 DEF StartRefused, BudgetExhausted, actionVars, peopleVars
  <2>2. Gone(w) \/ (exec'[w].pc = "next" /\ exec'[w].review = 0)
    BY <1>3, StartingMoves DEF Becomes
  <2> QED
    BY <1>1, <2>1, <2>2, SameCounts, NotAboutToSend
<1>4. CASE Start(w) /\ exec[w].at \notin Effects
  <2>1. exec[w].review = 0
    BY <1>2, <1>4 DEF Authorised
  <2>2. UNCHANGED <<left, reviews>>
    BY <1>4, <2>1 DEF Start
  <2>3. exec'[w].pc = "work" /\ exec'[w].review = 0
    BY <1>4, <2>1, StartingMoves DEF Becomes
  <2> QED
    BY <1>1, <2>2, <2>3, SameCounts, NotAboutToSend
<1>5. CASE Start(w) /\ exec[w].at \in Effects
  <2> PICK s \in Effects : s = exec[w].at
    BY <1>5
  <2>1. UNCHANGED left
    BY <1>5 DEF Start, Actions!OpenAction
  <2>2. /\ exec'[w].pc = "call" /\ exec'[w].at = s /\ exec'[w].review = 0
        /\ exec'[w].seen = IF OwnsTheSite(s) THEN LatestStatus(s) ELSE "PENDING"
    BY <1>5, StartingMoves DEF Becomes
  <2>3. \A x \in Effects : Sent(x)' = Sent(x)
    BY <2>1 DEF Sent
  <2>4. CASE exec[w].review = 0
    <3>1. Unrecorded(s)
      BY <1>2, <2>4 DEF Authorised
    <3>2. exec'[w].seen = "SUCCEEDED"
      BY <2>2, <3>1 DEF Unrecorded, OwnsTheSite
    <3>3. \A x \in Effects : Spent(x)' = Spent(x)
      BY <1>5, <2>4 DEF Start, Spent
    <3>4. Authorised(w)'
      BY <2>2, <3>2 DEF Authorised, Going
    <3>5. \A x \in Effects : Cardinality(Sent(x))' <= Cardinality(Spent(x))'
      BY <2>3, <3>3 DEF AuthorisedInv
    <3> QED
      BY <1>1, <3>4, <3>5, OneStaysAuthorised
  <2>5. CASE exec[w].review # 0
    <3> PICK r \in Nat : r = exec[w].review
      BY <1>2, PipelineAssumption DEF Executing
    <3>1. /\ r # 0 /\ r <= Len(reviews[s]) /\ reviews[s][r] = "APPROVED"
          /\ reviews' = [reviews EXCEPT ![s][r] = "CONSUMED"]
      BY <1>2, <1>5, <2>5 DEF Start, Authorised
    <3>2. /\ \A x \in Effects : x # s => Spent(x)' = Spent(x)
          /\ Cardinality(Spent(s)') = Cardinality(Spent(s)) + 1
      BY <3>1, OneMoreSpent
    <3>3. Cardinality(Sent(s)) <= Cardinality(Spent(s)) /\ Cardinality(Sent(s)) \in Nat /\ Cardinality(Spent(s)) \in Nat
      BY CountsAreFinite DEF AuthorisedInv
    <3>4. Cardinality(Sent(s)') < Cardinality(Spent(s)')
      BY <2>3, <3>2, <3>3
    <3>5. Authorised(w)'
      BY <2>2, <3>4 DEF Authorised, Going
    <3>6. ASSUME NEW x \in Effects PROVE Cardinality(Sent(x)') <= Cardinality(Spent(x)')
      <4>1. CASE x = s
        BY <2>3, <3>2, <3>3, <4>1
      <4>2. CASE x # s
        BY <2>3, <3>2, <4>2 DEF AuthorisedInv
      <4> QED
        BY <4>1, <4>2
    <3> QED
      BY <1>1, <3>5, <3>6, OneStaysAuthorised
  <2> QED
    BY <2>4, <2>5
<1> QED
  BY <1>3, <1>4, <1>5

LEMMA WorksAuthorised ==
    ASSUME TypeInv, AuthorisedInv, OneExecutor, NEW w \in Workers, Works(w)
    PROVE  AuthorisedInv'
<1>1. \A v \in Workers : v # w => exec'[v].pc = "idle"
  BY OthersIdle DEF WorkerSteps
<1>2. exec[w].review = 0 /\ Authorised(w)
  BY DEF Works, AlreadyDone, Call, CallDisabled, CallRefused, Answered, NotAnswered, AnswerRefused, Work,
         WorkFails, WorkHalts, Runs, AuthorisedInv, Authorised, Going
<1>3. CASE Call(w)
  <2>1. exec[w].pc = "call" /\ exec[w].seen = "PENDING" /\ exec[w].at \in Effects /\ exec[w].op \in 1..MaxSequence
    BY <1>3 DEF Call, Runs, TypeInv, InHand
  <2> PICK s \in Effects : s = exec[w].at
    BY <2>1
  <2>2. UNCHANGED reviews /\ left' = left \cup {<<s, exec[w].op>>}
    BY <1>3 DEF Call, peopleVars, Actions!BeginCall
  <2>3. \A x \in Effects : Spent(x)' = Spent(x)
    BY <2>2 DEF Spent
  <2>4. (\A x \in Effects : x # s => Sent(x)' = Sent(x)) /\ Sent(s)' = Sent(s) \cup {<<s, exec[w].op>>}
    BY <2>2 DEF Sent
  <2>5. Cardinality(Sent(s)) < Cardinality(Spent(s)) /\ Cardinality(Sent(s)) \in Nat /\ Cardinality(Spent(s)) \in Nat
    BY <1>2, <2>1, CountsAreFinite DEF Authorised
  <2>6. Cardinality(Sent(s) \cup {<<s, exec[w].op>>}) <= Cardinality(Spent(s))
    <3>1. IsFiniteSet(Sent(s))
      BY CountsAreFinite
    <3> DEFINE o == <<s, exec[w].op>>
    <3> HIDE DEF o
    <3>2. Cardinality(Sent(s) \cup {o}) \in {Cardinality(Sent(s)), Cardinality(Sent(s)) + 1}
      BY <3>1, FS_AddElement
    <3>3. Cardinality(Sent(s) \cup {o}) <= Cardinality(Spent(s))
      BY <2>5, <3>2
    <3> QED
      BY <3>3 DEF o
  <2>7. \A x \in Effects : Cardinality(Sent(x)') <= Cardinality(Spent(x)')
    BY <2>3, <2>4, <2>6 DEF AuthorisedInv
  <2>8. exec'[w].pc = "answer" /\ exec'[w].review = 0
    BY <1>2, <1>3, WorksMoves DEF Becomes
  <2>9. Authorised(w)'
    BY <2>8 DEF Authorised
  <2> QED
    BY <1>1, <2>7, <2>9, OneStaysAuthorised
<1>4. CASE ~Call(w)
  <2>1. UNCHANGED <<left, reviews>>
    BY <1>4 DEF Works, AlreadyDone, CallDisabled, CallRefused, Answered, NotAnswered, AnswerRefused, Work,
         WorkFails, WorkHalts, actionVars, peopleVars, Actions!Succeeds, Actions!Fails, Actions!IsLost
  <2>2. Gone(w) \/ (exec'[w].pc \in {"work", "next", "halt"} /\ exec'[w].review = 0)
    BY <1>2, <1>4, WorksMoves DEF Works, Becomes
  <2> QED
    BY <1>1, <2>1, <2>2, SameCounts, NotAboutToSend
<1> QED
  BY <1>3, <1>4

\* What a worker is about to send stays authorised, whatever people and the sweep do.
LEMMA OutsideAuthorised ==
    ASSUME TypeInv, OperationsInv, AuthorisedInv, Reap \/ (\E o \in Operations : Reconcile(o)) \/ People
    PROVE  AuthorisedInv'
<1>1. UNCHANGED <<exec, applied, left>>
  BY OutsideFrame DEF TypeInv, Reap, Reconcile, People, enqueue_or_replay, resume_run, cancel_run, AnswerPostHoc,
     AnswerReview, SwitchTo, actionVars, Actions!Succeeds, Actions!Fails, Actions!IsLost
<1>2. \A s \in Effects : Spent(s)' = Spent(s) /\ Len(reviews[s])' = Len(reviews[s])
  <2>1. CASE UNCHANGED reviews
    BY <2>1 DEF Spent
  <2>2. ASSUME NEW s \in Effects, NEW k \in 1..MaxReviews, NEW answer \in {"APPROVED", "REJECTED"},
               k \in Pending(s), AnswerReview(s, k, answer), NEW x \in Effects
        PROVE  Spent(x)' = Spent(x) /\ Len(reviews[x])' = Len(reviews[x])
    <3>1. /\ reviews' = [reviews EXCEPT ![s] = [reviews[s] EXCEPT ![k] = answer]] /\ reviews[s][k] = "PENDING"
          /\ k \in 1..Len(reviews[s]) /\ answer \in ReviewStatuses
      BY <2>2 DEF AnswerReview, Pending, ReviewStatuses
    <3>2. reviews \in [Effects -> Seq(ReviewStatuses)]
      BY DEF TypeInv, TypeOK
    <3>3. CASE x = s
      <4> DEFINE new == [reviews[s] EXCEPT ![k] = answer]
      <4>1. /\ Len(new) = Len(reviews[s])
            /\ \A j \in 1..Len(reviews[s]) : new[j] = IF j = k THEN answer ELSE reviews[s][j]
        BY <3>1, <3>2, ExceptSeq
      <4>2. reviews'[s] = new
        BY <3>1, <3>2
      <4> HIDE DEF new
      <4>3. {j \in 1..Len(new) : new[j] = "CONSUMED"} = {j \in 1..Len(reviews[s]) : reviews[s][j] = "CONSUMED"}
        BY <2>2, <3>1, <4>1
      <4> QED
        BY <3>3, <4>1, <4>2, <4>3 DEF Spent
    <3>4. CASE x # s
      BY <3>1, <3>2, <3>4 DEF Spent
    <3> QED
      BY <3>3, <3>4
  <2>3. \/ UNCHANGED reviews
        \/ \E s \in Effects, k \in 1..MaxReviews, answer \in {"APPROVED", "REJECTED"} :
             k \in Pending(s) /\ AnswerReview(s, k, answer)
    BY DEF Reap, Reconcile, People, enqueue_or_replay, resume_run, cancel_run, AnswerPostHoc, SwitchTo, peopleVars
  <2> QED
    BY <2>1, <2>2, <2>3
<1>3. \A s \in Effects : Sent(s)' = Sent(s)
  BY <1>1 DEF Sent
<1>4. \A s \in Effects : Unrecorded(s) => Unrecorded(s)'
  <2>1. CASE UNCHANGED action
    BY <1>1, <2>1, SameLatest DEF Unrecorded
  <2>2. ASSUME NEW o \in Operations, Reconcile(o), NEW s \in Effects, Unrecorded(s) PROVE Unrecorded(s)'
    <3>1. PICK status \in Actions!ActionStatuses \ {"NONE", "PENDING", "CALLING"} :
            action[o] \in OpenStatuses /\ action' = [action EXCEPT ![o] = status]
      BY <2>2, ReconcileMoves
    <3>2. PICK x \in Effects, n \in 1..MaxSequence : o = <<x, n>>
      BY DEF Operations
    <3>3. /\ \A y \in Effects : y # x => LatestOf(y)' = LatestOf(y) /\ LatestStatus(y)' = LatestStatus(y)
          /\ n = LatestOf(x)
      BY <3>1, <3>2, OneMoves
    <3>4. s # x
      BY <2>2, <3>1, <3>2, <3>3 DEF Unrecorded, LatestStatus, OpenStatuses
    <3> QED
      BY <1>1, <2>2, <3>3, <3>4 DEF Unrecorded
  <2>3. UNCHANGED action \/ \E o \in Operations : Reconcile(o)
    BY DEF Reap, People, enqueue_or_replay, resume_run, cancel_run, AnswerPostHoc, AnswerReview, SwitchTo, actionVars
  <2> QED
    BY <2>1, <2>2, <2>3
<1>5. ASSUME NEW w \in Workers PROVE Authorised(w)'
  <2>1. Authorised(w) /\ (exec[w].pc = "call" => exec[w].at \in Effects)
    BY DEF AuthorisedInv, TypeInv, InHand
  <2> QED
    BY <1>1, <1>2, <1>3, <1>4, <2>1 DEF Authorised
<1>6. \A s \in Effects : Cardinality(Sent(s))' <= Cardinality(Spent(s))'
  BY <1>2, <1>3 DEF AuthorisedInv
<1> QED
  BY <1>5, <1>6 DEF AuthorisedInv

LEMMA AuthorisedStep ==
    ASSUME TypeInv, OperationsInv, Alone, AuthorisedAlone, EveryEffectNeedsAPerson, [Next]_vars
    PROVE  AuthorisedAlone'
<1> SUFFICES ASSUME ~overlap' PROVE AuthorisedInv'
  BY DEF AuthorisedAlone
<1>1. ~overlap /\ OneExecutor /\ AuthorisedInv
  BY AloneStep DEF Alone, AuthorisedAlone
<1>2. ASSUME NEW w \in Workers, Leaves(w) PROVE AuthorisedInv'
  <2>1. (\A v \in Workers : v # w => exec'[v].pc = "idle") /\ Gone(w)
    BY <1>1, <1>2, OthersIdle, LeavesMoves DEF WorkerSteps
  <2>2. UNCHANGED <<left, reviews>>
    BY <1>2 DEF Leaves, Settle, Fail, Die, Leave, actionVars, peopleVars
  <2> QED
    BY <1>1, <2>1, <2>2, SameCounts, NotAboutToSend
<1>3. ASSUME NEW w \in Workers, Advances(w) \/ Works(w) PROVE AuthorisedInv'
  BY <1>1, <1>3, BeginningAuthorised, GateAuthorised, AskingAuthorised, StartingAuthorised, WorksAuthorised DEF Advances
<1>4. ASSUME Reap \/ (\E o \in Operations : Reconcile(o)) \/ People PROVE AuthorisedInv'
  BY <1>1, <1>4, OutsideAuthorised
<1>5. ASSUME UNCHANGED vars PROVE AuthorisedInv'
  <2>1. UNCHANGED <<left, reviews, exec, action, applied>>
    BY <1>5 DEF vars, actionVars, peopleVars
  <2> QED
    BY <1>1, <2>1 DEF AuthorisedInv, Authorised, Sent, Spent, Unrecorded, LatestStatus, LatestOf
<1> QED
  BY <1>2, <1>3, <1>4, <1>5 DEF Next

-----------------------------------------------------------------------------
(* The theorems *)

LEMMA InvariantsInit ==
    ASSUME Init
    PROVE  OperationsInv /\ Alone /\ Progress /\ AuthorisedAlone
<1>1. \A w \in Workers : exec[w].pc = "idle"
  BY DEF Init, Idle
<1>2. OperationsInv
  <2>1. \A s \in Effects, n \in 1..MaxSequence : action[<<s, n>>] = "NONE"
    BY DEF Init, Actions!LifecycleInit, Operations
  <2>2. 0 \in 0..MaxSequence /\ \A n \in 1..MaxSequence : ~(n <= 0)
    BY PipelineAssumption
  <2>3. \A s \in Effects : InOrder(s)
    BY <2>1, <2>2 DEF InOrder
  <2> QED
    BY <1>1, <2>3 DEF OperationsInv, Done, Init
<1>3. Alone
  BY <1>1 DEF Alone, OneExecutor, Active, Runs, Init
<1>4. \A s \in Steps : step[s].status = "PENDING"
  BY DEF Init, Fresh
<1>5. Progress
  <2>1. DoneIsRecorded
    BY <1>4, PipelineAssumption DEF DoneIsRecorded
  <2>2. CompletedPassed
    BY DEF CompletedPassed, Init
  <2>3. \A w \in Workers : UpToDate(w) /\ Behind(w)
    BY <1>1 DEF UpToDate, Behind, Done, Going, AtStep
  <2> QED
    BY <2>1, <2>2, <2>3 DEF Progress, ProgressInv
<1>6. AuthorisedAlone
  <2>1. \A w \in Workers : Authorised(w)
    BY <1>1 DEF Authorised, Going
  <2>2. \A s \in Effects : Sent(s) = {} /\ Spent(s) = {}
    <3>1. left = {} /\ \A s \in Effects : reviews[s] = <<>>
      BY DEF Init, Actions!LifecycleInit
    <3> QED
      BY <3>1 DEF Sent, Spent
  <2>3. \A s \in Effects : Cardinality(Sent(s)) <= Cardinality(Spent(s))
    BY <2>2, FS_EmptySet
  <2> QED
    BY <2>1, <2>3 DEF AuthorisedAlone, AuthorisedInv
<1> QED
  BY <1>2, <1>3, <1>5, <1>6

\* The invariant of the run: the types, who executes it, its operations and its steps.
IInv == TypeInv /\ OperationsInv /\ Alone /\ Progress

LEMMA Invariance == Spec => []IInv
<1>1. Init => IInv
  BY TypeInit, InvariantsInit DEF IInv
<1>2. IInv /\ [Next]_vars => IInv'
  BY TypeStep, OperationsStep, AloneStep, ProgressStep DEF IInv
<1> QED
  BY <1>1, <1>2, PTL DEF Spec

\* The run, its steps, its job, its operations, its questions and what every worker
\* does with them keep their types: pipeline/service.py, jobs/queue.py.
THEOREM TypeCorrect == Spec => []TypeOK
<1>1. IInv => TypeOK
  BY DEF IInv, TypeInv
<1> QED
  BY <1>1, Invariance, PTL

\* A run that is COMPLETED has no money in the air, for any number of steps,
\* operations and people closing them while it goes on: execute_run and `_settle`.
THEOREM NothingLeftInTheAir == Spec => []NothingInTheAir
<1>1. IInv => NothingInTheAir
  <2> SUFFICES ASSUME IInv, run = "COMPLETED", ~overlap, NEW o \in Operations
               PROVE  action[o] \notin {"CALLING", "UNKNOWN_OUTCOME"}
    BY DEF NothingInTheAir
  <2>1. ProgressInv /\ OperationsInv /\ TypeOK
    BY DEF IInv, Progress, TypeInv
  <2>2. PICK s \in Effects, n \in 1..MaxSequence : o = <<s, n>>
    BY DEF Operations
  <2>3. Passed(s) /\ InOrder(s)
    BY <2>1, PipelineAssumption DEF ProgressInv, CompletedPassed, OperationsInv
  <2>4. /\ LatestOf(s) \in 0..MaxSequence
        /\ \A m \in 1..MaxSequence : action[<<s, m>>] # "NONE" <=> m <= LatestOf(s)
    BY <2>3, LatestIsLast
  <2>5. CASE action[o] = "NONE"
    BY <2>5
  <2>6. CASE n = LatestOf(s)
    BY <2>2, <2>3, <2>6 DEF Passed, InTheAir, LatestStatus
  <2>7. CASE action[o] # "NONE" /\ n # LatestOf(s)
    <3>1. LatestOf(s) \in 1..MaxSequence /\ n < LatestOf(s)
      BY <2>2, <2>4, <2>7, PipelineAssumption
    <3>2. action[<<s, LatestOf(s)>>] # "NONE"
      BY <2>4, <3>1, PipelineAssumption
    <3>3. \A m, k \in 1..MaxSequence :
            m < k /\ action[<<s, k>>] # "NONE" => action[<<s, m>>] \in {"SUCCEEDED", "FAILED_CONFIRMED"}
      BY <2>3 DEF InOrder
    <3> QED
      BY <2>2, <3>1, <3>2, <3>3
  <2> QED
    BY <2>5, <2>6, <2>7
<1> QED
  BY <1>1, Invariance, PTL

\* COMPLETED says that every step was done or denied, and a step is only done with
\* the result of the last thing it asked for recorded: `_settle`, `_start_step`.
THEOREM CompletedAreDone == Spec => []CompletedRunsAreDone
<1>1. IInv => CompletedRunsAreDone
  BY DEF IInv, Progress, ProgressInv, DoneIsRecorded, CompletedPassed, Passed, CompletedRunsAreDone
<1> QED
  BY <1>1, Invariance, PTL

\* Where the policy or the environment has somebody agree to every effect, no step
\* sends more requests than authorisations were spent on it: `_human_approval`,
\* `_gate_step` and `_start_step`, through crashes, resumed runs and late answers.
THEOREM EffectsAreAuthorised ==
    ASSUME EveryEffectNeedsAPerson
    PROVE  Spec => []EveryEffectWasAuthorised
<1>1. Init => IInv /\ AuthorisedAlone
  BY TypeInit, InvariantsInit DEF IInv
<1>2. IInv /\ AuthorisedAlone /\ [Next]_vars => (IInv /\ AuthorisedAlone)'
  BY TypeStep, OperationsStep, AloneStep, ProgressStep, AuthorisedStep DEF IInv
<1>3. AuthorisedAlone => EveryEffectWasAuthorised
  BY DEF AuthorisedAlone, AuthorisedInv, Sent, Spent, EveryEffectWasAuthorised
<1> QED
  BY <1>1, <1>2, <1>3, PTL DEF Spec

=============================================================================
