------------------------------ MODULE Missions ------------------------------
(***************************************************************************)
(* One mission: an objective run by the orchestrator (ceo/orchestrator.py) *)
(* over the tasks of its plan, and recovered by people (tasks/recovery.py) *)
(* who retry a failed task, hand one to another agent or resume the run.   *)
(*                                                                         *)
(* A run and a resumption are ONE transaction each: what they write is     *)
(* `work` until it commits.  A resumption holds the lock of the project, a *)
(* retry and a reassignment only that of the task, so the three overlap:   *)
(* the database is PostgreSQL under READ COMMITTED.  A deployment kills    *)
(* the requests in progress and may change the registry of agents, which   *)
(* every request builds from the code, all of them available.              *)
(***************************************************************************)
EXTENDS Integers, FiniteSets, Sequences, SequencesExt, FiniteSetsExt

CONSTANTS
    Tasks,          \* PLAN_ORDER: the tasks of the plan, in order
    Parents,        \* [task -> the tasks it depends on]
    Synthesis,      \* the task the orchestrator does itself: it closes the mission
    FaultTasks,     \* ALLOWED_TASKS: those a rehearsal may make fail
    Agents,         \* the agents a registry may hold, best first
    MaxRetries,     \* DEFAULT_MAX_TASK_RETRIES
    MaxDeploys      \* bound: deployments

Plan == Range(Tasks)
Specialists == Plan \ {Synthesis}
AgentSet == Range(Agents)
NoAgent == "none"
MaxPerAssignment == MaxRetries + 1
MaxPerTask == 2 * MaxPerAssignment

ASSUME MissionAssumption ==
    /\ Tasks \in Seq(Plan) /\ \A i, j \in DOMAIN Tasks : Tasks[i] = Tasks[j] => i = j
    /\ Agents \in Seq(AgentSet) /\ NoAgent \notin AgentSet
    /\ Parents \in [Plan -> SUBSET Plan] /\ Synthesis \in Plan /\ FaultTasks \subseteq Specialists
    /\ Parents[Synthesis] = Specialists
    /\ \A i, j \in DOMAIN Tasks : Tasks[j] \in Parents[Tasks[i]] => j < i
    /\ MaxRetries \in Nat /\ MaxDeploys \in Nat

VARIABLES
    row,            \* tasks.status and assigned_agent_id
    log,            \* agent_execution_log of each task
    decisions,      \* the decisions of the project, oldest first
    work,           \* the run or the resumption in progress
    retrying,       \* the retry that holds the row of each task
    known, deploys, \* the registry of the agents deployed
    armed           \* the fault a rehearsal has armed, in memory

vars == <<row, log, decisions, work, retrying, known, deploys, armed>>
deployVars == <<known, deploys>>

TaskStatus == {"PENDING", "RUNNING", "COMPLETED", "FAILED", "BLOCKED", "CANCELLED"}
Executions == [n : Nat, by : AgentSet, assigned : AgentSet, ok : BOOLEAN]
NoFault == [task |-> "none", attempt |-> 0]
NoWork == [mode |-> "none"]
NotRetried == [n |-> 0, by |-> NoAgent, ended |-> "no", frees |-> {}]

TypeOK ==
    /\ row \in [Plan -> [status : TaskStatus, agent : AgentSet \cup {NoAgent}]]
    /\ \A t \in Plan : Range(log[t]) \subseteq Executions
    /\ \A d \in Range(decisions) :
          d \in [complete : BOOLEAN, culprits : SUBSET Specialists, after : Nat]
    /\ work.mode \in {"none", "run", "resume"}
    /\ retrying \in [Plan -> [n : Nat, by : AgentSet \cup {NoAgent}, ended : {"no", "ok", "failed"},
                            frees : SUBSET Plan]]
    /\ known \subseteq AgentSet /\ deploys \in 0..MaxDeploys
    /\ armed \in {NoFault} \cup [task : FaultTasks, attempt : 1..MaxPerAssignment]

Init ==
    /\ row = [t \in Plan |-> [status |-> "PENDING", agent |-> NoAgent]]
    /\ log = [t \in Plan |-> <<>>]
    /\ decisions = <<>> /\ work = NoWork
    /\ retrying = [t \in Plan |-> NotRetried]
    /\ known \in (SUBSET AgentSet) \ {{}} /\ deploys = 0
    /\ armed = NoFault

-----------------------------------------------------------------------------
(* What a task is waiting for.  `status` is a function from tasks: the rows *)
(* committed, or the graph that the orchestrator keeps in memory.           *)

Committed == [t \in Plan |-> row[t].status]

ParentsCompleted(status, t) == \A p \in Parents[t] : status[p] = "COMPLETED"

\* What depends on a task, through others or not: the least set closed under children.
ChildrenAreIn(S, t) == \A c \in Plan : Parents[c] \cap (S \cup {t}) # {} => c \in S
Descendants ==
    [t \in Plan |-> {c \in Plan : \A S \in SUBSET Plan : ChildrenAreIn(S, t) => c \in S}]

BlockNobody(status, t) == status

BlockDependents(status, t) ==
    [c \in Plan |-> IF c \in Descendants[t] /\ status[c] = "PENDING" THEN "BLOCKED" ELSE status[c]]

Unblockable(status, c) ==
    /\ status[c] = "BLOCKED" /\ ParentsCompleted(status, c)
    /\ row[c].agent \in known \cup {NoAgent}

UnblockDependents(status, t) ==
    [c \in Plan |-> IF t \in Parents[c] /\ Unblockable(status, c) THEN "PENDING" ELSE status[c]]

UnblockReady(status) ==
    [c \in Plan |-> IF Unblockable(status, c) THEN "PENDING" ELSE status[c]]

Runnable(status) == {t \in Plan : status[t] = "PENDING" /\ ParentsCompleted(status, t)}

First(seq, S) == seq[Min({i \in DOMAIN seq : seq[i] \in S})]

(* What can be done with a task, and where the mission stands. *)
Used(t, a) == Cardinality({i \in DOMAIN log[t] : log[t][i].assigned = a})

\* describe_relation: who has the task and who did it, in a word.  An execution is
\* compared with the assignment of its moment.
AssignmentStatus(t) ==
    LET agent == row[t].agent
        last == Last(log[t])
    IN IF t = Synthesis
       THEN IF agent # NoAgent \/ log[t] # <<>> THEN "INCONSISTENT" ELSE "ORCHESTRATOR"
       ELSE IF agent \notin known \cup {NoAgent} THEN "UNKNOWN_AGENT"
       ELSE IF log[t] = <<>>
       THEN IF row[t].status = "COMPLETED" THEN "INCONSISTENT"
            ELSE IF agent = NoAgent THEN "UNASSIGNED" ELSE "ASSIGNED"
       ELSE IF last.by # last.assigned THEN IF last.by \in known THEN "MISMATCH" ELSE "UNKNOWN_AGENT"
       ELSE IF last.assigned = agent THEN "MATCH" ELSE "ASSIGNED"

RecoveryKind(t) ==
    IF row[t].status \in {"COMPLETED", "CANCELLED"} THEN "none"
    ELSE IF row[t].agent \notin known \cup {NoAgent} THEN "unknown_agent"
    ELSE IF AssignmentStatus(t) = "MISMATCH" THEN "mismatch"
    ELSE IF row[t].status = "BLOCKED" THEN "blocked"
    ELSE IF row[t].status # "FAILED" \/ log[t] = <<>> THEN "none"
    ELSE IF Len(log[t]) >= MaxPerTask THEN "definitive"
    ELSE IF Used(t, row[t].agent) >= MaxPerAssignment THEN "reassign_required"
    ELSE "recoverable"

Blocks(t) ==
    \/ row[t].status \in {"RUNNING", "FAILED"}
    \/ RecoveryKind(t) \in {"unknown_agent", "mismatch"}
    \/ row[t].status \in {"PENDING", "BLOCKED"} /\ t # Synthesis /\ known = {}

MissionState ==
    IF row[Synthesis].status = "COMPLETED" THEN "complete"
    ELSE IF \E t \in Plan : row[t].status # "COMPLETED" /\ Blocks(t) THEN "recovery_pending"
    ELSE "ready_to_resume"

-----------------------------------------------------------------------------
(* The transaction of the orchestrator. *)

NextAttempt(t) == Max({0} \cup {log[t][i].n : i \in DOMAIN log[t]}) + 1

Load(mode, status, after) ==
    [mode |-> mode, graph |-> status, runs |-> [t \in Plan |-> <<>>], after |-> after,
     tries |-> [t \in Plan |-> NextAttempt(t) - 1], todo |-> Runnable(status), agent |-> NoAgent]

\* The rows it has written, and holds until it ends.
Held == IF work.mode # "resume" THEN {}
        ELSE {t \in Plan : work.graph[t] # row[t].status \/ work.runs[t] # <<>>}

Select(registry) == First(Agents, registry)

\* What belongs to the orchestrator is nobody's, and who is assigned is in the registry.
Assignable(t, a) == t # Synthesis /\ a \in known

\* assign: at the creation of the task, the agent that is selected for it.
Assigned(t) == IF \E a \in AgentSet : Assignable(t, a) THEN Select(known) ELSE NoAgent

\* record_execution: always a new row, with the assignment that it read.
Execution(n, by, assigned, ok) == [n |-> n, by |-> by, assigned |-> assigned, ok |-> ok]

\* run_objective: nobody sees the project until it commits.
RunObjective ==
    /\ decisions = <<>> /\ work.mode = "none" /\ known # {}
    /\ row' = [t \in Plan |-> [status |-> "PENDING", agent |-> Assigned(t)]]
    /\ work' = Load("run", Committed, 0)
    /\ UNCHANGED <<log, decisions, retrying, deployVars, armed>>

\* resume_mission: under the lock of the project, after the decision the client saw.
Resume(after) ==
    /\ work.mode = "none" /\ after > 0 /\ after = Len(decisions)
    /\ MissionState = "ready_to_resume"
    /\ work' = Load("resume", UnblockReady(Committed), after)
    /\ UNCHANGED <<row, log, decisions, retrying, deployVars, armed>>

\* In the order of the plan.
Current == First(Tasks, work.todo)
Proceeds == work.mode # "none" /\ work.todo # {}

\* One pass over what could run when the pass began, then what can run now.
Advance(graph) == IF work.todo = {Current} THEN Runnable(graph) ELSE work.todo \ {Current}

Moved(graph, tries, runs) ==
    work' = [work EXCEPT !.graph = graph, !.tries = tries, !.runs = runs,
                         !.todo = Advance(graph), !.agent = NoAgent]

Synthesise ==
    /\ Proceeds /\ Current = Synthesis
    /\ Moved([work.graph EXCEPT ![Synthesis] = "COMPLETED"], work.tries, work.runs)
    /\ UNCHANGED <<row, log, decisions, retrying, deployVars, armed>>

\* It reads the row, which it does not hold yet, and blocks a task whose agent is gone.
Pick ==
    /\ Proceeds /\ Current # Synthesis /\ work.agent = NoAgent
    /\ IF row[Current].agent \in known
       THEN work' = [work EXCEPT !.agent = row[Current].agent]
       ELSE Moved(BlockDependents([work.graph EXCEPT ![Current] = "BLOCKED"], Current),
                  work.tries, work.runs)
    /\ UNCHANGED <<row, log, decisions, retrying, deployVars, armed>>

Fires(t, n) == armed = [task |-> t, attempt |-> n]
Disarmed(t, n) == IF Fires(t, n) THEN NoFault ELSE armed

DoneAlone(t) == [work.graph EXCEPT ![t] = "COMPLETED"]

Done(t) ==
    LET graph == [work.graph EXCEPT ![t] = "COMPLETED"]
    IN IF work.mode = "resume" THEN UnblockDependents(graph, t) ELSE graph

\* The attempt of the agent that was read, from start_attempt to what follows its end.
Attempt(ok) ==
    /\ Proceeds /\ work.agent # NoAgent
    /\ LET t == Current
           n == work.tries[t] + 1
           again == ~Fires(t, n) /\ work.tries[t] < MaxRetries
           runs == [work.runs EXCEPT ![t] =
                       Append(@, Execution(n, work.agent, work.agent, ok))]
       IN /\ ok => ~Fires(t, n)
          /\ \/ ok /\ Moved(Done(t), work.tries, runs)
             \/ ~ok /\ again /\ Moved(work.graph, [work.tries EXCEPT ![t] = n], runs)
             \/ /\ ~ok /\ ~again
                /\ Moved(BlockDependents([work.graph EXCEPT ![t] = "FAILED"], t), work.tries, runs)
          /\ armed' = Disarmed(t, n)
    /\ UNCHANGED <<row, log, decisions, retrying, deployVars>>

MissingAny(status) == {t \in Plan : status[t] # "COMPLETED"}
Missing(status) == {t \in Specialists : status[t] # "COMPLETED"}
Culprits(status) ==
    {t \in Missing(status) : status[t] = "FAILED" \/ row[t].agent \notin known}

\* _conclude and the commit: a decision, complete or a REVIEW that says what is missing.
Conclude ==
    /\ work.mode # "none" /\ work.todo = {}
    /\ row' = [t \in Plan |-> [row[t] EXCEPT !.status = work.graph[t]]]
    /\ log' = [t \in Plan |-> log[t] \o work.runs[t]]
    /\ decisions' = Append(decisions, [complete |-> Missing(work.graph) = {},
                                       culprits |-> Culprits(work.graph), after |-> work.after])
    /\ work' = NoWork
    /\ UNCHANGED <<retrying, deployVars, armed>>

-----------------------------------------------------------------------------
(* What people do. *)

Free(t) ==
    /\ t \notin Held /\ retrying[t] = NotRetried
    /\ \A u \in Plan : t \notin retrying[u].frees

RetryForEver(t) ==
    /\ decisions # <<>> /\ Free(t) /\ t # Synthesis
    /\ row[t].status = "FAILED" /\ row[t].agent \in known
    /\ ParentsCompleted(Committed, t)
    /\ retrying' = [retrying EXCEPT ![t] = [NotRetried EXCEPT !.n = NextAttempt(t), !.by = row[t].agent]]
    /\ UNCHANGED <<row, log, decisions, work, deployVars, armed>>

\* retry, up to the attempt: the row of the task is locked from here to its commit.
BeginRetry(t) ==
    /\ decisions # <<>> /\ Free(t) /\ t # Synthesis
    /\ row[t].status = "FAILED"
    /\ log[t] # <<>> /\ ~Last(log[t]).ok
    /\ row[t].agent \in known
    /\ Len(log[t]) < MaxPerTask /\ Used(t, row[t].agent) < MaxPerAssignment
    /\ ParentsCompleted(Committed, t)
    /\ retrying' = [retrying EXCEPT ![t] = [NotRetried EXCEPT !.n = NextAttempt(t), !.by = row[t].agent]]
    /\ UNCHANGED <<row, log, decisions, work, deployVars, armed>>

\* The attempt ends.  If it went well it releases those who wait only for it, and does
\* not see what others have not committed.
Releases(t) ==
    LET status == [Committed EXCEPT ![t] = "COMPLETED"]
    IN {c \in Plan : t \in Parents[c] /\ Unblockable(status, c)}

EndRetry(t, ok) ==
    /\ retrying[t] # NotRetried /\ retrying[t].ended = "no"
    /\ ok => ~Fires(t, retrying[t].n)
    /\ ok => \A c \in Releases(t) : \A u \in Plan : c \notin retrying[u].frees
    /\ armed' = Disarmed(t, retrying[t].n)
    /\ retrying' = [retrying EXCEPT ![t].ended = IF ok THEN "ok" ELSE "failed",
                                    ![t].frees = IF ok THEN Releases(t) ELSE {}]
    /\ UNCHANGED <<row, log, decisions, work, deployVars>>

CommitRetry(t) ==
    /\ retrying[t].ended # "no"
    /\ log' = [log EXCEPT ![t] = Append(@, Execution(retrying[t].n, retrying[t].by, row[t].agent,
                                                     retrying[t].ended = "ok"))]
    /\ row' = [c \in Plan |->
                  IF c = t /\ retrying[t].ended = "ok" THEN [row[c] EXCEPT !.status = "COMPLETED"]
                  ELSE IF c \in retrying[t].frees THEN [row[c] EXCEPT !.status = "PENDING"]
                  ELSE row[c]]
    /\ retrying' = [retrying EXCEPT ![t] = NotRetried]
    /\ UNCHANGED <<decisions, work, deployVars, armed>>

\* It may wait for whoever holds the row; it then sees what that one committed.
Reassign(t, a) ==
    /\ decisions # <<>> /\ Free(t) /\ Assignable(t, a)
    /\ row[t].status \in {"FAILED", "BLOCKED", "PENDING"}
    /\ a # row[t].agent
    /\ row' = [row EXCEPT ![t].agent = a,
                          ![t].status = IF @ = "BLOCKED" /\ ParentsCompleted(Committed, t)
                                        THEN "PENDING" ELSE @]
    /\ UNCHANGED <<log, decisions, work, retrying, deployVars, armed>>

\* A fault armed for a rehearsal: one at a time; it fires once or expires.
Arm(t, n) ==
    /\ armed = NoFault
    /\ armed' = [task |-> t, attempt |-> n]
    /\ UNCHANGED <<row, log, decisions, work, retrying, deployVars>>

Expire ==
    /\ armed # NoFault
    /\ armed' = NoFault
    /\ UNCHANGED <<row, log, decisions, work, retrying, deployVars>>

\* A new version, with its own agents; nothing in memory survives.
Deploy(registry) ==
    /\ deploys < MaxDeploys /\ deploys' = deploys + 1
    /\ known' = registry
    /\ work' = NoWork /\ retrying' = [t \in Plan |-> NotRetried] /\ armed' = NoFault
    /\ UNCHANGED <<row, log, decisions>>

People ==
    \/ RunObjective
    \/ \E d \in 1..Len(decisions) : Resume(d)
    \/ \E t \in Plan : BeginRetry(t) \/ \E a \in AgentSet : Reassign(t, a)
    \/ \E t \in FaultTasks, n \in 1..MaxPerAssignment : Arm(t, n)

Next ==
    \/ People
    \/ Synthesise \/ Pick \/ Conclude
    \/ \E ok \in BOOLEAN : Attempt(ok) \/ \E t \in Plan : EndRetry(t, ok)
    \/ \E t \in Plan : CommitRetry(t)
    \/ Expire
    \/ \E registry \in SUBSET AgentSet : Deploy(registry)

Spec == Init /\ [][Next]_vars

-----------------------------------------------------------------------------
(* Attempts are numbered one after the other, whoever starts them (the run, *)
(* a resumption, a retry): no number twice, nothing after the one that went *)
(* well, no more than the limits of the task and of an assignment; and a    *)
(* specialist's task is COMPLETED exactly when its last attempt went well,  *)
(* so that no task of a mission reads as the work of nobody, nor as the     *)
(* work of another than who had it (tasks/recovery.py, tasks/policy.py,     *)
(* tasks/assignment.py).                                                    *)
AttemptsAreCounted ==
    \A t \in Specialists :
        /\ \A i \in DOMAIN log[t] : log[t][i].n = i /\ (log[t][i].ok => i = Len(log[t]))
        /\ Len(log[t]) <= MaxPerTask
        /\ \A a \in AgentSet : Used(t, a) <= MaxPerAssignment
        /\ row[t].status = "COMPLETED" <=> (log[t] # <<>> /\ Last(log[t]).ok)
        /\ decisions # <<>> => AssignmentStatus(t) \in {"ASSIGNED", "MATCH", "UNKNOWN_AGENT"}

(* A complete decision was made over the work of every specialist and is    *)
(* the last; each decision follows the one before it, which its client saw; *)
(* and a REVIEW for what is missing always has somebody to fix it: a task   *)
(* that failed or whose agent is gone, never one that only waits for what   *)
(* is done (ceo/orchestrator.py).                                           *)
DecisionsRestOnWork ==
    \A i \in DOMAIN decisions :
        /\ decisions[i].after = i - 1
        /\ decisions[i].complete =>
              /\ i = Len(decisions)
              /\ \A t \in Plan : row[t].status = "COMPLETED"
        /\ ~decisions[i].complete => decisions[i].culprits # {}

(* No task can run ahead of one it needs that is stuck, and the             *)
(* mission is never lost: it ended, or it names a task that blocks it, for  *)
(* a person to retry, hand over or give up on, or it can be resumed and     *)
(* then a task of it runs (ceo/mission.py).                                 *)
NobodyIsStranded ==
    decisions # <<>> =>
        /\ \A t \in Plan : row[t].status = "PENDING" =>
              \A p \in Parents[t] : row[p].status \notin {"FAILED", "BLOCKED", "CANCELLED"}
        /\ MissionState = "ready_to_resume" => Runnable(UnblockReady(Committed)) # {}
        /\ Last(decisions).complete <=> MissionState = "complete"

(* The two together: the mission rests on work that was done, and goes on.  *)
MissionsGoOn == DecisionsRestOnWork /\ NobodyIsStranded
=============================================================================
