--------------------------- MODULE Missions_proofs ---------------------------
(***************************************************************************)
(* What holds of a mission for any plan, agents and limits, and, after it, *)
(* of the decisions that the system takes as functions of what it is told: *)
(* the gate's for every request it lets through, the CEO's for every       *)
(* product that goes on, and the rates, the economic analysis and the risk *)
(* of a supplier that they rest on.                                        *)
(*                                                                         *)
(* The inductive invariant has two halves that say the same of two things: *)
(* of the rows committed and what was logged of them, and of the graph the *)
(* orchestrator has in memory with the attempts it has not committed.  The *)
(* tasks are ordered (nothing runs ahead of what it needs), and each has   *)
(* earned its status with its attempts.  A third part says what a retry    *)
(* may count on between its commits.                                       *)
(***************************************************************************)
EXTENDS Missions, CeoDecision, Economics, SupplierRisk,
        FiniteSetTheorems, SequenceTheorems, WellFoundedInduction, TLAPS

Reached == {"PENDING", "COMPLETED", "FAILED", "BLOCKED"}
TaskRows == [status : Reached, agent : AgentSet \cup {NoAgent}]
Decisions == [complete : BOOLEAN, culprits : SUBSET Specialists, after : Nat]
Works ==
    [mode : {"run", "resume"}, graph : [Plan -> Reached], runs : [Plan -> Seq(Executions)],
     after : Nat, tries : [Plan -> Nat], todo : SUBSET Plan, agent : AgentSet \cup {NoAgent}]
Retries ==
    [n : Nat, by : AgentSet \cup {NoAgent}, ended : {"no", "ok", "failed"}, frees : SUBSET Plan]

TypeInv ==
    /\ row \in [Plan -> TaskRows]
    /\ log \in [Plan -> Seq(Executions)]
    /\ decisions \in Seq(Decisions)
    /\ work \in {NoWork} \cup Works
    /\ retrying \in [Plan -> Retries]
    /\ known \subseteq AgentSet /\ deploys \in 0..MaxDeploys
    /\ armed \in {NoFault} \cup [task : FaultTasks, attempt : 1..MaxPerAssignment]

\* Nothing runs ahead of what it needs.
Ordered(status) ==
    /\ \A t \in Plan : status[t] = "COMPLETED" => ParentsCompleted(status, t)
    /\ \A t \in Plan : status[t] = "PENDING" =>
          \A p \in Parents[t] : status[p] \notin {"FAILED", "BLOCKED"}
    /\ status[Synthesis] # "FAILED"

\* Attempts numbered one after the other within the limits, none after one that went well.
Tally(attempts, a) == Cardinality({i \in DOMAIN attempts : attempts[i].assigned = a})
Counted(attempts) ==
    /\ \A i \in DOMAIN attempts :
          /\ attempts[i].n = i /\ attempts[i].by = attempts[i].assigned
          /\ attempts[i].ok => i = Len(attempts)
    /\ Len(attempts) <= MaxPerTask
    /\ \A a \in AgentSet : Tally(attempts, a) <= MaxPerAssignment

Succeeded(attempts) == attempts # <<>> /\ Last(attempts).ok

\* The status of a task of a specialist is what its attempts made of it.
Earned(status, attempts) ==
    /\ Counted(attempts)
    /\ status = "COMPLETED" <=> Succeeded(attempts)
    /\ status \in {"PENDING", "BLOCKED"} => attempts = <<>>

RowsInv ==
    /\ Ordered(Committed)
    /\ \A t \in Specialists : Earned(row[t].status, log[t])
    /\ row[Synthesis].agent = NoAgent /\ log[Synthesis] = <<>>
    /\ decisions = <<>> => \A t \in Plan : row[t].status = "PENDING"
    /\ decisions # <<>> => \A t \in Specialists : row[t].agent \in AgentSet

\* Between its two commits the row of a retry stays as it found it, and so do those that
\* it releases.
Retried(t) ==
    /\ t # Synthesis /\ row[t].status = "FAILED"
    /\ retrying[t].n = Len(log[t]) + 1
    /\ retrying[t].by = row[t].agent /\ row[t].agent \in AgentSet
    /\ Len(log[t]) < MaxPerTask /\ Used(t, row[t].agent) < MaxPerAssignment
    /\ ParentsCompleted(Committed, t)
    /\ retrying[t].frees # {} => retrying[t].ended = "ok"
    /\ \A c \in retrying[t].frees :
          /\ t \in Parents[c] /\ row[c].status = "BLOCKED"
          /\ \A p \in Parents[c] : p # t => row[p].status = "COMPLETED"

RetriesInv == \A t \in Plan : retrying[t] # NotRetried => Retried(t)

\* What the orchestrator has of the task of a specialist: the attempts committed, those
\* it has not committed, or those of a task that it will try again.
Account(t) ==
    /\ \/ work.runs[t] = <<>> /\ Earned(work.graph[t], log[t])
       \/ /\ work.runs[t] # <<>> /\ log[t] = <<>>
          /\ IF work.graph[t] = "PENDING" THEN Counted(work.runs[t]) /\ ~Last(work.runs[t]).ok
             ELSE Earned(work.graph[t], work.runs[t])
    /\ work.graph[t] \in {"PENDING", "BLOCKED"} =>
          work.tries[t] = Len(work.runs[t]) /\ work.tries[t] <= MaxRetries
    /\ work.runs[t] # <<>> => ParentsCompleted(work.graph, t)

GraphInv ==
    /\ Ordered(work.graph)
    /\ \A t \in Specialists : Account(t)
    /\ work.runs[Synthesis] = <<>>
    \* who is blocked waits for somebody, and in a run for somebody who is stuck
    /\ \A c \in Plan : work.graph[c] = "BLOCKED" =>
          \E p \in Parents[c] : /\ work.graph[p] # "COMPLETED"
                                /\ work.mode = "run" => work.graph[p] \in {"FAILED", "BLOCKED"}
    \* what it goes through can run, and it stops when nothing can
    /\ work.todo \subseteq Runnable(work.graph)
    /\ work.todo = {} => Runnable(work.graph) = {}
    /\ work.agent # NoAgent => work.todo # {} /\ Current # Synthesis

\* What it found, and the locks keep.
FoundInv ==
    /\ work.after = Len(decisions) /\ (work.mode = "run" <=> decisions = <<>>)
    /\ decisions # <<>> => ~Last(decisions).complete
    /\ \A t \in Plan : row[t].status # "FAILED"
    /\ \A t \in Specialists : row[t].status # "COMPLETED" => row[t].agent \in known

WorkInv == work.mode # "none" => GraphInv /\ FoundInv

DecisionsInv ==
    /\ DecisionsRestOnWork
    /\ decisions # <<>> => (Last(decisions).complete <=> row[Synthesis].status = "COMPLETED")

IInv == TypeInv /\ RowsInv /\ RetriesInv /\ WorkInv /\ DecisionsInv

-----------------------------------------------------------------------------
(* The plan *)

LEMMA LeastIndex ==
    ASSUME NEW S \in SUBSET Nat, S # {}
    PROVE  Min(S) \in S /\ \A i \in S : Min(S) <= i
<1>1. PICK m \in S : \A i \in S : ~(<<i, m>> \in OpToRel(<, Nat))
  BY NatLessThanWellFounded, WFMin
<1>2. OpToRel(<, Nat) = {p \in Nat \X Nat : p[1] < p[2]}
  BY DEF OpToRel
<1>3. ASSUME NEW i \in S PROVE m <= i
  <2>1. i \in Nat /\ m \in Nat /\ <<i, m>> \in Nat \X Nat
    OBVIOUS
  <2>2. ~(<<i, m>> \in {p \in Nat \X Nat : p[1] < p[2]})
    BY <1>1, <1>2
  <2>3. ~(i < m)
    BY <2>1, <2>2
  <2> QED
    BY <2>1, <2>3
<1> QED
  BY <1>3 DEF Min

\* Every task has its place in the plan, after those that it needs.
LEMMA Places ==
    /\ DOMAIN Tasks \subseteq Nat /\ \A i \in DOMAIN Tasks : Tasks[i] \in Plan
    /\ \A t \in Plan : \E i \in DOMAIN Tasks : Tasks[i] = t
<1>1. Tasks \in Seq(Plan)
  BY MissionAssumption
<1> QED
  BY <1>1 DEF Plan, Range

LEMMA Ancestry ==
    /\ Synthesis \in Plan /\ Specialists \subseteq Plan /\ Parents[Synthesis] = Specialists
    /\ \A t \in Plan : Parents[t] \subseteq Plan /\ t \notin Parents[t] /\ Synthesis \notin Parents[t]
<1>1. /\ Parents \in [Plan -> SUBSET Plan] /\ Synthesis \in Plan /\ Parents[Synthesis] = Specialists
      /\ \A i, j \in DOMAIN Tasks : Tasks[j] \in Parents[Tasks[i]] => j < i
  BY MissionAssumption
<1>2. ASSUME NEW t \in Plan, t \in Parents[t]
      PROVE  FALSE
  <2>1. PICK i \in DOMAIN Tasks : Tasks[i] = t
    BY Places
  <2>2. i < i /\ i \in Nat
    BY <1>1, <1>2, <2>1, Places
  <2> QED
    BY <2>2
<1>3. ASSUME NEW t \in Plan, Synthesis \in Parents[t]
      PROVE  FALSE
  <2>1. t \in Specialists
    BY <1>1, <1>2, <1>3 DEF Specialists
  <2>2. PICK i \in DOMAIN Tasks : Tasks[i] = t
    BY Places
  <2>3. PICK j \in DOMAIN Tasks : Tasks[j] = Synthesis
    BY <1>1, Places
  <2>4. j < i /\ i < j /\ i \in Nat /\ j \in Nat
    BY <1>1, <1>3, <2>1, <2>2, <2>3, Places
  <2> QED
    BY <2>4
<1> QED
  BY <1>1, <1>2, <1>3 DEF Specialists

LEMMA FirstTask ==
    ASSUME NEW S \in SUBSET Plan, S # {}
    PROVE  First(Tasks, S) \in S
<1> DEFINE I == {i \in DOMAIN Tasks : Tasks[i] \in S}
<1>1. I \in SUBSET Nat /\ I # {}
  BY Places
<1>2. Min(I) \in I
  BY <1>1, LeastIndex
<1> QED
  BY <1>2 DEF First

LEMMA FirstAgent ==
    ASSUME NEW S \in SUBSET AgentSet, S # {}
    PROVE  Select(S) \in S
<1> DEFINE I == {i \in DOMAIN Agents : Agents[i] \in S}
<1>1. I \in SUBSET Nat /\ I # {}
  <2>1. Agents \in Seq(AgentSet)
    BY MissionAssumption
  <2> QED
    BY <2>1 DEF AgentSet, Range
<1>2. Min(I) \in I
  BY <1>1, LeastIndex
<1> QED
  BY <1>2 DEF First, Select

\* The first task that is not done waits for nobody.
LEMMA SomebodyIsNext ==
    ASSUME NEW status, NEW u \in Plan, status[u] # "COMPLETED"
    PROVE  \E t \in Plan : status[t] # "COMPLETED" /\ ParentsCompleted(status, t)
<1> DEFINE I == {i \in DOMAIN Tasks : status[Tasks[i]] # "COMPLETED"}
           m == Min(I)
<1>1. I \in SUBSET Nat /\ I # {}
  BY Places
<1>2. m \in I /\ \A i \in I : m <= i
  BY <1>1, LeastIndex
<1>3. Tasks[m] \in Plan /\ status[Tasks[m]] # "COMPLETED"
  BY <1>2, Places
<1>4. ASSUME NEW p \in Parents[Tasks[m]], status[p] # "COMPLETED"
      PROVE  FALSE
  <2>1. PICK j \in DOMAIN Tasks : Tasks[j] = p
    BY <1>3, Ancestry, Places
  <2>2. j < m /\ m <= j /\ j \in Nat /\ m \in Nat
    BY <1>1, <1>2, <1>4, <2>1, Places, MissionAssumption
  <2> QED
    BY <2>2
<1> QED
  BY <1>3, <1>4 DEF ParentsCompleted

\* What depends on a task: its children, and theirs.
LEMMA DescendantsClosed ==
    ASSUME NEW t \in Plan
    PROVE  Descendants[t] \in SUBSET Plan /\ ChildrenAreIn(Descendants[t], t)
<1>1. Descendants[t] = {c \in Plan : \A S \in SUBSET Plan : ChildrenAreIn(S, t) => c \in S}
  BY DEF Descendants
<1>2. ASSUME NEW c \in Plan, NEW p \in Parents[c], p \in Descendants[t] \cup {t}
      PROVE  c \in Descendants[t]
  <2>1. SUFFICES ASSUME NEW S \in SUBSET Plan, ChildrenAreIn(S, t) PROVE c \in S
    BY <1>1
  <2>2. p \in S \cup {t}
    BY <1>1, <1>2, <2>1
  <2> QED
    BY <2>1, <2>2 DEF ChildrenAreIn
<1> QED
  BY <1>1, <1>2 DEF ChildrenAreIn

LEMMA DescendantsLeast ==
    ASSUME NEW t \in Plan, NEW S \in SUBSET Plan, ChildrenAreIn(S, t)
    PROVE  Descendants[t] \subseteq S
  BY DEF Descendants

\* Each depends on the task or on another that does.
LEMMA DescendantsHang ==
    ASSUME NEW t \in Plan, NEW c \in Descendants[t]
    PROVE  c \in Plan /\ \E p \in Parents[c] : p \in Descendants[t] \cup {t}
<1> DEFINE D == Descendants[t]
           S == {d \in D : Parents[d] \cap (D \cup {t}) # {}}
<1>1. D \in SUBSET Plan /\ ChildrenAreIn(D, t)
  BY DescendantsClosed
<1>2. ChildrenAreIn(S, t)
  <2> HIDE DEF D
  <2> QED
    BY <1>1 DEF ChildrenAreIn
<1>3. D \subseteq S
  BY <1>1, <1>2, DescendantsLeast
<1> QED
  BY <1>1, <1>3

-----------------------------------------------------------------------------
(* The order of the tasks *)

\* Nothing that depends on a task is done before it is.
LEMMA DescendantsWait ==
    ASSUME NEW status, Ordered(status), NEW t \in Plan, status[t] # "COMPLETED"
    PROVE  \A d \in Descendants[t] : status[d] # "COMPLETED"
<1> DEFINE S == {d \in Plan : status[d] # "COMPLETED"}
<1>1. ChildrenAreIn(S, t)
  BY DEF ChildrenAreIn, Ordered, ParentsCompleted
<1>2. Descendants[t] \subseteq S
  BY <1>1, DescendantsLeast
<1> QED
  BY <1>2

LEMMA CompletingKeepsOrder ==
    ASSUME NEW status \in [Plan -> Reached], Ordered(status), NEW t \in Plan, ParentsCompleted(status, t)
    PROVE  /\ [status EXCEPT ![t] = "COMPLETED"] \in [Plan -> Reached]
           /\ Ordered([status EXCEPT ![t] = "COMPLETED"])
<1> DEFINE s == [status EXCEPT ![t] = "COMPLETED"]
<1>1. \A c \in Plan : s[c] = IF c = t THEN "COMPLETED" ELSE status[c]
  OBVIOUS
<1>2. s \in [Plan -> Reached]
  BY DEF Reached
<1> HIDE DEF s
<1>3. ASSUME NEW c \in Plan, s[c] = "COMPLETED"
      PROVE  ParentsCompleted(s, c)
  BY <1>1, <1>3, Ancestry DEF Ordered, ParentsCompleted
<1>4. ASSUME NEW c \in Plan, s[c] = "PENDING", NEW p \in Parents[c]
      PROVE  s[p] \notin {"FAILED", "BLOCKED"}
  BY <1>1, <1>4, Ancestry DEF Ordered
<1>5. s[Synthesis] # "FAILED"
  BY <1>1, Ancestry DEF Ordered
<1>6. Ordered(s)
  BY <1>3, <1>4, <1>5 DEF Ordered
<1> QED
  BY <1>2, <1>6 DEF s

\* Those that are blocked and wait for nobody may go on.
LEMMA UnblockingKeepsOrder ==
    ASSUME NEW status \in [Plan -> Reached], Ordered(status), NEW s \in [Plan -> Reached],
           \A c \in Plan : \/ s[c] = status[c]
                           \/ status[c] = "BLOCKED" /\ ParentsCompleted(status, c) /\ s[c] = "PENDING"
    PROVE  Ordered(s)
<1>1. \A c \in Plan : s[c] = "COMPLETED" <=> status[c] = "COMPLETED"
  OBVIOUS
<1>2. \A c \in Plan : ParentsCompleted(status, c) <=> ParentsCompleted(s, c)
  BY <1>1, Ancestry DEF ParentsCompleted
<1>3. ASSUME NEW c \in Plan, s[c] = "COMPLETED"
      PROVE  ParentsCompleted(s, c)
  BY <1>1, <1>2, <1>3 DEF Ordered
<1>4. ASSUME NEW c \in Plan, s[c] = "PENDING", NEW p \in Parents[c], s[p] \in {"FAILED", "BLOCKED"}
      PROVE  FALSE
  <2>1. p \in Plan /\ status[p] \in {"FAILED", "BLOCKED"}
    BY <1>4, Ancestry
  <2>2. CASE status[c] = "PENDING"
    BY <2>1, <2>2 DEF Ordered
  <2>3. CASE ParentsCompleted(status, c)
    BY <2>1, <2>3 DEF ParentsCompleted
  <2> QED
    BY <1>4, <2>2, <2>3
<1>5. s[Synthesis] # "FAILED"
  BY Ancestry DEF Ordered
<1> QED
  BY <1>3, <1>4, <1>5 DEF Ordered

\* A task that fails blocks all that was to follow, and nothing that could run.
LEMMA FailingKeepsOrder ==
    ASSUME NEW status \in [Plan -> Reached], Ordered(status), NEW t \in Specialists,
           status[t] = "PENDING", ParentsCompleted(status, t),
           NEW s, s = BlockDependents([status EXCEPT ![t] = "FAILED"], t)
    PROVE  /\ s \in [Plan -> Reached] /\ Ordered(s) /\ s[t] = "FAILED"
           /\ \A c \in Plan : c # t => \/ s[c] = status[c]
                                       \/ /\ status[c] = "PENDING" /\ s[c] = "BLOCKED"
                                          /\ ~ParentsCompleted(status, c)
                                          /\ \E p \in Parents[c] : s[p] \in {"FAILED", "BLOCKED"}
           /\ \A c \in Plan : s[c] = "COMPLETED" <=> status[c] = "COMPLETED"
<1> DEFINE D == Descendants[t]
<1>1. t \in Plan /\ t # Synthesis
  BY Ancestry DEF Specialists
<1>2. D \subseteq Plan /\ \A d \in D : status[d] # "COMPLETED"
  BY <1>1, DescendantsClosed, DescendantsWait
<1>3. t \notin D
  <2>1. ASSUME t \in D PROVE FALSE
    <3>1. PICK p \in Parents[t] : p \in D \cup {t}
      BY <1>1, <2>1, DescendantsHang
    <3>2. status[p] = "COMPLETED"
      BY <3>1 DEF ParentsCompleted
    <3> QED
      BY <1>2, <3>1, <3>2
  <2> QED
    BY <2>1
<1>4. \A c \in Plan : s[c] = IF c = t THEN "FAILED"
                             ELSE IF c \in D /\ status[c] = "PENDING" THEN "BLOCKED" ELSE status[c]
  BY <1>1, <1>3 DEF BlockDependents
<1>5. s \in [Plan -> Reached] /\ s[t] = "FAILED"
  <2>1. s = [c \in Plan |-> s[c]]
    BY DEF BlockDependents
  <2>2. \A c \in Plan : s[c] \in Reached
    BY <1>4 DEF Reached
  <2> QED
    BY <1>1, <1>4, <2>1, <2>2
<1>6. \A c \in Plan : s[c] = "COMPLETED" <=> status[c] = "COMPLETED"
  BY <1>4
<1>7. ASSUME NEW c \in D
      PROVE  ~ParentsCompleted(status, c) /\ \E p \in Parents[c] : s[p] \in {"FAILED", "BLOCKED"}
  <2>1. c \in Plan /\ \E p \in Parents[c] : p \in D \cup {t}
    BY <1>1, DescendantsHang
  <2>2. PICK p \in Parents[c] : p \in D \cup {t}
    BY <2>1
  <2>3. p \in Plan /\ status[p] # "COMPLETED" /\ status[p] \in Reached
    BY <1>2, <2>1, <2>2, Ancestry
  <2>4. s[p] \in {"FAILED", "BLOCKED"}
    BY <1>4, <2>2, <2>3 DEF Reached
  <2> QED
    BY <2>2, <2>3, <2>4 DEF ParentsCompleted
<1>8. ASSUME NEW c \in Plan, s[c] = "COMPLETED"
      PROVE  ParentsCompleted(s, c)
  BY <1>6, <1>8, Ancestry DEF Ordered, ParentsCompleted
<1>9. ASSUME NEW c \in Plan, s[c] = "PENDING", NEW p \in Parents[c], s[p] \in {"FAILED", "BLOCKED"}
      PROVE  FALSE
  <2>1. p \in Plan /\ c # t /\ c \notin D /\ status[c] = "PENDING"
    BY <1>4, <1>9, Ancestry
  <2>2. p \in D \cup {t} \/ status[p] \in {"FAILED", "BLOCKED"}
    BY <1>4, <1>9, <2>1
  <2>3. p \notin D \cup {t}
    BY <1>1, <1>9, <2>1, DescendantsClosed DEF ChildrenAreIn
  <2> QED
    BY <1>9, <2>1, <2>2, <2>3 DEF Ordered
<1>10. s[Synthesis] # "FAILED"
  BY <1>1, <1>4, Ancestry DEF Ordered
<1>11. Ordered(s)
  BY <1>8, <1>9, <1>10 DEF Ordered
<1> QED
  BY <1>4, <1>5, <1>6, <1>7, <1>11

-----------------------------------------------------------------------------
(* The attempts *)

LEMMA Limits == MaxPerAssignment \in Nat /\ MaxPerTask \in Nat /\ MaxRetries < MaxPerAssignment
                /\ MaxPerAssignment <= MaxPerTask
  BY MissionAssumption DEF MaxPerAssignment, MaxPerTask

LEMMA TallyIsBounded ==
    ASSUME NEW attempts \in Seq(Executions), NEW a
    PROVE  /\ IsFiniteSet({i \in DOMAIN attempts : attempts[i].assigned = a})
           /\ Tally(attempts, a) \in Nat /\ Tally(attempts, a) <= Len(attempts)
<1> DEFINE I == {i \in DOMAIN attempts : attempts[i].assigned = a}
<1>0. Len(attempts) \in Nat
  OBVIOUS
<1>1. IsFiniteSet(1..Len(attempts)) /\ Cardinality(1..Len(attempts)) = Len(attempts)
  BY <1>0, FS_Interval
<1>2. I \in SUBSET (1..Len(attempts))
  OBVIOUS
<1>3. IsFiniteSet(I) /\ Cardinality(I) <= Cardinality(1..Len(attempts))
  BY <1>1, <1>2, FS_Subset
<1>4. Cardinality(I) \in Nat
  BY <1>3, FS_CardinalityType
<1> QED
  BY <1>1, <1>3, <1>4 DEF Tally

LEMMA TallyOfAppend ==
    ASSUME NEW attempts \in Seq(Executions), NEW e \in Executions, NEW a
    PROVE  Tally(Append(attempts, e), a) = Tally(attempts, a) + (IF e.assigned = a THEN 1 ELSE 0)
<1> DEFINE I == {i \in DOMAIN attempts : attempts[i].assigned = a}
           J == {i \in DOMAIN Append(attempts, e) : Append(attempts, e)[i].assigned = a}
           n == Len(attempts) + 1
<1>1. /\ DOMAIN Append(attempts, e) = 1..n /\ DOMAIN attempts = 1..(n - 1) /\ n \in Nat \ {0}
      /\ \A i \in 1..n : Append(attempts, e)[i] = IF i = n THEN e ELSE attempts[i]
  BY AppendProperties
<1>2. J = IF e.assigned = a THEN I \cup {n} ELSE I
  BY <1>1
<1>3. n \notin I /\ IsFiniteSet(I)
  <2>1. IsFiniteSet({i \in DOMAIN attempts : attempts[i].assigned = a})
    BY TallyIsBounded
  <2> QED
    BY <1>1, <2>1
<1>4. Cardinality(I \cup {n}) = Cardinality(I) + 1
  BY <1>3, FS_AddElement
<1>5. Cardinality(I) \in Nat
  BY <1>3, FS_CardinalityType
<1>6. Tally(Append(attempts, e), a) = Cardinality(J) /\ Tally(attempts, a) = Cardinality(I)
  BY DEF Tally
<1> HIDE DEF I, J
<1> QED
  BY <1>2, <1>4, <1>5, <1>6

\* One more attempt, within the limits.
LEMMA CountedAppend ==
    ASSUME NEW attempts \in Seq(Executions), Counted(attempts), ~Succeeded(attempts),
           NEW a \in AgentSet, NEW ok \in BOOLEAN,
           Len(attempts) < MaxPerTask, Tally(attempts, a) < MaxPerAssignment,
           NEW e, e = Execution(Len(attempts) + 1, a, a, ok)
    PROVE  /\ Append(attempts, e) \in Seq(Executions) /\ Counted(Append(attempts, e))
           /\ Len(Append(attempts, e)) = Len(attempts) + 1
           /\ Append(attempts, e) # <<>> /\ Last(Append(attempts, e)).ok = ok
<1> DEFINE h == Append(attempts, e)
           n == Len(attempts) + 1
<1>1. e \in Executions /\ e.n = n /\ e.by = a /\ e.assigned = a /\ e.ok = ok
  BY DEF Execution, Executions
<1>2. /\ h \in Seq(Executions) /\ Len(h) = n /\ DOMAIN h = 1..n /\ DOMAIN attempts = 1..(n - 1)
      /\ n \in Nat \ {0} /\ \A i \in 1..n : h[i] = IF i = n THEN e ELSE attempts[i]
  BY <1>1, AppendProperties
<1>3. h # <<>> /\ Last(h).ok = ok
  BY <1>1, <1>2, EmptySeq DEF Last
<1>4. \A i \in DOMAIN attempts : ~attempts[i].ok
  <2>1. ASSUME NEW i \in DOMAIN attempts, attempts[i].ok PROVE FALSE
    <3>1. i = Len(attempts) /\ attempts # <<>>
      BY <2>1 DEF Counted
    <3> QED
      BY <2>1, <3>1 DEF Succeeded, Last
  <2> QED
    BY <2>1
<1>5. ASSUME NEW i \in DOMAIN h
      PROVE  h[i].n = i /\ h[i].by = h[i].assigned /\ (h[i].ok => i = Len(h))
  <2>1. CASE i = n
    BY <1>1, <1>2, <2>1
  <2>2. CASE i # n
    <3>1. i \in DOMAIN attempts /\ h[i] = attempts[i]
      BY <1>2, <1>5, <2>2
    <3> QED
      BY <1>4, <3>1 DEF Counted
  <2> QED
    BY <2>1, <2>2
<1>6. Len(h) <= MaxPerTask
  BY <1>2, Limits
<1>7. ASSUME NEW b \in AgentSet
      PROVE  Tally(h, b) <= MaxPerAssignment
  <2>1. Tally(h, b) = Tally(attempts, b) + (IF a = b THEN 1 ELSE 0)
    BY <1>1, TallyOfAppend
  <2>2. Tally(attempts, b) \in Nat /\ Tally(attempts, b) <= MaxPerAssignment
    BY TallyIsBounded DEF Counted
  <2> QED
    BY <2>1, <2>2, Limits
<1>8. Counted(h)
  BY <1>5, <1>6, <1>7 DEF Counted
<1> QED
  BY <1>2, <1>3, <1>8

LEMMA NextIsOneMore ==
    ASSUME NEW t, log[t] \in Seq(Executions), Counted(log[t])
    PROVE  NextAttempt(t) = Len(log[t]) + 1
<1> DEFINE n == Len(log[t])
           S == {0} \cup {log[t][i].n : i \in DOMAIN log[t]}
<1>1. n \in Nat /\ DOMAIN log[t] = 1..n /\ \A i \in 1..n : log[t][i].n = i
  BY DEF Counted
<1>2. S = 0..n
  BY <1>1
<1>3. Max(0..n) = n
  <2>1. n \in 0..n /\ \A i \in 0..n : n >= i
    BY <1>1
  <2>2. \A m \in 0..n : (\A i \in 0..n : m >= i) => m = n
    BY <1>1
  <2> QED
    BY <2>1, <2>2 DEF Max
<1> QED
  BY <1>2, <1>3 DEF NextAttempt

LEMMA NoAttempts == Counted(<<>>) /\ ~Succeeded(<<>>)
<1>1. <<>> \in Seq(Executions) /\ Len(<<>>) = 0 /\ DOMAIN <<>> = {}
  OBVIOUS
<1>2. \A a : Tally(<<>>, a) <= 0 /\ Tally(<<>>, a) \in Nat
  BY <1>1, TallyIsBounded
<1>3. \A a \in AgentSet : Tally(<<>>, a) <= MaxPerAssignment
  BY <1>2, Limits
<1> QED
  BY <1>1, <1>3, Limits DEF Counted, Succeeded

-----------------------------------------------------------------------------
(* The transaction of the orchestrator *)

LEMMA WorkTyped ==
    ASSUME TypeInv, work.mode # "none"
    PROVE  /\ work \in Works /\ work.mode \in {"run", "resume"} /\ work.after \in Nat
           /\ work.graph \in [Plan -> Reached] /\ work.tries \in [Plan -> Nat]
           /\ work.runs \in [Plan -> Seq(Executions)]
           /\ work.todo \in SUBSET Plan /\ work.agent \in AgentSet \cup {NoAgent}
  BY DEF TypeInv, Works, NoWork

\* A step of the orchestrator moves nothing of what others see.
LEMMA WorkStep ==
    ASSUME IInv, UNCHANGED <<row, log, decisions, retrying, known, deploys>>,
           armed' \in {armed, NoFault}, work.mode # "none",
           work' \in Works, work'.mode = work.mode, work'.after = work.after, GraphInv'
    PROVE  IInv'
<1>1. TypeInv'
  BY DEF IInv, TypeInv
<1>2. RowsInv'
  BY DEF IInv, RowsInv, Committed
<1>3. RetriesInv'
  <2>1. \A t \in Plan : Retried(t) => Retried(t)'
    BY DEF Retried, Committed, Used, ParentsCompleted
  <2> QED
    BY <2>1 DEF IInv, RetriesInv
<1>4. DecisionsInv'
  BY DEF IInv, DecisionsInv, DecisionsRestOnWork
<1>5. FoundInv'
  BY DEF IInv, WorkInv, FoundInv
<1> QED
  BY <1>1, <1>2, <1>3, <1>4, <1>5 DEF IInv, WorkInv

\* It goes to the next task.
LEMMA MovedOn ==
    ASSUME work \in Works, NEW graph \in [Plan -> Reached], NEW tries \in [Plan -> Nat],
           NEW runs \in [Plan -> Seq(Executions)], Moved(graph, tries, runs),
           work.todo \subseteq Runnable(work.graph), Current \in work.todo,
           \A c \in work.todo : c # Current => graph[c] = "PENDING" /\ ParentsCompleted(graph, c)
    PROVE  /\ work' \in Works /\ work'.mode = work.mode /\ work'.after = work.after
           /\ work'.graph = graph /\ work'.tries = tries /\ work'.runs = runs
           /\ work'.agent = NoAgent
           /\ work'.todo \subseteq Runnable(graph)
           /\ work'.todo = {} => Runnable(graph) = {}
<1>1. Advance(graph) \in SUBSET Plan
  BY DEF Advance, Runnable, Works
<1>2. work' = [work EXCEPT !.graph = graph, !.tries = tries, !.runs = runs,
                           !.todo = Advance(graph), !.agent = NoAgent]
  BY DEF Moved
<1>3. /\ work' \in Works /\ work'.mode = work.mode /\ work'.after = work.after
      /\ work'.graph = graph /\ work'.tries = tries /\ work'.runs = runs
      /\ work'.agent = NoAgent /\ work'.todo = Advance(graph)
  BY <1>1, <1>2 DEF Works
<1>4. Advance(graph) \subseteq Runnable(graph)
  BY DEF Advance, Runnable, Works
<1>5. Advance(graph) = {} => Runnable(graph) = {}
  BY DEF Advance
<1> QED
  BY <1>3, <1>4, <1>5

LEMMA AccountStays ==
    ASSUME NEW t \in Specialists, Account(t), log' = log,
           work'.runs[t] = work.runs[t], work'.tries[t] = work.tries[t],
           work.runs[t] # <<>> => ParentsCompleted(work'.graph, t),
           \/ work'.graph[t] = work.graph[t]
           \/ work.graph[t] = "PENDING" /\ work'.graph[t] = "BLOCKED" /\ ~ParentsCompleted(work.graph, t)
           \/ work.graph[t] = "BLOCKED" /\ work'.graph[t] = "PENDING"
    PROVE  Account(t)'
<1>1. CASE work'.graph[t] = work.graph[t]
  BY <1>1 DEF Account
<1>2. CASE work'.graph[t] # work.graph[t]
  <2>1. work.runs[t] = <<>>
    BY <1>2 DEF Account, Earned
  <2>2. Earned(work'.graph[t], log[t])
    BY <1>2, <2>1 DEF Account, Earned
  <2> QED
    BY <1>2, <2>1, <2>2 DEF Account
<1> QED
  BY <1>1, <1>2

\* The task it is on.
LEMMA CurrentIs ==
    ASSUME TypeInv, WorkInv, Proceeds
    PROVE  /\ Current \in work.todo /\ Current \in Plan
           /\ work.graph[Current] = "PENDING" /\ ParentsCompleted(work.graph, Current)
           /\ GraphInv /\ FoundInv
<1>1. GraphInv /\ FoundInv
  BY DEF WorkInv, Proceeds
<1>2. work.todo \in SUBSET Plan /\ work.todo # {}
  BY WorkTyped DEF Proceeds
<1>3. Current \in work.todo
  BY <1>2, FirstTask DEF Current
<1>4. Current \in Runnable(work.graph)
  BY <1>1, <1>3 DEF GraphInv
<1> QED
  BY <1>1, <1>2, <1>3, <1>4 DEF Runnable

LEMMA SynthesiseStep == ASSUME IInv, Synthesise PROVE IInv'
<1> DEFINE graph == [work.graph EXCEPT ![Synthesis] = "COMPLETED"]
<1>1. /\ Current \in work.todo /\ Current = Synthesis /\ Proceeds
      /\ work.graph[Synthesis] = "PENDING" /\ ParentsCompleted(work.graph, Synthesis)
      /\ GraphInv /\ FoundInv /\ work.mode # "none" /\ TypeInv
  BY CurrentIs DEF IInv, Synthesise, Proceeds
<1>2. /\ graph \in [Plan -> Reached] /\ Ordered(graph)
      /\ \A c \in Plan : graph[c] = IF c = Synthesis THEN "COMPLETED" ELSE work.graph[c]
  <2>1. Synthesis \in Plan /\ work.graph \in [Plan -> Reached] /\ Ordered(work.graph)
    BY <1>1, WorkTyped, Ancestry DEF GraphInv
  <2>2. graph \in [Plan -> Reached] /\ Ordered(graph)
    BY <1>1, <2>1, CompletingKeepsOrder
  <2> QED
    BY <2>1, <2>2
<1> HIDE DEF graph
<1>3. \A c \in Plan : ParentsCompleted(work.graph, c) <=> ParentsCompleted(graph, c)
  BY <1>2, Ancestry DEF ParentsCompleted
<1>4. /\ work' \in Works /\ work'.mode = work.mode /\ work'.after = work.after
      /\ work'.graph = graph /\ work'.tries = work.tries /\ work'.runs = work.runs
      /\ work'.agent = NoAgent
      /\ work'.todo \subseteq Runnable(graph)
      /\ work'.todo = {} => Runnable(graph) = {}
  <2>1. Moved(graph, work.tries, work.runs)
    BY DEF Synthesise, graph
  <2>2. /\ work \in Works /\ work.tries \in [Plan -> Nat] /\ work.runs \in [Plan -> Seq(Executions)]
        /\ work.todo \subseteq Runnable(work.graph)
    BY <1>1, WorkTyped DEF GraphInv
  <2>3. \A c \in work.todo : c # Current => graph[c] = "PENDING" /\ ParentsCompleted(graph, c)
    BY <1>1, <1>2, <1>3, <2>2 DEF Runnable
  <2> QED
    BY <1>1, <1>2, <2>1, <2>2, <2>3, MovedOn
<1>5. \A t \in Specialists : Account(t)'
  <2>1. \A t \in Specialists : t \in Plan /\ graph[t] = work.graph[t]
    BY <1>2 DEF Specialists
  <2>2. ASSUME NEW t \in Specialists
        PROVE  Account(t)'
    <3>1. Account(t) /\ log' = log
      BY <1>1 DEF GraphInv, Synthesise
    <3>2. work.runs[t] # <<>> => ParentsCompleted(work'.graph, t)
      BY <1>3, <1>4, <2>1, <3>1 DEF Account
    <3> QED
      BY <1>4, <2>1, <3>1, <3>2, AccountStays
  <2> QED
    BY <2>2
<1>6. \A c \in Plan : work'.graph[c] = "BLOCKED" =>
          \E p \in Parents[c] : /\ work'.graph[p] # "COMPLETED"
                                /\ work'.mode = "run" => work'.graph[p] \in {"FAILED", "BLOCKED"}
  BY <1>1, <1>2, <1>4, Ancestry DEF GraphInv
<1>7. GraphInv'
  BY <1>1, <1>2, <1>4, <1>5, <1>6 DEF GraphInv
<1> QED
  BY <1>1, <1>4, <1>7, WorkStep DEF Synthesise, deployVars

\* The agent of a task that is not done is in the registry, so it is the one chosen.
LEMMA PickStep == ASSUME IInv, Pick PROVE IInv'
<1>1. /\ Current \in work.todo /\ Current # Synthesis /\ Proceeds /\ Current \in Plan
      /\ work.graph[Current] = "PENDING" /\ GraphInv /\ FoundInv /\ work.mode # "none" /\ TypeInv
  BY CurrentIs DEF IInv, Pick, Proceeds
<1>2. row[Current].agent \in known
  <2>1. Current \in Specialists
    BY <1>1 DEF Specialists
  <2>2. ~Succeeded(log[Current])
    BY <1>1, <2>1, NoAttempts DEF GraphInv, Account, Earned
  <2>3. row[Current].status # "COMPLETED"
    BY <2>1, <2>2 DEF IInv, RowsInv, Earned
  <2> QED
    BY <1>1, <2>1, <2>3 DEF FoundInv
<1>3. work' = [work EXCEPT !.agent = row[Current].agent]
  BY <1>2 DEF Pick
<1>4. work \in Works /\ row[Current].agent \in AgentSet
  BY <1>1, <1>2, WorkTyped DEF TypeInv
<1>5. /\ work' \in Works /\ work'.mode = work.mode /\ work'.after = work.after
      /\ work'.graph = work.graph /\ work'.tries = work.tries /\ work'.runs = work.runs
      /\ work'.todo = work.todo
  BY <1>3, <1>4 DEF Works
<1>6. Current' = Current
  BY <1>5 DEF Current
<1>7. \A t \in Specialists : Account(t)'
  BY <1>1, <1>5 DEF GraphInv, Account, Pick
<1>8. GraphInv'
  BY <1>1, <1>5, <1>6, <1>7 DEF GraphInv
<1> QED
  BY <1>1, <1>5, <1>8, WorkStep DEF Pick, deployVars

\* The attempts of the task it is on, with one more.
RunsWith(t, ok) ==
    [work.runs EXCEPT ![t] = Append(@, Execution(work.tries[t] + 1, work.agent, work.agent, ok))]

LEMMA AttemptCounts ==
    ASSUME TypeInv, GraphInv, work.mode # "none", NEW t \in Specialists, work.graph[t] = "PENDING",
           work.agent # NoAgent, NEW ok \in BOOLEAN, NEW runs, runs = RunsWith(t, ok)
    PROVE  /\ log[t] = <<>> /\ runs \in [Plan -> Seq(Executions)]
           /\ \A c \in Plan : c # t => runs[c] = work.runs[c]
           /\ Counted(runs[t]) /\ runs[t] # <<>> /\ Last(runs[t]).ok = ok
           /\ Len(runs[t]) = work.tries[t] + 1 /\ work.tries[t] \in Nat
<1> DEFINE e == Execution(work.tries[t] + 1, work.agent, work.agent, ok)
<1>1. /\ t \in Plan /\ work.runs \in [Plan -> Seq(Executions)] /\ work.agent \in AgentSet
      /\ work.runs[t] \in Seq(Executions) /\ work.tries[t] \in Nat
  BY WorkTyped, Ancestry
<1>2. Account(t)
  BY DEF GraphInv
<1>3. log[t] = <<>> /\ Counted(work.runs[t]) /\ ~Succeeded(work.runs[t])
  BY <1>2, NoAttempts DEF Account, Earned, Succeeded
<1>4. work.tries[t] = Len(work.runs[t]) /\ work.tries[t] <= MaxRetries
  BY <1>2 DEF Account
<1>5. Len(work.runs[t]) < MaxPerTask /\ Tally(work.runs[t], work.agent) < MaxPerAssignment
  <2>1. Tally(work.runs[t], work.agent) \in Nat /\ Tally(work.runs[t], work.agent) <= Len(work.runs[t])
    BY <1>1, TallyIsBounded
  <2>2. Len(work.runs[t]) \in Nat /\ MaxRetries \in Nat
    BY <1>1, <1>4, MissionAssumption
  <2> QED
    BY <1>4, <2>1, <2>2, Limits
<1>6. /\ Append(work.runs[t], e) \in Seq(Executions) /\ Counted(Append(work.runs[t], e))
      /\ Len(Append(work.runs[t], e)) = Len(work.runs[t]) + 1
      /\ Append(work.runs[t], e) # <<>> /\ Last(Append(work.runs[t], e)).ok = ok
  <2>1. e = Execution(Len(work.runs[t]) + 1, work.agent, work.agent, ok)
    BY <1>4
  <2> HIDE DEF e
  <2> QED
    BY <1>1, <1>3, <1>5, <2>1, CountedAppend
<1> HIDE DEF e
<1>7. runs = [work.runs EXCEPT ![t] = Append(work.runs[t], e)]
  BY DEF e, RunsWith
<1>8. /\ runs \in [Plan -> Seq(Executions)] /\ runs[t] = Append(work.runs[t], e)
      /\ \A c \in Plan : c # t => runs[c] = work.runs[c]
  BY <1>1, <1>6, <1>7
<1> QED
  BY <1>1, <1>3, <1>4, <1>6, <1>8

\* What the end of an attempt of a task makes of the graph: the task is done, will be
\* tried again or failed; others are blocked behind it or have nothing to wait for.
EndsAttempt(t, ok, graph, tries) ==
    /\ Ordered(graph)
    /\ \A c \in Plan : c # t => tries[c] = work.tries[c]
    /\ \/ graph[t] = "COMPLETED" /\ ok
       \/ graph[t] = "PENDING" /\ ~ok /\ tries[t] = work.tries[t] + 1 /\ work.tries[t] < MaxRetries
       \/ graph[t] = "FAILED" /\ ~ok
    /\ \A c \in Plan : c # t =>
          \/ graph[c] = work.graph[c]
          \/ work.graph[c] = "PENDING" /\ graph[c] = "BLOCKED" /\ ~ParentsCompleted(work.graph, c)
          \/ work.graph[c] = "BLOCKED" /\ graph[c] = "PENDING"
    /\ \A c \in Plan : graph[c] = "BLOCKED" =>
          \E p \in Parents[c] : /\ graph[p] # "COMPLETED"
                                /\ work.mode = "run" => graph[p] \in {"FAILED", "BLOCKED"}

LEMMA AttemptMoves ==
    ASSUME IInv, Proceeds, work.agent # NoAgent, NEW ok \in BOOLEAN, NEW t \in Specialists, t = Current,
           NEW runs, NEW tries \in [Plan -> Nat], NEW graph \in [Plan -> Reached],
           runs = RunsWith(t, ok), Moved(graph, tries, runs), EndsAttempt(t, ok, graph, tries),
           UNCHANGED <<row, log, decisions, retrying, known, deploys>>, armed' \in {armed, NoFault}
    PROVE  IInv'
<1>1. /\ t \in work.todo /\ t \in Plan /\ work.graph[t] = "PENDING" /\ ParentsCompleted(work.graph, t)
      /\ GraphInv /\ FoundInv /\ work.mode # "none" /\ TypeInv /\ t # Synthesis
  BY CurrentIs DEF IInv, Proceeds, Specialists
<1>2. /\ log[t] = <<>> /\ runs \in [Plan -> Seq(Executions)]
      /\ \A c \in Plan : c # t => runs[c] = work.runs[c]
      /\ Counted(runs[t]) /\ runs[t] # <<>> /\ Last(runs[t]).ok = ok
      /\ Len(runs[t]) = work.tries[t] + 1 /\ work.tries[t] \in Nat
  BY <1>1, AttemptCounts
<1>3. /\ work \in Works /\ work.graph \in [Plan -> Reached] /\ work.todo \in SUBSET Plan
      /\ work.todo \subseteq Runnable(work.graph)
  BY <1>1, WorkTyped DEF GraphInv
<1>4. \A c \in Plan : work.graph[c] = "COMPLETED" => graph[c] = "COMPLETED"
  BY <1>1 DEF EndsAttempt
<1>5. \A c \in Plan : ParentsCompleted(work.graph, c) => ParentsCompleted(graph, c)
  BY <1>4, Ancestry DEF ParentsCompleted
<1>6. \A c \in work.todo : c # Current => graph[c] = "PENDING" /\ ParentsCompleted(graph, c)
  BY <1>3, <1>5 DEF Runnable, EndsAttempt
<1>7. /\ work' \in Works /\ work'.mode = work.mode /\ work'.after = work.after
      /\ work'.graph = graph /\ work'.tries = tries /\ work'.runs = runs
      /\ work'.agent = NoAgent
      /\ work'.todo \subseteq Runnable(graph)
      /\ work'.todo = {} => Runnable(graph) = {}
  BY <1>1, <1>2, <1>3, <1>6, MovedOn
<1>8. ASSUME NEW c \in Specialists, c # t
      PROVE  Account(c)'
  <2>1. Account(c) /\ c \in Plan
    BY <1>1, Ancestry DEF GraphInv
  <2>2. work'.runs[c] = work.runs[c] /\ work'.tries[c] = work.tries[c]
    BY <1>2, <1>7, <1>8, <2>1 DEF EndsAttempt
  <2>3. work.runs[c] # <<>> => ParentsCompleted(work'.graph, c)
    BY <1>5, <1>7, <2>1 DEF Account
  <2>4. \/ work'.graph[c] = work.graph[c]
        \/ work.graph[c] = "PENDING" /\ work'.graph[c] = "BLOCKED" /\ ~ParentsCompleted(work.graph, c)
        \/ work.graph[c] = "BLOCKED" /\ work'.graph[c] = "PENDING"
    BY <1>7, <1>8, <2>1 DEF EndsAttempt
  <2> QED
    BY <2>1, <2>2, <2>3, <2>4, AccountStays
<1>9. Account(t)'
  <2>1. Succeeded(runs[t]) <=> ok
    BY <1>2 DEF Succeeded
  <2>2. IF graph[t] = "PENDING" THEN Counted(runs[t]) /\ ~Last(runs[t]).ok ELSE Earned(graph[t], runs[t])
    BY <1>2, <2>1 DEF Earned, EndsAttempt
  <2>3. graph[t] \in {"PENDING", "BLOCKED"} => tries[t] = Len(runs[t]) /\ tries[t] <= MaxRetries
    BY <1>2, MissionAssumption DEF EndsAttempt
  <2>4. ParentsCompleted(graph, t)
    BY <1>1, <1>5
  <2> QED
    BY <1>2, <1>7, <2>2, <2>3, <2>4 DEF Account
<1>10. work'.runs[Synthesis] = <<>>
  BY <1>1, <1>2, <1>7, Ancestry DEF GraphInv
<1>11. GraphInv'
  BY <1>7, <1>8, <1>9, <1>10 DEF GraphInv, EndsAttempt
<1> QED
  BY <1>1, <1>7, <1>11, WorkStep

LEMMA FailedEnds ==
    ASSUME TypeInv, GraphInv, work.mode # "none", NEW t \in Specialists,
           work.graph[t] = "PENDING", ParentsCompleted(work.graph, t),
           NEW graph, graph = BlockDependents([work.graph EXCEPT ![t] = "FAILED"], t)
    PROVE  graph \in [Plan -> Reached] /\ EndsAttempt(t, FALSE, graph, work.tries)
<1>1. work.graph \in [Plan -> Reached] /\ Ordered(work.graph)
  BY WorkTyped DEF GraphInv
<1>2. /\ graph \in [Plan -> Reached] /\ Ordered(graph) /\ graph[t] = "FAILED"
      /\ \A c \in Plan : c # t => \/ graph[c] = work.graph[c]
                                  \/ /\ work.graph[c] = "PENDING" /\ graph[c] = "BLOCKED"
                                     /\ ~ParentsCompleted(work.graph, c)
                                     /\ \E p \in Parents[c] : graph[p] \in {"FAILED", "BLOCKED"}
      /\ \A c \in Plan : graph[c] = "COMPLETED" <=> work.graph[c] = "COMPLETED"
  BY <1>1, FailingKeepsOrder
<1>3. ASSUME NEW c \in Plan, graph[c] = "BLOCKED"
      PROVE  \E p \in Parents[c] : /\ graph[p] # "COMPLETED"
                                   /\ work.mode = "run" => graph[p] \in {"FAILED", "BLOCKED"}
  <2>1. CASE \E p \in Parents[c] : graph[p] \in {"FAILED", "BLOCKED"}
    BY <2>1
  <2>2. CASE work.graph[c] = "BLOCKED"
    <3>1. PICK p \in Parents[c] : /\ work.graph[p] # "COMPLETED"
                                  /\ work.mode = "run" => work.graph[p] \in {"FAILED", "BLOCKED"}
      BY <2>2 DEF GraphInv
    <3>2. p \in Plan
      BY Ancestry
    <3>3. graph[p] # "COMPLETED"
      BY <1>2, <3>1, <3>2
    <3>4. work.graph[p] \in {"FAILED", "BLOCKED"} => graph[p] \in {"FAILED", "BLOCKED"}
      BY <1>2, <3>2
    <3> QED
      BY <3>1, <3>3, <3>4
  <2> QED
    BY <1>2, <1>3, <2>1, <2>2
<1> QED
  BY <1>2, <1>3 DEF EndsAttempt

LEMMA AgainEnds ==
    ASSUME TypeInv, GraphInv, work.mode # "none", NEW t \in Specialists,
           work.graph[t] = "PENDING", work.tries[t] < MaxRetries,
           NEW tries, tries = [work.tries EXCEPT ![t] = work.tries[t] + 1]
    PROVE  /\ work.graph \in [Plan -> Reached] /\ tries \in [Plan -> Nat]
           /\ EndsAttempt(t, FALSE, work.graph, tries)
<1>1. work.graph \in [Plan -> Reached] /\ work.tries \in [Plan -> Nat] /\ t \in Plan
  BY WorkTyped, Ancestry
<1>2. /\ tries \in [Plan -> Nat] /\ tries[t] = work.tries[t] + 1
      /\ \A c \in Plan : c # t => tries[c] = work.tries[c]
  BY <1>1
<1> QED
  BY <1>1, <1>2 DEF GraphInv, EndsAttempt

\* A task that is done frees, in a resumption, those that waited only for it.
LEMMA DoneEnds ==
    ASSUME IInv, work.mode # "none", NEW t \in Specialists,
           work.graph[t] = "PENDING", ParentsCompleted(work.graph, t),
           NEW graph, graph = Done(t)
    PROVE  graph \in [Plan -> Reached] /\ EndsAttempt(t, TRUE, graph, work.tries)
<1> DEFINE done == [work.graph EXCEPT ![t] = "COMPLETED"]
<1>1. /\ work.graph \in [Plan -> Reached] /\ Ordered(work.graph) /\ t \in Plan /\ t # Synthesis
      /\ GraphInv /\ FoundInv /\ TypeInv
  BY WorkTyped, Ancestry DEF IInv, WorkInv, GraphInv, Specialists
<1>2. /\ done \in [Plan -> Reached] /\ Ordered(done)
      /\ \A c \in Plan : done[c] = IF c = t THEN "COMPLETED" ELSE work.graph[c]
  BY <1>1, CompletingKeepsOrder
<1> HIDE DEF done
<1>3. CASE work.mode = "run"
  <2>1. graph = done
    BY <1>3 DEF Done, done
  <2>2. ASSUME NEW c \in Plan, done[c] = "BLOCKED"
        PROVE  \E p \in Parents[c] : done[p] \in {"FAILED", "BLOCKED"}
    <3>1. work.graph[c] = "BLOCKED"
      BY <1>2, <2>2
    <3>2. PICK p \in Parents[c] : work.graph[p] \in {"FAILED", "BLOCKED"}
      BY <1>1, <1>3, <3>1 DEF GraphInv
    <3>3. p \in Plan
      BY Ancestry
    <3> QED
      BY <1>2, <3>2, <3>3
  <2>3. \A c \in Plan : done[c] = "BLOCKED" =>
           \E p \in Parents[c] : /\ done[p] # "COMPLETED"
                                 /\ work.mode = "run" => done[p] \in {"FAILED", "BLOCKED"}
    BY <2>2
  <2>4. done[t] = "COMPLETED" /\ \A c \in Plan : c # t => done[c] = work.graph[c]
    BY <1>1, <1>2
  <2>5. EndsAttempt(t, TRUE, done, work.tries)
    BY <1>2, <2>3, <2>4 DEF EndsAttempt
  <2> QED
    BY <1>2, <2>1, <2>5
<1>4. CASE work.mode = "resume"
  <2>1. graph = [c \in Plan |-> IF t \in Parents[c] /\ Unblockable(done, c) THEN "PENDING" ELSE done[c]]
    BY <1>4 DEF Done, done, UnblockDependents
  <2>2. \A c \in Plan : graph[c] = IF t \in Parents[c] /\ Unblockable(done, c) THEN "PENDING" ELSE done[c]
    BY <2>1
  <2>3. \A c \in Plan : Unblockable(done, c) => done[c] = "BLOCKED" /\ ParentsCompleted(done, c)
    BY DEF Unblockable
  <2>4. graph \in [Plan -> Reached]
    BY <1>2, <2>1 DEF Reached
  <2>5. Ordered(graph)
    BY <1>2, <2>2, <2>3, <2>4, UnblockingKeepsOrder
  <2>6. graph[t] = "COMPLETED"
    BY <1>1, <1>2, <2>2, <2>3
  <2>7. \A c \in Plan : c # t => graph[c] = work.graph[c] \/ (work.graph[c] = "BLOCKED" /\ graph[c] = "PENDING")
    BY <1>2, <2>2, <2>3
  <2>8. ASSUME NEW c \in Plan, graph[c] = "BLOCKED"
        PROVE  \E p \in Parents[c] : graph[p] # "COMPLETED"
    <3>1. done[c] = "BLOCKED" /\ work.graph[c] = "BLOCKED"
      BY <1>2, <2>2, <2>8
    <3>2. row[c].agent \in known \cup {NoAgent}
      <4>1. CASE c = Synthesis
        BY <4>1 DEF IInv, RowsInv
      <4>2. CASE c # Synthesis
        <5>1. c \in Specialists /\ Account(c)
          BY <1>1, <4>2 DEF Specialists, GraphInv
        <5>2. ~Succeeded(log[c])
          BY <3>1, <5>1, NoAttempts DEF Account, Earned
        <5>3. row[c].status # "COMPLETED"
          BY <5>1, <5>2 DEF IInv, RowsInv, Earned
        <5> QED
          BY <1>1, <5>1, <5>3 DEF FoundInv
      <4> QED
        BY <4>1, <4>2
    <3>3. CASE t \in Parents[c]
      <4>1. ~ParentsCompleted(done, c)
        BY <2>2, <2>8, <3>1, <3>2, <3>3 DEF Unblockable
      <4>2. PICK p \in Parents[c] : done[p] # "COMPLETED"
        BY <4>1 DEF ParentsCompleted
      <4> QED
        BY <2>2, <2>3, <4>2, Ancestry
    <3>4. CASE t \notin Parents[c]
      <4>1. PICK p \in Parents[c] : work.graph[p] # "COMPLETED"
        BY <1>1, <3>1 DEF GraphInv
      <4>2. p \in Plan /\ p # t
        BY <3>4, Ancestry
      <4> QED
        BY <1>2, <2>2, <4>1, <4>2
    <3> QED
      BY <3>3, <3>4
  <2>9. \A c \in Plan : graph[c] = "BLOCKED" =>
           \E p \in Parents[c] : /\ graph[p] # "COMPLETED"
                                 /\ work.mode = "run" => graph[p] \in {"FAILED", "BLOCKED"}
    BY <1>4, <2>8
  <2>10. EndsAttempt(t, TRUE, graph, work.tries)
    BY <2>5, <2>6, <2>7, <2>9 DEF EndsAttempt
  <2> QED
    BY <2>4, <2>10
<1> QED
  BY <1>1, <1>3, <1>4, WorkTyped

LEMMA AttemptStep == ASSUME IInv, NEW ok \in BOOLEAN, Attempt(ok) PROVE IInv'
<1>1. /\ Current \in Plan /\ Current # Synthesis /\ Proceeds /\ work.agent # NoAgent
      /\ work.graph[Current] = "PENDING" /\ ParentsCompleted(work.graph, Current)
      /\ GraphInv /\ work.mode # "none" /\ TypeInv
  BY CurrentIs DEF IInv, Attempt, Proceeds, GraphInv
<1>2. PICK t \in Specialists : t = Current
  BY <1>1 DEF Specialists
<1>3. UNCHANGED <<row, log, decisions, retrying, known, deploys>>
  BY DEF Attempt, deployVars
<1>4. armed' \in {armed, NoFault}
  BY DEF Attempt, Disarmed
<1>5. PICK runs : runs = RunsWith(t, ok)
  OBVIOUS
<1>6. work.tries \in [Plan -> Nat] /\ work.graph[t] = "PENDING" /\ ParentsCompleted(work.graph, t)
  BY <1>1, <1>2, WorkTyped
<1>7. \/ ok /\ Moved(Done(t), work.tries, runs)
      \/ /\ ~ok /\ work.tries[t] < MaxRetries
         /\ Moved(work.graph, [work.tries EXCEPT ![t] = work.tries[t] + 1], runs)
      \/ ~ok /\ Moved(BlockDependents([work.graph EXCEPT ![t] = "FAILED"], t), work.tries, runs)
  BY <1>2, <1>5 DEF Attempt, RunsWith
<1>8. CASE ok /\ Moved(Done(t), work.tries, runs)
  <2>1. PICK graph : graph = Done(t)
    OBVIOUS
  <2>2. graph \in [Plan -> Reached] /\ EndsAttempt(t, ok, graph, work.tries)
    BY <1>1, <1>6, <1>8, <2>1, DoneEnds
  <2>3. Moved(graph, work.tries, runs)
    BY <1>8, <2>1
  <2> QED
    BY <1>1, <1>2, <1>3, <1>4, <1>5, <1>6, <2>2, <2>3, AttemptMoves
<1>9. CASE ~ok /\ work.tries[t] < MaxRetries
           /\ Moved(work.graph, [work.tries EXCEPT ![t] = work.tries[t] + 1], runs)
  <2>1. PICK tries : tries = [work.tries EXCEPT ![t] = work.tries[t] + 1]
    OBVIOUS
  <2>2. PICK graph : graph = work.graph
    OBVIOUS
  <2>3. /\ graph \in [Plan -> Reached] /\ tries \in [Plan -> Nat]
        /\ EndsAttempt(t, ok, graph, tries)
    BY <1>1, <1>6, <1>9, <2>1, <2>2, AgainEnds
  <2>4. Moved(graph, tries, runs)
    BY <1>9, <2>1, <2>2
  <2> QED
    BY <1>1, <1>2, <1>3, <1>4, <1>5, <2>3, <2>4, AttemptMoves
<1>10. CASE ~ok /\ Moved(BlockDependents([work.graph EXCEPT ![t] = "FAILED"], t), work.tries, runs)
  <2>1. PICK graph : graph = BlockDependents([work.graph EXCEPT ![t] = "FAILED"], t)
    OBVIOUS
  <2>2. graph \in [Plan -> Reached] /\ EndsAttempt(t, ok, graph, work.tries)
    BY <1>1, <1>6, <1>10, <2>1, FailedEnds
  <2>3. Moved(graph, work.tries, runs)
    BY <1>10, <2>1
  <2> QED
    BY <1>1, <1>2, <1>3, <1>4, <1>5, <1>6, <2>2, <2>3, AttemptMoves
<1> QED
  BY <1>7, <1>8, <1>9, <1>10

\* What it begins with.
LEMMA LoadedGraph ==
    ASSUME TypeInv, NEW mode \in {"run", "resume"}, NEW status \in [Plan -> Reached], NEW after \in Nat,
           work' = Load(mode, status, after), log' = log, log[Synthesis] = <<>>,
           Ordered(status), \A t \in Specialists : Earned(status[t], log[t]),
           \A c \in Plan : status[c] = "BLOCKED" =>
              mode # "run" /\ \E p \in Parents[c] : status[p] # "COMPLETED"
    PROVE  work' \in Works /\ work'.mode = mode /\ work'.after = after /\ GraphInv'
<1>1. \A t \in Plan : log[t] \in Seq(Executions) /\ Counted(log[t])
  <2>1. \A t \in Plan : t = Synthesis \/ t \in Specialists
    BY DEF Specialists
  <2> QED
    BY <2>1, NoAttempts DEF TypeInv, Earned
<1>2. \A t \in Plan : NextAttempt(t) - 1 = Len(log[t]) /\ Len(log[t]) \in Nat
  BY <1>1, NextIsOneMore
<1>3. PICK tries : tries = [t \in Plan |-> NextAttempt(t) - 1]
  OBVIOUS
<1>4. tries \in [Plan -> Nat] /\ \A t \in Plan : tries[t] = Len(log[t])
  BY <1>2, <1>3
<1>5. PICK runs : runs = [t \in Plan |-> <<>>]
  OBVIOUS
<1>6. runs \in [Plan -> Seq(Executions)] /\ \A t \in Plan : runs[t] = <<>>
  BY <1>5
<1>7. Runnable(status) \in SUBSET Plan
  BY DEF Runnable
<1>8. work' = [mode |-> mode, graph |-> status, runs |-> runs, after |-> after, tries |-> tries,
               todo |-> Runnable(status), agent |-> NoAgent]
  BY <1>3, <1>5 DEF Load
<1>9. /\ work' \in Works /\ work'.mode = mode /\ work'.after = after /\ work'.graph = status
      /\ work'.runs = runs /\ work'.tries = tries /\ work'.todo = Runnable(status)
      /\ work'.agent = NoAgent
  BY <1>4, <1>6, <1>7, <1>8 DEF Works
<1>10. ASSUME NEW t \in Specialists
       PROVE  Account(t)'
  <2>1. t \in Plan /\ work'.runs[t] = <<>> /\ work'.tries[t] = Len(log[t]) /\ Earned(status[t], log[t])
    BY <1>4, <1>6, <1>9, Ancestry
  <2>2. status[t] \in {"PENDING", "BLOCKED"} => Len(log[t]) = Len(<<>>) /\ Len(log[t]) = 0
    BY <2>1 DEF Earned
  <2> QED
    BY <1>9, <2>1, <2>2, MissionAssumption DEF Account
<1>11. GraphInv'
  BY <1>6, <1>9, <1>10, Ancestry DEF GraphInv
<1> QED
  BY <1>9, <1>11

LEMMA CommittedIs ==
    ASSUME TypeInv
    PROVE  Committed \in [Plan -> Reached] /\ \A t \in Plan : Committed[t] = row[t].status
  BY DEF TypeInv, Committed, TaskRows

LEMMA RunObjectiveStep == ASSUME IInv, RunObjective PROVE IInv'
<1>0. TypeInv /\ RowsInv /\ DecisionsInv /\ decisions = <<>> /\ work.mode = "none" /\ known # {}
  BY DEF IInv, RunObjective
<1>1. /\ row' = [t \in Plan |-> [status |-> "PENDING", agent |-> Assigned(t)]]
      /\ UNCHANGED <<log, decisions, retrying, known, deploys, armed>>
  BY DEF RunObjective, deployVars
<1>2. Assigned(Synthesis) = NoAgent /\ \A t \in Specialists : Assigned(t) \in known
  <2>1. known \in SUBSET AgentSet /\ known # {}
    BY <1>0 DEF TypeInv
  <2>2. Select(known) \in known
    BY <2>1, FirstAgent
  <2> QED
    BY <2>1, <2>2 DEF Assigned, Assignable, Specialists
<1>3. \A t \in Plan : Assigned(t) \in AgentSet \cup {NoAgent}
  <2>1. \A t \in Plan : t = Synthesis \/ t \in Specialists
    BY DEF Specialists
  <2> QED
    BY <1>0, <1>2, <2>1 DEF TypeInv
<1>4. row' \in [Plan -> TaskRows] /\ \A t \in Plan : row'[t].status = "PENDING" /\ row'[t].agent = Assigned(t)
  BY <1>1, <1>3 DEF TaskRows, Reached
<1>5. \A t \in Plan : row[t].status = "PENDING"
  BY <1>0 DEF RowsInv
<1>6. Committed' = Committed
  BY <1>4, <1>5 DEF Committed
<1>7. /\ work' = Load("run", Committed, 0) /\ Committed \in [Plan -> Reached]
      /\ \A t \in Plan : Committed[t] = "PENDING"
  BY <1>0, <1>5, CommittedIs DEF RunObjective
<1>8. work' \in Works /\ work'.mode = "run" /\ work'.after = 0 /\ GraphInv'
  <2>1. \A t \in Specialists : Committed[t] = row[t].status
    BY <1>0, CommittedIs, Ancestry
  <2>2. \A t \in Specialists : Earned(Committed[t], log[t])
    BY <1>0, <2>1 DEF RowsInv
  <2>3. Ordered(Committed) /\ log[Synthesis] = <<>>
    BY <1>0 DEF RowsInv
  <2>4. \A c \in Plan : Committed[c] # "BLOCKED"
    BY <1>7
  <2>5. log' = log
    BY <1>1
  <2> HIDE DEF Committed
  <2>6. PICK status \in [Plan -> Reached] : status = Committed
    BY <1>7
  <2> QED
    BY <1>0, <1>7, <2>2, <2>3, <2>4, <2>5, <2>6, LoadedGraph
<1>9. TypeInv'
  BY <1>0, <1>1, <1>4, <1>8 DEF TypeInv
<1>10. RowsInv'
  <2>1. Ordered(Committed)'
    BY <1>0, <1>6 DEF RowsInv
  <2>2. \A t \in Specialists : Earned(row'[t].status, log'[t])
    BY <1>0, <1>1, <1>4, <1>5, Ancestry DEF RowsInv
  <2> QED
    BY <1>0, <1>1, <1>2, <1>4, <2>1, <2>2, Ancestry DEF RowsInv
<1>11. RetriesInv'
  <2>1. \A t \in Plan : retrying[t] = NotRetried
    BY <1>5 DEF IInv, RetriesInv, Retried
  <2> QED
    BY <1>1, <2>1 DEF RetriesInv
<1>12. FoundInv'
  BY <1>0, <1>1, <1>2, <1>4, <1>8, Ancestry DEF FoundInv
<1>13. DecisionsInv'
  BY <1>0, <1>1 DEF DecisionsInv, DecisionsRestOnWork
<1> QED
  BY <1>8, <1>9, <1>10, <1>11, <1>12, <1>13 DEF IInv, WorkInv

\* Where nobody has to act first, every task that is not done may go on.
LEMMA ReadyMeans ==
    ASSUME TypeInv, MissionState = "ready_to_resume"
    PROVE  /\ row[Synthesis].status # "COMPLETED"
           /\ \A t \in Plan : row[t].status # "FAILED"
           /\ \A t \in Plan : row[t].status # "COMPLETED" => row[t].agent \in known \cup {NoAgent}
<1>1. row[Synthesis].status # "COMPLETED"
  BY DEF MissionState
<1>2. \A t \in Plan : row[t].status # "COMPLETED" => ~Blocks(t)
  BY DEF MissionState
<1>3. \A t \in Plan : row[t].status \in Reached
  BY DEF TypeInv, TaskRows
<1>4. ASSUME NEW t \in Plan, row[t].status # "COMPLETED"
      PROVE  row[t].status # "FAILED" /\ row[t].agent \in known \cup {NoAgent}
  <2>1. row[t].status # "FAILED" /\ RecoveryKind(t) # "unknown_agent"
    BY <1>2, <1>4 DEF Blocks
  <2> QED
    BY <1>3, <1>4, <2>1 DEF RecoveryKind, Reached
<1> QED
  BY <1>1, <1>4

LEMMA ResumeStep == ASSUME IInv, NEW after \in 1..Len(decisions), Resume(after) PROVE IInv'
<1>0. /\ TypeInv /\ RowsInv /\ RetriesInv /\ DecisionsInv /\ work.mode = "none"
      /\ after = Len(decisions) /\ after \in Nat /\ decisions # <<>> /\ MissionState = "ready_to_resume"
      /\ UNCHANGED <<row, log, decisions, retrying, known, deploys, armed>>
  <2>1. decisions \in Seq(Decisions)
    BY DEF IInv, TypeInv
  <2>2. Len(decisions) \in Nat /\ Len(decisions) > 0
    BY <2>1
  <2> QED
    BY <2>1, <2>2 DEF IInv, Resume, deployVars
<1>1. /\ row[Synthesis].status # "COMPLETED"
      /\ \A t \in Plan : row[t].status # "FAILED"
      /\ \A t \in Plan : row[t].status # "COMPLETED" => row[t].agent \in known \cup {NoAgent}
  BY <1>0, ReadyMeans
<1>2. PICK status : status = UnblockReady(Committed)
  OBVIOUS
<1>3. /\ Committed \in [Plan -> Reached] /\ \A t \in Plan : Committed[t] = row[t].status
      /\ Ordered(Committed)
  BY <1>0, CommittedIs DEF RowsInv
<1>4. PICK rows \in [Plan -> Reached] : rows = Committed
  BY <1>3
<1>5. /\ status = [c \in Plan |-> IF Unblockable(rows, c) THEN "PENDING" ELSE rows[c]]
      /\ \A c \in Plan : rows[c] = row[c].status
  BY <1>2, <1>3, <1>4 DEF UnblockReady
<1>6. \A c \in Plan : /\ status[c] = IF Unblockable(rows, c) THEN "PENDING" ELSE rows[c]
                      /\ Unblockable(rows, c) => rows[c] = "BLOCKED" /\ ParentsCompleted(rows, c)
  BY <1>5 DEF Unblockable
<1>7. status \in [Plan -> Reached]
  BY <1>5 DEF Reached
<1>8. Ordered(status)
  BY <1>3, <1>4, <1>6, <1>7, UnblockingKeepsOrder
<1>9. ASSUME NEW t \in Specialists
      PROVE  Earned(status[t], log[t])
  <2>1. Earned(rows[t], log[t]) /\ t \in Plan
    BY <1>0, <1>5, Ancestry DEF RowsInv
  <2> QED
    BY <1>6, <2>1 DEF Earned
<1>10. ASSUME NEW c \in Plan, status[c] = "BLOCKED"
       PROVE  \E p \in Parents[c] : status[p] # "COMPLETED"
  <2>1. rows[c] = "BLOCKED" /\ ~Unblockable(rows, c)
    BY <1>6, <1>10
  <2>2. ~ParentsCompleted(rows, c)
    BY <1>1, <1>5, <2>1 DEF Unblockable
  <2>3. PICK p \in Parents[c] : rows[p] # "COMPLETED"
    BY <2>2 DEF ParentsCompleted
  <2> QED
    BY <1>6, <2>3, Ancestry
<1>11. work' \in Works /\ work'.mode = "resume" /\ work'.after = after /\ GraphInv'
  <2>1. work' = Load("resume", status, after) /\ log' = log /\ log[Synthesis] = <<>>
    BY <1>0, <1>2 DEF Resume, RowsInv
  <2> QED
    BY <1>0, <1>7, <1>8, <1>9, <1>10, <2>1, LoadedGraph
<1>12. TypeInv'
  BY <1>0, <1>11 DEF TypeInv
<1>13. RowsInv'
  BY <1>0 DEF RowsInv, Committed
<1>14. RetriesInv'
  <2>1. \A t \in Plan : retrying[t] = NotRetried
    BY <1>0, <1>1 DEF RetriesInv, Retried
  <2> QED
    BY <1>0, <2>1 DEF RetriesInv
<1>15. FoundInv'
  <2>1. ~Last(decisions).complete
    BY <1>0, <1>1 DEF DecisionsInv
  <2>2. \A t \in Specialists : row[t].status # "COMPLETED" => row[t].agent \in known
    <3>1. \A t \in Specialists : row[t].agent \in AgentSet /\ t \in Plan
      BY <1>0, Ancestry DEF RowsInv
    <3> QED
      BY <1>1, <3>1, MissionAssumption
  <2> QED
    BY <1>0, <1>1, <1>11, <2>1, <2>2 DEF FoundInv
<1>16. DecisionsInv'
  BY <1>0 DEF DecisionsInv, DecisionsRestOnWork
<1> QED
  BY <1>11, <1>12, <1>13, <1>14, <1>15, <1>16 DEF IInv, WorkInv

\* When nothing can run any more, the mission is done, or somebody's task failed.
LEMMA WorkEnds ==
    ASSUME TypeInv, WorkInv, work.mode # "none", work.todo = {}
    PROVE  /\ Missing(work.graph) = {} <=> work.graph[Synthesis] = "COMPLETED"
           /\ Missing(work.graph) = {} => \A t \in Plan : work.graph[t] = "COMPLETED"
           /\ Missing(work.graph) # {} => Culprits(work.graph) # {}
<1>1. GraphInv /\ work.graph \in [Plan -> Reached]
  BY WorkTyped DEF WorkInv
<1>2. ASSUME NEW t \in Plan, ParentsCompleted(work.graph, t)
      PROVE  work.graph[t] \in {"COMPLETED", "FAILED"}
  <2>1. work.graph[t] # "PENDING"
    BY <1>1, <1>2 DEF GraphInv, Runnable
  <2>2. work.graph[t] # "BLOCKED"
    BY <1>1, <1>2 DEF GraphInv, ParentsCompleted
  <2> QED
    BY <1>1, <2>1, <2>2 DEF Reached
<1>3. Missing(work.graph) = {} <=> ParentsCompleted(work.graph, Synthesis)
  BY Ancestry DEF Missing, ParentsCompleted
<1>4. Missing(work.graph) = {} <=> work.graph[Synthesis] = "COMPLETED"
  BY <1>1, <1>2, <1>3, Ancestry DEF GraphInv, Ordered
<1>5. Missing(work.graph) = {} => \A t \in Plan : work.graph[t] = "COMPLETED"
  BY <1>4 DEF Missing, Specialists
<1>6. ASSUME Missing(work.graph) # {}
      PROVE  Culprits(work.graph) # {}
  <2>1. PICK u \in Plan : work.graph[u] # "COMPLETED"
    BY <1>6, Ancestry DEF Missing
  <2>2. PICK t \in Plan : work.graph[t] # "COMPLETED" /\ ParentsCompleted(work.graph, t)
    BY <2>1, SomebodyIsNext
  <2>3. t \in Specialists
    BY <1>3, <1>6, <2>2 DEF Specialists
  <2>4. work.graph[t] = "FAILED"
    BY <1>2, <2>2
  <2> QED
    BY <2>3, <2>4 DEF Culprits, Missing
<1> QED
  BY <1>4, <1>5, <1>6

\* What a concluded task has: the attempts that were there, or those of this run.
LEMMA ConcludedIsEarned ==
    ASSUME TypeInv, WorkInv, work.mode # "none", work.todo = {}, NEW t \in Specialists
    PROVE  Earned(work.graph[t], log[t] \o work.runs[t]) /\ log[t] \o work.runs[t] \in Seq(Executions)
<1>1. /\ GraphInv /\ t \in Plan /\ log[t] \in Seq(Executions) /\ work.runs[t] \in Seq(Executions)
  BY WorkTyped, Ancestry DEF WorkInv, TypeInv
<1>2. Account(t)
  BY <1>1 DEF GraphInv
<1>3. work.graph[t] = "PENDING" => ~ParentsCompleted(work.graph, t)
  BY <1>1 DEF GraphInv, Runnable
<1>4. CASE work.runs[t] = <<>>
  <2>1. log[t] \o work.runs[t] = log[t]
    BY <1>1, <1>4, ConcatEmptySeq
  <2> QED
    BY <1>1, <1>2, <1>4, <2>1 DEF Account
<1>5. CASE work.runs[t] # <<>>
  <2>1. log[t] = <<>> /\ Earned(work.graph[t], work.runs[t])
    BY <1>2, <1>3, <1>5 DEF Account
  <2>2. log[t] \o work.runs[t] = work.runs[t]
    BY <1>1, <2>1, ConcatEmptySeq
  <2> QED
    BY <1>1, <2>1, <2>2
<1> QED
  BY <1>4, <1>5

LEMMA ConcludeStep == ASSUME IInv, Conclude PROVE IInv'
<1> DEFINE d == [complete |-> Missing(work.graph) = {}, culprits |-> Culprits(work.graph),
                 after |-> work.after]
<1>0. /\ TypeInv /\ RowsInv /\ RetriesInv /\ WorkInv /\ DecisionsInv /\ GraphInv /\ FoundInv
      /\ work.mode # "none" /\ work.todo = {}
  BY DEF IInv, WorkInv, Conclude
<1>1. /\ row' = [t \in Plan |-> [row[t] EXCEPT !.status = work.graph[t]]]
      /\ log' = [t \in Plan |-> log[t] \o work.runs[t]]
      /\ decisions' = Append(decisions, d)
      /\ work' = NoWork /\ UNCHANGED <<retrying, known, deploys, armed>>
  BY DEF Conclude, deployVars
<1>2. work.graph \in [Plan -> Reached] /\ work.after \in Nat
  BY <1>0, WorkTyped
<1>3. /\ row' \in [Plan -> TaskRows]
      /\ \A t \in Plan : row'[t].status = work.graph[t] /\ row'[t].agent = row[t].agent
  BY <1>0, <1>1, <1>2 DEF TypeInv, TaskRows
<1>4. \A t \in Specialists : Earned(work.graph[t], log'[t]) /\ log'[t] \in Seq(Executions)
  BY <1>0, <1>1, ConcludedIsEarned, Ancestry
<1>5. log'[Synthesis] = <<>>
  <2>1. log[Synthesis] = <<>> /\ work.runs[Synthesis] = <<>>
    BY <1>0 DEF RowsInv, GraphInv
  <2>2. <<>> \o <<>> = <<>>
    OBVIOUS
  <2> QED
    BY <1>1, <2>1, <2>2, Ancestry
<1>6. log' \in [Plan -> Seq(Executions)]
  <2>1. \A t \in Plan : log'[t] \in Seq(Executions)
    <3>1. \A t \in Plan : t = Synthesis \/ t \in Specialists
      BY DEF Specialists
    <3>2. <<>> \in Seq(Executions)
      OBVIOUS
    <3> QED
      BY <1>4, <1>5, <3>1, <3>2
  <2> QED
    BY <1>1, <2>1
<1>7. d \in Decisions /\ d.after = Len(decisions)
  <2>1. Culprits(work.graph) \subseteq Specialists
    BY DEF Culprits, Missing
  <2> QED
    BY <1>0, <1>2, <2>1 DEF Decisions, FoundInv
<1>8. /\ d.complete <=> work.graph[Synthesis] = "COMPLETED"
      /\ d.complete => \A t \in Plan : work.graph[t] = "COMPLETED"
      /\ ~d.complete => d.culprits # {}
  BY <1>0, WorkEnds
<1> HIDE DEF d
<1>9. /\ decisions \in Seq(Decisions) /\ decisions' \in Seq(Decisions) /\ decisions' # <<>>
      /\ Len(decisions') = Len(decisions) + 1 /\ Len(decisions) \in Nat
      /\ DOMAIN decisions' = 1..(Len(decisions) + 1) /\ DOMAIN decisions = 1..Len(decisions)
      /\ \A i \in 1..Len(decisions) : decisions'[i] = decisions[i]
      /\ decisions'[Len(decisions) + 1] = d
  BY <1>0, <1>1, <1>7, AppendProperties DEF TypeInv
<1>10. TypeInv'
  BY <1>0, <1>1, <1>3, <1>6, <1>9 DEF TypeInv
<1>11. Committed' = work.graph
  BY <1>2, <1>3 DEF Committed
<1>12. RowsInv'
  <2>1. \A t \in Specialists : Earned(row'[t].status, log'[t])
    BY <1>3, <1>4, Ancestry
  <2>2. \A t \in Specialists : row'[t].agent \in AgentSet
    <3>1. CASE decisions = <<>>
      BY <1>0, <1>3, <3>1, Ancestry DEF RowsInv, FoundInv, TypeInv
    <3>2. CASE decisions # <<>>
      BY <1>0, <1>3, <3>2, Ancestry DEF RowsInv
    <3> QED
      BY <3>1, <3>2
  <2>3. Ordered(Committed)'
    BY <1>0, <1>11 DEF GraphInv
  <2> QED
    BY <1>0, <1>3, <1>5, <1>9, <2>1, <2>2, <2>3, Ancestry DEF RowsInv
<1>13. RetriesInv'
  <2>1. \A t \in Plan : retrying[t] = NotRetried
    BY <1>0 DEF RetriesInv, Retried, FoundInv
  <2> QED
    BY <1>1, <2>1 DEF RetriesInv
<1>14. \A i \in 1..Len(decisions) : ~decisions[i].complete
  BY <1>0, <1>9 DEF DecisionsInv, DecisionsRestOnWork, FoundInv, Last
<1>15. ASSUME NEW i \in DOMAIN decisions'
       PROVE  /\ decisions'[i].after = i - 1
              /\ decisions'[i].complete => /\ i = Len(decisions')
                                           /\ \A t \in Plan : row'[t].status = "COMPLETED"
              /\ ~decisions'[i].complete => decisions'[i].culprits # {}
  <2>1. CASE i \in 1..Len(decisions)
    BY <1>0, <1>9, <1>14, <2>1 DEF DecisionsInv, DecisionsRestOnWork
  <2>2. CASE i = Len(decisions) + 1
    BY <1>3, <1>7, <1>8, <1>9, <2>2
  <2> QED
    BY <1>9, <2>1, <2>2
<1>16. DecisionsInv'
  <2>1. DecisionsRestOnWork'
    BY <1>15 DEF DecisionsRestOnWork
  <2>2. Last(decisions') = d
    BY <1>9 DEF Last
  <2> QED
    BY <1>3, <1>8, <2>1, <2>2, Ancestry DEF DecisionsInv
<1> QED
  BY <1>1, <1>10, <1>12, <1>13, <1>16 DEF IInv, WorkInv, NoWork

-----------------------------------------------------------------------------
(* What people do *)

LEMMA BeginRetryStep == ASSUME IInv, NEW t \in Plan, BeginRetry(t) PROVE IInv'
<1>0. /\ TypeInv /\ RowsInv /\ RetriesInv /\ WorkInv /\ DecisionsInv
      /\ t # Synthesis /\ row[t].status = "FAILED" /\ row[t].agent \in known
      /\ Len(log[t]) < MaxPerTask /\ Used(t, row[t].agent) < MaxPerAssignment
      /\ ParentsCompleted(Committed, t)
      /\ UNCHANGED <<row, log, decisions, work, known, deploys, armed>>
  BY DEF IInv, BeginRetry, deployVars
<1>1. log[t] \in Seq(Executions) /\ Counted(log[t])
  BY <1>0 DEF TypeInv, RowsInv, Earned, Specialists
<1>2. NextAttempt(t) = Len(log[t]) + 1 /\ Len(log[t]) \in Nat
  BY <1>1, NextIsOneMore
<1>3. row[t].agent \in AgentSet
  BY <1>0 DEF TypeInv
<1>4. PICK x \in Retries : /\ x = [NotRetried EXCEPT !.n = NextAttempt(t), !.by = row[t].agent]
                          /\ x.n = Len(log[t]) + 1 /\ x.by = row[t].agent
                          /\ x.ended = "no" /\ x.frees = {}
  <2>1. PICK n \in Nat, a \in AgentSet : n = NextAttempt(t) /\ a = row[t].agent
    BY <1>2, <1>3
  <2>2. NotRetried \in Retries
    BY DEF NotRetried, Retries
  <2>3. [NotRetried EXCEPT !.n = n, !.by = a] \in Retries
    BY <2>2 DEF Retries
  <2>4. /\ [NotRetried EXCEPT !.n = n, !.by = a].n = n
        /\ [NotRetried EXCEPT !.n = n, !.by = a].by = a
        /\ [NotRetried EXCEPT !.n = n, !.by = a].ended = "no"
        /\ [NotRetried EXCEPT !.n = n, !.by = a].frees = {}
    BY DEF NotRetried
  <2> QED
    BY <1>2, <2>1, <2>3, <2>4
<1>5. x.n = Len(log[t]) + 1 /\ x.by = row[t].agent /\ x.ended = "no" /\ x.frees = {}
  BY <1>4
<1>6. retrying' = [retrying EXCEPT ![t] = x]
  BY <1>4 DEF BeginRetry
<1>7. /\ retrying' \in [Plan -> Retries] /\ retrying'[t] = x
      /\ \A u \in Plan : u # t => retrying'[u] = retrying[u]
  BY <1>0, <1>5, <1>6 DEF TypeInv
<1>8. TypeInv'
  BY <1>0, <1>7 DEF TypeInv
<1>9. RowsInv' /\ WorkInv'
  BY <1>0 DEF RowsInv, Committed, WorkInv, GraphInv, FoundInv, Account, Current
<1>10. DecisionsInv'
  BY <1>0 DEF DecisionsInv, DecisionsRestOnWork
<1>11. Retried(t)'
  BY <1>0, <1>3, <1>5, <1>7 DEF Retried, Committed, Used, ParentsCompleted
<1>12. ASSUME NEW u \in Plan, u # t, retrying[u] # NotRetried
       PROVE  Retried(u)'
  <2>1. Retried(u)
    BY <1>0, <1>12 DEF RetriesInv
  <2> QED
    BY <1>0, <1>7, <1>12, <2>1 DEF Retried, Committed, Used, ParentsCompleted
<1>13. RetriesInv'
  BY <1>7, <1>11, <1>12 DEF RetriesInv
<1> QED
  BY <1>8, <1>9, <1>10, <1>13 DEF IInv

LEMMA EndRetryStep == ASSUME IInv, NEW t \in Plan, NEW ok \in BOOLEAN, EndRetry(t, ok) PROVE IInv'
<1>0. /\ TypeInv /\ RowsInv /\ RetriesInv /\ WorkInv /\ DecisionsInv /\ Retried(t)
      /\ UNCHANGED <<row, log, decisions, work, known, deploys>> /\ armed' \in {armed, NoFault}
  BY DEF IInv, EndRetry, deployVars, RetriesInv, Disarmed
<1>1. PICK ended \in {"ok", "failed"} : ended = IF ok THEN "ok" ELSE "failed"
  OBVIOUS
<1>2. PICK frees : frees = IF ok THEN Releases(t) ELSE {}
  OBVIOUS
<1>3. frees \subseteq Plan /\ (frees # {} => ended = "ok")
  BY <1>1, <1>2 DEF Releases
<1>4. ASSUME NEW c \in frees
      PROVE  /\ t \in Parents[c] /\ row[c].status = "BLOCKED"
             /\ \A p \in Parents[c] : p # t => row[p].status = "COMPLETED"
  <2> DEFINE status == [Committed EXCEPT ![t] = "COMPLETED"]
  <2>1. \A p \in Plan : status[p] = IF p = t THEN "COMPLETED" ELSE row[p].status
    BY <1>0, CommittedIs
  <2>2. c \in Plan /\ t \in Parents[c] /\ status[c] = "BLOCKED" /\ ParentsCompleted(status, c)
    BY <1>2, <1>4 DEF Releases, Unblockable
  <2> HIDE DEF status
  <2> QED
    BY <2>1, <2>2, Ancestry DEF ParentsCompleted
<1>5. PICK x \in Retries : /\ x = [retrying[t] EXCEPT !.ended = ended, !.frees = frees]
                          /\ x.n = retrying[t].n /\ x.by = retrying[t].by
                          /\ x.ended = ended /\ x.frees = frees
  <2>1. retrying[t] \in Retries
    BY <1>0 DEF TypeInv
  <2>2. [retrying[t] EXCEPT !.ended = ended, !.frees = frees] \in Retries
    BY <1>3, <2>1 DEF Retries
  <2>3. /\ [retrying[t] EXCEPT !.ended = ended, !.frees = frees].n = retrying[t].n
        /\ [retrying[t] EXCEPT !.ended = ended, !.frees = frees].by = retrying[t].by
        /\ [retrying[t] EXCEPT !.ended = ended, !.frees = frees].ended = ended
        /\ [retrying[t] EXCEPT !.ended = ended, !.frees = frees].frees = frees
    BY <2>1 DEF Retries
  <2> QED
    BY <2>2, <2>3
<1>6. /\ retrying' \in [Plan -> Retries] /\ retrying'[t] = x
      /\ \A u \in Plan : u # t => retrying'[u] = retrying[u]
  <2>1. retrying \in [Plan -> Retries]
    BY <1>0 DEF TypeInv
  <2>2. retrying' = [retrying EXCEPT ![t].ended = ended, ![t].frees = frees]
    BY <1>1, <1>2 DEF EndRetry
  <2>3. retrying' = [retrying EXCEPT ![t] = x]
    BY <1>5, <2>1, <2>2
  <2> QED
    BY <2>1, <2>3
<1>7. TypeInv'
  BY <1>0, <1>6 DEF TypeInv
<1>8. RowsInv' /\ WorkInv'
  BY <1>0 DEF RowsInv, Committed, WorkInv, GraphInv, FoundInv, Account, Current
<1>9. DecisionsInv'
  BY <1>0 DEF DecisionsInv, DecisionsRestOnWork
<1>10. Retried(t)'
  BY <1>0, <1>3, <1>4, <1>5, <1>6 DEF Retried, Committed, Used, ParentsCompleted
<1>11. ASSUME NEW u \in Plan, u # t, retrying[u] # NotRetried
       PROVE  Retried(u)'
  <2>1. Retried(u)
    BY <1>0, <1>11 DEF RetriesInv
  <2> QED
    BY <1>0, <1>6, <1>11, <2>1 DEF Retried, Committed, Used, ParentsCompleted
<1>12. RetriesInv'
  BY <1>6, <1>10, <1>11 DEF RetriesInv
<1> QED
  BY <1>7, <1>8, <1>9, <1>12 DEF IInv

\* While a task has failed nobody works on the mission, and it is not complete.
LEMMA FailedMeans ==
    ASSUME IInv, NEW t \in Plan, row[t].status \notin {"COMPLETED", "PENDING"}
    PROVE  /\ decisions # <<>> /\ \A i \in DOMAIN decisions : ~decisions[i].complete
           /\ ~Last(decisions).complete /\ row[Synthesis].status # "COMPLETED"
           /\ row[t].status = "FAILED" => work.mode = "none"
<1>1. decisions # <<>>
  BY DEF IInv, RowsInv
<1>2. \A i \in DOMAIN decisions : ~decisions[i].complete
  BY DEF IInv, DecisionsInv, DecisionsRestOnWork
<1>3. Len(decisions) \in DOMAIN decisions
  <2>1. decisions \in Seq(Decisions)
    BY DEF IInv, TypeInv
  <2> QED
    BY <1>1, <2>1
<1>4. ~Last(decisions).complete /\ row[Synthesis].status # "COMPLETED"
  BY <1>1, <1>2, <1>3 DEF IInv, DecisionsInv, Last
<1> QED
  BY <1>1, <1>2, <1>4 DEF IInv, WorkInv, FoundInv

LEMMA CommittedWillBe ==
    ASSUME row' \in [Plan -> TaskRows]
    PROVE  /\ Committed' \in [Plan -> Reached]
           /\ \A t \in Plan : Committed'[t] = row'[t].status
  BY DEF Committed, TaskRows

LEMMA NobodyRetries == NotRetried \in Retries /\ NotRetried.ended = "no"
  BY DEF NotRetried, Retries

LEMMA CommitRetryStep == ASSUME IInv, NEW t \in Plan, CommitRetry(t) PROVE IInv'
<1>0. /\ TypeInv /\ RowsInv /\ RetriesInv /\ WorkInv /\ DecisionsInv /\ Retried(t)
      /\ UNCHANGED <<decisions, work, known, deploys, armed>> /\ retrying[t].ended # "no"
  BY NobodyRetries DEF IInv, CommitRetry, deployVars, RetriesInv
<1>1. t # Synthesis /\ t \in Specialists /\ row[t].status = "FAILED"
  BY <1>0 DEF Retried, Specialists
<1>2. PICK ok \in BOOLEAN : ok <=> retrying[t].ended = "ok"
  OBVIOUS
<1>3. PICK S \in SUBSET Plan : S = retrying[t].frees
  BY <1>0 DEF TypeInv, Retries
<1>4. PICK a \in AgentSet : a = row[t].agent /\ a = retrying[t].by
  BY <1>0 DEF Retried
<1>5. /\ S # {} => ok
      /\ \A c \in S : /\ t \in Parents[c] /\ row[c].status = "BLOCKED"
                      /\ \A p \in Parents[c] : p # t => row[p].status = "COMPLETED"
  BY <1>0, <1>2, <1>3 DEF Retried
<1>6. PICK e : e = Execution(Len(log[t]) + 1, a, a, ok)
  OBVIOUS
<1>7. /\ log \in [Plan -> Seq(Executions)] /\ log[t] \in Seq(Executions) /\ Counted(log[t])
      /\ ~Succeeded(log[t]) /\ Len(log[t]) < MaxPerTask /\ Tally(log[t], a) < MaxPerAssignment
  BY <1>0, <1>1, <1>4 DEF TypeInv, RowsInv, Earned, Retried, Used, Tally
<1>8. /\ Append(log[t], e) \in Seq(Executions) /\ Counted(Append(log[t], e))
      /\ Append(log[t], e) # <<>> /\ Last(Append(log[t], e)).ok = ok
  BY <1>6, <1>7, CountedAppend
<1>9. log' = [log EXCEPT ![t] = Append(log[t], e)]
  <2>1. retrying[t].n = Len(log[t]) + 1 /\ (retrying[t].ended = "ok") = ok
    BY <1>0, <1>2 DEF Retried
  <2>2. Execution(retrying[t].n, retrying[t].by, row[t].agent, retrying[t].ended = "ok") = e
    BY <1>4, <1>6, <2>1 DEF Execution
  <2> QED
    BY <2>2 DEF CommitRetry
<1>10. /\ log' \in [Plan -> Seq(Executions)] /\ log'[t] = Append(log[t], e)
       /\ \A u \in Plan : u # t => log'[u] = log[u]
  BY <1>7, <1>8, <1>9
<1>11. /\ row' \in [Plan -> TaskRows]
       /\ \A c \in Plan : /\ row'[c].agent = row[c].agent
                          /\ row'[c].status = IF c = t /\ ok THEN "COMPLETED"
                                              ELSE IF c \in S THEN "PENDING" ELSE row[c].status
  <2>1. row' = [c \in Plan |-> IF c = t /\ ok THEN [row[c] EXCEPT !.status = "COMPLETED"]
                               ELSE IF c \in S THEN [row[c] EXCEPT !.status = "PENDING"] ELSE row[c]]
    BY <1>2, <1>3 DEF CommitRetry
  <2>2. \A c \in Plan : row[c] \in TaskRows
    BY <1>0 DEF TypeInv
  <2> QED
    BY <2>1, <2>2 DEF TaskRows, Reached
<1>12. \A c \in Plan : row[c].status = "COMPLETED" => row'[c].status = "COMPLETED"
  BY <1>5, <1>11
<1>13. \A u \in Plan : row[u].status = "FAILED" /\ u # t => row'[u].status = "FAILED"
  BY <1>5, <1>11
<1>14. /\ Committed \in [Plan -> Reached] /\ \A c \in Plan : Committed[c] = row[c].status
       /\ Ordered(Committed) /\ ParentsCompleted(Committed, t)
  BY <1>0, CommittedIs DEF RowsInv, Retried
<1>15. PICK s \in [Plan -> Reached] : s = Committed' /\ \A c \in Plan : s[c] = row'[c].status
  BY <1>11, CommittedWillBe
<1>16. Ordered(s)
  <2>1. CASE ok
    <3>1. PICK m \in [Plan -> Reached] : /\ m = [Committed EXCEPT ![t] = "COMPLETED"] /\ Ordered(m)
      BY <1>14, CompletingKeepsOrder
    <3>2. \A c \in Plan : m[c] = IF c = t THEN "COMPLETED" ELSE row[c].status
      BY <1>14, <3>1
    <3>3. ASSUME NEW c \in S
          PROVE  m[c] = "BLOCKED" /\ ParentsCompleted(m, c) /\ s[c] = "PENDING"
      <4>1. c \in Plan /\ c # t
        BY <1>1, <1>5
      <4> QED
        BY <1>5, <1>11, <1>15, <3>2, <4>1, Ancestry DEF ParentsCompleted
    <3>4. \A c \in Plan : c \notin S => s[c] = m[c]
      BY <1>11, <1>15, <2>1, <3>2
    <3> QED
      BY <3>1, <3>3, <3>4, UnblockingKeepsOrder
  <2>2. CASE ~ok
    <3>1. \A c \in Plan : s[c] = Committed[c]
      BY <1>5, <1>11, <1>14, <1>15, <2>2
    <3> QED
      BY <1>14, <3>1, UnblockingKeepsOrder
  <2> QED
    BY <2>1, <2>2
<1>17. ASSUME NEW u \in Specialists
       PROVE  Earned(row'[u].status, log'[u])
  <2>1. Earned(row[u].status, log[u]) /\ u \in Plan
    BY <1>0, Ancestry DEF RowsInv
  <2>2. CASE u = t
    <3>1. row'[t].status = IF ok THEN "COMPLETED" ELSE "FAILED"
      BY <1>1, <1>5, <1>11
    <3>2. Counted(log'[t]) /\ (Succeeded(log'[t]) <=> ok)
      BY <1>8, <1>10 DEF Succeeded
    <3> QED
      BY <2>2, <3>1, <3>2 DEF Earned
  <2>3. CASE u # t
    <3>1. log'[u] = log[u] /\ row'[u].status = IF u \in S THEN "PENDING" ELSE row[u].status
      BY <1>10, <1>11, <2>1, <2>3
    <3> QED
      BY <1>5, <2>1, <3>1 DEF Earned
  <2> QED
    BY <2>2, <2>3
<1>18. RowsInv'
  <2>1. decisions # <<>>
    BY <1>0, <1>1, FailedMeans DEF IInv
  <2> QED
    BY <1>0, <1>1, <1>10, <1>11, <1>15, <1>16, <1>17, <2>1, Ancestry DEF RowsInv
<1>19. /\ retrying' \in [Plan -> Retries] /\ retrying'[t] = NotRetried
       /\ \A u \in Plan : u # t => retrying'[u] = retrying[u]
  BY <1>0, NobodyRetries DEF CommitRetry, TypeInv
<1>20. TypeInv'
  BY <1>0, <1>10, <1>11, <1>19 DEF TypeInv
<1>21. ASSUME NEW u \in Plan, u # t, retrying[u] # NotRetried
       PROVE  Retried(u)'
  <2>1. Retried(u)
    BY <1>0, <1>21 DEF RetriesInv
  <2>2. \A p \in Parents[u] : Committed'[p] = "COMPLETED"
    BY <1>12, <1>14, <1>15, <2>1, Ancestry DEF ParentsCompleted, Retried
  <2>3. ASSUME NEW c \in retrying[u].frees
        PROVE  /\ u \in Parents[c] /\ row'[c].status = "BLOCKED"
               /\ \A p \in Parents[c] : p # u => row'[p].status = "COMPLETED"
    <3>1. /\ u \in Parents[c] /\ row[c].status = "BLOCKED" /\ row[u].status = "FAILED"
          /\ \A p \in Parents[c] : p # u => row[p].status = "COMPLETED"
      BY <2>1 DEF Retried
    <3>2. c \in Plan
      BY <1>0 DEF TypeInv, Retries
    <3>3. c \notin S /\ c # t
      BY <1>1, <1>5, <1>21, <3>1
    <3> QED
      BY <1>11, <1>12, <3>1, <3>2, <3>3, Ancestry
  <2>4. /\ row'[u].status = "FAILED" /\ row'[u].agent = row[u].agent
        /\ log'[u] = log[u] /\ retrying'[u] = retrying[u]
    BY <1>10, <1>11, <1>13, <1>19, <1>21, <2>1 DEF Retried
  <2>5. Used(u, row[u].agent)' < MaxPerAssignment
    BY <2>1, <2>4 DEF Retried, Used
  <2>6. ParentsCompleted(Committed, u)'
    BY <2>2 DEF ParentsCompleted
  <2> QED
    BY <2>1, <2>3, <2>4, <2>5, <2>6 DEF Retried
<1>22. RetriesInv'
  BY <1>19, <1>21 DEF RetriesInv
<1>23. WorkInv'
  BY <1>0, <1>1, FailedMeans DEF WorkInv, IInv
<1>24. DecisionsInv'
  <2>1. /\ \A i \in DOMAIN decisions : ~decisions[i].complete
        /\ ~Last(decisions).complete /\ row[Synthesis].status # "COMPLETED"
    BY <1>0, <1>1, FailedMeans DEF IInv
  <2>2. row'[Synthesis].status # "COMPLETED"
    BY <1>1, <1>11, <2>1, Ancestry
  <2> QED
    BY <1>0, <2>1, <2>2 DEF DecisionsInv, DecisionsRestOnWork
<1> QED
  BY <1>18, <1>20, <1>22, <1>23, <1>24 DEF IInv

LEMMA ReassignStep == ASSUME IInv, NEW t \in Plan, NEW a \in AgentSet, Reassign(t, a) PROVE IInv'
<1>0. /\ TypeInv /\ RowsInv /\ RetriesInv /\ WorkInv /\ DecisionsInv
      /\ UNCHANGED <<log, decisions, work, retrying, known, deploys, armed>>
      /\ decisions # <<>> /\ t # Synthesis /\ a \in known /\ Free(t)
      /\ row[t].status \in {"FAILED", "BLOCKED", "PENDING"}
  BY DEF IInv, Reassign, Assignable, deployVars
<1>1. PICK status \in Reached :
         status = IF row[t].status = "BLOCKED" /\ ParentsCompleted(Committed, t) THEN "PENDING"
                  ELSE row[t].status
  BY <1>0 DEF Reached
<1>2. row \in [Plan -> TaskRows] /\ row[t] \in TaskRows
  BY <1>0 DEF TypeInv
<1>3. PICK x \in TaskRows : x = [row[t] EXCEPT !.agent = a, !.status = status]
                        /\ x.agent = a /\ x.status = status
  <2>1. [row[t] EXCEPT !.agent = a, !.status = status] \in TaskRows
    BY <1>2 DEF TaskRows
  <2>2. /\ [row[t] EXCEPT !.agent = a, !.status = status].agent = a
        /\ [row[t] EXCEPT !.agent = a, !.status = status].status = status
    BY <1>2 DEF TaskRows
  <2> QED
    BY <2>1, <2>2
<1>4. row' = [row EXCEPT ![t] = x]
  <2>1. row' = [row EXCEPT ![t].agent = a, ![t].status = status]
    BY <1>1, <1>2 DEF Reassign, TaskRows
  <2> QED
    BY <1>2, <1>3, <2>1
<1>5. /\ row' \in [Plan -> TaskRows] /\ row'[t].agent = a /\ row'[t].status = status
      /\ \A u \in Plan : u # t => row'[u] = row[u]
  BY <1>2, <1>3, <1>4
<1>6. TypeInv'
  BY <1>0, <1>5 DEF TypeInv
<1>7. \A u \in Plan : row'[u].status = "COMPLETED" <=> row[u].status = "COMPLETED"
  BY <1>0, <1>1, <1>5
<1>8. PICK s \in [Plan -> Reached] : s = Committed' /\ \A c \in Plan : s[c] = row'[c].status
  BY <1>5, CommittedWillBe
<1>9. /\ Committed \in [Plan -> Reached] /\ \A c \in Plan : Committed[c] = row[c].status
      /\ Ordered(Committed)
  BY <1>0, CommittedIs DEF RowsInv
<1>10. Ordered(s)
  <2>1. \A c \in Plan : c # t => s[c] = Committed[c]
    BY <1>5, <1>8, <1>9
  <2>2. \/ s[t] = Committed[t]
        \/ Committed[t] = "BLOCKED" /\ ParentsCompleted(Committed, t) /\ s[t] = "PENDING"
    BY <1>1, <1>5, <1>8, <1>9
  <2> QED
    BY <1>9, <2>1, <2>2, UnblockingKeepsOrder
<1>11. ASSUME NEW u \in Specialists
       PROVE  Earned(row'[u].status, log[u])
  <2>1. Earned(row[u].status, log[u]) /\ u \in Plan
    BY <1>0, Ancestry DEF RowsInv
  <2>2. \/ row'[u].status = row[u].status
        \/ row[u].status = "BLOCKED" /\ row'[u].status = "PENDING"
    BY <1>1, <1>5, <2>1
  <2> QED
    BY <2>1, <2>2 DEF Earned
<1>12. RowsInv'
  <2>1. \A u \in Specialists : row'[u].agent \in AgentSet
    BY <1>0, <1>5, Ancestry DEF RowsInv
  <2> QED
    BY <1>0, <1>5, <1>8, <1>10, <1>11, <2>1, Ancestry DEF RowsInv
<1>13. ASSUME NEW u \in Plan, retrying[u] # NotRetried
       PROVE  Retried(u)'
  <2>1. Retried(u) /\ u # t
    BY <1>0, <1>13 DEF RetriesInv, Free
  <2>2. \A p \in Parents[u] : Committed'[p] = "COMPLETED"
    BY <1>7, <1>8, <1>9, <2>1, Ancestry DEF ParentsCompleted, Retried
  <2>3. ASSUME NEW c \in retrying[u].frees
        PROVE  /\ u \in Parents[c] /\ row'[c].status = "BLOCKED"
               /\ \A p \in Parents[c] : p # u => row'[p].status = "COMPLETED"
    <3>1. /\ u \in Parents[c] /\ row[c].status = "BLOCKED"
          /\ \A p \in Parents[c] : p # u => row[p].status = "COMPLETED"
      BY <2>1 DEF Retried
    <3>2. c \in Plan /\ c # t
      BY <1>0 DEF TypeInv, Retries, Free
    <3> QED
      BY <1>5, <1>7, <3>1, <3>2, Ancestry
  <2>4. /\ row'[u].status = "FAILED" /\ row'[u].agent = row[u].agent
        /\ log'[u] = log[u] /\ retrying'[u] = retrying[u]
    BY <1>0, <1>5, <2>1 DEF Retried
  <2>5. Used(u, row[u].agent)' < MaxPerAssignment
    BY <2>1, <2>4 DEF Retried, Used
  <2>6. ParentsCompleted(Committed, u)'
    BY <2>2 DEF ParentsCompleted
  <2> QED
    BY <2>1, <2>3, <2>4, <2>5, <2>6 DEF Retried
<1>14. RetriesInv'
  BY <1>0, <1>13 DEF RetriesInv
<1>15. WorkInv'
  <2>1. ASSUME work.mode # "none"
        PROVE  GraphInv' /\ FoundInv'
    <3>1. GraphInv /\ FoundInv
      BY <1>0, <2>1 DEF WorkInv
    <3>2. GraphInv'
      BY <1>0, <3>1 DEF GraphInv, Account, Current
    <3>3. /\ \A u \in Plan : row'[u].status # "FAILED"
          /\ \A u \in Specialists : row'[u].status # "COMPLETED" => row'[u].agent \in known
      BY <1>0, <1>1, <1>5, <1>7, <3>1, Ancestry DEF FoundInv
    <3> QED
      BY <1>0, <3>1, <3>2, <3>3 DEF FoundInv
  <2> QED
    BY <1>0, <2>1 DEF WorkInv
<1>16. DecisionsInv'
  <2>1. \A i \in DOMAIN decisions : ~decisions[i].complete
    BY <1>0 DEF DecisionsInv, DecisionsRestOnWork
  <2>2. row'[Synthesis] = row[Synthesis]
    BY <1>0, <1>5, Ancestry
  <2> QED
    BY <1>0, <2>1, <2>2 DEF DecisionsInv, DecisionsRestOnWork
<1> QED
  BY <1>6, <1>12, <1>14, <1>15, <1>16 DEF IInv

\* Who only arms a fault, lets one expire or does nothing.
LEMMA RehearsalStep ==
    ASSUME IInv, UNCHANGED <<row, log, decisions, work, retrying, known, deploys>>,
           armed' \in {armed, NoFault} \cup [task : FaultTasks, attempt : 1..MaxPerAssignment]
    PROVE  IInv'
<1>1. TypeInv'
  BY DEF IInv, TypeInv
<1>2. RowsInv' /\ WorkInv'
  BY DEF IInv, RowsInv, Committed, WorkInv, GraphInv, FoundInv, Account, Current
<1>3. RetriesInv'
  BY DEF IInv, RetriesInv, Retried, Committed, Used, ParentsCompleted
<1>4. DecisionsInv'
  BY DEF IInv, DecisionsInv, DecisionsRestOnWork
<1> QED
  BY <1>1, <1>2, <1>3, <1>4 DEF IInv

LEMMA DeployStep == ASSUME IInv, NEW registry \in SUBSET AgentSet, Deploy(registry) PROVE IInv'
<1>1. /\ work' = NoWork /\ work'.mode = "none" /\ retrying' = [t \in Plan |-> NotRetried]
      /\ UNCHANGED <<row, log, decisions>>
  BY DEF Deploy, NoWork
<1>2. TypeInv'
  <2>1. deploys' \in 0..MaxDeploys
    BY MissionAssumption DEF IInv, TypeInv, Deploy
  <2> QED
    BY <1>1, <2>1, NobodyRetries DEF IInv, TypeInv, Deploy
<1>3. RowsInv'
  BY <1>1 DEF IInv, RowsInv, Committed
<1>4. RetriesInv' /\ WorkInv'
  BY <1>1 DEF RetriesInv, WorkInv
<1>5. DecisionsInv'
  BY <1>1 DEF IInv, DecisionsInv, DecisionsRestOnWork
<1> QED
  BY <1>2, <1>3, <1>4, <1>5 DEF IInv

LEMMA InitInv == Init => IInv
<1> SUFFICES ASSUME Init PROVE IInv
  OBVIOUS
<1>1. /\ row = [t \in Plan |-> [status |-> "PENDING", agent |-> NoAgent]]
      /\ log = [t \in Plan |-> <<>>] /\ decisions = <<>> /\ work = NoWork /\ work.mode = "none"
      /\ retrying = [t \in Plan |-> NotRetried]
  BY DEF Init, NoWork
<1>2. TypeInv
  <2>1. row \in [Plan -> TaskRows]
    BY <1>1 DEF TaskRows, Reached
  <2>2. log \in [Plan -> Seq(Executions)] /\ decisions \in Seq(Decisions)
    BY <1>1
  <2> QED
    BY <1>1, <2>1, <2>2, NobodyRetries, MissionAssumption DEF Init, TypeInv
<1>3. \A t \in Plan : row[t].status = "PENDING" /\ row[t].agent = NoAgent /\ log[t] = <<>>
  BY <1>1
<1>4. RowsInv
  <2>1. Ordered(Committed)
    BY <1>2, <1>3, CommittedIs, Ancestry DEF Ordered
  <2>2. \A t \in Specialists : Earned(row[t].status, log[t])
    BY <1>3, NoAttempts, Ancestry DEF Earned
  <2> QED
    BY <1>1, <1>3, <2>1, <2>2, Ancestry DEF RowsInv
<1>5. RetriesInv /\ WorkInv
  BY <1>1 DEF RetriesInv, WorkInv
<1>6. DecisionsInv
  BY <1>1 DEF DecisionsInv, DecisionsRestOnWork
<1> QED
  BY <1>2, <1>4, <1>5, <1>6 DEF IInv

LEMMA NextInv == IInv /\ [Next]_vars => IInv'
<1> SUFFICES ASSUME IInv, [Next]_vars PROVE IInv'
  OBVIOUS
<1>1. CASE RunObjective
  BY <1>1, RunObjectiveStep
<1>2. CASE \E d \in 1..Len(decisions) : Resume(d)
  BY <1>2, ResumeStep
<1>3. CASE \E t \in Plan : BeginRetry(t)
  BY <1>3, BeginRetryStep
<1>4. CASE \E t \in Plan : \E a \in AgentSet : Reassign(t, a)
  BY <1>4, ReassignStep
<1>5. CASE \E t \in FaultTasks, n \in 1..MaxPerAssignment : Arm(t, n)
  <2>1. armed' \in [task : FaultTasks, attempt : 1..MaxPerAssignment]
    BY <1>5 DEF Arm
  <2> QED
    BY <1>5, <2>1, RehearsalStep DEF Arm, deployVars
<1>6. CASE Synthesise
  BY <1>6, SynthesiseStep
<1>7. CASE Pick
  BY <1>7, PickStep
<1>8. CASE Conclude
  BY <1>8, ConcludeStep
<1>9. CASE \E ok \in BOOLEAN : Attempt(ok)
  BY <1>9, AttemptStep
<1>10. CASE \E ok \in BOOLEAN : \E t \in Plan : EndRetry(t, ok)
  BY <1>10, EndRetryStep
<1>11. CASE \E t \in Plan : CommitRetry(t)
  BY <1>11, CommitRetryStep
<1>12. CASE Expire
  BY <1>12, RehearsalStep DEF Expire, deployVars
<1>13. CASE \E registry \in SUBSET AgentSet : Deploy(registry)
  BY <1>13, DeployStep
<1>14. CASE UNCHANGED vars
  BY <1>14, RehearsalStep DEF vars
<1> QED
  BY <1>1, <1>2, <1>3, <1>4, <1>5, <1>6, <1>7, <1>8, <1>9, <1>10, <1>11, <1>12, <1>13, <1>14
     DEF Next, People

LEMMA Invariance == Spec => []IInv
  BY InitInv, NextInv, PTL DEF Spec

-----------------------------------------------------------------------------
(* The rows, the attempts, the decisions, the work in progress, the retries *)
(* and the armed fault stay what the code can write (tasks/models.py,       *)
(* tasks/recovery.py, ceo/orchestrator.py).                                 *)
THEOREM TypeCorrect == Spec => []TypeOK
<1>1. ASSUME TypeInv PROVE TypeOK
  <2>1. row \in [Plan -> [status : TaskStatus, agent : AgentSet \cup {NoAgent}]]
    BY <1>1 DEF TypeInv, TaskRows, Reached, TaskStatus
  <2>2. \A t \in Plan : Range(log[t]) \subseteq Executions
    BY <1>1 DEF TypeInv, Range
  <2>3. \A d \in Range(decisions) : d \in [complete : BOOLEAN, culprits : SUBSET Specialists, after : Nat]
    <3>1. decisions \in Seq(Decisions)
      BY <1>1 DEF TypeInv
    <3>2. \A i \in DOMAIN decisions : decisions[i] \in Decisions
      BY <3>1
    <3> QED
      BY <3>2 DEF Decisions, Range
  <2>4. work.mode \in {"none", "run", "resume"}
    BY <1>1 DEF TypeInv, NoWork, Works
  <2> QED
    BY <1>1, <2>1, <2>2, <2>3, <2>4 DEF TypeInv, Retries, TypeOK
<1>2. IInv => TypeOK
  BY <1>1 DEF IInv
<1> QED
  BY <1>2, Invariance, PTL

\* Who has a task of a specialist and who did it agree, once the mission is somebody's.
LEMMA AssignmentIs ==
    ASSUME IInv, NEW t \in Specialists, decisions # <<>>
    PROVE  AssignmentStatus(t) \in {"ASSIGNED", "MATCH", "UNKNOWN_AGENT"}
<1>1. /\ row[t].agent \in AgentSet /\ Earned(row[t].status, log[t])
      /\ log[t] \in Seq(Executions) /\ t # Synthesis /\ row[t].agent # NoAgent
  BY Ancestry, MissionAssumption DEF IInv, TypeInv, RowsInv, Specialists
<1>2. CASE log[t] = <<>>
  <2>1. row[t].status # "COMPLETED"
    BY <1>1, <1>2 DEF Earned, Succeeded
  <2> QED
    BY <1>1, <1>2, <2>1 DEF AssignmentStatus
<1>3. CASE log[t] # <<>>
  <2>1. Len(log[t]) \in DOMAIN log[t]
    BY <1>1, <1>3
  <2>2. Last(log[t]).by = Last(log[t]).assigned
    BY <1>1, <2>1 DEF Earned, Counted, Last
  <2> QED
    BY <1>1, <1>3, <2>2 DEF AssignmentStatus
<1> QED
  BY <1>2, <1>3

(* Whatever the plan, the agents and the limits: attempts are numbered one  *)
(* after the other and counted, by the task and by the assignment; what is  *)
(* completed is what somebody did; and no task reads as done by another     *)
(* than who had it (tasks/recovery.py, tasks/policy.py,                     *)
(* tasks/assignment.py).                                                    *)
THEOREM AttemptsCounted == Spec => []AttemptsAreCounted
<1>1. ASSUME IInv PROVE AttemptsAreCounted
  <2>1. SUFFICES ASSUME NEW t \in Specialists
                 PROVE  /\ \A i \in DOMAIN log[t] : log[t][i].n = i /\ (log[t][i].ok => i = Len(log[t]))
                        /\ Len(log[t]) <= MaxPerTask
                        /\ \A a \in AgentSet : Used(t, a) <= MaxPerAssignment
                        /\ row[t].status = "COMPLETED" <=> (log[t] # <<>> /\ Last(log[t]).ok)
                        /\ decisions # <<>> => AssignmentStatus(t) \in {"ASSIGNED", "MATCH", "UNKNOWN_AGENT"}
    BY DEF AttemptsAreCounted
  <2>2. Counted(log[t]) /\ (row[t].status = "COMPLETED" <=> Succeeded(log[t]))
    BY <1>1 DEF IInv, RowsInv, Earned
  <2>3. \A a \in AgentSet : Used(t, a) <= MaxPerAssignment
    BY <2>2 DEF Counted, Tally, Used
  <2>4. decisions # <<>> => AssignmentStatus(t) \in {"ASSIGNED", "MATCH", "UNKNOWN_AGENT"}
    BY <1>1, AssignmentIs
  <2> QED
    BY <2>2, <2>3, <2>4 DEF Counted, Succeeded
<1> QED
  BY <1>1, Invariance, PTL

\* A mission that is said to be ready has a task to run.
LEMMA ReadyRuns ==
    ASSUME IInv, MissionState = "ready_to_resume"
    PROVE  Runnable(UnblockReady(Committed)) # {}
<1>0. TypeInv /\ MissionState = "ready_to_resume"
  BY DEF IInv
<1>1. /\ row[Synthesis].status # "COMPLETED"
      /\ \A t \in Plan : row[t].status # "FAILED"
      /\ \A t \in Plan : row[t].status # "COMPLETED" => row[t].agent \in known \cup {NoAgent}
  BY <1>0, ReadyMeans
<1>2. PICK rows \in [Plan -> Reached] : rows = Committed /\ \A t \in Plan : rows[t] = row[t].status
  BY <1>0, CommittedIs
<1>3. PICK t \in Plan : rows[t] # "COMPLETED" /\ ParentsCompleted(rows, t)
  <2>1. Synthesis \in Plan /\ rows[Synthesis] # "COMPLETED"
    BY <1>1, <1>2, Ancestry
  <2> QED
    BY <2>1, SomebodyIsNext
<1>4. PICK status : status = UnblockReady(rows)
  OBVIOUS
<1>5. \A c \in Plan : status[c] = IF Unblockable(rows, c) THEN "PENDING" ELSE rows[c]
  BY <1>4 DEF UnblockReady
<1>6. \A c \in Plan : rows[c] = "COMPLETED" => status[c] = "COMPLETED"
  BY <1>5 DEF Unblockable
<1>7. status[t] = "PENDING"
  BY <1>1, <1>2, <1>3, <1>5 DEF Unblockable, Reached
<1>8. ParentsCompleted(status, t)
  BY <1>3, <1>6, Ancestry DEF ParentsCompleted
<1> QED
  BY <1>2, <1>4, <1>7, <1>8 DEF Runnable

(* Whatever the plan, the agents and the limits: a decision rests on the    *)
(* work of everybody, or names somebody who can be asked to fix what is     *)
(* missing; nothing runs ahead of what is stuck; and a mission that is said *)
(* to be ready to resume has a task to run (ceo/orchestrator.py,            *)
(* ceo/mission.py).                                                         *)
THEOREM MissionsGo == Spec => []MissionsGoOn
<1>1. ASSUME IInv PROVE NobodyIsStranded
  <2>1. ASSUME NEW t \in Plan, row[t].status = "PENDING", NEW p \in Parents[t]
        PROVE  row[p].status \notin {"FAILED", "BLOCKED", "CANCELLED"}
    <3>1. p \in Plan /\ TypeInv /\ Ordered(Committed)
      BY <1>1, Ancestry DEF IInv, RowsInv
    <3>2. Committed[p] \notin {"FAILED", "BLOCKED"}
      BY <2>1, <3>1, CommittedIs DEF Ordered
    <3> QED
      BY <3>1, <3>2, CommittedIs DEF Reached
  <2>2. MissionState = "ready_to_resume" => Runnable(UnblockReady(Committed)) # {}
    BY <1>1, ReadyRuns
  <2>3. MissionState = "complete" <=> row[Synthesis].status = "COMPLETED"
    BY DEF MissionState
  <2>4. decisions # <<>> => (Last(decisions).complete <=> MissionState = "complete")
    BY <1>1, <2>3 DEF IInv, DecisionsInv
  <2> QED
    BY <2>1, <2>2, <2>4 DEF NobodyIsStranded
<1>2. ASSUME IInv PROVE MissionsGoOn
  BY <1>1, <1>2 DEF MissionsGoOn, IInv, DecisionsInv
<1> QED
  BY <1>2, Invariance, PTL

-----------------------------------------------------------------------------
(* The gate and the CEO. *)

\* A request whose amounts are any number of cents.
AnyRequest == Requests(Int)

Simulated(r) == r.mocked /\ r.environment \notin Enforcing

\* The decision by decision reading of the gate: nothing is allowed that is vetoed, and
\* what is in doubt is allowed only when a person granted it.
LEMMA AllowedMeans ==
    ASSUME NEW r, Evaluate(r) = "ALLOW"
    PROVE  ~Vetoed(GateInputOf(r)) /\ (Doubted(GateInputOf(r)) => GateInputOf(r).human = "GRANTED")
  BY DEF Evaluate, Outcome

\* app/gates/action_gate.py: an effect is let out only when the adapter is switched on
\* and nothing of the same kind is in the air; when the law says no to nothing but a
\* refund; when nobody rejected it and the one who asks may ask; and in an enforcing
\* environment what spends was granted by a person and not only by a policy.
THEOREM GateIsSound ==
    ASSUME NEW r \in AnyRequest, Evaluate(r) = "ALLOW"
    PROVE  /\ r.enabled /\ ~r.unresolved
           /\ r.human # "REJECTED"
           /\ r.legal = "NO_GO" => r.action = "refund"
           /\ r.role = "NONE" => Simulated(r)
           /\ Spends(r.action, r.cost) /\ r.environment \in Enforcing => r.human = "GRANTED"
<1> DEFINE i == GateInputOf(r)
<1>1. /\ i.action = r.action /\ i.legal = r.legal /\ i.enabled = r.enabled
      /\ i.unresolved = r.unresolved /\ i.human = r.human /\ i.cost = r.cost
      /\ i.environment = r.environment
      /\ i.permission = PermissionOf(r.role, r.action, Simulated(r))
  BY DEF GateInputOf, Simulated
<1> HIDE DEF i
<1>2. ~Vetoed(i) /\ (Doubted(i) => i.human = "GRANTED")
  BY AllowedMeans DEF i
<1>3. r.enabled /\ ~r.unresolved /\ r.human # "REJECTED"
  BY <1>1, <1>2 DEF Vetoed
<1>4. r.legal = "NO_GO" => r.action = "refund"
  BY <1>1, <1>2 DEF Vetoed, Legal, LegalNotConsulted
<1>5. r.role = "NONE" => Simulated(r)
  BY <1>1, <1>2 DEF Vetoed, PermissionOf
<1>6. Spends(r.action, r.cost) /\ r.environment \in Enforcing => r.human = "GRANTED"
  BY <1>1, <1>2 DEF Doubted
<1> QED
  BY <1>3, <1>4, <1>5, <1>6

\* app/gates/service.py, app/budgets/service.py: what spends, and is let out, has its
\* cost known and not negative, and unless it is free there is a budget that holds it;
\* the one exception is a simulation for which nobody authorised a budget.  No grant of
\* a person replaces the money, and an economic NO_GO is not lifted where something is
\* spent.
THEOREM MoneyIsCovered ==
    ASSUME NEW r \in AnyRequest, Evaluate(r) = "ALLOW", Spends(r.action, r.cost)
    PROVE  LET amount == AsAmount(r.cost, r.amount)
           IN  /\ amount # NoAmount /\ amount >= 0
               /\ \/ amount = 0
                  \/ r.available # NoAmount /\ amount <= r.available
                  \/ r.available = NoAmount /\ Simulated(r)
               /\ r.economics = "NO_GO" => r.action \in EconomicsNotConsulted
<1> DEFINE i == GateInputOf(r)
           amount == AsAmount(r.cost, r.amount)
<1>1. /\ i.action = r.action /\ i.cost = r.cost /\ i.economics = r.economics
      /\ i.funded = Approves(BudgetSignal(r.action, r.cost, r.amount, r.available, Simulated(r)))
  BY DEF GateInputOf, Simulated
<1>2. amount \in Int /\ r.available \in Int
  BY DEF AnyRequest, Requests, AsAmount, NoAmount
<1> HIDE DEF i
<1>3. ~Vetoed(i)
  BY AllowedMeans DEF i
<1>4. Approves(AssessSpend(amount, r.available, Simulated(r)))
  BY <1>1, <1>3 DEF Vetoed, BudgetSignal
<1>5. r.economics = "NO_GO" => r.action \in EconomicsNotConsulted
  BY <1>1, <1>3 DEF Vetoed, Economics
<1> HIDE DEF amount
<1>6. /\ amount # NoAmount /\ amount >= 0
      /\ \/ amount = 0
         \/ r.available # NoAmount /\ amount <= r.available
         \/ r.available = NoAmount /\ Simulated(r)
  BY <1>2, <1>4 DEF Approves, AssessSpend
<1> QED
  BY <1>5, <1>6 DEF amount

\* app/gates/action_gate.py: a person lifts a doubt and nothing else.  What is denied
\* when nobody answered is denied when a person grants it, and what a person rejects is
\* never let out.
THEOREM PeopleOnlyLiftDoubts ==
    ASSUME NEW r \in AnyRequest, r.human = "NONE"
    PROVE  /\ Evaluate(r) = "DENY" => Evaluate([r EXCEPT !.human = "GRANTED"]) = "DENY"
           /\ Evaluate(r) # "DENY" => Evaluate([r EXCEPT !.human = "GRANTED"]) = "ALLOW"
           /\ Evaluate([r EXCEPT !.human = "REJECTED"]) = "DENY"
<1> DEFINE g == [r EXCEPT !.human = "GRANTED"]
           x == [r EXCEPT !.human = "REJECTED"]
           i == GateInputOf(r)
<1>1. GateInputOf(g) = [i EXCEPT !.human = "GRANTED"]
  BY DEF AnyRequest, Requests, GateInputOf
<1>2. GateInputOf(x) = [i EXCEPT !.human = "REJECTED"]
  BY DEF AnyRequest, Requests, GateInputOf
<1>3. i.human = "NONE" /\ DOMAIN i = {"action", "legal", "economics", "enabled", "unresolved", "human",
                                      "environment", "cost", "permission", "funded"}
  BY DEF GateInputOf
<1> HIDE DEF i
<1>4. Vetoed([i EXCEPT !.human = "GRANTED"]) <=> Vetoed(i)
  BY <1>3 DEF Vetoed, Legal, Economics
<1>5. Vetoed([i EXCEPT !.human = "REJECTED"])
  BY <1>3 DEF Vetoed
<1>6. [i EXCEPT !.human = "GRANTED"].human = "GRANTED"
  BY <1>3
<1>7. Evaluate(r) = Outcome(i)
  BY DEF Evaluate, i
<1> QED
  BY <1>1, <1>2, <1>4, <1>5, <1>6, <1>7 DEF Evaluate, Outcome


-----------------------------------------------------------------------------
(* The CEO. *)

\* app/agents/product.py: a score that passes stands on five thousand searches a month
\* at least, whatever the competition and however the score is rounded.
LEMMA ScoreNeedsDemand ==
    ASSUME NEW o \in Objectives, OpportunityScore(o) >= 5000
    PROVE  MarketKnown(o) /\ o.searches >= 5000
<1>1. MarketKnown(o)
  BY DEF OpportunityScore
<1>2. o.searches \in Nat /\ CompetitionTenths[o.competition] \in {3, 6, 10}
  BY <1>1 DEF Objectives, MarketKnown, CompetitionTenths
<1>3. (o.searches * CompetitionTenths[o.competition] + 5) \div 10 >= 5000
  BY <1>1, <1>2 DEF OpportunityScore
<1>4. CASE CompetitionTenths[o.competition] = 3
  BY <1>1, <1>2, <1>3, <1>4
<1>5. CASE CompetitionTenths[o.competition] = 6
  BY <1>1, <1>2, <1>3, <1>5
<1>6. CASE CompetitionTenths[o.competition] = 10
  BY <1>1, <1>2, <1>3, <1>6
<1> QED
  BY <1>2, <1>4, <1>5, <1>6

\* The policy asks a person before the CEO spends (permissions/).
LEMMA SpendingNeedsAPerson ==
    Check("ceo_agent", "external.spend", FALSE) = "HUMAN_APPROVAL_REQUIRED"
  BY DEF Check, DefaultPolicy

\* app/ceo/decision_engine.py, app/ceo/orchestrator.py: a product goes on, by itself or
\* up to a person, only when the four specialists finished and each had its data; nobody
\* stopped it; the demand carries it; its supplier is verified; it is expected to sell,
\* at no less than its cost; and it is not of a restricted category without its
\* certificate.  What spends never goes on by itself.
THEOREM DecisionsAreEarned ==
    ASSUME NEW o \in Objectives, NEW missing \in SUBSET Specialties, NEW b \in Funds,
           Conclusion(o, missing, b).status \in {"GO", "HUMAN_APPROVAL"}
    PROVE  /\ missing = {} /\ ~o.stop
           /\ o.searches >= 5000
           /\ o.quoted /\ o.verified
           /\ o.costed /\ o.sales > 0
           /\ o.price > 0 => o.cost <= o.price
           /\ o.restricted => o.certificate
           /\ o.spends <=> Conclusion(o, missing, b).status = "HUMAN_APPROVAL"
<1>1. Concluded(o, missing, b) \in {"GO", "HUMAN_APPROVAL"}
  BY DEF Conclusion
<1>2. missing = {} /\ EvaluateDecision(o) \in {"GO", "HUMAN_APPROVAL"}
      /\ Concluded(o, missing, b) = EvaluateDecision(o)
  BY <1>1 DEF Concluded, Synthesised
<1>3. /\ ~o.stop /\ ~LegalBlocked(o) /\ ~FinanceVeto(o)
      /\ \A c \in Confidences(o) : ~(c < 50)
      /\ ~(OpportunityScore(o) < 5000)
  BY <1>2 DEF EvaluateDecision
<1>4. OpportunityScore(o) >= 5000
  <2>1. OpportunityScore(o) \in Int
    BY DEF OpportunityScore, MarketKnown, CompetitionTenths, Objectives
  <2> QED
    BY <1>3, <2>1
<1>5. o.searches >= 5000
  BY <1>4, ScoreNeedsDemand
<1>6. o.quoted /\ o.verified
  BY <1>3 DEF Confidences, SupplierConfidence
<1>7. o.costed /\ o.price # 0 /\ o.sales > 0
  BY <1>3 DEF Confidences, FinanceConfidence, FinanceKnown
<1>8. o.price > 0 => o.cost <= o.price
  BY <1>3, <1>7 DEF FinanceVeto, FinanceKnown, Objectives
<1>9. o.restricted => o.certificate
  BY <1>3 DEF LegalBlocked
<1>10. o.spends <=> EvaluateDecision(o) = "HUMAN_APPROVAL"
  BY <1>2, <1>3, SpendingNeedsAPerson DEF EvaluateDecision, RequiresHumanApproval
<1> QED
  BY <1>2, <1>3, <1>5, <1>6, <1>7, <1>8, <1>9, <1>10 DEF Conclusion

\* app/ceo/orchestrator.py, _maybe_create_approval: a person is asked exactly when the
\* decision is left to one; the amount is then known, and it is free, or held in full of
\* a budget that had it when it was written, or there is no budget and the system only
\* simulates.  A decision that asks nobody holds no money.
THEOREM ApprovalsAreFunded ==
    ASSUME NEW o \in Objectives, NEW missing \in SUBSET Specialties, NEW b \in Funds
    PROVE  LET c == Conclusion(o, missing, b)
           IN  /\ c.approval = "PENDING" <=> c.status = "HUMAN_APPROVAL"
               /\ c.approval = "NONE" => c.reserved = 0
               /\ c.approval = "PENDING" =>
                     /\ o.amount # NoAmount /\ o.amount >= 0
                     /\ \/ o.amount = 0
                        \/ c.reserved = o.amount /\ o.amount <= b.left
                        \/ b.available = NoAmount /\ b.left = NoAmount /\ b.simulated
<1> DEFINE c == Conclusion(o, missing, b)
<1>1. c.status = Concluded(o, missing, b)
      /\ c.approval = (IF Asks(o, missing, b) THEN "PENDING" ELSE "NONE")
      /\ c.reserved = (IF Asks(o, missing, b) /\ Reserves(o, b) THEN o.amount ELSE 0)
  BY DEF Conclusion
<1> HIDE DEF c
<1>2. c.approval = "PENDING" <=> c.status = "HUMAN_APPROVAL"
  BY <1>1 DEF Asks, Concluded
<1>3. c.approval = "NONE" => c.reserved = 0
  BY <1>1
<1>4. ASSUME c.approval = "PENDING"
      PROVE  /\ o.amount # NoAmount /\ o.amount >= 0
             /\ \/ o.amount = 0
                \/ c.reserved = o.amount /\ o.amount <= b.left
                \/ b.available = NoAmount /\ b.left = NoAmount /\ b.simulated
  <2>1. Asks(o, missing, b) /\ ~Denied(o, b)
    BY <1>1, <1>4 DEF Asks
  <2>2. o.amount \in Int /\ b.left \in Int /\ b.available \in Int
        /\ (b.available # NoAmount => b.left # NoAmount)
    BY DEF Objectives, Funds
  <2>3. Approves(AssessSpend(o.amount, b.available, b.simulated))
        /\ ~(Reserves(o, b) /\ b.left < o.amount)
    BY <2>1 DEF Denied
  <2>4. o.amount # NoAmount /\ o.amount >= 0
    BY <2>2, <2>3 DEF AssessSpend, Approves
  <2>5. CASE Reserves(o, b)
    BY <1>1, <2>1, <2>2, <2>3, <2>4, <2>5
  <2>6. CASE ~Reserves(o, b) /\ o.amount # 0
    <3>1. b.left = NoAmount /\ b.available = NoAmount
      BY <2>2, <2>6 DEF Reserves
    <3> QED
      BY <2>2, <2>3, <2>4, <2>6, <3>1 DEF AssessSpend, Approves
  <2> QED
    BY <2>4, <2>5, <2>6
<1> QED
  BY <1>2, <1>3, <1>4 DEF c

-----------------------------------------------------------------------------
(* The table of rates. *)

\* app/money/fx_refresh.py: a refresh writes no row over another one, and a feed that
\* is not refused is what the table says afterwards: the latest observation of each
\* pair and day that the bank published is the one that it published.  The clock has
\* gone on since the last row, and a feed has one publication a day.
THEOREM HistoryIsKept ==
    ASSUME NEW rows, NEW feed, NEW admitted, NEW today, NEW now \in Nat,
           \A r \in rows : r.at \in Nat /\ r.at < now,
           \A p \in feed, q \in feed : p.day = q.day => p = q
    PROVE  /\ rows \subseteq Ingest(rows, feed, admitted, today, now)
           /\ ~Refused(feed, admitted, today) =>
                 \A x \in Candidates(feed, admitted) :
                     \E r \in Latest(Ingest(rows, feed, admitted, today, now), x[1].day, x[2]) :
                         r.rate = x[1].rates[x[2]]
<1> DEFINE T == Ingest(rows, feed, admitted, today, now)
           Told(y) == \E r \in Latest(rows, y[1].day, y[2]) : r.rate = y[1].rates[y[2]]
           Fresh == {Published(x[1], x[2], now) : x \in {y \in Candidates(feed, admitted) : ~Told(y)}}
<1>1. rows \subseteq T
  BY DEF Ingest
<1>2. ASSUME ~Refused(feed, admitted, today), NEW x \in Candidates(feed, admitted)
      PROVE  \E r \in Latest(T, x[1].day, x[2]) : r.rate = x[1].rates[x[2]]
  <2>1. T = rows \cup Fresh
    BY <1>2 DEF Ingest
  <2>2. x \in feed \X admitted
    BY DEF Candidates
  <2>3. ASSUME NEW f \in Fresh, f.quote = x[2], f.day = x[1].day
        PROVE  f = Published(x[1], x[2], now) /\ ~Told(x)
    <3>1. PICK y \in Candidates(feed, admitted) : ~Told(y) /\ f = Published(y[1], y[2], now)
      OBVIOUS
    <3>2. y \in feed \X admitted
      BY DEF Candidates
    <3>3. y[2] = x[2] /\ y[1].day = x[1].day
      BY <3>1, <2>3 DEF Published
    <3>4. y[1] = x[1]
      BY <2>2, <3>2, <3>3
    <3>5. y = x
      BY <2>2, <3>2, <3>3, <3>4
    <3> QED
      BY <3>1, <3>5
  <2>4. CASE Told(x)
    <3>1. PICK r \in Latest(rows, x[1].day, x[2]) : r.rate = x[1].rates[x[2]]
      BY <2>4
    <3>2. r \in Same(T, x[1].day, x[2])
      BY <2>1 DEF Latest, Same
    <3>3. ASSUME NEW s \in Same(T, x[1].day, x[2]) PROVE s.at <= r.at
      <4>1. s \notin Fresh
        BY <2>3, <2>4 DEF Same
      <4>2. s \in Same(rows, x[1].day, x[2])
        BY <2>1, <4>1 DEF Same
      <4> QED
        BY <4>2 DEF Latest
    <3> QED
      BY <3>1, <3>2, <3>3 DEF Latest
  <2>5. CASE ~Told(x)
    <3> DEFINE r == Published(x[1], x[2], now)
    <3>1. r \in Fresh
      BY <2>5
    <3>2. r \in Same(T, x[1].day, x[2]) /\ r.at = now /\ r.rate = x[1].rates[x[2]]
      BY <2>1, <3>1 DEF Same, Published
    <3>3. ASSUME NEW s \in Same(T, x[1].day, x[2]) PROVE s.at <= now
      <4>1. CASE s \in rows
        BY <4>1
      <4>2. CASE s \in Fresh
        BY <4>2 DEF Published
      <4> QED
        BY <2>1, <4>1, <4>2 DEF Same
    <3> HIDE DEF r
    <3> QED
      BY <3>2, <3>3 DEF Latest
  <2> QED
    BY <2>4, <2>5
<1> QED
  BY <1>1, <1>2

\* app/money/resolver.py: a rate that one source gives and that is too old does not
\* hide the acceptable rate of another source.
THEOREM StaleHidesNothing ==
    ASSUME NEW a, NEW b, NEW c, NEW on,
           \E i \in 1..3 : Acceptable(<<a, b, c>>[i], on)
    PROVE  Acceptable(Choose(<<a, b, c>>, on), on)
<1> DEFINE s == <<a, b, c>>
           good == {i \in DOMAIN s : Acceptable(s[i], on)}
           first == CHOOSE i \in good : \A j \in good : i <= j
<1>1. DOMAIN s = 1..3
  OBVIOUS
<1>2. good \subseteq 1..3 /\ good # {}
  BY <1>1
<1>3. \E i \in good : \A j \in good : i <= j
  <2>1. CASE 1 \in good
    BY <2>1, <1>2
  <2>2. CASE 1 \notin good /\ 2 \in good
    BY <2>2, <1>2
  <2>3. CASE 1 \notin good /\ 2 \notin good
    BY <2>3, <1>2
  <2> QED
    BY <2>1, <2>2, <2>3
<1>4. first \in good
  BY <1>3
<1>5. Choose(s, on) = s[first]
  BY <1>2 DEF Choose
<1> QED
  BY <1>4, <1>5

-----------------------------------------------------------------------------
(* The costs. *)

\* app/economics/components.py: the construction of a breakdown refuses a cost that is
\* known without anybody behind it and a cost inside another one that nobody declared.
\* What build_breakdown makes is never refused, whatever the quotation, the channel and
\* the rate, so that no cost is counted twice nor lost inside another.
THEOREM BreakdownsHold ==
    ASSUME NEW currencies, NEW quote \in Quotations(currencies), NEW x \in UnitEconomicsInputs(currencies),
           NEW rate, NEW on
    PROVE  WellFormed(Breakdown(quote, x, rate, on))
<1> DEFINE B == Breakdown(quote, x, rate, on)
           product == ProductCost(quote, x, rate, on)
           shipping == ShippingCost(quote, x, rate, on)
<1>1. /\ B["product"] = Required(product)
      /\ B["logistics"] = Required(shipping)
      /\ B["import"] = ImportCost(quote, product, shipping)
      /\ B["channel"] = ChannelCost(x)
      /\ B["payment"] = PaymentCost(x)
      /\ B["other_variable"] = OtherCost(x)
  BY DEF Breakdown, Concepts
<1> HIDE DEF B, product, shipping
<1> DEFINE Holds(c) ==
      /\ B[c].status = "known" <=> Known(B[c].fact)
      /\ B[c].status = "included" => B[c].within # c /\ B[B[c].within].status = "known"
<1>2. Holds("product") /\ Holds("logistics")
  BY <1>1 DEF Required, KnownCost, UnknownRequired, Component, Known, Nobody
<1>3. Holds("import")
  <2>1. Known(product) => B["product"].status = "known"
    BY <1>1 DEF Required, KnownCost, Component
  <2>2. Known(shipping) => B["logistics"].status = "known"
    BY <1>1 DEF Required, KnownCost, Component
  <2> QED
    BY <1>1, <2>1, <2>2 DEF ImportCost, IncludedIn, NotApplicable, UnknownRequired, Component, Known, Nobody
<1>4. Holds("channel")
  BY <1>1 DEF ChannelCost, KnownCost, NotApplicable, UnknownRequired, Component, Known, Nobody
<1>5. Holds("payment")
  BY <1>1 DEF PaymentCost, IncludedIn, KnownCost, UnknownOptional, UnknownRequired, Component, Known, Nobody
<1>6. Holds("other_variable")
  BY <1>1 DEF OtherCost, KnownCost, UnknownOptional, Component, Known, Nobody
<1> QED
  BY <1>2, <1>3, <1>4, <1>5, <1>6 DEF WellFormed, Concepts, B

\* The facts that a verdict rests on: the price and the shipping of the quotation have
\* somebody behind them and are in the currency of the analysis, by themselves or with
\* a rate that is not old; where the duties are is known; so is what the channel and
\* the payment cost; and somebody has said how many units are sold.
Grounds(quote, x, rate, on) ==
    /\ quote.by # "unknown" /\ quote.priced /\ quote.shipped
    /\ \/ quote.currency = x.currency
       \/ Acceptable(rate, on) /\ Fits(rate, quote.currency, x.currency)
    /\ \/ quote.dutiesPaid
       \/ quote.sameMarket
       \/ quote.shippingBy = "amazona_estimate"
       \/ quote.shippingBy = "unknown" /\ quote.by = "amazona_estimate"
    /\ x.channel = "marketplace" => x.feeKnown
    /\ x.channel = "own_web" => x.payment.known \/ x.simulated
    /\ x.monthly.known \/ x.demand.known

\* app/economics/service.py: "what cannot be known is not what goes badly".  An analysis
\* says neither GO nor NO_GO when it lacks one of the facts: a missing cost, rate or
\* volume is never taken for zero, and never for a loss that the gate would veto.
THEOREM VerdictsNeedGrounds ==
    ASSUME NEW currencies, "undeclared" \notin currencies,
           NEW quote \in Quotations(currencies), NEW x \in UnitEconomicsInputs(currencies), NEW rate, NEW on,
           Analyse(quote, x, rate, on).recommendation # "REVIEW"
    PROVE  Grounds(quote, x, rate, on)
<1> DEFINE B == Breakdown(quote, x, rate, on)
           product == ProductCost(quote, x, rate, on)
           shipping == ShippingCost(quote, x, rate, on)
<1>1. /\ B["product"] = Required(product)
      /\ B["logistics"] = Required(shipping)
      /\ B["import"] = ImportCost(quote, product, shipping)
      /\ B["channel"] = ChannelCost(x)
      /\ B["payment"] = PaymentCost(x)
  BY DEF Breakdown, Concepts
<1>2. Evaluable(quote, x, rate, on) /\ MonthlyUnits(x).known
  BY DEF Analyse, Verdict, Recommend
<1>3. \A c \in Concepts : B[c].status # "unknown_required"
  BY <1>2 DEF Evaluable, Blocking
<1> HIDE DEF B, product, shipping
<1>4. Known(product) /\ Known(shipping)
  BY <1>1, <1>3 DEF Concepts, Required, UnknownRequired, Component
<1>5. quote.by # "unknown" /\ quote.priced /\ InCurrency(quote.price, quote.currency, x.currency, rate, on).known
  BY <1>4 DEF product, ProductCost, Supported, Known, Nobody
<1>6. quote.currency = x.currency \/ (Acceptable(rate, on) /\ Fits(rate, quote.currency, x.currency))
  BY <1>5 DEF InCurrency, Convert, Applies, NoMoney
<1>7. quote.shipped /\ shipping.by = IF quote.shippingBy = "unknown" THEN quote.by ELSE quote.shippingBy
  BY <1>4 DEF shipping, ShippingCost, Supported, Known, Nobody
<1>8. quote.dutiesPaid \/ quote.sameMarket \/ shipping.by = "amazona_estimate"
  BY <1>1, <1>3 DEF Concepts, ImportCost, UnknownRequired, Component
<1>9. x.channel = "marketplace" => x.feeKnown
  BY <1>1, <1>3 DEF Concepts, ChannelCost, UnknownRequired, Component
<1>10. x.channel = "own_web" => x.payment.known \/ x.simulated
  BY <1>1, <1>3 DEF Concepts, PaymentCost, PaymentFact, UnknownRequired, Component, Known, Nobody
<1>11. x.monthly.known \/ x.demand.known
  BY <1>2 DEF MonthlyUnits
<1> QED
  BY <1>5, <1>6, <1>7, <1>8, <1>9, <1>10, <1>11 DEF Grounds

-----------------------------------------------------------------------------
(* What a verdict says of the money. *)

\* What a source of rates answers.
IsRate(rate) == rate = NoRate \/ rate.rate \in Nat \ {0}

\* An amount is an integer, whichever way it is rounded.
LEMMA HalfUpType ==
    ASSUME NEW n \in Int, NEW d \in Nat \ {0}
    PROVE  HalfUp(n, d) \in Int
  BY DEF HalfUp

\* What decimal arithmetic keeps of a quotient is a quotient.
LEMMA KeptType ==
    ASSUME NEW n \in Int, NEW d \in Nat \ {0}
    PROVE  Kept(n, d).over \in Int /\ Kept(n, d).under \in Nat \ {0}
<1>1. CASE Scales(n, d) = {}
  BY <1>1 DEF Kept
<1>2. CASE Scales(n, d) # {}
  <2>1. PICK k \in Scales(n, d) : k = CHOOSE s \in Scales(n, d) : TRUE
    BY <1>2
  <2>2. k \in Nat \ {0}
    BY <2>1 DEF Scales
  <2>3. n * k \in Int
    BY <2>2
  <2>4. HalfEven(n * k, d) \in Int
    BY <2>3 DEF HalfEven
  <2>5. Kept(n, d) = [over |-> HalfEven(n * k, d), under |-> k]
    BY <1>2, <2>1 DEF Kept
  <2> QED
    BY <2>2, <2>4, <2>5
<1> QED
  BY <1>1, <1>2

\* What is shown is half a cent away from what is known, at the most.
LEMMA RoundedIsNear ==
    ASSUME NEW n \in Int
    PROVE  Rounded(n) \in Int /\ Rounded(n) <= n + 50 /\ n <= Rounded(n) + 50
  BY DEF Rounded, HalfUp, Cent

\* A conversion is an integer amount, with an acceptable rate and without one.
LEMMA InCurrencyType ==
    ASSUME NEW n \in Nat, NEW from, NEW to, NEW rate, IsRate(rate), NEW on
    PROVE  InCurrency(n, from, to, rate, on).amount \in Int
<1>1. CASE Acceptable(rate, on)
  <2>1. rate.rate \in Nat \ {0}
    BY <1>1 DEF Acceptable, IsRate
  <2>2. n * rate.rate \in Int /\ Unit \in Nat \ {0}
    BY <2>1 DEF Unit
  <2>3. Quantized(Kept(n * rate.rate, Unit)) \in Int
    BY <2>2, KeptType, HalfUpType DEF Quantized
  <2>4. InverseRate(rate.rate).over \in Int /\ InverseRate(rate.rate).under \in Nat \ {0}
    BY <2>1, <2>2, KeptType DEF InverseRate
  <2>5. n * InverseRate(rate.rate).over \in Int
    BY <2>4
  <2>6. Quantized(Kept(n * InverseRate(rate.rate).over, InverseRate(rate.rate).under)) \in Int
    BY <2>4, <2>5, KeptType, HalfUpType DEF Quantized
  <2> QED
    BY <2>3, <2>6 DEF InCurrency, Convert, NoMoney, Amount
<1>2. CASE ~Acceptable(rate, on)
  BY <1>2 DEF InCurrency, Convert, Applies, NoMoney, Amount
<1> QED
  BY <1>1, <1>2

\* Every cost of a breakdown has an integer amount, which is 0 where it is not known.
LEMMA TotalCostType ==
    ASSUME NEW currencies, NEW quote \in Quotations(currencies), NEW x \in UnitEconomicsInputs(currencies),
           NEW rate, IsRate(rate), NEW on
    PROVE  TotalCost(Breakdown(quote, x, rate, on)) \in Int
<1> DEFINE B == Breakdown(quote, x, rate, on)
           product == ProductCost(quote, x, rate, on)
           shipping == ShippingCost(quote, x, rate, on)
<1>1. /\ B["product"] = Required(product)
      /\ B["logistics"] = Required(shipping)
      /\ B["import"] = ImportCost(quote, product, shipping)
      /\ B["channel"] = ChannelCost(x)
      /\ B["payment"] = PaymentCost(x)
      /\ B["other_variable"] = OtherCost(x)
  BY DEF Breakdown, Concepts
<1>2. quote.price \in Nat /\ quote.shipping \in Nat /\ x.price \in Nat /\ x.feePercent \in Nat
      /\ x.feeFixed \in Nat /\ x.payment.amount \in Nat /\ x.other.amount \in Nat
  BY DEF Quotations, UnitEconomicsInputs, Declared
<1>3. product.amount \in Int /\ shipping.amount \in Int
  BY <1>2, InCurrencyType DEF ProductCost, ShippingCost, Supported, Nobody
<1> HIDE DEF B, product, shipping
<1>4. B["product"].fact.amount \in Int /\ B["logistics"].fact.amount \in Int
  BY <1>1, <1>3 DEF Required, KnownCost, UnknownRequired, Component, Nobody
<1>5. B["import"].fact.amount \in Int
  BY <1>1 DEF ImportCost, IncludedIn, NotApplicable, UnknownRequired, Component, Nobody
<1>6. B["channel"].fact.amount \in Int
  <2>1. x.price * x.feePercent \in Int
    BY <1>2
  <2>2. HalfUp(x.price * x.feePercent, 100) \in Int
    BY <2>1, HalfUpType
  <2> QED
    BY <1>1, <1>2, <2>2 DEF ChannelCost, KnownCost, NotApplicable, UnknownRequired, Component, Nobody
<1>7. B["payment"].fact.amount \in Int
  <2>1. HalfUp(x.price * 29, 1000) \in Int
    BY <1>2, HalfUpType
  <2>2. PaymentFact(x).amount \in Int
    BY <1>2, <2>1 DEF PaymentFact, Nobody, Cent
  <2> QED
    BY <1>1, <2>2 DEF PaymentCost, IncludedIn, KnownCost, UnknownRequired, UnknownOptional, Component, Nobody
<1>8. B["other_variable"].fact.amount \in Int
  BY <1>1, <1>2 DEF OtherCost, KnownCost, UnknownOptional, Component, Nobody
<1> QED
  BY <1>4, <1>5, <1>6, <1>7, <1>8 DEF TotalCost, B

LEMMA ProductsAreOrdered ==
    ASSUME NEW a \in Int, NEW b \in Int, NEW u \in Nat, a <= b
    PROVE  a * u <= b * u
  OBVIOUS

\* app/economics/service.py, app/agents/economic_analysis.py: the verdict is taken on a
\* cost that was rounded to the cent, and the margin that is kept is the exact one.  A GO
\* still means that a unit leaves no loss above half a cent and that seven tenths of the
\* month pay the fixed cost within that half cent a unit; a NO_GO that a unit, or the
\* whole month, does lose money up to it.
THEOREM VerdictsSayTheMoney ==
    ASSUME NEW currencies, NEW quote \in Quotations(currencies), NEW x \in UnitEconomicsInputs(currencies),
           NEW rate, IsRate(rate), NEW on
    PROVE  LET a == Analyse(quote, x, rate, on)
               units == MonthlyUnits(x).amount
               half == Cent \div 2
           IN  /\ a.recommendation = "GO" =>
                    /\ a.margin.known /\ a.margin.amount + half >= 0
                    /\ 7 * ((a.margin.amount + half) * units) >= 10 * x.fixed
               /\ a.recommendation = "NO_GO" =>
                    /\ a.margin.known
                    /\ \/ a.margin.amount < half
                       \/ (a.margin.amount - half) * units < x.fixed
<1> DEFINE B == Breakdown(quote, x, rate, on)
           a == Analyse(quote, x, rate, on)
           m == x.price - TotalCost(B)
           landed == Rounded(x.price - m)
           units == MonthlyUnits(x).amount
<1>1. /\ x.price \in Int /\ x.fixed \in Nat /\ units \in Nat
      /\ TotalCost(B) \in Int
  <2>1. x.monthly.amount \in Nat /\ x.demand.amount \in Nat /\ x.price \in Int /\ x.fixed \in Nat
    BY DEF UnitEconomicsInputs, Declared
  <2> QED
    BY <2>1, TotalCostType DEF MonthlyUnits
<1>2. ASSUME a.recommendation # "REVIEW"
      PROVE  /\ a.margin = Amount(m)
             /\ a.recommendation = Recommend(landed, x)
  <2>1. Evaluable(quote, x, rate, on)
    BY <1>2 DEF Analyse, Verdict
  <2>2. MarginPerUnit(B, x) = Amount(m)
    BY <2>1 DEF MarginPerUnit, Evaluable
  <2> QED
    BY <2>1, <2>2 DEF Analyse, Verdict, Amount
<1> HIDE DEF B, a
<1>3. m \in Int /\ landed \in Int /\ x.price - landed <= m + 50 /\ m - 50 <= x.price - landed
  <2>1. m \in Int /\ x.price - m \in Int
    BY <1>1
  <2> QED
    BY <1>1, <2>1, RoundedIsNear
<1> HIDE DEF m, landed, units
<1>4. \A k \in Int : Profit(landed, x, k) = ((x.price - landed) * units) * k - 10 * x.fixed
  BY DEF Profit, units
<1>5. (x.price - landed) * units <= (m + 50) * units
      /\ (m - 50) * units <= (x.price - landed) * units
  BY <1>1, <1>3, ProductsAreOrdered
<1> DEFINE p == (x.price - landed) * units
           hi == (m + 50) * units
           lo == (m - 50) * units
<1>6. p \in Int /\ hi \in Int /\ lo \in Int
  BY <1>1, <1>3
<1>7. Profit(landed, x, 10) = p * 10 - 10 * x.fixed /\ Profit(landed, x, 7) = p * 7 - 10 * x.fixed
  BY <1>4
<1>8. p <= hi /\ lo <= p
  BY <1>5
<1>9. ASSUME a.recommendation = "GO"
      PROVE  a.margin = Amount(m) /\ m + 50 >= 0 /\ 7 * hi >= 10 * x.fixed
  <2>1. Recommend(landed, x) = "GO" /\ a.margin = Amount(m)
    BY <1>2, <1>9
  <2>2. ~(x.price - landed < 0) /\ ~(Profit(landed, x, 7) < 0)
    BY <2>1 DEF Recommend
  <2> HIDE DEF p, hi
  <2> QED
    BY <1>1, <1>3, <1>6, <1>7, <1>8, <2>1, <2>2
<1>10. ASSUME a.recommendation = "NO_GO"
       PROVE  a.margin = Amount(m) /\ (m < 50 \/ lo < x.fixed)
  <2>1. Recommend(landed, x) = "NO_GO" /\ a.margin = Amount(m)
    BY <1>2, <1>10
  <2>2. x.price - landed < 0 \/ Profit(landed, x, 10) < 0
    BY <2>1 DEF Recommend
  <2> HIDE DEF p, lo
  <2> QED
    BY <1>1, <1>3, <1>6, <1>7, <1>8, <2>1, <2>2
<1>11. Cent \div 2 = 50
  BY DEF Cent
<1> QED
  BY <1>9, <1>10, <1>11 DEF Amount, a, units

-----------------------------------------------------------------------------
(* The risk of a supplier. *)

\* The assessment holds the eight levels, each under its name.
LEMMA EachDimension ==
    ASSUME NEW f
    PROVE  /\ Assess(f)["identity"] = Identity(f) /\ Assess(f)["financial"] = Financial(f)
           /\ Assess(f)["quality"] = Quality(f) /\ Assess(f)["delivery"] = Delivery(f)
           /\ Assess(f)["legal"] = LegalRisk(f) /\ Assess(f)["fraud"] = Fraud(f)
           /\ Assess(f)["dependency"] = Dependency(f) /\ Assess(f)["logistics"] = Logistics(f)
  BY DEF Assess, Dimensions

\* g is what is known of the supplier after something more was stated: what was
\* stated still is, and may have been corrected, but where the supplier is has not
\* changed and a third party that stood behind something still does.
Learned(f, g) ==
    /\ f.country # Silent => g.country = f.country
    /\ f.region # Silent => g.region = f.region
    /\ f.website => g.website
    /\ f.verification # "unknown" => g.verification # "unknown"
    /\ Verified(f) => Verified(g)
    /\ f.reliability # NoNumber => g.reliability # NoNumber
    /\ f.reliabilityBy = "third_party_verified" => g.reliabilityBy = "third_party_verified"
    /\ f.terms # Silent => g.terms # Silent
    /\ f.lead # NoNumber => g.lead # NoNumber
    /\ f.transit # NoNumber => g.transit # NoNumber
    /\ f.destination # Silent => g.destination = f.destination
    /\ f.sla # "unasked" => g.sla # "unasked"
    /\ f.tracking # "unasked" => g.tracking # "unasked"
    /\ f.returns # "unasked" => g.returns # "unasked"
    /\ f.euReturns # "unasked" => g.euReturns # "unasked"

\* sourcing/capabilities.py: one more declaration may correct an answer, and never takes
\* it back.
LEMMA AnswersStay ==
    ASSUME NEW declared, NEW more, declared \subseteq more, Resolve(declared) # "unasked"
    PROVE  Resolve(more) # "unasked"
  BY DEF Resolve

\* sourcing/risk.py: a dimension that could be assessed is still assessed when more is
\* known of the supplier, and the list of what is left to find out only gets shorter.
THEOREM KnowledgeIsNotLost ==
    ASSUME NEW places, NEW f \in SupplierFacts(places), NEW g \in SupplierFacts(places), Learned(f, g)
    PROVE  Unassessed(g) \subseteq Unassessed(f)
<1>1. Identity(g) = "unknown" => Identity(f) = "unknown"
  BY DEF Identity, Learned, Verified
<1>2. Financial(g) = "unknown" => Financial(f) = "unknown"
  BY DEF Financial, Learned
<1>3. Quality(g) = "unknown" => Quality(f) = "unknown"
  BY DEF Quality, Learned
<1>4. Delivery(g) = "unknown" => Delivery(f) = "unknown"
  BY DEF Delivery, Learned, Timed
<1>5. LegalRisk(g) = "unknown" => LegalRisk(f) = "unknown"
  BY DEF LegalRisk, Learned
<1>6. Fraud(g) = "unknown" => Fraud(f) = "unknown"
  BY DEF Fraud, Learned
<1>7. Dependency(g) = "unknown" => Dependency(f) = "unknown"
  BY DEF Dependency
<1>8. Logistics(g) = "unknown" => Logistics(f) = "unknown"
  BY DEF Logistics, Learned
<1> QED
  BY <1>1, <1>2, <1>3, <1>4, <1>5, <1>6, <1>7, <1>8, EachDimension DEF Unassessed, Dimensions

\* sourcing/risk.py: "a risk that could not be assessed is not a low risk".  A supplier
\* of whom nothing was stated has no low dimension, and each low level rests on a fact
\* that somebody stated: a third party for who the supplier is and for fraud, terms
\* without an advance, the two halves of the right to return.
THEOREM LowIsStated ==
    ASSUME NEW places, Silent \notin places, NEW f \in SupplierFacts(places)
    PROVE  /\ Assess(f)["identity"] = "low" \/ Assess(f)["fraud"] = "low" => Verified(f)
           /\ Assess(f)["financial"] = "low" => f.terms = "plain"
           /\ Assess(f)["quality"] = "low" =>
                 f.reliabilityBy = "third_party_verified" /\ f.reliability \in 8..10
           /\ Assess(f)["delivery"] = "low" =>
                 /\ f.sla = "yes" /\ f.tracking = "yes"
                 /\ f.lead \in 0..14 \/ f.transit \in 0..14
           /\ Assess(f)["legal"] = "low" => f.returns = "yes" /\ f.euReturns = "yes"
           /\ Assess(f)["dependency"] = "low" => f.quotations >= 3
           /\ Assess(f)["logistics"] = "low" =>
                 f.destination \in places /\ f.destination \in {f.region, f.country}
<1>1. /\ Identity(f) = "low" => Verified(f)
      /\ Fraud(f) = "low" => Verified(f)
  BY DEF Identity, Fraud, Verified
<1>2. Financial(f) = "low" => f.terms = "plain"
  BY DEF Financial
<1>3. Quality(f) = "low" => f.reliabilityBy = "third_party_verified" /\ f.reliability \in 8..10
  BY DEF Quality, SupplierFacts, NoNumber
<1>4. Delivery(f) = "low" =>
         f.sla = "yes" /\ f.tracking = "yes" /\ (f.lead \in 0..14 \/ f.transit \in 0..14)
  BY DEF Delivery, Days, Timed, SupplierFacts, NoNumber
<1>5. LegalRisk(f) = "low" => f.returns = "yes" /\ f.euReturns = "yes"
  BY DEF LegalRisk
<1>6. Dependency(f) = "low" => f.quotations >= 3
  BY DEF Dependency, SupplierFacts, NoNumber
<1>7. Logistics(f) = "low" => f.destination \in places /\ f.destination \in {f.region, f.country}
  BY DEF Logistics, SupplierFacts
<1> QED
  BY <1>1, <1>2, <1>3, <1>4, <1>5, <1>6, <1>7, EachDimension

=============================================================================
