------------------------------ MODULE Chat_proofs ------------------------------
(***************************************************************************)
(* What holds of the conversation with the CEO for any requests, proposals, *)
(* tasks, approvals and keys.  The inductive invariant says what a request *)
(* in progress may count on between its commits: the record of its key is  *)
(* its own, and the proposal it executes is EXECUTING and nobody else's;   *)
(* and what has run cannot run again, because its version has passed.      *)
(***************************************************************************)
EXTENDS Chat, FiniteSetTheorems, SequenceTheorems, TLAPS

None == [status |-> "NONE"]
Rows == {row \in ProposalRows : row.status # "NONE"}
Scopes == {"ceo.chat", "tasks.retry", "approvals.resolve"}
Turn == {"received", "thinking", "tools"}
Execution == {"executing", "finishing"}
Confirmed == {"claimed"} \cup Execution
States == Turn \cup Confirmed \cup {"completing", "refused", "unknown"}

\* A request under a key, and one to the route of the approvals.
Served ==
    [pc : States, scope : Scopes, key : Keys, about : Contents, rounds : 0..MaxToolRounds,
     calls : Seq(ToolCalls), drafts : SUBSET Proposals, ok : BOOLEAN]
Resolved == {"APPROVED", "REJECTED", "EXPIRED"}
Resolutions == [pc : {"resolving"}, about : Approvals, status : Resolved]

Runs == [by : Proposals, subject : Subjects, version : Nat]

RequestTypes == request \in [Requests -> {Idle} \cup Served \cup Resolutions]
ProposalTypes == proposal \in [Proposals -> Rows \cup {None}]
SubjectTypes ==
    /\ version \in [Subjects -> 0..MaxVersion]
    /\ approval \in [Approvals -> {"PENDING"} \cup Resolved]
    /\ lapsed \subseteq Approvals
    /\ settled \in [Approvals -> {<<>>, <<"COMMIT">>, <<"RELEASE">>}]
RecordTypes == record \in [Slots -> IdempotencyRecords]

TypeInv == RequestTypes /\ ProposalTypes /\ SubjectTypes /\ RecordTypes /\ ran \subseteq Runs

\* An approval is pending at version 0 and resolved at version 1.
ApprovalsAreVersioned == \A a \in Approvals : version[a] = IF approval[a] = "PENDING" THEN 0 ELSE 1

\* What a request under a key counts on where it is.
Work(r) ==
    LET x == request[r]
    IN /\ record[SlotOf(r)] = [status |-> "IN_PROGRESS", content |-> x.about]
       /\ IsFiniteSet(x.drafts) /\ Cardinality(x.drafts) <= MaxProposals
       /\ \A p \in x.drafts : proposal[p] # None
       /\ x.pc = "tools" => x.calls # <<>>
       /\ x.pc \in Turn => x.about = "message"
       /\ x.pc \in Confirmed =>
            x.about \in Proposals /\ proposal[x.about] # None /\ x.scope = ScopeOf(x.about)
       /\ x.pc \in {"claimed", "executing"} => ~x.ok
       /\ x.pc \in Execution =>
            /\ proposal[x.about].status = "EXECUTING"
            /\ x.ok <=> \E y \in ran : y.by = x.about
       /\ x.pc = "completing" /\ x.about \in Proposals => proposal[x.about].status \in {"EXECUTED", "FAILED"}

Works == \A r \in Working : Work(r)

\* Two requests never work under one key, nor execute one proposal.
KeysApart == \A r, s \in Working : r # s => SlotOf(r) # SlotOf(s)
ExecutionsApart ==
    \A r, s \in Working :
        (r # s /\ request[r].pc \in Execution /\ request[s].pc \in Execution) => request[r].about # request[s].about

\* The key a proposal in execution is behind: no request under it will say otherwise.
Behind(p, slot) ==
    /\ record[slot].status \in {"IN_PROGRESS", "UNKNOWN_OUTCOME"} /\ record[slot].content = p
    /\ \A r \in Working : SlotOf(r) = slot => request[r].pc \in Execution \cup {"unknown"}
ExecutionsAreBehindAKey ==
    \A p \in Proposals : proposal[p].status = "EXECUTING" =>
        \E slot \in Slots : slot[1] = ScopeOf(p) /\ Behind(p, slot)

CompletedKeysAreDone ==
    \A slot \in Slots :
        (record[slot].status = "COMPLETED" /\ record[slot].content \in Proposals) =>
            proposal[record[slot].content].status \in {"EXECUTED", "FAILED"}

\* What ran was of a proposal that says so, over a version that has passed.
Ran(x) ==
    /\ proposal[x.by].status \in {"EXECUTING", "EXECUTED"}
    /\ proposal[x.by].seen = x.version /\ proposal[x.by].subject = x.subject
    /\ x.version < version[x.subject]
RunsAreOnce ==
    /\ \A x \in ran : Ran(x)
    /\ \A x, y \in ran : (x.by = y.by \/ (x.subject = y.subject /\ x.version = y.version)) => x = y
    /\ \A p \in Proposals : proposal[p].status = "EXECUTED" => \E x \in ran : x.by = p

IInv ==
    /\ TypeInv /\ ApprovalsAreVersioned /\ ApprovalsSettleOnce
    /\ Works /\ KeysApart /\ ExecutionsApart
    /\ ExecutionsAreBehindAKey /\ CompletedKeysAreDone /\ RunsAreOnce

-----------------------------------------------------------------------------
(* The requests *)

LEMMA WorkingIs ==
  ASSUME RequestTypes, NEW r \in Requests
  PROVE  /\ r \in Working <=> request[r] \in Served
         /\ r \in Working => request[r].pc \in States /\ request[r] # Idle
         /\ request[r].pc \in States => r \in Working
         /\ request[r].pc = "resolving" => request[r] \in Resolutions
  BY DEF RequestTypes, Working, Served, States, Turn, Confirmed, Execution, Resolutions, Idle

\* The slot of a request is of a scope and a key.
LEMMA SlotIs ==
  ASSUME RequestTypes, NEW r \in Working
  PROVE  /\ SlotOf(r) \in Slots /\ SlotOf(r) = <<request[r].scope, request[r].key>>
         /\ r \in Requests /\ request[r] \in Served /\ request[r].scope \in Scopes /\ request[r].key \in Keys
         /\ request[r].about \in Contents
<1>1. r \in Requests /\ request[r] \in Served
    BY WorkingIs DEF Working
<1> QED
    BY <1>1 DEF SlotOf, Slots, Served, Scopes

\* A request is now y, and the others what they were.
OnlyMoves(r, y) ==
    /\ request'[r] = y
    /\ \A s \in Requests : s # r => request'[s] = request[s]

LEMMA SetMoves ==
  ASSUME RequestTypes, NEW r \in Requests, NEW y \in {Idle} \cup Served \cup Resolutions, Set(r, y)
  PROVE  RequestTypes' /\ OnlyMoves(r, y)
  BY DEF RequestTypes, Set, OnlyMoves

\* A request goes on under its key: it is somewhere else and holds, perhaps, something else.
GoesOn(r) ==
    /\ r \in Working /\ Working' = Working
    /\ request'[r].scope = request[r].scope /\ request'[r].key = request[r].key
    /\ request'[r].about = request[r].about
    /\ \A s \in Requests : s # r => request'[s] = request[s]

LEMMA GoingOn ==
  ASSUME RequestTypes, NEW r \in Working, NEW y \in Served, Set(r, y),
         y.scope = request[r].scope, y.key = request[r].key, y.about = request[r].about
  PROVE  RequestTypes' /\ request'[r] = y /\ GoesOn(r)
<1>1. r \in Requests
    BY DEF Working
<1>2. RequestTypes' /\ OnlyMoves(r, y)
    BY <1>1, SetMoves
<1>3. y.pc \in States
    BY DEF Served
<1>4. Working' = Working
    BY <1>1, <1>2, <1>3 DEF OnlyMoves, Working, States, Turn, Confirmed, Execution
<1> QED
    BY <1>2, <1>4 DEF OnlyMoves, GoesOn

LEMMA GotoMoves ==
  ASSUME RequestTypes, NEW r \in Working, NEW pc \in States, Goto(r, pc)
  PROVE  /\ RequestTypes' /\ GoesOn(r) /\ request'[r].pc = pc /\ request'[r].rounds = request[r].rounds
         /\ request'[r].calls = request[r].calls /\ request'[r].drafts = request[r].drafts
         /\ request'[r].ok = request[r].ok
<1>1. request[r] \in Served
    BY SlotIs
<1>2. PICK y \in Served : y = [request[r] EXCEPT !.pc = pc]
    BY <1>1 DEF Served
<1>3. /\ y.pc = pc /\ y.scope = request[r].scope /\ y.key = request[r].key /\ y.about = request[r].about
      /\ y.rounds = request[r].rounds /\ y.calls = request[r].calls /\ y.drafts = request[r].drafts
      /\ y.ok = request[r].ok
    BY <1>1, <1>2 DEF Served
<1>4. Set(r, y)
    BY <1>2 DEF Goto, Set
<1>5. RequestTypes' /\ request'[r] = y /\ GoesOn(r)
    BY <1>3, <1>4, GoingOn
<1> QED
    BY <1>3, <1>5

LEMMA EndsMoves ==
  ASSUME RequestTypes, NEW r \in Requests, Ends(r)
  PROVE  /\ RequestTypes' /\ OnlyMoves(r, Idle) /\ Working' = Working \ {r}
<1>1. RequestTypes' /\ OnlyMoves(r, Idle)
    BY SetMoves DEF Ends
<1> QED
    BY <1>1 DEF OnlyMoves, Working, Idle

LEMMA ClaimMoves ==
  ASSUME TypeInv, NEW r \in Requests, NEW scope \in Scopes, NEW key \in Keys, NEW content \in Contents,
         NEW pc \in States, Claim(r, scope, key, content, pc)
  PROVE  /\ RequestTypes' /\ RecordTypes' /\ r \notin Working /\ Working' = Working \cup {r}
         /\ \A s \in Requests : s # r => request'[s] = request[s]
         /\ <<scope, key>> \in Slots /\ record[<<scope, key>>].status = "FREE"
         /\ SlotOf(r)' = <<scope, key>>
         /\ record'[<<scope, key>>] = [status |-> "IN_PROGRESS", content |-> content]
         /\ \A slot \in Slots : slot # <<scope, key>> => record'[slot] = record[slot]
         /\ request'[r].pc = pc /\ request'[r].scope = scope /\ request'[r].key = key
         /\ request'[r].about = content /\ request'[r].drafts = {} /\ request'[r].ok = FALSE
<1>0. RequestTypes /\ RecordTypes
    BY DEF TypeInv
<1>1. /\ request[r] = Idle /\ record[<<scope, key>>] = Free /\ Set(r, Received(pc, scope, key, content))
      /\ record' = [record EXCEPT ![<<scope, key>>] = [status |-> "IN_PROGRESS", content |-> content]]
    BY DEF Claim
<1>2. PICK y : y = Received(pc, scope, key, content)
    OBVIOUS
<1>3. <<>> \in Seq(ToolCalls) /\ 0 \in 0..MaxToolRounds
    BY ChatAssumption
<1>4. /\ y \in Served /\ y.pc = pc /\ y.scope = scope /\ y.key = key /\ y.about = content /\ y.drafts = {}
      /\ y.ok = FALSE
    BY <1>2, <1>3 DEF Received, Served
<1>5. RequestTypes' /\ OnlyMoves(r, y)
    BY <1>0, <1>1, <1>2, <1>4, SetMoves
<1>6. r \notin Working
    BY <1>1 DEF Working, Idle
<1>7. Working' = Working \cup {r}
    BY <1>4, <1>5 DEF OnlyMoves, Working, States, Turn, Confirmed, Execution
<1>8. <<scope, key>> \in Slots
    BY DEF Slots, Scopes
<1>9. [status |-> "IN_PROGRESS", content |-> content] \in IdempotencyRecords
    BY DEF IdempotencyRecords
<1>10. /\ RecordTypes' /\ record'[<<scope, key>>] = [status |-> "IN_PROGRESS", content |-> content]
       /\ \A slot \in Slots : slot # <<scope, key>> => record'[slot] = record[slot]
    BY <1>0, <1>1, <1>8, <1>9 DEF RecordTypes
<1>11. record[<<scope, key>>].status = "FREE"
    BY <1>1 DEF Free
<1> QED
    BY <1>4, <1>5, <1>6, <1>7, <1>8, <1>10, <1>11 DEF OnlyMoves, SlotOf

-----------------------------------------------------------------------------
(* What a step leaves of the proposals, as the others count on them *)

\* A proposal that exists is about what it was, and one that is done stays so.
Stays(p) ==
    /\ proposal[p] # None =>
         /\ proposal'[p] # None /\ proposal'[p].subject = proposal[p].subject
         /\ proposal'[p].seen = proposal[p].seen
    /\ proposal[p].status \in {"EXECUTED", "FAILED"} => proposal'[p].status = proposal[p].status

\* One in execution stays so too, and what ran of it is what had run.
GoesUntouched(p) ==
    /\ Stays(p)
    /\ proposal[p].status = "EXECUTING" => proposal'[p].status = "EXECUTING"
    /\ (\E y \in ran' : y.by = p) <=> \E y \in ran : y.by = p

LEMMA WorkStays ==
  ASSUME TypeInv, NEW r \in Working, Work(r), request'[r] = request[r],
         record'[SlotOf(r)] = record[SlotOf(r)], \A p \in Proposals : Stays(p),
         request[r].pc \in Execution => GoesUntouched(request[r].about)
  PROVE  Work(r)'
<1>1. request[r] \in Served /\ SlotOf(r)' = SlotOf(r)
    BY SlotIs DEF TypeInv, SlotOf
<1>2. request[r].drafts \in SUBSET Proposals
    BY <1>1 DEF Served
<1>3. ASSUME request[r].pc \in Confirmed
      PROVE  request[r].about \in Proposals /\ proposal'[request[r].about] # None
             /\ request[r].scope = ScopeOf(request[r].about)'
    BY <1>3 DEF Work, Stays, ScopeOf
<1>4. ASSUME request[r].pc \in Execution
      PROVE  /\ proposal'[request[r].about].status = "EXECUTING"
             /\ request[r].ok <=> \E y \in ran' : y.by = request[r].about
    BY <1>4 DEF Work, GoesUntouched
<1>5. request[r].pc = "completing" /\ request[r].about \in Proposals =>
        proposal'[request[r].about].status \in {"EXECUTED", "FAILED"}
    BY DEF Work, Stays
<1>6. \A p \in request[r].drafts : proposal'[p] # None
    BY <1>2 DEF Work, Stays
<1> QED
    BY <1>1, <1>3, <1>4, <1>5, <1>6 DEF Work

LEMMA CompletedStay ==
  ASSUME RecordTypes, CompletedKeysAreDone, \A p \in Proposals : Stays(p),
         \A slot \in Slots : \/ record'[slot].status # "COMPLETED"
                             \/ record'[slot] = record[slot]
                             \/ record'[slot].content \in Proposals =>
                                  proposal'[record'[slot].content].status \in {"EXECUTED", "FAILED"}
  PROVE  CompletedKeysAreDone'
  BY DEF CompletedKeysAreDone, Stays

LEMMA RunsStay ==
  ASSUME TypeInv, RunsAreOnce, UNCHANGED ran, \A p \in Proposals : Stays(p),
         \A s \in Subjects : version'[s] \in Nat /\ version[s] <= version'[s],
         \A p \in Proposals :
            (proposal[p].status = "EXECUTING" /\ \E x \in ran : x.by = p) => proposal'[p].status \in {"EXECUTING", "EXECUTED"},
         \A p \in Proposals :
            proposal'[p].status = "EXECUTED" => proposal[p].status = "EXECUTED" \/ \E x \in ran : x.by = p
  PROVE  RunsAreOnce'
<1>1. ASSUME NEW x \in ran PROVE Ran(x)'
  <2>1. x \in Runs /\ Ran(x)
      BY <1>1 DEF TypeInv, RunsAreOnce
  <2>2. x.by \in Proposals /\ x.subject \in Subjects /\ x.version \in Nat
      BY <2>1 DEF Runs
  <2>3. proposal[x.by] # None
      BY <2>1 DEF Ran, None
  <2>4. version[x.subject] \in Nat /\ version'[x.subject] \in Nat /\ version[x.subject] <= version'[x.subject]
      BY <2>2, ChatAssumption DEF TypeInv, SubjectTypes
  <2>5. x.version < version'[x.subject]
      BY <2>1, <2>2, <2>4 DEF Ran
  <2>6. proposal'[x.by].status \in {"EXECUTING", "EXECUTED"}
      BY <1>1, <2>1, <2>2 DEF Ran, Stays
  <2> QED
      BY <2>1, <2>2, <2>3, <2>5, <2>6 DEF Ran, Stays
<1> QED
    BY <1>1 DEF RunsAreOnce

-----------------------------------------------------------------------------
(* What a step leaves of the keys *)

\* A key goes on covering an execution if its record does and nobody under it ends otherwise.
LEMMA BehindStays ==
  ASSUME NEW p, NEW slot, Behind(p, slot),
         \/ record'[slot] = record[slot]
         \/ record'[slot].status = "UNKNOWN_OUTCOME" /\ record'[slot].content = record[slot].content,
         \A s \in Working' : SlotOf(s)' = slot =>
            \/ s \in Working /\ SlotOf(s) = slot /\ request'[s].pc = request[s].pc
            \/ request'[s].pc \in Execution \cup {"unknown"}
  PROVE  Behind(p, slot)'
  BY DEF Behind

\* Whoever is in execution was, and its key went on covering it, or it has one now.
LEMMA ExecutionsStayBehind ==
  ASSUME ExecutionsAreBehindAKey, \A p \in Proposals : Stays(p),
         \A p \in Proposals : proposal'[p].status = "EXECUTING" =>
            \/ proposal[p].status = "EXECUTING" /\ \A slot \in Slots : Behind(p, slot) => Behind(p, slot)'
            \/ \E slot \in Slots : slot[1] = ScopeOf(p)' /\ Behind(p, slot)'
  PROVE  ExecutionsAreBehindAKey'
<1>1. \A p \in Proposals : proposal[p].status = "EXECUTING" => ScopeOf(p)' = ScopeOf(p)
    BY DEF ScopeOf, Stays, None
<1> QED
    BY <1>1 DEF ExecutionsAreBehindAKey

\* A request goes on under its key with another pc.
LEMMA GoesOnKeys ==
  ASSUME IInv, RequestTypes', NEW r \in Working, GoesOn(r), UNCHANGED record
  PROVE  /\ KeysApart' /\ \A s \in Working : SlotOf(s)' = SlotOf(s)
         /\ \A p \in Proposals, slot \in Slots :
              (/\ Behind(p, slot)
               /\ request[r].pc \in Execution \cup {"unknown"} =>
                    request'[r].pc \in Execution \cup {"unknown"} \/ request[r].about # p) => Behind(p, slot)'
<1>0. RequestTypes /\ KeysApart /\ Works
    BY DEF IInv, TypeInv
<1>1. \A s \in Working : SlotOf(s)' = SlotOf(s)
    BY <1>0, SlotIs DEF GoesOn, SlotOf, Working
<1>2. KeysApart'
    BY <1>0, <1>1 DEF KeysApart, GoesOn
<1>3. ASSUME NEW p \in Proposals, NEW slot \in Slots, Behind(p, slot),
             request[r].pc \in Execution \cup {"unknown"} =>
                request'[r].pc \in Execution \cup {"unknown"} \/ request[r].about # p
      PROVE  Behind(p, slot)'
  <2>1. ASSUME NEW s \in Working', SlotOf(s)' = slot
        PROVE  \/ s \in Working /\ SlotOf(s) = slot /\ request'[s].pc = request[s].pc
               \/ request'[s].pc \in Execution \cup {"unknown"}
    <3>1. s \in Working /\ s \in Requests /\ SlotOf(s) = slot
        BY <1>1, <2>1 DEF GoesOn, Working
    <3>2. CASE s # r
        BY <3>1, <3>2 DEF GoesOn
    <3>3. CASE s = r
      <4>1. request[r].pc \in Execution \cup {"unknown"}
          BY <1>3, <3>1, <3>3 DEF Behind
      <4>2. request[r].about = p
        <5>1. record[slot] = [status |-> "IN_PROGRESS", content |-> request[r].about]
            BY <1>0, <3>1, <3>3 DEF Works, Work
        <5> QED
            BY <1>3, <5>1 DEF Behind
      <4> QED
          BY <1>3, <3>3, <4>1, <4>2
    <3> QED
        BY <3>2, <3>3
  <2> QED
      BY <1>3, <2>1, BehindStays
<1> QED
    BY <1>1, <1>2, <1>3

\* A step of a conversation: nothing is confirmed by it.
LEMMA TurnStep ==
  ASSUME IInv, RequestTypes', ProposalTypes', UNCHANGED <<subjectVars, record, ran>>,
         NEW r \in Working, GoesOn(r), Work(r)',
         request[r].pc \notin Execution \cup {"unknown"}, request'[r].pc \notin Execution,
         \A p \in Proposals : /\ Stays(p)
                              /\ proposal'[p].status = "EXECUTING" <=> proposal[p].status = "EXECUTING"
                              /\ proposal'[p].status = "EXECUTED" <=> proposal[p].status = "EXECUTED"
  PROVE  IInv'
<1>0. /\ TypeInv /\ ApprovalsAreVersioned /\ ApprovalsSettleOnce /\ Works /\ KeysApart /\ ExecutionsApart
      /\ ExecutionsAreBehindAKey /\ CompletedKeysAreDone /\ RunsAreOnce
    BY DEF IInv
<1>1. TypeInv'
    BY <1>0 DEF TypeInv, SubjectTypes, RecordTypes, subjectVars
<1>2. ApprovalsAreVersioned' /\ ApprovalsSettleOnce'
    BY <1>0 DEF ApprovalsAreVersioned, ApprovalsSettleOnce, subjectVars
<1>3. \A s \in Working : s \in Requests
    BY DEF Working
<1>4. Works'
  <2>1. ASSUME NEW s \in Working, s # r PROVE Work(s)'
    <3>1. Work(s) /\ request'[s] = request[s]
        BY <1>0, <1>3, <2>1 DEF Works, GoesOn
    <3>2. request[s].pc \in Execution => request[s].about \in Proposals
        BY <3>1 DEF Work, Confirmed
    <3> QED
        BY <1>0, <2>1, <3>1, <3>2, WorkStays DEF GoesUntouched
  <2> QED
      BY <2>1 DEF Works, GoesOn
<1>5. ExecutionsApart'
    BY <1>0, <1>3 DEF ExecutionsApart, GoesOn
<1>6. KeysApart' /\ \A p \in Proposals, slot \in Slots : Behind(p, slot) => Behind(p, slot)'
    BY <1>0, GoesOnKeys DEF TypeInv
<1>7. ExecutionsAreBehindAKey'
    BY <1>0, <1>6, ExecutionsStayBehind
<1>8. CompletedKeysAreDone'
    BY <1>0, CompletedStay DEF TypeInv
<1>9. RunsAreOnce'
  <2>1. \A s \in Subjects : version'[s] \in Nat /\ version[s] <= version'[s]
      BY <1>0, ChatAssumption DEF TypeInv, SubjectTypes, subjectVars
  <2> QED
      BY <1>0, <2>1, RunsStay
<1> QED
    BY <1>1, <1>2, <1>4, <1>5, <1>6, <1>7, <1>8, <1>9 DEF IInv

\* Mostly the proposals stay exactly as they are.
LEMMA SameProposals ==
  ASSUME UNCHANGED proposal
  PROVE  \A p \in Proposals : /\ Stays(p)
                              /\ proposal'[p].status = "EXECUTING" <=> proposal[p].status = "EXECUTING"
                              /\ proposal'[p].status = "EXECUTED" <=> proposal[p].status = "EXECUTED"
  BY DEF Stays

LEMMA AtWork ==
  ASSUME IInv, NEW r \in Requests, request[r].pc \in States
  PROVE  r \in Working /\ Work(r) /\ request[r] \in Served
  BY WorkingIs, SlotIs DEF IInv, TypeInv, Works

\* A request goes on elsewhere with what it held, before anything is confirmed.
LEMMA GotoStep ==
  ASSUME IInv, NEW r \in Requests, request[r].pc \in Turn \cup {"claimed"},
         NEW pc \in Turn \cup {"refused", "unknown", "completing"},
         Goto(r, pc), pc \in Turn => pc # "tools" /\ request[r].pc \in Turn, pc = "completing" => request[r].pc \in Turn,
         UNCHANGED <<proposal, subjectVars, record, ran>>
  PROVE  IInv'
<1>1. TypeInv /\ r \in Working /\ Work(r) /\ request[r] \in Served /\ pc \in States
    BY AtWork DEF IInv, States, Turn, Confirmed
<1>2. /\ RequestTypes' /\ GoesOn(r) /\ request'[r].pc = pc /\ request'[r].rounds = request[r].rounds
      /\ request'[r].calls = request[r].calls /\ request'[r].drafts = request[r].drafts
      /\ request'[r].ok = request[r].ok
    BY <1>1, GotoMoves DEF TypeInv
<1>3. ProposalTypes'
    BY <1>1 DEF TypeInv, ProposalTypes
<1>4. SlotOf(r)' = SlotOf(r)
    BY <1>2 DEF GoesOn, SlotOf
<1>5. Work(r)'
    BY <1>1, <1>2, <1>4, ChatAssumption DEF GoesOn, Work, Turn, Confirmed, Execution
<1>6. request[r].pc \notin Execution \cup {"unknown"} /\ request'[r].pc \notin Execution
    BY <1>2 DEF Turn, Execution
<1> QED
    BY <1>1, <1>2, <1>3, <1>5, <1>6, SameProposals, TurnStep

LEMMA ReceiveStep == ASSUME IInv, NEW r \in Requests, Receive(r) PROVE IInv'
  BY GotoStep DEF Receive, Turn

LEMMA FailStep == ASSUME IInv, NEW r \in Requests, NEW outcome \in {"refused", "unknown"}, Fail(r, outcome) PROVE IInv'
  BY GotoStep DEF Fail, Turn

LEMMA AskToolsStep ==
  ASSUME IInv, NEW r \in Requests, NEW calls \in Seq(ToolCalls), calls # <<>>, AskTools(r, calls)
  PROVE  IInv'
<1>1. /\ request[r].pc = "thinking" /\ request[r].rounds < MaxToolRounds
      /\ UNCHANGED <<proposal, subjectVars, record, ran>>
    BY DEF AskTools
<1>2. TypeInv /\ r \in Working /\ Work(r) /\ request[r] \in Served
    BY <1>1, AtWork DEF IInv, States, Turn
<1>3. request[r].rounds + 1 \in 0..MaxToolRounds
    BY <1>1, <1>2, ChatAssumption DEF Served
<1>4. PICK y : y = [request[r] EXCEPT !.pc = "tools", !.rounds = @ + 1, !.calls = calls]
    OBVIOUS
<1>5. /\ y \in Served /\ y.pc = "tools" /\ y.scope = request[r].scope /\ y.key = request[r].key
      /\ y.about = request[r].about /\ y.calls = calls /\ y.drafts = request[r].drafts
    BY <1>2, <1>3, <1>4 DEF Served, States, Turn
<1>6. Set(r, y)
    BY <1>4 DEF AskTools
<1>7. RequestTypes' /\ request'[r] = y /\ GoesOn(r)
    BY <1>2, <1>5, <1>6, GoingOn DEF TypeInv
<1>8. SlotOf(r)' = SlotOf(r)
    BY <1>7 DEF GoesOn, SlotOf
<1>9. Work(r)'
    BY <1>1, <1>2, <1>5, <1>7, <1>8 DEF Work, Turn, Confirmed, Execution
<1>10. ProposalTypes'
    BY <1>1, <1>2 DEF TypeInv, ProposalTypes
<1> QED
    BY <1>1, <1>2, <1>5, <1>7, <1>9, <1>10, SameProposals, TurnStep DEF Execution

LEMMA AnswerStep == ASSUME IInv, NEW r \in Requests, Answer(r) PROVE IInv'
<1>1. /\ request[r].pc = "thinking" /\ Goto(r, "completing") /\ UNCHANGED <<subjectVars, record, ran>>
      /\ proposal' = [p \in Proposals |-> IF p \in request[r].drafts
                                          THEN [proposal[p] EXCEPT !.answered = TRUE] ELSE proposal[p]]
    BY DEF Answer
<1>2. TypeInv /\ r \in Working /\ Work(r) /\ request[r] \in Served
    BY <1>1, AtWork DEF IInv, States, Turn
<1>3. \A p \in Proposals :
        /\ proposal'[p] \in Rows \cup {None} /\ proposal'[p].status = proposal[p].status
        /\ proposal[p] # None =>
             /\ proposal'[p] # None /\ proposal'[p].subject = proposal[p].subject
             /\ proposal'[p].seen = proposal[p].seen
  <2>1. SUFFICES ASSUME NEW p \in Proposals
                 PROVE  /\ proposal'[p] \in Rows \cup {None} /\ proposal'[p].status = proposal[p].status
                        /\ proposal[p] # None =>
                             /\ proposal'[p] # None /\ proposal'[p].subject = proposal[p].subject
                             /\ proposal'[p].seen = proposal[p].seen
      OBVIOUS
  <2>2. CASE p \in request[r].drafts
    <3>1. proposal[p] \in Rows /\ proposal'[p] = [proposal[p] EXCEPT !.answered = TRUE]
        BY <1>1, <1>2, <2>2 DEF Work, TypeInv, ProposalTypes
    <3>2. PICK row \in Rows : row = proposal[p]
        BY <3>1
    <3>3. PICK y : y = [row EXCEPT !.answered = TRUE]
        OBVIOUS
    <3>4. y \in Rows /\ y.status = row.status /\ y.subject = row.subject /\ y.seen = row.seen /\ y.status # "NONE"
        BY <3>3 DEF Rows, ProposalRows
    <3> QED
        BY <3>1, <3>2, <3>3, <3>4 DEF None
  <2>3. CASE p \notin request[r].drafts
      BY <1>1, <1>2, <2>3 DEF TypeInv, ProposalTypes
  <2> QED
      BY <2>2, <2>3
<1>4. ProposalTypes' /\ \A p \in Proposals : Stays(p)
    BY <1>1, <1>3 DEF ProposalTypes, Stays
<1>5. /\ RequestTypes' /\ GoesOn(r) /\ request'[r].pc = "completing" /\ request'[r].drafts = request[r].drafts
    BY <1>1, <1>2, GotoMoves DEF TypeInv, States
<1>6. SlotOf(r)' = SlotOf(r)
    BY <1>5 DEF GoesOn, SlotOf
<1>7. request[r].drafts \in SUBSET Proposals
    BY <1>2 DEF Served
<1>8. Work(r)'
    BY <1>1, <1>2, <1>4, <1>5, <1>6, <1>7, ChatAssumption DEF GoesOn, Work, Turn, Confirmed, Execution, Stays
<1> QED
    BY <1>1, <1>2, <1>3, <1>4, <1>5, <1>8, TurnStep DEF Execution

LEMMA RunToolStep == ASSUME IInv, NEW r \in Requests, RunTool(r) PROVE IInv'
<1> DEFINE call == Head(request[r].calls)
           rest == [request[r] EXCEPT !.calls = Tail(@),
                                      !.pc = IF Len(request[r].calls) > 1 THEN @ ELSE "thinking"]
<1>1. request[r].pc = "tools" /\ UNCHANGED <<subjectVars, record, ran>>
    BY DEF RunTool
<1>2. TypeInv /\ r \in Working /\ Work(r) /\ request[r] \in Served
    BY <1>1, AtWork DEF IInv, States, Turn
<1>3. /\ request[r].calls \in Seq(ToolCalls) /\ request[r].calls # <<>>
      /\ IsFiniteSet(request[r].drafts) /\ Cardinality(request[r].drafts) <= MaxProposals
      /\ request[r].drafts \in SUBSET Proposals
    BY <1>1, <1>2 DEF Served, Work
<1>4. call \in ToolCalls /\ Tail(request[r].calls) \in Seq(ToolCalls)
      /\ (Len(request[r].calls) > 1 => Tail(request[r].calls) # <<>>)
  <2>1. PICK calls \in Seq(ToolCalls) : calls = request[r].calls /\ calls # <<>>
      BY <1>3
  <2>2. Head(calls) \in ToolCalls /\ Tail(calls) \in Seq(ToolCalls) /\ Len(Tail(calls)) = Len(calls) - 1
      BY <2>1, HeadTailProperties
  <2>3. Len(calls) > 1 => Tail(calls) # <<>>
    <3>1. PICK others \in Seq(ToolCalls) : others = Tail(calls)
        BY <2>2
    <3>2. others # <<>> <=> Len(others) # 0
        BY EmptySeq
    <3>3. Len(calls) \in Nat
        BY <2>1
    <3> QED
        BY <2>2, <3>1, <3>2, <3>3
  <2> QED
      BY <2>1, <2>2, <2>3
<1>5. PICK pc \in {"tools", "thinking"} :
        /\ pc = (IF Len(request[r].calls) > 1 THEN request[r].pc ELSE "thinking")
        /\ pc = "tools" => Tail(request[r].calls) # <<>>
    BY <1>1, <1>4
<1>6. PICK held : held = rest
    OBVIOUS
<1>7. /\ held \in Served /\ held.pc = pc /\ held.calls = Tail(request[r].calls)
      /\ held.scope = request[r].scope /\ held.key = request[r].key
      /\ held.about = request[r].about /\ held.drafts = request[r].drafts
  <2>1. held = [request[r] EXCEPT !.calls = Tail(@), !.pc = pc]
      BY <1>2, <1>5, <1>6 DEF Served
  <2> QED
      BY <1>2, <1>4, <2>1 DEF Served, States, Turn
<1>8. ASSUME NEW y \in Served, y.pc = pc, y.calls = Tail(request[r].calls), y.scope = request[r].scope,
             y.key = request[r].key, y.about = request[r].about, Set(r, y),
             IsFiniteSet(y.drafts), Cardinality(y.drafts) <= MaxProposals,
             \A p \in y.drafts : proposal'[p] # None, ProposalTypes',
             \A p \in Proposals : /\ Stays(p)
                                  /\ proposal'[p].status = "EXECUTING" <=> proposal[p].status = "EXECUTING"
                                  /\ proposal'[p].status = "EXECUTED" <=> proposal[p].status = "EXECUTED"
      PROVE  IInv'
  <2>1. RequestTypes' /\ request'[r] = y /\ GoesOn(r)
      BY <1>2, <1>8, GoingOn DEF TypeInv
  <2>2. SlotOf(r)' = SlotOf(r)
      BY <2>1 DEF GoesOn, SlotOf
  <2>3. Work(r)'
      BY <1>1, <1>2, <1>5, <1>8, <2>1, <2>2 DEF Work, Turn, Confirmed, Execution
  <2> QED
      BY <1>1, <1>2, <1>8, <2>1, <2>3, TurnStep DEF Execution
<1>9. CASE Set(r, rest) /\ UNCHANGED proposal
  <2>1. ProposalTypes' /\ \A p \in held.drafts : proposal'[p] # None
      BY <1>2, <1>7, <1>9 DEF TypeInv, ProposalTypes, Work
  <2> QED
      BY <1>3, <1>6, <1>7, <1>8, <1>9, <2>1, SameProposals
<1>10. ASSUME NEW p \in Unused, call.kind = "propose", Cardinality(request[r].drafts) < MaxProposals,
              proposal' = [proposal EXCEPT ![p] =
                             [status |-> "PROPOSED", subject |-> call.subject, seen |-> version[call.subject],
                              decision |-> call.decision, answered |-> FALSE]],
              Set(r, [rest EXCEPT !.drafts = @ \cup {p}])
       PROVE  IInv'
  <2>1. call.subject \in Subjects /\ call.decision \in Decisions
      BY <1>4, <1>10 DEF ToolCalls
  <2>2. version[call.subject] \in Nat
      BY <1>2, <2>1, ChatAssumption DEF TypeInv, SubjectTypes
  <2>3. PICK row : row = [status |-> "PROPOSED", subject |-> call.subject, seen |-> version[call.subject],
                          decision |-> call.decision, answered |-> FALSE]
      OBVIOUS
  <2>4. row \in Rows /\ row.status = "PROPOSED" /\ row # None
      BY <2>1, <2>2, <2>3 DEF Rows, ProposalRows, ProposalStatus, None
  <2>5. p \in Proposals /\ proposal[p].status = "NONE" /\ proposal[p] = None
      BY <1>2, <1>10 DEF Unused, TypeInv, ProposalTypes, Rows
  <2>6. /\ ProposalTypes' /\ proposal'[p] = row
        /\ \A other \in Proposals : other # p => proposal'[other] = proposal[other]
      BY <1>2, <1>10, <2>3, <2>4, <2>5 DEF TypeInv, ProposalTypes
  <2>7. \A other \in Proposals :
          /\ Stays(other)
          /\ proposal'[other].status = "EXECUTING" <=> proposal[other].status = "EXECUTING"
          /\ proposal'[other].status = "EXECUTED" <=> proposal[other].status = "EXECUTED"
      BY <2>4, <2>5, <2>6 DEF Stays
  <2>8. PICK y : y = [held EXCEPT !.drafts = @ \cup {p}]
      OBVIOUS
  <2>9. /\ y \in Served /\ y.pc = pc /\ y.calls = Tail(request[r].calls)
        /\ y.scope = request[r].scope /\ y.key = request[r].key /\ y.about = request[r].about
        /\ y.drafts = request[r].drafts \cup {p}
      BY <1>7, <2>5, <2>8 DEF Served
  <2>10. IsFiniteSet(y.drafts) /\ Cardinality(y.drafts) <= MaxProposals
    <3>1. /\ IsFiniteSet(request[r].drafts \cup {p})
          /\ Cardinality(request[r].drafts \cup {p}) =
               IF p \in request[r].drafts THEN Cardinality(request[r].drafts) ELSE Cardinality(request[r].drafts) + 1
        BY <1>3, FS_AddElement
    <3>2. Cardinality(request[r].drafts) \in Nat
        BY <1>3, FS_CardinalityType
    <3> QED
        BY <1>10, <2>9, <3>1, <3>2, ChatAssumption
  <2>11. \A other \in y.drafts : proposal'[other] # None
      BY <1>2, <1>3, <2>4, <2>6, <2>9 DEF Work
  <2>12. Set(r, y)
      BY <1>6, <1>10, <2>8
  <2> QED
      BY <1>8, <2>6, <2>7, <2>9, <2>10, <2>11, <2>12
<1>11. \/ Set(r, rest) /\ UNCHANGED proposal
       \/ \E p \in Unused :
            /\ call.kind = "propose" /\ Cardinality(request[r].drafts) < MaxProposals
            /\ proposal' = [proposal EXCEPT ![p] =
                             [status |-> "PROPOSED", subject |-> call.subject, seen |-> version[call.subject],
                              decision |-> call.decision, answered |-> FALSE]]
            /\ Set(r, [rest EXCEPT !.drafts = @ \cup {p}])
    BY DEF RunTool
<1> QED
    BY <1>9, <1>10, <1>11

-----------------------------------------------------------------------------
(* The subjects go on: approvals resolve once and versions grow *)

SubjectsGoOn ==
    /\ SubjectTypes' /\ ApprovalsAreVersioned' /\ ApprovalsSettleOnce'
    /\ \A s \in Subjects : version'[s] \in Nat /\ version[s] <= version'[s]

LEMMA SubjectsStay ==
  ASSUME IInv, UNCHANGED subjectVars
  PROVE  SubjectsGoOn
<1>1. SubjectTypes /\ ApprovalsAreVersioned /\ ApprovalsSettleOnce
    BY DEF IInv, TypeInv
<1>2. SubjectTypes' /\ \A s \in Subjects : version'[s] \in Nat /\ version[s] <= version'[s]
    BY <1>1, ChatAssumption DEF SubjectTypes, subjectVars
<1>3. ApprovalsAreVersioned' /\ ApprovalsSettleOnce'
    BY <1>1 DEF ApprovalsAreVersioned, ApprovalsSettleOnce, subjectVars
<1> QED
    BY <1>2, <1>3 DEF SubjectsGoOn

LEMMA SubjectsResolve ==
  ASSUME IInv, NEW a \in Approvals, NEW status \in Resolved, Resolves(a, status)
  PROVE  SubjectsGoOn /\ version[a] = 0 /\ version'[a] = 1
<1>1. SubjectTypes /\ ApprovalsAreVersioned /\ ApprovalsSettleOnce
    BY DEF IInv, TypeInv
<1>2. /\ approval[a] = "PENDING" /\ approval' = [approval EXCEPT ![a] = status]
      /\ settled' = Settled(a, EventOf(status)) /\ version' = [version EXCEPT ![a] = 1] /\ lapsed' = lapsed
    BY DEF Resolves
<1>3. a \in Subjects /\ Approvals \subseteq Subjects /\ 1 \in 0..MaxVersion /\ 0..MaxVersion \subseteq Nat
    BY ChatAssumption DEF Subjects
<1>4. /\ approval' \in [Approvals -> {"PENDING"} \cup Resolved] /\ approval'[a] = status /\ status # "PENDING"
      /\ \A b \in Approvals : b # a => approval'[b] = approval[b]
    BY <1>1, <1>2 DEF SubjectTypes, Resolved
<1>5. /\ version' \in [Subjects -> 0..MaxVersion] /\ version'[a] = 1 /\ version[a] = 0
      /\ \A s \in Subjects : s # a => version'[s] = version[s]
    BY <1>1, <1>2, <1>3 DEF SubjectTypes, ApprovalsAreVersioned
<1>6. \A s \in Subjects : version'[s] \in Nat /\ version[s] <= version'[s]
    BY <1>1, <1>3, <1>5 DEF SubjectTypes
<1>7. ApprovalsAreVersioned'
    BY <1>1, <1>3, <1>4, <1>5 DEF ApprovalsAreVersioned
<1>8. settled[a] = <<>> /\ EventOf(status) \in {"COMMIT", "RELEASE"}
    BY <1>1, <1>2 DEF ApprovalsSettleOnce, EventOf
<1>9. Append(settled[a], EventOf(status)) = <<EventOf(status)>>
    BY <1>8
<1>10. /\ settled' \in [Approvals -> {<<>>, <<"COMMIT">>, <<"RELEASE">>}]
       /\ settled'[a] = IF a \in Reserved THEN <<EventOf(status)>> ELSE <<>>
       /\ \A b \in Approvals : b # a => settled'[b] = settled[b]
  <2>1. CASE a \in Reserved
    <3>1. settled' = [settled EXCEPT ![a] = <<EventOf(status)>>]
        BY <1>2, <1>8, <1>9, <2>1 DEF Settled
    <3> QED
        BY <1>1, <1>8, <2>1, <3>1 DEF SubjectTypes
  <2>2. CASE a \notin Reserved
      BY <1>1, <1>2, <1>8, <2>2 DEF Settled, SubjectTypes
  <2> QED
      BY <2>1, <2>2
<1>11. ApprovalsSettleOnce'
  <2>1. SUFFICES ASSUME NEW b \in Approvals
                 PROVE  settled'[b] = IF b \in Reserved /\ approval'[b] # "PENDING"
                                      THEN <<EventOf(approval'[b])>> ELSE <<>>
      BY DEF ApprovalsSettleOnce, EventOf
  <2>2. CASE b = a
      BY <1>4, <1>10, <2>2
  <2>3. CASE b # a
      BY <1>1, <1>4, <1>10, <2>3 DEF ApprovalsSettleOnce
  <2> QED
      BY <2>2, <2>3
<1> QED
    BY <1>1, <1>2, <1>4, <1>5, <1>6, <1>7, <1>10, <1>11 DEF SubjectsGoOn, SubjectTypes

\* A task that is retried has one more attempt.
LEMMA TaskGoesOn ==
  ASSUME IInv, NEW t \in Tasks, version[t] < MaxVersion, version' = [version EXCEPT ![t] = @ + 1],
         UNCHANGED <<approval, lapsed, settled>>
  PROVE  SubjectsGoOn /\ version[t] < version'[t]
<1>1. SubjectTypes /\ ApprovalsAreVersioned /\ ApprovalsSettleOnce
    BY DEF IInv, TypeInv
<1>2. t \in Subjects /\ version[t] \in 0..MaxVersion /\ version[t] + 1 \in 0..MaxVersion
    BY <1>1, ChatAssumption DEF SubjectTypes, Subjects
<1>3. /\ version' \in [Subjects -> 0..MaxVersion] /\ version'[t] = version[t] + 1
      /\ \A s \in Subjects : s # t => version'[s] = version[s]
    BY <1>1, <1>2 DEF SubjectTypes
<1>4. \A s \in Subjects : version'[s] \in Nat /\ version[s] <= version'[s]
    BY <1>1, <1>2, <1>3, ChatAssumption DEF SubjectTypes
<1>5. \A a \in Approvals : a # t /\ a \in Subjects
    BY ChatAssumption DEF Subjects
<1>6. ApprovalsAreVersioned' /\ ApprovalsSettleOnce'
    BY <1>1, <1>3, <1>5 DEF ApprovalsAreVersioned, ApprovalsSettleOnce
<1> QED
    BY <1>1, <1>2, <1>3, <1>4, <1>6 DEF SubjectsGoOn, SubjectTypes

-----------------------------------------------------------------------------
(* A request begins *)

LEMMA OthersWork ==
  ASSUME IInv, NEW r \in Requests, \A s \in Requests : s # r => request'[s] = request[s],
         \A s \in Working : s # r => record'[SlotOf(s)] = record[SlotOf(s)],
         \A p \in Proposals : Stays(p),
         \A s \in Working : (s # r /\ request[s].pc \in Execution) => GoesUntouched(request[s].about)
  PROVE  \A s \in Working : s # r => Work(s)' /\ SlotOf(s)' = SlotOf(s)
<1>1. SUFFICES ASSUME NEW s \in Working, s # r PROVE Work(s)' /\ SlotOf(s)' = SlotOf(s)
    OBVIOUS
<1>2. TypeInv /\ Work(s) /\ s \in Requests
    BY DEF IInv, Works, Working
<1>3. request'[s] = request[s]
    BY <1>1, <1>2
<1> QED
    BY <1>1, <1>2, <1>3, WorkStays DEF SlotOf

LEMMA UntouchedAll ==
  ASSUME UNCHANGED <<proposal, ran>>
  PROVE  \A p : Stays(p) /\ GoesUntouched(p)
  BY DEF Stays, GoesUntouched

LEMMA ClaimStep ==
  ASSUME IInv, NEW r \in Requests, NEW scope \in Scopes, NEW key \in Keys, NEW content \in Contents,
         NEW pc \in {"received", "claimed"}, Claim(r, scope, key, content, pc),
         pc = "received" => content = "message",
         pc = "claimed" => content \in Proposals /\ proposal[content] # None /\ scope = ScopeOf(content),
         UNCHANGED <<proposal, subjectVars, ran>>
  PROVE  IInv'
<1>0. /\ TypeInv /\ Works /\ KeysApart /\ ExecutionsApart
      /\ ExecutionsAreBehindAKey /\ CompletedKeysAreDone /\ RunsAreOnce
    BY DEF IInv
<1>1. PICK slot \in Slots : slot = <<scope, key>>
    BY DEF Slots, Scopes
<1>2. /\ RequestTypes' /\ RecordTypes' /\ r \notin Working /\ Working' = Working \cup {r}
      /\ \A s \in Requests : s # r => request'[s] = request[s]
      /\ record[slot].status = "FREE" /\ SlotOf(r)' = slot
      /\ record'[slot] = [status |-> "IN_PROGRESS", content |-> content]
      /\ \A other \in Slots : other # slot => record'[other] = record[other]
      /\ request'[r].pc = pc /\ request'[r].scope = scope /\ request'[r].key = key
      /\ request'[r].about = content /\ request'[r].drafts = {} /\ request'[r].ok = FALSE
  <2>1. pc \in States
      BY DEF States, Turn, Confirmed
  <2>2. /\ RequestTypes' /\ RecordTypes' /\ r \notin Working /\ Working' = Working \cup {r}
        /\ \A s \in Requests : s # r => request'[s] = request[s]
        /\ <<scope, key>> \in Slots /\ record[<<scope, key>>].status = "FREE"
        /\ SlotOf(r)' = <<scope, key>>
        /\ record'[<<scope, key>>] = [status |-> "IN_PROGRESS", content |-> content]
        /\ \A other \in Slots : other # <<scope, key>> => record'[other] = record[other]
        /\ request'[r].pc = pc /\ request'[r].scope = scope /\ request'[r].key = key
        /\ request'[r].about = content /\ request'[r].drafts = {} /\ request'[r].ok = FALSE
      BY <1>0, <2>1, ClaimMoves
  <2> QED
      BY <1>1, <2>2
<1>3. \A s \in Working : SlotOf(s) \in Slots /\ s \in Requests /\ s # r
    BY <1>0, <1>2, SlotIs DEF TypeInv, Working
<1>4. ASSUME NEW s \in Working PROVE record[SlotOf(s)].status = "IN_PROGRESS"
  <2>1. record[SlotOf(s)] = [status |-> "IN_PROGRESS", content |-> request[s].about]
      BY <1>0 DEF Works, Work
  <2> QED
      BY <2>1
<1>5. \A s \in Working : SlotOf(s) # slot /\ record'[SlotOf(s)] = record[SlotOf(s)]
    BY <1>2, <1>3, <1>4
<1>6. \A p : Stays(p) /\ GoesUntouched(p)
    BY UntouchedAll
<1>7. \A s \in Working : Work(s)' /\ SlotOf(s)' = SlotOf(s)
    BY <1>2, <1>3, <1>5, <1>6, OthersWork
<1>8. SubjectsGoOn
    BY SubjectsStay
<1>9. TypeInv'
    BY <1>0, <1>2, <1>8 DEF TypeInv, ProposalTypes, SubjectsGoOn
<1>10. Work(r)'
  <2>1. IsFiniteSet({}) /\ Cardinality({}) <= MaxProposals
      BY FS_EmptySet, ChatAssumption
  <2>2. ScopeOf(content)' = ScopeOf(content)
      BY DEF ScopeOf
  <2> QED
      BY <1>2, <2>1, <2>2, ChatAssumption DEF Work, Turn, Confirmed, Execution
<1>11. Works' /\ KeysApart'
  <2>1. Works'
      BY <1>2, <1>7, <1>10 DEF Works
  <2>2. ASSUME NEW s \in Working \cup {r}, NEW t \in Working \cup {r}, s # t PROVE SlotOf(s)' # SlotOf(t)'
      BY <1>0, <1>2, <1>5, <1>7, <2>2 DEF KeysApart
  <2> QED
      BY <1>2, <2>1, <2>2 DEF KeysApart
<1>12. ExecutionsApart'
    BY <1>0, <1>2, <1>3 DEF ExecutionsApart, Execution
<1>13. ExecutionsAreBehindAKey'
  <2>1. ASSUME NEW p \in Proposals, NEW other \in Slots, Behind(p, other) PROVE Behind(p, other)'
    <3>1. other # slot
        BY <1>2, <2>1 DEF Behind
    <3>2. \A s \in Working' : SlotOf(s)' = other => s \in Working /\ SlotOf(s) = other /\ request'[s].pc = request[s].pc
        BY <1>2, <1>3, <1>7, <3>1
    <3> QED
        BY <1>2, <2>1, <3>1, <3>2, BehindStays
  <2> QED
      BY <1>0, <1>6, <2>1, ExecutionsStayBehind
<1>14. CompletedKeysAreDone'
    BY <1>0, <1>2, <1>6, CompletedStay DEF TypeInv
<1>15. RunsAreOnce'
    BY <1>0, <1>6, <1>8, RunsStay DEF SubjectsGoOn
<1> QED
    BY <1>8, <1>9, <1>11, <1>12, <1>13, <1>14, <1>15 DEF IInv, SubjectsGoOn

LEMMA AskStep == ASSUME IInv, NEW r \in Requests, NEW key \in Keys, Ask(r, key) PROVE IInv'
  BY ClaimStep DEF Ask, Scopes, Contents

LEMMA ConfirmStep ==
  ASSUME IInv, NEW r \in Requests, NEW key \in Keys, NEW p \in Proposals, Confirm(r, key, p)
  PROVE  IInv'
<1>1. /\ proposal[p] # None /\ ScopeOf(p) \in Scopes /\ p \in Contents
      /\ Claim(r, ScopeOf(p), key, p, "claimed") /\ UNCHANGED <<proposal, subjectVars, ran>>
    BY DEF Confirm, None, ScopeOf, Scopes, Contents
<1> QED
    BY <1>1, ClaimStep

-----------------------------------------------------------------------------
(* A request ends *)

\* What a request leaves of its key: the record as it was, done, unknown, or free if nothing was done.
Leaves(r) ==
    LET slot == SlotOf(r)
    IN \/ record'[slot] = record[slot]
       \/ /\ request[r].pc = "completing"
          /\ record'[slot] = [status |-> "COMPLETED", content |-> request[r].about]
       \/ record'[slot] = [status |-> "UNKNOWN_OUTCOME", content |-> request[r].about]
       \/ request[r].pc = "refused" /\ record'[slot] = Free

LEMMA EndsStep ==
  ASSUME IInv, NEW r \in Requests, Ends(r), UNCHANGED <<proposal, ran>>, SubjectsGoOn, RecordTypes',
         r \in Working => Leaves(r),
         \A slot \in Slots : record'[slot] = record[slot] \/ (r \in Working /\ slot = SlotOf(r))
  PROVE  IInv'
<1>0. /\ TypeInv /\ Works /\ KeysApart /\ ExecutionsApart
      /\ ExecutionsAreBehindAKey /\ CompletedKeysAreDone /\ RunsAreOnce
    BY DEF IInv
<1>1. RequestTypes' /\ OnlyMoves(r, Idle) /\ Working' = Working \ {r}
    BY <1>0, EndsMoves DEF TypeInv
<1>2. \A s \in Requests : s # r => request'[s] = request[s]
    BY <1>1 DEF OnlyMoves
<1>3. \A s \in Working : SlotOf(s) \in Slots /\ s \in Requests
    BY <1>0, SlotIs DEF TypeInv, Working
<1>4. \A s \in Working : s # r => record'[SlotOf(s)] = record[SlotOf(s)]
    BY <1>0, <1>3 DEF KeysApart
<1>5. \A p : Stays(p) /\ GoesUntouched(p)
    BY UntouchedAll
<1>6. \A s \in Working' : s \in Working /\ s # r /\ Work(s)' /\ SlotOf(s)' = SlotOf(s)
    BY <1>1, <1>2, <1>4, <1>5, OthersWork
<1>7. TypeInv'
    BY <1>0, <1>1 DEF TypeInv, ProposalTypes, SubjectsGoOn
<1>8. Works' /\ KeysApart'
    BY <1>0, <1>6 DEF Works, KeysApart
<1>9. ExecutionsApart'
  <2>1. \A s \in Working' : s \in Working /\ request'[s] = request[s]
      BY <1>2, <1>3, <1>6
  <2> QED
      BY <1>0, <2>1 DEF ExecutionsApart
<1>10. ASSUME r \in Working
       PROVE  /\ Work(r) /\ Leaves(r) /\ record[SlotOf(r)].status = "IN_PROGRESS"
              /\ record[SlotOf(r)].content = request[r].about
  <2>1. Work(r)
      BY <1>0, <1>10 DEF Works
  <2>2. record[SlotOf(r)] = [status |-> "IN_PROGRESS", content |-> request[r].about]
      BY <2>1 DEF Work
  <2> QED
      BY <1>10, <2>1, <2>2
<1>11. ExecutionsAreBehindAKey'
  <2>1. ASSUME NEW p \in Proposals, NEW slot \in Slots, Behind(p, slot) PROVE Behind(p, slot)'
    <3>1. \A s \in Working' : SlotOf(s)' = slot => s \in Working /\ SlotOf(s) = slot /\ request'[s].pc = request[s].pc
        BY <1>2, <1>3, <1>6
    <3>2. CASE record'[slot] = record[slot]
        BY <2>1, <3>1, <3>2, BehindStays
    <3>3. CASE record'[slot] # record[slot]
      <4>1. r \in Working /\ slot = SlotOf(r)
          BY <3>3
      <4>2. request[r].pc \in Execution \cup {"unknown"} /\ request[r].pc \notin {"completing", "refused"}
          BY <2>1, <4>1 DEF Behind, Execution
      <4>3. record'[slot] = [status |-> "UNKNOWN_OUTCOME", content |-> request[r].about]
          BY <1>10, <3>3, <4>1, <4>2 DEF Leaves
      <4>4. record'[slot].status = "UNKNOWN_OUTCOME" /\ record'[slot].content = record[slot].content
          BY <1>10, <4>1, <4>3
      <4> QED
          BY <2>1, <3>1, <4>4, BehindStays
    <3> QED
        BY <3>2, <3>3
  <2> QED
      BY <1>0, <1>5, <2>1, ExecutionsStayBehind
<1>12. CompletedKeysAreDone'
  <2>1. ASSUME NEW slot \in Slots
        PROVE  \/ record'[slot].status # "COMPLETED"
               \/ record'[slot] = record[slot]
               \/ record'[slot].content \in Proposals =>
                    proposal'[record'[slot].content].status \in {"EXECUTED", "FAILED"}
    <3>1. CASE record'[slot] # record[slot]
      <4>1. r \in Working /\ slot = SlotOf(r)
          BY <3>1
      <4>2. Work(r) /\ Leaves(r)
          BY <1>10, <4>1
      <4>3. CASE request[r].pc = "completing" /\ record'[slot] = [status |-> "COMPLETED", content |-> request[r].about]
          BY <4>2, <4>3 DEF Work
      <4>4. CASE record'[slot] = [status |-> "UNKNOWN_OUTCOME", content |-> request[r].about]
          BY <4>4
      <4>5. CASE record'[slot] = Free
          BY <4>5 DEF Free
      <4> QED
          BY <3>1, <4>1, <4>2, <4>3, <4>4, <4>5 DEF Leaves
    <3> QED
        BY <3>1
  <2> QED
      BY <1>0, <1>5, <2>1, CompletedStay DEF TypeInv
<1>13. RunsAreOnce'
    BY <1>0, <1>5, RunsStay DEF SubjectsGoOn
<1> QED
    BY <1>7, <1>8, <1>9, <1>11, <1>12, <1>13 DEF IInv, SubjectsGoOn

\* What complete and mark_unknown write of the record.
LEMMA MarkIs ==
  ASSUME IInv, NEW r \in Working, NEW status \in {"COMPLETED", "UNKNOWN_OUTCOME"}, Mark(r, status)
  PROVE  /\ RecordTypes' /\ record'[SlotOf(r)] = [status |-> status, content |-> request[r].about]
         /\ \A slot \in Slots : slot # SlotOf(r) => record'[slot] = record[slot]
<1>1. Work(r) /\ RequestTypes /\ RecordTypes /\ SlotOf(r) \in Slots /\ request[r].about \in Contents
    BY SlotIs DEF IInv, TypeInv, Works
<1>2. PICK x : x = [status |-> "IN_PROGRESS", content |-> request[r].about]
    OBVIOUS
<1>3. record[SlotOf(r)] = x /\ x.status = "IN_PROGRESS" /\ x.content = request[r].about
    BY <1>1, <1>2 DEF Work
<1>4. PICK y : y = [status |-> status, content |-> request[r].about]
    OBVIOUS
<1>5. y \in IdempotencyRecords /\ [x EXCEPT !.status = status] = y
    BY <1>1, <1>2, <1>4 DEF IdempotencyRecords
<1>6. record' = [record EXCEPT ![SlotOf(r)] = y]
    BY <1>1, <1>3, <1>5 DEF Mark, RecordTypes
<1> QED
    BY <1>1, <1>4, <1>5, <1>6 DEF RecordTypes

LEMMA CompleteStep == ASSUME IInv, NEW r \in Requests, Complete(r) PROVE IInv'
<1>1. /\ request[r].pc = "completing" /\ Mark(r, "COMPLETED") /\ Ends(r)
      /\ UNCHANGED <<proposal, ran>> /\ UNCHANGED subjectVars
    BY DEF Complete
<1>2. r \in Working /\ SubjectsGoOn
    BY <1>1, AtWork, SubjectsStay DEF States
<1> QED
    BY <1>1, <1>2, MarkIs, EndsStep DEF Leaves

LEMMA MarkUnknownStep == ASSUME IInv, NEW r \in Requests, MarkUnknown(r) PROVE IInv'
<1>1. /\ request[r].pc = "unknown" /\ Mark(r, "UNKNOWN_OUTCOME") /\ Ends(r)
      /\ UNCHANGED <<proposal, ran>> /\ UNCHANGED subjectVars
    BY DEF MarkUnknown
<1>2. r \in Working /\ SubjectsGoOn
    BY <1>1, AtWork, SubjectsStay DEF States
<1> QED
    BY <1>1, <1>2, MarkIs, EndsStep DEF Leaves

LEMMA ReleaseStep == ASSUME IInv, NEW r \in Requests, Release(r) PROVE IInv'
<1>1. /\ request[r].pc = "refused" /\ record' = [record EXCEPT ![SlotOf(r)] = Free] /\ Ends(r)
      /\ UNCHANGED <<proposal, ran>> /\ UNCHANGED subjectVars
    BY DEF Release
<1>2. r \in Working /\ SubjectsGoOn
    BY <1>1, AtWork, SubjectsStay DEF States
<1>3. RequestTypes /\ RecordTypes /\ SlotOf(r) \in Slots
    BY <1>2, SlotIs DEF IInv, TypeInv
<1>4. /\ RecordTypes' /\ record'[SlotOf(r)] = Free
      /\ \A slot \in Slots : slot # SlotOf(r) => record'[slot] = record[slot]
    BY <1>1, <1>3 DEF RecordTypes, IdempotencyRecords
<1> QED
    BY <1>1, <1>2, <1>4, EndsStep DEF Leaves

\* Nothing happens to the records: the process died, or the request had no key.
LEMMA EndsKeepingRecords ==
  ASSUME IInv, NEW r \in Requests, Ends(r), UNCHANGED <<proposal, record, ran>>, SubjectsGoOn
  PROVE  IInv'
<1>1. RecordTypes'
    BY DEF IInv, TypeInv, RecordTypes
<1> QED
    BY <1>1, EndsStep DEF Leaves

LEMMA CrashStep == ASSUME IInv, NEW r \in Requests, Crash(r) PROVE IInv'
  BY EndsKeepingRecords, SubjectsStay DEF Crash

LEMMA ClaimApprovalStep == ASSUME IInv, NEW r \in Requests, ClaimApproval(r) PROVE IInv'
<1>1. /\ request[r].pc = "resolving" /\ Ends(r) /\ UNCHANGED <<proposal, record, ran>>
      /\ Resolves(request[r].about, request[r].status) \/ UNCHANGED subjectVars
    BY DEF ClaimApproval
<1>2. request[r].about \in Approvals /\ request[r].status \in Resolved
    BY <1>1, WorkingIs DEF IInv, TypeInv, Resolutions
<1>3. SubjectsGoOn
    BY <1>1, <1>2, SubjectsResolve, SubjectsStay
<1> QED
    BY <1>1, <1>3, EndsKeepingRecords

-----------------------------------------------------------------------------
(* A proposal is claimed, executed and concluded *)

LEMMA ExecutionStep ==
  ASSUME IInv, RequestTypes', ProposalTypes', SubjectsGoOn, UNCHANGED record, ran' \subseteq Runs, RunsAreOnce',
         NEW r \in Working, NEW p \in Proposals, p = request[r].about, request[r].pc \in Confirmed,
         GoesOn(r), Work(r)', Stays(p),
         \A other \in Proposals : other # p =>
            proposal'[other] = proposal[other] /\ ((\E y \in ran' : y.by = other) <=> \E y \in ran : y.by = other),
         \A s \in Working : (s # r /\ request[s].pc \in Execution) => request[s].about # p,
         proposal'[p].status = "EXECUTING" => request'[r].pc \in Execution \cup {"unknown"}
  PROVE  IInv'
<1>0. /\ TypeInv /\ Works /\ KeysApart /\ ExecutionsApart
      /\ ExecutionsAreBehindAKey /\ CompletedKeysAreDone /\ RunsAreOnce
    BY DEF IInv
<1>1. /\ r \in Requests /\ Working' = Working /\ \A s \in Requests : s # r => request'[s] = request[s]
      /\ request'[r].about = p /\ \A s \in Working : s \in Requests
    BY DEF GoesOn, Working
<1>2. \A other \in Proposals : Stays(other) /\ (other # p => GoesUntouched(other))
    BY DEF Stays, GoesUntouched
<1>3. Works'
  <2>1. ASSUME NEW s \in Working, s # r, request[s].pc \in Execution PROVE GoesUntouched(request[s].about)
    <3>1. request[s].about \in Proposals
        BY <1>0, <2>1 DEF Works, Work, Confirmed
    <3> QED
        BY <1>2, <2>1, <3>1
  <2>2. \A s \in Working : s # r => Work(s)'
      BY <1>1, <1>2, <2>1, OthersWork
  <2> QED
      BY <1>1, <2>2 DEF Works
<1>4. /\ KeysApart' /\ \A s \in Working : SlotOf(s)' = SlotOf(s)
      /\ \A other \in Proposals, slot \in Slots : (other # p /\ Behind(other, slot)) => Behind(other, slot)'
    BY GoesOnKeys
<1>5. ExecutionsApart'
    BY <1>0, <1>1 DEF ExecutionsApart
<1>6. ASSUME proposal'[p].status = "EXECUTING"
      PROVE  \E slot \in Slots : slot[1] = ScopeOf(p)' /\ Behind(p, slot)'
  <2>1. PICK slot \in Slots : slot = SlotOf(r) /\ slot[1] = request[r].scope
      BY <1>0, SlotIs DEF TypeInv
  <2>2. request[r].scope = ScopeOf(p) /\ proposal[p] # None
      BY <1>0 DEF Works, Work
  <2>3. ScopeOf(p)' = ScopeOf(p)
      BY <2>2 DEF ScopeOf, Stays
  <2>4. SlotOf(r)' = slot
      BY <1>4, <2>1
  <2>5. record'[slot] = [status |-> "IN_PROGRESS", content |-> p]
      BY <1>1, <2>4 DEF Work
  <2>6. \A s \in Working' : SlotOf(s)' = slot => s = r
      BY <1>1, <1>4, <2>4 DEF KeysApart
  <2>7. Behind(p, slot)'
      BY <1>6, <2>5, <2>6 DEF Behind
  <2> QED
      BY <2>1, <2>2, <2>3, <2>7
<1>7. ExecutionsAreBehindAKey'
    BY <1>0, <1>2, <1>4, <1>6, ExecutionsStayBehind
<1>8. CompletedKeysAreDone'
    BY <1>0, <1>2, CompletedStay DEF TypeInv
<1>9. TypeInv'
    BY <1>0 DEF TypeInv, RecordTypes, SubjectsGoOn
<1> QED
    BY <1>3, <1>4, <1>5, <1>7, <1>8, <1>9 DEF IInv, SubjectsGoOn

\* A proposal with another status is otherwise the same.
LEMMA StatusMoves ==
  ASSUME ProposalTypes, NEW p \in Proposals, proposal[p] # None, NEW status \in ProposalStatus \ {"NONE"},
         proposal' = [proposal EXCEPT ![p].status = status]
  PROVE  /\ ProposalTypes' /\ proposal'[p].status = status /\ proposal'[p] # None
         /\ proposal'[p].subject = proposal[p].subject /\ proposal'[p].seen = proposal[p].seen
         /\ \A other \in Proposals : other # p => proposal'[other] = proposal[other]
<1>1. PICK row \in Rows : row = proposal[p]
    BY DEF ProposalTypes
<1>2. PICK y : y = [row EXCEPT !.status = status]
    OBVIOUS
<1>3. y \in Rows /\ y.status = status /\ y # None /\ y.subject = row.subject /\ y.seen = row.seen
    BY <1>2 DEF Rows, ProposalRows, None
<1>4. proposal' = [proposal EXCEPT ![p] = y]
    BY <1>1, <1>2
<1> QED
    BY <1>1, <1>3, <1>4 DEF ProposalTypes

LEMMA ClaimProposalStep == ASSUME IInv, NEW r \in Requests, ClaimProposal(r) PROVE IInv'
<1>1. request[r].pc = "claimed" /\ UNCHANGED <<subjectVars, record, ran>>
    BY DEF ClaimProposal
<1>2. TypeInv /\ r \in Working /\ Work(r) /\ request[r] \in Served
    BY <1>1, AtWork DEF IInv, States, Confirmed
<1>3. PICK p \in Proposals : p = request[r].about
    BY <1>1, <1>2 DEF Work, Confirmed
<1>4. proposal[p] # None /\ ~request[r].ok
    BY <1>1, <1>2, <1>3 DEF Work, Confirmed
<1>5. CASE Goto(r, "refused") /\ UNCHANGED proposal
    BY <1>1, <1>5, GotoStep DEF Turn
<1>6. CASE proposal[p].status = "PROPOSED" /\ proposal' = [proposal EXCEPT ![p].status = "EXECUTING"]
           /\ Goto(r, "executing")
  <2>1. /\ ProposalTypes' /\ proposal'[p].status = "EXECUTING" /\ proposal'[p] # None
        /\ proposal'[p].subject = proposal[p].subject /\ proposal'[p].seen = proposal[p].seen
        /\ \A other \in Proposals : other # p => proposal'[other] = proposal[other]
      BY <1>2, <1>4, <1>6, StatusMoves DEF TypeInv, ProposalStatus
  <2>2. /\ RequestTypes' /\ GoesOn(r) /\ request'[r].pc = "executing"
        /\ request'[r].drafts = request[r].drafts /\ request'[r].ok = request[r].ok
      BY <1>2, <1>6, GotoMoves DEF TypeInv, States, Confirmed, Execution
  <2>3. Stays(p) /\ \A other \in Proposals : Stays(other)
      BY <1>6, <2>1 DEF Stays
  <2>4. RunsAreOnce
      BY DEF IInv
  <2>5. ~ \E y \in ran : y.by = p
    <3>1. ASSUME NEW y \in ran, y.by = p PROVE FALSE
        BY <1>6, <2>4, <3>1 DEF RunsAreOnce, Ran
    <3> QED
        BY <3>1
  <2>6. SubjectsGoOn
      BY <1>1, SubjectsStay
  <2>7. RunsAreOnce'
      BY <1>1, <1>2, <2>1, <2>3, <2>4, <2>6, RunsStay DEF SubjectsGoOn
  <2>8. Work(r)'
    <3>1. request[r].drafts \in SUBSET Proposals /\ SlotOf(r)' = SlotOf(r) /\ ScopeOf(p)' = ScopeOf(p)
        BY <1>2, <2>1, <2>2 DEF Served, GoesOn, SlotOf, ScopeOf
    <3>2. \A q \in request[r].drafts : proposal'[q] # None
        BY <1>2, <2>3, <3>1 DEF Work, Stays
    <3> QED
        BY <1>1, <1>2, <1>3, <1>4, <2>1, <2>2, <2>5, <3>1, <3>2 DEF Work, GoesOn, Turn, Confirmed, Execution
  <2>9. \A s \in Working : request[s].pc \in Execution => request[s].about # p
      BY <1>6 DEF IInv, Works, Work
  <2> QED
      BY <1>1, <1>2, <1>3, <2>1, <2>2, <2>3, <2>6, <2>7, <2>8, <2>9, ExecutionStep
         DEF TypeInv, Confirmed, Execution
<1> QED
    BY <1>3, <1>5, <1>6 DEF ClaimProposal

\* What has run has run over versions that pass; what runs now is recorded with the one it passes.
LEMMA RunsGrow ==
  ASSUME TypeInv, RunsAreOnce, UNCHANGED proposal, NEW p \in Proposals, NEW s \in Subjects,
         proposal[p].status = "EXECUTING", proposal[p].subject = s, proposal[p].seen = version[s],
         ~ \E y \in ran : y.by = p,
         ran' = ran \cup {[by |-> p, subject |-> s, version |-> version[s]]},
         \A t \in Subjects : version'[t] \in Nat /\ version[t] <= version'[t], version[s] < version'[s]
  PROVE  RunsAreOnce' /\ ran' \subseteq Runs
<1>1. PICK x : x = [by |-> p, subject |-> s, version |-> version[s]]
    OBVIOUS
<1>2. x \in Runs /\ x.by = p /\ x.subject = s /\ x.version = version[s] /\ ran' = ran \cup {x}
    BY <1>1, ChatAssumption DEF TypeInv, SubjectTypes, Runs
<1>3. Ran(x)'
    BY <1>2 DEF Ran
<1>4. ASSUME NEW y \in ran
      PROVE  Ran(y)' /\ y.by # x.by /\ ~(y.subject = x.subject /\ y.version = x.version)
  <2>1. Ran(y) /\ y.by \in Proposals /\ y.subject \in Subjects /\ y.version \in Nat
      BY DEF TypeInv, RunsAreOnce, Runs
  <2>2. version[y.subject] \in Nat /\ version'[y.subject] \in Nat /\ version[y.subject] <= version'[y.subject]
      BY <2>1, ChatAssumption DEF TypeInv, SubjectTypes
  <2>3. y.version < version[y.subject] /\ y.version < version'[y.subject]
      BY <2>1, <2>2 DEF Ran
  <2>4. Ran(y)'
      BY <2>1, <2>3 DEF Ran
  <2> QED
      BY <1>2, <2>1, <2>3, <2>4
<1>5. \A y, z \in ran' : (y.by = z.by \/ (y.subject = z.subject /\ y.version = z.version)) => y = z
    BY <1>2, <1>4 DEF RunsAreOnce
<1>6. \A q \in Proposals : proposal'[q].status = "EXECUTED" => \E y \in ran' : y.by = q
    BY <1>2 DEF RunsAreOnce
<1> QED
    BY <1>2, <1>3, <1>4, <1>5, <1>6 DEF TypeInv, RunsAreOnce

\* What the effect of a proposal leaves: its run on record, and the subject one version further.
LEMMA EffectIs ==
  ASSUME IInv, NEW p \in Proposals, proposal[p] # None, Valid(p), Effect(p)
  PROVE  /\ proposal[p].subject \in Subjects /\ SubjectsGoOn
         /\ proposal[p].seen = version[proposal[p].subject]
         /\ version[proposal[p].subject] < version'[proposal[p].subject]
         /\ ran' = ran \cup {[by |-> p, subject |-> proposal[p].subject, version |-> version[proposal[p].subject]]}
<1>1. PICK s \in Subjects : s = proposal[p].subject
    BY DEF IInv, TypeInv, ProposalTypes, Rows, ProposalRows
<1>2. version[s] = proposal[p].seen /\ (s \in Tasks => version[s] < MaxVersion)
    BY <1>1 DEF Valid
<1>3. ran' = ran \cup {[by |-> p, subject |-> s, version |-> version[s]]}
    BY <1>1 DEF Effect
<1>4. CASE s \in Tasks /\ version' = [version EXCEPT ![s] = @ + 1] /\ UNCHANGED <<approval, lapsed, settled>>
    BY <1>1, <1>2, <1>3, <1>4, TaskGoesOn
<1>5. CASE s \in Approvals /\ Resolves(s, StatusOf(proposal[p].decision))
    BY <1>1, <1>2, <1>3, <1>5, SubjectsResolve DEF StatusOf, Resolved
<1> QED
    BY <1>1, <1>4, <1>5 DEF Effect

LEMMA ExecuteStep == ASSUME IInv, NEW r \in Requests, Execute(r) PROVE IInv'
<1>1. request[r].pc = "executing" /\ UNCHANGED <<proposal, record>>
    BY DEF Execute
<1>2. TypeInv /\ r \in Working /\ Work(r) /\ request[r] \in Served /\ RunsAreOnce /\ ExecutionsApart
    BY <1>1, AtWork DEF IInv, States, Confirmed, Execution
<1>3. PICK p \in Proposals : p = request[r].about
    BY <1>1, <1>2 DEF Work, Confirmed, Execution
<1>4. /\ proposal[p] # None /\ ~request[r].ok /\ proposal[p].status = "EXECUTING"
      /\ ~ \E y \in ran : y.by = p
    BY <1>1, <1>2, <1>3 DEF Work, Confirmed, Execution
<1>5. \A s \in Working : (s # r /\ request[s].pc \in Execution) => request[s].about # p
    BY <1>1, <1>2, <1>3 DEF ExecutionsApart, Execution
<1>6. ProposalTypes' /\ \A other \in Proposals : Stays(other)
    BY <1>1, <1>2 DEF TypeInv, ProposalTypes, Stays
<1>7. request[r].drafts \in SUBSET Proposals
    BY <1>2 DEF Served
<1>8. ASSUME NEW y \in Served, y.pc \in {"finishing", "unknown"}, y.scope = request[r].scope, y.key = request[r].key,
             y.about = request[r].about, y.drafts = request[r].drafts, Set(r, y), SubjectsGoOn, RunsAreOnce',
             ran' \subseteq Runs, y.pc = "finishing" => (y.ok <=> \E x \in ran' : x.by = p),
             \A other \in Proposals : other # p => ((\E x \in ran' : x.by = other) <=> \E x \in ran : x.by = other)
      PROVE  IInv'
  <2>1. RequestTypes' /\ request'[r] = y /\ GoesOn(r)
      BY <1>2, <1>8, GoingOn DEF TypeInv
  <2>2. SlotOf(r)' = SlotOf(r) /\ ScopeOf(p)' = ScopeOf(p)
      BY <1>1, <2>1 DEF GoesOn, SlotOf, ScopeOf
  <2>3. Work(r)'
      BY <1>1, <1>2, <1>3, <1>4, <1>8, <2>1, <2>2 DEF Work, Turn, Confirmed, Execution
  <2> QED
      BY <1>1, <1>2, <1>3, <1>5, <1>6, <1>8, <2>1, <2>3, ExecutionStep DEF Confirmed, Execution
<1>9. PICK held \in Served : held = request[r]
    BY <1>2
<1>10. ASSUME NEW pc \in {"finishing", "unknown"}, NEW ok \in BOOLEAN,
              NEW y, y = [held EXCEPT !.pc = pc, !.ok = ok]
       PROVE  /\ y \in Served /\ y.pc = pc /\ y.ok = ok /\ y.scope = held.scope /\ y.key = held.key
              /\ y.about = held.about /\ y.drafts = held.drafts
    BY <1>10 DEF Served, States, Confirmed, Execution
<1>11. CASE /\ Valid(p) /\ Effect(p)
            /\ Set(r, [held EXCEPT !.pc = "finishing", !.ok = TRUE]) \/ Goto(r, "unknown")
  <2>1. PICK s \in Subjects : s = proposal[p].subject
      BY <1>4, <1>11, EffectIs
  <2>2. /\ SubjectsGoOn /\ proposal[p].seen = version[s] /\ version[s] < version'[s]
        /\ ran' = ran \cup {[by |-> p, subject |-> s, version |-> version[s]]}
      BY <1>4, <1>11, <2>1, EffectIs
  <2>3. RunsAreOnce' /\ ran' \subseteq Runs
      BY <1>1, <1>2, <1>4, <2>1, <2>2, RunsGrow DEF SubjectsGoOn
  <2>4. /\ \E x \in ran' : x.by = p
        /\ \A other \in Proposals : other # p => ((\E x \in ran' : x.by = other) <=> \E x \in ran : x.by = other)
    <3>1. PICK new : new = [by |-> p, subject |-> s, version |-> version[s]]
        OBVIOUS
    <3>2. new.by = p /\ ran' = ran \cup {new}
        BY <2>2, <3>1
    <3> QED
        BY <3>2
  <2>5. CASE Set(r, [held EXCEPT !.pc = "finishing", !.ok = TRUE])
    <3>1. PICK y : y = [held EXCEPT !.pc = "finishing", !.ok = TRUE]
        OBVIOUS
    <3>2. /\ y \in Served /\ y.pc = "finishing" /\ y.ok = TRUE /\ y.scope = held.scope /\ y.key = held.key
          /\ y.about = held.about /\ y.drafts = held.drafts
        BY <1>10, <3>1
    <3>3. Set(r, y)
        BY <2>5, <3>1
    <3> QED
        BY <1>8, <1>9, <2>2, <2>3, <2>4, <3>2, <3>3
  <2>6. CASE Goto(r, "unknown")
    <3>1. PICK y : y = [held EXCEPT !.pc = "unknown", !.ok = held.ok]
        OBVIOUS
    <3>2. Set(r, y) /\ held.ok \in BOOLEAN
        BY <1>9, <2>6, <3>1 DEF Goto, Set, Served
    <3>3. /\ y \in Served /\ y.pc = "unknown" /\ y.scope = held.scope /\ y.key = held.key
          /\ y.about = held.about /\ y.drafts = held.drafts
        BY <1>10, <3>1, <3>2
    <3> QED
        BY <1>8, <1>9, <2>2, <2>3, <2>4, <3>2, <3>3
  <2> QED
      BY <1>11, <2>5, <2>6
<1>12. ASSUME NEW pc \in {"finishing", "unknown"}, Goto(r, pc), UNCHANGED ran,
              UNCHANGED subjectVars \/ \E a \in Approvals : Resolves(a, "EXPIRED")
       PROVE  IInv'
  <2>1. SubjectsGoOn
      BY <1>12, SubjectsStay, SubjectsResolve DEF Resolved
  <2>2. RunsAreOnce'
      BY <1>1, <1>2, <1>6, <1>12, <2>1, RunsStay DEF SubjectsGoOn
  <2>3. PICK y : y = [held EXCEPT !.pc = pc, !.ok = held.ok]
      OBVIOUS
  <2>4. Set(r, y) /\ held.ok \in BOOLEAN
      BY <1>9, <1>12, <2>3 DEF Goto, Set, Served
  <2>5. /\ y \in Served /\ y.pc = pc /\ y.ok = held.ok /\ y.scope = held.scope /\ y.key = held.key
        /\ y.about = held.about /\ y.drafts = held.drafts
      BY <1>10, <2>3, <2>4
  <2>6. ran' \subseteq Runs
      BY <1>2, <1>12 DEF TypeInv
  <2>7. ~y.ok /\ ~ \E x \in ran' : x.by = p
      BY <1>4, <1>9, <1>12, <2>5
  <2> QED
      BY <1>8, <1>9, <1>12, <2>1, <2>2, <2>4, <2>5, <2>6, <2>7
<1>13. \/ /\ Valid(p) /\ Effect(p)
          /\ Set(r, [held EXCEPT !.pc = "finishing", !.ok = TRUE]) \/ Goto(r, "unknown")
       \/ \E pc \in {"finishing", "unknown"} :
            /\ Goto(r, pc) /\ UNCHANGED ran
            /\ UNCHANGED subjectVars \/ \E a \in Approvals : Resolves(a, "EXPIRED")
    BY <1>2, <1>3, <1>9 DEF Execute, TypeInv, SubjectTypes
<1> QED
    BY <1>11, <1>12, <1>13

LEMMA FinishStep == ASSUME IInv, NEW r \in Requests, Finish(r) PROVE IInv'
<1>1. /\ request[r].pc = "finishing" /\ Goto(r, "completing") /\ UNCHANGED <<subjectVars, record, ran>>
    BY DEF Finish
<1>2. TypeInv /\ r \in Working /\ Work(r) /\ request[r] \in Served /\ RunsAreOnce /\ ExecutionsApart
    BY <1>1, AtWork DEF IInv, States, Confirmed, Execution
<1>3. PICK p \in Proposals : p = request[r].about
    BY <1>1, <1>2 DEF Work, Confirmed, Execution
<1>4. /\ proposal[p] # None /\ proposal[p].status = "EXECUTING"
      /\ request[r].ok <=> \E y \in ran : y.by = p
    BY <1>1, <1>2, <1>3 DEF Work, Confirmed, Execution
<1>5. PICK status \in {"EXECUTED", "FAILED"} : /\ status = (IF request[r].ok THEN "EXECUTED" ELSE "FAILED")
                                               /\ proposal' = [proposal EXCEPT ![p].status = status]
    BY <1>3 DEF Finish
<1>6. /\ ProposalTypes' /\ proposal'[p].status = status /\ proposal'[p] # None
      /\ proposal'[p].subject = proposal[p].subject /\ proposal'[p].seen = proposal[p].seen
      /\ \A other \in Proposals : other # p => proposal'[other] = proposal[other]
  <2>1. status \in ProposalStatus \ {"NONE"}
      BY DEF ProposalStatus
  <2>2. ProposalTypes /\ proposal[p] # None /\ proposal' = [proposal EXCEPT ![p].status = status]
      BY <1>2, <1>4, <1>5 DEF TypeInv
  <2> QED
      BY <2>1, <2>2, StatusMoves
<1>7. \A other \in Proposals : Stays(other)
    BY <1>4, <1>6 DEF Stays
<1>8. /\ RequestTypes' /\ GoesOn(r) /\ request'[r].pc = "completing" /\ request'[r].drafts = request[r].drafts
    BY <1>1, <1>2, GotoMoves DEF TypeInv, States
<1>9. SubjectsGoOn
    BY <1>1, SubjectsStay
<1>10. RunsAreOnce'
  <2>1. \A q \in Proposals :
          (proposal[q].status = "EXECUTING" /\ \E x \in ran : x.by = q) => proposal'[q].status \in {"EXECUTING", "EXECUTED"}
      BY <1>4, <1>5, <1>6
  <2>2. \A q \in Proposals :
          proposal'[q].status = "EXECUTED" => proposal[q].status = "EXECUTED" \/ \E x \in ran : x.by = q
      BY <1>4, <1>5, <1>6
  <2> QED
      BY <1>1, <1>2, <1>7, <1>9, <2>1, <2>2, RunsStay DEF SubjectsGoOn
<1>11. Work(r)'
  <2>1. request[r].drafts \in SUBSET Proposals /\ SlotOf(r)' = SlotOf(r)
      BY <1>2, <1>8 DEF Served, GoesOn, SlotOf
  <2>2. \A q \in request[r].drafts : proposal'[q] # None
      BY <1>2, <1>7, <2>1 DEF Work, Stays
  <2> QED
      BY <1>1, <1>2, <1>3, <1>6, <1>8, <2>1, <2>2 DEF Work, GoesOn, Turn, Confirmed, Execution
<1>12. \A s \in Working : (s # r /\ request[s].pc \in Execution) => request[s].about # p
    BY <1>1, <1>2, <1>3 DEF ExecutionsApart, Execution
<1> QED
    BY <1>1, <1>2, <1>3, <1>6, <1>7, <1>8, <1>9, <1>10, <1>11, <1>12, ExecutionStep
       DEF TypeInv, Confirmed, Execution

-----------------------------------------------------------------------------
(* What happens without the requests under a key *)

LEMMA QuietStep ==
  ASSUME IInv, RequestTypes', ProposalTypes', SubjectsGoOn, UNCHANGED <<record, ran>>,
         Working' = Working, \A s \in Working : request'[s] = request[s],
         \A p \in Proposals : /\ Stays(p)
                              /\ proposal'[p].status = "EXECUTING" <=> proposal[p].status = "EXECUTING"
                              /\ proposal'[p].status = "EXECUTED" <=> proposal[p].status = "EXECUTED"
  PROVE  IInv'
<1>0. /\ TypeInv /\ Works /\ KeysApart /\ ExecutionsApart
      /\ ExecutionsAreBehindAKey /\ CompletedKeysAreDone /\ RunsAreOnce
    BY DEF IInv
<1>1. TypeInv'
    BY <1>0 DEF TypeInv, RecordTypes, SubjectsGoOn
<1>2. \A s \in Working : SlotOf(s)' = SlotOf(s)
    BY DEF SlotOf
<1>3. Works'
  <2>1. ASSUME NEW s \in Working PROVE Work(s)'
    <3>1. Work(s) /\ (request[s].pc \in Execution => request[s].about \in Proposals)
        BY <1>0 DEF Works, Work, Confirmed
    <3> QED
        BY <1>0, <3>1, WorkStays DEF GoesUntouched
  <2> QED
      BY <2>1 DEF Works
<1>4. KeysApart' /\ ExecutionsApart'
    BY <1>0, <1>2 DEF KeysApart, ExecutionsApart
<1>5. \A p \in Proposals, slot \in Slots : Behind(p, slot) => Behind(p, slot)'
    BY <1>2 DEF Behind
<1>6. ExecutionsAreBehindAKey' /\ CompletedKeysAreDone'
    BY <1>0, <1>5, ExecutionsStayBehind, CompletedStay DEF TypeInv
<1>7. RunsAreOnce'
    BY <1>0, RunsStay DEF SubjectsGoOn
<1> QED
    BY <1>1, <1>3, <1>4, <1>6, <1>7 DEF IInv, SubjectsGoOn

LEMMA NobodyMoves ==
  ASSUME IInv, UNCHANGED request
  PROVE  RequestTypes' /\ Working' = Working
  BY DEF IInv, TypeInv, RequestTypes, Working

LEMMA RejectStep == ASSUME IInv, NEW p \in Proposals, Reject(p) PROVE IInv'
<1>1. /\ proposal[p].status = "PROPOSED" /\ proposal' = [proposal EXCEPT ![p].status = "REJECTED"]
      /\ UNCHANGED subjectVars /\ UNCHANGED <<record, request, ran>>
    BY DEF Reject
<1>2. ProposalTypes /\ proposal[p] # None /\ "REJECTED" \in ProposalStatus \ {"NONE"}
    BY <1>1 DEF IInv, TypeInv, None, ProposalStatus
<1>3. /\ ProposalTypes' /\ proposal'[p].status = "REJECTED" /\ proposal'[p] # None
      /\ proposal'[p].subject = proposal[p].subject /\ proposal'[p].seen = proposal[p].seen
      /\ \A other \in Proposals : other # p => proposal'[other] = proposal[other]
    BY <1>1, <1>2, StatusMoves
<1>4. \A other \in Proposals :
        /\ Stays(other)
        /\ proposal'[other].status = "EXECUTING" <=> proposal[other].status = "EXECUTING"
        /\ proposal'[other].status = "EXECUTED" <=> proposal[other].status = "EXECUTED"
    BY <1>1, <1>3 DEF Stays
<1>5. SubjectsGoOn /\ RequestTypes' /\ Working' = Working
    BY <1>1, SubjectsStay, NobodyMoves
<1> QED
    BY <1>1, <1>3, <1>4, <1>5, QuietStep

LEMMA ResolveStep ==
  ASSUME IInv, NEW r \in Requests, NEW a \in Approvals, NEW decision \in Decisions, Resolve(r, a, decision)
  PROVE  IInv'
<1>1. PICK y : y = [pc |-> "resolving", about |-> a,
                    status |-> IF a \in lapsed THEN "EXPIRED" ELSE StatusOf(decision)]
    OBVIOUS
<1>2. y \in Resolutions /\ y.pc = "resolving"
    BY <1>1 DEF Resolutions, Resolved, StatusOf
<1>3. request[r] = Idle /\ Set(r, y) /\ UNCHANGED subjectVars /\ UNCHANGED <<proposal, record, ran>>
    BY <1>1 DEF Resolve
<1>4. RequestTypes' /\ OnlyMoves(r, y)
    BY <1>2, <1>3, SetMoves DEF IInv, TypeInv
<1>5. Working' = Working /\ \A s \in Working : request'[s] = request[s]
    BY <1>2, <1>3, <1>4 DEF OnlyMoves, Working, Idle
<1>6. SubjectsGoOn /\ ProposalTypes'
    BY <1>3, SubjectsStay DEF IInv, TypeInv, ProposalTypes
<1> QED
    BY <1>3, <1>4, <1>5, <1>6, SameProposals, QuietStep

LEMMA LapseStep == ASSUME IInv, NEW a \in Approvals, Lapse(a) PROVE IInv'
<1>1. /\ lapsed' = lapsed \cup {a} /\ UNCHANGED <<version, approval, settled>>
      /\ UNCHANGED <<proposal, record, request, ran>>
    BY DEF Lapse
<1>2. SubjectsGoOn
    BY <1>1, ChatAssumption
       DEF IInv, TypeInv, SubjectTypes, SubjectsGoOn, ApprovalsAreVersioned, ApprovalsSettleOnce
<1>3. ProposalTypes' /\ RequestTypes' /\ Working' = Working
    BY <1>1, NobodyMoves DEF IInv, TypeInv, ProposalTypes
<1> QED
    BY <1>1, <1>2, <1>3, SameProposals, QuietStep

LEMMA RetriedElsewhereStep == ASSUME IInv, NEW t \in Tasks, RetriedElsewhere(t) PROVE IInv'
<1>1. SubjectsGoOn /\ UNCHANGED <<proposal, record, request, ran>>
    BY TaskGoesOn DEF RetriedElsewhere
<1>2. ProposalTypes' /\ RequestTypes' /\ Working' = Working
    BY <1>1, NobodyMoves DEF IInv, TypeInv, ProposalTypes
<1> QED
    BY <1>1, <1>2, SameProposals, QuietStep

-----------------------------------------------------------------------------
(* The invariant *)

LEMMA InitIInv == ASSUME Init PROVE IInv
<1>1. Working = {} /\ RequestTypes
    BY DEF Init, Working, Idle, RequestTypes
<1>2. ProposalTypes /\ RecordTypes /\ ran \subseteq Runs
    BY DEF Init, ProposalTypes, None, RecordTypes, IdempotencyRecords
<1>3. SubjectTypes
    BY ChatAssumption DEF Init, SubjectTypes
<1>4. ApprovalsAreVersioned
    BY DEF Init, ApprovalsAreVersioned, Subjects
<1>5. ApprovalsSettleOnce
    BY DEF Init, ApprovalsSettleOnce
<1>6. Works /\ KeysApart /\ ExecutionsApart
    BY <1>1 DEF Works, KeysApart, ExecutionsApart
<1>7. ExecutionsAreBehindAKey /\ RunsAreOnce
    BY DEF Init, ExecutionsAreBehindAKey, RunsAreOnce
<1>8. CompletedKeysAreDone
    BY DEF Init, CompletedKeysAreDone, Free
<1> QED
    BY <1>1, <1>2, <1>3, <1>4, <1>5, <1>6, <1>7, <1>8 DEF IInv, TypeInv

LEMMA StillIInv == ASSUME IInv, UNCHANGED vars PROVE IInv'
<1>1. UNCHANGED subjectVars /\ UNCHANGED <<proposal, record, request, ran>>
    BY DEF vars
<1>2. SubjectsGoOn
    BY <1>1, SubjectsStay
<1>3. ProposalTypes' /\ RequestTypes' /\ Working' = Working
    BY <1>1, NobodyMoves DEF IInv, TypeInv, ProposalTypes
<1> QED
    BY <1>1, <1>2, <1>3, SameProposals, QuietStep

LEMMA StepIInv == ASSUME IInv, NEW r \in Requests, Step(r) PROVE IInv'
<1>1. CASE \E c \in ToolCalls : AskTools(r, <<c>>)
  <2>1. PICK c \in ToolCalls : AskTools(r, <<c>>)
      BY <1>1
  <2>2. <<c>> \in Seq(ToolCalls) /\ <<c>> # <<>>
      OBVIOUS
  <2> QED
      BY <2>1, <2>2, AskToolsStep
<1>2. CASE \E c, d \in ToolCalls : AskTools(r, <<c, d>>)
  <2>1. PICK c \in ToolCalls, d \in ToolCalls : AskTools(r, <<c, d>>)
      BY <1>2
  <2>2. <<c, d>> \in Seq(ToolCalls) /\ <<c, d>> # <<>>
      OBVIOUS
  <2> QED
      BY <2>1, <2>2, AskToolsStep
<1> QED
    BY <1>1, <1>2, CompleteStep, MarkUnknownStep, ReleaseStep, ReceiveStep, RunToolStep, AnswerStep, FailStep,
       ClaimProposalStep, ExecuteStep, FinishStep, ClaimApprovalStep DEF Step

LEMMA Inductive == ASSUME IInv, [Next]_vars PROVE IInv'
<1>1. CASE Next
    BY <1>1, StepIInv, CrashStep, AskStep, ConfirmStep, ResolveStep, RejectStep, LapseStep, RetriedElsewhereStep
       DEF Next
<1>2. CASE UNCHANGED vars
    BY <1>2, StillIInv
<1> QED
    BY <1>1, <1>2

LEMMA Reached == Spec => []IInv
<1>1. Init => IInv
    BY InitIInv
<1>2. IInv /\ [Next]_vars => IInv'
    BY Inductive
<1> QED
    BY <1>1, <1>2, PTL DEF Spec

-----------------------------------------------------------------------------
(* The theorems *)

(* Every request, proposal, subject and record is of the states the code    *)
(* knows, and a turn keeps within its rounds and its proposals              *)
(* (ceo_chat/service.py), for every number of each.                         *)
THEOREM TypeCorrect == Spec => []TypeOK
<1>1. ASSUME IInv PROVE TypeOK
  <2>1. TypeInv /\ Works
      BY <1>1 DEF IInv
  <2>2. \A p \in Proposals : proposal[p].status = "NONE" \/ proposal[p] \in ProposalRows
      BY <2>1 DEF TypeInv, ProposalTypes, None, Rows
  <2>3. /\ version \in [Subjects -> 0..MaxVersion]
        /\ approval \in [Approvals -> {"PENDING", "APPROVED", "REJECTED", "EXPIRED"}]
        /\ lapsed \subseteq Approvals
      BY <2>1 DEF TypeInv, SubjectTypes, Resolved
  <2>4. ASSUME NEW a \in Approvals PROVE settled[a] \in Seq({"COMMIT", "RELEASE"})
    <3>1. settled[a] \in {<<>>, <<"COMMIT">>, <<"RELEASE">>}
        BY <2>1 DEF TypeInv, SubjectTypes
    <3>2. /\ <<>> \in Seq({"COMMIT", "RELEASE"}) /\ <<"COMMIT">> \in Seq({"COMMIT", "RELEASE"})
          /\ <<"RELEASE">> \in Seq({"COMMIT", "RELEASE"})
        OBVIOUS
    <3> QED
        BY <3>1, <3>2
  <2>5. ASSUME NEW r \in Requests
        PROVE  /\ request[r].pc \in
                     {"idle", "received", "thinking", "tools", "claimed", "executing", "finishing",
                      "completing", "refused", "unknown", "resolving"}
               /\ request[r].pc \in {"thinking", "tools"} =>
                     /\ request[r].rounds <= MaxToolRounds
                     /\ Cardinality(request[r].drafts) <= MaxProposals
    <3>1. CASE r \in Working
      <4>1. Work(r) /\ request[r] \in Served
          BY <2>1, <3>1, SlotIs DEF Works, TypeInv
      <4>2. request[r].pc \in States /\ request[r].rounds <= MaxToolRounds
          BY <4>1, ChatAssumption DEF Served
      <4> QED
          BY <4>1, <4>2 DEF Work, States, Turn, Confirmed, Execution
    <3>2. CASE r \notin Working
        BY <3>2 DEF Working
    <3> QED
        BY <3>1, <3>2
  <2>6. record \in [Slots -> IdempotencyRecords] /\ ran \subseteq [by : Proposals, subject : Subjects, version : Nat]
      BY <2>1 DEF TypeInv, RecordTypes, Runs
  <2> QED
      BY <2>2, <2>3, <2>4, <2>5, <2>6 DEF TypeOK
<1> QED
    BY <1>1, Reached, PTL

(* What the owner confirmed happens at most once and over what he was       *)
(* shown, an approval is settled once and as it was resolved, and the keys  *)
(* say the truth about both: with any number of people, keys, retries and   *)
(* processes that die (ceo_chat/actions.py, api/approvals.py,               *)
(* idempotency/service.py).                                                 *)
THEOREM ConfirmedRunsOnce == Spec => []OnceOnly
<1>1. ASSUME IInv PROVE OnceOnly
  <2>1. RunsAreOnce /\ ApprovalsSettleOnce /\ KeysApart /\ CompletedKeysAreDone /\ ExecutionsAreBehindAKey
      BY <1>1 DEF IInv
  <2>2. ProposalsRunOnce
      BY <2>1 DEF RunsAreOnce, Ran, ProposalsRunOnce
  <2>3. ASSUME NEW p \in Proposals, proposal[p].status = "EXECUTING"
        PROVE  \E k \in Keys : /\ record[<<ScopeOf(p), k>>].status \in {"IN_PROGRESS", "UNKNOWN_OUTCOME"}
                               /\ record[<<ScopeOf(p), k>>].content = p
    <3>1. PICK slot \in Slots : slot[1] = ScopeOf(p) /\ Behind(p, slot)
        BY <2>1, <2>3 DEF ExecutionsAreBehindAKey
    <3>2. PICK k \in Keys : slot = <<ScopeOf(p), k>>
        BY <3>1 DEF Slots
    <3> QED
        BY <3>1, <3>2 DEF Behind
  <2>4. KeysTellTheTruth
      BY <2>1, <2>3 DEF KeysTellTheTruth, KeysApart, CompletedKeysAreDone
  <2> QED
      BY <2>1, <2>2, <2>4 DEF OnceOnly
<1> QED
    BY <1>1, Reached, PTL

=============================================================================
