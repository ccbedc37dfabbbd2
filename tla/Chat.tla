-------------------------------- MODULE Chat --------------------------------
(***************************************************************************)
(* The conversation of the owner with the CEO (ceo_chat/service.py), the   *)
(* proposals that come out of it (ceo_chat/actions.py), the approvals they *)
(* may resolve (api/approvals.py) and the idempotency of the requests      *)
(* (idempotency/service.py).                                               *)
(*                                                                         *)
(* A request is a sequence of commits; anything may happen between two,    *)
(* its process may die too.  What a proposal acts on is a subject with a   *)
(* version: the last attempt of a task or the current decision of a        *)
(* mission, which the services check under their own locks, or an approval *)
(* that is pending at version 0 and resolved at version 1.                 *)
(***************************************************************************)
EXTENDS Integers, FiniteSets, Sequences

CONSTANTS
    Requests,       \* what serves requests: one at a time each
    Proposals,      \* the proposals there may be
    Tasks,          \* subjects whose attempts or decisions are numbered
    Approvals,      \* subjects that are resolved once
    Reserved,       \* the approvals with money set aside in the ledger
    Keys,           \* the Idempotency-Keys the client uses
    MaxToolRounds,  \* ceo_chat_max_tool_rounds
    MaxProposals,   \* ceo_chat_max_proposals_per_turn
    MaxVersion,     \* bound: attempts of a task
    MaxServed,      \* bound: requests served
    MaxCrashes      \* bound: processes that die

Subjects == Tasks \cup Approvals

ASSUME ChatAssumption ==
    /\ Tasks \cap Approvals = {} /\ Reserved \subseteq Approvals
    /\ "message" \notin Proposals
    /\ {MaxToolRounds, MaxProposals, MaxVersion, MaxServed, MaxCrashes} \subseteq Nat /\ MaxVersion > 0

VARIABLES
    proposal,       \* ceo_action_proposals
    version,        \* of each subject
    approval,       \* approvals.status
    lapsed,         \* the approvals whose expires_at has passed
    settled,        \* the COMMIT and RELEASE events of each approval
    record,         \* idempotency_records
    request,        \* what each request is doing
    ran,            \* the confirmed actions that took effect: who, and over which version
    served, crashes \* counters of the bounds

subjectVars == <<version, approval, lapsed, settled>>
boundVars == <<served, crashes>>
vars == <<proposal, subjectVars, record, request, ran, boundVars>>

ProposalStatus == {"NONE", "PROPOSED", "EXECUTING", "EXECUTED", "FAILED", "REJECTED"}
Decisions == {"approve", "reject"}
ProposalRows == [status : ProposalStatus, subject : Subjects, seen : Nat, decision : Decisions,
                 answered : BOOLEAN]
ToolCalls == [kind : {"read"}] \cup [kind : {"propose"}, subject : Subjects, decision : Decisions]

\* A key is the client's, of one scope: the route that would do the same; its content is
\* what it was first used for.
Slots == {"ceo.chat", "tasks.retry", "approvals.resolve"} \X Keys
Contents == {"message"} \cup Proposals
Free == [status |-> "FREE"]
IdempotencyRecords ==
    {Free} \cup [status : {"IN_PROGRESS", "COMPLETED", "UNKNOWN_OUTCOME"}, content : Contents]

Idle == [pc |-> "idle"]
Working == {r \in Requests : request[r].pc \notin {"idle", "resolving"}}

TypeOK ==
    /\ \A p \in Proposals : proposal[p].status = "NONE" \/ proposal[p] \in ProposalRows
    /\ version \in [Subjects -> 0..MaxVersion]
    /\ approval \in [Approvals -> {"PENDING", "APPROVED", "REJECTED", "EXPIRED"}]
    /\ lapsed \subseteq Approvals
    /\ \A a \in Approvals : settled[a] \in Seq({"COMMIT", "RELEASE"})
    /\ record \in [Slots -> IdempotencyRecords]
    /\ \A r \in Requests : request[r].pc \in
          {"idle", "received", "thinking", "tools", "claimed", "executing", "finishing",
           "completing", "refused", "unknown", "resolving"}
    /\ \A r \in Requests : request[r].pc \in {"thinking", "tools"} =>
          /\ request[r].rounds <= MaxToolRounds
          /\ Cardinality(request[r].drafts) <= MaxProposals
    /\ ran \subseteq [by : Proposals, subject : Subjects, version : Nat]

Init ==
    /\ proposal = [p \in Proposals |-> [status |-> "NONE"]]
    /\ version = [s \in Subjects |-> 0]
    /\ approval = [a \in Approvals |-> "PENDING"]
    /\ lapsed = {} /\ settled = [a \in Approvals |-> <<>>]
    /\ record = [s \in Slots |-> Free]
    /\ request = [r \in Requests |-> Idle]
    /\ ran = {} /\ served = 0 /\ crashes = 0

Set(r, state) == request' = [request EXCEPT ![r] = state]
Goto(r, pc) == request' = [request EXCEPT ![r].pc = pc]
Ends(r) == Set(r, Idle)

-----------------------------------------------------------------------------
(* Idempotency.  Who finds the key taken is told so, or given the answer    *)
(* kept, and changes nothing.  A simulation may do without a key: then      *)
(* nothing is remembered of the request, which is not modelled.             *)

SlotOf(r) == <<request[r].scope, request[r].key>>

\* What a request is about, where a turn is, and how an execution went.
Received(pc, scope, key, content) ==
    [pc |-> pc, scope |-> scope, key |-> key, about |-> content,
     rounds |-> 0, calls |-> <<>>, drafts |-> {}, ok |-> FALSE]

\* A key that is taken does not stop whoever comes second.
ClaimAnyway(r, scope, key, content, pc) ==
    /\ request[r] = Idle /\ served < MaxServed /\ served' = served + 1
    /\ record' = [record EXCEPT ![<<scope, key>>] = [status |-> "IN_PROGRESS", content |-> content]]
    /\ Set(r, Received(pc, scope, key, content))

Claim(r, scope, key, content, pc) ==
    /\ request[r] = Idle /\ served < MaxServed /\ served' = served + 1
    /\ record[<<scope, key>>] = Free
    /\ record' = [record EXCEPT ![<<scope, key>>] = [status |-> "IN_PROGRESS", content |-> content]]
    /\ Set(r, Received(pc, scope, key, content))

Mark(r, status) ==
    record' = [record EXCEPT ![SlotOf(r)].status = IF @ = "IN_PROGRESS" THEN status ELSE @]

\* complete, mark_unknown and release: the last step of a request with a key.
Complete(r) ==
    /\ request[r].pc = "completing"
    /\ Mark(r, "COMPLETED") /\ Ends(r)
    /\ UNCHANGED <<proposal, subjectVars, ran, boundVars>>

MarkUnknown(r) ==
    /\ request[r].pc = "unknown"
    /\ Mark(r, "UNKNOWN_OUTCOME") /\ Ends(r)
    /\ UNCHANGED <<proposal, subjectVars, ran, boundVars>>

Release(r) ==
    /\ request[r].pc = "refused"
    /\ record' = [record EXCEPT ![SlotOf(r)] = Free]
    /\ Ends(r)
    /\ UNCHANGED <<proposal, subjectVars, ran, boundVars>>

-----------------------------------------------------------------------------
(* A turn of the conversation. *)

Ask(r, key) ==
    /\ Claim(r, "ceo.chat", key, "message", "received")
    /\ UNCHANGED <<proposal, subjectVars, ran, crashes>>

\* The message of the owner is stored and the turn begins, if there is a provider at all.
Receive(r) ==
    /\ request[r].pc = "received"
    /\ Goto(r, "thinking")
    /\ UNCHANGED <<proposal, subjectVars, record, ran, boundVars>>

\* The rounds are not counted.
AskToolsAgain(r, calls) ==
    /\ request[r].pc = "thinking"
    /\ Set(r, [request[r] EXCEPT !.pc = "tools", !.rounds = @ + 1, !.calls = calls])
    /\ UNCHANGED <<proposal, subjectVars, record, ran, boundVars>>

\* The model asks for tools; past the last round the turn stops and says so.
AskTools(r, calls) ==
    /\ request[r].pc = "thinking" /\ request[r].rounds < MaxToolRounds
    /\ Set(r, [request[r] EXCEPT !.pc = "tools", !.rounds = @ + 1, !.calls = calls])
    /\ UNCHANGED <<proposal, subjectVars, record, ran, boundVars>>

Unused == {p \in Proposals : proposal[p].status = "NONE"}

\* draft_*: the action has to be possible now.
Possible(subject) == subject \in Approvals => approval[subject] = "PENDING"

\* One tool, and its commit: a read or a rejected call leaves nothing behind but its message.
RunTool(r) ==
    LET call == Head(request[r].calls)
        rest == [request[r] EXCEPT !.calls = Tail(@),
                                   !.pc = IF Len(request[r].calls) > 1 THEN @ ELSE "thinking"]
        drafts == /\ call.kind = "propose"
                  /\ Cardinality(request[r].drafts) < MaxProposals
                  /\ Possible(call.subject)
    IN /\ request[r].pc = "tools"
       /\ \/ /\ ~drafts
             /\ Set(r, rest) /\ UNCHANGED proposal
          \/ /\ drafts /\ Unused # {}
             /\ LET p == CHOOSE p \in Unused : TRUE
                IN /\ proposal' = [proposal EXCEPT ![p] =
                          [status |-> "PROPOSED", subject |-> call.subject, seen |-> version[call.subject],
                           decision |-> call.decision, answered |-> FALSE]]
                   /\ Set(r, [rest EXCEPT !.drafts = @ \cup {p}])
       /\ UNCHANGED <<subjectVars, record, ran, boundVars>>

\* The answer is stored, whole, cut or a refusal, and the proposals of the turn with it.
Answer(r) ==
    /\ request[r].pc = "thinking"
    /\ proposal' = [p \in Proposals |-> IF p \in request[r].drafts
                                        THEN [proposal[p] EXCEPT !.answered = TRUE] ELSE proposal[p]]
    /\ Goto(r, "completing")
    /\ UNCHANGED <<subjectVars, record, ran, boundVars>>

\* The model is not available: a 503, which releases the key; anything else is unknown.
Fail(r, outcome) ==
    /\ request[r].pc \in {"received", "thinking"}
    /\ Goto(r, outcome)
    /\ UNCHANGED <<proposal, subjectVars, record, ran, boundVars>>

-----------------------------------------------------------------------------
(* What the owner does with a proposal. *)

ScopeOf(p) == IF proposal[p].subject \in Tasks THEN "tasks.retry" ELSE "approvals.resolve"

Confirm(r, key, p) ==
    /\ proposal[p].status # "NONE"
    /\ Claim(r, ScopeOf(p), key, p, "claimed")
    /\ UNCHANGED <<proposal, subjectVars, ran, crashes>>

ClaimUnlessExecuted(r) ==
    LET p == request[r].about
    IN /\ request[r].pc = "claimed"
       /\ \/ /\ proposal[p].status # "EXECUTED"
             /\ proposal' = [proposal EXCEPT ![p].status = "EXECUTING"]
             /\ Goto(r, "executing")
          \/ /\ proposal[p].status = "EXECUTED"
             /\ Goto(r, "refused") /\ UNCHANGED proposal
       /\ UNCHANGED <<subjectVars, record, ran, boundVars>>

\* _claim: one statement, PROPOSED to EXECUTING; whoever comes second is refused.
ClaimProposal(r) ==
    LET p == request[r].about
    IN /\ request[r].pc = "claimed"
       /\ \/ /\ proposal[p].status = "PROPOSED"
             /\ proposal' = [proposal EXCEPT ![p].status = "EXECUTING"]
             /\ Goto(r, "executing")
          \/ /\ proposal[p].status # "PROPOSED"
             /\ Goto(r, "refused") /\ UNCHANGED proposal
       /\ UNCHANGED <<subjectVars, record, ran, boundVars>>

\* _settle_reservation: what this approval has reserved and nobody settled, and nothing else.
Settled(a, event) ==
    IF a \in Reserved /\ settled[a] = <<>> THEN [settled EXCEPT ![a] = Append(@, event)] ELSE settled

EventOf(status) == IF status = "APPROVED" THEN "COMMIT" ELSE "RELEASE"
StatusOf(decision) == IF decision = "approve" THEN "APPROVED" ELSE "REJECTED"

\* The compare-and-set of an approval, with what it settles, in one transaction.
Resolves(a, status) ==
    /\ approval[a] = "PENDING"
    /\ approval' = [approval EXCEPT ![a] = status]
    /\ settled' = Settled(a, EventOf(status))
    /\ version' = [version EXCEPT ![a] = 1]
    /\ UNCHANGED lapsed

ValidWhenDrafted(p) ==
    /\ version[proposal[p].subject] < MaxVersion
    /\ proposal[p].subject \in Approvals => approval[proposal[p].subject] = "PENDING"

\* What the service that executes validates again.
Valid(p) ==
    LET s == proposal[p].subject
    IN /\ version[s] = proposal[p].seen
       /\ s \in Tasks => version[s] < MaxVersion
       /\ s \in Approvals => s \notin lapsed

Effect(p) ==
    LET s == proposal[p].subject
    IN /\ \/ /\ s \in Tasks
             /\ version' = [version EXCEPT ![s] = @ + 1]
             /\ UNCHANGED <<approval, lapsed, settled>>
          \/ s \in Approvals /\ Resolves(s, StatusOf(proposal[p].decision))
       /\ ran' = ran \cup {[by |-> p, subject |-> s, version |-> version[s]]}

\* Done, refused by the domain (which may find that the approval expired), or who knows.
Execute(r) ==
    LET p == request[r].about
        s == proposal[p].subject
    IN /\ request[r].pc = "executing"
       /\ \/ /\ Valid(p) /\ Effect(p)
             /\ \/ Set(r, [request[r] EXCEPT !.pc = "finishing", !.ok = TRUE])
                \/ Goto(r, "unknown")
          \/ /\ ~Valid(p)
             /\ \/ s \in lapsed /\ Resolves(s, "EXPIRED")
                \/ ~(s \in lapsed /\ approval[s] = "PENDING") /\ UNCHANGED subjectVars
             /\ Goto(r, "finishing")
             /\ UNCHANGED ran
          \/ Goto(r, "unknown") /\ UNCHANGED <<subjectVars, ran>>
       /\ UNCHANGED <<proposal, record, boundVars>>

Finish(r) ==
    /\ request[r].pc = "finishing"
    /\ proposal' = [proposal EXCEPT ![request[r].about].status =
                       IF request[r].ok THEN "EXECUTED" ELSE "FAILED"]
    /\ Goto(r, "completing")
    /\ UNCHANGED <<subjectVars, record, ran, boundVars>>

Reject(p) ==
    /\ proposal[p].status = "PROPOSED"
    /\ proposal' = [proposal EXCEPT ![p].status = "REJECTED"]
    /\ UNCHANGED <<subjectVars, record, request, ran, boundVars>>

-----------------------------------------------------------------------------
(* The same approvals through their own route: read, then compare-and-set. *)

Resolve(r, a, decision) ==
    /\ request[r] = Idle /\ served < MaxServed /\ served' = served + 1
    /\ approval[a] = "PENDING"
    /\ Set(r, [pc |-> "resolving", about |-> a,
               status |-> IF a \in lapsed THEN "EXPIRED" ELSE StatusOf(decision)])
    /\ UNCHANGED <<proposal, subjectVars, record, ran, crashes>>

\* Who read PENDING writes what it decided.
ResolveByReading(r) ==
    /\ request[r].pc = "resolving"
    /\ LET a == request[r].about
       IN /\ approval' = [approval EXCEPT ![a] = request[r].status]
          /\ settled' = Settled(a, EventOf(request[r].status))
          /\ version' = [version EXCEPT ![a] = 1]
    /\ Ends(r)
    /\ UNCHANGED <<proposal, lapsed, record, ran, boundVars>>

ClaimApproval(r) ==
    /\ request[r].pc = "resolving"
    /\ \/ Resolves(request[r].about, request[r].status)
       \/ approval[request[r].about] # "PENDING" /\ UNCHANGED subjectVars
    /\ Ends(r)
    /\ UNCHANGED <<proposal, record, ran, boundVars>>

-----------------------------------------------------------------------------
(* What happens elsewhere: time, other people, processes that die. *)

Lapse(a) ==
    /\ a \notin lapsed /\ lapsed' = lapsed \cup {a}
    /\ UNCHANGED <<proposal, version, approval, settled, record, request, ran, boundVars>>

RetriedElsewhere(t) ==
    /\ version[t] < MaxVersion
    /\ version' = [version EXCEPT ![t] = @ + 1]
    /\ UNCHANGED <<proposal, approval, lapsed, settled, record, request, ran, boundVars>>

Crash(r) ==
    /\ request[r] # Idle /\ crashes < MaxCrashes /\ crashes' = crashes + 1
    /\ Ends(r)
    /\ UNCHANGED <<proposal, subjectVars, record, ran, served>>

\* A request in progress goes on.
Step(r) ==
    \/ Complete(r) \/ MarkUnknown(r) \/ Release(r)
    \/ Receive(r) \/ RunTool(r) \/ Answer(r)
    \/ \E c \in ToolCalls : AskTools(r, <<c>>)
    \/ \E c, d \in ToolCalls : AskTools(r, <<c, d>>)
    \/ \E outcome \in {"refused", "unknown"} : Fail(r, outcome)
    \/ ClaimProposal(r) \/ Execute(r) \/ Finish(r)
    \/ ClaimApproval(r)

Next ==
    \/ \E r \in Requests : Step(r) \/ Crash(r)
    \/ \E r \in Requests, k \in Keys : Ask(r, k)
    \/ \E r \in Requests, k \in Keys, p \in Proposals : Confirm(r, k, p)
    \/ \E r \in Requests, a \in Approvals, d \in Decisions : Resolve(r, a, d)
    \/ \E p \in Proposals : Reject(p)
    \/ \E a \in Approvals : Lapse(a)
    \/ \E t \in Tasks : RetriedElsewhere(t)

Spec == Init /\ [][Next]_vars

-----------------------------------------------------------------------------
(* What the owner confirmed happens at most once, over what he was shown,   *)
(* and nothing he did not confirm or that failed or was rejected happens:   *)
(* two proposals made over the same attempt do not both run.                *)
ProposalsRunOnce ==
    /\ \A x, y \in ran : (x.by = y.by \/ (x.subject = y.subject /\ x.version = y.version)) => x = y
    /\ \A x \in ran :
          /\ proposal[x.by].status \in {"EXECUTING", "EXECUTED"}
          /\ proposal[x.by].seen = x.version
    /\ \A p \in Proposals : proposal[p].status = "EXECUTED" => \E x \in ran : x.by = p

(* An approval is settled once and as it was resolved, whoever resolves it  *)
(* first: two people, the chat or the clock (api/approvals.py).             *)
ApprovalsSettleOnce ==
    \A a \in Approvals :
        settled[a] = IF a \in Reserved /\ approval[a] # "PENDING"
                     THEN <<EventOf(approval[a])>> ELSE <<>>

(* Two requests never work under one key; a key that says it is done was    *)
(* used for a proposal that is; and a proposal left EXECUTING is in         *)
(* progress or behind a key that will not run again (idempotency/service.py). *)
KeysTellTheTruth ==
    /\ \A r, s \in Working : r # s => SlotOf(r) # SlotOf(s)
    /\ \A slot \in Slots :
          (record[slot].status = "COMPLETED" /\ record[slot].content \in Proposals) =>
              proposal[record[slot].content].status \in {"EXECUTED", "FAILED"}
    /\ \A p \in Proposals : proposal[p].status = "EXECUTING" =>
          \E k \in Keys : /\ record[<<ScopeOf(p), k>>].status \in {"IN_PROGRESS", "UNKNOWN_OUTCOME"}
                          /\ record[<<ScopeOf(p), k>>].content = p

OnceOnly == ProposalsRunOnce /\ ApprovalsSettleOnce /\ KeysTellTheTruth
=============================================================================
