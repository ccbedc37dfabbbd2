----------------------------- MODULE Regulatory -----------------------------
(***************************************************************************)
(* The legal screening of one product (legal/requirements.py, national.py, *)
(* regulatory.py, service.py).  Which norm applies is declared by people,  *)
(* that it is in force is asked of EUR-Lex and, for a directive, of the    *)
(* BOE, and that the product complies is evidence people bring.            *)
(*                                                                         *)
(* An analysis is not one transaction: it reads the requirements, then it  *)
(* asks the sources about each one, and every answer is committed.  People *)
(* declare, replace and withdraw meanwhile, with a read and a write apart; *)
(* the sources change what they say; checks and evidence get old.          *)
(*                                                                         *)
(* Who holds each fact only limits the confidence of the result, which is  *)
(* left out.  A requirement has the norm, the kind and the scope that the  *)
(* constants give it; the scope is the product's.                          *)
(***************************************************************************)
EXTENDS Integers, FiniteSets

CONSTANTS
    Requirements,   \* the declarations there may be
    Norms,          \* CELEX numbers
    Nationals,      \* BOE identifiers
    NormOf,         \* [requirement -> its norm]
    KindOf,         \* [requirement -> "obligation" or "restriction"]
    Directives,     \* the norms whose CELEX is a directive's
    EuSays,         \* [norm -> what EUR-Lex may say of it]
    NationalSays,   \* [identifier -> what the BOE may say of it]
    Analysts,       \* analyses at a time
    MaxLookups,     \* bound: answers of the sources that are stored
    MaxChanges,     \* bound: writes of people, changes of a source, checks and evidence that age
    MaxReports      \* bound: analyses finished

EuAnswers ==
    [found : BOOLEAN, inForce : {"yes", "no", "unsaid"}, ended : BOOLEAN,
     act : {"regulation", "directive", "other", "unknown"}]

\* A relation of the analysis of a national norm: it says that the norm transposes,
\* wholly or in part, and names this directive, another or nothing that can be read.
Relations == [code : {"transposes", "partially"}, names : {"this", "another", "unclear"}]

NationalAnswers ==
    [consolidated : BOOLEAN, flag : {"none", "ended", "unreadable"},
     consolidation : {"finished", "outdated", "unreadable"}, annulled : BOOLEAN,
     absent : BOOLEAN, relations : SUBSET Relations]

ASSUME RegulatoryAssumption ==
    /\ \A r \in Requirements : NormOf[r] \in Norms
    /\ \A r \in Requirements : KindOf[r] \in {"obligation", "restriction"}
    /\ Directives \subseteq Norms /\ Norms \cap Nationals = {}
    /\ Requirements \cap (Norms \cup Nationals) = {}
    /\ \A n \in Norms : EuSays[n] # {} /\ EuSays[n] \subseteq EuAnswers
    /\ \A t \in Nationals : NationalSays[t] # {} /\ NationalSays[t] \subseteq NationalAnswers
    /\ {MaxLookups, MaxChanges, MaxReports} \subseteq Nat

VARIABLES
    requirement,    \* whether each declaration was made and holds
    transposed,     \* the national norms declared for each requirement and not withdrawn
    everDeclared,   \* the national norms of all the rows, also of the withdrawn ones
    evidence,       \* the evidence of compliance brought for each
    law,            \* what the sources would say now
    anchor,         \* the check of each norm with the latest verified_at
    analysis,       \* where each analysis is
    reports,        \* the legal analyses stored
    seen,           \* what was so at some moment of each analysis (not in the code)
    lookups, changes \* counters of the bounds

transpositions == <<transposed, everDeclared>>
declared == <<requirement, transpositions, evidence>>
checked == <<law, anchor, lookups>>
vars == <<declared, checked, analysis, reports, seen, changes>>

Sources == Norms \cup Nationals
Never == [at |-> 0]
Anchors == [at : 1..MaxLookups, old : BOOLEAN, says : EuAnswers \cup NationalAnswers]
Evidence == {"in_date", "ended"}
Status == {"PASS", "REVIEW_REQUIRED", "BLOCKED", "UNKNOWN"}

Idle == [pc |-> "idle"]

TypeOK ==
    /\ requirement \in [Requirements -> {"none", "active", "superseded", "withdrawn"}]
    /\ transposed \in [Requirements -> SUBSET Nationals]
    /\ \A r \in Requirements : transposed[r] # {} => NormOf[r] \in Directives
    /\ everDeclared \in SUBSET Nationals
    /\ evidence \in [Requirements -> SUBSET Evidence]
    /\ \A n \in Sources : anchor[n] = Never \/ anchor[n] \in Anchors
    /\ \A a \in Analysts : analysis[a].pc \in {"idle", "next", "asked", "evidence", "national"}
    /\ \A a \in Analysts : analysis[a].pc # "idle" =>
          /\ analysis[a].todo \subseteq analysis[a].scope
          /\ analysis[a].findings \in SUBSET Status
    /\ \A report \in reports : report.status \in Status
    /\ lookups \in 0..MaxLookups /\ changes \in 0..MaxChanges

-----------------------------------------------------------------------------
(* What a check says of a norm, and a requirement. *)

Existence(row) ==
    CASE row = Never -> "never_checked"
      [] row # Never /\ row.old -> "stale"
      [] row # Never /\ ~row.old /\ ~row.says.found -> "not_found"
      [] row # Never /\ ~row.old /\ row.says.found /\ row.says.inForce = "unsaid" -> "unverified"
      [] row # Never /\ ~row.old /\ row.says.found /\ row.says.inForce = "no" -> "verified_not_in_force"
      [] row # Never /\ ~row.old /\ row.says.found /\ row.says.inForce = "yes" ->
            IF row.says.ended THEN "source_inconsistent" ELSE "verified_in_force"

\* What is partial prevails; a relation whose text is not clear is not compared.
Corroboration(relations) ==
    LET about == {x \in relations : x.names = "this"}
    IN IF \E x \in about : x.code = "partially" THEN "partial"
       ELSE IF about # {} THEN "corroborated"
       ELSE IF \E x \in relations : x.names = "unclear" THEN "not_assessable"
       ELSE "uncorroborated"

NationalState(row) ==
    IF row = Never THEN "never_checked"
    ELSE IF row.old THEN "stale"
    ELSE IF ~row.says.consolidated THEN "not_consolidated"
    ELSE IF row.says.flag = "ended" THEN "not_in_force"
    ELSE IF row.says.flag = "unreadable" \/ row.says.consolidation = "unreadable" THEN "unverified"
    ELSE IF row.says.consolidation = "outdated" THEN "outdated_consolidation"
    ELSE IF row.says.annulled THEN "relation_flagged"
    ELSE IF row.says.absent THEN "publication_inconsistent"
    ELSE "verified_in_force"

Transposes(row) ==
    /\ NationalState(row) = "verified_in_force"
    /\ Corroboration(row.says.relations) = "corroborated"

Compliance(items) ==
    IF items = {} THEN "none" ELSE IF items = {"ended"} THEN "expired" ELSE "compliant"

\* assess_requirement: `national` is whether each transposition declared is good.
AssessPassingStale(row, kind, items, national) ==
    IF Compliance(items) = "compliant" THEN "PASS"
    ELSE IF kind = "restriction" THEN "BLOCKED" ELSE "REVIEW_REQUIRED"

Assess(row, kind, items, national) ==
    IF \/ Existence(row) # "verified_in_force"
       \/ row.says.act = "directive" /\ (national = {} \/ FALSE \in national)
       \/ row.says.act \in {"other", "unknown"}
    THEN "REVIEW_REQUIRED"
    ELSE IF Compliance(items) = "compliant" THEN "PASS"
    ELSE IF kind = "restriction" THEN "BLOCKED" ELSE "REVIEW_REQUIRED"

\* assess_scope: nothing declared is not nothing required.
ScopeStatus(findings) ==
    IF findings = {} THEN "UNKNOWN"
    ELSE IF "BLOCKED" \in findings THEN "BLOCKED"
    ELSE IF "REVIEW_REQUIRED" \in findings THEN "REVIEW_REQUIRED" ELSE "PASS"

-----------------------------------------------------------------------------
(* What people do: a declaration is not changed, it is replaced.  Every act *)
(* on one reads first that it is active and writes later, with no lock; a   *)
(* declaration is active only once, so what was read active is any declared. *)

Active(r) == requirement[r] = "active"
ReadActive(r) == requirement[r] # "none"
Counted == changes < MaxChanges /\ changes' = changes + 1

Declare(r) ==
    /\ Counted /\ requirement[r] = "none"
    /\ requirement' = [requirement EXCEPT ![r] = "active"]
    /\ UNCHANGED <<transpositions, evidence, checked, analysis, reports>>

Supersede(r, heir) ==
    /\ Counted /\ ReadActive(r) /\ requirement[heir] = "none"
    /\ requirement' = [requirement EXCEPT ![heir] = "active", ![r] = "superseded"]
    /\ UNCHANGED <<transpositions, evidence, checked, analysis, reports>>

Withdraw(r) ==
    /\ Counted /\ ReadActive(r)
    /\ requirement' = [requirement EXCEPT ![r] = "withdrawn"]
    /\ UNCHANGED <<transpositions, evidence, checked, analysis, reports>>

AddEvidence(r) ==
    /\ Counted /\ ReadActive(r)
    /\ evidence' = [evidence EXCEPT ![r] = @ \cup {"in_date"}]
    /\ UNCHANGED <<requirement, transpositions, checked, analysis, reports>>

DeclareForAnyNorm(r, t) ==
    /\ Counted /\ ReadActive(r)
    /\ transposed' = [transposed EXCEPT ![r] = @ \cup {t}]
    /\ everDeclared' = everDeclared \cup {t}
    /\ UNCHANGED <<requirement, evidence, checked, analysis, reports>>

\* Only of a directive.
DeclareTransposition(r, t) ==
    /\ Counted /\ ReadActive(r) /\ NormOf[r] \in Directives
    /\ transposed' = [transposed EXCEPT ![r] = @ \cup {t}]
    /\ everDeclared' = everDeclared \cup {t}
    /\ UNCHANGED <<requirement, evidence, checked, analysis, reports>>

WithdrawTransposition(r, t) ==
    /\ Counted /\ t \in transposed[r]
    /\ transposed' = [transposed EXCEPT ![r] = @ \ {t}]
    /\ UNCHANGED <<requirement, everDeclared, evidence, checked, analysis, reports>>

-----------------------------------------------------------------------------
(* The sources, and time. *)

SourceChanges(n) ==
    /\ Counted
    /\ \E says \in (IF n \in Norms THEN EuSays[n] ELSE NationalSays[n]) \ {law[n]} :
          law' = [law EXCEPT ![n] = says]
    /\ UNCHANGED <<declared, anchor, lookups, analysis, reports>>

\* An analysis tells the time once, when it begins: to it, what ends later is in date.
StillInDate(x) ==
    analysis' = [a \in Analysts |-> IF analysis[a] = Idle THEN Idle
                                    ELSE [analysis[a] EXCEPT !.later = @ \cup {x}]]

CheckGetsOld(n) ==
    /\ Counted
    /\ anchor[n] # Never /\ ~anchor[n].old
    /\ anchor' = [anchor EXCEPT ![n].old = TRUE]
    /\ StillInDate(n)
    /\ UNCHANGED <<declared, law, lookups, reports>>

\* One of the documents; it may be the last in date.
EvidenceEnds(r) ==
    /\ Counted
    /\ "in_date" \in evidence[r]
    /\ evidence' \in {[evidence EXCEPT ![r] = {"ended"}], [evidence EXCEPT ![r] = @ \cup {"ended"}]}
    /\ StillInDate(r)
    /\ UNCHANGED <<requirement, transpositions, checked, reports>>

\* The row with the latest verified_at is the one that counts, whenever it is stored.
Stored(n, row) == IF row.at > anchor[n].at THEN row ELSE anchor[n]

\* verify: somebody asks about the norm of a requirement, or about a national one, whether
\* the declaration still holds or not, and its answer is kept.
Verify(n) ==
    /\ lookups < MaxLookups /\ lookups' = lookups + 1
    /\ n \in everDeclared \/ \E r \in Requirements : requirement[r] # "none" /\ NormOf[r] = n
    /\ anchor' = [anchor EXCEPT ![n] = Stored(n, [at |-> lookups', old |-> FALSE, says |-> law[n]])]
    /\ UNCHANGED <<declared, law, changes, analysis, reports>>

-----------------------------------------------------------------------------
(* The analysis. *)

Set(a, state) == analysis' = [analysis EXCEPT ![a] = state]

Begin(a) ==
    /\ analysis[a] = Idle /\ Cardinality(reports) < MaxReports
    /\ LET scope == {r \in Requirements : Active(r)}
       IN Set(a, [pc |-> "next", scope |-> scope, todo |-> scope, current |-> <<>>, later |-> {},
                  down |-> FALSE, nationalDown |-> FALSE, findings |-> {}])
    /\ UNCHANGED <<declared, checked, changes, reports>>

Fresh(n) == anchor[n] # Never /\ ~anchor[n].old

\* What was the latest check when the analysis began is old only if it was old then.
AsOfBegin(a, n) ==
    IF n \in analysis[a].later /\ anchor[n] # Never THEN [anchor[n] EXCEPT !.old = FALSE] ELSE anchor[n]

Takes(a, r, pc, row, down) ==
    Set(a, [analysis[a] EXCEPT !.pc = pc, !.todo = @ \ {r}, !.down = down,
                               !.current = [of |-> r, row |-> row]])

\* ensure_fresh, up to the answer: a fresh check will do, and after a failure nobody asks.
CheckNorm(a, r) ==
    LET n == NormOf[r]
    IN /\ analysis[a].pc = "next" /\ r \in analysis[a].todo
       /\ \/ /\ Fresh(n) \/ analysis[a].down
             /\ Takes(a, r, "evidence", AsOfBegin(a, n), analysis[a].down)
             /\ UNCHANGED lookups
          \/ /\ ~Fresh(n) /\ ~analysis[a].down
             /\ lookups < MaxLookups /\ lookups' = lookups + 1
             /\ Takes(a, r, "asked", [at |-> lookups', old |-> FALSE, says |-> law[n]], FALSE)
          \/ /\ ~Fresh(n) /\ ~analysis[a].down
             /\ Takes(a, r, "evidence", AsOfBegin(a, n), TRUE)
             /\ UNCHANGED lookups
       /\ UNCHANGED <<declared, law, anchor, changes, reports>>

StoreAnswer(a) ==
    /\ analysis[a].pc = "asked"
    /\ LET x == analysis[a].current
       IN anchor' = [anchor EXCEPT ![NormOf[x.of]] = Stored(NormOf[x.of], x.row)]
    /\ Set(a, [analysis[a] EXCEPT !.pc = "evidence"])
    /\ UNCHANGED <<declared, law, lookups, changes, reports>>

ReadEvidence(a) ==
    /\ analysis[a].pc = "evidence"
    /\ LET r == analysis[a].current.of
           items == evidence[r] \cup (IF r \in analysis[a].later THEN {"in_date"} ELSE {})
       IN Set(a, [analysis[a] EXCEPT !.pc = "national",
                     !.current = [of |-> r, row |-> @.row, items |-> items,
                                  pending |-> transposed[r], national |-> {}]])
    /\ UNCHANGED <<declared, checked, changes, reports>>

\* ensure_fresh_national and assess_transposition, of one of them, by the clock.
CheckNational(a, t) ==
    LET Judged(row, down) ==
            Set(a, [analysis[a] EXCEPT !.current.pending = @ \ {t}, !.nationalDown = down,
                                       !.current.national = @ \cup {Transposes(row)}])
    IN /\ analysis[a].pc = "national" /\ t \in analysis[a].current.pending
       /\ \/ /\ Fresh(t) \/ analysis[a].nationalDown
             /\ Judged(anchor[t], analysis[a].nationalDown) /\ UNCHANGED <<anchor, lookups>>
          \/ /\ ~Fresh(t) /\ ~analysis[a].nationalDown
             /\ lookups < MaxLookups /\ lookups' = lookups + 1
             /\ LET row == [at |-> lookups', old |-> FALSE, says |-> law[t]]
                IN anchor' = [anchor EXCEPT ![t] = Stored(t, row)] /\ Judged(row, FALSE)
          \/ /\ ~Fresh(t) /\ ~analysis[a].nationalDown
             /\ Judged(anchor[t], TRUE) /\ UNCHANGED <<anchor, lookups>>
       /\ UNCHANGED <<declared, law, changes, reports>>

Judge(a) ==
    /\ analysis[a].pc = "national" /\ analysis[a].current.pending = {}
    /\ LET x == analysis[a].current
           status == Assess(x.row, KindOf[x.of], x.items, x.national)
       IN Set(a, [analysis[a] EXCEPT !.pc = "next", !.current = <<>>, !.findings = @ \cup {status}])
    /\ UNCHANGED <<declared, checked, changes, reports>>

Report(a) ==
    /\ analysis[a].pc = "next" /\ analysis[a].todo = {}
    /\ reports' = reports \cup {[status |-> ScopeStatus(analysis[a].findings),
                                 scope |-> analysis[a].scope, seen |-> seen[a]]}
    /\ Set(a, Idle)
    /\ UNCHANGED <<declared, checked, changes>>

-----------------------------------------------------------------------------

InForceSays(says) == says.found /\ says.inForce = "yes" /\ ~says.ended
TransposesSays(says) ==
    /\ says.consolidated /\ says.flag = "none" /\ says.consolidation = "finished"
    /\ ~says.annulled /\ ~says.absent
    /\ \E x \in says.relations : x.names = "this"
    /\ ~\E x \in says.relations : x.names = "this" /\ x.code = "partially"

\* What is so now: what a source would say, or what a check that is not old says.
SourceHolds(n, Says(_)) == Says(law[n]) \/ (Fresh(n) /\ Says(anchor[n].says))
Now ==
    [binding |-> {n \in Norms : SourceHolds(n, InForceSays)},
     national |-> {t \in Nationals : SourceHolds(t, TransposesSays)},
     transposing |-> {p \in Requirements \X Nationals : p[2] \in transposed[p[1]]},
     proven |-> {r \in Requirements : "in_date" \in evidence[r]},
     unproven |-> {r \in Requirements : KindOf[r] = "restriction" /\ "in_date" \notin evidence[r]}]

Nothing == [binding |-> {}, national |-> {}, transposing |-> {}, proven |-> {}, unproven |-> {}]
Adds(past, now) == [f \in DOMAIN past |-> past[f] \cup now[f]]

Watch == seen' = [a \in Analysts |->
                    IF analysis'[a] = Idle THEN Nothing
                    ELSE Adds(seen[a], Now')]

Init ==
    /\ requirement = [r \in Requirements |-> "none"]
    /\ transposed = [r \in Requirements |-> {}] /\ everDeclared = {}
    /\ evidence = [r \in Requirements |-> {}]
    /\ law \in [Sources -> UNION {EuSays[n] : n \in Norms} \cup UNION {NationalSays[t] : t \in Nationals}]
    /\ \A n \in Norms : law[n] \in EuSays[n]
    /\ \A t \in Nationals : law[t] \in NationalSays[t]
    /\ anchor = [n \in Sources |-> Never]
    /\ analysis = [a \in Analysts |-> Idle]
    /\ reports = {} /\ seen = [a \in Analysts |-> Nothing]
    /\ lookups = 0 /\ changes = 0

People ==
    \E r \in Requirements :
        \/ Declare(r) \/ Withdraw(r) \/ AddEvidence(r)
        \/ \E heir \in Requirements : Supersede(r, heir)
        \/ \E t \in Nationals : DeclareTransposition(r, t) \/ WithdrawTransposition(r, t)

World ==
    \/ \E n \in Sources : SourceChanges(n) \/ CheckGetsOld(n) \/ Verify(n)
    \/ \E r \in Requirements : EvidenceEnds(r)

Analyse(a) ==
    \/ Begin(a)
    \/ \E r \in Requirements : CheckNorm(a, r)
    \/ StoreAnswer(a) \/ ReadEvidence(a)
    \/ \E t \in Nationals : CheckNational(a, t)
    \/ Judge(a) \/ Report(a)

Next == (People \/ World \/ \E a \in Analysts : Analyse(a)) /\ Watch

Spec == Init /\ [][Next]_vars

-----------------------------------------------------------------------------
(* A verdict is one that the facts of some moment of its analysis support,  *)
(* for each requirement that held when it began: it passes only over norms  *)
(* that bind, a directive through its transposition, and evidence in date;  *)
(* it blocks only over a restriction that binds and was not proven; and a   *)
(* product for which nobody declared anything neither passes nor is blocked. *)
(* A source that does not answer supports nothing (legal/requirements.py).  *)
Binding(s, r) == NormOf[r] \in s.binding

VerdictsAreGrounded ==
    \A x \in reports :
        /\ x.status = "PASS" =>
              /\ x.scope # {}
              /\ \A r \in x.scope :
                    /\ Binding(x.seen, r) /\ r \in x.seen.proven
                    /\ NormOf[r] \in Directives =>
                          \E t \in x.seen.national : <<r, t>> \in x.seen.transposing
        /\ x.status = "BLOCKED" =>
              \E r \in x.scope :
                  KindOf[r] = "restriction" /\ Binding(x.seen, r) /\ r \in x.seen.unproven
        /\ x.status = "UNKNOWN" <=> x.scope = {}
=============================================================================
