-------------------------- MODULE Regulatory_proofs --------------------------
(***************************************************************************)
(* What holds of the legal screening for any requirements, norms, sources  *)
(* and analyses.  The inductive invariant follows the evidence of a verdict *)
(* back to the moment it was so: what is so now was seen by every analysis *)
(* under way, what got old under an analysis was seen before it did, and   *)
(* what an analysis has concluded, or holds to conclude, was seen.         *)
(***************************************************************************)
EXTENDS Regulatory, TLAPS

EuRows(n) == [at : 1..MaxLookups, old : BOOLEAN, says : EuSays[n]] \cup {Never}
NationalRows == [at : 1..MaxLookups, old : BOOLEAN, says : NationalAnswers] \cup {Never}

\* A check of the norm of a requirement, and then its evidence and transpositions.
Checks == {x \in [of : Requirements, row : Anchors \cup {Never}] : x.row \in EuRows(NormOf[x.of])}
Cases ==
    {x \in [of : Requirements, row : Anchors \cup {Never}, items : SUBSET Evidence,
            pending : SUBSET Nationals, national : SUBSET BOOLEAN] : x.row \in EuRows(NormOf[x.of])}

Running ==
    [pc : {"next", "asked", "evidence", "national"}, scope : SUBSET Requirements,
     todo : SUBSET Requirements, current : {<<>>} \cup Checks \cup Cases,
     later : SUBSET (Sources \cup Requirements), down : BOOLEAN, nationalDown : BOOLEAN,
     findings : SUBSET Status]

\* What an analysis holds where it is.
Shaped(x) ==
    /\ x.todo \subseteq x.scope
    /\ x.pc = "asked" => x.current \in Checks /\ x.current.row # Never /\ ~x.current.row.old
    /\ x.pc = "evidence" => x.current \in Checks
    /\ x.pc = "national" => x.current \in Cases

Facts ==
    [binding : SUBSET Norms, national : SUBSET Nationals, transposing : SUBSET (Requirements \X Nationals),
     proven : SUBSET Requirements, unproven : SUBSET Requirements]

Under(a) == analysis[a] # Idle

DeclaredTypes ==
    /\ requirement \in [Requirements -> {"none", "active", "superseded", "withdrawn"}]
    /\ transposed \in [Requirements -> SUBSET Nationals]
    /\ \A r \in Requirements : transposed[r] # {} => NormOf[r] \in Directives
    /\ everDeclared \in SUBSET Nationals
    /\ evidence \in [Requirements -> SUBSET Evidence]

CheckedTypes ==
    /\ law \in [Sources -> EuAnswers \cup NationalAnswers]
    /\ \A n \in Norms : law[n] \in EuSays[n]
    /\ \A t \in Nationals : law[t] \in NationalSays[t]
    /\ anchor \in [Sources -> Anchors \cup {Never}]
    /\ \A n \in Norms : anchor[n] \in EuRows(n)
    /\ \A t \in Nationals : anchor[t] \in NationalRows
    /\ lookups \in 0..MaxLookups

AnalysisTypes ==
    /\ analysis \in [Analysts -> Running \cup {Idle}]
    /\ \A a \in Analysts : Under(a) => Shaped(analysis[a])

ReportTypes == \A report \in reports : report.status \in Status

TypeInv ==
    /\ DeclaredTypes /\ CheckedTypes /\ AnalysisTypes /\ ReportTypes
    /\ seen \in [Analysts -> Facts]
    /\ changes \in 0..MaxChanges

\* Whatever was so before is remembered.
Covers(past, now) == \A f \in {"binding", "national", "transposing", "proven", "unproven"} : now[f] \subseteq past[f]

\* What is so now was seen by every analysis under way.
Watched == \A a \in Analysts : Under(a) => Covers(seen[a], Now)

\* What got old during an analysis was seen before it did.
Remembered ==
    \A a \in Analysts : Under(a) =>
        /\ \A n \in Norms \cap analysis[a].later :
             anchor[n] # Never /\ InForceSays(anchor[n].says) => n \in seen[a].binding
        /\ \A r \in Requirements \cap analysis[a].later : r \in seen[a].proven

\* What supports that a requirement passes, and that it blocks.
Passes(s, r) ==
    /\ Binding(s, r) /\ r \in s.proven
    /\ NormOf[r] \in Directives => \E t \in s.national : <<r, t>> \in s.transposing
Blocks(s, r) == KindOf[r] = "restriction" /\ Binding(s, r) /\ r \in s.unproven

\* What an analysis holds of the requirement it is on was seen.
CurrentIsGrounded(x, s) ==
    /\ x.pc # "next" =>
         /\ x.current.of \in x.scope \ x.todo
         /\ Existence(x.current.row) = "verified_in_force" => Binding(s, x.current.of)
    /\ x.pc = "national" =>
         /\ IF Compliance(x.current.items) = "compliant" THEN x.current.of \in s.proven
            ELSE KindOf[x.current.of] = "restriction" => x.current.of \in s.unproven
         /\ \A t \in x.current.pending : <<x.current.of, t>> \in s.transposing
         /\ TRUE \in x.current.national => \E t \in s.national : <<x.current.of, t>> \in s.transposing

\* What it has concluded of each of the others was seen, or a doubt prevails.
FindingsAreGrounded(x, s) ==
    /\ \A r \in x.scope \ x.todo :
         \/ x.pc # "next" /\ r = x.current.of
         \/ "PASS" \in x.findings /\ Passes(s, r)
         \/ x.findings \cap {"BLOCKED", "REVIEW_REQUIRED"} # {}
    /\ "BLOCKED" \in x.findings => \E r \in x.scope : Blocks(s, r)
    /\ x.findings # {} => x.scope # {}
    /\ "UNKNOWN" \notin x.findings

Grounded ==
    \A a \in Analysts : Under(a) =>
        CurrentIsGrounded(analysis[a], seen[a]) /\ FindingsAreGrounded(analysis[a], seen[a])

IInv == TypeInv /\ Watched /\ Remembered /\ Grounded /\ VerdictsAreGrounded

-----------------------------------------------------------------------------
(* What a check says, and what it takes to conclude *)

LEMMA NormSource == ASSUME NEW n \in Norms PROVE n \in Sources /\ n \notin Requirements /\ n \notin Nationals
  BY RegulatoryAssumption DEF Sources

LEMMA NationalSource == ASSUME NEW t \in Nationals PROVE t \in Sources /\ t \notin Norms
  BY RegulatoryAssumption DEF Sources

LEMMA NormOfRequirement == ASSUME NEW r \in Requirements PROVE NormOf[r] \in Norms
  BY RegulatoryAssumption

LEMMA EuRow ==
  ASSUME NEW n \in Norms, NEW row \in EuRows(n), row # Never
  PROVE  /\ row.at \in 1..MaxLookups /\ row.old \in BOOLEAN /\ row.says \in EuSays[n]
         /\ row.says.found \in BOOLEAN /\ row.says.inForce \in {"yes", "no", "unsaid"}
         /\ row.says.ended \in BOOLEAN /\ row.says.act \in {"regulation", "directive", "other", "unknown"}
<1>1. row.at \in 1..MaxLookups /\ row.old \in BOOLEAN /\ row.says \in EuSays[n]
    BY DEF EuRows
<1>2. row.says \in EuAnswers
    BY <1>1, RegulatoryAssumption
<1> QED
    BY <1>1, <1>2 DEF EuAnswers

\* A norm is verified in force by a check that is not old and says it binds.
LEMMA InForceExistence ==
  ASSUME NEW n \in Norms, NEW row \in EuRows(n), Existence(row) = "verified_in_force"
  PROVE  row # Never /\ ~row.old /\ InForceSays(row.says)
<1>1. row # Never
    BY DEF Existence
<1>2. /\ row.old \in BOOLEAN /\ row.says.found \in BOOLEAN /\ row.says.inForce \in {"yes", "no", "unsaid"}
      /\ row.says.ended \in BOOLEAN
    BY <1>1, EuRow
<1>3. ~row.old
    BY <1>1, <1>2 DEF Existence
<1>4. row.says.found
    BY <1>1, <1>2, <1>3 DEF Existence
<1>5. row.says.inForce = "yes"
    BY <1>1, <1>2, <1>3, <1>4 DEF Existence
<1>6. ~row.says.ended
    BY <1>1, <1>2, <1>3, <1>4, <1>5 DEF Existence
<1> QED
    BY <1>1, <1>3, <1>4, <1>5, <1>6 DEF InForceSays

\* A transposition counts by a check that is not old and says it transposes.
LEMMA GoodTransposition ==
  ASSUME NEW row \in NationalRows, Transposes(row)
  PROVE  row # Never /\ ~row.old /\ TransposesSays(row.says)
<1>1. row # Never /\ NationalState(row) = "verified_in_force" /\ Corroboration(row.says.relations) = "corroborated"
    BY DEF Transposes, NationalState
<1>2. /\ row.says.flag \in {"none", "ended", "unreadable"}
      /\ row.says.consolidation \in {"finished", "outdated", "unreadable"}
    BY <1>1 DEF NationalRows, NationalAnswers
<1>3. /\ ~row.old /\ row.says.consolidated /\ row.says.flag = "none" /\ row.says.consolidation = "finished"
      /\ ~row.says.annulled /\ ~row.says.absent
    BY <1>1, <1>2 DEF NationalState
<1>4. /\ \E x \in row.says.relations : x.names = "this"
      /\ ~\E x \in row.says.relations : x.names = "this" /\ x.code = "partially"
    BY <1>1 DEF Corroboration
<1> QED
    BY <1>1, <1>3, <1>4 DEF TransposesSays

LEMMA InDate ==
  ASSUME NEW items \in SUBSET Evidence
  PROVE  Compliance(items) = "compliant" <=> "in_date" \in items
  BY DEF Compliance, Evidence

-----------------------------------------------------------------------------
(* What is so, and what was seen *)

\* EUR-Lex names the directives as such.
SourceNamesDirectives == \A n \in Directives : \A says \in EuSays[n] : says.found => says.act = "directive"

LEMMA NowIsFacts ==
  /\ Now \in Facts
  /\ Now.binding = {n \in Norms : InForceSays(law[n]) \/ (Fresh(n) /\ InForceSays(anchor[n].says))}
  /\ Now.national = {t \in Nationals : TransposesSays(law[t]) \/ (Fresh(t) /\ TransposesSays(anchor[t].says))}
  /\ Now.transposing = {p \in Requirements \X Nationals : p[2] \in transposed[p[1]]}
  /\ Now.proven = {r \in Requirements : "in_date" \in evidence[r]}
  /\ Now.unproven = {r \in Requirements : KindOf[r] = "restriction" /\ "in_date" \notin evidence[r]}
  BY DEF Now, Facts, SourceHolds

LEMMA AddsCovers ==
  ASSUME NEW past \in Facts, NEW now \in Facts
  PROVE  Adds(past, now) \in Facts /\ Covers(Adds(past, now), past) /\ Covers(Adds(past, now), now)
<1>1. DOMAIN past = {"binding", "national", "transposing", "proven", "unproven"}
    BY DEF Facts
<1>2. \A f \in {"binding", "national", "transposing", "proven", "unproven"} :
        Adds(past, now)[f] = past[f] \cup now[f]
    BY <1>1 DEF Adds
<1>3. Adds(past, now) \in Facts
    BY <1>1, <1>2 DEF Adds, Facts
<1> QED
    BY <1>2, <1>3 DEF Covers

LEMMA NothingIsFacts == Nothing \in Facts
  BY DEF Nothing, Facts

\* What a step of Next does to what was seen.
LEMMA SeenGrows ==
  ASSUME TypeInv, Watch
  PROVE  /\ seen' \in [Analysts -> Facts]
         /\ \A a \in Analysts : Under(a)' => Covers(seen'[a], seen[a]) /\ Covers(seen'[a], Now')
<1>1. Now' \in Facts
    BY DEF Now, Facts, SourceHolds
<1>2. \A a \in Analysts : seen[a] \in Facts
    BY DEF TypeInv
<1>3. \A a \in Analysts : seen'[a] = IF analysis'[a] = Idle THEN Nothing ELSE Adds(seen[a], Now')
    BY DEF Watch
<1>4. DOMAIN seen' = Analysts /\ seen' = [a \in Analysts |-> seen'[a]]
    BY DEF Watch
<1>5. \A a \in Analysts : seen'[a] \in Facts
    BY <1>1, <1>2, <1>3, AddsCovers, NothingIsFacts
<1>6. seen' \in [Analysts -> Facts]
    BY <1>4, <1>5
<1> QED
    BY <1>1, <1>2, <1>3, <1>6, AddsCovers DEF Under

LEMMA NowNext ==
  /\ Now'.binding = {n \in Norms : InForceSays(law'[n]) \/ (Fresh(n)' /\ InForceSays(anchor'[n].says))}
  /\ Now'.national = {t \in Nationals : TransposesSays(law'[t]) \/ (Fresh(t)' /\ TransposesSays(anchor'[t].says))}
  /\ Now'.transposing = {p \in Requirements \X Nationals : p[2] \in transposed'[p[1]]}
  /\ Now'.proven = {r \in Requirements : "in_date" \in evidence'[r]}
  /\ Now'.unproven = {r \in Requirements : KindOf[r] = "restriction" /\ "in_date" \notin evidence'[r]}
  BY DEF Now, SourceHolds

\* To be grounded only improves with what is seen.
SameWork(y, x) ==
    /\ y.pc = x.pc /\ y.scope = x.scope /\ y.todo = x.todo
    /\ y.current = x.current /\ y.findings = x.findings

LEMMA CoversFields ==
  ASSUME NEW past, NEW now, Covers(past, now)
  PROVE  /\ now.binding \subseteq past.binding /\ now.national \subseteq past.national
         /\ now.transposing \subseteq past.transposing
         /\ now.proven \subseteq past.proven /\ now.unproven \subseteq past.unproven
  BY DEF Covers

LEMMA SupportStays ==
  ASSUME NEW s, NEW more, Covers(more, s), NEW r
  PROVE  (Passes(s, r) => Passes(more, r)) /\ (Blocks(s, r) => Blocks(more, r))
  BY CoversFields DEF Passes, Blocks, Binding

LEMMA GroundsStay ==
  ASSUME NEW x, NEW y, SameWork(y, x), NEW s, NEW more, Covers(more, s)
  PROVE  /\ CurrentIsGrounded(x, s) => CurrentIsGrounded(y, more)
         /\ FindingsAreGrounded(x, s) => FindingsAreGrounded(y, more)
<1>1. CurrentIsGrounded(x, s) => CurrentIsGrounded(y, more)
    BY CoversFields DEF CurrentIsGrounded, SameWork, Binding
<1>2. FindingsAreGrounded(x, s) => FindingsAreGrounded(y, more)
    BY SupportStays DEF FindingsAreGrounded, SameWork
<1> QED
    BY <1>1, <1>2

\* A norm whose check gets old, and a requirement whose evidence ends, were seen.
Seen(x) ==
    \/ x \in Norms /\ Fresh(x)
    \/ x \in Nationals
    \/ x \in Requirements /\ "in_date" \in evidence[x]

\* What a step may do for what every analysis saw and holds to stay grounded.
LEMMA InvKept ==
  ASSUME TypeInv, Watch, Watched, Remembered, Grounded,
         \A b \in Analysts : Under(b)' =>
            \A x \in analysis'[b].later : Under(b) /\ (x \in analysis[b].later \/ Seen(x)),
         \A n \in Norms : \/ anchor'[n] = anchor[n] \/ Fresh(n)'
                          \/ Fresh(n) /\ anchor'[n].says = anchor[n].says,
         \A b \in Analysts : Under(b)' =>
            \/ Under(b) /\ SameWork(analysis'[b], analysis[b])
            \/ CurrentIsGrounded(analysis'[b], seen'[b]) /\ FindingsAreGrounded(analysis'[b], seen'[b])
  PROVE  Watched' /\ Remembered' /\ Grounded'
<1>1. \A b \in Analysts : Under(b)' => Covers(seen'[b], seen[b]) /\ Covers(seen'[b], Now')
    BY SeenGrows
<1>2. Watched'
    BY <1>1 DEF Watched
<1>3. Grounded'
    BY <1>1, GroundsStay DEF Grounded
<1>4. ASSUME NEW b \in Analysts, Under(b)', NEW n \in Norms, n \in analysis'[b].later,
             anchor'[n] # Never, InForceSays(anchor'[n].says)
      PROVE  n \in seen'[b].binding
  <2>1. CASE Fresh(n)'
    <3>1. n \in Now'.binding
        BY <1>4, <2>1, NowNext
    <3> QED
        BY <1>1, <1>4, <3>1, CoversFields
  <2>2. CASE Fresh(n) /\ anchor'[n].says = anchor[n].says
    <3>1. n \in Now.binding
        BY <1>4, <2>2, NowIsFacts
    <3>2. n \in seen[b].binding
        BY <1>4, <3>1, CoversFields DEF Watched
    <3> QED
        BY <1>1, <1>4, <3>2, CoversFields
  <2>3. CASE anchor'[n] = anchor[n] /\ n \in analysis[b].later /\ Under(b)
    <3>1. n \in seen[b].binding
        BY <1>4, <2>3 DEF Remembered
    <3> QED
        BY <1>1, <1>4, <3>1, CoversFields
  <2>4. n \notin analysis[b].later /\ Under(b) => Fresh(n)
      BY <1>4, NormSource DEF Seen
  <2> QED
      BY <1>4, <2>1, <2>2, <2>3, <2>4
<1>5. ASSUME NEW b \in Analysts, Under(b)', NEW r \in Requirements, r \in analysis'[b].later
      PROVE  r \in seen'[b].proven
  <2>0. r \notin Norms /\ r \notin Nationals
      BY RegulatoryAssumption
  <2>1. r \in seen[b].proven
    <3>1. CASE r \in analysis[b].later
        BY <1>5, <3>1 DEF Remembered
    <3>2. CASE r \notin analysis[b].later
      <4>1. r \in Now.proven
          BY <1>5, <2>0, <3>2, NowIsFacts DEF Seen
      <4> QED
          BY <1>5, <4>1, CoversFields DEF Watched
    <3> QED
        BY <3>1, <3>2
  <2> QED
      BY <1>1, <1>5, <2>1, CoversFields
<1>6. Remembered'
    BY <1>4, <1>5 DEF Remembered
<1> QED
    BY <1>2, <1>3, <1>6

-----------------------------------------------------------------------------
(* People and the sources *)

LEMMA CountedChange == ASSUME TypeInv, Counted PROVE changes' \in 0..MaxChanges
  BY RegulatoryAssumption DEF TypeInv, Counted

LEMMA DeclaredStay == ASSUME TypeInv, UNCHANGED declared PROVE DeclaredTypes'
  BY DEF TypeInv, declared, transpositions, DeclaredTypes

LEMMA CheckedStay == ASSUME TypeInv, UNCHANGED checked PROVE CheckedTypes'
  BY DEF TypeInv, checked, CheckedTypes

\* A step that leaves the analyses and the reports alone.
LEMMA QuietTypes ==
  ASSUME TypeInv, Watch, UNCHANGED <<analysis, reports>>, DeclaredTypes', CheckedTypes',
         changes' \in 0..MaxChanges
  PROVE  TypeInv'
  BY SeenGrows DEF TypeInv, AnalysisTypes, ReportTypes, Under

\* A step after which every check is the same, fresh or the same and old.
LEMMA QuietStep ==
  ASSUME IInv, Watch, UNCHANGED <<analysis, reports>>, TypeInv',
         \A n \in Norms : anchor'[n] = anchor[n] \/ Fresh(n)'
  PROVE  IInv'
<1>0. TypeInv /\ Watched /\ Remembered /\ Grounded /\ VerdictsAreGrounded
    BY DEF IInv
<1>2. \A b \in Analysts : Under(b)' => Under(b) /\ SameWork(analysis'[b], analysis[b])
    BY DEF Under, SameWork
<1>3. \A b \in Analysts : Under(b)' => \A x \in analysis'[b].later : Under(b) /\ x \in analysis[b].later
    BY DEF Under
<1>4. Watched' /\ Remembered' /\ Grounded'
    BY <1>0, <1>2, <1>3, InvKept
<1>5. VerdictsAreGrounded'
    BY <1>0 DEF VerdictsAreGrounded
<1> QED
    BY <1>4, <1>5 DEF IInv

LEMMA PeopleTypes == ASSUME TypeInv, Watch, People PROVE TypeInv' /\ UNCHANGED <<anchor, analysis, reports>>
<1>0. DeclaredTypes /\ CheckedTypes
    BY DEF TypeInv
<1> USE RegulatoryAssumption
<1>1. PICK r \in Requirements :
        \/ Declare(r) \/ Withdraw(r) \/ AddEvidence(r)
        \/ \E heir \in Requirements : Supersede(r, heir)
        \/ \E t \in Nationals : DeclareTransposition(r, t) \/ WithdrawTransposition(r, t)
    BY DEF People
<1>2. Counted /\ UNCHANGED <<checked, analysis, reports>>
    BY <1>1 DEF Declare, Withdraw, AddEvidence, Supersede, DeclareTransposition, WithdrawTransposition
<1>3. DeclaredTypes'
  <2>1. CASE Declare(r) \/ Withdraw(r) \/ \E heir \in Requirements : Supersede(r, heir)
    <3>1. requirement' \in [Requirements -> {"none", "active", "superseded", "withdrawn"}]
        BY <1>0, <2>1 DEF DeclaredTypes, Declare, Withdraw, Supersede
    <3>2. UNCHANGED <<transposed, everDeclared, evidence>>
        BY <2>1 DEF Declare, Withdraw, Supersede, transpositions
    <3> QED
        BY <1>0, <3>1, <3>2 DEF DeclaredTypes
  <2>2. CASE AddEvidence(r)
    <3>1. evidence' \in [Requirements -> SUBSET Evidence] /\ UNCHANGED <<requirement, transposed, everDeclared>>
        BY <1>0, <2>2 DEF DeclaredTypes, AddEvidence, Evidence, transpositions
    <3> QED
        BY <1>0, <3>1 DEF DeclaredTypes
  <2>3. CASE \E t \in Nationals : DeclareTransposition(r, t) \/ WithdrawTransposition(r, t)
    <3>1. PICK t \in Nationals : DeclareTransposition(r, t) \/ WithdrawTransposition(r, t)
        BY <2>3
    <3>2. PICK norms \in SUBSET Nationals :
            /\ transposed' = [transposed EXCEPT ![r] = norms] /\ (norms = {} \/ NormOf[r] \in Directives)
        BY <1>0, <3>1 DEF DeclaredTypes, DeclareTransposition, WithdrawTransposition
    <3>3. UNCHANGED <<requirement, evidence>>
        BY <3>1 DEF DeclareTransposition, WithdrawTransposition
    <3>4. everDeclared' \in SUBSET Nationals
        BY <1>0, <3>1 DEF DeclaredTypes, DeclareTransposition, WithdrawTransposition
    <3> QED
        BY <1>0, <3>2, <3>3, <3>4 DEF DeclaredTypes
  <2> QED
      BY <1>1, <2>1, <2>2, <2>3
<1> QED
    BY <1>2, <1>3, CountedChange, CheckedStay, QuietTypes DEF checked

LEMMA SourceChangesTypes ==
  ASSUME TypeInv, Watch, NEW n \in Sources, SourceChanges(n)
  PROVE  TypeInv' /\ UNCHANGED <<anchor, analysis, reports>>
<1>0. DeclaredTypes /\ CheckedTypes
    BY DEF TypeInv
<1>1. PICK says : /\ says \in (IF n \in Norms THEN EuSays[n] ELSE NationalSays[n])
                  /\ law' = [law EXCEPT ![n] = says]
    BY DEF SourceChanges
<1>2. /\ \A k \in Norms : law'[k] \in EuSays[k]
      /\ \A t \in Nationals : law'[t] \in NationalSays[t]
    BY <1>0, <1>1, NormSource, NationalSource DEF CheckedTypes
<1>3. says \in EuAnswers \cup NationalAnswers
    BY <1>1, RegulatoryAssumption DEF Sources
<1>4. law' \in [Sources -> EuAnswers \cup NationalAnswers]
    BY <1>0, <1>1, <1>3 DEF CheckedTypes
<1>5. Counted /\ UNCHANGED <<declared, anchor, lookups, analysis, reports>>
    BY DEF SourceChanges
<1>6. CheckedTypes'
    BY <1>0, <1>2, <1>4, <1>5 DEF CheckedTypes
<1> QED
    BY <1>5, <1>6, DeclaredStay, CountedChange, QuietTypes

-----------------------------------------------------------------------------
(* Time: a check, or evidence, gets old under the analyses *)

\* Every analysis under way goes on as it was, and what got old is in date to it.
LEMMA StillInDateMoves ==
  ASSUME TypeInv, NEW x \in Sources \cup Requirements, StillInDate(x)
  PROVE  /\ AnalysisTypes'
         /\ \A b \in Analysts : Under(b)' =>
              /\ Under(b) /\ SameWork(analysis'[b], analysis[b])
              /\ analysis'[b].later = analysis[b].later \cup {x}
<1>1. \A b \in Analysts : analysis[b] \in Running \cup {Idle} /\ (Under(b) => Shaped(analysis[b]))
    BY DEF TypeInv, AnalysisTypes
<1>2. /\ analysis' = [b \in Analysts |-> analysis'[b]]
      /\ \A b \in Analysts : analysis'[b] = IF analysis[b] = Idle THEN Idle
                                            ELSE [analysis[b] EXCEPT !.later = @ \cup {x}]
    BY DEF StillInDate
<1>3. ASSUME NEW b \in Analysts, Under(b)
      PROVE  /\ analysis'[b] \in Running /\ SameWork(analysis'[b], analysis[b])
             /\ analysis'[b].later = analysis[b].later \cup {x}
  <2>1. analysis[b] \in Running /\ analysis'[b] = [analysis[b] EXCEPT !.later = @ \cup {x}]
      BY <1>1, <1>2, <1>3 DEF Under
  <2> QED
      BY <2>1 DEF Running, SameWork
<1>4. \A b \in Analysts : Under(b)' => Under(b)
    BY <1>2 DEF Under
<1>5. \A b \in Analysts : analysis'[b] \in Running \cup {Idle}
    BY <1>2, <1>3 DEF Under
<1>6. \A b \in Analysts : Under(b)' => Shaped(analysis'[b])
    BY <1>1, <1>3, <1>4 DEF Shaped, SameWork
<1>7. AnalysisTypes'
    BY <1>2, <1>5, <1>6 DEF AnalysisTypes
<1> QED
    BY <1>3, <1>4, <1>7

LEMMA CheckGetsOldTypes ==
  ASSUME TypeInv, Watch, NEW n \in Sources, CheckGetsOld(n)
  PROVE  /\ TypeInv'
         /\ \A k \in Norms : \/ anchor'[k] = anchor[k]
                             \/ Fresh(k) /\ anchor'[k].says = anchor[k].says
<1>0. CheckedTypes /\ n \in Sources
    BY DEF TypeInv
<1>1. /\ anchor[n] # Never /\ ~anchor[n].old /\ anchor' = [anchor EXCEPT ![n].old = TRUE]
      /\ Counted /\ StillInDate(n) /\ UNCHANGED <<declared, law, lookups, reports>>
    BY DEF CheckGetsOld
<1>2. anchor[n] \in Anchors
    BY <1>0, <1>1 DEF CheckedTypes
<1>3. PICK row \in Anchors : row = [anchor[n] EXCEPT !.old = TRUE]
    BY <1>2 DEF Anchors
<1>4. row.says = anchor[n].says /\ row.at = anchor[n].at /\ row.old = TRUE
    BY <1>2, <1>3 DEF Anchors
<1>5. /\ anchor' \in [Sources -> Anchors \cup {Never}]
      /\ anchor'[n] = row /\ \A k \in Sources : k # n => anchor'[k] = anchor[k]
    BY <1>0, <1>1, <1>3 DEF CheckedTypes
<1>6. \A k \in Norms : anchor'[k] \in EuRows(k)
  <2>1. ASSUME n \in Norms PROVE row \in EuRows(n)
    <3>1. anchor[n].says \in EuSays[n]
        BY <1>0, <1>1, <2>1, EuRow DEF CheckedTypes
    <3> QED
        BY <1>3, <1>4, <3>1 DEF EuRows, Anchors
  <2> QED
      BY <1>0, <1>5, <2>1, NormSource DEF CheckedTypes
<1>7. \A t \in Nationals : anchor'[t] \in NationalRows
  <2>1. ASSUME n \in Nationals PROVE row \in NationalRows
    <3>1. anchor[n].says \in NationalAnswers
        BY <1>0, <1>1, <2>1 DEF CheckedTypes, NationalRows
    <3> QED
        BY <1>3, <1>4, <3>1 DEF NationalRows, Anchors
  <2> QED
      BY <1>0, <1>5, <2>1, NationalSource DEF CheckedTypes
<1>8. CheckedTypes'
    BY <1>0, <1>1, <1>5, <1>6, <1>7 DEF CheckedTypes
<1>9. DeclaredTypes' /\ changes' \in 0..MaxChanges /\ AnalysisTypes' /\ ReportTypes'
    BY <1>1, DeclaredStay, CountedChange, StillInDateMoves DEF TypeInv, ReportTypes
<1>10. TypeInv'
    BY <1>8, <1>9, SeenGrows DEF TypeInv
<1> QED
    BY <1>1, <1>4, <1>5, <1>10, NormSource DEF Fresh

LEMMA EvidenceEndsTypes ==
  ASSUME TypeInv, Watch, NEW r \in Requirements, EvidenceEnds(r)
  PROVE  TypeInv'
<1>1. /\ UNCHANGED <<requirement, transposed, everDeclared, checked, reports>> /\ Counted /\ StillInDate(r)
      /\ evidence' \in {[evidence EXCEPT ![r] = {"ended"}], [evidence EXCEPT ![r] = @ \cup {"ended"}]}
    BY DEF EvidenceEnds, transpositions
<1>2. evidence' \in [Requirements -> SUBSET Evidence]
    BY <1>1 DEF TypeInv, DeclaredTypes, Evidence
<1>3. DeclaredTypes'
    BY <1>1, <1>2 DEF TypeInv, DeclaredTypes
<1>4. CheckedTypes' /\ changes' \in 0..MaxChanges /\ AnalysisTypes' /\ ReportTypes'
    BY <1>1, CheckedStay, CountedChange, StillInDateMoves DEF TypeInv, ReportTypes
<1> QED
    BY <1>3, <1>4, SeenGrows DEF TypeInv

\* An answer is stored over a check unless the check is later.
LEMMA StoredTypes ==
  ASSUME TypeInv, NEW n \in Sources, NEW row \in Anchors, ~row.old,
         n \in Norms => row \in EuRows(n), n \in Nationals => row \in NationalRows,
         anchor' = [anchor EXCEPT ![n] = Stored(n, row)], UNCHANGED law, lookups' \in 0..MaxLookups
  PROVE  /\ CheckedTypes'
         /\ \A k \in Norms : anchor'[k] = anchor[k] \/ Fresh(k)'
<1>0. CheckedTypes
    BY DEF TypeInv
<1>1. /\ anchor'[n] \in {row, anchor[n]} /\ \A k \in Sources : k # n => anchor'[k] = anchor[k]
      /\ anchor' \in [Sources -> Anchors \cup {Never}]
    BY <1>0 DEF CheckedTypes, Stored
<1>2. row # Never
    BY DEF Anchors, Never
<1>3. \A k \in Norms : anchor'[k] \in EuRows(k)
    BY <1>0, <1>1, NormSource DEF CheckedTypes
<1>4. \A t \in Nationals : anchor'[t] \in NationalRows
    BY <1>0, <1>1, NationalSource DEF CheckedTypes
<1>5. CheckedTypes'
    BY <1>0, <1>1, <1>3, <1>4 DEF CheckedTypes
<1> QED
    BY <1>1, <1>2, <1>5, NormSource DEF Fresh

\* The answer of a source, now.
LEMMA AnswerNow ==
  ASSUME TypeInv, lookups < MaxLookups, lookups' = lookups + 1, NEW n \in Sources,
         NEW row, row = [at |-> lookups', old |-> FALSE, says |-> law[n]]
  PROVE  /\ lookups' \in 0..MaxLookups
         /\ row \in Anchors /\ ~row.old /\ row.says = law[n] /\ row # Never
         /\ n \in Norms => row \in EuRows(n)
         /\ n \in Nationals => row \in NationalRows
<1>1. lookups' \in 1..MaxLookups
    BY RegulatoryAssumption DEF TypeInv, CheckedTypes
<1>2. law[n] \in EuAnswers \cup NationalAnswers
    BY DEF TypeInv, CheckedTypes
<1>3. row \in Anchors /\ row # Never
    BY <1>1, <1>2 DEF Anchors, Never
<1>4. n \in Norms => row \in EuRows(n)
    BY <1>1 DEF TypeInv, CheckedTypes, EuRows
<1>5. n \in Nationals => row \in NationalRows
    BY <1>1, RegulatoryAssumption DEF TypeInv, CheckedTypes, NationalRows
<1> QED
    BY <1>1, <1>3, <1>4, <1>5

LEMMA VerifyTypes ==
  ASSUME TypeInv, Watch, NEW n \in Sources, Verify(n)
  PROVE  /\ TypeInv' /\ UNCHANGED <<analysis, reports>>
         /\ \A k \in Norms : anchor'[k] = anchor[k] \/ Fresh(k)'
<1>1. /\ lookups < MaxLookups /\ lookups' = lookups + 1
      /\ anchor' = [anchor EXCEPT ![n] = Stored(n, [at |-> lookups', old |-> FALSE, says |-> law[n]])]
      /\ UNCHANGED <<declared, law, changes, analysis, reports>>
    BY DEF Verify
<1>2. PICK row : row = [at |-> lookups', old |-> FALSE, says |-> law[n]]
    OBVIOUS
<1>3. CheckedTypes' /\ \A k \in Norms : anchor'[k] = anchor[k] \/ Fresh(k)'
    BY <1>1, <1>2, AnswerNow, StoredTypes
<1> QED
    BY <1>1, <1>3, DeclaredStay, QuietTypes DEF TypeInv

LEMMA WorldTypes == ASSUME TypeInv, Watch, World PROVE TypeInv'
  BY SourceChangesTypes, CheckGetsOldTypes, VerifyTypes, EvidenceEndsTypes DEF World

LEMMA WorldStep == ASSUME IInv, Watch, World PROVE IInv'
<1>0. TypeInv /\ Watched /\ Remembered /\ Grounded /\ VerdictsAreGrounded /\ TypeInv'
    BY WorldTypes DEF IInv
<1>1. CASE \E n \in Sources : SourceChanges(n) \/ Verify(n)
    BY <1>0, <1>1, SourceChangesTypes, VerifyTypes, QuietStep
<1>2. ASSUME NEW x \in Sources \cup Requirements, StillInDate(x), Seen(x), UNCHANGED reports,
             \A k \in Norms : \/ anchor'[k] = anchor[k]
                              \/ Fresh(k) /\ anchor'[k].says = anchor[k].says
      PROVE  IInv'
  <2>1. \A b \in Analysts : Under(b)' =>
          /\ Under(b) /\ SameWork(analysis'[b], analysis[b])
          /\ analysis'[b].later = analysis[b].later \cup {x}
      BY <1>0, <1>2, StillInDateMoves
  <2>2. Watched' /\ Remembered' /\ Grounded'
      BY <1>0, <1>2, <2>1, InvKept
  <2>3. VerdictsAreGrounded'
      BY <1>0, <1>2 DEF VerdictsAreGrounded
  <2> QED
      BY <1>0, <2>2, <2>3 DEF IInv
<1>3. CASE \E n \in Sources : CheckGetsOld(n)
  <2>1. PICK n \in Sources : CheckGetsOld(n)
      BY <1>3
  <2>2. StillInDate(n) /\ Seen(n) /\ UNCHANGED reports
      BY <2>1 DEF CheckGetsOld, Seen, Fresh, Sources
  <2> QED
      BY <1>0, <1>2, <2>1, <2>2, CheckGetsOldTypes
<1>4. CASE \E r \in Requirements : EvidenceEnds(r)
  <2>1. PICK r \in Requirements : EvidenceEnds(r)
      BY <1>4
  <2>2. StillInDate(r) /\ Seen(r) /\ UNCHANGED <<anchor, reports>>
      BY <2>1 DEF EvidenceEnds, Seen, checked
  <2> QED
      BY <1>2, <2>1, <2>2
<1> QED
    BY <1>1, <1>3, <1>4 DEF World

-----------------------------------------------------------------------------
(* The analysis: what each step makes of what it holds *)

\* One analysis goes on, with y; the others are where they were.
LEMMA OneMoves ==
  ASSUME TypeInv, Watch, NEW a \in Analysts, NEW y \in Running, Shaped(y), Set(a, y),
         UNCHANGED <<declared, changes, reports>>, CheckedTypes'
  PROVE  /\ TypeInv' /\ analysis'[a] = y /\ Under(a)'
         /\ \A b \in Analysts : b # a => analysis'[b] = analysis[b]
<1>1. /\ analysis' \in [Analysts -> Running \cup {Idle}]
      /\ analysis'[a] = y /\ \A b \in Analysts : b # a => analysis'[b] = analysis[b]
    BY DEF TypeInv, AnalysisTypes, Set
<1>2. y # Idle
    BY DEF Running, Idle
<1>3. AnalysisTypes'
    BY <1>1, <1>2 DEF TypeInv, AnalysisTypes, Under
<1>4. DeclaredTypes' /\ ReportTypes' /\ changes' \in 0..MaxChanges
    BY DeclaredStay DEF TypeInv, ReportTypes
<1> QED
    BY <1>1, <1>2, <1>3, <1>4, SeenGrows DEF TypeInv, Under

\* The invariant holds after it when what the analysis now holds was seen.
LEMMA OneStep ==
  ASSUME IInv, Watch, TypeInv', UNCHANGED reports, NEW a \in Analysts,
         \A b \in Analysts : b # a => analysis'[b] = analysis[b],
         Under(a)' => \A x \in analysis'[a].later : Under(a) /\ x \in analysis[a].later,
         \A k \in Norms : anchor'[k] = anchor[k] \/ Fresh(k)',
         Under(a)' => CurrentIsGrounded(analysis'[a], seen'[a]) /\ FindingsAreGrounded(analysis'[a], seen'[a])
  PROVE  IInv'
<1>0. TypeInv /\ Watched /\ Remembered /\ Grounded /\ VerdictsAreGrounded
    BY DEF IInv
<1>1. \A b \in Analysts : b # a => (Under(b)' => Under(b) /\ SameWork(analysis'[b], analysis[b]))
    BY DEF Under, SameWork
<1>2. \A b \in Analysts : Under(b)' => \A x \in analysis'[b].later : Under(b) /\ x \in analysis[b].later
    BY <1>1 DEF Under
<1>3. Watched' /\ Remembered' /\ Grounded'
    BY <1>0, <1>1, <1>2, InvKept
<1>4. VerdictsAreGrounded'
    BY <1>0 DEF VerdictsAreGrounded
<1> QED
    BY <1>3, <1>4 DEF IInv

LEMMA Idles ==
  ASSUME TypeInv, NEW a \in Analysts
  PROVE  /\ Under(a) => analysis[a] \in Running /\ Shaped(analysis[a]) /\ analysis[a].pc # "idle"
         /\ ~Under(a) => analysis[a].pc = "idle"
  BY DEF TypeInv, AnalysisTypes, Under, Running, Idle

LEMMA BeginMoves ==
  ASSUME TypeInv, Watch, NEW a \in Analysts, Begin(a)
  PROVE  /\ TypeInv' /\ Under(a)' /\ UNCHANGED <<anchor, reports>>
         /\ \A b \in Analysts : b # a => analysis'[b] = analysis[b]
         /\ analysis'[a].pc = "next" /\ analysis'[a].scope = analysis'[a].todo
         /\ analysis'[a].later = {} /\ analysis'[a].findings = {}
<1>1. PICK scope \in SUBSET Requirements : scope = {r \in Requirements : Active(r)}
    OBVIOUS
<1>2. PICK y : y = [pc |-> "next", scope |-> scope, todo |-> scope, current |-> <<>>, later |-> {},
                    down |-> FALSE, nationalDown |-> FALSE, findings |-> {}]
    OBVIOUS
<1>3. y \in Running /\ Shaped(y)
    BY <1>2 DEF Running, Shaped
<1>4. Set(a, y) /\ UNCHANGED <<declared, checked, changes, reports>>
    BY <1>1, <1>2 DEF Begin
<1>5. CheckedTypes'
    BY <1>4, CheckedStay
<1>6. /\ TypeInv' /\ analysis'[a] = y /\ Under(a)'
      /\ \A b \in Analysts : b # a => analysis'[b] = analysis[b]
    BY <1>3, <1>4, <1>5, OneMoves
<1> QED
    BY <1>2, <1>4, <1>6 DEF checked

\* An analysis takes a requirement with a check of its norm, or an answer on the way.
LEMMA TakesMoves ==
  ASSUME TypeInv, Watch, NEW a \in Analysts, NEW r \in Requirements, NEW pc \in {"asked", "evidence"},
         NEW row \in EuRows(NormOf[r]), row \in Anchors \cup {Never}, NEW down \in BOOLEAN,
         pc = "asked" => row # Never /\ ~row.old,
         Under(a), r \in analysis[a].todo, Takes(a, r, pc, row, down),
         UNCHANGED <<declared, changes, reports>>, CheckedTypes'
  PROVE  /\ TypeInv' /\ Under(a)'
         /\ \A b \in Analysts : b # a => analysis'[b] = analysis[b]
         /\ analysis'[a].pc = pc /\ analysis'[a].todo = analysis[a].todo \ {r}
         /\ analysis'[a].current.of = r /\ analysis'[a].current.row = row
         /\ analysis'[a].scope = analysis[a].scope /\ analysis'[a].later = analysis[a].later
         /\ analysis'[a].findings = analysis[a].findings
<1>1. analysis[a] \in Running /\ Shaped(analysis[a])
    BY Idles
<1>2. PICK check \in Checks : check = [of |-> r, row |-> row]
    BY DEF Checks
<1>3. PICK y : y = [analysis[a] EXCEPT !.pc = pc, !.todo = @ \ {r}, !.down = down, !.current = check]
    OBVIOUS
<1>4. y \in Running
    BY <1>1, <1>3 DEF Running
<1>5. /\ y.pc = pc /\ y.todo = analysis[a].todo \ {r} /\ y.current = check
      /\ y.scope = analysis[a].scope /\ y.later = analysis[a].later /\ y.findings = analysis[a].findings
    BY <1>1, <1>3 DEF Running
<1>6. check.of = r /\ check.row = row
    BY <1>2
<1>7. Shaped(y)
    BY <1>1, <1>5, <1>6 DEF Shaped
<1>8. Set(a, y)
    BY <1>2, <1>3 DEF Takes
<1> QED
    BY <1>4, <1>5, <1>6, <1>7, <1>8, OneMoves

\* What CheckNorm takes: the check as the analysis sees it, or what EUR-Lex says now.
LEMMA CheckNormMoves ==
  ASSUME TypeInv, Watch, NEW a \in Analysts, NEW r \in Requirements, CheckNorm(a, r)
  PROVE  /\ TypeInv' /\ Under(a) /\ Under(a)' /\ UNCHANGED <<anchor, reports>>
         /\ \A b \in Analysts : b # a => analysis'[b] = analysis[b]
         /\ analysis[a].pc = "next" /\ r \in analysis[a].todo
         /\ analysis'[a].pc \in {"asked", "evidence"} /\ analysis'[a].todo = analysis[a].todo \ {r}
         /\ analysis'[a].current.of = r
         /\ \/ analysis'[a].current.row = AsOfBegin(a, NormOf[r])
            \/ analysis'[a].current.row.says = law[NormOf[r]]
         /\ analysis'[a].current.row \in EuRows(NormOf[r])
         /\ analysis'[a].scope = analysis[a].scope /\ analysis'[a].later = analysis[a].later
         /\ analysis'[a].findings = analysis[a].findings
<1> DEFINE n == NormOf[r]
<1>0. n \in Norms /\ n \in Sources /\ CheckedTypes
    BY NormOfRequirement, NormSource DEF TypeInv
<1>1. /\ analysis[a].pc = "next" /\ r \in analysis[a].todo
      /\ UNCHANGED <<declared, law, anchor, changes, reports>>
    BY DEF CheckNorm
<1>2. Under(a)
    BY <1>1, Idles
<1>3. analysis[a].down \in BOOLEAN
    BY <1>2, Idles DEF Running
<1>4. /\ AsOfBegin(a, n) \in EuRows(n) /\ AsOfBegin(a, n) \in Anchors \cup {Never}
  <2>1. anchor[n] \in EuRows(n) /\ anchor[n] \in Anchors \cup {Never}
      BY <1>0 DEF CheckedTypes
  <2>2. ASSUME anchor[n] # Never
        PROVE  [anchor[n] EXCEPT !.old = FALSE] \in EuRows(n) /\ [anchor[n] EXCEPT !.old = FALSE] \in Anchors
    <3>1. anchor[n] \in Anchors
        BY <2>1, <2>2
    <3>2. anchor[n] \in [at : 1..MaxLookups, old : BOOLEAN, says : EuSays[n]]
        BY <2>1, <2>2 DEF EuRows
    <3> QED
        BY <3>1, <3>2 DEF EuRows, Anchors
  <2> QED
      BY <2>1, <2>2 DEF AsOfBegin
<1>5. CASE \E down \in BOOLEAN : Takes(a, r, "evidence", AsOfBegin(a, n), down) /\ UNCHANGED lookups
  <2>1. PICK down \in BOOLEAN : Takes(a, r, "evidence", AsOfBegin(a, n), down) /\ UNCHANGED lookups
      BY <1>5
  <2>2. CheckedTypes'
      BY <1>1, <2>1, CheckedStay DEF checked
  <2> QED
      BY <1>1, <1>2, <1>4, <2>1, <2>2, TakesMoves
<1>6. CASE /\ lookups < MaxLookups /\ lookups' = lookups + 1
           /\ Takes(a, r, "asked", [at |-> lookups', old |-> FALSE, says |-> law[n]], FALSE)
  <2>1. PICK row : row = [at |-> lookups', old |-> FALSE, says |-> law[n]]
      OBVIOUS
  <2>2. /\ lookups' \in 0..MaxLookups /\ row \in Anchors /\ ~row.old /\ row.says = law[n] /\ row # Never
        /\ row \in EuRows(n)
      BY <1>0, <1>6, <2>1, AnswerNow
  <2>3. CheckedTypes'
      BY <1>0, <1>1, <2>2 DEF CheckedTypes
  <2>4. Takes(a, r, "asked", row, FALSE) /\ UNCHANGED <<declared, anchor, changes, reports>>
      BY <1>1, <1>6, <2>1
  <2> HIDE DEF Under
  <2>5. /\ TypeInv' /\ Under(a)'
        /\ \A b \in Analysts : b # a => analysis'[b] = analysis[b]
        /\ analysis'[a].pc = "asked" /\ analysis'[a].todo = analysis[a].todo \ {r}
        /\ analysis'[a].current.of = r /\ analysis'[a].current.row = row
        /\ analysis'[a].scope = analysis[a].scope /\ analysis'[a].later = analysis[a].later
        /\ analysis'[a].findings = analysis[a].findings
      BY <1>1, <1>2, <2>2, <2>3, <2>4, TakesMoves
  <2> QED
      BY <1>1, <1>2, <2>2, <2>4, <2>5
<1> QED
    BY <1>3, <1>5, <1>6 DEF CheckNorm

LEMMA StoreAnswerMoves ==
  ASSUME TypeInv, Watch, NEW a \in Analysts, StoreAnswer(a)
  PROVE  /\ TypeInv' /\ Under(a) /\ Under(a)' /\ UNCHANGED reports
         /\ \A b \in Analysts : b # a => analysis'[b] = analysis[b]
         /\ \A k \in Norms : anchor'[k] = anchor[k] \/ Fresh(k)'
         /\ analysis[a].pc = "asked" /\ analysis'[a].pc = "evidence"
         /\ analysis'[a].todo = analysis[a].todo /\ analysis'[a].current = analysis[a].current
         /\ analysis'[a].scope = analysis[a].scope /\ analysis'[a].later = analysis[a].later
         /\ analysis'[a].findings = analysis[a].findings
<1>1. analysis[a].pc = "asked" /\ Set(a, [analysis[a] EXCEPT !.pc = "evidence"])
    BY DEF StoreAnswer
<1>2. Under(a) /\ analysis[a] \in Running /\ Shaped(analysis[a])
    BY <1>1, Idles
<1>3. PICK x \in Checks : x = analysis[a].current
    BY <1>1, <1>2 DEF Shaped
<1>4. /\ x.of \in Requirements /\ x.row \in Anchors /\ x.row \in EuRows(NormOf[x.of]) /\ ~x.row.old
    BY <1>1, <1>2, <1>3 DEF Shaped, Checks
<1>5. NormOf[x.of] \in Norms /\ NormOf[x.of] \in Sources /\ NormOf[x.of] \notin Nationals
    BY <1>4, NormOfRequirement, NormSource
<1>6. /\ anchor' = [anchor EXCEPT ![NormOf[x.of]] = Stored(NormOf[x.of], x.row)]
      /\ UNCHANGED <<declared, law, lookups, changes, reports>>
    BY <1>3 DEF StoreAnswer
<1>7. lookups' \in 0..MaxLookups
    BY <1>6 DEF TypeInv, CheckedTypes
<1>8. CheckedTypes' /\ \A k \in Norms : anchor'[k] = anchor[k] \/ Fresh(k)'
    BY <1>4, <1>5, <1>6, <1>7, StoredTypes
<1>9. PICK y : y = [analysis[a] EXCEPT !.pc = "evidence"]
    OBVIOUS
<1>10. /\ y \in Running /\ y.pc = "evidence" /\ y.todo = analysis[a].todo /\ y.current = analysis[a].current
       /\ y.scope = analysis[a].scope /\ y.later = analysis[a].later /\ y.findings = analysis[a].findings
    BY <1>2, <1>9 DEF Running
<1>11. Shaped(y)
    BY <1>1, <1>2, <1>10 DEF Shaped
<1> QED
    BY <1>1, <1>2, <1>6, <1>8, <1>9, <1>10, <1>11, OneMoves

LEMMA ReadEvidenceMoves ==
  ASSUME TypeInv, Watch, NEW a \in Analysts, ReadEvidence(a)
  PROVE  /\ TypeInv' /\ Under(a) /\ Under(a)' /\ UNCHANGED <<declared, anchor, reports>>
         /\ \A b \in Analysts : b # a => analysis'[b] = analysis[b]
         /\ analysis[a].pc = "evidence" /\ analysis'[a].pc = "national"
         /\ analysis'[a].current.of \in Requirements /\ analysis'[a].current.items \in SUBSET Evidence
         /\ analysis'[a].current.of = analysis[a].current.of /\ analysis'[a].current.row = analysis[a].current.row
         /\ "in_date" \in analysis'[a].current.items <=>
              "in_date" \in evidence[analysis[a].current.of] \/ analysis[a].current.of \in analysis[a].later
         /\ analysis'[a].current.pending = transposed[analysis[a].current.of]
         /\ analysis'[a].current.national = {}
         /\ analysis'[a].todo = analysis[a].todo
         /\ analysis'[a].scope = analysis[a].scope /\ analysis'[a].later = analysis[a].later
         /\ analysis'[a].findings = analysis[a].findings
<1>1. analysis[a].pc = "evidence" /\ UNCHANGED <<declared, checked, changes, reports>>
    BY DEF ReadEvidence
<1>2. Under(a) /\ analysis[a] \in Running /\ Shaped(analysis[a])
    BY <1>1, Idles
<1>3. PICK x \in Checks : x = analysis[a].current
    BY <1>1, <1>2 DEF Shaped
<1>4. x.of \in Requirements /\ x.row \in Anchors \cup {Never} /\ x.row \in EuRows(NormOf[x.of])
    BY <1>3 DEF Checks
<1>5. PICK items \in SUBSET Evidence : items = evidence[x.of] \cup (IF x.of \in analysis[a].later THEN {"in_date"} ELSE {})
    BY <1>4 DEF TypeInv, DeclaredTypes, Evidence
<1>6. transposed[x.of] \in SUBSET Nationals
    BY <1>4 DEF TypeInv, DeclaredTypes
<1>7. PICK case : case = [of |-> x.of, row |-> x.row, items |-> items, pending |-> transposed[x.of], national |-> {}]
    OBVIOUS
<1>8. case \in Cases
    BY <1>4, <1>5, <1>6, <1>7 DEF Cases
<1>9. PICK y : y = [analysis[a] EXCEPT !.pc = "national", !.current = case]
    OBVIOUS
<1>10. /\ y \in Running /\ y.pc = "national" /\ y.todo = analysis[a].todo /\ y.current = case
       /\ y.scope = analysis[a].scope /\ y.later = analysis[a].later /\ y.findings = analysis[a].findings
    BY <1>2, <1>8, <1>9 DEF Running
<1>11. Shaped(y)
    BY <1>2, <1>8, <1>10 DEF Shaped
<1>12. Set(a, y)
    BY <1>2, <1>3, <1>5, <1>7, <1>9 DEF ReadEvidence, Running
<1>13. CheckedTypes'
    BY <1>1, CheckedStay
<1>14. /\ TypeInv' /\ analysis'[a] = y /\ Under(a)'
       /\ \A b \in Analysts : b # a => analysis'[b] = analysis[b]
    BY <1>1, <1>10, <1>11, <1>12, <1>13, OneMoves
<1>15. /\ case.of = x.of /\ case.row = x.row /\ case.items = items /\ case.pending = transposed[x.of]
       /\ case.national = {}
    BY <1>7
<1>16. "in_date" \in items <=> "in_date" \in evidence[x.of] \/ x.of \in analysis[a].later
    BY <1>5
<1>17. UNCHANGED <<anchor, reports, declared>>
    BY <1>1 DEF checked
<1> HIDE DEF Under
<1> QED
    BY <1>1, <1>2, <1>3, <1>4, <1>10, <1>14, <1>15, <1>16, <1>17

\* A transposition is judged by the check at hand, or by what the BOE says now.
LEMMA CheckNationalMoves ==
  ASSUME TypeInv, Watch, NEW a \in Analysts, NEW t \in Nationals, CheckNational(a, t)
  PROVE  /\ TypeInv' /\ Under(a) /\ Under(a)' /\ UNCHANGED reports
         /\ \A b \in Analysts : b # a => analysis'[b] = analysis[b]
         /\ \A k \in Norms : anchor'[k] = anchor[k] \/ Fresh(k)'
         /\ analysis[a].pc = "national" /\ t \in analysis[a].current.pending /\ analysis'[a].pc = "national"
         /\ analysis'[a].current.of = analysis[a].current.of /\ analysis'[a].current.row = analysis[a].current.row
         /\ analysis'[a].current.items = analysis[a].current.items
         /\ analysis'[a].current.pending = analysis[a].current.pending \ {t}
         /\ \E row \in NationalRows :
              /\ analysis'[a].current.national = analysis[a].current.national \cup {Transposes(row)}
              /\ row = anchor[t] \/ row.says = law[t]
         /\ analysis'[a].todo = analysis[a].todo
         /\ analysis'[a].scope = analysis[a].scope /\ analysis'[a].later = analysis[a].later
         /\ analysis'[a].findings = analysis[a].findings
<1> DEFINE Judged(row, down) ==
      Set(a, [analysis[a] EXCEPT !.current.pending = @ \ {t}, !.nationalDown = down,
                                 !.current.national = @ \cup {Transposes(row)}])
<1>1. /\ analysis[a].pc = "national" /\ t \in analysis[a].current.pending
      /\ UNCHANGED <<declared, law, changes, reports>>
    BY DEF CheckNational
<1>2. Under(a) /\ analysis[a] \in Running /\ Shaped(analysis[a])
    BY <1>1, Idles
<1>3. PICK x \in Cases : x = analysis[a].current
    BY <1>1, <1>2 DEF Shaped
<1>4. t \in Sources /\ t \notin Norms /\ anchor[t] \in NationalRows /\ analysis[a].nationalDown \in BOOLEAN
    BY <1>2, NationalSource DEF TypeInv, CheckedTypes, Running
<1>5. ASSUME NEW row \in NationalRows, row = anchor[t] \/ row.says = law[t], NEW down \in BOOLEAN,
             Judged(row, down), CheckedTypes', \A k \in Norms : anchor'[k] = anchor[k] \/ Fresh(k)'
      PROVE  /\ TypeInv' /\ Under(a)'
             /\ \A b \in Analysts : b # a => analysis'[b] = analysis[b]
             /\ analysis'[a].pc = "national"
             /\ analysis'[a].current.of = analysis[a].current.of
             /\ analysis'[a].current.row = analysis[a].current.row
             /\ analysis'[a].current.items = analysis[a].current.items
             /\ analysis'[a].current.pending = analysis[a].current.pending \ {t}
             /\ analysis'[a].current.national = analysis[a].current.national \cup {Transposes(row)}
             /\ analysis'[a].todo = analysis[a].todo
             /\ analysis'[a].scope = analysis[a].scope /\ analysis'[a].later = analysis[a].later
             /\ analysis'[a].findings = analysis[a].findings
  <2>1. Transposes(row) \in BOOLEAN
      BY DEF Transposes
  <2>2. PICK case : case = [x EXCEPT !.pending = @ \ {t}, !.national = @ \cup {Transposes(row)}]
      OBVIOUS
  <2>3. /\ case \in Cases /\ case.of = x.of /\ case.row = x.row /\ case.items = x.items
        /\ case.pending = x.pending \ {t} /\ case.national = x.national \cup {Transposes(row)}
      BY <2>1, <2>2 DEF Cases
  <2>4. PICK y : y = [analysis[a] EXCEPT !.current = case, !.nationalDown = down]
      OBVIOUS
  <2>5. /\ y \in Running /\ y.pc = "national" /\ y.todo = analysis[a].todo /\ y.current = case
        /\ y.scope = analysis[a].scope /\ y.later = analysis[a].later /\ y.findings = analysis[a].findings
      BY <1>1, <1>2, <2>3, <2>4 DEF Running
  <2>6. Shaped(y)
      BY <1>2, <2>3, <2>5 DEF Shaped
  <2>7. Set(a, y)
      BY <1>2, <1>3, <1>5, <2>2, <2>4 DEF Running, Cases
  <2>8. /\ TypeInv' /\ analysis'[a] = y /\ Under(a)'
        /\ \A b \in Analysts : b # a => analysis'[b] = analysis[b]
      BY <1>1, <1>5, <2>5, <2>6, <2>7, OneMoves
  <2> HIDE DEF Judged, Under
  <2> QED
      BY <1>3, <2>3, <2>5, <2>8
<1>6. CASE \E down \in BOOLEAN : Judged(anchor[t], down) /\ UNCHANGED <<anchor, lookups>>
  <2>1. PICK down \in BOOLEAN : Judged(anchor[t], down) /\ UNCHANGED <<anchor, lookups>>
      BY <1>6
  <2>2. CheckedTypes'
      BY <1>1, <2>1, CheckedStay DEF checked
  <2> HIDE DEF Judged
  <2> QED
      BY <1>1, <1>2, <1>4, <1>5, <2>1, <2>2
<1>7. ASSUME lookups < MaxLookups, lookups' = lookups + 1,
             NEW row, row = [at |-> lookups', old |-> FALSE, says |-> law[t]],
             anchor' = [anchor EXCEPT ![t] = Stored(t, row)], Judged(row, FALSE)
      PROVE  /\ row \in NationalRows /\ row.says = law[t]
             /\ CheckedTypes' /\ \A k \in Norms : anchor'[k] = anchor[k] \/ Fresh(k)'
  <2>1. /\ lookups' \in 0..MaxLookups /\ row \in Anchors /\ ~row.old /\ row.says = law[t]
        /\ row \in NationalRows
      BY <1>4, <1>7, AnswerNow
  <2>2. CheckedTypes' /\ \A k \in Norms : anchor'[k] = anchor[k] \/ Fresh(k)'
      BY <1>1, <1>4, <1>7, <2>1, StoredTypes
  <2> QED
      BY <2>1, <2>2
<1>8. CASE /\ lookups < MaxLookups /\ lookups' = lookups + 1
           /\ \E row : /\ row = [at |-> lookups', old |-> FALSE, says |-> law[t]]
                       /\ anchor' = [anchor EXCEPT ![t] = Stored(t, row)] /\ Judged(row, FALSE)
  <2>1. PICK row : /\ row = [at |-> lookups', old |-> FALSE, says |-> law[t]]
                   /\ anchor' = [anchor EXCEPT ![t] = Stored(t, row)] /\ Judged(row, FALSE)
      BY <1>8
  <2> HIDE DEF Judged
  <2>2. /\ row \in NationalRows /\ row.says = law[t]
        /\ CheckedTypes' /\ \A k \in Norms : anchor'[k] = anchor[k] \/ Fresh(k)'
      BY <1>7, <1>8, <2>1
  <2> QED
      BY <1>1, <1>2, <1>5, <2>1, <2>2
<1>9. \/ \E down \in BOOLEAN : Judged(anchor[t], down) /\ UNCHANGED <<anchor, lookups>>
      \/ /\ lookups < MaxLookups /\ lookups' = lookups + 1
         /\ \E row : /\ row = [at |-> lookups', old |-> FALSE, says |-> law[t]]
                     /\ anchor' = [anchor EXCEPT ![t] = Stored(t, row)] /\ Judged(row, FALSE)
    BY <1>4 DEF CheckNational
<1> QED
    BY <1>6, <1>8, <1>9

LEMMA Assessed ==
  ASSUME NEW row, NEW kind, NEW items, NEW national
  PROVE  Assess(row, kind, items, national) \in {"PASS", "BLOCKED", "REVIEW_REQUIRED"}
  BY DEF Assess

LEMMA JudgeMoves ==
  ASSUME TypeInv, Watch, NEW a \in Analysts, Judge(a)
  PROVE  /\ TypeInv' /\ Under(a) /\ Under(a)' /\ UNCHANGED <<anchor, reports>>
         /\ \A b \in Analysts : b # a => analysis'[b] = analysis[b]
         /\ analysis[a].pc = "national" /\ analysis[a].current.pending = {} /\ analysis'[a].pc = "next"
         /\ analysis[a].current \in Cases
         /\ analysis'[a].todo = analysis[a].todo
         /\ analysis'[a].scope = analysis[a].scope /\ analysis'[a].later = analysis[a].later
         /\ analysis'[a].findings = analysis[a].findings \cup
              {Assess(analysis[a].current.row, KindOf[analysis[a].current.of],
                      analysis[a].current.items, analysis[a].current.national)}
<1>1. /\ analysis[a].pc = "national" /\ analysis[a].current.pending = {}
      /\ UNCHANGED <<declared, checked, changes, reports>>
    BY DEF Judge
<1>2. Under(a) /\ analysis[a] \in Running /\ Shaped(analysis[a])
    BY <1>1, Idles
<1>3. PICK status : status = Assess(analysis[a].current.row, KindOf[analysis[a].current.of],
                                    analysis[a].current.items, analysis[a].current.national)
    OBVIOUS
<1>4. status \in Status
    BY <1>3, Assessed DEF Status
<1>5. PICK y : y = [analysis[a] EXCEPT !.pc = "next", !.current = <<>>, !.findings = @ \cup {status}]
    OBVIOUS
<1>6. /\ y \in Running /\ y.pc = "next" /\ y.todo = analysis[a].todo
      /\ y.scope = analysis[a].scope /\ y.later = analysis[a].later
      /\ y.findings = analysis[a].findings \cup {status}
    BY <1>2, <1>4, <1>5 DEF Running
<1>7. Shaped(y)
    BY <1>2, <1>6 DEF Shaped
<1>8. Set(a, y)
    BY <1>3, <1>5 DEF Judge
<1>9. CheckedTypes' /\ UNCHANGED <<anchor, reports>>
    BY <1>1, CheckedStay DEF checked
<1>10. /\ TypeInv' /\ analysis'[a] = y /\ Under(a)'
       /\ \A b \in Analysts : b # a => analysis'[b] = analysis[b]
    BY <1>1, <1>6, <1>7, <1>8, <1>9, OneMoves
<1>11. analysis[a].current \in Cases
    BY <1>1, <1>2 DEF Shaped
<1> HIDE DEF Under
<1> QED
    BY <1>1, <1>2, <1>3, <1>6, <1>9, <1>10, <1>11

LEMMA ReportMoves ==
  ASSUME TypeInv, Watch, NEW a \in Analysts, Report(a)
  PROVE  /\ TypeInv' /\ Under(a) /\ ~Under(a)' /\ UNCHANGED anchor
         /\ \A b \in Analysts : b # a => analysis'[b] = analysis[b]
         /\ analysis[a].pc = "next" /\ analysis[a].todo = {}
         /\ reports' = reports \cup {[status |-> ScopeStatus(analysis[a].findings),
                                      scope |-> analysis[a].scope, seen |-> seen[a]]}
<1>1. /\ analysis[a].pc = "next" /\ analysis[a].todo = {} /\ Set(a, Idle)
      /\ reports' = reports \cup {[status |-> ScopeStatus(analysis[a].findings),
                                   scope |-> analysis[a].scope, seen |-> seen[a]]}
      /\ UNCHANGED <<declared, checked, changes>>
    BY DEF Report
<1>2. Under(a)
    BY <1>1, Idles
<1>3. /\ analysis' \in [Analysts -> Running \cup {Idle}]
      /\ analysis'[a] = Idle /\ \A b \in Analysts : b # a => analysis'[b] = analysis[b]
    BY <1>1 DEF TypeInv, AnalysisTypes, Set
<1>4. AnalysisTypes'
    BY <1>3 DEF TypeInv, AnalysisTypes, Under
<1>5. ReportTypes'
    BY <1>1 DEF TypeInv, ReportTypes, ScopeStatus, Status
<1>6. DeclaredTypes' /\ CheckedTypes' /\ changes' \in 0..MaxChanges /\ UNCHANGED anchor
    BY <1>1, DeclaredStay, CheckedStay DEF TypeInv, checked
<1>7. TypeInv'
    BY <1>4, <1>5, <1>6, SeenGrows DEF TypeInv
<1> QED
    BY <1>1, <1>2, <1>3, <1>6, <1>7 DEF Under

-----------------------------------------------------------------------------
(* The analysis: what each step holds was seen *)

\* What is so, before the step or after it, was seen after it.
LEMMA SeenAfter ==
  ASSUME TypeInv, Watch, Watched, NEW a \in Analysts, Under(a), Under(a)'
  PROVE  Covers(seen'[a], seen[a]) /\ Covers(seen[a], Now) /\ Covers(seen'[a], Now)
<1>1. Covers(seen'[a], seen[a]) /\ Covers(seen[a], Now)
    BY SeenGrows DEF Watched
<1> QED
    BY <1>1 DEF Covers

\* What was concluded stays concluded while the requirement at hand is the same, or a new one.
LEMMA FindingsStay ==
  ASSUME NEW x, NEW y, NEW s, NEW more, Covers(more, s), FindingsAreGrounded(x, s),
         y.scope = x.scope, y.findings = x.findings, y.pc # "next",
         x.pc # "next" => y.current.of = x.current.of,
         \A r \in y.scope \ y.todo : r \in x.scope \ x.todo \/ r = y.current.of
  PROVE  FindingsAreGrounded(y, more)
  BY SupportStays DEF FindingsAreGrounded

LEMMA BeginStep == ASSUME IInv, Watch, NEW a \in Analysts, Begin(a) PROVE IInv'
<1>0. TypeInv
    BY DEF IInv
<1>1. /\ TypeInv' /\ Under(a)' /\ UNCHANGED <<anchor, reports>>
      /\ \A b \in Analysts : b # a => analysis'[b] = analysis[b]
      /\ analysis'[a].pc = "next" /\ analysis'[a].scope = analysis'[a].todo
      /\ analysis'[a].later = {} /\ analysis'[a].findings = {}
    BY <1>0, BeginMoves
<1>2. CurrentIsGrounded(analysis'[a], seen'[a]) /\ FindingsAreGrounded(analysis'[a], seen'[a])
    BY <1>1 DEF CurrentIsGrounded, FindingsAreGrounded
<1> HIDE DEF Under
<1> QED
    BY <1>1, <1>2, OneStep

\* A norm the analysis takes for one in force was seen to bind.
LEMMA InForceWasSeen ==
  ASSUME IInv, Watch, NEW a \in Analysts, Under(a), Under(a)', NEW n \in Norms,
         NEW row \in EuRows(n), Existence(row) = "verified_in_force",
         row = AsOfBegin(a, n) \/ row.says = law[n]
  PROVE  n \in seen'[a].binding
<1>0. TypeInv /\ Watched /\ Remembered
    BY DEF IInv
<1>1. row # Never /\ ~row.old /\ InForceSays(row.says)
    BY InForceExistence
<1>2. /\ seen[a].binding \subseteq seen'[a].binding /\ Now.binding \subseteq seen'[a].binding
    BY <1>0, SeenAfter, CoversFields
<1>3. CASE row.says = law[n]
    BY <1>1, <1>2, <1>3, NowIsFacts
<1>4. CASE row = anchor[n]
    BY <1>1, <1>2, <1>4, NowIsFacts DEF Fresh
<1>5. CASE n \in analysis[a].later /\ anchor[n] # Never /\ row = [anchor[n] EXCEPT !.old = FALSE]
  <2>1. anchor[n] \in EuRows(n)
      BY <1>0 DEF TypeInv, CheckedTypes
  <2>2. row.says = anchor[n].says
      BY <1>5, <2>1 DEF EuRows
  <2>3. n \in seen[a].binding
      BY <1>0, <1>1, <1>5, <2>2 DEF Remembered
  <2> QED
      BY <1>2, <2>3
<1> QED
    BY <1>3, <1>4, <1>5 DEF AsOfBegin

LEMMA CheckNormStep ==
  ASSUME IInv, Watch, NEW a \in Analysts, NEW r \in Requirements, CheckNorm(a, r)
  PROVE  IInv'
<1>0. TypeInv /\ Watched /\ Grounded
    BY DEF IInv
<1>1. /\ TypeInv' /\ Under(a) /\ Under(a)' /\ UNCHANGED <<anchor, reports>>
      /\ \A b \in Analysts : b # a => analysis'[b] = analysis[b]
      /\ analysis[a].pc = "next" /\ r \in analysis[a].todo
      /\ analysis'[a].pc \in {"asked", "evidence"} /\ analysis'[a].todo = analysis[a].todo \ {r}
      /\ analysis'[a].current.of = r
      /\ \/ analysis'[a].current.row = AsOfBegin(a, NormOf[r])
         \/ analysis'[a].current.row.says = law[NormOf[r]]
      /\ analysis'[a].current.row \in EuRows(NormOf[r])
      /\ analysis'[a].scope = analysis[a].scope /\ analysis'[a].later = analysis[a].later
      /\ analysis'[a].findings = analysis[a].findings
    BY <1>0, CheckNormMoves
<1> HIDE DEF Under
<1>2. Shaped(analysis[a])
    BY <1>0, <1>1, Idles
<1>3. r \in analysis'[a].scope \ analysis'[a].todo
    BY <1>1, <1>2 DEF Shaped
<1>4. Existence(analysis'[a].current.row) = "verified_in_force" => Binding(seen'[a], r)
    BY <1>1, NormOfRequirement, InForceWasSeen DEF Binding
<1>5. CurrentIsGrounded(analysis'[a], seen'[a])
    BY <1>1, <1>3, <1>4 DEF CurrentIsGrounded
<1>6. Covers(seen'[a], seen[a]) /\ FindingsAreGrounded(analysis[a], seen[a])
    BY <1>0, <1>1, SeenAfter DEF Grounded
<1>7. FindingsAreGrounded(analysis'[a], seen'[a])
    BY <1>1, <1>6, FindingsStay
<1> QED
    BY <1>1, <1>5, <1>7, OneStep

LEMMA StoreAnswerStep == ASSUME IInv, Watch, NEW a \in Analysts, StoreAnswer(a) PROVE IInv'
<1>0. TypeInv /\ Watched /\ Grounded
    BY DEF IInv
<1>1. /\ TypeInv' /\ Under(a) /\ Under(a)' /\ UNCHANGED reports
      /\ \A b \in Analysts : b # a => analysis'[b] = analysis[b]
      /\ \A k \in Norms : anchor'[k] = anchor[k] \/ Fresh(k)'
      /\ analysis[a].pc = "asked" /\ analysis'[a].pc = "evidence"
      /\ analysis'[a].todo = analysis[a].todo /\ analysis'[a].current = analysis[a].current
      /\ analysis'[a].scope = analysis[a].scope /\ analysis'[a].later = analysis[a].later
      /\ analysis'[a].findings = analysis[a].findings
    BY <1>0, StoreAnswerMoves
<1> HIDE DEF Under
<1>2. /\ Covers(seen'[a], seen[a]) /\ CurrentIsGrounded(analysis[a], seen[a])
      /\ FindingsAreGrounded(analysis[a], seen[a])
    BY <1>0, <1>1, SeenAfter DEF Grounded
<1>3. CurrentIsGrounded(analysis'[a], seen'[a])
    BY <1>1, <1>2, CoversFields DEF CurrentIsGrounded, Binding
<1>4. FindingsAreGrounded(analysis'[a], seen'[a])
    BY <1>1, <1>2, FindingsStay
<1> QED
    BY <1>1, <1>3, <1>4, OneStep

LEMMA ReadEvidenceStep == ASSUME IInv, Watch, NEW a \in Analysts, ReadEvidence(a) PROVE IInv'
<1>0. TypeInv /\ Watched /\ Remembered /\ Grounded
    BY DEF IInv
<1> DEFINE r == analysis[a].current.of
<1>1. /\ TypeInv' /\ Under(a) /\ Under(a)' /\ UNCHANGED <<declared, anchor, reports>>
      /\ \A b \in Analysts : b # a => analysis'[b] = analysis[b]
      /\ analysis[a].pc = "evidence" /\ analysis'[a].pc = "national"
      /\ analysis'[a].current.of \in Requirements /\ analysis'[a].current.items \in SUBSET Evidence
      /\ analysis'[a].current.of = r /\ analysis'[a].current.row = analysis[a].current.row
      /\ ("in_date" \in analysis'[a].current.items <=> "in_date" \in evidence[r] \/ r \in analysis[a].later)
      /\ analysis'[a].current.pending = transposed[r]
      /\ analysis'[a].current.national = {}
      /\ analysis'[a].todo = analysis[a].todo
      /\ analysis'[a].scope = analysis[a].scope /\ analysis'[a].later = analysis[a].later
      /\ analysis'[a].findings = analysis[a].findings
    BY <1>0, ReadEvidenceMoves
<1> HIDE DEF Under, r
<1>2. /\ Covers(seen'[a], seen[a]) /\ Covers(seen'[a], Now) /\ CurrentIsGrounded(analysis[a], seen[a])
      /\ FindingsAreGrounded(analysis[a], seen[a])
    BY <1>0, <1>1, SeenAfter DEF Grounded
<1>3. r \in Requirements /\ r = analysis[a].current.of
    BY <1>1 DEF r
<1>4. "in_date" \in analysis'[a].current.items => r \in seen'[a].proven
  <2>1. CASE "in_date" \in evidence[r]
    <3>1. r \in Now.proven
        BY <1>3, <2>1, NowIsFacts
    <3> QED
        BY <1>2, <3>1, CoversFields
  <2>2. CASE r \in analysis[a].later
    <3>1. r \in seen[a].proven
        BY <1>0, <1>1, <1>3, <2>2 DEF Remembered
    <3> QED
        BY <1>2, <3>1, CoversFields
  <2> QED
      BY <1>1, <2>1, <2>2
<1>5. "in_date" \notin analysis'[a].current.items /\ KindOf[r] = "restriction" => r \in seen'[a].unproven
  <2>1. "in_date" \notin evidence[r] /\ KindOf[r] = "restriction" => r \in Now.unproven
      BY <1>3, NowIsFacts
  <2> QED
      BY <1>1, <1>2, <2>1, CoversFields
<1>6. \A t \in transposed[r] : <<r, t>> \in seen'[a].transposing
  <2>1. \A t \in transposed[r] : <<r, t>> \in Now.transposing
      BY <1>0, <1>3, NowIsFacts DEF TypeInv, DeclaredTypes
  <2> QED
      BY <1>2, <2>1, CoversFields
<1>7. /\ r \in analysis'[a].scope \ analysis'[a].todo
      /\ Existence(analysis'[a].current.row) = "verified_in_force" => Binding(seen'[a], r)
    BY <1>1, <1>2, <1>3, CoversFields DEF CurrentIsGrounded, Binding
<1>8. IF Compliance(analysis'[a].current.items) = "compliant" THEN r \in seen'[a].proven
      ELSE KindOf[r] = "restriction" => r \in seen'[a].unproven
    BY <1>1, <1>4, <1>5, InDate
<1>9. CurrentIsGrounded(analysis'[a], seen'[a])
    BY <1>1, <1>6, <1>7, <1>8 DEF CurrentIsGrounded
<1>10. FindingsAreGrounded(analysis'[a], seen'[a])
    BY <1>1, <1>2, <1>3, FindingsStay
<1> QED
    BY <1>1, <1>9, <1>10, OneStep

LEMMA CheckNationalStep ==
  ASSUME IInv, Watch, NEW a \in Analysts, NEW t \in Nationals, CheckNational(a, t)
  PROVE  IInv'
<1>0. TypeInv /\ Watched /\ Grounded
    BY DEF IInv
<1>1. /\ TypeInv' /\ Under(a) /\ Under(a)' /\ UNCHANGED reports
      /\ \A b \in Analysts : b # a => analysis'[b] = analysis[b]
      /\ \A k \in Norms : anchor'[k] = anchor[k] \/ Fresh(k)'
      /\ analysis[a].pc = "national" /\ t \in analysis[a].current.pending /\ analysis'[a].pc = "national"
      /\ analysis'[a].current.of = analysis[a].current.of /\ analysis'[a].current.row = analysis[a].current.row
      /\ analysis'[a].current.items = analysis[a].current.items
      /\ analysis'[a].current.pending = analysis[a].current.pending \ {t}
      /\ \E row \in NationalRows :
           /\ analysis'[a].current.national = analysis[a].current.national \cup {Transposes(row)}
           /\ row = anchor[t] \/ row.says = law[t]
      /\ analysis'[a].todo = analysis[a].todo
      /\ analysis'[a].scope = analysis[a].scope /\ analysis'[a].later = analysis[a].later
      /\ analysis'[a].findings = analysis[a].findings
    BY <1>0, CheckNationalMoves
<1> HIDE DEF Under
<1>2. /\ Covers(seen'[a], seen[a]) /\ Covers(seen'[a], Now) /\ CurrentIsGrounded(analysis[a], seen[a])
      /\ FindingsAreGrounded(analysis[a], seen[a])
    BY <1>0, <1>1, SeenAfter DEF Grounded
<1>3. PICK row \in NationalRows :
        /\ analysis'[a].current.national = analysis[a].current.national \cup {Transposes(row)}
        /\ row = anchor[t] \/ row.says = law[t]
    BY <1>1
<1>4. Transposes(row) => t \in seen'[a].national
  <2>1. Transposes(row) => t \in Now.national
      BY <1>3, GoodTransposition, NowIsFacts DEF Fresh
  <2> QED
      BY <1>2, <2>1, CoversFields
<1>5. TRUE \in analysis'[a].current.national =>
        \E good \in seen'[a].national : <<analysis'[a].current.of, good>> \in seen'[a].transposing
  <2>1. CASE Transposes(row)
    <3>1. <<analysis'[a].current.of, t>> \in seen'[a].transposing
        BY <1>1, <1>2, CoversFields DEF CurrentIsGrounded
    <3> QED
        BY <1>4, <2>1, <3>1
  <2>2. CASE TRUE \in analysis[a].current.national
      BY <1>1, <1>2, <2>2, CoversFields DEF CurrentIsGrounded
  <2> QED
      BY <1>3, <2>1, <2>2
<1>6. \A other \in analysis'[a].current.pending : <<analysis'[a].current.of, other>> \in seen'[a].transposing
    BY <1>1, <1>2, CoversFields DEF CurrentIsGrounded
<1>7. CurrentIsGrounded(analysis'[a], seen'[a])
  <2>1. /\ analysis'[a].current.of \in analysis'[a].scope \ analysis'[a].todo
        /\ Existence(analysis'[a].current.row) = "verified_in_force" => Binding(seen'[a], analysis'[a].current.of)
      BY <1>1, <1>2, CoversFields DEF CurrentIsGrounded, Binding
  <2>2. IF Compliance(analysis'[a].current.items) = "compliant" THEN analysis'[a].current.of \in seen'[a].proven
        ELSE KindOf[analysis'[a].current.of] = "restriction" => analysis'[a].current.of \in seen'[a].unproven
      BY <1>1, <1>2, CoversFields DEF CurrentIsGrounded
  <2> QED
      BY <1>1, <1>5, <1>6, <2>1, <2>2 DEF CurrentIsGrounded
<1>8. FindingsAreGrounded(analysis'[a], seen'[a])
    BY <1>1, <1>2, FindingsStay
<1> QED
    BY <1>1, <1>7, <1>8, OneStep

\* What an analysis concludes of a requirement was seen: a directive passes by a transposition.
LEMMA JudgeStep == ASSUME SourceNamesDirectives, IInv, Watch, NEW a \in Analysts, Judge(a) PROVE IInv'
<1>0. TypeInv /\ Watched /\ Grounded
    BY DEF IInv
<1> DEFINE x == analysis[a].current
           status == Assess(x.row, KindOf[x.of], x.items, x.national)
<1>1. /\ TypeInv' /\ Under(a) /\ Under(a)' /\ UNCHANGED <<anchor, reports>>
      /\ \A b \in Analysts : b # a => analysis'[b] = analysis[b]
      /\ analysis[a].pc = "national" /\ x.pending = {} /\ analysis'[a].pc = "next"
      /\ x \in Cases
      /\ analysis'[a].todo = analysis[a].todo
      /\ analysis'[a].scope = analysis[a].scope /\ analysis'[a].later = analysis[a].later
      /\ analysis'[a].findings = analysis[a].findings \cup {status}
    BY <1>0, JudgeMoves
<1> HIDE DEF Under, x, status
<1>2. Covers(seen'[a], seen[a]) /\ FindingsAreGrounded(analysis[a], seen[a])
    BY <1>0, <1>1, SeenAfter DEF Grounded
<1>3. /\ x.of \in analysis[a].scope \ analysis[a].todo
      /\ Existence(x.row) = "verified_in_force" => Binding(seen'[a], x.of)
      /\ IF Compliance(x.items) = "compliant" THEN x.of \in seen'[a].proven
         ELSE KindOf[x.of] = "restriction" => x.of \in seen'[a].unproven
      /\ TRUE \in x.national => \E t \in seen'[a].national : <<x.of, t>> \in seen'[a].transposing
  <2>1. CurrentIsGrounded(analysis[a], seen[a])
      BY <1>0, <1>1 DEF Grounded
  <2> QED
      BY <1>1, <1>2, <2>1, CoversFields DEF CurrentIsGrounded, Binding, x
<1>4. x.of \in Requirements /\ x.row \in EuRows(NormOf[x.of]) /\ x.national \in SUBSET BOOLEAN
    BY <1>1 DEF Cases
<1>5. status \in {"PASS", "BLOCKED", "REVIEW_REQUIRED"}
    BY Assessed DEF status
<1>6. ASSUME status # "REVIEW_REQUIRED"
      PROVE  /\ Binding(seen'[a], x.of)
             /\ NormOf[x.of] \in Directives => TRUE \in x.national
  <2>1. Existence(x.row) = "verified_in_force"
      BY <1>6 DEF status, Assess
  <2>2. x.row # Never /\ InForceSays(x.row.says)
      BY <1>4, <2>1, NormOfRequirement, InForceExistence
  <2>3. NormOf[x.of] \in Directives => x.row.says.act = "directive"
      BY <1>4, <2>2, NormOfRequirement, EuRow DEF SourceNamesDirectives, InForceSays
  <2>4. x.row.says.act = "directive" => x.national # {} /\ FALSE \notin x.national
      BY <1>6 DEF status, Assess
  <2> QED
      BY <1>3, <1>4, <2>1, <2>3, <2>4
<1>7. status = "PASS" => Passes(seen'[a], x.of)
    BY <1>3, <1>6 DEF status, Assess, Passes
<1>8. status = "BLOCKED" => Blocks(seen'[a], x.of)
    BY <1>3, <1>6 DEF status, Assess, Blocks
<1>9. FindingsAreGrounded(analysis'[a], seen'[a])
  <2>1. ASSUME NEW r \in analysis'[a].scope \ analysis'[a].todo
        PROVE  \/ "PASS" \in analysis'[a].findings /\ Passes(seen'[a], r)
               \/ analysis'[a].findings \cap {"BLOCKED", "REVIEW_REQUIRED"} # {}
    <3>1. CASE r = x.of
        BY <1>1, <1>5, <1>7, <3>1
    <3>2. CASE r # x.of
      <4>1. \/ "PASS" \in analysis[a].findings /\ Passes(seen[a], r)
            \/ analysis[a].findings \cap {"BLOCKED", "REVIEW_REQUIRED"} # {}
          BY <1>1, <1>2, <2>1, <3>2 DEF FindingsAreGrounded, x
      <4> QED
          BY <1>1, <1>2, <4>1, SupportStays
    <3> QED
        BY <3>1, <3>2
  <2>2. "BLOCKED" \in analysis'[a].findings => \E r \in analysis'[a].scope : Blocks(seen'[a], r)
      BY <1>1, <1>2, <1>3, <1>8, SupportStays DEF FindingsAreGrounded
  <2>3. analysis'[a].scope # {} /\ "UNKNOWN" \notin analysis'[a].findings
      BY <1>1, <1>2, <1>3, <1>5 DEF FindingsAreGrounded
  <2> QED
      BY <2>1, <2>2, <2>3 DEF FindingsAreGrounded
<1>10. CurrentIsGrounded(analysis'[a], seen'[a])
    BY <1>1 DEF CurrentIsGrounded
<1> QED
    BY <1>1, <1>9, <1>10, OneStep

\* The report is of the worst finding, and every finding was seen.
LEMMA ReportStep == ASSUME IInv, Watch, NEW a \in Analysts, Report(a) PROVE IInv'
<1>0. TypeInv /\ Watched /\ Remembered /\ Grounded /\ VerdictsAreGrounded
    BY DEF IInv
<1>1. /\ TypeInv' /\ Under(a) /\ ~Under(a)' /\ UNCHANGED anchor
      /\ \A b \in Analysts : b # a => analysis'[b] = analysis[b]
      /\ analysis[a].pc = "next" /\ analysis[a].todo = {}
      /\ reports' = reports \cup {[status |-> ScopeStatus(analysis[a].findings),
                                   scope |-> analysis[a].scope, seen |-> seen[a]]}
    BY <1>0, ReportMoves
<1>2. FindingsAreGrounded(analysis[a], seen[a])
    BY <1>0, <1>1 DEF Grounded
<1>3. PICK report : report = [status |-> ScopeStatus(analysis[a].findings),
                              scope |-> analysis[a].scope, seen |-> seen[a]]
    OBVIOUS
<1>4. /\ report.status = ScopeStatus(analysis[a].findings) /\ report.scope = analysis[a].scope
      /\ report.seen = seen[a]
    BY <1>3
<1>5. /\ \A r \in report.scope : \/ "PASS" \in analysis[a].findings /\ Passes(report.seen, r)
                                 \/ analysis[a].findings \cap {"BLOCKED", "REVIEW_REQUIRED"} # {}
      /\ "BLOCKED" \in analysis[a].findings => \E r \in report.scope : Blocks(report.seen, r)
      /\ analysis[a].findings # {} => report.scope # {}
      /\ "UNKNOWN" \notin analysis[a].findings
    BY <1>1, <1>2, <1>4 DEF FindingsAreGrounded
<1>6. report.status = "PASS" => report.scope # {} /\ \A r \in report.scope : Passes(report.seen, r)
    BY <1>4, <1>5 DEF ScopeStatus
<1>7. report.status = "BLOCKED" => \E r \in report.scope : Blocks(report.seen, r)
    BY <1>4, <1>5 DEF ScopeStatus
<1>8. report.status = "UNKNOWN" <=> report.scope = {}
    BY <1>4, <1>5 DEF ScopeStatus
<1>9. VerdictsAreGrounded'
    BY <1>0, <1>1, <1>3, <1>6, <1>7, <1>8 DEF VerdictsAreGrounded, Passes, Blocks, Binding
<1>10. \A b \in Analysts : Under(b)' => Under(b) /\ SameWork(analysis'[b], analysis[b])
    BY <1>1 DEF Under, SameWork
<1>11. \A b \in Analysts : Under(b)' => \A z \in analysis'[b].later : Under(b) /\ z \in analysis[b].later
    BY <1>1 DEF Under
<1>12. Watched' /\ Remembered' /\ Grounded'
    BY <1>0, <1>1, <1>10, <1>11, InvKept
<1> QED
    BY <1>1, <1>9, <1>12 DEF IInv

-----------------------------------------------------------------------------
(* The theorems *)

LEMMA InitTypes == ASSUME Init PROVE TypeInv
<1> USE RegulatoryAssumption DEF Init
<1>1. DeclaredTypes
    BY DEF DeclaredTypes
<1>2. law \in [Sources -> EuAnswers \cup NationalAnswers]
  <2>1. \A n \in Sources : law[n] \in EuAnswers \cup NationalAnswers
      BY DEF Sources
  <2> QED
      BY <2>1
<1>3. CheckedTypes
    BY <1>2 DEF CheckedTypes, EuRows, NationalRows, Sources
<1>4. AnalysisTypes /\ ReportTypes /\ seen \in [Analysts -> Facts] /\ changes \in 0..MaxChanges
    BY NothingIsFacts DEF AnalysisTypes, ReportTypes, Under
<1> QED
    BY <1>1, <1>3, <1>4 DEF TypeInv

LEMMA InitInv == ASSUME Init PROVE IInv
  BY InitTypes DEF Init, IInv, Watched, Remembered, Grounded, VerdictsAreGrounded, Under

LEMMA NextTypes == ASSUME TypeInv, [Next]_vars PROVE TypeInv'
<1>1. CASE UNCHANGED vars
    BY <1>1 DEF vars, declared, transpositions, checked, TypeInv, DeclaredTypes, CheckedTypes, AnalysisTypes, ReportTypes, Under
<1>2. CASE People /\ Watch
    BY <1>2, PeopleTypes
<1>3. CASE World /\ Watch
    BY <1>3, WorldTypes
<1>4. ASSUME NEW a \in Analysts, Analyse(a), Watch PROVE TypeInv'
    BY <1>4, BeginMoves, CheckNormMoves, StoreAnswerMoves, ReadEvidenceMoves, CheckNationalMoves,
       JudgeMoves, ReportMoves DEF Analyse
<1> QED
    BY <1>1, <1>2, <1>3, <1>4 DEF Next

LEMMA NextInv == ASSUME SourceNamesDirectives, IInv, [Next]_vars PROVE IInv'
<1>1. CASE UNCHANGED vars
  <2>1. TypeInv'
      BY <1>1, NextTypes DEF IInv
  <2>2. Now' = Now
      BY <1>1 DEF vars, declared, transpositions, checked, Now, SourceHolds, Fresh
  <2> QED
      BY <1>1, <2>1, <2>2
      DEF vars, declared, transpositions, checked, IInv, Watched, Remembered, Grounded, VerdictsAreGrounded, Under
<1>2. CASE People /\ Watch
  <2>1. TypeInv' /\ UNCHANGED <<anchor, analysis, reports>>
      BY <1>2, PeopleTypes DEF IInv
  <2> QED
      BY <1>2, <2>1, QuietStep
<1>3. CASE World /\ Watch
    BY <1>3, WorldStep
<1>4. ASSUME NEW a \in Analysts, Analyse(a), Watch PROVE IInv'
    BY <1>4, BeginStep, CheckNormStep, StoreAnswerStep, ReadEvidenceStep, CheckNationalStep,
       JudgeStep, ReportStep DEF Analyse
<1> QED
    BY <1>1, <1>2, <1>3, <1>4 DEF Next

LEMMA TypesShown == ASSUME TypeInv PROVE TypeOK
<1>1. \A n \in Sources : anchor[n] = Never \/ anchor[n] \in Anchors
    BY DEF TypeInv, CheckedTypes
<1>2. \A a \in Analysts :
        /\ analysis[a].pc \in {"idle", "next", "asked", "evidence", "national"}
        /\ analysis[a].pc # "idle" => /\ analysis[a].todo \subseteq analysis[a].scope
                                      /\ analysis[a].findings \in SUBSET Status
    BY DEF TypeInv, AnalysisTypes, Running, Idle, Under, Shaped
<1> QED
    BY <1>1, <1>2 DEF TypeInv, TypeOK, DeclaredTypes, CheckedTypes, ReportTypes

\* The declarations, the checks and the analyses have the types the code gives them,
\* whatever is declared and asked (legal/models.py, legal/requirements.py).
THEOREM TypeCorrect == Spec => []TypeOK
<1>1. Spec => []TypeInv
    BY InitTypes, NextTypes, PTL DEF Spec
<1> QED
    BY <1>1, TypesShown, PTL

\* Every verdict the screening stores rests on what was so at some moment of its
\* analysis, if EUR-Lex names as a directive every act whose CELEX is one's: whatever
\* people declare, replace and withdraw, the sources change, fail to answer or get old
\* while it runs (legal/requirements.py, legal/service.py).
THEOREM VerdictsRestOnFacts == ASSUME SourceNamesDirectives PROVE Spec => []VerdictsAreGrounded
<1>1. IInv /\ [Next]_vars => IInv'
    BY NextInv
<1>2. Init => IInv
    BY InitInv
<1>3. IInv => VerdictsAreGrounded
    BY DEF IInv
<1> QED
    BY <1>1, <1>2, <1>3, PTL DEF Spec

=============================================================================
