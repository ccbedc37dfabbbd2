----------------------- MODULE ExternalActions_proofs -----------------------
(***************************************************************************)
(* The budget ledger, for any set of references, any amounts and any       *)
(* limits: it keeps its totals in step with its movements.  Money is       *)
(* counted with sets, one element of Cents per cent that a movement moves: *)
(* a reservation adds a slice of that set, a settlement takes it away.     *)
(*                                                                         *)
(* The life cycle of external actions, for any sites, requests, executors  *)
(* and sequences: it moves the ledger only as the ledger allows, its       *)
(* reservations follow its outcomes, and no failure it reports on its own  *)
(* had an effect.                                                          *)
(***************************************************************************)
EXTENDS ExternalActions, FiniteSetTheorems, TLAPS

\* A settlement row never exists without the reservation it settles.
SettledWasReserved ==
    \A ref \in References : events[ref].settled # "NO" => events[ref].amount > 0

LedgerInv == LedgerTypeOK /\ SettledWasReserved /\ TotalsMatchEvents

-----------------------------------------------------------------------------
(* Counting *)

\* There are finitely many cents, whatever is held or committed.
LEMMA CentsFinite ==
    IsFiniteSet(Cents) /\ IsFiniteSet(HeldCents) /\ IsFiniteSet(CommittedCents)
<1>1. IsFiniteSet(1..MaxAmount)
  BY LedgerAssumption, FS_Interval
<1>2. IsFiniteSet(Cents)
  BY <1>1, LedgerAssumption, FS_Product DEF Cents
<1>3. HeldCents \in SUBSET Cents /\ CommittedCents \in SUBSET Cents
  BY DEF HeldCents, CommittedCents
<1> QED
  BY <1>2, <1>3, FS_Subset

\* Amounts are counted with sets, one element per cent: those of one reservation.
Slice(ref, a) == {ref} \X (1..a)

\* Adding a slice nobody counted yet adds as many, and taking one away takes as many away.
LEMMA SlicesCount ==
    ASSUME NEW S, IsFiniteSet(S), NEW ref, NEW a \in Nat
    PROVE  /\ S \cap Slice(ref, a) = {} => Cardinality(S \cup Slice(ref, a)) = Cardinality(S) + a
           /\ Slice(ref, a) \subseteq S => /\ Cardinality(S \ Slice(ref, a)) = Cardinality(S) - a
                                         /\ a <= Cardinality(S)
<1>1. IsFiniteSet({ref}) /\ Cardinality({ref}) = 1
  BY FS_Singleton
<1>2. IsFiniteSet(1..a) /\ Cardinality(1..a) = a
  BY FS_Interval
<1>3. IsFiniteSet(Slice(ref, a)) /\ Cardinality(Slice(ref, a)) = a
  <2>1. /\ IsFiniteSet({ref} \X (1..a))
        /\ Cardinality({ref} \X (1..a)) = Cardinality({ref}) * Cardinality(1..a)
    BY <1>1, <1>2, FS_Product
  <2> QED
    BY <1>1, <1>2, <2>1 DEF Slice
<1>4. Cardinality(S) \in Nat
  BY FS_CardinalityType
<1>5. ASSUME S \cap Slice(ref, a) = {}
      PROVE  Cardinality(S \cup Slice(ref, a)) = Cardinality(S) + a
  <2>1. Cardinality(S \cup Slice(ref, a)) =
          Cardinality(S) + Cardinality(Slice(ref, a)) - Cardinality(S \cap Slice(ref, a))
    BY <1>3, FS_Union
  <2>2. Cardinality(S \cap Slice(ref, a)) = 0
    BY <1>5, FS_EmptySet
  <2> QED
    BY <1>3, <1>4, <2>1, <2>2
<1>6. ASSUME Slice(ref, a) \subseteq S
      PROVE  Cardinality(S \ Slice(ref, a)) = Cardinality(S) - a /\ a <= Cardinality(S)
  <2>1. S \cap Slice(ref, a) = Slice(ref, a)
    BY <1>6
  <2>2. Cardinality(S \ Slice(ref, a)) = Cardinality(S) - Cardinality(S \cap Slice(ref, a))
    BY FS_Difference
  <2>3. Cardinality(Slice(ref, a)) <= Cardinality(S)
    BY <1>6, FS_Subset
  <2> QED
    BY <1>3, <2>1, <2>2, <2>3
<1> QED
  BY <1>5, <1>6

-----------------------------------------------------------------------------
(* What each movement does to the sets *)

\* A reservation adds its own slice to what is held and commits nothing.
LEMMA ReserveMovesCents ==
    ASSUME LedgerInv, NEW ref \in References, NEW a \in 1..MaxAmount, reserve(ref, a)
    PROVE  /\ HeldCents' = HeldCents \cup Slice(ref, a)
           /\ HeldCents \cap Slice(ref, a) = {}
           /\ CommittedCents' = CommittedCents
<1> USE LedgerAssumption DEF LedgerInv, LedgerTypeOK, Settlements
<1>1. events[ref].amount = 0 /\ events[ref].settled = "NO"
  BY DEF reserve, SettledWasReserved
<1>2. /\ events'[ref].amount = a /\ events'[ref].settled = "NO"
      /\ \A r \in References : r # ref => events'[r] = events[r]
  BY <1>1 DEF reserve
<1>3. \A c \in Cents : c[1] \in References /\ c[2] \in 1..MaxAmount /\ c = <<c[1], c[2]>>
  BY DEF Cents
<1>4. \A c \in Cents : c \in Slice(ref, a) <=> c[1] = ref /\ c[2] <= a
  BY <1>3 DEF Slice
<1>5. Slice(ref, a) \subseteq Cents
  BY DEF Slice, Cents
<1>6. \A c \in Cents : c[1] = ref => c \notin HeldCents /\ c \notin CommittedCents
  BY <1>1, <1>3 DEF HeldCents, CommittedCents, Live
<1>7. \A c \in Cents : c \in HeldCents' <=> c \in HeldCents \/ c \in Slice(ref, a)
  <2> SUFFICES ASSUME NEW c \in Cents
               PROVE  c \in HeldCents' <=> c \in HeldCents \/ c \in Slice(ref, a)
    OBVIOUS
  <2>1. CASE c[1] = ref
    BY <2>1, <1>2, <1>3, <1>4, <1>6 DEF HeldCents, Live
  <2>2. CASE c[1] # ref
    BY <2>2, <1>2, <1>3, <1>4 DEF HeldCents, Live
  <2> QED
    BY <2>1, <2>2
<1>8. \A c \in Cents : c \in CommittedCents' <=> c \in CommittedCents
  <2> SUFFICES ASSUME NEW c \in Cents
               PROVE  c \in CommittedCents' <=> c \in CommittedCents
    OBVIOUS
  <2>1. CASE c[1] = ref
    BY <2>1, <1>2, <1>6 DEF CommittedCents
  <2>2. CASE c[1] # ref
    BY <2>2, <1>2, <1>3 DEF CommittedCents
  <2> QED
    BY <2>1, <2>2
<1>9. /\ HeldCents \subseteq Cents /\ HeldCents' \subseteq Cents
      /\ CommittedCents \subseteq Cents /\ CommittedCents' \subseteq Cents
  BY DEF HeldCents, CommittedCents, Cents
<1>10. HeldCents \cap Slice(ref, a) = {}
  BY <1>4, <1>5, <1>6
<1> QED
  BY <1>5, <1>7, <1>8, <1>9, <1>10

\* A settlement takes the slice of its reservation from what is held, and adds
\* it to what is committed when it is a COMMIT.
LEMMA MoveMovesCents ==
    ASSUME LedgerInv, NEW ref \in References, NEW a \in 1..MaxAmount,
           NEW kind \in Settlements, move(ref, a, kind)
    PROVE  /\ HeldCents' = HeldCents \ Slice(ref, a)
           /\ Slice(ref, a) \subseteq HeldCents
           /\ CommittedCents' =
                IF kind = "COMMIT" THEN CommittedCents \cup Slice(ref, a) ELSE CommittedCents
           /\ CommittedCents \cap Slice(ref, a) = {}
<1> USE LedgerAssumption DEF LedgerInv, LedgerTypeOK, Settlements
<1>1. events[ref].amount = a /\ events[ref].settled = "NO" /\ a > 0
  BY DEF move, Live, outstanding
<1>2. /\ events'[ref].amount = a /\ events'[ref].settled = kind
      /\ \A r \in References : r # ref => events'[r] = events[r]
  BY <1>1 DEF move
<1>3. \A c \in Cents : c[1] \in References /\ c[2] \in 1..MaxAmount /\ c = <<c[1], c[2]>>
  BY DEF Cents
<1>4. \A c \in Cents : c \in Slice(ref, a) <=> c[1] = ref /\ c[2] <= a
  BY <1>3 DEF Slice
<1>5. Slice(ref, a) \subseteq Cents
  BY DEF Slice, Cents
<1>6. Slice(ref, a) \subseteq HeldCents
  BY <1>1, <1>4, <1>5 DEF HeldCents, Live
<1>7. \A c \in Cents : c \in HeldCents' <=> c \in HeldCents /\ c \notin Slice(ref, a)
  <2> SUFFICES ASSUME NEW c \in Cents
               PROVE  c \in HeldCents' <=> c \in HeldCents /\ c \notin Slice(ref, a)
    OBVIOUS
  <2>1. CASE c[1] = ref
    BY <2>1, <1>1, <1>2, <1>4 DEF HeldCents, Live
  <2>2. CASE c[1] # ref
    BY <2>2, <1>2, <1>3, <1>4 DEF HeldCents, Live
  <2> QED
    BY <2>1, <2>2
<1>8. \A c \in Cents : c \in CommittedCents' <=>
          c \in CommittedCents \/ (kind = "COMMIT" /\ c \in Slice(ref, a))
  <2> SUFFICES ASSUME NEW c \in Cents
               PROVE  c \in CommittedCents' <=>
                        c \in CommittedCents \/ (kind = "COMMIT" /\ c \in Slice(ref, a))
    OBVIOUS
  <2>1. CASE c[1] = ref
    BY <2>1, <1>1, <1>2, <1>4 DEF CommittedCents
  <2>2. CASE c[1] # ref
    BY <2>2, <1>2, <1>3, <1>4 DEF CommittedCents
  <2> QED
    BY <2>1, <2>2
<1>9. /\ HeldCents \subseteq Cents /\ HeldCents' \subseteq Cents
      /\ CommittedCents \subseteq Cents /\ CommittedCents' \subseteq Cents
  BY DEF HeldCents, CommittedCents, Cents
<1>10. CommittedCents \cap Slice(ref, a) = {}
  BY <1>1, <1>4, <1>5 DEF CommittedCents
<1> QED
  BY <1>5, <1>6, <1>7, <1>8, <1>9, <1>10

-----------------------------------------------------------------------------
(* The inductive invariant *)

LEMMA LedgerInitInv == LedgerInit => LedgerInv
<1> SUFFICES ASSUME LedgerInit PROVE LedgerInv
  OBVIOUS
<1> USE LedgerAssumption DEF LedgerInit, NoEvents
<1>1. LedgerTypeOK
  BY DEF LedgerTypeOK
<1>2. SettledWasReserved
  BY DEF SettledWasReserved
<1>3. HeldCents = {} /\ CommittedCents = {}
  BY DEF HeldCents, CommittedCents, Cents, Live
<1> QED
  BY <1>1, <1>2, <1>3, FS_EmptySet DEF LedgerInv, TotalsMatchEvents

\* The ceiling is nobody's business but the owner's: totals and movements stay.
LEMMA LedgerUnchanged ==
    ASSUME LedgerInv, limit' \in Limits \cup {0}, UNCHANGED <<totals, events>>
    PROVE  LedgerInv'
<1>1. LedgerTypeOK'
  BY DEF LedgerInv, LedgerTypeOK
<1>2. SettledWasReserved'
  BY DEF LedgerInv, SettledWasReserved
<1>3. HeldCents' = HeldCents /\ CommittedCents' = CommittedCents
  BY DEF HeldCents, CommittedCents, Live
<1> QED
  BY <1>1, <1>2, <1>3 DEF LedgerInv, TotalsMatchEvents

LEMMA ReserveKeepsInv ==
    ASSUME LedgerInv, NEW ref \in References, NEW a \in 1..MaxAmount, reserve(ref, a)
    PROVE  LedgerInv'
<1> USE LedgerAssumption
<1>1. LedgerTypeOK'
  BY DEF LedgerInv, LedgerTypeOK, reserve
<1>2. SettledWasReserved'
  BY DEF LedgerInv, LedgerTypeOK, SettledWasReserved, reserve
<1>3. Cardinality(HeldCents') = Cardinality(HeldCents) + a
  BY ReserveMovesCents, CentsFinite, SlicesCount
<1>4. Cardinality(CommittedCents') = Cardinality(CommittedCents)
  BY ReserveMovesCents
<1>5. totals'.reserved = totals.reserved + a /\ totals'.committed = totals.committed
  BY DEF reserve, LedgerInv, LedgerTypeOK
<1> QED
  BY <1>1, <1>2, <1>3, <1>4, <1>5 DEF LedgerInv, TotalsMatchEvents

\* A settlement never meets the floor of the code: what it settles was counted
\* in `reserved`.
LEMMA MoveSettlesWhatIsHeld ==
    ASSUME LedgerInv, NEW ref \in References, NEW a \in 1..MaxAmount,
           NEW kind \in Settlements, move(ref, a, kind)
    PROVE  /\ totals'.reserved = totals.reserved - a
           /\ totals'.committed = totals.committed + (IF kind = "COMMIT" THEN a ELSE 0)
           /\ Cardinality(HeldCents') = totals'.reserved
           /\ Cardinality(CommittedCents') = totals'.committed
<1> USE LedgerAssumption
<1>1. totals.reserved \in Nat /\ totals.committed \in Nat
  BY DEF LedgerInv, LedgerTypeOK
<1>2. /\ Cardinality(HeldCents) = totals.reserved
      /\ Cardinality(CommittedCents) = totals.committed
  BY DEF LedgerInv, TotalsMatchEvents
<1>3. Cardinality(HeldCents') = Cardinality(HeldCents) - a /\ a <= Cardinality(HeldCents)
  <2>1. HeldCents' = HeldCents \ Slice(ref, a) /\ Slice(ref, a) \subseteq HeldCents
    BY MoveMovesCents
  <2>2. IsFiniteSet(HeldCents) /\ a \in Nat
    BY CentsFinite
  <2>3. Cardinality(HeldCents \ Slice(ref, a)) = Cardinality(HeldCents) - a /\ a <= Cardinality(HeldCents)
    BY <2>1, <2>2, SlicesCount
  <2> QED
    BY <2>1, <2>3
<1>4. Cardinality(CommittedCents') =
        Cardinality(CommittedCents) + (IF kind = "COMMIT" THEN a ELSE 0)
  <2>1. CASE kind = "COMMIT"
    BY <2>1, MoveMovesCents, CentsFinite, SlicesCount
  <2>2. CASE kind # "COMMIT"
    <3>1. CommittedCents' = CommittedCents
      BY <2>2, MoveMovesCents
    <3> QED
      BY <3>1, <2>2, <1>1, <1>2
  <2> QED
    BY <2>1, <2>2
<1>5. totals' = Settled(kind, a)
  BY DEF move
<1>6. /\ totals'.reserved = totals.reserved - a
      /\ totals'.committed = totals.committed + (IF kind = "COMMIT" THEN a ELSE 0)
  BY <1>1, <1>2, <1>3, <1>5 DEF Settled
<1> QED
  BY <1>2, <1>3, <1>4, <1>6

LEMMA MoveKeepsInv ==
    ASSUME LedgerInv, NEW ref \in References, NEW a \in 1..MaxAmount,
           NEW kind \in Settlements, move(ref, a, kind)
    PROVE  LedgerInv'
<1> USE LedgerAssumption
<1>1. totals' \in [reserved: Nat, committed: Nat]
  BY DEF move, Settled, LedgerInv, LedgerTypeOK
<1>2. LedgerTypeOK'
  BY <1>1 DEF LedgerInv, LedgerTypeOK, move, Settlements
<1>3. SettledWasReserved'
  BY DEF LedgerInv, LedgerTypeOK, SettledWasReserved, move, Live
<1>4. TotalsMatchEvents'
  BY MoveSettlesWhatIsHeld DEF TotalsMatchEvents
<1> QED
  BY <1>2, <1>3, <1>4 DEF LedgerInv

LEMMA LedgerStepInv == LedgerInv /\ [LedgerNext]_ledgerVars => LedgerInv'
<1> SUFFICES ASSUME LedgerInv, [LedgerNext]_ledgerVars PROVE LedgerInv'
  OBVIOUS
<1>1. ASSUME NEW h \in Limits, authorise_budget(h) PROVE LedgerInv'
  BY <1>1, LedgerUnchanged DEF authorise_budget
<1>2. ASSUME NEW ref \in References, NEW a \in 1..MaxAmount, reserve(ref, a) PROVE LedgerInv'
  BY <1>2, ReserveKeepsInv
<1>3. ASSUME NEW ref \in References, NEW a \in 1..MaxAmount, NEW kind \in Settlements,
             move(ref, a, kind)
      PROVE LedgerInv'
  BY <1>3, MoveKeepsInv
<1>4. CASE UNCHANGED ledgerVars
  <2>1. limit' \in Limits \cup {0} /\ UNCHANGED <<totals, events>>
    BY <1>4 DEF ledgerVars, LedgerInv, LedgerTypeOK
  <2> QED
    BY <2>1, LedgerUnchanged
<1> QED
  BY <1>1, <1>2, <1>3, <1>4 DEF LedgerNext

\* The running totals always are what the movements add up to, and the ledger
\* keeps its shape, for every set of references, amount and limit.
THEOREM LedgerTotals == LedgerSpec => [](LedgerTypeOK /\ TotalsMatchEvents)
<1>1. LedgerInv => LedgerTypeOK /\ TotalsMatchEvents
  BY DEF LedgerInv
<1> QED
  BY <1>1, LedgerInitInv, LedgerStepInv, PTL DEF LedgerSpec

-----------------------------------------------------------------------------
(* What no step of the ledger may do *)

\* No step touches the rows of a settled reference.
LEMMA SettledOnceStep ==
    ASSUME LedgerInv, [LedgerNext]_ledgerVars, NEW ref \in References,
           events[ref].settled # "NO"
    PROVE  events'[ref] = events[ref]
<1> USE DEF LedgerInv, LedgerTypeOK
<1>1. ASSUME NEW h \in Limits, authorise_budget(h) PROVE events'[ref] = events[ref]
  BY <1>1 DEF authorise_budget
<1>2. ASSUME NEW r \in References, NEW a \in 1..MaxAmount, reserve(r, a)
      PROVE  events'[ref] = events[ref]
  BY <1>2 DEF reserve, SettledWasReserved
<1>3. ASSUME NEW r \in References, NEW a \in 1..MaxAmount, NEW kind \in Settlements,
             move(r, a, kind)
      PROVE  events'[ref] = events[ref]
  BY <1>3 DEF move, Live
<1>4. CASE UNCHANGED ledgerVars
  BY <1>4 DEF ledgerVars
<1> QED
  BY <1>1, <1>2, <1>3, <1>4 DEF LedgerNext

\* A reference is settled once and reserved once, whoever retries.
THEOREM LedgerSettlesOnce == LedgerSpec => SettledOnce
<1>1. LedgerInv /\ [LedgerNext]_ledgerVars =>
        [\A ref \in References :
            events[ref].settled # "NO" => events'[ref] = events[ref]]_ledgerVars
  BY SettledOnceStep
<1> QED
  BY <1>1, LedgerInitInv, LedgerStepInv, PTL DEF LedgerSpec, SettledOnce

\* Only a reservation makes what is held and committed larger, and it fits.
LEMMA GrowthFits ==
    ASSUME LedgerInv, [LedgerNext]_ledgerVars,
           totals'.reserved + totals'.committed > totals.reserved + totals.committed
    PROVE  totals'.reserved + totals'.committed <= limit'
<1> USE LedgerAssumption
<1>0. totals.reserved \in Nat /\ totals.committed \in Nat /\ limit \in Nat
  BY DEF LedgerInv, LedgerTypeOK
<1>1. ASSUME NEW h \in Limits, authorise_budget(h) PROVE FALSE
  BY <1>1, <1>0 DEF authorise_budget
<1>2. ASSUME NEW r \in References, NEW a \in 1..MaxAmount, reserve(r, a)
      PROVE  totals'.reserved + totals'.committed <= limit'
  <2>1. totals'.reserved = totals.reserved + a /\ totals'.committed = totals.committed
    BY <1>2 DEF reserve, LedgerInv, LedgerTypeOK
  <2>2. limit - totals.reserved - totals.committed >= a /\ limit' = limit
    BY <1>2 DEF reserve, Fits
  <2> QED
    BY <2>1, <2>2, <1>0
<1>3. ASSUME NEW r \in References, NEW a \in 1..MaxAmount, NEW kind \in Settlements,
             move(r, a, kind)
      PROVE  FALSE
  <2>1. /\ totals'.reserved = totals.reserved - a
        /\ totals'.committed = totals.committed + (IF kind = "COMMIT" THEN a ELSE 0)
    BY <1>3, MoveSettlesWhatIsHeld
  <2> QED
    BY <2>1, <1>0
<1>4. CASE UNCHANGED ledgerVars
  BY <1>4, <1>0 DEF ledgerVars
<1> QED
  BY <1>1, <1>2, <1>3, <1>4 DEF LedgerNext

\* What is held and committed never grows past the limit of that moment.
THEOREM LedgerRespectsLimit == LedgerSpec => NeverGrowsPastLimit
<1>1. LedgerInv /\ [LedgerNext]_ledgerVars =>
        [LET held == totals.reserved + totals.committed
             next == totals'.reserved + totals'.committed
         IN  next > held => next <= limit']_ledgerVars
  BY GrowthFits
<1> QED
  BY <1>1, LedgerInitInv, LedgerStepInv, PTL DEF LedgerSpec, NeverGrowsPastLimit

-----------------------------------------------------------------------------
(* The ledger: every step of the life cycle is a step of the ledger or     *)
(* leaves it alone.                                                        *)

LEMMA ReserveForIsALedgerStep ==
    ASSUME NEW op \in Operations, NEW q \in Requests, ReserveFor(op, q)
    PROVE  [LedgerNext]_ledgerVars
<1> USE LedgerAssumption, ActionsAssumption
<1>1. CASE UNCHANGED ledgerVars
  BY <1>1
<1>2. CASE Spends(q) /\ reserve(op, Amount[q])
  <2>1. Amount[q] \in 1..MaxAmount
    BY <1>2 DEF Spends
  <2> QED
    BY <2>1, <1>2 DEF LedgerNext
<1> QED
  BY <1>1, <1>2 DEF ReserveFor

LEMMA MoveLedgerIsALedgerStep ==
    ASSUME LedgerTypeOK, NEW op \in Operations, NEW kind \in Settlements, MoveLedger(op, kind)
    PROVE  [LedgerNext]_ledgerVars
<1> USE LedgerAssumption, ActionsAssumption
<1>1. CASE outstanding(op) > 0
  <2>1. outstanding(op) \in 1..MaxAmount
    BY <1>1 DEF outstanding, LedgerTypeOK
  <2> QED
    BY <2>1, <1>1 DEF LedgerNext, MoveLedger
<1>2. CASE ~(outstanding(op) > 0)
  BY <1>2 DEF MoveLedger
<1> QED
  BY <1>1, <1>2

\* A calling session is bound to an operation.
LEMMA BoundSession ==
    ASSUME ActionsTypeOK, NEW e \in Executors, session[e].pc # "idle"
    PROVE  session[e] \in Sessions
BY DEF ActionsTypeOK, Idle

LEMMA StepMovesTheLedger ==
    LedgerTypeOK /\ ActionsTypeOK /\ [Next]_vars => [LedgerNext]_ledgerVars
<1> SUFFICES ASSUME LedgerTypeOK, ActionsTypeOK, [Next]_vars PROVE [LedgerNext]_ledgerVars
  OBVIOUS
<1> USE DEF Settlements, Settlement
<1>1. ASSUME NEW e \in Executors, ExecutorStep(e) PROVE [LedgerNext]_ledgerVars
  <2>1. ASSUME NEW s \in Sites, NEW q \in Requests, OpenNew(e, s, q)
        PROVE  [LedgerNext]_ledgerVars
    <3>1. PICK n \in 0..(MaxSequence - 1) : ReserveFor(<<s, n + 1>>, q)
      BY <2>1 DEF OpenNew
    <3>2. <<s, n + 1>> \in Operations
      BY ActionsAssumption DEF Operations
    <3> QED
      BY <3>1, <3>2, ReserveForIsALedgerStep
  <2>2. ASSUME NEW s \in Sites, NEW q \in Requests, OpenAgain(e, s, q)
        PROVE  [LedgerNext]_ledgerVars
    <3>1. PICK n \in 1..MaxSequence : ReserveFor(<<s, n>>, q) \/ UNCHANGED ledgerVars
      BY <2>2 DEF OpenAgain
    <3>2. <<s, n>> \in Operations
      BY DEF Operations
    <3> QED
      BY <3>1, <3>2, ReserveForIsALedgerStep
  <2>3. ASSUME NEW to \in Statuses, Finish(e, to) PROVE [LedgerNext]_ledgerVars
    <3>1. session[e].op \in Operations
      BY <2>3, BoundSession DEF Finish, Sessions
    <3>2. \/ MoveLedger(session[e].op, Settlement(to))
          \/ UNCHANGED ledgerVars
      BY <2>3 DEF Finish
    <3> QED
      BY <3>1, <3>2, MoveLedgerIsALedgerStep
  <2>4. ASSUME NEW to \in Statuses, FinishRefused(e, to) PROVE [LedgerNext]_ledgerVars
    BY <2>4 DEF FinishRefused
  <2>5. CASE Begin(e) \/ BeginRefused(e) \/ AlreadyDone(e) \/ MarkApplied(e) \/ Crash(e)
    BY <2>5 DEF Begin, BeginRefused, AlreadyDone, MarkApplied, Crash
  <2> QED
    BY <1>1, <2>1, <2>2, <2>3, <2>4, <2>5 DEF ExecutorStep
<1>2. CASE ReconcilerStep
  <2>1. ASSUME NEW op \in Operations, NEW to, NEW by, CloseUnknown(op, to, by)
        PROVE  [LedgerNext]_ledgerVars
    BY <2>1, MoveLedgerIsALedgerStep DEF CloseUnknown
  <2>2. ASSUME NEW op \in Operations, SweepPending(op) PROVE [LedgerNext]_ledgerVars
    BY <2>2, MoveLedgerIsALedgerStep DEF SweepPending
  <2>3. ASSUME NEW op \in Operations, SweepCalling(op) \/ ReplaySend(op)
        PROVE  [LedgerNext]_ledgerVars
    BY <2>3 DEF SweepCalling, ReplaySend
  <2>4. ASSUME NEW s \in Sites, MarkInterrupted(s) PROVE [LedgerNext]_ledgerVars
    BY <2>4 DEF MarkInterrupted
  <2>5. ASSUME NEW op \in Operations, LookupReconcile(op) \/ ReplayAnswer(op)
        PROVE  [LedgerNext]_ledgerVars
    BY <2>5, <2>1 DEF LookupReconcile, ReplayAnswer
  <2>6. ASSUME NEW op \in Operations, NEW succeeded \in BOOLEAN, Resolve(op, succeeded)
        PROVE  [LedgerNext]_ledgerVars
    BY <2>6, <2>1 DEF Resolve
  <2> QED
    BY <1>2, <2>2, <2>3, <2>4, <2>5, <2>6 DEF ReconcilerStep
<1>3. CASE EnvironmentStep
  BY <1>3 DEF EnvironmentStep, SwitchTo, Authorise, ProviderExecutes, ProviderIgnores, LedgerNext
<1>4. CASE UNCHANGED vars
  BY <1>4 DEF vars
<1> QED
  BY <1>1, <1>2, <1>3, <1>4 DEF Next

-----------------------------------------------------------------------------
(* The shape of the state *)

\* What a compare-and-set that goes through leaves: one row changed, and it was
\* in one of the expected statuses.
LEMMA TransitionFacts ==
    ASSUME ActionsTypeOK, NEW op \in Operations, NEW expected \in SUBSET OpenStatuses,
           NEW to \in Statuses, NEW by \in Closers, Transition(op, expected, to, by)
    PROVE  /\ row[op].status \in expected
           /\ row[op] \in Rows
           /\ row' \in [Operations -> Rows \cup {NoRow}]
           /\ row'[op] = [status |-> to, request |-> row[op].request,
                          applied |-> row[op].applied, by |-> by]
           /\ \A o \in Operations : o # op => row'[o] = row[o]
<1> USE DEF ActionsTypeOK, OpenStatuses, Statuses, ClosedStatuses, NoRow
<1>1. row[op].status \in expected /\ row[op] \in Rows
  BY DEF Transition
<1>2. row'[op] = [status |-> to, request |-> row[op].request,
                  applied |-> row[op].applied, by |-> by]
  BY <1>1 DEF Transition, Rows
<1>3. row'[op] \in Rows
  BY <1>1, <1>2 DEF Rows
<1>4. \A o \in Operations : o # op => row'[o] = row[o]
  BY DEF Transition
<1>5. row' \in [Operations -> Rows \cup {NoRow}]
  BY <1>3 DEF Transition
<1> QED
  BY <1>1, <1>2, <1>4, <1>5

\* What opening a new operation leaves.
LEMMA OpenNewFacts ==
    ASSUME ActionsTypeOK, NEW e \in Executors, NEW s \in Sites, NEW q \in Requests,
           OpenNew(e, s, q)
    PROVE  \E n \in 0..(MaxSequence - 1) :
             /\ <<s, n + 1>> \in Operations
             /\ row[<<s, n + 1>>].status = "NONE"
             /\ IsLatest(s, n)
             /\ n > 0 => ~StillOwnsTheSite(<<s, n>>)
             /\ row'[<<s, n + 1>>] = Pending(q)
             /\ \A o \in Operations : o # <<s, n + 1>> => row'[o] = row[o]
             /\ row' \in [Operations -> Rows \cup {NoRow}]
             /\ ReserveFor(<<s, n + 1>>, q)
             /\ Put(e, "ready", <<s, n + 1>>, "PENDING")
<1> USE ActionsAssumption
<1>1. PICK n \in 0..(MaxSequence - 1) :
        /\ IsLatest(s, n)
        /\ n > 0 => ~StillOwnsTheSite(<<s, n>>)
        /\ row' = [row EXCEPT ![<<s, n + 1>>] = Pending(q)]
        /\ ReserveFor(<<s, n + 1>>, q)
        /\ Put(e, "ready", <<s, n + 1>>, "PENDING")
  BY DEF OpenNew
<1>2. <<s, n + 1>> \in Operations
  BY DEF Operations
<1>3. n + 1 \in 1..MaxSequence /\ n + 1 \notin 1..n
  OBVIOUS
<1>4. row[<<s, n + 1>>].status = "NONE"
  BY <1>1, <1>3 DEF IsLatest, Opened, Exists
<1>5. Pending(q) \in Rows
  BY DEF Pending, Rows, Statuses, OpenStatuses, Closers
<1>6. /\ row'[<<s, n + 1>>] = Pending(q)
      /\ \A o \in Operations : o # <<s, n + 1>> => row'[o] = row[o]
      /\ row' \in [Operations -> Rows \cup {NoRow}]
  BY <1>1, <1>2, <1>5 DEF ActionsTypeOK
<1> QED
  BY <1>1, <1>2, <1>4, <1>6

LEMMA PutType ==
    ASSUME ActionsTypeOK, NEW e \in Executors, NEW pc \in {"ready", "calling", "finished"},
           NEW op \in Operations, NEW seen \in Statuses, Put(e, pc, op, seen)
    PROVE  session' \in [Executors -> Sessions \cup {Idle}]
<1>1. [pc |-> pc, op |-> op, seen |-> seen] \in Sessions
  BY DEF Sessions
<1> QED
  BY <1>1 DEF Put, ActionsTypeOK

LEMMA QuitType ==
    ASSUME ActionsTypeOK, NEW e \in Executors, Quit(e)
    PROVE  session' \in [Executors -> Sessions \cup {Idle}]
BY DEF Quit, ActionsTypeOK

\* How the row of an operation may move: it is opened, goes from an open status
\* to another one, or its result is recorded.
RowMove ==
    \/ UNCHANGED row
    \/ \E e \in Executors, s \in Sites, q \in Requests : OpenNew(e, s, q)
    \/ \E op \in Operations, to \in Statuses, by \in Closers : Transition(op, OpenStatuses, to, by)
    \/ \E op \in Operations :
         Exists(op) /\ row' = [row EXCEPT ![op].applied = TRUE]

\* An executor is only ever busy with an operation that was opened.
SessionsHaveRows ==
    \A e \in Executors : session[e].pc # "idle" => Exists(session[e].op)

LEMMA StepMovesRows ==
    ActionsTypeOK /\ SessionsHaveRows /\ [Next]_vars => RowMove
<1> SUFFICES ASSUME ActionsTypeOK, SessionsHaveRows, [Next]_vars PROVE RowMove
  OBVIOUS
<1>0. ASSUME NEW op \in Operations, NEW expected \in SUBSET OpenStatuses, NEW to \in Statuses,
             NEW by \in Closers, Transition(op, expected, to, by)
      PROVE  RowMove
  <2>1. Transition(op, OpenStatuses, to, by)
    BY <1>0 DEF Transition
  <2> QED
    BY <2>1 DEF RowMove
<1> USE DEF Statuses, OpenStatuses, ClosedStatuses, Closers
<1>1. ASSUME NEW e \in Executors, ExecutorStep(e) PROVE RowMove
  <2>1. ASSUME NEW s \in Sites, NEW q \in Requests, OpenNew(e, s, q) PROVE RowMove
    BY <2>1 DEF RowMove
  <2>2. ASSUME NEW s \in Sites, NEW q \in Requests, OpenAgain(e, s, q) PROVE RowMove
    BY <2>2 DEF OpenAgain, RowMove
  <2>3. CASE Begin(e)
    <3>1. session[e].op \in Operations
      BY <2>3, BoundSession DEF Begin, Sessions
    <3>2. Transition(session[e].op, {"PENDING"}, "CALLING", "nobody")
      BY <2>3 DEF Begin
    <3> QED
      BY <3>1, <3>2, <1>0
  <2>4. ASSUME NEW to \in Statuses, Finish(e, to) PROVE RowMove
    <3>1. session[e].op \in Operations
      BY <2>4, BoundSession DEF Finish, Sessions
    <3>2. \/ Transition(session[e].op, {"CALLING", "UNKNOWN_OUTCOME"}, to, CloserOf(e))
          \/ Transition(session[e].op, {"CALLING"}, to, "nobody")
      BY <2>4 DEF Finish
    <3>3. CloserOf(e) \in Closers
      BY DEF CloserOf
    <3> QED
      BY <3>1, <3>2, <3>3, <1>0
  <2>5. CASE MarkApplied(e)
    <3>1. session[e].op \in Operations /\ Exists(session[e].op)
      BY <2>5, BoundSession DEF MarkApplied, Sessions, SessionsHaveRows
    <3> QED
      BY <2>5, <3>1 DEF MarkApplied, RowMove
  <2>6. ASSUME NEW to \in Statuses, FinishRefused(e, to) PROVE RowMove
    BY <2>6 DEF FinishRefused, RowMove
  <2>7. CASE BeginRefused(e) \/ AlreadyDone(e) \/ Crash(e)
    BY <2>7 DEF BeginRefused, AlreadyDone, Crash, RowMove
  <2> QED
    BY <1>1, <2>1, <2>2, <2>3, <2>4, <2>5, <2>6, <2>7 DEF ExecutorStep
<1>2. CASE ReconcilerStep
  <2>1. ASSUME NEW op \in Operations, SweepPending(op) PROVE RowMove
    <3>1. Transition(op, {"PENDING"}, "FAILED_CONFIRMED", "sweep")
      BY <2>1 DEF SweepPending
    <3> QED
      BY <3>1, <1>0
  <2>2. ASSUME NEW op \in Operations, SweepCalling(op) PROVE RowMove
    <3>1. Transition(op, {"CALLING"}, "UNKNOWN_OUTCOME", "nobody")
      BY <2>2 DEF SweepCalling
    <3> QED
      BY <3>1, <1>0
  <2>3. ASSUME NEW s \in Sites, MarkInterrupted(s) PROVE RowMove
    <3>1. PICK n \in 1..MaxSequence : Transition(<<s, n>>, {"CALLING"}, "UNKNOWN_OUTCOME", "nobody")
      BY <2>3 DEF MarkInterrupted
    <3>2. <<s, n>> \in Operations
      BY DEF Operations
    <3> QED
      BY <3>1, <3>2, <1>0
  <2>4. ASSUME NEW op \in Operations, ReplaySend(op) PROVE RowMove
    BY <2>4 DEF ReplaySend, RowMove
  <2>5. ASSUME NEW op \in Operations, NEW to \in Statuses, NEW by \in Closers,
               CloseUnknown(op, to, by)
        PROVE  RowMove
    <3>1. Transition(op, {"UNKNOWN_OUTCOME"}, to, by)
      BY <2>5 DEF CloseUnknown
    <3> QED
      BY <3>1, <1>0
  <2>6. ASSUME NEW op \in Operations, LookupReconcile(op) \/ ReplayAnswer(op) PROVE RowMove
    BY <2>6, <2>5 DEF LookupReconcile, ReplayAnswer
  <2>7. ASSUME NEW op \in Operations, NEW succeeded \in BOOLEAN, Resolve(op, succeeded)
        PROVE  RowMove
    BY <2>7, <2>5 DEF Resolve
  <2> QED
    BY <1>2, <2>1, <2>2, <2>3, <2>4, <2>6, <2>7 DEF ReconcilerStep
<1>3. CASE EnvironmentStep
  BY <1>3 DEF EnvironmentStep, SwitchTo, Authorise, ProviderExecutes, ProviderIgnores, RowMove,
              actionVars
<1>4. CASE UNCHANGED vars
  BY <1>4 DEF vars, actionVars, RowMove
<1> QED
  BY <1>1, <1>2, <1>3, <1>4 DEF Next

\* What every such move guarantees, whichever it was: rows keep their shape and
\* are never lost, and a closed operation keeps its outcome.
LEMMA RowMoveFacts ==
    ASSUME ActionsTypeOK, RowMove
    PROVE  /\ row' \in [Operations -> Rows \cup {NoRow}]
           /\ \A op \in Operations : Exists(op) => Exists(op)'
           /\ \A op \in Operations :
                row[op].status \in ClosedStatuses =>
                    /\ row'[op].status = row[op].status
                    /\ row'[op].request = row[op].request
                    /\ row'[op].by = row[op].by
                    /\ row[op].applied => row'[op].applied
<1>0. ASSUME NEW op \in Operations, NEW to \in Statuses, NEW by \in Closers,
             Transition(op, OpenStatuses, to, by)
      PROVE  /\ row[op].status \in OpenStatuses
             /\ row' \in [Operations -> Rows \cup {NoRow}]
             /\ row'[op].status = to
             /\ \A o \in Operations : o # op => row'[o] = row[o]
  <2>1. OpenStatuses \in SUBSET OpenStatuses
    OBVIOUS
  <2>2. /\ row[op].status \in OpenStatuses
        /\ row' \in [Operations -> Rows \cup {NoRow}]
        /\ row'[op] = [status |-> to, request |-> row[op].request,
                       applied |-> row[op].applied, by |-> by]
        /\ \A o \in Operations : o # op => row'[o] = row[o]
    BY <1>0, <2>1, TransitionFacts
  <2> QED
    BY <2>2
<1> USE DEF Exists, OpenStatuses, ClosedStatuses, Statuses, NoRow
<1>1. CASE UNCHANGED row
  BY <1>1 DEF ActionsTypeOK
<1>2. CASE \E e \in Executors, s \in Sites, q \in Requests : OpenNew(e, s, q)
  <2>1. PICK e \in Executors, s \in Sites, q \in Requests : OpenNew(e, s, q)
    BY <1>2
  <2>2. PICK n \in 0..(MaxSequence - 1) :
          /\ <<s, n + 1>> \in Operations
          /\ row[<<s, n + 1>>].status = "NONE"
          /\ row'[<<s, n + 1>>] = Pending(q)
          /\ \A o \in Operations : o # <<s, n + 1>> => row'[o] = row[o]
          /\ row' \in [Operations -> Rows \cup {NoRow}]
    BY <2>1, OpenNewFacts
  <2> QED
    BY <2>2 DEF Pending
<1>3. CASE \E op \in Operations, to \in Statuses, by \in Closers :
             Transition(op, OpenStatuses, to, by)
  <2>1. PICK op \in Operations, to \in Statuses, by \in Closers :
          Transition(op, OpenStatuses, to, by)
    BY <1>3
  <2>2. /\ row[op].status \in OpenStatuses
        /\ row' \in [Operations -> Rows \cup {NoRow}]
        /\ row'[op].status = to
        /\ \A o \in Operations : o # op => row'[o] = row[o]
    BY <2>1, <1>0
  <2> QED
    BY <2>2
<1>4. CASE \E op \in Operations : Exists(op) /\ row' = [row EXCEPT ![op].applied = TRUE]
  <2>1. PICK op \in Operations : Exists(op) /\ row' = [row EXCEPT ![op].applied = TRUE]
    BY <1>4
  <2>2. row[op] \in Rows
    BY <2>1 DEF ActionsTypeOK
  <2>3. row'[op] = [row[op] EXCEPT !.applied = TRUE] /\ row'[op] \in Rows
    BY <2>1, <2>2 DEF ActionsTypeOK, Rows
  <2>4. /\ \A o \in Operations : o # op => row'[o] = row[o]
        /\ row' \in [Operations -> Rows \cup {NoRow}]
    BY <2>1, <2>3 DEF ActionsTypeOK
  <2> QED
    BY <2>2, <2>3, <2>4 DEF Rows
<1> QED
  BY <1>1, <1>2, <1>3, <1>4 DEF RowMove

LEMMA SessionsKept ==
    ASSUME ActionsTypeOK, SessionsHaveRows, RowMove, NEW e \in Executors,
           \A x \in Executors : x # e => session'[x] = session[x],
           session'[e].pc # "idle" => row'[session'[e].op].status # "NONE"
    PROVE  SessionsHaveRows'
<1> SUFFICES ASSUME NEW x \in Executors, session'[x].pc # "idle"
             PROVE  row'[session'[x].op].status # "NONE"
  BY DEF SessionsHaveRows, Exists
<1>1. CASE x = e
  BY <1>1
<1>2. CASE x # e
  <2>1. session'[x] = session[x] /\ session[x].pc # "idle"
    BY <1>2
  <2>2. session[x].op \in Operations /\ Exists(session[x].op)
    BY <2>1, BoundSession DEF Sessions, SessionsHaveRows
  <2> QED
    BY <2>1, <2>2, RowMoveFacts DEF Exists
<1> QED
  BY <1>1, <1>2

LEMMA StepKeepsSessions ==
    ActionsTypeOK /\ SessionsHaveRows /\ [Next]_vars =>
        SessionsHaveRows' /\ session' \in [Executors -> Sessions \cup {Idle}]
<1> SUFFICES ASSUME ActionsTypeOK, SessionsHaveRows, [Next]_vars
             PROVE  SessionsHaveRows' /\ session' \in [Executors -> Sessions \cup {Idle}]
  OBVIOUS
<1> DEFINE Goal == SessionsHaveRows' /\ session' \in [Executors -> Sessions \cup {Idle}]
<1>0. RowMove
  BY StepMovesRows
<1>1. ASSUME UNCHANGED session PROVE Goal
  <2>1. session' \in [Executors -> Sessions \cup {Idle}]
    BY <1>1 DEF ActionsTypeOK
  <2>2. ASSUME NEW x \in Executors, session[x].pc # "idle"
        PROVE  row'[session[x].op].status # "NONE"
    <3>1. session[x].op \in Operations /\ Exists(session[x].op)
      BY <2>2, BoundSession DEF Sessions, SessionsHaveRows
    <3> QED
      BY <1>1, <3>1, <1>0, RowMoveFacts DEF Exists
  <2> QED
    BY <1>1, <2>1, <2>2 DEF SessionsHaveRows, Exists
<1>2. ASSUME NEW e \in Executors, Quit(e) PROVE Goal
  <2>1. session' \in [Executors -> Sessions \cup {Idle}]
    BY <1>2, QuitType
  <2>2. session'[e].pc = "idle" /\ \A x \in Executors : x # e => session'[x] = session[x]
    BY <1>2 DEF Quit, ActionsTypeOK, Idle
  <2> QED
    BY <2>1, <2>2, <1>0, SessionsKept
<1>3. ASSUME NEW e \in Executors, NEW pc \in {"ready", "calling", "finished"},
             NEW op \in Operations, NEW seen \in Statuses, Put(e, pc, op, seen),
             row'[op].status # "NONE"
      PROVE  Goal
  <2>1. session' \in [Executors -> Sessions \cup {Idle}]
    BY <1>3, PutType
  <2>2. session'[e] = [pc |-> pc, op |-> op, seen |-> seen]
    BY <1>3 DEF Put, ActionsTypeOK
  <2>3. \A x \in Executors : x # e => session'[x] = session[x]
    BY <1>3 DEF Put, ActionsTypeOK
  <2> QED
    BY <2>1, <2>2, <2>3, <1>3, <1>0, SessionsKept
<1>4. ASSUME NEW e \in Executors, ExecutorStep(e) PROVE Goal
  <2>0. ASSUME session[e].pc # "idle"
        PROVE  /\ session[e] \in Sessions /\ session[e].op \in Operations
               /\ session[e].seen \in Statuses
               /\ row'[session[e].op].status # "NONE"
    <3>1. session[e] \in Sessions /\ session[e].op \in Operations /\ session[e].seen \in Statuses
      BY <2>0, BoundSession DEF Sessions
    <3>2. Exists(session[e].op)
      BY <2>0 DEF SessionsHaveRows
    <3> QED
      BY <3>1, <3>2, <1>0, RowMoveFacts DEF Exists
  <2>1. ASSUME NEW s \in Sites, NEW q \in Requests, OpenNew(e, s, q) PROVE Goal
    <3>1. PICK n \in 0..(MaxSequence - 1) :
            /\ <<s, n + 1>> \in Operations
            /\ row'[<<s, n + 1>>] = Pending(q)
            /\ Put(e, "ready", <<s, n + 1>>, "PENDING")
      BY <2>1, OpenNewFacts
    <3>2. row'[<<s, n + 1>>].status # "NONE"
      BY <3>1 DEF Pending
    <3>3. "PENDING" \in Statuses
      BY DEF Statuses, OpenStatuses
    <3> QED
      BY <3>1, <3>2, <3>3, <1>3
  <2>2. ASSUME NEW s \in Sites, NEW q \in Requests, OpenAgain(e, s, q) PROVE Goal
    <3>1. PICK n \in 1..MaxSequence :
            /\ StillOwnsTheSite(<<s, n>>)
            /\ Put(e, "ready", <<s, n>>, row[<<s, n>>].status)
      BY <2>2 DEF OpenAgain
    <3>2. <<s, n>> \in Operations
      BY DEF Operations
    <3>3. row[<<s, n>>].status \in Statuses /\ Exists(<<s, n>>)
      BY <3>1 DEF StillOwnsTheSite, Statuses, OpenStatuses, ClosedStatuses, Exists
    <3>4. row'[<<s, n>>].status # "NONE"
      BY <3>2, <3>3, <1>0, RowMoveFacts DEF Exists
    <3> QED
      BY <3>1, <3>2, <3>3, <3>4, <1>3
  <2>3. CASE Begin(e)
    <3>1. session[e].pc # "idle" /\ Put(e, "calling", session[e].op, "CALLING")
      BY <2>3 DEF Begin
    <3>2. "CALLING" \in Statuses
      BY DEF Statuses, OpenStatuses
    <3> QED
      BY <3>1, <3>2, <2>0, <1>3
  <2>4. CASE AlreadyDone(e)
    <3>1. session[e].pc # "idle" /\ Put(e, "finished", session[e].op, "SUCCEEDED")
      BY <2>4 DEF AlreadyDone
    <3>2. "SUCCEEDED" \in Statuses
      BY DEF Statuses, ClosedStatuses
    <3> QED
      BY <3>1, <3>2, <2>0, <1>3
  <2>5. ASSUME NEW to \in Statuses, Finish(e, to) PROVE Goal
    <3>1. session[e].pc # "idle" /\ (Put(e, "finished", session[e].op, to) \/ Quit(e))
      BY <2>5 DEF Finish
    <3> QED
      BY <3>1, <2>0, <1>2, <1>3
  <2>6. ASSUME NEW to \in Statuses, FinishRefused(e, to) PROVE Goal
    BY <2>6, <1>2 DEF FinishRefused
  <2>7. CASE BeginRefused(e) \/ MarkApplied(e) \/ Crash(e)
    BY <2>7, <1>2 DEF BeginRefused, MarkApplied, Crash
  <2> QED
    BY <1>4, <2>1, <2>2, <2>3, <2>4, <2>5, <2>6, <2>7 DEF ExecutorStep
<1>5. CASE ReconcilerStep
  BY <1>5, <1>1 DEF ReconcilerStep, SweepPending, SweepCalling, MarkInterrupted, LookupReconcile,
                    ReplaySend, ReplayAnswer, Resolve, CloseUnknown
<1>6. CASE EnvironmentStep
  BY <1>6, <1>1 DEF EnvironmentStep, SwitchTo, Authorise, ProviderExecutes, ProviderIgnores,
                    actionVars
<1>7. CASE UNCHANGED vars
  BY <1>7, <1>1 DEF vars, actionVars
<1> QED
  BY <1>4, <1>5, <1>6, <1>7 DEF Next

-----------------------------------------------------------------------------
(* The provider: what it did, against what the row says *)

\* One operation: a request exists only past the boundary, a replay only where
\* keys are honoured, an effect only from one of the two and once, and a failure
\* the system reports on its own has none and will have none.
EffectsOK(op) ==
    /\ row[op].status \in {"NONE", "PENDING"} => call[op] = "none" /\ replay[op] = "none"
    /\ replay[op] # "none" => op[1] \in Idempotent
    /\ effects[op] > 0 => call[op] = "done" \/ replay[op] # "none"
    /\ effects[op] <= 1
    /\ (/\ row[op].status = "FAILED_CONFIRMED"
        /\ row[op].by # "person"
        /\ replay[op] = "none") => effects[op] = 0 /\ call[op] # "sent"

ProviderInv == \A op \in Operations : EffectsOK(op)

ProviderUnmoved == UNCHANGED <<call, replay, effects>>

\* A change of status keeps the account when it does not go back behind the
\* boundary and does not call a failure what may have had an effect.
LEMMA TransitionKeepsEffects ==
    ASSUME ActionsTypeOK, ProviderInv, ProviderUnmoved, NEW op \in Operations,
           NEW expected \in SUBSET OpenStatuses, NEW to \in Statuses, NEW by \in Closers,
           Transition(op, expected, to, by), to # "PENDING",
           to = "FAILED_CONFIRMED" /\ by # "person" /\ replay[op] = "none"
               => effects[op] = 0 /\ call[op] # "sent"
    PROVE  ProviderInv'
<1>1. /\ row'[op] = [status |-> to, request |-> row[op].request,
                     applied |-> row[op].applied, by |-> by]
      /\ \A o \in Operations : o # op => row'[o] = row[o]
  BY TransitionFacts
<1>2. row'[op].status = to /\ row'[op].by = by /\ to # "NONE"
  BY <1>1 DEF Statuses, OpenStatuses, ClosedStatuses
<1>3. EffectsOK(op)'
  BY <1>2 DEF ProviderInv, EffectsOK, ProviderUnmoved
<1>4. ASSUME NEW o \in Operations, o # op PROVE EffectsOK(o)'
  BY <1>4, <1>1 DEF ProviderInv, EffectsOK, ProviderUnmoved
<1> QED
  BY <1>3, <1>4 DEF ProviderInv

\* Nothing changes for the provider while rows keep their status and closer.
LEMMA SameStatusKeepsEffects ==
    ASSUME ProviderInv, ProviderUnmoved,
           \A op \in Operations :
               row'[op].status = row[op].status /\ row'[op].by = row[op].by
    PROVE  ProviderInv'
BY DEF ProviderInv, EffectsOK, ProviderUnmoved

\* A step of the provider on one operation, its row untouched.
LEMMA ProviderKeepsEffects ==
    ASSUME ActionsTypeOK, ProviderInv, NEW op \in Operations,
           \/ ProviderExecutes(op)
           \/ \E how \in {"rejected", "lost"} : ProviderIgnores(op, how)
    PROVE  ProviderInv'
<1> USE DEF ActionsTypeOK
<1>1. \A o \in Operations : row'[o] = row[o]
  BY DEF ProviderExecutes, ProviderIgnores
<1>2. ASSUME NEW o \in Operations, o # op PROVE EffectsOK(o)'
  <2>1. call'[o] = call[o] /\ replay'[o] = replay[o] /\ effects'[o] = effects[o]
    BY <1>2 DEF ProviderExecutes, ProviderIgnores
  <2> QED
    BY <2>1, <1>1 DEF ProviderInv, EffectsOK
<1>3. CASE ProviderExecutes(op)
  <2>1. \/ call[op] = "sent" /\ call'[op] = "done" /\ replay'[op] = replay[op]
        \/ replay[op] = "sent" /\ replay'[op] = "done" /\ call'[op] = call[op]
    BY <1>3 DEF ProviderExecutes
  <2>2. effects'[op] = EffectsAfter(op)
    BY <1>3 DEF ProviderExecutes
  <2>3. effects[op] \in Nat
    OBVIOUS
  <2>4. effects'[op] \in Nat /\ effects'[op] <= 1
    BY <2>1, <2>2, <2>3 DEF EffectsAfter, ProviderInv, EffectsOK
  <2>5. EffectsOK(op)'
    BY <2>1, <2>4, <1>1 DEF ProviderInv, EffectsOK
  <2> QED
    BY <2>5, <1>2 DEF ProviderInv
<1>4. CASE \E how \in {"rejected", "lost"} : ProviderIgnores(op, how)
  <2>1. PICK how \in {"rejected", "lost"} : ProviderIgnores(op, how)
    BY <1>4
  <2>2. /\ \/ call[op] = "sent" /\ call'[op] = how /\ replay'[op] = replay[op]
           \/ replay[op] = "sent" /\ replay'[op] = how /\ call'[op] = call[op]
        /\ effects'[op] = effects[op]
    BY <2>1 DEF ProviderIgnores
  <2>3. EffectsOK(op)'
    BY <2>2, <1>1 DEF ProviderInv, EffectsOK
  <2> QED
    BY <2>3, <1>2 DEF ProviderInv
<1> QED
  BY <1>3, <1>4

LEMMA StepKeepsEffects ==
    ActionsTypeOK /\ SessionsHaveRows /\ ProviderInv /\ [Next]_vars => ProviderInv'
<1> SUFFICES ASSUME ActionsTypeOK, SessionsHaveRows, ProviderInv, [Next]_vars
             PROVE  ProviderInv'
  OBVIOUS
<1> USE DEF Statuses, OpenStatuses, ClosedStatuses, Closers
<1>0. \A op \in Operations : effects[op] \in Nat
  BY DEF ActionsTypeOK
<1>1. ASSUME NEW e \in Executors, ExecutorStep(e) PROVE ProviderInv'
  <2>1. ASSUME NEW s \in Sites, NEW q \in Requests, OpenNew(e, s, q) PROVE ProviderInv'
    <3>1. PICK n \in 0..(MaxSequence - 1) :
            /\ <<s, n + 1>> \in Operations
            /\ row[<<s, n + 1>>].status = "NONE"
            /\ row'[<<s, n + 1>>] = Pending(q)
            /\ \A o \in Operations : o # <<s, n + 1>> => row'[o] = row[o]
      BY <2>1, OpenNewFacts
    <3>2. ProviderUnmoved
      BY <2>1 DEF OpenNew, ProviderUnmoved
    <3>3. EffectsOK(<<s, n + 1>>)'
      BY <3>1, <3>2 DEF ProviderInv, EffectsOK, ProviderUnmoved, Pending
    <3>4. ASSUME NEW o \in Operations, o # <<s, n + 1>> PROVE EffectsOK(o)'
      BY <3>1, <3>2, <3>4 DEF ProviderInv, EffectsOK, ProviderUnmoved
    <3> QED
      BY <3>3, <3>4 DEF ProviderInv
  <2>2. ASSUME NEW s \in Sites, NEW q \in Requests, OpenAgain(e, s, q) PROVE ProviderInv'
    BY <2>2, SameStatusKeepsEffects DEF OpenAgain, ProviderUnmoved
  <2>3. CASE Begin(e)
    <3>1. PICK op \in Operations : op = session[e].op
      BY <2>3, BoundSession DEF Begin, Sessions
    <3>2. Transition(op, {"PENDING"}, "CALLING", "nobody")
      BY <2>3, <3>1 DEF Begin
    <3>3. /\ row[op].status = "PENDING" /\ row'[op].status = "CALLING"
          /\ \A o \in Operations : o # op => row'[o] = row[o]
      <4>1. /\ row[op].status \in {"PENDING"}
            /\ row'[op] = [status |-> "CALLING", request |-> row[op].request,
                           applied |-> row[op].applied, by |-> "nobody"]
            /\ \A o \in Operations : o # op => row'[o] = row[o]
        <5>1. {"PENDING"} \in SUBSET OpenStatuses /\ "CALLING" \in Statuses /\ "nobody" \in Closers
          OBVIOUS
        <5> HIDE DEF Statuses, OpenStatuses, ClosedStatuses, Closers
        <5> QED
          BY <3>2, <5>1, TransitionFacts
      <4> QED
        BY <4>1
    <3>4. /\ call'[op] = "sent" /\ \A o \in Operations : o # op => call'[o] = call[o]
          /\ replay' = replay /\ effects' = effects
      BY <2>3, <3>1 DEF Begin, ActionsTypeOK
    <3>5. EffectsOK(op)'
      BY <3>1, <3>3, <3>4, <1>0 DEF ProviderInv, EffectsOK
    <3>6. ASSUME NEW o \in Operations, o # op PROVE EffectsOK(o)'
      BY <3>3, <3>4, <3>6 DEF ProviderInv, EffectsOK
    <3> QED
      BY <3>5, <3>6 DEF ProviderInv
  <2>4. ASSUME NEW to \in Statuses, Finish(e, to) PROVE ProviderInv'
    <3> DEFINE op == session[e].op
    <3>1. op \in Operations
      BY <2>4, BoundSession DEF Finish, Sessions
    <3>2. ProviderUnmoved /\ to \in Answers(op) /\ to # "PENDING"
      BY <2>4 DEF Finish, ProviderUnmoved, Answers
    <3>3. to = "FAILED_CONFIRMED" /\ replay[op] = "none" => effects[op] = 0 /\ call[op] # "sent"
      BY <3>1, <3>2, <1>0 DEF Answers, ProviderInv, EffectsOK
    <3>4. CASE Transition(op, {"CALLING", "UNKNOWN_OUTCOME"}, to, CloserOf(e))
      <4>1. CloserOf(e) \in Closers
        BY DEF CloserOf
      <4> QED
        BY <3>1, <3>2, <3>3, <3>4, <4>1, TransitionKeepsEffects
    <3>5. CASE Transition(op, {"CALLING"}, to, "nobody")
      BY <3>1, <3>2, <3>3, <3>5, TransitionKeepsEffects
    <3> QED
      BY <2>4, <3>4, <3>5 DEF Finish
  <2>5. CASE MarkApplied(e)
    <3>1. session[e].op \in Operations /\ Exists(session[e].op)
      BY <2>5, BoundSession DEF MarkApplied, Sessions, SessionsHaveRows
    <3>2. row[session[e].op] \in Rows
      BY <3>1 DEF Exists, ActionsTypeOK, NoRow
    <3>3. row' = [row EXCEPT ![session[e].op].applied = TRUE]
      BY <2>5 DEF MarkApplied
    <3>4. \A o \in Operations : row'[o].status = row[o].status /\ row'[o].by = row[o].by
      BY <3>1, <3>2, <3>3 DEF ActionsTypeOK, Rows
    <3> QED
      BY <2>5, <3>4, SameStatusKeepsEffects DEF MarkApplied, ProviderUnmoved
  <2>6. ASSUME NEW to \in Statuses, FinishRefused(e, to) PROVE ProviderInv'
    BY <2>6, SameStatusKeepsEffects DEF FinishRefused, ProviderUnmoved
  <2>7. CASE BeginRefused(e) \/ AlreadyDone(e) \/ Crash(e)
    BY <2>7, SameStatusKeepsEffects DEF BeginRefused, AlreadyDone, Crash, ProviderUnmoved
  <2> QED
    BY <1>1, <2>1, <2>2, <2>3, <2>4, <2>5, <2>6, <2>7 DEF ExecutorStep
<1>2. CASE ReconcilerStep
  <2>1. ASSUME NEW op \in Operations, SweepPending(op) PROVE ProviderInv'
    <3>1. Transition(op, {"PENDING"}, "FAILED_CONFIRMED", "sweep") /\ ProviderUnmoved
      BY <2>1 DEF SweepPending, ProviderUnmoved
    <3>2. row[op].status = "PENDING"
      BY <3>1 DEF Transition
    <3>3. effects[op] = 0 /\ call[op] # "sent"
      BY <3>2, <1>0 DEF ProviderInv, EffectsOK
    <3> QED
      BY <3>1, <3>3, TransitionKeepsEffects
  <2>2. ASSUME NEW op \in Operations, SweepCalling(op) PROVE ProviderInv'
    <3>1. Transition(op, {"CALLING"}, "UNKNOWN_OUTCOME", "nobody") /\ ProviderUnmoved
      BY <2>2 DEF SweepCalling, ProviderUnmoved
    <3> QED
      BY <3>1, TransitionKeepsEffects
  <2>3. ASSUME NEW s \in Sites, MarkInterrupted(s) PROVE ProviderInv'
    <3>1. PICK n \in 1..MaxSequence :
            Transition(<<s, n>>, {"CALLING"}, "UNKNOWN_OUTCOME", "nobody")
      BY <2>3 DEF MarkInterrupted
    <3>2. <<s, n>> \in Operations
      BY DEF Operations
    <3>3. ProviderUnmoved
      BY <2>3 DEF MarkInterrupted, ProviderUnmoved
    <3> QED
      BY <3>1, <3>2, <3>3, TransitionKeepsEffects
  <2>4. ASSUME NEW op \in Operations, LookupReconcile(op) PROVE ProviderInv'
    <3> DEFINE to == IF call[op] = "done" THEN "SUCCEEDED" ELSE "FAILED_CONFIRMED"
    <3>1. Transition(op, {"UNKNOWN_OUTCOME"}, to, "lookup") /\ ProviderUnmoved
      BY <2>4 DEF LookupReconcile, CloseUnknown, ProviderUnmoved
    <3>2. to = "FAILED_CONFIRMED" /\ replay[op] = "none" => effects[op] = 0 /\ call[op] # "sent"
      BY <2>4, <1>0 DEF LookupReconcile, ProviderInv, EffectsOK
    <3> QED
      BY <3>1, <3>2, TransitionKeepsEffects
  <2>5. ASSUME NEW op \in Operations, ReplaySend(op) PROVE ProviderInv'
    <3>1. /\ op[1] \in Idempotent /\ row[op].status = "UNKNOWN_OUTCOME"
          /\ replay'[op] = "sent" /\ \A o \in Operations : o # op => replay'[o] = replay[o]
          /\ row' = row /\ call' = call /\ effects' = effects
      BY <2>5 DEF ReplaySend, ActionsTypeOK
    <3>2. EffectsOK(op)'
      BY <3>1 DEF ProviderInv, EffectsOK
    <3>3. ASSUME NEW o \in Operations, o # op PROVE EffectsOK(o)'
      BY <3>1, <3>3 DEF ProviderInv, EffectsOK
    <3> QED
      BY <3>2, <3>3 DEF ProviderInv
  <2>6. ASSUME NEW op \in Operations, ReplayAnswer(op) PROVE ProviderInv'
    <3>1. Transition(op, {"UNKNOWN_OUTCOME"}, "SUCCEEDED", "key-replay") /\ ProviderUnmoved
      BY <2>6 DEF ReplayAnswer, CloseUnknown, ProviderUnmoved
    <3> QED
      BY <3>1, TransitionKeepsEffects
  <2>7. ASSUME NEW op \in Operations, NEW succeeded \in BOOLEAN, Resolve(op, succeeded)
        PROVE  ProviderInv'
    <3>1. /\ \/ Transition(op, {"UNKNOWN_OUTCOME"}, "SUCCEEDED", "person")
             \/ Transition(op, {"UNKNOWN_OUTCOME"}, "FAILED_CONFIRMED", "person")
          /\ ProviderUnmoved
      BY <2>7 DEF Resolve, CloseUnknown, ProviderUnmoved
    <3> QED
      BY <3>1, TransitionKeepsEffects
  <2> QED
    BY <1>2, <2>1, <2>2, <2>3, <2>4, <2>5, <2>6, <2>7 DEF ReconcilerStep
<1>3. CASE EnvironmentStep
  <2>1. ASSUME NEW op \in Operations, ProviderExecutes(op) PROVE ProviderInv'
    BY <2>1, ProviderKeepsEffects
  <2>2. ASSUME NEW op \in Operations, NEW how \in {"rejected", "lost"}, ProviderIgnores(op, how)
        PROVE  ProviderInv'
    BY <2>2, ProviderKeepsEffects
  <2>3. ASSUME NEW b \in BOOLEAN, SwitchTo(b) PROVE ProviderInv'
    BY <2>3, SameStatusKeepsEffects DEF SwitchTo, ProviderUnmoved
  <2>4. ASSUME NEW h \in Limits, Authorise(h) PROVE ProviderInv'
    BY <2>4, SameStatusKeepsEffects DEF Authorise, actionVars, ProviderUnmoved
  <2> QED
    BY <1>3, <2>1, <2>2, <2>3, <2>4 DEF EnvironmentStep
<1>4. CASE UNCHANGED vars
  BY <1>4, SameStatusKeepsEffects DEF vars, actionVars, ProviderUnmoved
<1> QED
  BY <1>1, <1>2, <1>3, <1>4 DEF Next

-----------------------------------------------------------------------------
(* The reservation: what is settled, against what the row says *)

\* One operation, in the words of ReservationFollowsOutcome.
MoneyOK(op) ==
    events[op].amount > 0 =>
        /\ Exists(op)
        /\ events[op].amount = Amount[row[op].request]
        /\ events[op].settled =
             (CASE row[op].status = "SUCCEEDED" -> "COMMIT"
                [] row[op].status = "FAILED_CONFIRMED" -> "RELEASE"
                [] OTHER -> "NO")

LEMMA MoneyIsReservationFollowsOutcome ==
    ReservationFollowsOutcome <=> \A op \in Operations : MoneyOK(op)
BY DEF ReservationFollowsOutcome, MoneyOK

\* An operation whose row and events stay as they are, as far as money goes.
LEMMA SameMoney ==
    ASSUME NEW op \in Operations, MoneyOK(op), events'[op] = events[op],
           row'[op].status = row[op].status, row'[op].request = row[op].request
    PROVE  MoneyOK(op)'
BY DEF MoneyOK, Exists

\* Reserving for a PENDING operation what its request spends.
LEMMA ReserveForKeepsMoney ==
    ASSUME ActionsTypeOK, LedgerInv, ReservationFollowsOutcome,
           NEW op \in Operations, NEW q \in Requests, ReserveFor(op, q),
           row'[op].status = "PENDING", row'[op].request = q,
           row[op].status = "NONE" \/ (row[op].status = "PENDING" /\ row[op].request = q),
           \A o \in Operations : o # op => row'[o] = row[o]
    PROVE  ReservationFollowsOutcome'
<1> USE ActionsAssumption DEF LedgerInv, LedgerTypeOK
<1>1. \A o \in Operations : MoneyOK(o)
  BY MoneyIsReservationFollowsOutcome
<1>2. CASE UNCHANGED ledgerVars
  <2>1. \A o \in Operations : events'[o] = events[o]
    BY <1>2 DEF ledgerVars
  <2>2. MoneyOK(op)'
    BY <1>1, <2>1 DEF MoneyOK, Exists
  <2>3. ASSUME NEW o \in Operations, o # op PROVE MoneyOK(o)'
    BY <1>1, <2>1, <2>3, SameMoney
  <2> QED
    BY <2>2, <2>3 DEF ReservationFollowsOutcome, MoneyOK
<1>3. CASE reserve(op, Amount[q])
  <2>1. /\ events[op].amount = 0 /\ events'[op] = [events[op] EXCEPT !.amount = Amount[q]]
        /\ \A o \in Operations : o # op => events'[o] = events[o]
    BY <1>3 DEF reserve
  <2>2. events[op].settled = "NO"
    BY <2>1 DEF SettledWasReserved, Settlements
  <2>3. events'[op].amount = Amount[q] /\ events'[op].settled = "NO"
    BY <2>1, <2>2
  <2>4. MoneyOK(op)'
    BY <2>3 DEF MoneyOK, Exists
  <2>5. ASSUME NEW o \in Operations, o # op PROVE MoneyOK(o)'
    BY <1>1, <2>1, <2>5, SameMoney
  <2> QED
    BY <2>4, <2>5 DEF ReservationFollowsOutcome, MoneyOK
<1> QED
  BY <1>2, <1>3 DEF ReserveFor

\* Closing an operation settles what it holds.
LEMMA ClosingKeepsMoney ==
    ASSUME ActionsTypeOK, LedgerInv, ReservationFollowsOutcome,
           NEW op \in Operations, NEW expected \in SUBSET OpenStatuses,
           NEW to \in ClosedStatuses, NEW by \in Closers,
           Transition(op, expected, to, by), MoveLedger(op, Settlement(to))
    PROVE  ReservationFollowsOutcome'
<1>1. \A o \in Operations : MoneyOK(o)
  BY MoneyIsReservationFollowsOutcome
<1>2. to \in Statuses
  BY DEF Statuses
<1>3. /\ row[op].status \in expected
      /\ row'[op] = [status |-> to, request |-> row[op].request,
                     applied |-> row[op].applied, by |-> by]
      /\ \A o \in Operations : o # op => row'[o] = row[o]
  BY <1>2, TransitionFacts
<1> USE ActionsAssumption DEF LedgerInv, LedgerTypeOK
<1>4. row[op].status \in OpenStatuses /\ row'[op].status = to /\ row'[op].request = row[op].request
  BY <1>3
<1>5. /\ \A o \in Operations : o # op => events'[o] = events[o]
      /\ events'[op].amount = events[op].amount
      /\ events[op].amount > 0 => events'[op].settled = Settlement(to)
  <2>1. CASE events[op].amount > 0
    <3>1. events[op].settled = "NO"
      BY <2>1, <1>1, <1>4 DEF MoneyOK, OpenStatuses
    <3>2. outstanding(op) = events[op].amount
      BY <2>1, <3>1 DEF outstanding, Live
    <3>3. move(op, events[op].amount, Settlement(to))
      BY <2>1, <3>2 DEF MoveLedger
    <3> QED
      BY <3>3 DEF move
  <2>2. CASE ~(events[op].amount > 0)
    <3>1. outstanding(op) = 0
      BY <2>2 DEF outstanding, Live
    <3>2. events' = events
      BY <3>1 DEF MoveLedger, ledgerVars
    <3> QED
      BY <2>2, <3>2
  <2> QED
    BY <2>1, <2>2
<1>6. MoneyOK(op)'
  BY <1>1, <1>4, <1>5 DEF MoneyOK, Exists, Settlement, ClosedStatuses
<1>7. ASSUME NEW o \in Operations, o # op PROVE MoneyOK(o)'
  BY <1>1, <1>3, <1>5, <1>7, SameMoney
<1> QED
  BY <1>6, <1>7 DEF ReservationFollowsOutcome, MoneyOK

\* Between open statuses nothing is settled.
LEMMA OpenTransitionKeepsMoney ==
    ASSUME ActionsTypeOK, ReservationFollowsOutcome, UNCHANGED ledgerVars,
           NEW op \in Operations, NEW expected \in SUBSET OpenStatuses,
           NEW to \in OpenStatuses, NEW by \in Closers, Transition(op, expected, to, by)
    PROVE  ReservationFollowsOutcome'
<1>1. \A o \in Operations : MoneyOK(o)
  BY MoneyIsReservationFollowsOutcome
<1>2. to \in Statuses
  BY DEF Statuses
<1>3. /\ row[op].status \in expected
      /\ row'[op] = [status |-> to, request |-> row[op].request,
                     applied |-> row[op].applied, by |-> by]
      /\ \A o \in Operations : o # op => row'[o] = row[o]
  BY <1>2, TransitionFacts
<1>4. row[op].status \in OpenStatuses /\ row'[op].status = to /\ row'[op].request = row[op].request
  BY <1>3
<1>5. \A o \in Operations : events'[o] = events[o]
  BY DEF ledgerVars
<1>6. MoneyOK(op)'
  BY <1>1, <1>4, <1>5 DEF MoneyOK, Exists, OpenStatuses
<1>7. ASSUME NEW o \in Operations, o # op PROVE MoneyOK(o)'
  BY <1>1, <1>3, <1>5, <1>7, SameMoney
<1> QED
  BY <1>6, <1>7 DEF ReservationFollowsOutcome, MoneyOK

\* Nothing changes while movements, statuses and requests stay.
LEMMA UnmovedKeepsMoney ==
    ASSUME ReservationFollowsOutcome, UNCHANGED events,
           \A op \in Operations :
               row'[op].status = row[op].status /\ row'[op].request = row[op].request
    PROVE  ReservationFollowsOutcome'
<1>1. \A o \in Operations : MoneyOK(o)
  BY MoneyIsReservationFollowsOutcome
<1>2. \A o \in Operations : MoneyOK(o)'
  BY <1>1, SameMoney
<1> QED
  BY <1>2 DEF ReservationFollowsOutcome, MoneyOK

LEMMA StepKeepsMoney ==
    /\ ActionsTypeOK /\ SessionsHaveRows /\ LedgerInv /\ ReservationFollowsOutcome
    /\ [Next]_vars
    => ReservationFollowsOutcome'
<1> SUFFICES ASSUME ActionsTypeOK, SessionsHaveRows, LedgerInv, ReservationFollowsOutcome,
                    [Next]_vars
             PROVE  ReservationFollowsOutcome'
  OBVIOUS
<1>c. /\ {"PENDING"} \in SUBSET OpenStatuses /\ {"CALLING"} \in SUBSET OpenStatuses
      /\ {"UNKNOWN_OUTCOME"} \in SUBSET OpenStatuses
      /\ {"CALLING", "UNKNOWN_OUTCOME"} \in SUBSET OpenStatuses
      /\ "CALLING" \in OpenStatuses /\ "UNKNOWN_OUTCOME" \in OpenStatuses
      /\ "SUCCEEDED" \in ClosedStatuses /\ "FAILED_CONFIRMED" \in ClosedStatuses
      /\ {"nobody", "answer", "late_answer", "sweep", "lookup", "key-replay", "person"}
           \subseteq Closers
  BY DEF OpenStatuses, ClosedStatuses, Closers
<1>1. ASSUME NEW e \in Executors, ExecutorStep(e) PROVE ReservationFollowsOutcome'
  <2>1. ASSUME NEW s \in Sites, NEW q \in Requests, OpenNew(e, s, q)
        PROVE  ReservationFollowsOutcome'
    <3>1. PICK n \in 0..(MaxSequence - 1) :
            /\ <<s, n + 1>> \in Operations
            /\ row[<<s, n + 1>>].status = "NONE"
            /\ row'[<<s, n + 1>>] = Pending(q)
            /\ \A o \in Operations : o # <<s, n + 1>> => row'[o] = row[o]
            /\ ReserveFor(<<s, n + 1>>, q)
      BY <2>1, OpenNewFacts
    <3>2. row'[<<s, n + 1>>].status = "PENDING" /\ row'[<<s, n + 1>>].request = q
      BY <3>1 DEF Pending
    <3> QED
      BY <3>1, <3>2, ReserveForKeepsMoney
  <2>2. ASSUME NEW s \in Sites, NEW q \in Requests, OpenAgain(e, s, q)
        PROVE  ReservationFollowsOutcome'
    <3>1. PICK n \in 1..MaxSequence :
            /\ row[<<s, n>>].request = q
            /\ IF row[<<s, n>>].status = "PENDING" THEN ReserveFor(<<s, n>>, q)
                                                 ELSE UNCHANGED ledgerVars
      BY <2>2 DEF OpenAgain
    <3>2. <<s, n>> \in Operations /\ row' = row
      BY <2>2 DEF OpenAgain, Operations
    <3>3. CASE row[<<s, n>>].status = "PENDING"
      BY <3>1, <3>2, <3>3, ReserveForKeepsMoney
    <3>4. CASE row[<<s, n>>].status # "PENDING"
      BY <3>1, <3>2, <3>4, UnmovedKeepsMoney DEF ledgerVars
    <3> QED
      BY <3>3, <3>4
  <2>3. CASE Begin(e)
    <3>1. PICK op \in Operations : op = session[e].op
      BY <2>3, BoundSession DEF Begin, Sessions
    <3>2. Transition(op, {"PENDING"}, "CALLING", "nobody") /\ UNCHANGED ledgerVars
      BY <2>3, <3>1 DEF Begin
    <3> QED
      BY <3>2, <1>c, OpenTransitionKeepsMoney
  <2>4. ASSUME NEW to \in Statuses, Finish(e, to) PROVE ReservationFollowsOutcome'
    <3>1. PICK op \in Operations : op = session[e].op
      BY <2>4, BoundSession DEF Finish, Sessions
    <3>2. CloserOf(e) \in Closers
      BY <1>c DEF CloserOf
    <3>3. CASE /\ to \in ClosedStatuses
               /\ Transition(op, {"CALLING", "UNKNOWN_OUTCOME"}, to, CloserOf(e))
               /\ MoveLedger(op, Settlement(to))
      BY <3>2, <3>3, <1>c, ClosingKeepsMoney
    <3>4. CASE /\ to = "UNKNOWN_OUTCOME"
               /\ Transition(op, {"CALLING"}, to, "nobody")
               /\ UNCHANGED ledgerVars
      BY <3>4, <1>c, OpenTransitionKeepsMoney
    <3> QED
      BY <2>4, <3>1, <3>3, <3>4 DEF Finish
  <2>5. CASE MarkApplied(e)
    <3>1. session[e].op \in Operations /\ Exists(session[e].op)
      BY <2>5, BoundSession DEF MarkApplied, Sessions, SessionsHaveRows
    <3>2. row[session[e].op] \in Rows
      BY <3>1 DEF Exists, ActionsTypeOK, NoRow
    <3>3. row' = [row EXCEPT ![session[e].op].applied = TRUE] /\ events' = events
      BY <2>5 DEF MarkApplied, ledgerVars
    <3>4. \A o \in Operations :
            row'[o].status = row[o].status /\ row'[o].request = row[o].request
      BY <3>1, <3>2, <3>3 DEF ActionsTypeOK, Rows
    <3> QED
      BY <3>3, <3>4, UnmovedKeepsMoney
  <2>6. ASSUME NEW to \in Statuses, FinishRefused(e, to) PROVE ReservationFollowsOutcome'
    BY <2>6, UnmovedKeepsMoney DEF FinishRefused, ledgerVars
  <2>7. CASE BeginRefused(e) \/ AlreadyDone(e) \/ Crash(e)
    BY <2>7, UnmovedKeepsMoney DEF BeginRefused, AlreadyDone, Crash, ledgerVars
  <2> QED
    BY <1>1, <2>1, <2>2, <2>3, <2>4, <2>5, <2>6, <2>7 DEF ExecutorStep
<1>2. CASE ReconcilerStep
  <2>1. ASSUME NEW op \in Operations, SweepPending(op) PROVE ReservationFollowsOutcome'
    <3>1. /\ Transition(op, {"PENDING"}, "FAILED_CONFIRMED", "sweep")
          /\ MoveLedger(op, Settlement("FAILED_CONFIRMED"))
      BY <2>1 DEF SweepPending, Settlement
    <3> QED
      BY <3>1, <1>c, ClosingKeepsMoney
  <2>2. ASSUME NEW op \in Operations, SweepCalling(op) PROVE ReservationFollowsOutcome'
    <3>1. Transition(op, {"CALLING"}, "UNKNOWN_OUTCOME", "nobody") /\ UNCHANGED ledgerVars
      BY <2>2 DEF SweepCalling
    <3> QED
      BY <3>1, <1>c, OpenTransitionKeepsMoney
  <2>3. ASSUME NEW s \in Sites, MarkInterrupted(s) PROVE ReservationFollowsOutcome'
    <3>1. PICK n \in 1..MaxSequence :
            Transition(<<s, n>>, {"CALLING"}, "UNKNOWN_OUTCOME", "nobody")
      BY <2>3 DEF MarkInterrupted
    <3>2. <<s, n>> \in Operations /\ UNCHANGED ledgerVars
      BY <2>3 DEF Operations, MarkInterrupted
    <3> QED
      BY <3>1, <3>2, <1>c, OpenTransitionKeepsMoney
  <2>4. ASSUME NEW op \in Operations, ReplaySend(op) PROVE ReservationFollowsOutcome'
    BY <2>4, UnmovedKeepsMoney DEF ReplaySend, ledgerVars
  <2>5. ASSUME NEW op \in Operations, NEW to \in ClosedStatuses, NEW by \in Closers,
               CloseUnknown(op, to, by)
        PROVE  ReservationFollowsOutcome'
    <3>1. Transition(op, {"UNKNOWN_OUTCOME"}, to, by) /\ MoveLedger(op, Settlement(to))
      BY <2>5 DEF CloseUnknown
    <3> QED
      BY <3>1, <1>c, ClosingKeepsMoney
  <2>6. ASSUME NEW op \in Operations, LookupReconcile(op) \/ ReplayAnswer(op)
        PROVE  ReservationFollowsOutcome'
    BY <2>6, <2>5, <1>c DEF LookupReconcile, ReplayAnswer
  <2>7. ASSUME NEW op \in Operations, NEW succeeded \in BOOLEAN, Resolve(op, succeeded)
        PROVE  ReservationFollowsOutcome'
    BY <2>7, <2>5, <1>c DEF Resolve
  <2> QED
    BY <1>2, <2>1, <2>2, <2>3, <2>4, <2>6, <2>7 DEF ReconcilerStep
<1>3. CASE EnvironmentStep
  <2>1. events' = events /\ row' = row
    BY <1>3 DEF EnvironmentStep, SwitchTo, Authorise, authorise_budget, ProviderExecutes,
                ProviderIgnores, actionVars, ledgerVars
  <2> QED
    BY <2>1, UnmovedKeepsMoney
<1>4. CASE UNCHANGED vars
  BY <1>4, UnmovedKeepsMoney DEF vars, actionVars, ledgerVars
<1> QED
  BY <1>1, <1>2, <1>3, <1>4 DEF Next

-----------------------------------------------------------------------------
(* The sites: one operation after another *)

LEMMA StepKeepsSites ==
    ActionsTypeOK /\ SessionsHaveRows /\ SiteAdvancesWhenClosed /\ [Next]_vars
    => SiteAdvancesWhenClosed'
<1> SUFFICES ASSUME ActionsTypeOK, SessionsHaveRows, SiteAdvancesWhenClosed, [Next]_vars,
                    NEW s \in Sites, NEW n \in 1..MaxSequence, n > 1,
                    row'[<<s, n>>].status # "NONE"
             PROVE  /\ row'[<<s, n - 1>>].status \in ClosedStatuses
                    /\ row'[<<s, n - 1>>].status = "SUCCEEDED" => row'[<<s, n - 1>>].applied
  BY DEF SiteAdvancesWhenClosed, Opened, Exists
<1>0. <<s, n>> \in Operations /\ <<s, n - 1>> \in Operations /\ n - 1 \in 1..MaxSequence
  BY ActionsAssumption DEF Operations
<1>1. RowMove
  BY StepMovesRows
<1>2. CASE Exists(<<s, n>>)
  <2>1. /\ row[<<s, n - 1>>].status \in ClosedStatuses
        /\ row[<<s, n - 1>>].status = "SUCCEEDED" => row[<<s, n - 1>>].applied
    BY <1>2, <1>0 DEF SiteAdvancesWhenClosed, Opened
  <2> QED
    BY <2>1, <1>0, <1>1, RowMoveFacts
<1>3. CASE ~Exists(<<s, n>>)
  <2>1. row'[<<s, n>>] # row[<<s, n>>]
    BY <1>3 DEF Exists
  <2>2. CASE \E e \in Executors, t \in Sites, q \in Requests : OpenNew(e, t, q)
    <3>1. PICK e \in Executors, t \in Sites, q \in Requests : OpenNew(e, t, q)
      BY <2>2
    <3>2. PICK m \in 0..(MaxSequence - 1) :
            /\ IsLatest(t, m)
            /\ m > 0 => ~StillOwnsTheSite(<<t, m>>)
            /\ \A o \in Operations : o # <<t, m + 1>> => row'[o] = row[o]
      BY <3>1, OpenNewFacts
    <3>3. <<s, n>> = <<t, m + 1>>
      BY <3>2, <2>1, <1>0
    <3>4. s = t /\ m = n - 1
      BY <3>3
    <3>5. Exists(<<s, n - 1>>) /\ ~StillOwnsTheSite(<<s, n - 1>>)
      BY <3>2, <3>4 DEF IsLatest, Opened
    <3>6. row[<<s, n - 1>>] \in Rows
      BY <3>5, <1>0 DEF ActionsTypeOK, Exists, NoRow
    <3>7. /\ row[<<s, n - 1>>].status \in ClosedStatuses
          /\ row[<<s, n - 1>>].status = "SUCCEEDED" => row[<<s, n - 1>>].applied
      BY <3>5, <3>6 DEF StillOwnsTheSite, Rows, Statuses
    <3> QED
      BY <3>7, <1>0, <1>1, RowMoveFacts
  <2>3. CASE \E op \in Operations, to \in Statuses, by \in Closers :
               Transition(op, OpenStatuses, to, by)
    BY <2>3, <2>1, <1>3, <1>0 DEF Transition, ActionsTypeOK, Exists, OpenStatuses
  <2>4. CASE \E op \in Operations :
               Exists(op) /\ row' = [row EXCEPT ![op].applied = TRUE]
    BY <2>4, <2>1, <1>3, <1>0 DEF ActionsTypeOK
  <2> QED
    BY <2>1, <2>2, <2>3, <2>4, <1>1 DEF RowMove
<1> QED
  BY <1>2, <1>3

-----------------------------------------------------------------------------
(* All together *)

Inv ==
    /\ ActionsTypeOK
    /\ SessionsHaveRows
    /\ LedgerInv
    /\ ReservationFollowsOutcome
    /\ ProviderInv
    /\ SiteAdvancesWhenClosed

LEMMA StepKeepsTypes ==
    ActionsTypeOK /\ SessionsHaveRows /\ [Next]_vars => ActionsTypeOK'
<1> SUFFICES ASSUME ActionsTypeOK, SessionsHaveRows, [Next]_vars PROVE ActionsTypeOK'
  OBVIOUS
<1> DEFINE ProviderTypes == /\ enabled' \in BOOLEAN
                            /\ call' \in [Operations -> Sendings]
                            /\ replay' \in [Operations -> Sendings]
                            /\ effects' \in [Operations -> Nat]
<1>1. row' \in [Operations -> Rows \cup {NoRow}]
  BY StepMovesRows, RowMoveFacts
<1>2. session' \in [Executors -> Sessions \cup {Idle}]
  BY StepKeepsSessions
<1>3. ASSUME UNCHANGED <<enabled, call, replay, effects>> PROVE ProviderTypes
  BY <1>3 DEF ActionsTypeOK
<1>4. ASSUME NEW e \in Executors, ExecutorStep(e) PROVE ProviderTypes
  <2>1. CASE Begin(e)
    BY <2>1 DEF Begin, ActionsTypeOK, Sendings
  <2>2. CASE ~Begin(e)
    <3>1. UNCHANGED <<enabled, call, replay, effects>>
      BY <1>4, <2>2 DEF ExecutorStep, OpenNew, OpenAgain, BeginRefused, AlreadyDone, Finish,
                        FinishRefused, MarkApplied, Crash
    <3> QED
      BY <3>1, <1>3
  <2> QED
    BY <2>1, <2>2
<1>5. ASSUME ReconcilerStep PROVE ProviderTypes
  <2>1. ASSUME NEW op \in Operations, ReplaySend(op) PROVE ProviderTypes
    BY <2>1 DEF ReplaySend, ActionsTypeOK, Sendings
  <2>2. CASE ~\E op \in Operations : ReplaySend(op)
    <3>1. UNCHANGED <<enabled, call, replay, effects>>
      BY <1>5, <2>2 DEF ReconcilerStep, SweepPending, SweepCalling, MarkInterrupted,
                        LookupReconcile, ReplayAnswer, Resolve, CloseUnknown
    <3> QED
      BY <3>1, <1>3
  <2> QED
    BY <2>1, <2>2
<1>6. ASSUME EnvironmentStep PROVE ProviderTypes
  <2>1. ASSUME NEW op \in Operations, ProviderExecutes(op) PROVE ProviderTypes
    <3>1. EffectsAfter(op) \in Nat
      BY DEF EffectsAfter, ActionsTypeOK
    <3> QED
      BY <2>1, <3>1 DEF ProviderExecutes, ActionsTypeOK, Sendings
  <2>2. ASSUME NEW op \in Operations, NEW how \in {"rejected", "lost"}, ProviderIgnores(op, how)
        PROVE  ProviderTypes
    BY <2>2 DEF ProviderIgnores, ActionsTypeOK, Sendings
  <2>3. ASSUME NEW b \in BOOLEAN, SwitchTo(b) PROVE ProviderTypes
    BY <2>3 DEF SwitchTo, ActionsTypeOK
  <2>4. ASSUME NEW h \in Limits, Authorise(h) PROVE ProviderTypes
    BY <2>4, <1>3 DEF Authorise, actionVars
  <2> QED
    BY <1>6, <2>1, <2>2, <2>3, <2>4 DEF EnvironmentStep
<1>7. ASSUME UNCHANGED vars PROVE ProviderTypes
  BY <1>7, <1>3 DEF vars, actionVars
<1>8. ProviderTypes
  BY <1>4, <1>5, <1>6, <1>7 DEF Next
<1> QED
  BY <1>1, <1>2, <1>8 DEF ActionsTypeOK

LEMMA InitInv == Init => Inv
<1> SUFFICES ASSUME Init PROVE Inv
  OBVIOUS
<1> USE DEF Init
<1>1. ActionsTypeOK
  BY DEF ActionsTypeOK, Sendings, Idle
<1>2. SessionsHaveRows
  BY DEF SessionsHaveRows, Idle
<1>3. LedgerInv
  BY LedgerInitInv
<1>4. \A op \in Operations : row[op].status = "NONE"
  BY DEF NoRow
<1>5. ReservationFollowsOutcome
  BY ActionsAssumption DEF LedgerInit, NoEvents, ReservationFollowsOutcome
<1>6. ProviderInv
  BY <1>4 DEF ProviderInv, EffectsOK
<1>7. SiteAdvancesWhenClosed
  BY <1>4 DEF SiteAdvancesWhenClosed, Opened, Exists, Operations
<1> QED
  BY <1>1, <1>2, <1>3, <1>5, <1>6, <1>7 DEF Inv

LEMMA StepInv == Inv /\ [Next]_vars => Inv'
<1> SUFFICES ASSUME Inv, [Next]_vars PROVE Inv'
  OBVIOUS
<1>1. ActionsTypeOK /\ SessionsHaveRows /\ LedgerInv
  BY DEF Inv
<1>2. LedgerInv'
  BY <1>1, StepMovesTheLedger, LedgerStepInv DEF LedgerInv
<1>3. ActionsTypeOK'
  BY <1>1, StepKeepsTypes
<1>4. SessionsHaveRows'
  BY <1>1, StepKeepsSessions
<1>5. ReservationFollowsOutcome'
  BY StepKeepsMoney DEF Inv
<1>6. ProviderInv'
  BY StepKeepsEffects DEF Inv
<1>7. SiteAdvancesWhenClosed'
  BY StepKeepsSites DEF Inv
<1> QED
  BY <1>2, <1>3, <1>4, <1>5, <1>6, <1>7 DEF Inv

\* The state keeps its shape, whatever the sites, requests and executors.
THEOREM TypeCorrect == Spec => []TypeOK
<1>1. Inv => TypeOK
  BY DEF Inv, LedgerInv, TypeOK
<1> QED
  BY <1>1, InitInv, StepInv, PTL DEF Spec

\* Money follows what is known: the reservation of an operation is live, spent
\* or released exactly as its row says, whoever moved it.
THEOREM MoneyFollowsOutcome == Spec => []ReservationFollowsOutcome
<1>1. Inv => ReservationFollowsOutcome
  BY DEF Inv
<1> QED
  BY <1>1, InitInv, StepInv, PTL DEF Spec

\* No operation has two effects, and none before its call was made durable.
THEOREM OneEffect == Spec => []OneEffectAfterTheBoundary
<1>1. Inv => OneEffectAfterTheBoundary
  <2> SUFFICES ASSUME Inv, NEW op \in Operations
               PROVE  /\ effects[op] <= 1
                      /\ row[op].status \in {"NONE", "PENDING"} =>
                           call[op] = "none" /\ effects[op] = 0
    BY DEF OneEffectAfterTheBoundary
  <2>1. EffectsOK(op) /\ effects[op] \in Nat
    BY DEF Inv, ProviderInv, ActionsTypeOK
  <2> QED
    BY <2>1 DEF EffectsOK
<1> QED
  BY <1>1, InitInv, StepInv, PTL DEF Spec

\* Nobody but a person calls a failure what the provider did or may still do,
\* unless the key was replayed meanwhile.
THEOREM FailureIsTrue == Spec => []FailedMeansNoEffect
<1>1. Inv => FailedMeansNoEffect
  BY DEF Inv, ProviderInv, EffectsOK, FailedMeansNoEffect
<1> QED
  BY <1>1, InitInv, StepInv, PTL DEF Spec

\* A site never has two operations in the air.
THEOREM SitesAdvance == Spec => []SiteAdvancesWhenClosed
<1>1. Inv => SiteAdvancesWhenClosed
  BY DEF Inv
<1> QED
  BY <1>1, InitInv, StepInv, PTL DEF Spec

\* The life cycle implements the ledger: what it reserves, commits and releases
\* is what the ledger allows, so the totals, the limit and the single settlement
\* hold of it too.
THEOREM ImplementsLedger == Spec => LedgerSpec
<1>1. Init => LedgerInit
  BY DEF Init
<1>2. Inv /\ [Next]_vars => [LedgerNext]_ledgerVars
  BY StepMovesTheLedger DEF Inv, LedgerInv
<1> QED
  BY <1>1, <1>2, InitInv, StepInv, PTL DEF Spec, LedgerSpec

\* What the ledger promises, under every interleaving of executors, sweeps,
\* reconcilers, people and late answers.
THEOREM ActionsKeepTheLedger ==
    Spec => [](LedgerTypeOK /\ TotalsMatchEvents) /\ SettledOnce /\ NeverGrowsPastLimit
BY ImplementsLedger, LedgerTotals, LedgerSettlesOnce, LedgerRespectsLimit, PTL

-----------------------------------------------------------------------------
(* The life cycle others build on *)

\* Nothing is seen to move when no status does and no request leaves.
LEMMA NothingSeen ==
    ASSUME \A op \in Operations : row'[op].status = row[op].status,
           \A op \in Operations : call'[op] # "none" <=> call[op] # "none"
    PROVE  UNCHANGED Lifecycle!lifecycleVars
BY DEF Lifecycle!lifecycleVars

\* One status moves as ActionLifecycle allows, and no request leaves.
LEMMA StatusSeen ==
    ASSUME NEW op \in Operations, UNCHANGED call,
           \A o \in Operations : o # op => row'[o] = row[o],
           \/ row[op].status = "NONE" /\ row'[op].status = "PENDING"
           \/ row[op].status \in {"CALLING", "UNKNOWN_OUTCOME"} /\ row'[op].status = "SUCCEEDED"
           \/ row[op].status \in OpenStatuses /\ row'[op].status = "FAILED_CONFIRMED"
           \/ row[op].status = "CALLING" /\ row'[op].status = "UNKNOWN_OUTCOME"
    PROVE  Lifecycle!LifecycleNext
<1> DEFINE status == [o \in Operations |-> row[o].status]
<1>1. status' = [status EXCEPT ![op] = row'[op].status]
  OBVIOUS
<1>2. UNCHANGED {o \in Operations : call[o] # "none"}
  OBVIOUS
<1>3. CASE row[op].status = "NONE" /\ row'[op].status = "PENDING"
  <2>1. Lifecycle!OpenAction(op)
    BY <1>1, <1>2, <1>3 DEF Lifecycle!OpenAction
  <2> QED
    BY <2>1 DEF Lifecycle!LifecycleNext
<1>4. CASE row[op].status \in {"CALLING", "UNKNOWN_OUTCOME"} /\ row'[op].status = "SUCCEEDED"
  <2>1. Lifecycle!Succeeds(op)
    BY <1>1, <1>2, <1>4 DEF Lifecycle!Succeeds
  <2> QED
    BY <2>1 DEF Lifecycle!LifecycleNext
<1>5. CASE row[op].status \in OpenStatuses /\ row'[op].status = "FAILED_CONFIRMED"
  <2>1. Lifecycle!Fails(op)
    BY <1>1, <1>2, <1>5 DEF Lifecycle!Fails, OpenStatuses
  <2> QED
    BY <2>1 DEF Lifecycle!LifecycleNext
<1>6. CASE row[op].status = "CALLING" /\ row'[op].status = "UNKNOWN_OUTCOME"
  <2>1. Lifecycle!IsLost(op)
    BY <1>1, <1>2, <1>6 DEF Lifecycle!IsLost
  <2> QED
    BY <2>1 DEF Lifecycle!LifecycleNext
<1> QED
  BY <1>3, <1>4, <1>5, <1>6

\* A compare-and-set that closes a row, or declares its outcome unknown, is a step of it.
LEMMA TransitionIsSeen ==
    ASSUME ActionsTypeOK, UNCHANGED call, NEW op \in Operations, NEW expected \in SUBSET OpenStatuses,
           NEW to \in Statuses, NEW by \in Closers, Transition(op, expected, to, by),
           \/ to = "FAILED_CONFIRMED"
           \/ to = "SUCCEEDED" /\ "PENDING" \notin expected
           \/ to = "UNKNOWN_OUTCOME" /\ expected = {"CALLING"}
    PROVE  Lifecycle!LifecycleNext
<1>0. /\ row[op].status \in expected
      /\ row'[op] = [status |-> to, request |-> row[op].request, applied |-> row[op].applied, by |-> by]
      /\ \A o \in Operations : o # op => row'[o] = row[o]
  BY TransitionFacts
<1>1. row[op].status \in OpenStatuses /\ row'[op].status = to
  BY <1>0
<1> QED
  BY <1>0, <1>1, StatusSeen DEF OpenStatuses

LEMMA BeginIsSeen ==
    ASSUME ActionsTypeOK, NEW e \in Executors, Begin(e)
    PROVE  Lifecycle!LifecycleNext
<1>1. PICK op \in Operations : op = session[e].op
  BY BoundSession DEF Begin, Sessions
<1>2. Transition(op, {"PENDING"}, "CALLING", "nobody") /\ call' = [call EXCEPT ![op] = "sent"]
  BY <1>1 DEF Begin
<1>3. "nobody" \in Closers /\ "CALLING" \in Statuses /\ {"PENDING"} \in SUBSET OpenStatuses
  BY DEF OpenStatuses, Statuses, Closers
<1>4. /\ row[op].status \in {"PENDING"}
      /\ row'[op] = [status |-> "CALLING", request |-> row[op].request, applied |-> row[op].applied, by |-> "nobody"]
      /\ \A o \in Operations : o # op => row'[o] = row[o]
  BY <1>3, <1>2, TransitionFacts
<1>5. row[op].status = "PENDING" /\ row'[op].status = "CALLING"
  BY <1>4
<1>6. [o \in Operations |-> row[o].status]' = [[o \in Operations |-> row[o].status] EXCEPT ![op] = "CALLING"]
  BY <1>5, <1>4
<1>7. {o \in Operations : call[o] # "none"}' = {o \in Operations : call[o] # "none"} \cup {op}
  BY <1>2 DEF ActionsTypeOK
<1>8. Lifecycle!BeginCall(op)
  BY <1>5, <1>6, <1>7 DEF Lifecycle!BeginCall
<1> QED
  BY <1>8 DEF Lifecycle!LifecycleNext

LEMMA CloseUnknownIsSeen ==
    ASSUME ActionsTypeOK, NEW op \in Operations, NEW to \in ClosedStatuses, NEW by \in Closers,
           CloseUnknown(op, to, by)
    PROVE  Lifecycle!LifecycleNext
BY TransitionIsSeen DEF CloseUnknown, OpenStatuses, ClosedStatuses, Statuses

\* Every step of executors, sweeps, reconcilers, people and the provider is a step of the
\* life cycle of one operation, or is not seen at all.
LEMMA StepIsSeen ==
    ActionsTypeOK /\ [Next]_vars => [Lifecycle!LifecycleNext]_(Lifecycle!lifecycleVars)
<1> SUFFICES ASSUME ActionsTypeOK, [Next]_vars
             PROVE  Lifecycle!LifecycleNext \/ UNCHANGED Lifecycle!lifecycleVars
  OBVIOUS
<1> USE DEF Closers
<1>1. ASSUME UNCHANGED <<row, call>> PROVE UNCHANGED Lifecycle!lifecycleVars
  BY <1>1, NothingSeen
<1>2. ASSUME NEW e \in Executors, ExecutorStep(e)
      PROVE  Lifecycle!LifecycleNext \/ UNCHANGED Lifecycle!lifecycleVars
  <2>1. ASSUME NEW s \in Sites, NEW q \in Requests, OpenNew(e, s, q) PROVE Lifecycle!LifecycleNext
    <3>1. PICK n \in 0..(MaxSequence - 1) :
            /\ <<s, n + 1>> \in Operations /\ row[<<s, n + 1>>].status = "NONE"
            /\ row'[<<s, n + 1>>] = Pending(q)
            /\ \A o \in Operations : o # <<s, n + 1>> => row'[o] = row[o]
      BY <2>1, OpenNewFacts
    <3>2. UNCHANGED call /\ Pending(q).status = "PENDING"
      BY <2>1 DEF OpenNew, Pending
    <3> QED
      BY <3>1, <3>2, StatusSeen
  <2>2. ASSUME NEW to \in Statuses, Finish(e, to) PROVE Lifecycle!LifecycleNext
    <3>1. PICK op \in Operations : op = session[e].op
      BY <2>2, BoundSession DEF Finish, Sessions
    <3>2. /\ \/ to \in ClosedStatuses /\ Transition(op, {"CALLING", "UNKNOWN_OUTCOME"}, to, CloserOf(e))
             \/ to = "UNKNOWN_OUTCOME" /\ Transition(op, {"CALLING"}, to, "nobody")
          /\ UNCHANGED call
      BY <2>2, <3>1 DEF Finish
    <3>3. CloserOf(e) \in Closers
      BY DEF CloserOf
    <3> QED
      BY <3>2, <3>3, TransitionIsSeen DEF OpenStatuses, ClosedStatuses
  <2>3. ASSUME MarkApplied(e) PROVE UNCHANGED Lifecycle!lifecycleVars
    <3>1. PICK op \in Operations : op = session[e].op
      BY <2>3, BoundSession DEF MarkApplied, Sessions
    <3>2. row' = [row EXCEPT ![op].applied = TRUE] /\ UNCHANGED call
      BY <2>3, <3>1 DEF MarkApplied
    <3>3. \A o \in Operations : row'[o].status = row[o].status
      BY <3>2 DEF ActionsTypeOK, Rows, NoRow
    <3> QED
      BY <3>2, <3>3, NothingSeen
  <2>4. ASSUME NEW s \in Sites, NEW q \in Requests, OpenAgain(e, s, q) PROVE UNCHANGED <<row, call>>
    BY <2>4 DEF OpenAgain
  <2>5. ASSUME NEW to \in Statuses, FinishRefused(e, to) PROVE UNCHANGED <<row, call>>
    BY <2>5 DEF FinishRefused
  <2>6. ASSUME BeginRefused(e) \/ AlreadyDone(e) \/ Crash(e) PROVE UNCHANGED <<row, call>>
    BY <2>6 DEF BeginRefused, AlreadyDone, Crash
  <2> QED
    BY <1>1, <1>2, <2>1, <2>2, <2>3, <2>4, <2>5, <2>6, BeginIsSeen DEF ExecutorStep
<1>3. ASSUME ReconcilerStep PROVE Lifecycle!LifecycleNext \/ UNCHANGED Lifecycle!lifecycleVars
  <2>1. ASSUME NEW op \in Operations, SweepPending(op) \/ SweepCalling(op) PROVE Lifecycle!LifecycleNext
    BY <2>1, TransitionIsSeen DEF SweepPending, SweepCalling, OpenStatuses, ClosedStatuses, Statuses
  <2>2. ASSUME NEW s \in Sites, MarkInterrupted(s) PROVE Lifecycle!LifecycleNext
    <3>1. PICK n \in 1..MaxSequence : Transition(<<s, n>>, {"CALLING"}, "UNKNOWN_OUTCOME", "nobody")
      BY <2>2 DEF MarkInterrupted
    <3>2. <<s, n>> \in Operations /\ UNCHANGED call
      BY <2>2 DEF Operations, MarkInterrupted
    <3> QED
      BY <3>1, <3>2, TransitionIsSeen DEF OpenStatuses, Statuses
  <2>3. ASSUME NEW op \in Operations, LookupReconcile(op) \/ ReplayAnswer(op) PROVE Lifecycle!LifecycleNext
    BY <2>3, CloseUnknownIsSeen DEF LookupReconcile, ReplayAnswer, ClosedStatuses
  <2>4. ASSUME NEW op \in Operations, NEW succeeded \in BOOLEAN, Resolve(op, succeeded)
        PROVE  Lifecycle!LifecycleNext
    BY <2>4, CloseUnknownIsSeen DEF Resolve, ClosedStatuses
  <2>5. ASSUME NEW op \in Operations, ReplaySend(op) PROVE UNCHANGED <<row, call>>
    BY <2>5 DEF ReplaySend
  <2> QED
    BY <1>1, <1>3, <2>1, <2>2, <2>3, <2>4, <2>5 DEF ReconcilerStep
<1>4. ASSUME EnvironmentStep PROVE UNCHANGED Lifecycle!lifecycleVars
  <2>1. ASSUME NEW op \in Operations, ProviderExecutes(op) PROVE UNCHANGED Lifecycle!lifecycleVars
    <3>1. UNCHANGED row /\ \A o \in Operations : call'[o] # "none" <=> call[o] # "none"
      BY <2>1 DEF ProviderExecutes, ActionsTypeOK
    <3> QED
      BY <3>1, NothingSeen
  <2>2. ASSUME NEW op \in Operations, NEW how \in {"rejected", "lost"}, ProviderIgnores(op, how)
        PROVE  UNCHANGED Lifecycle!lifecycleVars
    <3>1. UNCHANGED row /\ \A o \in Operations : call'[o] # "none" <=> call[o] # "none"
      BY <2>2 DEF ProviderIgnores, ActionsTypeOK
    <3> QED
      BY <3>1, NothingSeen
  <2>3. ASSUME NEW b \in BOOLEAN, SwitchTo(b) PROVE UNCHANGED <<row, call>>
    BY <2>3 DEF SwitchTo
  <2>4. ASSUME NEW h \in Limits, Authorise(h) PROVE UNCHANGED <<row, call>>
    BY <2>4 DEF Authorise, actionVars
  <2> QED
    BY <1>1, <1>4, <2>1, <2>2, <2>3, <2>4 DEF EnvironmentStep
<1>5. ASSUME UNCHANGED vars PROVE UNCHANGED <<row, call>>
  BY <1>5 DEF vars, actionVars
<1> QED
  BY <1>1, <1>2, <1>3, <1>4, <1>5 DEF Next

\* The actions implement the life cycle that payments, orders and the pipeline are built
\* on (actions/service.py): whoever moves a row, and in whatever order, an operation is
\* opened, leaves, is lost, succeeds or fails, each once and in this order.
THEOREM ImplementsLifecycle == Spec => FollowsLifecycle
<1>1. Init => Lifecycle!LifecycleInit
  BY DEF Init, NoRow, Lifecycle!LifecycleInit
<1>2. Inv => ActionsTypeOK
  BY DEF Inv
<1> QED
  BY <1>1, <1>2, InitInv, StepInv, StepIsSeen, PTL DEF Spec, FollowsLifecycle, Lifecycle!LifecycleSpec

=============================================================================
