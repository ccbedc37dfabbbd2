----------------------------- MODULE CeoDecision -----------------------------
(***************************************************************************)
(* What the CEO decides of a product (ceo/decision_engine.py) from what    *)
(* the four specialists say (agents/), and what becomes of a decision that *)
(* asks for money (ceo/orchestrator.py): the gate's budget, the            *)
(* reservation, the approval a person will resolve.  Pure: an objective    *)
(* is a record, and what Missions calls a decision is computed here.       *)
(*                                                                         *)
(* Confidences are in hundredths and scores in ten-thousandths.  A number  *)
(* of searches below zero ends in an error and no decision; it is left out.*)
(***************************************************************************)
EXTENDS ActionGate

Specialties == {"product_validation", "supplier_sourcing", "finance_validation", "legal_validation"}
DecisionStatus == {"GO", "REVIEW", "NO_GO", "HUMAN_APPROVAL"}

\* objective.context, with the values its defaults give where it says nothing: no
\* searches, a certificate that is available.  `quoted` and `costed` say whether the
\* supplier and the finance task were given their figures; nothing relates the two costs.
Objectives ==
    [searches : Nat, competition : {"low", "medium", "high", "unsaid"},
     quoted : BOOLEAN, verified : BOOLEAN,
     costed : BOOLEAN, cost : Int, price : Int, sales : Int,
     restricted : BOOLEAN, certificate : BOOLEAN,
     spends : BOOLEAN, amount : Int, stop : BOOLEAN]

\* What is free of the authorised budget when it is assessed and when the reservation
\* is written, NoAmount where there is none.  A budget is never taken away.
Funds == {b \in [available : Int, left : Int, simulated : BOOLEAN] :
              b.available # NoAmount => b.left # NoAmount}

-----------------------------------------------------------------------------
(* The specialists. *)

CompetitionTenths == [low |-> 10, medium |-> 6, high |-> 3]

MarketKnown(o) == o.searches # 0 /\ o.competition \in DOMAIN CompetitionTenths

OpportunityScore(o) ==
    LET exact == o.searches * CompetitionTenths[o.competition]
        rounded == (exact + 5) \div 10
    IN  IF ~MarketKnown(o) THEN 0 ELSE IF rounded > 10000 THEN 10000 ELSE rounded

ProductConfidence(o) == IF ~MarketKnown(o) THEN 30 ELSE IF o.searches >= 1000 THEN 90 ELSE 50
SupplierConfidence(o) == IF ~o.quoted THEN 30 ELSE IF o.verified THEN 85 ELSE 40

FinanceKnown(o) == o.costed /\ o.price # 0
FinanceConfidence(o) == IF ~FinanceKnown(o) THEN 30 ELSE IF o.sales > 0 THEN 90 ELSE 40

\* The sign of (price - cost) / price.
FinanceVeto(o) ==
    /\ FinanceKnown(o)
    /\ \/ o.price > 0 /\ o.cost > o.price
       \/ o.price < 0 /\ o.cost < o.price

LegalBlocked(o) == o.restricted /\ ~o.certificate
LegalConfidence(o) == IF LegalBlocked(o) THEN 95 ELSE 85

Confidences(o) == {ProductConfidence(o), SupplierConfidence(o), FinanceConfidence(o), LegalConfidence(o)}

-----------------------------------------------------------------------------
(* The decision. *)

RequiresHumanApproval(o) ==
    o.spends /\ Check("ceo_agent", "external.spend", FALSE) = "HUMAN_APPROVAL_REQUIRED"

EvaluateDecision(o) ==
    IF o.stop \/ LegalBlocked(o) \/ FinanceVeto(o) THEN "NO_GO"
    ELSE IF (\E c \in Confidences(o) : c < 50) \/ OpportunityScore(o) < 5000 THEN "REVIEW"
    ELSE IF RequiresHumanApproval(o) THEN "HUMAN_APPROVAL"
    ELSE "GO"

\* `missing`: the tasks that did not complete.  Nothing is read of the others then, not
\* even a veto or the stop of a person.
Synthesised(o, missing) == IF missing # {} THEN "REVIEW" ELSE EvaluateDecision(o)

\* A budget that exists at the second look is asked again, in the statement that reserves.
Reserves(o, b) == o.amount # 0 /\ b.left # NoAmount
Denied(o, b) ==
    \/ ~Approves(AssessSpend(o.amount, b.available, b.simulated))
    \/ Reserves(o, b) /\ b.left < o.amount

Asks(o, missing, b) == Synthesised(o, missing) = "HUMAN_APPROVAL" /\ ~Denied(o, b)

Concluded(o, missing, b) ==
    IF Synthesised(o, missing) = "HUMAN_APPROVAL" /\ Denied(o, b) THEN "NO_GO"
    ELSE Synthesised(o, missing)

ProjectStatus == [GO |-> "APPROVED", NO_GO |-> "REJECTED", REVIEW |-> "VALIDATING", HUMAN_APPROVAL |-> "VALIDATING"]

\* What _conclude leaves: the decision, the approval pending (or none), the money held
\* for it and where the project goes.
Conclusion(o, missing, b) ==
    [status |-> Concluded(o, missing, b),
     approval |-> IF Asks(o, missing, b) THEN "PENDING" ELSE "NONE",
     reserved |-> IF Asks(o, missing, b) /\ Reserves(o, b) THEN o.amount ELSE 0,
     project |-> ProjectStatus[Concluded(o, missing, b)]]

=============================================================================
