----------------------------- MODULE SupplierRisk -----------------------------
(***************************************************************************)
(* The risk of a supplier (sourcing/risk.py): eight dimensions, each one   *)
(* with a level or none, and no score above them.  Pure: what is known of  *)
(* a supplier is a record, in which a fact nobody stated says so.  What a  *)
(* supplier can do (sourcing/capabilities.py) is resolved from what was    *)
(* declared, of all that it sells or of the product.                       *)
(*                                                                         *)
(* A text is what is read in it: the terms of payment, whether they ask    *)
(* for an advance; a place, a name in lower case.  A reliability is in     *)
(* tenths.                                                                 *)
(***************************************************************************)
EXTENDS ExchangeRates

Silent == "silent"      \* a text nobody stated, or blank
NoNumber == -1          \* a number nobody stated

Answers == {"yes", "no", "unasked"}
Terms == {"advance", "plain", Silent}

SupplierFacts(places) ==
    [country : places \cup {Silent}, region : places \cup {Silent}, website : BOOLEAN,
     verification : Provenances, reliability : 0..10 \cup {NoNumber}, reliabilityBy : Provenances,
     ddp : BOOLEAN, terms : Terms, lead : Nat \cup {NoNumber}, transit : Nat \cup {NoNumber},
     destination : places \cup {Silent},
     sla : Answers, tracking : Answers, returns : Answers, euReturns : Answers, quotations : Nat]

\* What was declared of one capability and applies to the product, and when.
Declarations == [supported : BOOLEAN, specific : BOOLEAN, by : Storable, at : Nat]

\* What is said of the product corrects what is said of all; then the firmest, then the last.
Prevails(d, e) ==
    IF d.specific # e.specific THEN d.specific
    ELSE IF Rank[d.by] # Rank[e.by] THEN Rank[d.by] < Rank[e.by] ELSE d.at >= e.at

\* resolve: nobody asked is not a no.
Resolve(declared) ==
    IF declared = {} THEN "unasked"
    ELSE IF (CHOOSE d \in declared : \A e \in declared : Prevails(d, e)).supported THEN "yes" ELSE "no"

\* risk_profile: what the rows of the supplier, of the quotation and of its capabilities
\* say.  The alternatives are the quotations of the product, whoever made them.
FactsOf(supplier, quote, declared, quotations) ==
    [country |-> supplier.country, region |-> supplier.region, website |-> supplier.website,
     verification |-> supplier.verification,
     reliability |-> supplier.reliability, reliabilityBy |-> supplier.reliabilityBy,
     ddp |-> quote.ddp, terms |-> quote.terms, lead |-> quote.lead, transit |-> quote.transit,
     destination |-> quote.destination,
     sla |-> Resolve(declared["sla"]), tracking |-> Resolve(declared["tracking"]),
     returns |-> Resolve(declared["returns"]), euReturns |-> Resolve(declared["eu_return_address"]),
     quotations |-> quotations]

Dimensions ==
    {"identity", "financial", "quality", "delivery", "legal", "fraud", "dependency", "logistics"}

\* UNKNOWN is outside the scale.
Levels == {"low", "medium", "high", "unknown"}

Verified(f) == f.verification = "third_party_verified"

Identity(f) ==
    IF Verified(f) THEN "low"
    ELSE IF f.country = Silent /\ ~f.website THEN "unknown"
    ELSE IF f.verification = "supplier_claim" THEN "medium" ELSE "high"

Financial(f) ==
    IF f.terms = Silent THEN "unknown"
    ELSE IF f.terms = "plain" THEN "low"
    ELSE IF Verified(f) THEN "medium" ELSE "high"

\* Who values without a value is a third party that says nothing good.
Quality(f) ==
    IF f.reliabilityBy = "third_party_verified" THEN IF f.reliability >= 8 THEN "low" ELSE "medium"
    ELSE IF f.reliability = NoNumber THEN "unknown" ELSE "medium"

\* The sum of the days that are stated.
Days(f) ==
    (IF f.lead = NoNumber THEN 0 ELSE f.lead) + (IF f.transit = NoNumber THEN 0 ELSE f.transit)

Timed(f) == f.lead # NoNumber \/ f.transit # NoNumber

Delivery(f) ==
    IF ~Timed(f) /\ f.sla = "unasked" /\ f.tracking = "unasked" THEN "unknown"
    ELSE IF f.sla = "yes" /\ f.tracking = "yes" /\ Timed(f) /\ Days(f) <= 14 THEN "low"
    ELSE IF Timed(f) /\ Days(f) > 30 THEN "high"
    ELSE IF f.sla = "no" \/ f.tracking = "no" THEN "high" ELSE "medium"

LegalRisk(f) ==
    IF f.returns = "unasked" /\ f.euReturns = "unasked" THEN "unknown"
    ELSE IF f.returns = "yes" /\ f.euReturns = "yes" THEN "low"
    ELSE IF f.returns = "no" \/ f.euReturns = "no" THEN "high" ELSE "medium"

Fraud(f) ==
    CASE f.verification = "unknown" -> "unknown"
      [] f.verification = "simulated" -> "high"
      [] f.verification = "third_party_verified" -> "low"
      [] OTHER -> "medium"

Dependency(f) ==
    IF f.quotations <= 1 THEN "high" ELSE IF f.quotations = 2 THEN "medium" ELSE "low"

\* A country is not compared with a market, unless it is the market.
Logistics(f) ==
    IF f.destination = Silent \/ (f.region = Silent /\ f.country # f.destination) THEN "unknown"
    ELSE IF f.region \in {Silent, f.destination} THEN "low"
    ELSE IF f.ddp THEN "medium" ELSE "high"

\* assess: always the eight.
Assess(f) ==
    [d \in Dimensions |->
        CASE d = "identity" -> Identity(f)
          [] d = "financial" -> Financial(f)
          [] d = "quality" -> Quality(f)
          [] d = "delivery" -> Delivery(f)
          [] d = "legal" -> LegalRisk(f)
          [] d = "fraud" -> Fraud(f)
          [] d = "dependency" -> Dependency(f)
          [] d = "logistics" -> Logistics(f)]

Unassessed(f) == {d \in Dimensions : Assess(f)[d] = "unknown"}

=============================================================================
