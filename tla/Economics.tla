------------------------------ MODULE Economics ------------------------------
(***************************************************************************)
(* The economic analysis of a product (app/economics, the agent of the     *)
(* analysis): what a quotation costs in the currency of the analysis, what *)
(* each of the six costs is in a channel, the margin of a unit, of an      *)
(* order and of an acquisition, and the recommendation.                    *)
(*                                                                         *)
(* Pure: a request and a quotation are records, and so is the result.  An  *)
(* amount nobody declared is a record too, never a number.                 *)
(***************************************************************************)
EXTENDS ExchangeRates

Cent == 100
Rounded(n) == Cent * HalfUp(n, Cent)    \* to two places, to show it

Amounts == [known : BOOLEAN, amount : Int]
Declared == [known : BOOLEAN, amount : Nat]

\* An amount and who stands behind it.
Facts == [by : Provenances, amount : Nat]
Known(fact) == fact.by # "unknown"
Nobody == [by |-> "unknown", amount |-> 0]

Concepts == {"product", "logistics", "import", "channel", "payment", "other_variable"}
Channels == {"own_web", "marketplace"}    \* where something is sold; another is refused

\* An unknown cost that changes the answer is required; what is included in another
\* names it and has no amount, like all that is not known.
Component(status, fact, within) == [status |-> status, fact |-> fact, within |-> within]
KnownCost(fact) == Component("known", fact, "none")
IncludedIn(concept) == Component("included", Nobody, concept)
NotApplicable == Component("not_applicable", Nobody, "none")
UnknownRequired == Component("unknown_required", Nobody, "none")
UnknownOptional == Component("unknown_optional", Nobody, "none")

\* What the supplier did not say is not zero: a price and a shipping may be missing.
Quotations(currencies) ==
    [currency : currencies \cup {"undeclared"}, priced : BOOLEAN, price : Nat, by : Provenances,
     shipped : BOOLEAN, shipping : Nat, shippingBy : Provenances,
     dutiesPaid : BOOLEAN, sameMarket : BOOLEAN]

\* `units` of an order is 0 when nobody declared it; `demand` is the units of a month
\* that the research suggests.
UnitEconomicsInputs(currencies) ==
    [price : Nat \ {0}, currency : currencies, channel : Channels, feePercent : 0..100,
     feeFixed : Nat, feeKnown : BOOLEAN, payment : Declared, simulated : BOOLEAN, other : Declared,
     units : Nat, monthly : Declared, demand : Declared, fixed : Nat]

-----------------------------------------------------------------------------
(* The costs. *)

\* _quote_costs_in: an amount in the currency of the analysis.  Without a rate, or
\* with an old one, there is no amount.
InCurrency(amount, from, to, rate, on) ==
    IF from = "undeclared" THEN NoMoney
    ELSE IF from = to THEN Amount(amount) ELSE Convert(amount, from, to, rate, on)

RateMissing(quote, x, rate, on) ==
    /\ quote.currency \notin {"undeclared", x.currency}
    /\ quote.priced \/ quote.shipped
    /\ ~Applies(rate, quote.currency, x.currency, on)

\* An amount that nobody stands behind is not used.
Supported(amount, by) ==
    IF amount.known /\ by # "unknown" THEN [by |-> by, amount |-> amount.amount] ELSE Nobody

ProductCost(quote, x, rate, on) ==
    IF ~quote.priced THEN Nobody
    ELSE Supported(InCurrency(quote.price, quote.currency, x.currency, rate, on), quote.by)

\* Who says nothing of the shipping says what the quotation says.
ShippingCost(quote, x, rate, on) ==
    IF ~quote.shipped THEN Nobody
    ELSE Supported(InCurrency(quote.shipping, quote.currency, x.currency, rate, on),
                   IF quote.shippingBy = "unknown" THEN quote.by ELSE quote.shippingBy)

\* _import_component, and what build_breakdown makes of it: duties inside a price that
\* nobody declared are not paid, they are unknown.
ImportCost(quote, product, shipping) ==
    IF quote.dutiesPaid
    THEN IF Known(product) THEN IncludedIn("product") ELSE UnknownRequired
    ELSE IF quote.sameMarket THEN NotApplicable
    ELSE IF Known(shipping) /\ shipping.by = "amazona_estimate" THEN IncludedIn("logistics")
    ELSE UnknownRequired

\* Nothing is paid to anybody in one's own web; a marketplace charges a part of the
\* price and a fixed fee, which today come from a fixture.
ChannelCost(x) ==
    IF x.channel = "own_web" THEN NotApplicable
    ELSE IF ~x.feeKnown THEN UnknownRequired
    ELSE KnownCost([by |-> "simulated", amount |-> HalfUp(x.price * x.feePercent, 100) + x.feeFixed])

\* _payment_cost: what was declared, or the fixture where simulated data are admitted,
\* which is 2.9 % and 25 cents in one's own web.
PaymentFact(x) ==
    IF x.payment.known THEN [by |-> "declared", amount |-> x.payment.amount]
    ELSE IF x.simulated /\ x.channel = "own_web"
    THEN [by |-> "simulated", amount |-> HalfUp(x.price * 29, 1000) + 25 * Cent]
    ELSE Nobody

PaymentCost(x) ==
    IF Known(PaymentFact(x)) THEN KnownCost(PaymentFact(x))
    ELSE IF x.channel = "marketplace" /\ ChannelCost(x).status = "known" THEN IncludedIn("channel")
    ELSE IF x.channel = "own_web" THEN UnknownRequired ELSE UnknownOptional

Required(fact) == IF Known(fact) THEN KnownCost(fact) ELSE UnknownRequired

OtherCost(x) ==
    IF x.other.known THEN KnownCost([by |-> "declared", amount |-> x.other.amount]) ELSE UnknownOptional

Breakdown(quote, x, rate, on) ==
    LET product == ProductCost(quote, x, rate, on)
        shipping == ShippingCost(quote, x, rate, on)
    IN [c \in Concepts |->
          CASE c = "product" -> Required(product)
            [] c = "logistics" -> Required(shipping)
            [] c = "import" -> ImportCost(quote, product, shipping)
            [] c = "channel" -> ChannelCost(x)
            [] c = "payment" -> PaymentCost(x)
            [] c = "other_variable" -> OtherCost(x)]

\* check_invariants: what the construction of a breakdown refuses.  A concept is
\* stated once because a breakdown is a function of the concepts.
WellFormed(breakdown) ==
    \A c \in Concepts :
        /\ breakdown[c].status = "known" <=> Known(breakdown[c].fact)
        /\ breakdown[c].status = "included" =>
              breakdown[c].within # c /\ breakdown[breakdown[c].within].status = "known"

Blocking(breakdown) == {c \in Concepts : breakdown[c].status = "unknown_required"}

\* total_cost: what is known, and nothing else (an unknown cost has no amount).
TotalCost(breakdown) ==
    breakdown["product"].fact.amount + breakdown["logistics"].fact.amount
      + breakdown["import"].fact.amount + breakdown["channel"].fact.amount
      + breakdown["payment"].fact.amount + breakdown["other_variable"].fact.amount

\* weakest_provenance: a margin is worth what the weakest of its terms is worth.
Weakest(breakdown) ==
    LET counted == {breakdown[c].fact.by : c \in {d \in Concepts : breakdown[d].status = "known"}}
    IN IF counted = {} THEN "unknown" ELSE CHOOSE p \in counted : \A q \in counted : Rank[q] <= Rank[p]

-----------------------------------------------------------------------------
(* Unit, order and acquisition. *)

MonthlyUnits(x) == IF x.monthly.known THEN x.monthly ELSE x.demand

\* evaluate: the chain stops where the facts do.
MarginPerUnit(breakdown, x) ==
    IF Blocking(breakdown) # {} THEN NoMoney ELSE Amount(x.price - TotalCost(breakdown))

MarginPerOrder(breakdown, x) ==
    IF MarginPerUnit(breakdown, x).known /\ x.units # 0
    THEN Amount(MarginPerUnit(breakdown, x).amount * x.units) ELSE NoMoney

\* The orders of a month are its units by the units of an order.
Orders(x) == Kept(MonthlyUnits(x).amount, x.units)

FixedPerOrder(breakdown, x) ==
    IF Blocking(breakdown) = {} /\ x.units # 0 /\ MonthlyUnits(x).known /\ MonthlyUnits(x).amount > 0
    THEN Amount(Quantized(Kept(x.fixed * Orders(x).under, Orders(x).over))) ELSE NoMoney

MaxCac(breakdown, x) ==
    IF MarginPerOrder(breakdown, x).known /\ FixedPerOrder(breakdown, x).known
    THEN Amount(MarginPerOrder(breakdown, x).amount - FixedPerOrder(breakdown, x).amount) ELSE NoMoney

Evaluable(quote, x, rate, on) ==
    ~RateMissing(quote, x, rate, on) /\ Blocking(Breakdown(quote, x, rate, on)) = {}

\* build_scenarios: 7, 10 and 13 tenths of the units of a month.
Profit(landed, x, tenths) == (x.price - landed) * MonthlyUnits(x).amount * tenths - 10 * x.fixed

\* EconomicAnalysisAgent.run, which is given the cost to the cent.
Recommend(landed, x) ==
    IF ~MonthlyUnits(x).known THEN "REVIEW"
    ELSE IF x.price - landed < 0 \/ Profit(landed, x, 10) < 0 THEN "NO_GO"
    ELSE IF Profit(landed, x, 7) < 0 THEN "REVIEW" ELSE "GO"

\* _run_agent: what cannot be known is a doubt and not a verdict; what is known is given
\* to the agent as a cost to the cent.
Verdict(quote, x, rate, on) ==
    IF Evaluable(quote, x, rate, on)
    THEN Recommend(Rounded(x.price - MarginPerUnit(Breakdown(quote, x, rate, on), x).amount), x)
    ELSE "REVIEW"

\* run_analysis: what is kept, in which no figure stands for a fact that is missing.
Analyse(quote, x, rate, on) ==
    LET breakdown == Breakdown(quote, x, rate, on)
        shown(amount) == IF Evaluable(quote, x, rate, on) THEN amount ELSE NoMoney
    IN [recommendation |-> Verdict(quote, x, rate, on),
        margin |-> shown(MarginPerUnit(breakdown, x)),
        perOrder |-> shown(MarginPerOrder(breakdown, x)),
        fixedPerOrder |-> shown(FixedPerOrder(breakdown, x)),
        cac |-> shown(MaxCac(breakdown, x)),
        weakest |-> Weakest(breakdown)]
=============================================================================
