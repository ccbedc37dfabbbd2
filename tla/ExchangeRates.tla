--------------------------- MODULE ExchangeRates ---------------------------
(***************************************************************************)
(* The exchange rates that the system keeps (app/money): rows that people  *)
(* declare and rows that a refresh takes from the European Central Bank,   *)
(* the choice of one of them, and the conversion of an amount.             *)
(*                                                                         *)
(* Pure: the table is a set of rows, an instant is a number.  `at` is when *)
(* a row was written, `day` the day the rate belongs to.  An amount counts *)
(* ten-thousandths of its currency, which is what Money keeps.             *)
(***************************************************************************)
EXTENDS Integers

\* Who stands behind a fact, the firmest first (app/sourcing/provenance.py).
Rank == [third_party_verified |-> 0, supplier_claim |-> 1, declared |-> 2,
         amazona_estimate |-> 3, simulated |-> 4, unknown |-> 5]
Provenances == DOMAIN Rank
Storable == Provenances \ {"unknown"}

Unit == 100000000   \* the rate that leaves an amount as it is; a rate has eight decimals
MaxRateAge == 30    \* days

\* ROUND_HALF_UP, which for a debt is away from zero.
HalfUp(n, d) ==
    IF n >= 0 THEN (2 * n + d) \div (2 * d) ELSE -((d - 2 * n) \div (2 * d))

\* What decimal arithmetic keeps of n / d: the digits that its precision has room for,
\* the last of them by ROUND_HALF_EVEN.  No quantity here is larger than that room.
Precision == 28

HalfEven(n, d) ==
    LET low == n \div d
        twice == 2 * (n % d)
    IN IF twice > d \/ (twice = d /\ low % 2 = 1) THEN low + 1 ELSE low

Scales(n, d) ==
    {s \in Nat \ {0} : /\ \E k \in 0..(2 * Precision) : s = 10^k
                      /\ 10^(Precision - 1) * d <= n * s /\ n * s < 10^Precision * d}

Kept(n, d) ==
    IF Scales(n, d) = {} THEN [over |-> n, under |-> d]
    ELSE LET s == CHOOSE s \in Scales(n, d) : TRUE IN [over |-> HalfEven(n * s, d), under |-> s]

\* As an amount of money.
Quantized(x) == HalfUp(x.over, x.under)

-----------------------------------------------------------------------------
(* The table. *)

Rows(currencies) ==
    {row \in [base : currencies, quote : currencies, rate : Nat \ {0}, day : Nat,
              by : Storable, ecb : BOOLEAN, at : Nat] : row.base # row.quote}

\* POST /api/exchange-rates: a rate of the future is refused, and no one but the
\* refresh writes in the name of the bank.
Declare(rows, row, today) == IF row.ecb \/ row.day > today THEN rows ELSE rows \cup {row}

\* A publication is the currency it quotes against, its day and the rate of each
\* currency.  A feed is refused whole when one of them is about another currency or
\* a day to come, or when it says nothing of the currencies that are admitted.
Candidates(feed, admitted) ==
    {x \in feed \X admitted : x[2] \in DOMAIN x[1].rates}

Refused(feed, admitted, today) ==
    \/ \E p \in feed : p.base # "EUR" \/ p.day > today
    \/ Candidates(feed, admitted) = {}

Same(rows, day, currency) ==
    {r \in rows : r.ecb /\ r.base = "EUR" /\ r.quote = currency /\ r.day = day}

Latest(rows, day, currency) ==
    {r \in Same(rows, day, currency) : \A s \in Same(rows, day, currency) : s.at <= r.at}

Published(p, c, now) ==
    [base |-> "EUR", quote |-> c, rate |-> p.rates[c], day |-> p.day,
     by |-> "third_party_verified", ecb |-> TRUE, at |-> now]

\* _ingest: what says the same as the latest observation is not written again, and
\* what says another thing is written beside it.
Ingest(rows, feed, admitted, today, now) ==
    IF Refused(feed, admitted, today) THEN rows
    ELSE rows \cup {Published(x[1], x[2], now) : x \in
             {y \in Candidates(feed, admitted) :
                 ~\E r \in Latest(rows, y[1].day, y[2]) : r.rate = y[1].rates[y[2]]}}

-----------------------------------------------------------------------------
(* The choice of a rate. *)

NoRate == [rate |-> 0]

Preferred(r, s) ==
    \/ r.day > s.day
    \/ r.day = s.day /\ Rank[r.by] < Rank[s.by]
    \/ r.day = s.day /\ Rank[r.by] = Rank[s.by] /\ r.at >= s.at

Offered(row, window) ==
    [base |-> row.base, quote |-> row.quote, rate |-> row.rate, day |-> row.day,
     by |-> row.by, window |-> window]

\* best_stored_rate: by day, then by who stands behind it, then by when it was written.
BestStored(rows, base, quote, on, ecb, window) ==
    LET known == {r \in rows : r.base = base /\ r.quote = quote /\ r.day <= on /\ r.ecb = ecb}
    IN IF known = {} THEN NoRate
       ELSE Offered(CHOOSE r \in known : \A s \in known : Preferred(r, s), window)

\* A source looks for the pair, then for the pair the other way round.
SourceRate(rows, base, quote, on, ecb, window) ==
    LET direct == BestStored(rows, base, quote, on, ecb, window)
    IN IF direct # NoRate THEN direct ELSE BestStored(rows, quote, base, on, ecb, window)

ManualRate(rows, base, quote, on) == SourceRate(rows, base, quote, on, FALSE, MaxRateAge)
EcbRate(rows, base, quote, on, window) == SourceRate(rows, base, quote, on, TRUE, window)

\* The fixture is of the day one asks.
MockRate(rates, base, quote, on) ==
    IF <<base, quote>> \notin DOMAIN rates THEN NoRate
    ELSE [base |-> base, quote |-> quote, rate |-> rates[<<base, quote>>], day |-> on,
          by |-> "simulated", window |-> MaxRateAge]

Acceptable(rate, on) == rate # NoRate /\ on - rate.day \in 0..rate.window

\* CompositeExchangeRateProvider: the first acceptable answer, or else the first answer.
Choose(answers, on) ==
    LET good == {i \in DOMAIN answers : Acceptable(answers[i], on)}
        said == {i \in DOMAIN answers : answers[i] # NoRate}
        first(S) == CHOOSE i \in S : \A j \in S : i <= j
    IN IF good # {} THEN answers[first(good)]
       ELSE IF said # {} THEN answers[first(said)] ELSE NoRate

\* exchange_rates_for: the bank only where it is configured and its rights are written,
\* the fixture only where simulated data are admitted.
Sources == [window : 1..MaxRateAge, real : BOOLEAN, rights : BOOLEAN, simulated : BOOLEAN]

RateFor(rows, mock, sources, base, quote, on) ==
    Choose(<<ManualRate(rows, base, quote, on),
             IF sources.real /\ sources.rights
             THEN EcbRate(rows, base, quote, on, sources.window) ELSE NoRate,
             IF sources.simulated THEN MockRate(mock, base, quote, on) ELSE NoRate>>, on)

-----------------------------------------------------------------------------
(* The conversion. *)

NoMoney == [known |-> FALSE, amount |-> 0]
Amount(n) == [known |-> TRUE, amount |-> n]

Fits(rate, from, to) ==
    \/ rate.base = from /\ rate.quote = to
    \/ rate.base = to /\ rate.quote = from

Applies(rate, from, to, on) == Acceptable(rate, on) /\ Fits(rate, from, to)

\* convert: in the direction of the rate or in the other one, whose rate is computed
\* first, and never with an old one.
InverseRate(rate) == Kept(Unit, rate)

Convert(amount, from, to, rate, on) ==
    IF ~Applies(rate, from, to, on) THEN NoMoney
    ELSE IF rate.base = from THEN Amount(Quantized(Kept(amount * rate.rate, Unit)))
    ELSE Amount(Quantized(Kept(amount * InverseRate(rate.rate).over, InverseRate(rate.rate).under)))
=============================================================================
