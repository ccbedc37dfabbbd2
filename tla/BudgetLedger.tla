---------------------------- MODULE BudgetLedger ----------------------------
(***************************************************************************)
(* The budget ledger (budgets/service.py): what the owner has authorised   *)
(* (`budgets`), the running totals (`budget_allocations`) and the trail of *)
(* movements (`financial_events`), which admits one RESERVE and one        *)
(* settlement per reference.                                               *)
(*                                                                         *)
(* One action is one transaction: `reserve` takes its decision in the same *)
(* UPDATE that writes, and a settlement holds an advisory lock on its      *)
(* reference.  Amounts are whole cents.  `spent` always moves with         *)
(* `committed` and is left out.                                            *)
(***************************************************************************)
EXTENDS Integers, FiniteSets

CONSTANTS
    References,  \* the spends that may ever be reserved (`reference` column)
    MaxAmount,   \* the largest single amount, in cents
    Limits       \* the hard limits the owner may authorise

ASSUME LedgerAssumption ==
    /\ IsFiniteSet(References)
    /\ MaxAmount \in Nat
    /\ Limits \subseteq Nat \ {0}

VARIABLES
    limit,   \* Budget.hard_limit; 0 while no budget row exists
    totals,  \* BudgetAllocation: reserved and committed
    events   \* FinancialEvent rows of each reference

ledgerVars == <<limit, totals, events>>

Settlements == {"COMMIT", "RELEASE"}

\* No RESERVE row is amount 0; "NO" is a reservation without a settlement row.
NoEvents == [amount |-> 0, settled |-> "NO"]

LedgerTypeOK ==
    /\ limit \in Limits \cup {0}
    /\ totals \in [reserved: Nat, committed: Nat]
    /\ events \in [References -> [amount: 0..MaxAmount, settled: Settlements \cup {"NO"}]]

-----------------------------------------------------------------------------
(* Reading *)

HasBudget == limit # 0

\* A RESERVE without its COMMIT or RELEASE.
Live(ref) == events[ref].amount > 0 /\ events[ref].settled = "NO"

outstanding(ref) == IF Live(ref) THEN events[ref].amount ELSE 0

Fits(a) == limit - totals.reserved - totals.committed >= a

-----------------------------------------------------------------------------
(* Writing *)

LedgerInit ==
    /\ limit = 0
    /\ totals = [reserved |-> 0, committed |-> 0]
    /\ events = [ref \in References |-> NoEvents]

\* The owner creates or changes the ceiling.  What is already held is not
\* consulted: the new limit may be below it.
authorise_budget(h) ==
    /\ limit' = h
    /\ UNCHANGED <<totals, events>>

\* Mutant of the next definition: what is committed does not count.
ReserveIgnoringCommitted(ref, a) ==
    /\ HasBudget
    /\ a > 0
    /\ events[ref].amount = 0
    /\ limit - totals.reserved >= a
    /\ totals' = [totals EXCEPT !.reserved = @ + a]
    /\ events' = [events EXCEPT ![ref].amount = a]
    /\ UNCHANGED limit

\* UPDATE ... WHERE hard_limit - reserved - committed >= a, and the RESERVE
\* row.  A reference that already has one is never reserved again.
reserve(ref, a) ==
    /\ HasBudget
    /\ a > 0
    /\ events[ref].amount = 0
    /\ Fits(a)
    /\ totals' = [totals EXCEPT !.reserved = @ + a]
    /\ events' = [events EXCEPT ![ref].amount = a]
    /\ UNCHANGED limit

\* The totals after settling `a`; `reserved` is never written below zero.
Settled(kind, a) ==
    [reserved  |-> IF totals.reserved - a > 0 THEN totals.reserved - a ELSE 0,
     committed |-> totals.committed + (IF kind = "COMMIT" THEN a ELSE 0)]

\* `_move`: only a live reservation is settled, and for its exact amount.
move(ref, a, kind) ==
    /\ HasBudget
    /\ Live(ref)
    /\ a = outstanding(ref)
    /\ totals' = Settled(kind, a)
    /\ events' = [events EXCEPT ![ref].settled = kind]
    /\ UNCHANGED limit

LedgerNext ==
    \/ \E h \in Limits : authorise_budget(h)
    \/ \E ref \in References, a \in 1..MaxAmount : reserve(ref, a)
    \/ \E ref \in References, a \in 1..MaxAmount, kind \in Settlements : move(ref, a, kind)

LedgerSpec == LedgerInit /\ [][LedgerNext]_ledgerVars

-----------------------------------------------------------------------------
(* Properties *)

\* One element per cent that the movements say is reserved and not settled,
\* and one per cent they say is committed.
Cents == References \X (1..MaxAmount)
HeldCents == {c \in Cents : Live(c[1]) /\ c[2] <= events[c[1]].amount}
CommittedCents == {c \in Cents : events[c[1]].settled = "COMMIT" /\ c[2] <= events[c[1]].amount}

\* The running totals are what the movements add up to: `reserved` is the sum
\* of the live reservations of every reference and `committed` the sum of the
\* committed ones, whatever was reserved, settled and refused in between.  In
\* particular the `case(... else_=0)` floor of `_move` never hides a loss.
TotalsMatchEvents ==
    /\ totals.reserved = Cardinality(HeldCents)
    /\ totals.committed = Cardinality(CommittedCents)

\* Once a reference is settled its rows never change again: it is not settled
\* a second time nor reserved anew, whoever retries.
SettledOnce ==
    [][\A ref \in References :
         events[ref].settled # "NO" => events'[ref] = events[ref]]_ledgerVars

\* What is held and committed together never grows past the authorised limit:
\* it can only be above it because the owner lowered the limit, and then no
\* movement makes it larger.
NeverGrowsPastLimit ==
    [][LET held == totals.reserved + totals.committed
           next == totals'.reserved + totals'.committed
       IN  next > held => next <= limit']_ledgerVars

=============================================================================
