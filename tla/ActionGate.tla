------------------------------ MODULE ActionGate ------------------------------
(***************************************************************************)
(* What may be done outside the system (gates/action_gate.py), and where   *)
(* the answers it looks at come from (gates/service.py): the permission of *)
(* the role that asked and what the budget says of the cost.  Pure: a      *)
(* request is a record, an outcome is a value.                             *)
(***************************************************************************)
EXTENDS Integers

NoAmount == -100     \* an amount nobody declared (None)

SideEffectActions ==
    {"publish_product", "activate_ads", "spend_money", "purchase_supplier", "make_payment",
     "ship_order", "refund", "change_price", "send_contract_communication", "collect_payment"}

SpendingActions == {"activate_ads", "spend_money", "purchase_supplier", "make_payment"}
LegalNotConsulted == {"refund"}
EconomicsNotConsulted == {"refund", "collect_payment"}

Recommendations == {"GO", "REVIEW", "NO_GO", "NONE"}
HumanAnswers == {"NONE", "GRANTED", "REJECTED"}
Permissions == {"NONE", "ALLOWED", "HUMAN_APPROVAL_REQUIRED", "DENIED"}
Environments == {"development", "test", "demo", "staging", "production"}
Enforcing == {"staging", "production"}
CostKinds == {"UNDECLARED", "ZERO", "KNOWN", "UNKNOWN"}

GateInputs ==
    [action : SideEffectActions, legal : Recommendations, economics : Recommendations,
     enabled : BOOLEAN, unresolved : BOOLEAN, funded : BOOLEAN, human : HumanAnswers,
     permission : Permissions, environment : Environments, cost : CostKinds]

Spends(action, cost) == action \in SpendingActions \/ cost \in {"KNOWN", "UNKNOWN"}

Legal(i) == IF i.action \in LegalNotConsulted THEN "NONE" ELSE i.legal
Economics(i) == IF i.action \in EconomicsNotConsulted THEN "NONE" ELSE i.economics

\* What nothing lifts.
Vetoed(i) ==
    \/ ~i.enabled
    \/ i.unresolved
    \/ Legal(i) = "NO_GO"
    \/ Spends(i.action, i.cost) /\ (Economics(i) = "NO_GO" \/ ~i.funded)
    \/ i.permission = "DENIED"
    \/ i.human = "REJECTED"

\* What a person may lift.
Doubted(i) ==
    \/ Economics(i) \in {"NO_GO", "REVIEW"}
    \/ Legal(i) = "REVIEW"
    \/ i.permission = "HUMAN_APPROVAL_REQUIRED"
    \/ Spends(i.action, i.cost) /\ i.environment \in Enforcing

Outcome(i) ==
    IF Vetoed(i) THEN "DENY"
    ELSE IF Doubted(i) /\ i.human # "GRANTED" THEN "REQUIRE_APPROVAL"
    ELSE "ALLOW"

-----------------------------------------------------------------------------
(* Where the answers come from. *)

DefaultPolicy ==
    [a \in {"research.read", "draft.create", "external.spend", "policy.edit",
            "permission.grant", "payment.collect", "money.refund"} |->
        IF a = "external.spend" THEN "HUMAN_APPROVAL_REQUIRED" ELSE "ALLOWED"]

\* PermissionEngine.check; a role is "NONE" when nobody is identified.
Check(role, action, selfTarget) ==
    IF \/ role = "NONE"
       \/ action = "permission.grant" /\ selfTarget
       \/ action = "policy.edit" /\ role # "owner"
       \/ action \notin DOMAIN DefaultPolicy
    THEN "DENIED"
    ELSE DefaultPolicy[action]

ActionPermission(action) ==
    CASE action = "collect_payment" -> "payment.collect"
      [] action = "refund" -> "money.refund"
      [] OTHER -> "external.spend"

\* Without a role nobody is asked in a simulation, and the answer is no outside one.
PermissionOf(role, action, simulated) ==
    IF role = "NONE" THEN IF simulated THEN "NONE" ELSE "DENIED"
    ELSE Check(role, ActionPermission(action), FALSE)

\* assess_spend on a budget of one pot: `available` is what is neither reserved
\* nor committed, NoAmount when no budget is authorised.
AssessSpend(amount, available, simulated) ==
    IF amount = NoAmount \/ amount < 0 THEN "unknown_cost"
    ELSE IF amount = 0 THEN "zero_cost"
    ELSE IF available = NoAmount THEN IF simulated THEN "simulated_no_budget" ELSE "no_budget_record"
    ELSE IF amount > available THEN "exhausted" ELSE "available"

\* ActionCost.as_amount: what the budget is asked about a declared cost.
AsAmount(cost, declared) ==
    CASE cost = "ZERO" -> 0
      [] cost = "UNKNOWN" -> NoAmount
      [] OTHER -> declared

BudgetSignal(action, cost, amount, available, simulated) ==
    IF Spends(action, cost) THEN AssessSpend(AsAmount(cost, amount), available, simulated)
    ELSE "not_applicable"

Approves(signal) == signal \in {"not_applicable", "zero_cost", "available", "simulated_no_budget"}

\* What the service knows of a request, before it becomes an input of the gate.
Requests(amounts) ==
    [action : SideEffectActions, legal : Recommendations, economics : Recommendations,
     enabled : BOOLEAN, unresolved : BOOLEAN, human : HumanAnswers, role : {"NONE", "owner", "operator"},
     environment : Environments, mocked : BOOLEAN, cost : CostKinds, amount : amounts, available : amounts]

\* ActionGateService.evaluate: a simulation is a development, test or demo environment with mock
\* providers only.
GateInputOf(r) ==
    LET simulated == r.mocked /\ r.environment \notin Enforcing
    IN [action |-> r.action, legal |-> r.legal, economics |-> r.economics, enabled |-> r.enabled,
        unresolved |-> r.unresolved, human |-> r.human, environment |-> r.environment, cost |-> r.cost,
        permission |-> PermissionOf(r.role, r.action, simulated),
        funded |-> Approves(BudgetSignal(r.action, r.cost, r.amount, r.available, simulated))]

Evaluate(r) == Outcome(GateInputOf(r))

=============================================================================
