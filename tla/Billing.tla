------------------------------- MODULE Billing -------------------------------
(* Plans, subscriptions, channel budgets and charges (src/core/billing), and  *)
(* the script that seeds the canonical plans. Every request is a transaction  *)
(* of its own; a desk is one of them. Edits, retirements and assignments lock *)
(* the plan's row before they decide, the seeding script does not.            *)
EXTENDS Naturals, FiniteSets

CONSTANTS
  Plans,        \* rows of billing_plans
  Presets,      \* those the code manages (config.preset_key)
  Orgs,         \* stores
  Desks,        \* operator requests at work
  TermsMax,     \* bound: versions of a plan's terms
  ChargesMax    \* bound: charges of a store in the month, each of one unit

ASSUME BillingAssumption ==
  /\ Presets \subseteq Plans /\ IsFiniteSet(Desks) /\ Desks # {}
  /\ TermsMax \in Nat \ {0} /\ ChargesMax \in Nat

VARIABLES
  plans,        \* the rows: whether there, the terms, whether assignable
  edition,      \* PRESET_VERSION of the deployed code
  onPlan,       \* the plan of each store's active subscription
  bought,       \* every subscription ever: store, plan, terms when sold
  desk,         \* what each request has locked and read
  seed,         \* the preset the script judged unsold
  budget,       \* the channel's cap, if there is one
  spent,        \* charges of the month
  ceiling       \* largest cap a charge was judged against

billingVars == <<plans, edition, onPlan, bought, desk, seed, budget, spent, ceiling>>
tradeVars == <<plans, edition, onPlan, bought, seed>>
moneyVars == <<budget, spent, ceiling>>

NoPlan == [there |-> FALSE, terms |-> 0, active |-> FALSE]
AtRest == [doing |-> "nothing", plan |-> {}, org |-> {}, seen |-> {}]

BillingInit ==
  /\ plans = [p \in Plans |-> NoPlan] /\ edition = 1
  /\ onPlan = [o \in Orgs |-> {}] /\ bought = {}
  /\ desk = [k \in Desks |-> AtRest] /\ seed = {}
  /\ budget = [o \in Orgs |-> {}] /\ spent = [o \in Orgs |-> 0]
  /\ ceiling = [o \in Orgs |-> 0]

Sold(p) == \E b \in bought : b.plan = p
Working(k, what) == desk[k].doing = what
Turn(k, what) == desk' = [desk EXCEPT ![k] = what]

-----------------------------------------------------------------------------
(* Plans                                                                     *)

CreatePlan(p, t) ==
  /\ p \notin Presets /\ ~plans[p].there
  /\ plans' = [plans EXCEPT ![p] = [there |-> TRUE, terms |-> t, active |-> TRUE]]
  /\ UNCHANGED <<edition, onPlan, bought, desk, seed, moneyVars>>

(* The copy is a row without a preset key; its source is read unlocked.      *)
CopyPlan(p, q) ==
  /\ plans[p].there /\ q \notin Presets /\ ~plans[q].there
  /\ plans' = [plans EXCEPT ![q] = [plans[p] EXCEPT !.active = TRUE]]
  /\ UNCHANGED <<edition, onPlan, bought, desk, seed, moneyVars>>

(* Mutant: an assignment does not lock the plan. *)
HoldsPlanEdits(k, p) == desk[k].plan = {p} /\ ~Working(k, "assign")

HoldsPlan(k, p) == desk[k].plan = {p}

(* SELECT id, active FROM billing_plans WHERE id = :id FOR UPDATE            *)
LockPlan(k, p, what, org) ==
  /\ desk[k] = AtRest /\ plans[p].there
  /\ \A j \in Desks : ~HoldsPlan(j, p)
  /\ what \in {"edit", "retire", "assign"}
  /\ IF what = "assign" THEN plans[p].active /\ org # {} ELSE org = {}
  /\ Turn(k, [AtRest EXCEPT !.doing = what, !.plan = {p}, !.org = org])
  /\ UNCHANGED <<tradeVars, moneyVars>>

(* Mutant: only the active subscription counts. *)
MayRewriteCurrent(p) == p \notin Presets /\ \A o \in Orgs : onPlan[o] # {p}

MayRewrite(p) == p \notin Presets /\ ~Sold(p)

(* update_plan and update_plan_structured: a canonical or a sold plan is     *)
(* refused                                                                   *)
JudgeEdit(k, p) ==
  /\ Working(k, "edit") /\ desk[k].plan = {p}
  /\ Turn(k, IF MayRewrite(p) THEN [desk[k] EXCEPT !.doing = "rewrite"] ELSE AtRest)
  /\ UNCHANGED <<tradeVars, moneyVars>>
RewritePlan(k, p, t) ==
  /\ Working(k, "rewrite") /\ desk[k].plan = {p}
  /\ plans' = [plans EXCEPT ![p].terms = t]
  /\ Turn(k, AtRest)
  /\ UNCHANGED <<edition, onPlan, bought, seed, moneyVars>>

(* set_plan_active: a sold plan may be retired, a canonical one may not      *)
SetPlanActive(k, p) ==
  /\ Working(k, "retire") /\ desk[k].plan = {p}
  /\ plans' = IF p \in Presets THEN plans
              ELSE [plans EXCEPT ![p].active = ~plans[p].active]
  /\ Turn(k, AtRest)
  /\ UNCHANGED <<edition, onPlan, bought, seed, moneyVars>>

(* apply_presets: a missing preset is inserted, an unsold one of an older    *)
(* version is rewritten; the judgement and the UPDATE take no lock           *)
SeedRead(p) ==
  /\ p \in Presets /\ seed = {}
  /\ ~plans[p].there \/ (~Sold(p) /\ plans[p].terms < edition)
  /\ seed' = {p}
  /\ UNCHANGED <<plans, edition, onPlan, bought, desk, moneyVars>>
SeedWrite(p) ==
  /\ seed = {p} /\ \A j \in Desks : ~HoldsPlan(j, p)
  /\ plans' = [plans EXCEPT ![p] = [there |-> TRUE, terms |-> edition, active |-> TRUE]]
  /\ seed' = {}
  /\ UNCHANGED <<edition, onPlan, bought, desk, moneyVars>>
Release ==
  /\ edition < TermsMax /\ seed = {}
  /\ edition' = edition + 1
  /\ UNCHANGED <<plans, onPlan, bought, desk, seed, moneyVars>>

-----------------------------------------------------------------------------
(* Subscriptions                                                             *)

CancelOld(k, o) ==
  /\ Working(k, "assign") /\ desk[k].org = {o}
  /\ Turn(k, [desk[k] EXCEPT !.doing = "insert", !.seen = onPlan[o]])
  /\ UNCHANGED <<tradeVars, moneyVars>>

(* Mutant: billing_subscriptions without its partial unique index. *)
NoneElseActiveUnchecked(k, o) == TRUE

(* uq_billing_sub_one_active: an active row the UPDATE did not see refuses   *)
(* the insert, and the transaction rolls back                                *)
NoneElseActive(k, o) == onPlan[o] \subseteq desk[k].seen

InsertSubscription(k, o) ==
  /\ Working(k, "insert") /\ desk[k].org = {o}
  /\ IF NoneElseActive(k, o)
     THEN \E p \in desk[k].plan :
            /\ onPlan' = [onPlan EXCEPT ![o] = (@ \ desk[k].seen) \cup {p}]
            /\ bought' = bought \cup {[org |-> o, plan |-> p, terms |-> plans[p].terms]}
     ELSE UNCHANGED <<onPlan, bought>>
  /\ Turn(k, AtRest)
  /\ UNCHANGED <<plans, edition, seed, moneyVars>>

CancelSubscription(o) ==
  /\ onPlan[o] # {}
  /\ onPlan' = [onPlan EXCEPT ![o] = {}]
  /\ UNCHANGED <<plans, edition, bought, desk, seed, moneyVars>>

-----------------------------------------------------------------------------
(* Budgets and charges                                                       *)

(* Only an enforced cap limits anything: an alert-only one is no cap here.   *)
SetBudget(o, cap) ==
  /\ budget' = [budget EXCEPT ![o] = cap]
  /\ UNCHANGED <<tradeVars, desk, spent, ceiling>>

(* Mutant: what is already spent is compared, not what it would become. *)
FitsBudgetSpent(o) == \A cap \in budget[o] : spent[o] <= cap

FitsBudget(o) == \A cap \in budget[o] : spent[o] + 1 <= cap

Largest(S) == CHOOSE n \in S : \A m \in S : n >= m

(* record_charge: check_and_enforce, then the INSERT                         *)
JudgeCharge(k, o) ==
  /\ desk[k] = AtRest /\ FitsBudget(o)
  /\ Turn(k, [AtRest EXCEPT !.doing = "charge", !.org = {o}])
  /\ ceiling' = [ceiling EXCEPT ![o] = Largest({@} \cup
                   IF budget[o] = {} THEN {ChargesMax} ELSE budget[o])]
  /\ UNCHANGED <<tradeVars, budget, spent>>
RecordCharge(k, o) ==
  /\ Working(k, "charge") /\ desk[k].org = {o} /\ spent[o] < ChargesMax
  /\ spent' = [spent EXCEPT ![o] = @ + 1]
  /\ Turn(k, AtRest)
  /\ UNCHANGED <<tradeVars, budget, ceiling>>

-----------------------------------------------------------------------------
BillingNext ==
  \/ \E p \in Plans :
       \/ \E t \in 1..TermsMax : CreatePlan(p, t)
       \/ \E q \in Plans : CopyPlan(p, q)
       \/ SeedRead(p) \/ SeedWrite(p)
       \/ \E k \in Desks :
            \/ \E what \in {"edit", "retire", "assign"},
                  org \in {{}} \cup {{o} : o \in Orgs} : LockPlan(k, p, what, org)
            \/ JudgeEdit(k, p) \/ SetPlanActive(k, p)
            \/ \E t \in 1..TermsMax : RewritePlan(k, p, t)
  \/ \E o \in Orgs :
       \/ CancelSubscription(o)
       \/ \E cap \in {{}} \cup {{n} : n \in 0..ChargesMax - 1} : SetBudget(o, cap)
       \/ \E k \in Desks : CancelOld(k, o) \/ InsertSubscription(k, o)
                           \/ JudgeCharge(k, o) \/ RecordCharge(k, o)
  \/ Release

BillingSpec == BillingInit /\ [][BillingNext]_billingVars

-----------------------------------------------------------------------------
BillingTypeOK ==
  /\ plans \in [Plans -> [there : BOOLEAN, terms : 0..TermsMax, active : BOOLEAN]]
  /\ edition \in 1..TermsMax
  /\ onPlan \in [Orgs -> SUBSET Plans] /\ \A o \in Orgs : Cardinality(onPlan[o]) < 2
  /\ bought \subseteq [org : Orgs, plan : Plans, terms : 1..TermsMax]
  /\ desk \in [Desks -> [doing : {"nothing", "edit", "rewrite", "retire", "assign",
                                  "insert", "charge"},
                         plan : SUBSET Plans, org : SUBSET Orgs,
                         seen : SUBSET Plans]]
  /\ seed \subseteq Presets
  /\ spent \in [Orgs -> 0..ChargesMax] /\ ceiling \in [Orgs -> 0..ChargesMax]

(* A plan somebody has bought, cancelled or not, keeps the terms it was sold  *)
(* under, whatever edits and assignments are in flight. The seeding script is *)
(* the one exception: it judged the preset unsold, and the sale came between  *)
(* its SELECT and its UPDATE.                                                 *)
SoldTermsHold == \A b \in bought :
                   plans'[b.plan].terms # plans[b.plan].terms => seed = {b.plan}

(* A retired plan takes no new subscriber: no assignment that found it active *)
(* commits after the retirement.                                              *)
RetiredTakesNobody == \A o \in Orgs :
                        onPlan'[o] \notin {onPlan[o], {}}
                          => \A p \in onPlan'[o] : plans[p].active

(* Charges judged against the same total overrun an enforced cap by at most   *)
(* the other requests in flight, never by more.                               *)
BudgetOverrunBounded ==
  \A o \in Orgs : spent[o] <= ceiling[o] + Cardinality(Desks) - 1
=============================================================================
