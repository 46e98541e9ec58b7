------------------------------ MODULE Autonomy ------------------------------
(* How much an agent may do on its own: the tier engine (approvals/engine.py), *)
(* which pools the rules of a tool's whole action family and takes the highest *)
(* tier, the owner's volume knob over it, and the trust ledger                 *)
(* (approvals/trust.py), which earns clean approvals and tightens after an     *)
(* incident.                                                                   *)
EXTENDS Integers, FiniteSets

CONSTANTS
  AgentTools,     \* the tools an agent is granted
  Rules,          \* the approval_policies an organisation may have
  Approvals,      \* approvals of tier 2 whose clean window the ledger watches
  CleanWindow, TightenFor,  \* CLEAN_WINDOW_H and TIGHTEN_DAYS, in ticks
  Horizon, MaxTurns, MaxIncidents  \* bounds: ticks, settings changed, incidents

(* the approval_policies table admits tiers 0 to 4 (migration 1993ba538f4f)     *)
ASSUME AutonomyAssumption ==
  /\ IsFiniteSet(Approvals) /\ CleanWindow \in Nat /\ Horizon \in Nat
  /\ \A r \in Rules : r.tier \in 0..4

VARIABLES
  now,
  rules,      \* the policies in force, fixed by the installed pack
  knob,       \* the autonomy.* settings and the quiet window
  decided,    \* the approvals: when decided, for which tool, settled, counted
  ledger,     \* trust_ledger: clean_approvals and last_incident_at
  tightened,  \* incident_tightening rows
  incidents   \* every incident there ever was

autonomyVars == <<now, rules, knob, decided, ledger, tightened, incidents>>

Never == -1
ReviewTier == 2           \* AUTONOMY_REVIEW_TIER, DEFAULT_UNKNOWN_TIER, TIGHTEN_TIER
Modes == {"reactive", "proactive"}

(* What a call carries that the tier depends on: a price, the value of that    *)
(* price against the owner's threshold, and who spoke first                    *)
Offers == [priced : BOOLEAN, large : BOOLEAN, mode : Modes]

-----------------------------------------------------------------------------
(* The tier engine                                                             *)

(* TOOL_ACTIONS and resolve_actions: a priced message is also a quote          *)
ResolveActions(tool, offer) ==
  CASE tool = "messages.send" -> {"action.message.send"} \cup
                                 (IF offer.priced THEN {"action.quote.send"} ELSE {})
    [] tool = "landing_page.publish" -> {"action.landing_page.publish"}
    [] OTHER -> {tool}

(* _matches: a guard that does not compile or evaluate counts as matching      *)
Matches(rule) == rule.guard \in {"true", "broken"}

(* _contributors: the rules of one action, and an incident still in force      *)
Contributors(rs, action) ==
  {r.tier : r \in {x \in rs : x.action = action /\ Matches(x)}}
  \cup {ReviewTier : t \in {x \in tightened : x.action = action /\ x.until > now}}

(* _CAPABILITY_BY_ACTION                                                       *)
Capabilities(tool, offer) ==
  (IF "action.message.send" \in ResolveActions(tool, offer) THEN {"messaging"} ELSE {})
  \cup (IF "action.quote.send" \in ResolveActions(tool, offer) THEN {"pricing"} ELSE {})

(* _autonomy_floor: the pause, the level and the value threshold of each       *)
(* capability, and quiet hours for what the customer did not ask for           *)
AutonomyFloor(tool, offer) ==
  LET caps == Capabilities(tool, offer) IN
  IF \/ knob.paused
     \/ caps \cap knob.manual # {}
     \/ caps # {} /\ offer.priced /\ offer.large
     \/ "messaging" \in caps /\ offer.mode # "reactive" /\ knob.quiet
  THEN {ReviewTier} ELSE {}

(* select_decision: the highest tier; with no rule at all, needs approval      *)
SelectTier(tiers) ==
  IF tiers = {} THEN ReviewTier ELSE CHOOSE t \in tiers : \A u \in tiers : t >= u

(* Mutant: the knob replaces the rules instead of joining them.                *)
EvaluateToolOverridden(rs, tool, offer) ==
  IF AutonomyFloor(tool, offer) # {} THEN ReviewTier
  ELSE SelectTier(UNION {Contributors(rs, a) : a \in ResolveActions(tool, offer)})

(* evaluate_tool: the contributors of the whole family, then the fallback once *)
EvaluateTool(rs, tool, offer) ==
  SelectTier((UNION {Contributors(rs, a) : a \in ResolveActions(tool, offer)})
             \cup AutonomyFloor(tool, offer))

(* baseline_tier and validate_tenant_rule: no lower than any core or pack rule *)
TenantRuleAccepted(rs, rule) ==
  \A r \in rs : r.scope # "tenant" /\ r.action = rule.action => rule.tier >= r.tier

-----------------------------------------------------------------------------
(* The ledger                                                                  *)

Undecided == [at |-> Never, tool |-> "none", settled |-> FALSE, counted |-> FALSE]

AutonomyInit ==
  /\ now = 0
  /\ rules \in {rs \in SUBSET Rules :
                  \A r \in rs : r.scope = "tenant" => TenantRuleAccepted(rs, r)}
  /\ knob = [paused |-> FALSE, manual |-> {}, quiet |-> FALSE, turns |-> 0]
  /\ decided = [a \in Approvals |-> Undecided]
  /\ ledger = [t \in AgentTools |-> [clean |-> 0, last |-> Never]]
  /\ tightened = {} /\ incidents = {}

(* the owner turns the pause, one capability, or the quiet window begins       *)
TurnKnob ==
  /\ knob.turns < MaxTurns
  /\ \/ knob' = [knob EXCEPT !.paused = ~@, !.turns = @ + 1]
     \/ knob' = [knob EXCEPT !.quiet = ~@, !.turns = @ + 1]
     \/ \E cap \in {"messaging", "pricing"} \ knob.manual :
          knob' = [knob EXCEPT !.manual = @ \cup {cap}, !.turns = @ + 1]
  /\ UNCHANGED <<now, rules, decided, ledger, tightened, incidents>>

Approve(a) ==
  /\ decided[a].at = Never
  /\ \E t \in AgentTools :
       decided' = [decided EXCEPT ![a] = [Undecided EXCEPT !.at = now, !.tool = t]]
  /\ UNCHANGED <<now, rules, knob, ledger, tightened, incidents>>

(* note_failure of a tier-2 step and record_incident: the counter is reset,    *)
(* the incident overwrites the last one, and the tool is tightened for a while *)
RecordIncident(t) ==
  /\ Cardinality(incidents) < MaxIncidents
  /\ ledger' = [ledger EXCEPT ![t] = [clean |-> 0, last |-> now]]
  /\ tightened' = tightened \cup {[action |-> t, until |-> now + TightenFor]}
  /\ incidents' = incidents \cup {[tool |-> t, at |-> now]}
  /\ UNCHANGED <<now, rules, knob, decided>>

(* settle: every unsettled approval whose window has passed is settled, and    *)
(* counts when the last incident is not inside the window                      *)
Ripe(a) == decided[a].at # Never /\ ~decided[a].settled
           /\ decided[a].at + CleanWindow <= now
InWindow(a, t) == decided[a].at <= t /\ t <= decided[a].at + CleanWindow
(* Mutant: the moment of the decision is outside the window.                   *)
CleanAfterDecision(a) ==
  LET last == ledger[decided[a].tool].last
  IN  last = Never \/ last = decided[a].at \/ ~InWindow(a, last)
Clean(a) == LET last == ledger[decided[a].tool].last IN last = Never \/ ~InWindow(a, last)

(* Mutant: an approval is settled without being marked.                        *)
SettleUnmarked ==
  /\ \E a \in Approvals : Ripe(a)
  /\ ledger' = [t \in AgentTools |-> [ledger[t] EXCEPT !.clean = @ +
       Cardinality({a \in Approvals : Ripe(a) /\ Clean(a) /\ decided[a].tool = t})]]
  /\ decided' = [a \in Approvals |-> [decided[a] EXCEPT !.counted = @ \/ (Ripe(a) /\ Clean(a))]]
  /\ UNCHANGED <<now, rules, knob, tightened, incidents>>

Settle ==
  /\ \E a \in Approvals : Ripe(a)
  /\ ledger' = [t \in AgentTools |-> [ledger[t] EXCEPT !.clean = @ +
       Cardinality({a \in Approvals : Ripe(a) /\ Clean(a) /\ decided[a].tool = t})]]
  /\ decided' = [a \in Approvals |->
       [decided[a] EXCEPT !.settled = @ \/ Ripe(a), !.counted = @ \/ (Ripe(a) /\ Clean(a))]]
  /\ UNCHANGED <<now, rules, knob, tightened, incidents>>

PassTime ==
  /\ now < Horizon /\ now' = now + 1
  /\ UNCHANGED <<rules, knob, decided, ledger, tightened, incidents>>

AutonomyNext ==
  \/ TurnKnob \/ Settle \/ PassTime
  \/ \E a \in Approvals : Approve(a)
  \/ \E t \in AgentTools : RecordIncident(t)

-----------------------------------------------------------------------------
(* Properties                                                                  *)

AutonomyTypeOK ==
  /\ now \in 0..Horizon /\ rules \subseteq Rules
  /\ \A t \in AgentTools : /\ ledger[t].clean \in 0..Cardinality(Approvals)
                           /\ ledger[t].last \in -1..Horizon
  /\ \A a \in Approvals : decided[a].at \in -1..Horizon

(* The knob only tightens: where a core or pack rule speaks, no tenant rule,   *)
(* broken guard, incident or setting makes the tier of a call lower than the   *)
(* core and pack rules alone would (max tier wins, evaluate_tool).             *)
OnlyTightens ==
  \A t \in AgentTools, o \in Offers :
    LET base == {r \in rules : r.scope # "tenant" /\ r.guard = "true"
                               /\ r.action \in ResolveActions(t, o)}
    IN base # {} => \A r \in base : EvaluateTool(rules, t, o) >= r.tier

(* A broken guard, or a tenant rule the validator accepted, never loosens what *)
(* the rules without it decide (_matches, validate_tenant_rule).               *)
GuardsFailSafe ==
  \A t \in AgentTools, o \in Offers, r \in rules : r.guard = "broken" =>
    EvaluateTool(rules, t, o) >= EvaluateTool(rules \ {r}, t, o)

(* An incident holds the tool it happened with at review for the whole         *)
(* tightening, whatever its rules say (record_incident, _contributors).        *)
IncidentTightens ==
  \A x \in incidents, o \in Offers :
    now < x.at + TightenFor => EvaluateTool(rules, x.tool, o) >= ReviewTier

(* An approval that earned trust had no incident of its tool in its window,    *)
(* except one that a later incident overwrote before the hourly settlement     *)
(* looked (settle reads only last_incident_at).  The tick the window ends in   *)
(* may hold an incident that came after the settlement.                        *)
CleanUnlessOverwritten ==
  \A a \in Approvals, x \in incidents :
    (/\ decided[a].counted /\ x.tool = decided[a].tool
     /\ InWindow(a, x.at) /\ x.at # decided[a].at + CleanWindow)
    => \E y \in incidents : y.tool = x.tool /\ y.at > decided[a].at + CleanWindow

(* The ledger's counter is earned by approvals settled clean, one each, since  *)
(* the last incident reset it.                                                 *)
TrustIsEarned ==
  \A t \in AgentTools :
    ledger[t].clean <= Cardinality({a \in Approvals : decided[a].counted /\ decided[a].tool = t})

=============================================================================
