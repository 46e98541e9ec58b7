---------------------------- MODULE ModelRouting ----------------------------
(* One customer message on its way to an answer (src/core/runtime): the       *)
(* planner checks its guards and starts a run, and each model turn of the run *)
(* walks a route of provider links until one answers, one costs_lite row per  *)
(* attempt.  The store, the operator's overrides and the credentials change   *)
(* meanwhile; the node deadline cuts a turn; a worker dies and the message is *)
(* delivered again.                                                           *)
EXTENDS Naturals, Sequences, FiniteSets

CONSTANTS
  Links,            \* the (provider, model) pairs a route may name
  SeededChains,     \* what model_routes may hold for 'default', << >> for nothing
  FallbackChain,    \* _FALLBACK_CHAIN
  TurnsPerRun,      \* MAX_TOOL_CALLS + 1: the turns a run makes at most
  MaxDeliveries,    \* bound: deliveries of the message
  MaxRouteChanges   \* bound: changes of the store, the overrides and the keys

NoLink == "none"

ASSUME RoutingAssumption ==
  /\ NoLink \notin Links /\ SeededChains \subseteq Seq(Links)
  /\ FallbackChain \in Seq(Links) /\ FallbackChain # << >>
  /\ TurnsPerRun \in Nat \ {0} /\ MaxDeliveries \in Nat /\ MaxRouteChanges \in Nat

VARIABLES
  store,        \* what the guards read
  routes,       \* org_model_routes by node key, and the seeded global chain
  usable,       \* the links whose model is approved and whose provider has a key
  handling,     \* the planner's delivery and the turn it drives
  costs,        \* costs_lite
  opsAlerts,    \* alert.ops events
  changes       \* changes so far

routingVars == <<store, routes, usable, handling, costs, opsAlerts, changes>>

TunableNodes == {"default", "converse"}
Lookups == <<"priya.reason", "default">>
InTurn == {"attempt", "log", "alert", "down"}
Resting == {"waiting", "dropped", "replied", "interrupted"}

Waiting == [at |-> "waiting", class |-> "transactional", delivery |-> 0, turn |-> 0,
            chain |-> << >>, link |-> 1, outcome |-> "ok",
            standing |-> {}, owed |-> NoLink, cut |-> {}]

RoutingInit ==
  /\ store = [active |-> TRUE, pack |-> TRUE, instance |-> TRUE, scopes |-> {}]
  /\ \E seeded \in SeededChains, l \in Links \cup {NoLink} :
       routes = [override |-> [n \in TunableNodes |-> IF n = "default" THEN l ELSE NoLink],
                 seeded |-> seeded]
  /\ usable = Links /\ handling = Waiting /\ costs = {} /\ opsAlerts = {} /\ changes = 0

-----------------------------------------------------------------------------
(* The world around the message                                              *)

(* the names of the guards that refuse: those that are down, the opt-outs     *)
RefusalsOf(s) == {guard \in {"active", "pack", "instance"} : ~s[guard]} \cup s.scopes

Change ==
  /\ handling.at \notin Resting \ {"waiting"} /\ changes < MaxRouteChanges
  /\ changes' = changes + 1 /\ UNCHANGED <<costs, opsAlerts>>

(* a tenant is paused or activated, its pack or agent switched, its contact  *)
(* opts out or in: the refusals that have stood throughout shrink            *)
StoreChanges ==
  /\ Change
  /\ store' \in {[store EXCEPT !.active = ~@], [store EXCEPT !.pack = ~@],
                 [store EXCEPT !.instance = ~@]}
                \cup {[store EXCEPT !.scopes = s] : s \in SUBSET {"all", "marketing"}}
  /\ store' # store
  /\ handling' = [handling EXCEPT !.standing = @ \cap RefusalsOf(store')]
  /\ UNCHANGED <<routes, usable>>

(* set_model: only a link that can be called now; clear_model deletes it     *)
OverrideModel(n, l) ==
  /\ Change /\ l \in usable \cup {NoLink} /\ l # routes.override[n]
  /\ routes' = [routes EXCEPT !.override[n] = l]
  /\ handling' = IF n = "default" /\ handling.chain = << >>
                 THEN [handling EXCEPT !.owed = NoLink] ELSE handling
  /\ UNCHANGED <<store, usable>>

(* a key is taken out of the environment, a model out of the registry        *)
LinkChanges(l) ==
  /\ Change
  /\ usable' = IF l \in usable THEN usable \ {l} ELSE usable \cup {l}
  /\ UNCHANGED <<store, routes, handling>>

-----------------------------------------------------------------------------
(* The planner                                                               *)

Step(point) == handling' = [handling EXCEPT !.at = point]
PlannerKeeps == UNCHANGED <<store, routes, usable, costs, opsAlerts, changes>>

Deliver ==
  /\ handling.at = "waiting" /\ handling.delivery < MaxDeliveries
  /\ handling' = [Waiting EXCEPT !.at = "tenant", !.delivery = handling.delivery + 1,
                                 !.standing = RefusalsOf(store), !.cut = handling.cut]
  /\ PlannerKeeps

(* is_tenant_paused and no_pack, then classify: an intent the taxonomy does  *)
(* not know goes to the concierge                                            *)
CheckTenant ==
  /\ handling.at = "tenant"
  /\ \E class \in {"transactional", "marketing"} :
       handling' = [handling EXCEPT
         !.at = IF store.active /\ store.pack THEN "scopes" ELSE "dropped", !.class = class]
  /\ PlannerKeeps

(* Mutant: only the scope of the class is looked at. *)
SuppressesClass(scopes, class) == class \in scopes
SuppressionBlocks(scopes, class) ==
  "all" \in scopes \/ (class = "marketing" /\ "marketing" \in scopes)
CheckSuppression ==
  /\ handling.at = "scopes"
  /\ Step(IF SuppressionBlocks(store.scopes, handling.class) THEN "dropped" ELSE "instance")
  /\ PlannerKeeps

(* _active_instance and start_run, which drives the run before it returns    *)
StartRun ==
  /\ handling.at = "instance"
  /\ handling' = [handling EXCEPT
       !.at = IF store.instance THEN "turn" ELSE "dropped",
       !.owed = routes.override["default"]]
  /\ PlannerKeeps

-----------------------------------------------------------------------------
(* A model turn                                                              *)

(* _lookup in org_model_routes, then model_routes: the node key is no        *)
(* tunable one, so only a 'default' row is ever found                        *)
Overridden == {i \in DOMAIN Lookups : Lookups[i] \in TunableNodes
                                      /\ routes.override[Lookups[i]] # NoLink}
FirstFound == Lookups[CHOOSE i \in Overridden : \A j \in Overridden : i <= j]
LookUp ==
  CASE Overridden # {}                        -> <<routes.override[FirstFound]>>
    [] Overridden = {} /\ routes.seeded # << >> -> routes.seeded
    [] OTHER                                  -> FallbackChain

(* Mutant: the route is looked up for every turn.                            *)
RouteAfresh ==
  /\ handling.at = "turn"
  /\ handling' = [handling EXCEPT !.at = "attempt", !.turn = @ + 1, !.link = 1,
                                  !.chain = LookUp]
  /\ PlannerKeeps

(* _route: looked up once for the run                                        *)
RouteTurn ==
  /\ handling.at = "turn"
  /\ handling' = [handling EXCEPT
       !.at = "attempt", !.turn = @ + 1, !.link = 1,
       !.chain = IF @ = << >> THEN LookUp ELSE @]
  /\ PlannerKeeps

Link == handling.chain[handling.link]

(* provider.complete: call_provider refuses a link it cannot use before it   *)
(* calls; a call answers or fails in a way that is safe to fall back from    *)
Attempt ==
  /\ handling.at = "attempt"
  /\ \E outcome \in IF Link \in usable THEN {"ok", "transient"} ELSE {"config"} :
       handling' = [handling EXCEPT !.at = "log", !.outcome = outcome]
  /\ PlannerKeeps

Row == [delivery |-> handling.delivery, turn |-> handling.turn,
        attempt |-> handling.link, link |-> Link, outcome |-> handling.outcome]
Onward == IF handling.link < Len(handling.chain)
          THEN [handling EXCEPT !.at = "attempt", !.link = @ + 1]
          ELSE [handling EXCEPT !.at = "down"]

(* Mutant: only a failed attempt leaves a row.                               *)
LogFailed ==
  /\ handling.at = "log"
  /\ costs' = IF handling.outcome = "ok" THEN costs ELSE costs \cup {Row}
  /\ handling' = CASE handling.outcome = "ok"     -> [handling EXCEPT !.at = "answered"]
                   [] handling.outcome = "config" -> [handling EXCEPT !.at = "alert"]
                   [] OTHER                       -> Onward
  /\ UNCHANGED <<store, routes, usable, opsAlerts, changes>>

(* _log_cost: a row of its own transaction for every attempt                 *)
LogAttempt ==
  /\ handling.at = "log" /\ costs' = costs \cup {Row}
  /\ handling' = CASE handling.outcome = "ok"     -> [handling EXCEPT !.at = "answered"]
                   [] handling.outcome = "config" -> [handling EXCEPT !.at = "alert"]
                   [] OTHER                       -> Onward
  /\ UNCHANGED <<store, routes, usable, opsAlerts, changes>>

(* Mutant: a broken link is reported only when no fallback is left.          *)
AlertIfLast ==
  /\ handling.at = "alert" /\ handling' = Onward
  /\ opsAlerts' = IF handling.link = Len(handling.chain) THEN opsAlerts \cup {Row}
                                                         ELSE opsAlerts
  /\ UNCHANGED <<store, routes, usable, costs, changes>>

(* _alert_route_misconfigured                                                *)
AlertMisconfigured ==
  /\ handling.at = "alert" /\ opsAlerts' = opsAlerts \cup {Row} /\ handling' = Onward
  /\ UNCHANGED <<store, routes, usable, costs, changes>>

(* _alert_all_down, and the holding template closes the turn                 *)
AllDown ==
  /\ handling.at = "down"
  /\ opsAlerts' = opsAlerts \cup {[Row EXCEPT !.link = NoLink, !.outcome = "down"]}
  /\ handling' = [handling EXCEPT !.at = "answered", !.outcome = "holding"]
  /\ UNCHANGED <<store, routes, usable, costs, changes>>

(* the turn decides: another turn after a tool, or the reply                 *)
EndTurn ==
  /\ handling.at = "answered"
  /\ \/ Step("replied")
     \/ handling.outcome = "ok" /\ handling.turn < TurnsPerRun /\ Step("turn")
  /\ PlannerKeeps

Cut(point) ==
  handling' = [handling EXCEPT !.at = point,
                               !.cut = IF handling.at = "alert" THEN @ \cup {Row} ELSE @]

(* asyncio.wait_for over the whole chain: the run is interrupted and the     *)
(* delivery is acknowledged                                                  *)
Deadline ==
  /\ handling.at \in InTurn /\ Cut("interrupted")
  /\ PlannerKeeps

(* the worker dies, or a telemetry write raises: the message comes again and *)
(* starts another run                                                        *)
LoseHandling ==
  /\ handling.at \notin Resting \/ handling.at = "replied"
  /\ handling.delivery < MaxDeliveries
  /\ Cut("waiting")
  /\ PlannerKeeps

RoutingNext ==
  \/ StoreChanges \/ Deliver \/ CheckTenant \/ CheckSuppression \/ StartRun
  \/ \E n \in TunableNodes, l \in Links \cup {NoLink} : OverrideModel(n, l)
  \/ \E l \in Links : LinkChanges(l)
  \/ RouteTurn \/ Attempt \/ LogAttempt \/ AlertMisconfigured \/ AllDown \/ EndTurn
  \/ Deadline \/ LoseHandling

RoutingSpec == RoutingInit /\ [][RoutingNext]_routingVars

-----------------------------------------------------------------------------
(* Every variable has its type (routing.py, planner.py, models_admin.py).    *)
RoutingTypeOK ==
  /\ store \in [active : BOOLEAN, pack : BOOLEAN, instance : BOOLEAN,
                scopes : SUBSET {"all", "marketing"}]
  /\ routes.override \in [TunableNodes -> Links \cup {NoLink}]
  /\ routes.seeded \in SeededChains /\ usable \subseteq Links
  /\ handling.at \in InTurn \cup Resting \cup {"tenant", "scopes", "instance", "turn", "answered"}
  /\ handling.link \in 1..(Len(handling.chain) + 1)
  /\ handling.outcome \in {"ok", "transient", "config", "holding"}
  /\ \A row \in costs \cup handling.cut : row.link \in Links /\ row.turn \in 1..TurnsPerRun
  /\ \A row \in opsAlerts : row.link \in Links \cup {NoLink}
  /\ changes \in 0..MaxRouteChanges

(* A refusal that has stood since before the delivery was taken starts no    *)
(* run: the guards read three times, in three transactions, and none of the  *)
(* reads may be skipped for the class of the message (_handle).              *)
StandingRefusalDrops ==
  handling.chain # << >> =>
    /\ handling.standing \cap {"active", "pack", "instance", "all"} = {}
    /\ handling.class = "marketing" => "marketing" \notin handling.standing

(* What the customer is told is backed by rows: an answer by an ok row of    *)
(* its link and a failed one of every link before it, the holding template   *)
(* by a failed row of every link and an alert (RoutingModel.turn).           *)
AnswerBacked ==
  LET mine == {row \in costs : row.delivery = handling.delivery /\ row.turn = handling.turn}
  IN  handling.at \in {"answered", "replied"} =>
        /\ {row.attempt : row \in mine} = 1..handling.link
        /\ \A row \in mine :
             (row.outcome = "ok") <=> (row.attempt = handling.link /\ handling.outcome = "ok")
        /\ handling.outcome = "holding" =>
             /\ handling.link = Len(handling.chain)
             /\ \E a \in opsAlerts : a.outcome = "down" /\ a.delivery = handling.delivery
                                     /\ a.turn = handling.turn

(* A broken route is seen by Operations even when a fallback answered: each  *)
(* attempt that failed by configuration was alerted, unless the turn was cut *)
(* between its row and its alert (_alert_route_misconfigured).               *)
MisconfigurationSeen ==
  \A row \in costs :
    row.outcome = "config" =>
      \/ row \in opsAlerts \cup handling.cut
      \/ handling.at = "alert" /\ row = Row

(* A run keeps to one route, turn after turn, whatever the operator changes, *)
(* and it is the override that stood from its start to its first turn        *)
(* (_route and its cache).                                                   *)
OneRoutePerRun ==
  /\ \A row \in costs :
       row.delivery = handling.delivery /\ handling.at \notin {"waiting"} =>
         row.attempt \in DOMAIN handling.chain /\ row.link = handling.chain[row.attempt]
  /\ handling.chain # << >> /\ handling.owed # NoLink => handling.chain = <<handling.owed>>

RoutesAnswerable == StandingRefusalDrops /\ AnswerBacked /\ MisconfigurationSeen /\ OneRoutePerRun
=============================================================================
