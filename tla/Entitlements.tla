---------------------------- MODULE Entitlements ----------------------------
(* What a store's plan grants it: the canonical catalogue, the plan builder's *)
(* check of a draft, the copy of a plan and the resolver that composes a plan *)
(* with the store's packs and agents (src/core/tenancy/entitlements.py,       *)
(* plan_config.py, capabilities.py, src/core/billing/plan_builder.py).        *)
EXTENDS Naturals, FiniteSets

CONSTANTS
  Catalogue,      \* key -> kind, grantable, rbac, sellable, deps, vertical ("" if none)
  Alias,          \* historical key -> canonical key
  LegacyBaseline, \* what a plan without a schema version always granted
  LegacyKeys,     \* what such a plan's features may grant
  Configs,        \* plan configurations operators type or rows hold
  Packs,          \* vertical packs a store may install
  LastTick        \* bound: the clock

(* The catalogue is finite and no alias is a key of it (validate_catalog       *)
(* refuses one), so no key of the old form is an alias; a configuration holds  *)
(* the fields PlanConfig reads and no other.                                   *)
ASSUME EntAssumption ==
  /\ IsFiniteSet(DOMAIN Catalogue)
  /\ (LegacyBaseline \cup LegacyKeys) \cap DOMAIN Alias = {}
  /\ \A c \in Configs :
       c = [schema |-> c.schema, entitlements |-> c.entitlements, features |-> c.features,
            vertical |-> c.vertical, agents |-> c.agents, channels |-> c.channels,
            promotions |-> c.promotions]
  /\ LastTick \in Nat

VARIABLES
  plan,           \* the store's plan
  source,         \* what it was copied from, if it is a copy
  blessed,        \* validate_draft found nothing wrong with it
  installed,      \* active pack installations
  bound,          \* agents with an instance
  now             \* the clock promotions are read against

entVars == <<plan, source, blessed, installed, bound, now>>

Keys == DOMAIN Catalogue
Canonical(k) == IF k \in DOMAIN Alias THEN Alias[k] ELSE k
Of(kind) == {k \in Keys : Catalogue[k].kind = kind}
Grantable(k) == k \in Keys /\ Catalogue[k].grantable
Sellable(k) == k \in Keys /\ Catalogue[k].sellable

(* Whether dependency d holds beside these capabilities, channels, agents    *)
Satisfied(d, caps, channels, agents) ==
  /\ d \in Keys
  /\ \/ Catalogue[d].kind = "channel" /\ d \in channels
     \/ Catalogue[d].kind = "agent" /\ d \in agents
     \/ Catalogue[d].kind = "limit"
     \/ /\ Catalogue[d].kind = "feature"
        /\ IF Catalogue[d].grantable THEN d \in caps ELSE Catalogue[d].rbac
Supported(k, caps, channels, agents) ==
  \A d \in Catalogue[k].deps : Satisfied(d, caps, channels, agents)

(* Mutant: one pass over the candidates, so a dropped key does not cascade. *)
PrunedOnce(S, channels, agents) == {k \in S : Supported(k, S, channels, agents)}

(* compose, step 7: rounds that drop unsupported keys until none is dropped  *)
Pruned(S, channels, agents) ==
  LET round[n \in 0..Cardinality(S)] ==
        IF n = 0 THEN S
        ELSE {k \in round[n - 1] : Supported(k, round[n - 1], channels, agents)}
  IN round[Cardinality(S)]

Legacy(config) == config.schema = "none"
LegacyCaps(config) ==
  LegacyBaseline \cup ({Canonical(f) : f \in config.features} \cap LegacyKeys)

ImpliedChannels(caps) == (UNION {Catalogue[k].deps : k \in caps}) \cap Of("channel")

Live(promo, t) == promo.from <= t /\ t < promo.to

(* Candidates before the catalogue has its say: the plan, then promotions    *)
Candidates(config, t) ==
  LET own == IF Legacy(config) THEN LegacyCaps(config)
             ELSE {Canonical(k) : k \in config.entitlements}
  IN IF config.schema = "unknown" THEN {}
     ELSE own \cup {Canonical(p.key) : p \in {q \in config.promotions : Live(q, t)}}

Channels(config) ==
  (IF Legacy(config) THEN ImpliedChannels(LegacyCaps(config)) ELSE {})
    \cup (IF config.schema = "unknown" THEN {} ELSE config.channels \cap Of("channel"))
Agents(config, instances) ==
  IF config.schema = "unknown" THEN {} ELSE config.agents \cap Of("agent") \cap instances

Survivors(config, packs, t) ==
  {k \in Candidates(config, t) :
     Grantable(k) /\ Catalogue[k].vertical \in packs \cup {""}}

(* resolve: every read of a store's capabilities comes here                  *)
Granted(config, packs, instances, t) ==
  Pruned(Survivors(config, packs, t), Channels(config), Agents(config, instances))

-----------------------------------------------------------------------------
(* Authoring                                                                 *)

Fits(k, config) == Catalogue[k].vertical \in {"", config.vertical}

(* Mutant: the promoted capability's dependencies are not looked at. *)
SoundPromotionBare(p, config, caps) ==
  Grantable(Canonical(p.key)) /\ Sellable(Canonical(p.key)) /\ Fits(Canonical(p.key), config)

SoundPromotion(p, config, caps) ==
  LET k == Canonical(p.key)
  IN /\ Grantable(k) /\ Sellable(k) /\ Fits(k, config)
     /\ Supported(k, caps \cup {k}, config.channels, config.agents)

(* validate_draft finds no problem                                           *)
Valid(config) ==
  LET caps == {Canonical(k) : k \in config.entitlements}
  IN /\ config.schema = "one"
     /\ config.vertical \in {""} \cup {Catalogue[k].vertical : k \in Keys}
     /\ \A k \in caps : /\ Grantable(k) /\ Sellable(k) /\ Fits(k, config)
                        /\ Supported(k, caps, config.channels, config.agents)
     /\ config.agents \subseteq {a \in Of("agent") : Sellable(a)}
     /\ config.channels \subseteq {c \in Of("channel") : Sellable(c)}
     /\ \A p \in config.promotions : SoundPromotion(p, config, caps)

(* Mutant: the channels the old form implied are not written out. *)
CopiedWithoutChannels(config) ==
  IF ~Legacy(config) THEN config
  ELSE [config EXCEPT !.schema = "one", !.entitlements = LegacyCaps(config)]

(* copy_plan: a plan of the old form is written out as what it granted       *)
Copied(config) ==
  IF ~Legacy(config) THEN [config EXCEPT !.features = {}]
  ELSE [config EXCEPT !.schema = "one", !.features = {},
                      !.entitlements = LegacyCaps(config),
                      !.channels = config.channels \cup ImpliedChannels(LegacyCaps(config))]

-----------------------------------------------------------------------------
(* No subscription grants nothing: the shape of an unreadable structured row. *)
NoConfig == [schema |-> "unknown", entitlements |-> {}, features |-> {}, vertical |-> "",
             agents |-> {}, channels |-> {}, promotions |-> {}]

EntInit ==
  /\ plan = NoConfig /\ source = {} /\ blessed = FALSE
  /\ installed = {} /\ bound = {} /\ now = 0

(* A plan saved through the builder, or a stored row of any origin, is        *)
(* assigned. A bound: the store changes its plan once, and then to the copy.  *)
AssignBuilt(config) ==
  /\ plan = NoConfig /\ source = {} /\ Valid(config)
  /\ plan' = config /\ blessed' = TRUE
  /\ UNCHANGED <<source, installed, bound, now>>
AssignStored(config) ==
  /\ plan = NoConfig /\ source = {} /\ config # NoConfig
  /\ plan' = config
  /\ UNCHANGED <<source, blessed, installed, bound, now>>
AssignCopy ==
  /\ source = {} /\ plan # NoConfig
  /\ plan' = Copied(plan) /\ source' = {plan}
  /\ UNCHANGED <<blessed, installed, bound, now>>

(* An active installation brings the pack's agents, which the plan may       *)
(* switch on; instances outlive the installation.                            *)
InstallPack(p) ==
  /\ p \notin installed
  /\ installed' = installed \cup {p}
  /\ UNCHANGED <<plan, source, blessed, bound, now>>
UninstallPack(p) ==
  /\ p \in installed
  /\ installed' = installed \ {p}
  /\ UNCHANGED <<plan, source, blessed, bound, now>>
ReconcileAgents ==
  /\ installed # {} /\ (plan.agents \cap Of("agent")) \ bound # {}
  /\ bound' = bound \cup (plan.agents \cap Of("agent"))
  /\ UNCHANGED <<plan, source, blessed, installed, now>>
Tick ==
  /\ now < LastTick
  /\ now' = now + 1
  /\ UNCHANGED <<plan, source, blessed, installed, bound>>

EntNext ==
  \/ \E config \in Configs : AssignBuilt(config) \/ AssignStored(config)
  \/ AssignCopy \/ ReconcileAgents \/ Tick
  \/ \E p \in Packs : InstallPack(p) \/ UninstallPack(p)

EntSpec == EntInit /\ [][EntNext]_entVars

-----------------------------------------------------------------------------
EntTypeOK ==
  /\ source \subseteq Configs /\ Cardinality(source) < 2
  /\ plan \in Configs \cup {NoConfig} \/ source # {}
  /\ blessed \in BOOLEAN /\ installed \subseteq Packs
  /\ bound \subseteq Of("agent") /\ now \in 0..LastTick

(* Authoring and runtime agree: a plan the builder accepted delivers every    *)
(* capability and live promotion it names once its pack and its agents are    *)
(* there.                                                                     *)
BlessedPlanDelivers ==
  (blessed /\ plan.vertical \in installed \cup {""} /\ plan.agents \subseteq bound)
    => /\ {Canonical(k) : k \in plan.entitlements} \subseteq Granted(plan, installed, bound, now)
       /\ \A p \in plan.promotions :
            Live(p, now) => Canonical(p.key) \in Granted(plan, installed, bound, now)

(* The resolver drops what is not supported and nothing else: what it grants  *)
(* is the largest set of the plan's capabilities in which every dependency    *)
(* holds.                                                                     *)
GrantsAreLargest ==
  LET S == Survivors(plan, installed, now)
      self == {T \in SUBSET S :
                 \A k \in T : Supported(k, T, Channels(plan), Agents(plan, bound))}
  IN Granted(plan, installed, bound, now) = UNION self

(* A copy of a plan, of the old form or the new, grants what its source does  *)
(* at every moment and for every store.                                       *)
CopyKeepsGrants ==
  \A s \in source : Granted(plan, installed, bound, now) = Granted(s, installed, bound, now)
=============================================================================
