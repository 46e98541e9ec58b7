------------------------------ MODULE Mediation -----------------------------
(* The mediation proxy (mediation/proxy.py, limits.py, manifest.py): every     *)
(* tool call of an agent passes an ordered chain of checks, each read from     *)
(* Redis or Postgres at its own moment, before it takes effect.  Two drivers   *)
(* of one run may be in the chain at once.                                     *)
EXTENDS Autonomy

CONSTANTS
  Callers,        \* coroutines inside proxy.call for one run
  CallsPerMin,         \* rate_limit.per_min of the grant
  SendsDay,       \* budgets.sends_day of the manifest
  MaxViolations,  \* MAX_MANIFEST_VIOLATIONS
  MaxSends, MaxChanges    \* bounds: messages sent, and changes of the grants

ASSUME MediationAssumption ==
  IsFiniteSet(Callers) /\ Callers # {} /\ CallsPerMin \in Nat /\ MaxViolations \in Nat

VARIABLES
  mcall,      \* where each call is in the chain
  grants,     \* the run's pinned manifest, the instance's current one, changes
  window,     \* members of the sliding window of messages.send
  usage,      \* the day's send counter, and the messages really sent
  external,   \* the run's untrusted flag
  entitled,   \* the plan, as is_entitled reads it
  violations  \* manifest denials of the run

mediationVars == <<mcall, grants, window, usage, external, entitled, violations>>
callVars == <<grants, window, usage, external, entitled, violations>>

Refusals == {"paused", "external", "denied", "stale"}
NoCall == [at |-> "idle", tool |-> "messages.send", approved |-> FALSE, stood |-> {}]
PlainReply == [priced |-> FALSE, large |-> FALSE, mode |-> "reactive"]

(* compile_manifest: a read-only tool is free of the tier gate and the only    *)
(* kind usable once the run has read outside content                           *)
ReadOnly == {"catalog.search"}
Gateable == {"messages.send"}
MediatedTools == ReadOnly \cup Gateable \cup {"web.fetch"}

MediationInit ==
  /\ mcall = [c \in Callers |-> NoCall]
  /\ grants = [pinned |-> 0, current |-> 0]
  /\ window = 0 /\ usage = [counted |-> 0, sent |-> 0]
  /\ external = FALSE /\ entitled = TRUE
  /\ violations = 0

(* what would refuse this call now, and has since it began                     *)
Standing == (IF knob.paused THEN {"paused"} ELSE {})
            \cup (IF external THEN {"external"} ELSE {})
            \cup (IF entitled THEN {} ELSE {"denied"})
            \cup (IF grants.pinned = grants.current THEN {} ELSE {"stale"})
Lift(refusal) ==
  mcall' = [c \in Callers |-> [mcall[c] EXCEPT !.stood = @ \ {refusal}]]

On(c, gate) == mcall[c].at = gate
Pass(c, next) == mcall' = [mcall EXCEPT ![c].at = next]
Answered(c) == mcall' = [mcall EXCEPT ![c] = NoCall]

BeginCall(c) ==
  /\ On(c, "idle") /\ usage.sent < MaxSends /\ violations < MaxViolations
  /\ \E t \in MediatedTools, ok \in BOOLEAN :
       /\ ok => t \in Gateable
       /\ mcall' = [mcall EXCEPT ![c] =
            [at |-> "manifest", tool |-> t, approved |-> ok, stood |-> Standing]]
  /\ UNCHANGED <<callVars, autonomyVars>>

(* _manifest_denied: the last denial aborts the run, which begins no more calls *)
ManifestDenied(c) ==
  /\ violations' = IF violations < MaxViolations THEN violations + 1 ELSE violations
  /\ Answered(c)
  /\ UNCHANGED <<grants, window, usage, external, entitled, autonomyVars>>

(* steps 1 to 2: the pinned manifest is the instance's current one             *)
ManifestGate(c) ==
  /\ On(c, "manifest")
  /\ \/ grants.pinned # grants.current /\ ManifestDenied(c)
     \/ /\ grants.pinned = grants.current
        /\ Pass(c, "narrow") /\ UNCHANGED <<callVars, autonomyVars>>

(* Mutant: only the flag the run began with is looked at, not the one in Redis. *)
NarrowGateStale(c) ==
  /\ On(c, "narrow")
  /\ Pass(c, "rate") /\ UNCHANGED <<callVars, autonomyVars>>

(* steps 3 and 4: narrowing under untrusted content, and the constraints of    *)
(* the grant, which refuse without counting a violation                        *)
NarrowGate(c) ==
  /\ On(c, "narrow")
  /\ \/ external /\ mcall[c].tool \notin ReadOnly /\ ManifestDenied(c)
     \/ /\ external => mcall[c].tool \in ReadOnly
        /\ Pass(c, "rate") \/ Answered(c)
        /\ UNCHANGED <<callVars, autonomyVars>>

(* Mutant: one call more than the limit is let through. *)
UnderLimitPlusOne == window <= CallsPerMin

(* check_rate: zremrangebyscore and zcard, then zadd in a step of its own      *)
UnderLimit == window < CallsPerMin
RateGate(c) ==
  /\ On(c, "rate")
  /\ \/ mcall[c].tool \in Gateable /\ UnderLimit /\ Pass(c, "slot")
     \/ mcall[c].tool \in Gateable /\ ~UnderLimit /\ Answered(c)
     \/ mcall[c].tool \notin Gateable /\ Pass(c, "tier")
  /\ UNCHANGED <<callVars, autonomyVars>>

TakeSlot(c) ==
  /\ On(c, "slot") /\ window' = window + 1 /\ Pass(c, "budget")
  /\ UNCHANGED <<grants, usage, external, entitled, violations, autonomyVars>>

(* check_budget reads the counter; record_budget has no caller                 *)
BudgetGate(c) ==
  /\ On(c, "budget")
  /\ \/ usage.counted < SendsDay /\ Pass(c, "tier")
     \/ usage.counted >= SendsDay /\ Answered(c)
  /\ UNCHANGED <<callVars, autonomyVars>>

(* step 7: a consequential tool asks the engine, an approved one does not      *)
TierGate(c) ==
  LET call == mcall[c] IN
  /\ On(c, "tier")
  /\ \/ /\ \/ call.tool \in ReadOnly \/ call.approved
           \/ EvaluateTool(rules, call.tool, PlainReply) < ReviewTier
        /\ Pass(c, "plan")
     \/ /\ call.tool \notin ReadOnly /\ ~call.approved
        /\ EvaluateTool(rules, call.tool, PlainReply) >= ReviewTier
        /\ Answered(c)
  /\ UNCHANGED <<callVars, autonomyVars>>

(* _commercial_denial against the plan as it stands, then the audit intent     *)
PlanGate(c) ==
  /\ On(c, "plan")
  /\ \/ entitled /\ Pass(c, "execute")
     \/ ~entitled /\ Answered(c)
  /\ UNCHANGED <<callVars, autonomyVars>>

(* step 9: the effect, or a provider failure                                   *)
Execute(c) ==
  /\ On(c, "execute")
  /\ \/ /\ usage' = IF mcall[c].tool \in Gateable
                    THEN [usage EXCEPT !.sent = @ + 1] ELSE usage
        /\ IF mcall[c].tool = "web.fetch" THEN Pass(c, "mark") ELSE Answered(c)
     \/ Answered(c) /\ UNCHANGED usage
  /\ UNCHANGED <<grants, window, external, entitled, violations, autonomyVars>>

MarkUntrusted(c) ==
  /\ On(c, "mark") /\ external' = TRUE /\ Answered(c)
  /\ UNCHANGED <<grants, window, usage, entitled, violations, autonomyVars>>

-----------------------------------------------------------------------------
(* Around the chain                                                            *)

(* the oldest entry leaves the window                                          *)
SlideWindow ==
  /\ window > 0 /\ window' = window - 1
  /\ UNCHANGED <<mcall, grants, usage, external, entitled, violations, autonomyVars>>

(* resume_after_approval clears the flag at the human boundary                 *)
ClearUntrusted ==
  /\ external /\ external' = FALSE /\ Lift("external")
  /\ UNCHANGED <<grants, window, usage, entitled, violations, autonomyVars>>

(* recompile_instance, and a run that starts on the new manifest               *)
RecompileGrants ==
  /\ \/ /\ grants.current < MaxChanges
        /\ grants' = [grants EXCEPT !.current = @ + 1]
     \/ /\ \A c \in Callers : On(c, "idle")
        /\ grants.pinned # grants.current
        /\ grants' = [grants EXCEPT !.pinned = grants.current]
  /\ UNCHANGED <<mcall, window, usage, external, entitled, violations, autonomyVars>>

SwitchPlan ==
  /\ entitled' = ~entitled
  /\ IF entitled THEN UNCHANGED mcall ELSE Lift("denied")
  /\ UNCHANGED <<grants, window, usage, external, violations, autonomyVars>>

(* the owner's panic switch: of the settings, the one every tool obeys          *)
OwnerPauses ==
  /\ TurnKnob /\ knob'.paused # knob.paused
  /\ IF knob.paused THEN Lift("paused") ELSE UNCHANGED mcall
  /\ UNCHANGED callVars

MediationNext ==
  \/ \E c \in Callers :
       \/ BeginCall(c) \/ ManifestGate(c) \/ NarrowGate(c) \/ RateGate(c) \/ TakeSlot(c)
       \/ BudgetGate(c) \/ TierGate(c) \/ PlanGate(c) \/ Execute(c) \/ MarkUntrusted(c)
  \/ SlideWindow \/ ClearUntrusted \/ RecompileGrants \/ SwitchPlan \/ OwnerPauses

-----------------------------------------------------------------------------
(* Properties                                                                  *)

MediationTypeOK ==
  /\ \A c \in Callers : /\ mcall[c].tool \in MediatedTools
                        /\ mcall[c].stood \subseteq Refusals
  /\ violations \in 0..MaxViolations /\ window \in Nat

(* No call takes effect against a refusal that has stood since before it       *)
(* began: a manifest that was already stale, outside content already read, a   *)
(* plan already ended, or the owner's pause, which an approval alone lifts.    *)
StandingRefusalHolds ==
  \A c \in Callers : On(c, "execute") =>
    /\ "stale" \notin mcall[c].stood
    /\ "denied" \notin mcall[c].stood
    /\ "external" \in mcall[c].stood => mcall[c].tool \in ReadOnly
    /\ "paused" \in mcall[c].stood => mcall[c].tool \in ReadOnly \/ mcall[c].approved

(* The sliding window exceeds per_min by the calls that were between zcard and *)
(* zadd together, and by no more.                                              *)
RateExcessBounded == window < CallsPerMin + Cardinality(Callers)

(* The day's messages stay within sends_day, but for the calls that passed the *)
(* check together.                                                             *)
SendBudgetHolds == usage.sent < SendsDay + Cardinality(Callers)

=============================================================================
