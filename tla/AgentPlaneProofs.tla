-------------------------- MODULE AgentPlaneProofs --------------------------
(***************************************************************************)
(* Proofs about what an agent may do and says and about the components     *)
(* around its turn, each for every number of callers, rules, rows and      *)
(* faults: the autonomy engine, the mediation proxy, model routing, the    *)
(* diagnosis with the step that acts on it, campaigns, webhook ingress,    *)
(* the audit chain, packs, sign-in, members and seats, and the scheduler;  *)
(* and, at the end, what follows of AgentPlane, where each component moves *)
(* alone.  A component has an inductive invariant, a lemma that it holds   *)
(* first, one that every action keeps it, and one that it shows the        *)
(* properties.                                                             *)
(***************************************************************************)
EXTENDS AgentPlane, FiniteSetTheorems, TLAPS

(***************************************************************************)
(* Autonomy                                                                *)
(***************************************************************************)
KnobSetting == [paused : BOOLEAN, manual : SUBSET {"messaging", "pricing"},
                quiet : BOOLEAN, turns : Nat]
DecidedApproval == [at : -1..Horizon, tool : AgentTools \cup {"none"},
                    settled : BOOLEAN, counted : BOOLEAN]
LedgerRow == [clean : Nat, last : -1..Horizon]

AutonomyTypes ==
  /\ now \in 0..Horizon /\ rules \subseteq Rules /\ knob \in KnobSetting
  /\ decided \in [Approvals -> DecidedApproval]
  /\ ledger \in [AgentTools -> LedgerRow]
  /\ incidents \subseteq [tool : AgentTools, at : 0..Horizon]

(* What was settled was decided, and what counted had its whole window.      *)
SettledInTurn ==
  \A a \in Approvals :
    /\ decided[a].at # Never => decided[a].tool \in AgentTools
    /\ decided[a].settled => decided[a].at # Never
    /\ decided[a].counted => decided[a].settled /\ decided[a].at + CleanWindow <= now

(* The ledger's date is the date of the tool's latest incident.              *)
LedgerDated ==
  /\ \A x \in incidents : x.at <= ledger[x.tool].last
  /\ \A t \in AgentTools : ledger[t].last # Never =>
       \E x \in incidents : x.tool = t /\ x.at = ledger[t].last

IncidentsPast == \A x \in incidents : x.at <= now

AutonomyInv ==
  /\ AutonomyTypes /\ SettledInTurn /\ LedgerDated /\ IncidentsPast
  /\ CleanUnlessOverwritten /\ TrustIsEarned

Earners(t) == {a \in Approvals : decided[a].counted /\ decided[a].tool = t}

LEMMA EarnersFinite ==
  \A S : S \subseteq Approvals =>
    IsFiniteSet(S) /\ Cardinality(S) \in Nat /\ Cardinality(S) <= Cardinality(Approvals)
<1>1. Cardinality(Approvals) \in Nat
  BY AutonomyAssumption, FS_CardinalityType
<1>2. ASSUME NEW S, S \subseteq Approvals
      PROVE  IsFiniteSet(S) /\ Cardinality(S) \in Nat /\ Cardinality(S) <= Cardinality(Approvals)
  BY <1>2, AutonomyAssumption, FS_Subset, FS_CardinalityType
<1>3. QED
  BY <1>2

(* select_decision answers with the highest of the tiers it is given.        *)
LEMMA HighestTier ==
  ASSUME NEW T, T \subseteq 0..4, T # {}
  PROVE  /\ SelectTier(T) \in T
         /\ \A u \in T : SelectTier(T) >= u
<1>1. \E t \in T : \A u \in T : t >= u
  <2>1. CASE 4 \in T
    BY <2>1
  <2>2. CASE 4 \notin T /\ 3 \in T
    BY <2>2
  <2>3. CASE 4 \notin T /\ 3 \notin T /\ 2 \in T
    BY <2>3
  <2>4. CASE 4 \notin T /\ 3 \notin T /\ 2 \notin T /\ 1 \in T
    BY <2>4
  <2>5. CASE 4 \notin T /\ 3 \notin T /\ 2 \notin T /\ 1 \notin T
    <3>1. \A u \in T : u = 0
      BY <2>5
    <3>2. PICK t : t \in T
      OBVIOUS
    <3>3. \A u \in T : t >= u
      BY <3>1, <3>2
    <3>4. QED
      BY <3>2, <3>3
  <2>6. QED
    BY <2>1, <2>2, <2>3, <2>4, <2>5
<1>2. SelectTier(T) = CHOOSE t \in T : \A u \in T : t >= u
  BY DEF SelectTier
<1>3. QED
  BY <1>1, <1>2

(* Every tier the engine joins for a call is a tier, and its answer is no    *)
(* lower than any of them.                                                   *)
LEMMA EngineTakesHighest ==
  ASSUME rules \subseteq Rules, NEW tool, NEW offer
  PROVE  /\ \A a \in ResolveActions(tool, offer) :
              \A u \in Contributors(rules, a) : EvaluateTool(rules, tool, offer) >= u
         /\ \A u \in AutonomyFloor(tool, offer) : EvaluateTool(rules, tool, offer) >= u
         /\ EvaluateTool(rules, tool, offer) \in 0..4
<1> DEFINE family == UNION {Contributors(rules, a) : a \in ResolveActions(tool, offer)}
           floor == AutonomyFloor(tool, offer)
<1>1. ASSUME NEW a PROVE Contributors(rules, a) \subseteq 0..4
  BY AutonomyAssumption DEF Contributors, ReviewTier
<1>2. floor \subseteq 0..4  BY DEF AutonomyFloor, ReviewTier
<1>3. \A u \in family : \E a \in ResolveActions(tool, offer) : u \in Contributors(rules, a)
  BY Zenon
<1>4. \A a \in ResolveActions(tool, offer) : Contributors(rules, a) \subseteq family
  OBVIOUS
<1>5. EvaluateTool(rules, tool, offer) = SelectTier(family \cup floor)
  BY DEF EvaluateTool
<1> HIDE DEF family, floor
<1>6. family \cup floor \subseteq 0..4
  BY <1>1, <1>2, <1>3
<1>7. \A u \in family \cup floor : SelectTier(family \cup floor) >= u  BY <1>6, HighestTier
<1>8. \A a \in ResolveActions(tool, offer) :
        \A u \in Contributors(rules, a) : EvaluateTool(rules, tool, offer) >= u
  BY <1>4, <1>5, <1>7
<1>9. \A u \in floor : EvaluateTool(rules, tool, offer) >= u
  BY <1>5, <1>7
<1>10. SelectTier(family \cup floor) \in 0..4  BY <1>6, HighestTier DEF SelectTier, ReviewTier
<1>11. QED
  BY <1>5, <1>8, <1>9, <1>10 DEF floor

(* The rules in force are never weakened by the knob: evaluate_tool joins    *)
(* the owner's settings and incidents to the core and pack rules.            *)
LEMMA KnobOnlyTightens == rules \subseteq Rules => OnlyTightens
<1> SUFFICES ASSUME rules \subseteq Rules, NEW t \in AgentTools, NEW o \in Offers,
                    NEW r \in rules, r.guard = "true", r.action \in ResolveActions(t, o)
             PROVE  EvaluateTool(rules, t, o) >= r.tier
  BY DEF OnlyTightens
<1>1. r.tier \in Contributors(rules, r.action)
  BY DEF Contributors, Matches
<1>2. QED
  BY <1>1, EngineTakesHighest

LEMMA AutonomyStarts == AutonomyInit => AutonomyInv
<1> SUFFICES ASSUME AutonomyInit PROVE AutonomyInv
  OBVIOUS
<1>1. AutonomyTypes
  BY AutonomyAssumption DEF AutonomyInit, KnobSetting, Undecided, DecidedApproval, Never,
     LedgerRow, AutonomyTypes
<1>2. \A a \in Approvals : decided[a] = Undecided
  BY DEF AutonomyInit
<1>3. SettledInTurn
  BY <1>2 DEF SettledInTurn, Undecided
<1>4. LedgerDated /\ IncidentsPast /\ CleanUnlessOverwritten
  BY DEF LedgerDated, IncidentsPast, CleanUnlessOverwritten, AutonomyInit
<1>5. TrustIsEarned  BY EarnersFinite DEF AutonomyInit, Earners, TrustIsEarned
<1>6. QED
  BY <1>1, <1>3, <1>4, <1>5 DEF AutonomyInv

(* A step that leaves the approvals, the ledger and the incidents alone.     *)
LEMMA LedgerAlone ==
  ASSUME AutonomyInv, UNCHANGED <<rules, decided, ledger, incidents>>,
         now' \in 0..Horizon, now' >= now, knob' \in KnobSetting
  PROVE  AutonomyInv'
<1>1. AutonomyTypes'
  BY DEF AutonomyInv, AutonomyTypes
<1>2. SettledInTurn'
  BY AutonomyAssumption DEF AutonomyInv, SettledInTurn, AutonomyTypes, DecidedApproval
<1>3. LedgerDated' /\ CleanUnlessOverwritten' /\ TrustIsEarned'
  BY DEF AutonomyInv, LedgerDated, CleanUnlessOverwritten, TrustIsEarned, InWindow
<1>4. IncidentsPast'  BY DEF AutonomyInv, IncidentsPast, AutonomyTypes
<1>5. QED
  BY <1>1, <1>2, <1>3, <1>4 DEF AutonomyInv

LEMMA TurnKnobSafe == AutonomyInv /\ TurnKnob => AutonomyInv'
<1> SUFFICES ASSUME AutonomyInv, TurnKnob PROVE AutonomyInv'
  OBVIOUS
<1>1. knob' \in KnobSetting
  <2>1. knob \in KnobSetting
    BY DEF AutonomyInv, AutonomyTypes
  <2>2. QED
    <3>1. CASE knob' = [knob EXCEPT !.paused = ~@, !.turns = @ + 1]
      <4>1. knob.turns + 1 \in Nat /\ (~knob.paused) \in BOOLEAN
        BY <2>1 DEF KnobSetting
      <4>2. QED
        BY <2>1, <3>1, <4>1 DEF KnobSetting
    <3>2. CASE knob' = [knob EXCEPT !.quiet = ~@, !.turns = @ + 1]
      <4>1. knob.turns + 1 \in Nat /\ (~knob.quiet) \in BOOLEAN
        BY <2>1 DEF KnobSetting
      <4>2. QED
        BY <2>1, <3>2, <4>1 DEF KnobSetting
    <3>3. ASSUME NEW cap \in {"messaging", "pricing"},
                 knob' = [knob EXCEPT !.manual = @ \cup {cap}, !.turns = @ + 1]
          PROVE  knob' \in KnobSetting
      <4>1. knob.turns + 1 \in Nat
            /\ knob.manual \cup {cap} \in SUBSET {"messaging", "pricing"}
        BY <2>1 DEF KnobSetting
      <4>2. QED
        BY <2>1, <3>3, <4>1 DEF KnobSetting
    <3>4. QED
      BY <3>1, <3>2, <3>3 DEF TurnKnob
<1>2. now' \in 0..Horizon /\ now' >= now
  <2>1. now \in 0..Horizon /\ now' = now
    BY DEF AutonomyInv, AutonomyTypes, TurnKnob
  <2>2. QED
    BY <2>1
<1>3. QED
  BY <1>1, <1>2, LedgerAlone DEF TurnKnob

LEMMA PassTimeSafe == AutonomyInv /\ PassTime => AutonomyInv'
<1> SUFFICES ASSUME AutonomyInv, PassTime PROVE AutonomyInv'
  OBVIOUS
<1>1. now \in 0..Horizon /\ knob \in KnobSetting /\ Horizon \in Nat
  BY AutonomyAssumption DEF AutonomyInv, AutonomyTypes
<1>2. now' \in 0..Horizon /\ now' >= now /\ knob' \in KnobSetting
  BY <1>1 DEF PassTime
<1>3. QED
  BY <1>2, LedgerAlone DEF PassTime

LEMMA ApproveSafe ==
  ASSUME AutonomyInv, NEW a \in Approvals, Approve(a)
  PROVE  AutonomyInv'
<1>1. PICK t \in AgentTools :
        decided' = [decided EXCEPT ![a] = [Undecided EXCEPT !.at = now, !.tool = t]]
  BY DEF Approve
<1>2. /\ UNCHANGED <<now, rules, knob, ledger, tightened, incidents>>
      /\ decided[a].at = Never
  BY DEF Approve
<1>3. /\ decided \in [Approvals -> DecidedApproval] /\ now \in 0..Horizon /\ Horizon \in Nat
      /\ SettledInTurn
  BY AutonomyAssumption DEF AutonomyInv, AutonomyTypes
<1>4. decided'[a] = [at |-> now, tool |-> t, settled |-> FALSE, counted |-> FALSE]
  BY <1>1, <1>3 DEF Undecided
<1>5. ~decided[a].counted /\ ~decided[a].settled
  BY <1>2, <1>3 DEF SettledInTurn
<1>6. \A b \in Approvals : b # a => decided'[b] = decided[b]
  BY <1>1, <1>3
<1>7. AutonomyTypes'
  <2>1. decided'[a] \in DecidedApproval
    BY <1>3, <1>4 DEF DecidedApproval
  <2>2. decided' \in [Approvals -> DecidedApproval]
    BY <1>1, <1>3, <1>4, <2>1
  <2>3. QED
    BY <1>2, <2>2 DEF AutonomyInv, AutonomyTypes
<1>8. SettledInTurn'  BY <1>2, <1>3, <1>4, <1>6 DEF SettledInTurn
<1>9. LedgerDated' /\ IncidentsPast'
  BY <1>2 DEF AutonomyInv, LedgerDated, IncidentsPast
<1>10. CleanUnlessOverwritten'
  BY <1>2, <1>4, <1>6 DEF CleanUnlessOverwritten, InWindow, AutonomyInv
<1>11. TrustIsEarned'  BY <1>2, <1>4, <1>5, <1>6 DEF Earners, AutonomyInv, TrustIsEarned
<1>12. QED
  BY <1>7, <1>8, <1>9, <1>10, <1>11 DEF AutonomyInv

(* record_incident moves the ledger's date to now: it is past every window   *)
(* that a settlement has looked at.                                          *)
LEMMA RecordIncidentSafe ==
  ASSUME AutonomyInv, NEW t \in AgentTools, RecordIncident(t)
  PROVE  AutonomyInv'
<1> DEFINE fresh == [tool |-> t, at |-> now]
<1>1. /\ ledger' = [ledger EXCEPT ![t] = [clean |-> 0, last |-> now]]
      /\ incidents' = incidents \cup {fresh}
      /\ UNCHANGED <<now, rules, knob, decided>>
  BY DEF RecordIncident
<1>2. /\ now \in 0..Horizon /\ Horizon \in Nat /\ CleanWindow \in Nat
      /\ ledger \in [AgentTools -> LedgerRow]
      /\ incidents \subseteq [tool : AgentTools, at : 0..Horizon]
      /\ decided \in [Approvals -> DecidedApproval]
  BY AutonomyAssumption DEF AutonomyInv, AutonomyTypes
<1>3. /\ ledger'[t] = [clean |-> 0, last |-> now]
      /\ \A u \in AgentTools : u # t => ledger'[u] = ledger[u]
  BY <1>1, <1>2
<1>4. fresh \in [tool : AgentTools, at : 0..Horizon] /\ fresh.tool = t /\ fresh.at = now
  BY <1>2
<1>5. AutonomyTypes'
  <2>1. [clean |-> 0, last |-> now] \in LedgerRow
    BY <1>2 DEF LedgerRow
  <2>2. ledger' \in [AgentTools -> LedgerRow]
    BY <1>1, <1>2, <2>1
  <2> HIDE DEF fresh
  <2>3. incidents' \subseteq [tool : AgentTools, at : 0..Horizon]
    BY <1>1, <1>2, <1>4
  <2>4. QED
    BY <1>1, <2>2, <2>3 DEF AutonomyInv, AutonomyTypes
<1> HIDE DEF fresh
<1>6. SettledInTurn'
  BY <1>1 DEF AutonomyInv, SettledInTurn
<1>7. LedgerDated'
  <2>1. ASSUME NEW x \in incidents' PROVE x.at <= ledger'[x.tool].last
    <3>1. CASE x = fresh
      BY <1>2, <1>3, <1>4, <3>1
    <3>2. CASE x # fresh
      BY <1>1, <1>2, <1>3, <3>2 DEF AutonomyInv, LedgerDated, LedgerRow, Never, IncidentsPast
    <3>3. QED
      BY <3>1, <3>2
  <2>2. ASSUME NEW u \in AgentTools, ledger'[u].last # Never
        PROVE  \E x \in incidents' : x.tool = u /\ x.at = ledger'[u].last
    BY <1>1, <1>3, <1>4, <2>2 DEF AutonomyInv, LedgerDated
  <2>3. QED
    BY <2>1, <2>2 DEF LedgerDated
<1>8. IncidentsPast'  BY <1>1, <1>2, <1>4 DEF AutonomyInv, IncidentsPast
<1>9. CleanUnlessOverwritten'
  BY <1>1, <1>2, <1>4 DEF CleanUnlessOverwritten, InWindow, AutonomyInv, SettledInTurn,
     DecidedApproval
<1>10. TrustIsEarned'  BY <1>1, <1>3, EarnersFinite DEF Earners, AutonomyInv, TrustIsEarned
<1>11. QED
  BY <1>5, <1>6, <1>7, <1>8, <1>9, <1>10 DEF AutonomyInv

(* What one settlement does to one approval and to one tool's counter.       *)
JustEarned(t) == {a \in Approvals : Ripe(a) /\ Clean(a) /\ decided[a].tool = t}

LEMMA SettleDoes ==
  ASSUME AutonomyInv, Settle
  PROVE  /\ UNCHANGED <<now, rules, knob, tightened, incidents>>
         /\ decided' \in [Approvals -> DecidedApproval]
         /\ \A a \in Approvals :
              /\ decided'[a].at = decided[a].at /\ decided'[a].tool = decided[a].tool
              /\ decided'[a].settled <=> decided[a].settled \/ Ripe(a)
              /\ decided'[a].counted <=> decided[a].counted \/ (Ripe(a) /\ Clean(a))
         /\ ledger' \in [AgentTools -> LedgerRow]
         /\ \A t \in AgentTools :
              /\ ledger'[t].last = ledger[t].last
              /\ ledger'[t].clean = ledger[t].clean + Cardinality(JustEarned(t))
<1>1. /\ decided \in [Approvals -> DecidedApproval] /\ ledger \in [AgentTools -> LedgerRow]
  BY DEF AutonomyInv, AutonomyTypes
<1>2. /\ UNCHANGED <<now, rules, knob, tightened, incidents>>
      /\ decided' = [a \in Approvals |->
           [decided[a] EXCEPT !.settled = @ \/ Ripe(a), !.counted = @ \/ (Ripe(a) /\ Clean(a))]]
      /\ ledger' = [t \in AgentTools |->
           [ledger[t] EXCEPT !.clean = @ + Cardinality(JustEarned(t))]]
  BY DEF Settle, JustEarned
<1>3. ASSUME NEW a \in Approvals
      PROVE  /\ decided'[a] \in DecidedApproval
             /\ decided'[a].at = decided[a].at /\ decided'[a].tool = decided[a].tool
             /\ decided'[a].settled <=> decided[a].settled \/ Ripe(a)
             /\ decided'[a].counted <=> decided[a].counted \/ (Ripe(a) /\ Clean(a))
  <2> DEFINE settles == decided[a].settled \/ Ripe(a)
             counts == decided[a].counted \/ (Ripe(a) /\ Clean(a))
  <2>1. settles \in BOOLEAN /\ counts \in BOOLEAN
    BY <1>1 DEF DecidedApproval
  <2>2. decided'[a] = [decided[a] EXCEPT !.settled = settles, !.counted = counts]
    BY <1>2
  <2>3. decided[a] \in DecidedApproval
    BY <1>1
  <2> HIDE DEF settles, counts
  <2>4. /\ decided'[a] \in DecidedApproval
        /\ decided'[a].at = decided[a].at /\ decided'[a].tool = decided[a].tool
        /\ decided'[a].settled = settles /\ decided'[a].counted = counts
    BY <2>1, <2>2, <2>3 DEF DecidedApproval
  <2>5. QED
    BY <2>4 DEF settles, counts
<1>4. ASSUME NEW t \in AgentTools
      PROVE  /\ ledger'[t] \in LedgerRow /\ ledger'[t].last = ledger[t].last
             /\ ledger'[t].clean = ledger[t].clean + Cardinality(JustEarned(t))
  <2>1. Cardinality(JustEarned(t)) \in Nat /\ ledger[t] \in LedgerRow
    BY <1>1, EarnersFinite DEF JustEarned
  <2>2. ledger'[t] = [ledger[t] EXCEPT !.clean = @ + Cardinality(JustEarned(t))]
    BY <1>2
  <2>3. QED
    BY <2>1, <2>2 DEF LedgerRow
<1>5. decided' \in [Approvals -> DecidedApproval] /\ ledger' \in [AgentTools -> LedgerRow]
  BY <1>2, <1>3, <1>4
<1>6. QED
  BY <1>2, <1>3, <1>4, <1>5

(* settle: what counts now was ripe, so it has not counted before, and the   *)
(* ledger's date is outside its window although an incident may not be.      *)
LEMMA SettleSafe == AutonomyInv /\ Settle => AutonomyInv'
<1> SUFFICES ASSUME AutonomyInv, Settle PROVE AutonomyInv'
  OBVIOUS
<1>1. /\ now \in 0..Horizon /\ Horizon \in Nat /\ CleanWindow \in Nat
      /\ ledger \in [AgentTools -> LedgerRow]
      /\ incidents \subseteq [tool : AgentTools, at : 0..Horizon]
      /\ decided \in [Approvals -> DecidedApproval]
  BY AutonomyAssumption DEF AutonomyInv, AutonomyTypes
<1>2. AutonomyTypes'
  BY SettleDoes DEF AutonomyInv, AutonomyTypes
<1>3. SettledInTurn'  BY SettleDoes DEF AutonomyInv, SettledInTurn, Ripe
<1>4. LedgerDated' /\ IncidentsPast'
  BY <1>1, SettleDoes DEF AutonomyInv, LedgerDated, IncidentsPast
<1>5. CleanUnlessOverwritten'
  BY SMTT(30), <1>1, SettleDoes DEF CleanUnlessOverwritten, InWindow, AutonomyInv, LedgerRow,
     LedgerDated, Never, Clean, DecidedApproval
<1>6. TrustIsEarned'
  <2>1. ASSUME NEW t \in AgentTools PROVE ledger'[t].clean <= Cardinality(Earners(t)')
    <3>1. Earners(t)' = Earners(t) \cup JustEarned(t)
      BY SettleDoes DEF Earners, JustEarned
    <3>2. Earners(t) \cap JustEarned(t) = {}
      BY DEF Earners, JustEarned, Ripe, AutonomyInv, SettledInTurn
    <3>3. Earners(t) \subseteq Approvals /\ JustEarned(t) \subseteq Approvals
      BY DEF Earners, JustEarned
    <3>4. /\ IsFiniteSet(Earners(t)) /\ IsFiniteSet(JustEarned(t))
          /\ Cardinality(Earners(t)) \in Nat /\ Cardinality(JustEarned(t)) \in Nat
      BY <3>3, EarnersFinite
    <3>5. Cardinality(Earners(t) \cup JustEarned(t))
            = Cardinality(Earners(t)) + Cardinality(JustEarned(t)) - Cardinality(Earners(t) \cap JustEarned(t))
      BY <3>4, FS_Union
    <3>6. Cardinality(Earners(t)') = Cardinality(Earners(t)) + Cardinality(JustEarned(t))
      <4>1. Cardinality(Earners(t) \cap JustEarned(t)) = 0
        BY <3>2, FS_EmptySet
      <4>2. Cardinality(Earners(t) \cup JustEarned(t))
              = Cardinality(Earners(t)) + Cardinality(JustEarned(t))
        BY <3>4, <3>5, <4>1
      <4>3. QED
        BY <3>1, <4>2
    <3>7. ledger[t].clean <= Cardinality(Earners(t)) /\ ledger[t].clean \in Nat
      BY <1>1 DEF AutonomyInv, TrustIsEarned, Earners, LedgerRow
    <3>8. ledger'[t].clean = ledger[t].clean + Cardinality(JustEarned(t))
      BY SettleDoes
    <3>9. QED
      BY <3>4, <3>6, <3>7, <3>8
  <2>2. QED
    BY <2>1 DEF TrustIsEarned, Earners
<1>7. QED
  BY <1>2, <1>3, <1>4, <1>5, <1>6 DEF AutonomyInv

LEMMA AutonomySteps == AutonomyInv /\ [AutonomyNext]_autonomyVars => AutonomyInv'
<1> SUFFICES ASSUME AutonomyInv, [AutonomyNext]_autonomyVars PROVE AutonomyInv'
  OBVIOUS
<1>1. CASE TurnKnob
  BY <1>1, TurnKnobSafe
<1>2. CASE Settle
  BY <1>2, SettleSafe
<1>3. CASE PassTime
  BY <1>3, PassTimeSafe
<1>4. ASSUME NEW a \in Approvals, Approve(a) PROVE AutonomyInv'
  BY <1>4, ApproveSafe
<1>5. ASSUME NEW t \in AgentTools, RecordIncident(t) PROVE AutonomyInv'
  BY <1>5, RecordIncidentSafe
<1>6. CASE UNCHANGED autonomyVars
  BY <1>6, LedgerAlone DEF autonomyVars, AutonomyInv, AutonomyTypes
<1>7. QED
  BY <1>1, <1>2, <1>3, <1>4, <1>5, <1>6 DEF AutonomyNext

LEMMA AutonomyInvShows ==
  AutonomyInv => AutonomyTypeOK /\ OnlyTightens /\ CleanUnlessOverwritten /\ TrustIsEarned
<1> SUFFICES ASSUME AutonomyInv
             PROVE  AutonomyTypeOK /\ OnlyTightens /\ CleanUnlessOverwritten /\ TrustIsEarned
  OBVIOUS
<1>1. now \in 0..Horizon /\ rules \subseteq Rules
  BY DEF AutonomyInv, AutonomyTypes
<1>2. ASSUME NEW t \in AgentTools
      PROVE  ledger[t].clean \in 0..Cardinality(Approvals) /\ ledger[t].last \in -1..Horizon
  <2>1. ledger[t].clean \in Nat /\ ledger[t].last \in -1..Horizon
    BY DEF AutonomyInv, AutonomyTypes, LedgerRow
  <2>2. ledger[t].clean <= Cardinality(Earners(t))
    BY DEF AutonomyInv, TrustIsEarned, Earners
  <2>3. /\ Cardinality(Earners(t)) <= Cardinality(Approvals)
        /\ Cardinality(Earners(t)) \in Nat /\ Cardinality(Approvals) \in Nat
    BY EarnersFinite, AutonomyAssumption, FS_CardinalityType DEF Earners
  <2>4. QED
    BY <2>1, <2>2, <2>3
<1>3. \A a \in Approvals : decided[a].at \in -1..Horizon
  BY DEF AutonomyInv, AutonomyTypes, DecidedApproval
<1>4. AutonomyTypeOK
  BY <1>1, <1>2, <1>3 DEF AutonomyTypeOK
<1>5. QED
  BY <1>1, <1>4, KnobOnlyTightens DEF AutonomyInv

(***************************************************************************)
(* Mediation                                                               *)
(***************************************************************************)
PastManifest == {"narrow", "rate", "slot", "budget", "tier", "plan", "execute", "mark"}
PastNarrow == PastManifest \ {"narrow"}
MediatedCall == [at : {"idle", "manifest"} \cup PastManifest, tool : MediatedTools,
                 approved : BOOLEAN, stood : SUBSET Refusals]

MediationTypes ==
  /\ mcall \in [Callers -> MediatedCall]
  /\ grants \in [pinned : Nat, current : Nat] /\ grants.pinned <= grants.current
  /\ window \in Nat /\ external \in BOOLEAN /\ entitled \in BOOLEAN
  /\ violations \in 0..MaxViolations

(* What stood against a call since it began stands now, and the gates it has *)
(* passed did not let it through against that.                               *)
PassedSoundly(asked) ==
  /\ asked.stood \subseteq Standing
  /\ asked.at \in PastManifest => "stale" \notin asked.stood
  /\ asked.at \in PastNarrow => ("external" \in asked.stood => asked.tool \in ReadOnly)
  /\ asked.at \in {"plan", "execute"} =>
       ("paused" \in asked.stood => asked.tool \in ReadOnly \/ asked.approved)
  /\ asked.at = "execute" => "denied" \notin asked.stood
  /\ asked.at = "idle" => asked.stood = {}
GatesHeld == \A c \in Callers : PassedSoundly(mcall[c])

(* The calls between zcard and zadd have a slot coming.                      *)
Slotted == {c \in Callers : mcall[c].at = "slot"}
SlotsCounted == window + Cardinality(Slotted) < CallsPerMin + Cardinality(Callers)

MediationInv == MediationTypes /\ GatesHeld /\ SlotsCounted

LEMMA CallersCounted ==
  /\ Cardinality(Callers) \in Nat /\ Cardinality(Callers) > 0
  /\ \A S : S \subseteq Callers =>
       IsFiniteSet(S) /\ Cardinality(S) \in Nat /\ Cardinality(S) <= Cardinality(Callers)
<1>1. Cardinality(Callers) \in Nat /\ Cardinality(Callers) > 0
  BY MediationAssumption, FS_CardinalityType, FS_EmptySet
<1>2. ASSUME NEW S, S \subseteq Callers
      PROVE  IsFiniteSet(S) /\ Cardinality(S) \in Nat /\ Cardinality(S) <= Cardinality(Callers)
  BY <1>2, MediationAssumption, FS_Subset, FS_CardinalityType
<1>3. QED
  BY <1>1, <1>2

LEMMA MediationStarts == MediationInit => MediationInv
<1> SUFFICES ASSUME MediationInit PROVE MediationInv
  OBVIOUS
<1>1. NoCall \in MediatedCall /\ NoCall.at = "idle" /\ NoCall.stood = {}
  BY DEF NoCall, MediatedCall, MediatedTools, Gateable, ReadOnly
<1>2. MediationTypes
  <2>1. grants = [pinned |-> 0, current |-> 0]
    BY DEF MediationInit
  <2>2. grants \in [pinned : Nat, current : Nat] /\ grants.pinned <= grants.current
    BY <2>1
  <2>3. violations \in 0..MaxViolations
    BY MediationAssumption DEF MediationInit
  <2>4. QED
    BY <1>1, <2>2, <2>3 DEF MediationTypes, MediationInit
<1>3. GatesHeld
  BY <1>1 DEF GatesHeld, PassedSoundly, MediationInit, PastManifest, PastNarrow
<1>4. SlotsCounted
  BY <1>1, FS_EmptySet, CallersCounted, MediationAssumption DEF Slotted, MediationInit,
     SlotsCounted
<1>5. QED
  BY <1>2, <1>3, <1>4 DEF MediationInv

(* A call that leaves the chain has nothing standing against it.             *)
LEMMA NoCallSound == PassedSoundly(NoCall) /\ PassedSoundly(NoCall)' /\ NoCall \in MediatedCall
BY DEF PassedSoundly, NoCall, MediatedCall, MediatedTools, Gateable, ReadOnly,
       PastManifest, PastNarrow

(* One call moves, to a gate it may be at, and neither waits for a slot nor  *)
(* takes one: what remains to be shown is that the gate let it through       *)
(* soundly.                                                                  *)
LEMMA OneMoves ==
  ASSUME MediationInv, NEW c \in Callers, NEW asked \in MediatedCall,
         mcall' = [mcall EXCEPT ![c] = asked], asked.at # "slot",
         UNCHANGED <<grants, window>>, Standing \subseteq Standing',
         external' \in BOOLEAN, entitled' \in BOOLEAN, violations' \in 0..MaxViolations,
         PassedSoundly(asked)'
  PROVE  MediationInv'
<1>1. /\ mcall \in [Callers -> MediatedCall] /\ window \in Nat
      /\ grants \in [pinned : Nat, current : Nat] /\ grants.pinned <= grants.current
  BY DEF MediationInv, MediationTypes
<1>2. mcall'[c] = asked /\ \A d \in Callers : d # c => mcall'[d] = mcall[d]
  BY <1>1
<1>3. MediationTypes'  BY <1>1 DEF MediationTypes
<1>4. GatesHeld'  BY <1>2 DEF PassedSoundly, MediationInv, GatesHeld
<1>5. SlotsCounted'
  BY <1>1, <1>2, CallersCounted, FS_Subset, MediationAssumption DEF Slotted, MediationInv,
     SlotsCounted
<1>6. QED
  BY <1>3, <1>4, <1>5 DEF MediationInv

(* What one call and the grants look like in a state of the proxy.           *)
LEMMA CallFacts ==
  ASSUME MediationInv, NEW c \in Callers
  PROVE  /\ mcall[c] \in MediatedCall /\ PassedSoundly(mcall[c])
         /\ mcall \in [Callers -> MediatedCall]
         /\ external \in BOOLEAN /\ entitled \in BOOLEAN /\ violations \in 0..MaxViolations
BY DEF MediationInv, MediationTypes, GatesHeld

LEMMA Dismissed ==
  ASSUME MediationInv, NEW c \in Callers, Answered(c), UNCHANGED <<grants, window, external, entitled, knob>>,
         violations' \in 0..MaxViolations
  PROVE  MediationInv'
<1>1. Standing' = Standing /\ external' \in BOOLEAN /\ entitled' \in BOOLEAN
  BY CallFacts DEF Standing
<1>2. NoCall.at # "slot"
  BY DEF NoCall
<1>3. mcall' = [mcall EXCEPT ![c] = NoCall]
  BY DEF Answered
<1>4. PassedSoundly(NoCall)' /\ NoCall \in MediatedCall
  BY NoCallSound
<1>5. QED
  BY <1>1, <1>2, <1>3, <1>4, OneMoves

LEMMA BeginCallSafe ==
  ASSUME MediationInv, NEW c \in Callers, BeginCall(c)
  PROVE  MediationInv'
<1>1. PICK t \in MediatedTools, ok \in BOOLEAN :
        mcall' = [mcall EXCEPT ![c] =
          [at |-> "manifest", tool |-> t, approved |-> ok, stood |-> Standing]]
  BY DEF BeginCall
<1>2. UNCHANGED <<grants, window, external, entitled, violations, knob>>
  BY DEF BeginCall, callVars, autonomyVars
<1>3. PICK asked : asked = [at |-> "manifest", tool |-> t, approved |-> ok, stood |-> Standing]
  OBVIOUS
<1>4. Standing' = Standing /\ Standing \subseteq Refusals
  BY <1>2 DEF Standing, Refusals
<1>5. asked \in MediatedCall /\ asked.at # "slot"
  BY <1>3, <1>4 DEF MediatedCall
<1>6. PassedSoundly(asked)'
  BY <1>3, <1>4 DEF PassedSoundly, PastManifest, PastNarrow
<1>7. mcall' = [mcall EXCEPT ![c] = asked]
  BY <1>1, <1>3
<1>8. external' \in BOOLEAN /\ entitled' \in BOOLEAN /\ violations' \in 0..MaxViolations
  BY <1>2, CallFacts
<1>9. QED
  BY <1>2, <1>4, <1>5, <1>6, <1>7, <1>8, OneMoves

LEMMA ManifestDeniedSafe ==
  ASSUME MediationInv, NEW c \in Callers, ManifestDenied(c)
  PROVE  MediationInv'
<1>1. UNCHANGED <<grants, window, external, entitled, knob>> /\ Answered(c)
  BY DEF ManifestDenied, autonomyVars
<1>2. violations' \in 0..MaxViolations
  BY MediationAssumption DEF MediationInv, MediationTypes, ManifestDenied
<1>3. QED
  BY <1>1, <1>2, Dismissed

(* A call passes a gate: it keeps its tool, its approval and what stood      *)
(* against it.                                                               *)
LEMMA PassesOn ==
  ASSUME MediationInv, NEW c \in Callers, NEW gate \in PastManifest, Pass(c, gate), gate # "slot",
         UNCHANGED <<grants, window, external, entitled, violations, knob>>,
         "stale" \notin mcall[c].stood,
         gate \in PastNarrow => ("external" \in mcall[c].stood => mcall[c].tool \in ReadOnly),
         gate \in {"plan", "execute"} =>
           ("paused" \in mcall[c].stood => mcall[c].tool \in ReadOnly \/ mcall[c].approved),
         gate = "execute" => "denied" \notin mcall[c].stood
  PROVE  MediationInv'
<1>1. PICK asked : asked = [mcall[c] EXCEPT !.at = gate]
  OBVIOUS
<1>2. mcall[c] \in MediatedCall /\ PassedSoundly(mcall[c])
  BY CallFacts
<1>3. /\ asked \in MediatedCall /\ asked.at = gate /\ asked.tool = mcall[c].tool
      /\ asked.approved = mcall[c].approved /\ asked.stood = mcall[c].stood
  BY <1>1, <1>2 DEF MediatedCall
<1>4. mcall' = [mcall EXCEPT ![c] = asked]
  BY <1>1 DEF Pass
<1>5. Standing' = Standing
  BY DEF Standing
<1>6. PassedSoundly(asked)'
  BY <1>2, <1>3, <1>5 DEF PassedSoundly, PastManifest
<1>7. external' \in BOOLEAN /\ entitled' \in BOOLEAN /\ violations' \in 0..MaxViolations
  BY CallFacts
<1>8. QED
  BY <1>3, <1>4, <1>5, <1>6, <1>7, OneMoves

LEMMA ManifestGateSafe ==
  ASSUME MediationInv, NEW c \in Callers, ManifestGate(c)
  PROVE  MediationInv'
<1>1. CASE ManifestDenied(c)
  BY <1>1, ManifestDeniedSafe
<1>2. CASE /\ grants.pinned = grants.current
           /\ Pass(c, "narrow") /\ UNCHANGED <<callVars, autonomyVars>>
  BY <1>2, CallFacts, PassesOn DEF callVars, autonomyVars, PassedSoundly, Standing,
     PastManifest, PastNarrow
<1>3. QED
  BY <1>1, <1>2 DEF ManifestGate

LEMMA NarrowGateSafe ==
  ASSUME MediationInv, NEW c \in Callers, NarrowGate(c)
  PROVE  MediationInv'
<1>1. CASE ManifestDenied(c)
  BY <1>1, ManifestDeniedSafe
<1>2. CASE /\ external => mcall[c].tool \in ReadOnly
           /\ Pass(c, "rate") \/ Answered(c)
           /\ UNCHANGED <<callVars, autonomyVars>>
  BY <1>2, CallFacts, Dismissed, PassesOn DEF callVars, autonomyVars, NarrowGate, On,
     PassedSoundly, PastManifest, Standing
<1>3. QED
  BY <1>1, <1>2 DEF NarrowGate

(* A call past the narrowing gate, with what held it there.                  *)
LEMMA PastNarrowing ==
  ASSUME MediationInv, NEW c \in Callers, mcall[c].at \in PastNarrow
  PROVE  /\ "stale" \notin mcall[c].stood
         /\ "external" \in mcall[c].stood => mcall[c].tool \in ReadOnly
BY CallFacts DEF PassedSoundly, PastNarrow

(* check_rate: a call under the limit has a slot coming, and is one of the   *)
(* callers.                                                                  *)
LEMMA RateGateSafe ==
  ASSUME MediationInv, NEW c \in Callers, RateGate(c)
  PROVE  MediationInv'
<1>1. /\ UNCHANGED <<grants, window, external, entitled, violations, knob>>
      /\ mcall[c].at = "rate"
  BY DEF RateGate, callVars, autonomyVars, On
<1>2. mcall[c].at \in PastNarrow /\ {"slot", "tier"} \subseteq PastNarrow
  BY <1>1 DEF PastNarrow, PastManifest
<1>3. CASE Answered(c)
  BY <1>1, <1>3, CallFacts, Dismissed
<1>4. CASE Pass(c, "tier")  BY <1>1, <1>2, <1>4, PastNarrowing, PassesOn DEF PastManifest
<1>5. CASE UnderLimit /\ Pass(c, "slot")
  BY <1>1, <1>2, <1>5, CallFacts, PastNarrowing, CallersCounted, MediationAssumption DEF
     MediatedCall, PastManifest, Pass, Standing, MediationInv, MediationTypes, PassedSoundly,
     GatesHeld, Slotted, UnderLimit, SlotsCounted
<1>6. QED
  BY <1>3, <1>4, <1>5 DEF RateGate

(* zadd: the slot that was coming is taken.                                  *)
LEMMA TakeSlotSafe ==
  ASSUME MediationInv, NEW c \in Callers, TakeSlot(c)
  PROVE  MediationInv'
<1>1. /\ UNCHANGED <<grants, external, entitled, violations, knob>>
      /\ mcall[c].at = "slot" /\ window' = window + 1 /\ Pass(c, "budget")
  BY DEF TakeSlot, autonomyVars, On
<1>2. PICK asked : asked = [mcall[c] EXCEPT !.at = "budget"]
  OBVIOUS
<1>3. mcall \in [Callers -> MediatedCall] /\ PassedSoundly(mcall[c]) /\ window \in Nat
  BY CallFacts DEF MediationInv, MediationTypes
<1>4. /\ asked \in MediatedCall /\ asked.at = "budget" /\ asked.tool = mcall[c].tool
      /\ asked.stood = mcall[c].stood
  BY <1>2, <1>3 DEF MediatedCall, PastManifest
<1>5. mcall' = [mcall EXCEPT ![c] = asked]
  BY <1>1, <1>2 DEF Pass
<1>6. mcall'[c] = asked /\ \A d \in Callers : d # c => mcall'[d] = mcall[d]
  BY <1>3, <1>5
<1>7. Standing' = Standing
  BY <1>1 DEF Standing
<1>8. MediationTypes'  BY <1>1, <1>3, <1>4, <1>5 DEF MediationInv, MediationTypes
<1>9. GatesHeld'
  BY <1>1, <1>3, <1>4, <1>6, <1>7, PastNarrowing DEF PastNarrow, PastManifest, PassedSoundly,
     MediationInv, GatesHeld
<1>10. SlotsCounted'
  <2>1. Slotted' = Slotted \ {c} /\ c \in Slotted /\ Slotted \subseteq Callers
    BY <1>1, <1>4, <1>6 DEF Slotted
  <2>2. IsFiniteSet(Slotted) /\ Cardinality(Slotted) \in Nat
    BY <2>1, CallersCounted
  <2>3. Cardinality(Slotted \ {c}) = Cardinality(Slotted) - 1
    BY <2>1, <2>2, FS_RemoveElement
  <2>4. Cardinality(Slotted') = Cardinality(Slotted) - 1
    BY <2>1, <2>3
  <2>5. window + Cardinality(Slotted) < CallsPerMin + Cardinality(Callers)
    BY DEF MediationInv, SlotsCounted
  <2>6. QED
    BY <1>1, <1>3, <2>2, <2>4, <2>5, CallersCounted, MediationAssumption DEF SlotsCounted
<1>11. QED
  BY <1>8, <1>9, <1>10 DEF MediationInv

LEMMA BudgetGateSafe ==
  ASSUME MediationInv, NEW c \in Callers, BudgetGate(c)
  PROVE  MediationInv'
<1>1. /\ UNCHANGED <<grants, window, external, entitled, violations, knob>>
      /\ mcall[c].at \in PastNarrow
  BY DEF BudgetGate, callVars, autonomyVars, On, PastNarrow, PastManifest
<1>2. CASE Answered(c)
  BY <1>1, <1>2, CallFacts, Dismissed
<1>3. CASE Pass(c, "tier")  BY <1>1, <1>3, PastNarrowing, PassesOn DEF PastManifest
<1>4. QED
  BY <1>2, <1>3 DEF BudgetGate

(* Under the owner's pause the tier of every call is at least review, so a   *)
(* call without an approval passes the gate only if its tool reads.          *)
LEMMA TierGateSafe ==
  ASSUME MediationInv, rules \subseteq Rules, NEW c \in Callers, TierGate(c)
  PROVE  MediationInv'
<1>1. /\ UNCHANGED <<grants, window, external, entitled, violations, knob>>
      /\ mcall[c].at \in PastNarrow
  BY DEF TierGate, callVars, autonomyVars, On, PastNarrow, PastManifest
<1>2. CASE Answered(c)
  BY <1>1, <1>2, CallFacts, Dismissed
<1>3. CASE /\ \/ mcall[c].tool \in ReadOnly \/ mcall[c].approved
              \/ EvaluateTool(rules, mcall[c].tool, PlainReply) < ReviewTier
           /\ Pass(c, "plan")
  BY <1>1, <1>3, CallFacts, EngineTakesHighest, PastNarrowing, PassesOn DEF PastManifest,
     PassedSoundly, Standing, AutonomyFloor, ReviewTier
<1>4. QED
  BY <1>2, <1>3 DEF TierGate

LEMMA PlanGateSafe ==
  ASSUME MediationInv, NEW c \in Callers, PlanGate(c)
  PROVE  MediationInv'
<1>1. /\ UNCHANGED <<grants, window, external, entitled, violations, knob>>
      /\ mcall[c].at = "plan"
  BY DEF PlanGate, callVars, autonomyVars, On
<1>2. CASE Answered(c)
  BY <1>1, <1>2, CallFacts, Dismissed
<1>3. CASE entitled /\ Pass(c, "execute")
  BY <1>1, <1>3, CallFacts, PastNarrowing, PassesOn DEF PastManifest, PastNarrow,
     PassedSoundly, Standing
<1>4. QED
  BY <1>2, <1>3 DEF PlanGate

LEMMA ExecuteSafe ==
  ASSUME MediationInv, NEW c \in Callers, Execute(c)
  PROVE  MediationInv'
<1>1. /\ UNCHANGED <<grants, window, external, entitled, violations, knob>>
      /\ mcall[c].at \in PastNarrow
  BY DEF Execute, autonomyVars, On, PastNarrow, PastManifest
<1>2. CASE Answered(c)
  BY <1>1, <1>2, CallFacts, Dismissed
<1>3. CASE Pass(c, "mark")  BY <1>1, <1>3, PastNarrowing, PassesOn DEF PastManifest
<1>4. QED
  BY <1>2, <1>3 DEF Execute

LEMMA MarkUntrustedSafe ==
  ASSUME MediationInv, NEW c \in Callers, MarkUntrusted(c)
  PROVE  MediationInv'
<1>1. /\ UNCHANGED <<grants, window, entitled, violations, knob>>
      /\ external' = TRUE /\ mcall' = [mcall EXCEPT ![c] = NoCall]
  BY DEF MarkUntrusted, autonomyVars, Answered
<1>2. Standing \subseteq Standing'
  BY <1>1 DEF Standing
<1>3. PassedSoundly(NoCall)' /\ NoCall \in MediatedCall /\ NoCall.at # "slot"
  BY NoCallSound DEF NoCall
<1>4. external' \in BOOLEAN /\ entitled' \in BOOLEAN /\ violations' \in 0..MaxViolations
  BY <1>1, CallFacts
<1>5. QED
  BY <1>1, <1>2, <1>3, <1>4, OneMoves

(* The oldest slot leaves the window.                                        *)
LEMMA SlideWindowSafe ==
  ASSUME MediationInv, SlideWindow
  PROVE  MediationInv'
<1>1. /\ UNCHANGED <<mcall, grants, external, entitled, violations, knob>>
      /\ window > 0 /\ window' = window - 1
  BY DEF SlideWindow, autonomyVars
<1>2. window \in Nat
  BY DEF MediationInv, MediationTypes
<1>3. MediationTypes'
  BY <1>1, <1>2 DEF MediationInv, MediationTypes
<1>4. GatesHeld'
  BY <1>1 DEF MediationInv, GatesHeld, PassedSoundly, Standing
<1>5. SlotsCounted'
  BY <1>1, <1>2, CallersCounted, MediationAssumption DEF Slotted, MediationInv, SlotsCounted
<1>6. QED
  BY <1>3, <1>4, <1>5 DEF MediationInv

(* A refusal that ends is lifted from every call it stood against, and one   *)
(* that begins stands against none of those under way.                       *)
LEMMA LiftedSound ==
  ASSUME MediationInv, NEW refusal \in Refusals,
         UNCHANGED <<window, violations>>,
         mcall' = mcall \/ Lift(refusal),
         \A c \in Callers : mcall'[c].stood \subseteq Standing',
         grants' \in [pinned : Nat, current : Nat], grants'.pinned <= grants'.current,
         external' \in BOOLEAN, entitled' \in BOOLEAN
  PROVE  MediationInv'
<1>1. mcall \in [Callers -> MediatedCall] /\ GatesHeld
  BY DEF MediationInv, MediationTypes
<1>2. ASSUME NEW c \in Callers
      PROVE  /\ mcall'[c] \in MediatedCall /\ mcall'[c].at = mcall[c].at
             /\ mcall'[c].tool = mcall[c].tool /\ mcall'[c].approved = mcall[c].approved
             /\ mcall'[c].stood \subseteq mcall[c].stood  BY <1>1 DEF Lift, MediatedCall
<1>3. mcall' \in [Callers -> MediatedCall]  BY <1>1, <1>2 DEF Lift
<1>4. MediationTypes'
  BY <1>3 DEF MediationInv, MediationTypes
<1>5. GatesHeld'  BY <1>1, <1>2 DEF GatesHeld, PassedSoundly
<1>6. SlotsCounted'  BY <1>2 DEF Slotted, MediationInv, SlotsCounted
<1>7. QED
  BY <1>4, <1>5, <1>6 DEF MediationInv

(* What stood against the calls under way is what stands.                    *)
LEMMA StoodStands ==
  ASSUME MediationInv, NEW c \in Callers
  PROVE  mcall[c].stood \subseteq Standing /\ mcall[c].stood \subseteq Refusals
BY CallFacts DEF PassedSoundly, MediatedCall

LEMMA LiftDoes ==
  ASSUME MediationInv, NEW refusal, Lift(refusal), NEW c \in Callers
  PROVE  mcall'[c].stood \subseteq Standing \ {refusal}
<1>1. mcall'[c] = [mcall[c] EXCEPT !.stood = @ \ {refusal}]
  BY DEF Lift
<1>2. mcall[c] \in MediatedCall /\ mcall[c].stood \subseteq Standing
  BY CallFacts DEF PassedSoundly
<1>3. mcall'[c].stood = mcall[c].stood \ {refusal}
  BY <1>1, <1>2 DEF MediatedCall
<1>4. QED
  BY <1>2, <1>3

LEMMA ClearUntrustedSafe ==
  ASSUME MediationInv, ClearUntrusted
  PROVE  MediationInv'
<1>1. /\ UNCHANGED <<grants, window, entitled, violations, knob>>
      /\ external' = FALSE /\ Lift("external")
  BY DEF ClearUntrusted, autonomyVars
<1>2. Standing \ {"external"} \subseteq Standing'
  BY <1>1 DEF Standing
<1>3. \A c \in Callers : mcall'[c].stood \subseteq Standing'
  BY <1>1, <1>2, LiftDoes
<1>4. /\ grants' \in [pinned : Nat, current : Nat] /\ grants'.pinned <= grants'.current
      /\ external' \in BOOLEAN /\ entitled' \in BOOLEAN
  BY <1>1 DEF MediationInv, MediationTypes
<1>5. "external" \in Refusals
  BY DEF Refusals
<1>6. QED
  BY <1>1, <1>3, <1>4, <1>5, LiftedSound

LEMMA SwitchPlanSafe ==
  ASSUME MediationInv, SwitchPlan
  PROVE  MediationInv'
<1>1. /\ UNCHANGED <<grants, external, window, violations, knob>>
      /\ entitled' = ~entitled
      /\ IF entitled THEN UNCHANGED mcall ELSE Lift("denied")
  BY DEF SwitchPlan, autonomyVars
<1>2. \A c \in Callers : mcall'[c].stood \subseteq Standing'
  BY <1>1, StoodStands, LiftDoes DEF Standing
<1>3. /\ grants' \in [pinned : Nat, current : Nat] /\ grants'.pinned <= grants'.current
      /\ external' \in BOOLEAN /\ entitled' \in BOOLEAN
  BY <1>1 DEF MediationInv, MediationTypes
<1>4. "denied" \in Refusals /\ (mcall' = mcall \/ Lift("denied"))
  BY <1>1 DEF Refusals
<1>5. QED
  BY <1>1, <1>2, <1>3, <1>4, LiftedSound

(* The other settings of the owner leave the pause as it is.                 *)
LEMMA OwnerPausesSafe ==
  ASSUME MediationInv, knob \in KnobSetting, OwnerPauses
  PROVE  MediationInv'
<1>1. /\ UNCHANGED <<grants, external, entitled, window, violations>>
      /\ knob'.paused # knob.paused
      /\ IF knob.paused THEN Lift("paused") ELSE UNCHANGED mcall
  BY DEF OwnerPauses, callVars
<1>2. knob'.paused = ~knob.paused  BY <1>1 DEF KnobSetting, OwnerPauses, TurnKnob
<1>3. \A c \in Callers : mcall'[c].stood \subseteq Standing'
  BY <1>1, <1>2, LiftDoes, StoodStands DEF Standing
<1>4. /\ grants' \in [pinned : Nat, current : Nat] /\ grants'.pinned <= grants'.current
      /\ external' \in BOOLEAN /\ entitled' \in BOOLEAN
  BY <1>1 DEF MediationInv, MediationTypes
<1>5. "paused" \in Refusals /\ (mcall' = mcall \/ Lift("paused"))
  BY <1>1 DEF Refusals
<1>6. QED
  BY <1>1, <1>3, <1>4, <1>5, LiftedSound

(* A new manifest stands against the calls to come; the run that starts on   *)
(* it has no call under way.                                                 *)
LEMMA RecompileGrantsSafe ==
  ASSUME MediationInv, RecompileGrants
  PROVE  MediationInv'
<1>1. UNCHANGED <<mcall, window, external, entitled, violations, knob>>
  BY DEF RecompileGrants, autonomyVars
<1>2. grants \in [pinned : Nat, current : Nat] /\ grants.pinned <= grants.current
  BY DEF MediationInv, MediationTypes
<1>3. CASE grants' = [grants EXCEPT !.current = @ + 1]
  BY <1>1, <1>2, <1>3, StoodStands, LiftedSound DEF Standing, Refusals, MediationInv,
     MediationTypes
<1>4. CASE /\ \A c \in Callers : On(c, "idle")
           /\ grants' = [grants EXCEPT !.pinned = grants.current]
  BY <1>1, <1>2, <1>4, CallFacts, LiftedSound DEF PassedSoundly, On, Refusals, MediationInv,
     MediationTypes
<1>5. QED
  BY <1>3, <1>4 DEF RecompileGrants

LEMMA MediationSteps ==
  MediationInv /\ AutonomyInv /\ MediationNext => MediationInv'
<1> SUFFICES ASSUME MediationInv, AutonomyInv, MediationNext PROVE MediationInv'
  OBVIOUS
<1>1. rules \subseteq Rules /\ knob \in KnobSetting
  BY DEF AutonomyInv, AutonomyTypes
<1>2. ASSUME NEW c \in Callers,
             \/ BeginCall(c) \/ ManifestGate(c) \/ NarrowGate(c) \/ RateGate(c) \/ TakeSlot(c)
             \/ BudgetGate(c) \/ TierGate(c) \/ PlanGate(c) \/ Execute(c) \/ MarkUntrusted(c)
      PROVE  MediationInv'
  BY <1>1, <1>2, BeginCallSafe, ManifestGateSafe, NarrowGateSafe, RateGateSafe, TakeSlotSafe,
     BudgetGateSafe, TierGateSafe, PlanGateSafe, ExecuteSafe, MarkUntrustedSafe
<1>3. CASE SlideWindow
  BY <1>3, SlideWindowSafe
<1>4. CASE ClearUntrusted
  BY <1>4, ClearUntrustedSafe
<1>5. CASE RecompileGrants
  BY <1>5, RecompileGrantsSafe
<1>6. CASE SwitchPlan
  BY <1>6, SwitchPlanSafe
<1>7. CASE OwnerPauses
  BY <1>1, <1>7, OwnerPausesSafe
<1>8. QED
  BY <1>2, <1>3, <1>4, <1>5, <1>6, <1>7 DEF MediationNext

(* Of the autonomy settings a call's chain changes only the owner's knob.    *)
LEMMA MediationTurnsKnob == MediationNext => [AutonomyNext]_autonomyVars
BY DEF MediationNext, AutonomyNext, BeginCall, ManifestGate, ManifestDenied, NarrowGate,
       RateGate, TakeSlot, BudgetGate, TierGate, PlanGate, Execute, MarkUntrusted,
       SlideWindow, ClearUntrusted, RecompileGrants, SwitchPlan, OwnerPauses

LEMMA MediationInvShows ==
  MediationInv => MediationTypeOK /\ StandingRefusalHolds /\ RateExcessBounded
<1> SUFFICES ASSUME MediationInv
             PROVE  MediationTypeOK /\ StandingRefusalHolds /\ RateExcessBounded
  OBVIOUS
<1>1. MediationTypeOK
  BY DEF MediationInv, MediationTypes, MediationTypeOK, MediatedCall
<1>2. StandingRefusalHolds
  BY DEF MediationInv, GatesHeld, PassedSoundly, StandingRefusalHolds, On, PastNarrow, PastManifest
<1>3. RateExcessBounded
  BY CallersCounted, MediationAssumption DEF Slotted, MediationInv, MediationTypes,
     SlotsCounted, RateExcessBounded
<1>4. QED
  BY <1>1, <1>2, <1>3

(***************************************************************************)
(* Model routing                                                           *)
(***************************************************************************)
Guarding == {"tenant", "scopes", "instance"}
Whereabouts == InTurn \cup Resting \cup Guarding \cup {"turn", "answered"}
Guards == {"active", "pack", "instance", "all", "marketing"}
CostRow == [delivery : Nat, turn : 1..TurnsPerRun, attempt : Nat, link : Links,
            outcome : {"ok", "transient", "config", "holding"}]
HandlingState ==
  [at : Whereabouts, class : {"transactional", "marketing"}, delivery : Nat,
   turn : 0..TurnsPerRun, chain : Seq(Links), link : Nat,
   outcome : {"ok", "transient", "config", "holding"}, standing : SUBSET Guards,
   owed : Links \cup {NoLink}, cut : SUBSET CostRow]

RoutingTypes ==
  /\ store \in [active : BOOLEAN, pack : BOOLEAN, instance : BOOLEAN,
                scopes : SUBSET {"all", "marketing"}]
  /\ routes \in [override : [TunableNodes -> Links \cup {NoLink}], seeded : SeededChains]
  /\ usable \subseteq Links /\ costs \subseteq CostRow /\ changes \in 0..MaxRouteChanges
  /\ \A row \in opsAlerts : row.link \in Links \cup {NoLink}
  /\ handling \in HandlingState

(* A handling has a chain from its first turn on, and a link of it in hand.  *)
ChainInHand ==
  /\ handling.link \in 1..(Len(handling.chain) + 1)
  /\ handling.chain # << >> => handling.link <= Len(handling.chain)
  /\ handling.at \in Guarding =>
       handling.chain = << >> /\ handling.turn = 0 /\ handling.owed = NoLink
  /\ handling.at = "turn" => handling.turn < TurnsPerRun
  /\ handling.at \in InTurn \cup {"answered", "replied"} =>
       handling.turn > 0 /\ handling.chain # << >>
  /\ handling.at = "log" => handling.outcome # "holding"
  /\ handling.at \in {"alert", "down"} => handling.outcome \in {"transient", "config"}
  /\ handling.at = "down" => handling.link = Len(handling.chain)

(* What has stood since the delivery stands now, and the guards the message  *)
(* has passed did not let it through against that.                           *)
Past(guard) == handling.chain # << >> \/ handling.at \in guard
GuardsPassed ==
  /\ handling.standing \subseteq RefusalsOf(store)
  /\ Past({"scopes", "instance", "turn"}) => {"active", "pack"} \cap handling.standing = {}
  /\ Past({"instance", "turn"}) =>
       /\ "all" \notin handling.standing
       /\ handling.class = "marketing" => "marketing" \notin handling.standing
  /\ Past({"turn"}) => "instance" \notin handling.standing

(* The rows of the delivery follow its chain; those of the turn are the      *)
(* attempts up to the link in hand, all of which failed but the one that     *)
(* answered.                                                                 *)
Mine == {row \in costs : row.delivery = handling.delivery /\ row.turn = handling.turn}
LoggedTo(n) == (\A row \in Mine : row.attempt \in 1..n)
               /\ \A k \in 1..n : \E row \in Mine : row.attempt = k
NoneAnswered == \A row \in Mine : row.outcome # "ok"
Down == \E a \in opsAlerts : a.outcome = "down" /\ a.delivery = handling.delivery
                             /\ a.turn = handling.turn
RowsFollow ==
  \A row \in costs :
    /\ row.delivery <= handling.delivery
    /\ row.delivery = handling.delivery =>
         /\ row.turn <= handling.turn /\ row.attempt \in 1..Len(handling.chain)
         /\ row.link = handling.chain[row.attempt]
TurnLogged ==
  /\ handling.at \in {"attempt", "log"} => LoggedTo(handling.link - 1) /\ NoneAnswered
  /\ handling.at \in {"alert", "down"} => LoggedTo(handling.link) /\ NoneAnswered
  /\ handling.at \in {"answered", "replied"} =>
       /\ LoggedTo(handling.link)
       /\ \A row \in Mine :
            (row.outcome = "ok") <=> (row.attempt = handling.link /\ handling.outcome = "ok")
       /\ handling.outcome = "holding" => handling.link = Len(handling.chain) /\ Down

(* The override a run was promised is the one that stands until its first    *)
(* turn, and its chain from then on.                                         *)
RouteKept ==
  handling.owed # NoLink =>
    IF handling.chain = << >> THEN routes.override["default"] = handling.owed
    ELSE handling.chain = <<handling.owed>>

RoutingInv ==
  /\ RoutingTypes /\ ChainInHand /\ GuardsPassed /\ RowsFollow /\ TurnLogged
  /\ MisconfigurationSeen /\ RouteKept

LEMMA RouteFound == RoutingTypes => /\ LookUp \in Seq(Links) /\ LookUp # << >>
                                    /\ routes.override["default"] # NoLink =>
                                         LookUp = <<routes.override["default"]>>
<1> SUFFICES ASSUME RoutingTypes
             PROVE  /\ LookUp \in Seq(Links) /\ LookUp # << >>
                    /\ routes.override["default"] # NoLink =>
                         LookUp = <<routes.override["default"]>>
  OBVIOUS
<1>1. /\ routes.override["default"] \in Links \cup {NoLink}
      /\ routes.seeded \in Seq(Links)
  BY RoutingAssumption DEF RoutingTypes, TunableNodes
<1>2. Overridden = IF routes.override["default"] # NoLink THEN {2} ELSE {}
  BY DEF Overridden, Lookups, TunableNodes
<1>3. CASE routes.override["default"] # NoLink
  BY <1>1, <1>2, <1>3 DEF FirstFound, Lookups, LookUp
<1>4. CASE routes.override["default"] = NoLink
  BY <1>1, <1>2, <1>4, RoutingAssumption DEF LookUp
<1>5. QED
  BY <1>3, <1>4

LEMMA RoutingStarts == RoutingInit => RoutingInv
<1> SUFFICES ASSUME RoutingInit PROVE RoutingInv
  OBVIOUS
<1>1. Waiting \in HandlingState /\ handling = Waiting
  BY RoutingAssumption DEF RoutingInit, Waiting, HandlingState, Whereabouts, Resting
<1>2. RoutingTypes  BY <1>1, RoutingAssumption DEF RoutingInit, RoutingTypes
<1>3. /\ handling.at = "waiting" /\ handling.chain = << >> /\ handling.link = 1
      /\ handling.standing = {} /\ handling.owed = NoLink /\ costs = {}
  BY <1>1 DEF Waiting, RoutingInit
<1>4. QED
  BY <1>2, <1>3 DEF RoutingInv, ChainInHand, GuardsPassed, Past, RowsFollow, TurnLogged,
     MisconfigurationSeen, RouteKept, Guarding, InTurn

(* The alerts and the cuts only grow, and a broken attempt in hand is        *)
(* alerted, cut, or still in hand.                                           *)
LEMMA SeenStays ==
  ASSUME MisconfigurationSeen, costs' = costs, opsAlerts \subseteq opsAlerts',
         handling.cut \subseteq handling'.cut,
         handling.at = "alert" => \/ Row \in opsAlerts' \cup handling'.cut
                                  \/ handling'.at = "alert" /\ Row' = Row
  PROVE  MisconfigurationSeen'
<1> SUFFICES ASSUME NEW row \in costs, row.outcome = "config"
             PROVE  \/ row \in opsAlerts' \cup handling'.cut
                    \/ handling'.at = "alert" /\ row = Row'
  BY DEF MisconfigurationSeen
<1>1. CASE handling.at = "alert" /\ row = Row
  BY <1>1
<1>2. CASE row \in opsAlerts \cup handling.cut
  BY <1>2
<1>3. QED
  BY <1>1, <1>2 DEF MisconfigurationSeen

(* The world changes around a handling, and leaves its place, its chain and  *)
(* its rows alone.                                                           *)
LEMMA AroundHandling ==
  ASSUME RoutingInv, RoutingTypes', UNCHANGED <<costs, opsAlerts>>,
         handling'.at = handling.at, handling'.class = handling.class,
         handling'.delivery = handling.delivery, handling'.turn = handling.turn,
         handling'.chain = handling.chain, handling'.link = handling.link,
         handling'.outcome = handling.outcome, handling'.cut = handling.cut,
         handling'.standing \subseteq handling.standing,
         handling'.standing \subseteq RefusalsOf(store)',
         handling'.owed \in {handling.owed, NoLink}, RouteKept'
  PROVE  RoutingInv'
<1>1. ChainInHand' /\ GuardsPassed' /\ RowsFollow'
  BY DEF RoutingInv, ChainInHand, GuardsPassed, Past, RowsFollow, Mine
<1>2. /\ Mine' = Mine /\ (Down <=> Down') /\ Row' = Row
  BY DEF Mine, Down, Row, Link
<1>3. TurnLogged'
  BY <1>2 DEF RoutingInv, TurnLogged, LoggedTo, NoneAnswered
<1>4. MisconfigurationSeen'
  BY <1>2, SeenStays DEF RoutingInv
<1>5. QED
  BY <1>1, <1>3, <1>4 DEF RoutingInv

LEMMA WorldChanges ==
  ASSUME RoutingInv,
         \/ StoreChanges \/ \E n \in TunableNodes, l \in Links \cup {NoLink} : OverrideModel(n, l)
         \/ \E l \in Links : LinkChanges(l)
  PROVE  RoutingInv'
<1>1. /\ RoutingTypes /\ handling \in HandlingState /\ changes \in 0..MaxRouteChanges
      /\ handling.standing \subseteq RefusalsOf(store) /\ RouteKept
  BY DEF RoutingInv, RoutingTypes, GuardsPassed
<1>2. Change => changes' \in 0..MaxRouteChanges /\ UNCHANGED <<costs, opsAlerts>>
  BY <1>1, RoutingAssumption DEF Change
<1>3. CASE StoreChanges
  <2>1. store' \in [active : BOOLEAN, pack : BOOLEAN, instance : BOOLEAN,
                    scopes : SUBSET {"all", "marketing"}]
    <3>1. store \in [active : BOOLEAN, pack : BOOLEAN, instance : BOOLEAN,
                     scopes : SUBSET {"all", "marketing"}]
      BY <1>1 DEF RoutingTypes
    <3>2. (~store.active) \in BOOLEAN /\ (~store.pack) \in BOOLEAN /\ (~store.instance) \in BOOLEAN
      OBVIOUS
    <3>3. QED
      BY <1>3, <3>1, <3>2 DEF StoreChanges
  <2>2. handling' = [handling EXCEPT !.standing = handling.standing \cap RefusalsOf(store')]
    BY <1>3 DEF StoreChanges
  <2>3. /\ handling' \in HandlingState
        /\ handling'.at = handling.at /\ handling'.class = handling.class
        /\ handling'.delivery = handling.delivery /\ handling'.turn = handling.turn
        /\ handling'.chain = handling.chain /\ handling'.link = handling.link
        /\ handling'.outcome = handling.outcome /\ handling'.cut = handling.cut
        /\ handling'.owed = handling.owed
        /\ handling'.standing = handling.standing \cap RefusalsOf(store')
    BY <1>1, <2>2 DEF HandlingState
  <2>4. RoutingTypes' /\ RouteKept'
    BY <1>1, <1>2, <1>3, <2>1, <2>3 DEF StoreChanges, RoutingTypes, RouteKept
  <2>5. RefusalsOf(store)' = RefusalsOf(store')
    BY DEF RefusalsOf
  <2>6. QED
    BY <1>2, <1>3, <2>3, <2>4, <2>5, AroundHandling DEF StoreChanges
<1>4. ASSUME NEW n \in TunableNodes, NEW l \in Links \cup {NoLink}, OverrideModel(n, l)
      PROVE  RoutingInv'
  BY <1>1, <1>2, <1>4, AroundHandling DEF OverrideModel, RoutingTypes, TunableNodes,
     HandlingState, RouteKept, RefusalsOf
<1>5. ASSUME NEW l \in Links, LinkChanges(l) PROVE RoutingInv'
  BY <1>1, <1>2, <1>5, AroundHandling DEF LinkChanges, RoutingTypes, RouteKept, RefusalsOf
<1>6. QED
  BY <1>3, <1>4, <1>5

(* A step of the planner that leaves the rows alone.                         *)
LEMMA OnlyHandling ==
  ASSUME RoutingInv, PlannerKeeps, handling' \in HandlingState
  PROVE  /\ RoutingTypes' /\ RefusalsOf(store)' = RefusalsOf(store)
         /\ handling.at # "alert" /\ handling.cut \subseteq handling'.cut => MisconfigurationSeen'
         /\ handling'.delivery = handling.delivery /\ handling'.turn = handling.turn =>
              Mine' = Mine /\ (Down <=> Down')
BY SeenStays DEF RoutingInv, RoutingTypes, PlannerKeeps, RefusalsOf, Mine, Down

LEMMA GuardSteps ==
  ASSUME RoutingInv, Deliver \/ CheckTenant \/ CheckSuppression \/ StartRun
  PROVE  RoutingInv'
<1>1. /\ handling \in HandlingState /\ ChainInHand /\ GuardsPassed /\ RowsFollow /\ RouteKept
      /\ store \in [active : BOOLEAN, pack : BOOLEAN, instance : BOOLEAN,
                    scopes : SUBSET {"all", "marketing"}]
      /\ routes.override["default"] \in Links \cup {NoLink}
      /\ PlannerKeeps /\ handling.at # "alert"
  BY DEF RoutingInv, RoutingTypes, TunableNodes, Deliver, CheckTenant, CheckSuppression, StartRun
<1>2. CASE Deliver
  <2>1. Waiting \in HandlingState
    BY RoutingAssumption DEF Waiting, HandlingState, Whereabouts, Resting
  <2>2. RefusalsOf(store) \in SUBSET Guards
    BY <1>1 DEF RefusalsOf, Guards
  <2>3. /\ handling' \in HandlingState /\ handling'.at = "tenant" /\ handling'.chain = << >>
        /\ handling'.turn = 0 /\ handling'.owed = NoLink /\ handling'.link = 1
        /\ handling'.standing = RefusalsOf(store) /\ handling'.cut = handling.cut
        /\ handling'.delivery = handling.delivery + 1
    <3>1. handling.delivery + 1 \in Nat /\ handling.cut \in SUBSET CostRow
          /\ "tenant" \in Whereabouts
      BY <1>1 DEF HandlingState, Whereabouts, Guarding
    <3>2. handling' = [Waiting EXCEPT !.at = "tenant", !.delivery = handling.delivery + 1,
                                      !.standing = RefusalsOf(store), !.cut = handling.cut]
      BY <1>2 DEF Deliver
    <3>3. Waiting.chain = << >> /\ Waiting.turn = 0 /\ Waiting.owed = NoLink /\ Waiting.link = 1
      BY DEF Waiting
    <3>4. QED
      BY <2>1, <2>2, <3>1, <3>2, <3>3 DEF HandlingState
  <2>4. RoutingTypes' /\ MisconfigurationSeen' /\ RefusalsOf(store)' = RefusalsOf(store)
    BY <1>1, <2>3, OnlyHandling
  <2>5. ASSUME NEW row \in costs
        PROVE  row.delivery \in Nat /\ row.delivery <= handling.delivery
    BY <1>1 DEF RoutingInv, RoutingTypes, RowsFollow, CostRow
  <2>6. handling.delivery \in Nat
    BY <1>1 DEF HandlingState
  <2>7. RowsFollow'
    BY <1>1, <2>3, <2>5, <2>6 DEF RowsFollow, PlannerKeeps
  <2>8. ChainInHand' /\ GuardsPassed' /\ TurnLogged' /\ RouteKept'
    BY <2>3, <2>4 DEF ChainInHand, GuardsPassed, Past, TurnLogged, RouteKept, InTurn, Guarding
  <2>9. QED
    BY <2>4, <2>7, <2>8 DEF RoutingInv
<1>3. CASE CheckTenant \/ CheckSuppression \/ StartRun
  <2>1. /\ handling' \in HandlingState /\ handling'.chain = handling.chain
        /\ handling'.turn = handling.turn /\ handling'.link = handling.link
        /\ handling'.standing = handling.standing /\ handling'.cut = handling.cut
        /\ handling'.delivery = handling.delivery
        /\ \/ handling'.at = "dropped"
           \/ /\ handling.at = "tenant" /\ handling'.at = "scopes" /\ store.active /\ store.pack
              /\ handling'.owed = handling.owed
           \/ /\ handling.at = "scopes" /\ handling'.at = "instance"
              /\ ~SuppressionBlocks(store.scopes, handling.class)
              /\ handling'.owed = handling.owed /\ handling'.class = handling.class
           \/ /\ handling.at = "instance" /\ handling'.at = "turn" /\ store.instance
              /\ handling'.owed = routes.override["default"] /\ handling'.class = handling.class
        /\ handling'.owed \in {handling.owed, routes.override["default"]}
    <3>1. CASE CheckTenant
      BY ZenonT(60), <1>1, <3>1 DEF CheckTenant, HandlingState, Whereabouts, Guarding, Resting
    <3>2. CASE CheckSuppression
      BY <1>1, <3>2 DEF CheckSuppression, Step, HandlingState, Whereabouts, Guarding, Resting
    <3>3. CASE StartRun
      BY <1>1, <3>3 DEF StartRun, HandlingState, Whereabouts, Guarding, Resting
    <3>4. QED
      BY <1>3, <3>1, <3>2, <3>3
  <2>2. /\ handling.at \in Guarding /\ handling.chain = << >> /\ handling.turn = 0
        /\ handling.owed = NoLink
    BY <1>1, <1>3 DEF CheckTenant, CheckSuppression, StartRun, Guarding, ChainInHand
  <2>3. RoutingTypes' /\ MisconfigurationSeen' /\ RefusalsOf(store)' = RefusalsOf(store)
    BY <1>1, <2>1, OnlyHandling
  <2>4. /\ store.active => "active" \notin RefusalsOf(store)
        /\ store.pack => "pack" \notin RefusalsOf(store)
        /\ store.instance => "instance" \notin RefusalsOf(store)
        /\ ~SuppressionBlocks(store.scopes, handling.class) =>
             /\ "all" \notin RefusalsOf(store)
             /\ handling.class = "marketing" => "marketing" \notin RefusalsOf(store)
    BY <1>1 DEF RefusalsOf, SuppressionBlocks
  <2>5. GuardsPassed'
    BY <1>1, <2>1, <2>2, <2>3, <2>4 DEF GuardsPassed, Past
  <2>6. RowsFollow'
    BY <1>1, <2>1 DEF RowsFollow, PlannerKeeps
  <2>7. handling'.turn < TurnsPerRun
    BY <2>1, <2>2, RoutingAssumption
  <2>8. ChainInHand' /\ TurnLogged' /\ RouteKept'
    BY <1>1, <2>1, <2>2, <2>7 DEF ChainInHand, TurnLogged, RouteKept, InTurn, Guarding, PlannerKeeps
  <2>9. QED
    BY <2>3, <2>5, <2>6, <2>8 DEF RoutingInv
<1>4. QED
  BY <1>2, <1>3

(* The turn is routed (_route) with the rows of no attempt of it yet.        *)
LEMMA TurnSteps ==
  ASSUME RoutingInv, RouteTurn \/ Attempt \/ EndTurn
  PROVE  RoutingInv'
<1>1. /\ handling \in HandlingState /\ ChainInHand /\ GuardsPassed /\ RowsFollow /\ RouteKept
      /\ RoutingTypes /\ TurnLogged /\ PlannerKeeps /\ handling.at # "alert"
  BY DEF RoutingInv, RoutingTypes, RouteTurn, Attempt, EndTurn
<1>2. CASE RouteTurn
  <2>1. handling.turn < TurnsPerRun /\ handling.turn \in Nat /\ handling.chain \in Seq(Links)
        /\ handling.at = "turn"
    BY <1>1, <1>2, RoutingAssumption DEF RouteTurn, ChainInHand, HandlingState
  <2>2. PICK links \in Seq(Links) :
          /\ links = IF handling.chain = << >> THEN LookUp ELSE handling.chain
          /\ links # << >>
    BY <1>1, <2>1, RouteFound
  <2>3. handling' = [handling EXCEPT !.at = "attempt", !.turn = handling.turn + 1, !.link = 1,
                                     !.chain = links]
    BY <1>2, <2>2 DEF RouteTurn
  <2>4. /\ handling' \in HandlingState /\ handling'.at = "attempt" /\ handling'.chain = links
        /\ handling'.turn = handling.turn + 1 /\ handling'.link = 1
        /\ handling'.standing = handling.standing /\ handling'.cut = handling.cut
        /\ handling'.delivery = handling.delivery /\ handling'.owed = handling.owed
        /\ handling'.class = handling.class
    <3>1. handling.turn + 1 \in 0..TurnsPerRun /\ "attempt" \in Whereabouts
      BY <2>1, RoutingAssumption DEF Whereabouts, InTurn
    <3>2. QED
      BY <1>1, <2>3, <3>1 DEF HandlingState
  <2>5. RoutingTypes' /\ MisconfigurationSeen' /\ RefusalsOf(store)' = RefusalsOf(store)
    BY <1>1, <2>4, OnlyHandling
  <2>6. GuardsPassed'
    BY <1>1, <2>1, <2>4, <2>5 DEF GuardsPassed, Past
  <2>7. Len(links) \in Nat \ {0}
    BY <2>2
  <2>8. ChainInHand'
    BY <2>1, <2>2, <2>4, <2>7 DEF ChainInHand, InTurn, Guarding
  <2>9. RowsFollow' /\ Mine' = {}
    BY <1>1, <2>1, <2>2, <2>4 DEF RowsFollow, RoutingTypes, CostRow, PlannerKeeps, Mine
  <2>10. TurnLogged'
    BY <2>4, <2>9 DEF TurnLogged, LoggedTo, NoneAnswered
  <2>11. RouteKept'
    BY <1>1, <2>2, <2>4, RouteFound DEF RoutingTypes, TunableNodes, RouteKept, PlannerKeeps
  <2>12. QED
    BY <2>5, <2>6, <2>8, <2>9, <2>10, <2>11 DEF RoutingInv
<1>3. CASE Attempt \/ EndTurn
  <2>1. /\ handling' \in HandlingState
        /\ handling'.chain = handling.chain /\ handling'.turn = handling.turn
        /\ handling'.link = handling.link /\ handling'.standing = handling.standing
        /\ handling'.cut = handling.cut /\ handling'.delivery = handling.delivery
        /\ handling'.owed = handling.owed /\ handling'.class = handling.class
        /\ \/ handling.at = "attempt" /\ handling'.at = "log" /\ handling'.outcome # "holding"
           \/ /\ handling.at = "answered" /\ handling'.outcome = handling.outcome
              /\ \/ handling'.at = "replied"
                 \/ handling'.at = "turn" /\ handling.turn < TurnsPerRun
    <3>1. CASE Attempt
      <4>1. handling \in HandlingState
        BY <1>1
      <4>2. PICK outcome \in {"ok", "transient", "config"} :
              handling' = [handling EXCEPT !.at = "log", !.outcome = outcome]
        BY <3>1 DEF Attempt
      <4>3. "log" \in Whereabouts
        BY DEF Whereabouts, InTurn
      <4>4. handling' \in HandlingState
        BY <4>1, <4>2, <4>3 DEF HandlingState
      <4>5. DOMAIN handling = {"at", "class", "delivery", "turn", "chain", "link", "outcome",
                               "standing", "owed", "cut"}
        BY <4>1 DEF HandlingState
      <4>6. handling.at = "attempt" /\ handling'.at = "log" /\ handling'.outcome = outcome
        BY <3>1, <4>2, <4>5 DEF Attempt
      <4>7. QED
        BY <4>2, <4>4, <4>5, <4>6
    <3>2. CASE EndTurn
      BY <1>1, <3>2 DEF EndTurn, Step, HandlingState, Whereabouts, Resting
    <3>3. QED
      BY <1>3, <3>1, <3>2
  <2>2. RoutingTypes' /\ MisconfigurationSeen' /\ RefusalsOf(store)' = RefusalsOf(store)
        /\ Mine' = Mine /\ (Down <=> Down')
    BY <1>1, <2>1, OnlyHandling
  <2>3. handling.chain # << >>
    BY <1>1, <2>1 DEF ChainInHand, InTurn
  <2>4. GuardsPassed' /\ ChainInHand'
    BY <1>1, <2>1, <2>2, <2>3 DEF GuardsPassed, Past, ChainInHand, InTurn, Guarding
  <2>5. RowsFollow' /\ RouteKept'
    BY <1>1, <2>1 DEF RowsFollow, RouteKept, PlannerKeeps
  <2>6. TurnLogged'
    BY <1>1, <2>1, <2>2 DEF TurnLogged, LoggedTo, NoneAnswered
  <2>7. QED
    BY <2>2, <2>4, <2>5, <2>6 DEF RoutingInv
<1>4. QED
  BY <1>2, <1>3

(* What the attempt in hand is told by.                                      *)
LEMMA RowInHand ==
  ASSUME RoutingInv, handling.at \in InTurn
  PROVE  /\ Row \in CostRow /\ Row.delivery = handling.delivery /\ Row.turn = handling.turn
         /\ Row.attempt = handling.link /\ Row.outcome = handling.outcome
         /\ Row.link = handling.chain[handling.link]
         /\ handling.link \in 1..Len(handling.chain) /\ handling.chain \in Seq(Links)
<1>1. /\ handling.delivery \in Nat /\ handling.turn \in 1..TurnsPerRun
      /\ handling.chain \in Seq(Links) /\ handling.chain # << >>
      /\ handling.outcome \in {"ok", "transient", "config", "holding"}
  BY RoutingAssumption DEF RoutingInv, RoutingTypes, HandlingState, ChainInHand
<1>2. handling.link \in 1..Len(handling.chain)
  BY <1>1 DEF RoutingInv, ChainInHand
<1>3. Link \in Links /\ Link = handling.chain[handling.link]
  BY <1>1, <1>2 DEF Link
<1>4. QED
  BY <1>1, <1>2, <1>3 DEF Row, CostRow

(* A failed attempt falls back to the next link, or the chain is done.       *)
LEMMA FallsBack ==
  ASSUME RoutingInv, handling.at \in {"log", "alert"}
  PROVE  /\ Onward \in HandlingState /\ Onward.chain = handling.chain
         /\ Onward.turn = handling.turn /\ Onward.standing = handling.standing
         /\ Onward.cut = handling.cut /\ Onward.delivery = handling.delivery
         /\ Onward.owed = handling.owed /\ Onward.class = handling.class
         /\ Onward.outcome = handling.outcome
         /\ \/ /\ Onward.at = "attempt" /\ Onward.link = handling.link + 1
               /\ handling.link < Len(handling.chain)
            \/ /\ Onward.at = "down" /\ Onward.link = handling.link
               /\ handling.link = Len(handling.chain)
<1>1. handling \in HandlingState /\ handling.link \in 1..Len(handling.chain)
  BY RowInHand DEF RoutingInv, RoutingTypes, InTurn
<1>2. handling.link + 1 \in Nat /\ {"attempt", "down"} \subseteq Whereabouts
  BY <1>1 DEF Whereabouts, InTurn
<1>3. Len(handling.chain) \in Nat
  BY RowInHand DEF InTurn
<1>4. CASE handling.link < Len(handling.chain)  BY <1>1, <1>2, <1>4 DEF Onward, HandlingState
<1>5. CASE handling.link = Len(handling.chain)
  BY <1>1, <1>2, <1>3, <1>5 DEF Onward, HandlingState
<1>6. QED
  BY <1>1, <1>3, <1>4, <1>5

(* An attempt leaves its row, and alerts that the route is broken.           *)
LEMMA LogSteps ==
  ASSUME RoutingInv, LogAttempt \/ AlertMisconfigured
  PROVE  RoutingInv'
<1>1. /\ handling \in HandlingState /\ ChainInHand /\ GuardsPassed /\ RowsFollow /\ RouteKept
      /\ RoutingTypes /\ TurnLogged /\ MisconfigurationSeen /\ handling.at \in InTurn
      /\ handling.at \in {"log", "alert"} /\ UNCHANGED <<store, routes, usable, changes>>
  BY DEF RoutingInv, RoutingTypes, LogAttempt, AlertMisconfigured, InTurn
<1>2. PICK row \in CostRow :
        /\ row = Row /\ row.delivery = handling.delivery /\ row.turn = handling.turn
        /\ row.attempt = handling.link /\ row.outcome = handling.outcome
        /\ row.link = handling.chain[handling.link]
  BY <1>1, RowInHand
<1>3. /\ handling.link \in 1..Len(handling.chain) /\ Len(handling.chain) \in Nat
      /\ handling.turn \in 0..TurnsPerRun /\ handling.delivery \in Nat
  BY <1>1, RowInHand DEF HandlingState
<1>4. /\ handling' \in HandlingState /\ handling'.chain = handling.chain
      /\ handling'.turn = handling.turn /\ handling'.standing = handling.standing
      /\ handling'.cut = handling.cut /\ handling'.delivery = handling.delivery
      /\ handling'.owed = handling.owed /\ handling'.class = handling.class
      /\ handling'.outcome = handling.outcome
      /\ \/ /\ handling'.at = "attempt" /\ handling'.link = handling.link + 1
            /\ handling.link < Len(handling.chain) /\ handling.outcome # "ok"
         \/ /\ handling'.at = "down" /\ handling'.link = handling.link
            /\ handling.link = Len(handling.chain) /\ handling.outcome \in {"transient", "config"}
         \/ /\ handling.at = "log" /\ handling'.at = "answered" /\ handling'.link = handling.link
            /\ handling.outcome = "ok"
         \/ /\ handling.at = "log" /\ handling'.at = "alert" /\ handling'.link = handling.link
            /\ handling.outcome = "config"
      /\ handling.at = "log" /\ handling.outcome = "config" => handling'.at = "alert"
  BY SMTT(30), <1>1, FallsBack DEF LogAttempt, AlertMisconfigured, ChainInHand, HandlingState,
     Whereabouts, InTurn
<1>5. costs' = IF handling.at = "log" THEN costs \cup {row} ELSE costs
  BY <1>2 DEF LogAttempt, AlertMisconfigured
<1>6. opsAlerts' = IF handling.at = "alert" THEN opsAlerts \cup {row} ELSE opsAlerts
  BY <1>2 DEF LogAttempt, AlertMisconfigured
<1>7. RoutingTypes'
  BY <1>1, <1>2, <1>4, <1>5, <1>6 DEF RoutingTypes, CostRow
<1>8. ChainInHand' /\ GuardsPassed' /\ RouteKept'
  BY <1>1, <1>3, <1>4 DEF RefusalsOf, ChainInHand, GuardsPassed, Past, RouteKept, InTurn,
     Guarding
<1>9. RowsFollow'  BY <1>1, <1>2, <1>3, <1>4, <1>5 DEF RowsFollow
<1>10. Mine' = IF handling.at = "log" THEN Mine \cup {row} ELSE Mine
  BY <1>2, <1>4, <1>5 DEF Mine
<1>11. /\ \A r \in Mine' : r.attempt \in 1..handling.link
       /\ \A k \in 1..handling.link : \E r \in Mine' : r.attempt = k
       /\ handling.outcome # "ok" => NoneAnswered'
       /\ handling.at = "log" =>
            \A r \in Mine' : r = row \/ (r.outcome # "ok" /\ r.attempt \in 1..handling.link - 1)
  BY <1>1, <1>2, <1>3, <1>10 DEF TurnLogged, LoggedTo, NoneAnswered
<1>12. TurnLogged'  BY <1>2, <1>3, <1>4, <1>11 DEF LoggedTo, TurnLogged
<1>13. MisconfigurationSeen'
  BY <1>1, <1>2, <1>4, <1>5, <1>6, SeenStays DEF Row, Link, MisconfigurationSeen
<1>14. QED
  BY <1>7, <1>8, <1>9, <1>12, <1>13 DEF RoutingInv

(* The chain is done: the alert and the holding template (_alert_all_down).  *)
LEMMA DownSteps == ASSUME RoutingInv, AllDown PROVE RoutingInv'
<1>1. /\ handling \in HandlingState /\ ChainInHand /\ GuardsPassed /\ RowsFollow /\ RouteKept
      /\ RoutingTypes /\ TurnLogged /\ MisconfigurationSeen /\ handling.at = "down"
      /\ UNCHANGED <<store, routes, usable, costs, changes>>
  BY DEF RoutingInv, RoutingTypes, AllDown
<1>2. /\ handling' \in HandlingState /\ handling'.chain = handling.chain
      /\ handling'.turn = handling.turn /\ handling'.standing = handling.standing
      /\ handling'.cut = handling.cut /\ handling'.delivery = handling.delivery
      /\ handling'.owed = handling.owed /\ handling'.class = handling.class
      /\ handling'.outcome = "holding" /\ handling'.at = "answered"
      /\ handling'.link = handling.link
  BY <1>1 DEF AllDown, HandlingState, Whereabouts
<1>3. PICK a : /\ opsAlerts' = opsAlerts \cup {a} /\ a.link = NoLink /\ a.outcome = "down"
               /\ a.delivery = handling.delivery /\ a.turn = handling.turn
  <2>1. Row \in CostRow /\ Row.delivery = handling.delivery /\ Row.turn = handling.turn
    BY <1>1, RowInHand DEF InTurn
  <2>2. \E a : /\ a = [Row EXCEPT !.link = NoLink, !.outcome = "down"]
               /\ a.link = NoLink /\ a.outcome = "down"
               /\ a.delivery = handling.delivery /\ a.turn = handling.turn
    <3>1. PICK r \in CostRow : r = Row /\ r.delivery = handling.delivery /\ r.turn = handling.turn
      BY <2>1
    <3>2. /\ [r EXCEPT !.link = NoLink, !.outcome = "down"].link = NoLink
          /\ [r EXCEPT !.link = NoLink, !.outcome = "down"].outcome = "down"
          /\ [r EXCEPT !.link = NoLink, !.outcome = "down"].delivery = handling.delivery
          /\ [r EXCEPT !.link = NoLink, !.outcome = "down"].turn = handling.turn
      BY <3>1 DEF CostRow
    <3>3. QED
      BY <3>1, <3>2
  <2>3. QED
    BY <2>2 DEF AllDown
<1>4. RefusalsOf(store)' = RefusalsOf(store) /\ handling.chain # << >> /\ handling.turn > 0
      /\ Mine' = Mine /\ handling.link = Len(handling.chain)
  BY <1>1, <1>2 DEF RefusalsOf, ChainInHand, Mine, InTurn
<1>5. RoutingTypes' /\ GuardsPassed' /\ RouteKept' /\ RowsFollow'
  BY <1>1, <1>2, <1>3, <1>4 DEF RoutingTypes, GuardsPassed, Past, RouteKept, RowsFollow
<1>6. ChainInHand'
  BY <1>1, <1>2, <1>4 DEF ChainInHand, InTurn, Guarding
<1>7. TurnLogged'
  BY <1>1, <1>2, <1>3, <1>4 DEF TurnLogged, LoggedTo, NoneAnswered, Down
<1>8. MisconfigurationSeen'
  BY <1>1, <1>2, <1>3, SeenStays
<1>9. QED
  BY <1>5, <1>6, <1>7, <1>8 DEF RoutingInv

(* The deadline cuts a turn, or the worker dies.                             *)
LEMMA CutSteps == ASSUME RoutingInv, Deadline \/ LoseHandling PROVE RoutingInv'
<1>1. /\ handling \in HandlingState /\ ChainInHand /\ GuardsPassed /\ RowsFollow /\ RouteKept
      /\ RoutingTypes /\ MisconfigurationSeen /\ PlannerKeeps
  BY DEF RoutingInv, RoutingTypes, Deadline, LoseHandling
<1>2. PICK seen \in SUBSET CostRow :
        /\ handling' = [handling EXCEPT !.at = IF Deadline THEN "interrupted" ELSE "waiting",
                                        !.cut = seen]
        /\ seen = IF handling.at = "alert" THEN handling.cut \cup {Row} ELSE handling.cut
  BY <1>1, RowInHand DEF InTurn, HandlingState, Deadline, LoseHandling, Cut
<1>3. /\ handling' \in HandlingState /\ handling'.at \in {"interrupted", "waiting"}
      /\ handling'.turn = handling.turn /\ handling'.standing = handling.standing
      /\ handling'.chain = handling.chain /\ handling'.delivery = handling.delivery
      /\ handling'.owed = handling.owed /\ handling'.class = handling.class
      /\ handling'.link = handling.link /\ handling'.cut = seen
  BY <1>1, <1>2 DEF HandlingState, Whereabouts, Resting
<1>4. RoutingTypes' /\ RefusalsOf(store)' = RefusalsOf(store)
  BY <1>1, <1>3, OnlyHandling
<1>5. MisconfigurationSeen'
  BY <1>1, <1>2, <1>3, SeenStays DEF PlannerKeeps
<1>6. ChainInHand' /\ GuardsPassed' /\ RowsFollow' /\ TurnLogged' /\ RouteKept'
  BY <1>1, <1>3, <1>4 DEF ChainInHand, GuardsPassed, Past, RowsFollow, TurnLogged, RouteKept,
     PlannerKeeps, InTurn, Guarding
<1>7. QED
  BY <1>4, <1>5, <1>6 DEF RoutingInv

LEMMA RoutingSteps == RoutingInv /\ [RoutingNext]_routingVars => RoutingInv'
<1> SUFFICES ASSUME RoutingInv, [RoutingNext]_routingVars PROVE RoutingInv'
  OBVIOUS
<1>1. CASE UNCHANGED routingVars
  BY <1>1 DEF routingVars, RoutingInv, RoutingTypes, ChainInHand, GuardsPassed, Past, RefusalsOf,
     RowsFollow, TurnLogged, LoggedTo, NoneAnswered, Mine, Down, MisconfigurationSeen, Row, Link,
     RouteKept
<1>2. QED
  BY <1>1, WorldChanges, GuardSteps, TurnSteps, LogSteps, DownSteps, CutSteps DEF RoutingNext

LEMMA RoutingInvShows == RoutingInv => RoutingTypeOK /\ RoutesAnswerable
<1> SUFFICES ASSUME RoutingInv PROVE RoutingTypeOK /\ RoutesAnswerable
  OBVIOUS
<1>1. RoutingTypeOK
  BY DEF RoutingInv, RoutingTypes, HandlingState, CostRow, ChainInHand, RoutingTypeOK, Whereabouts,
     Guarding
<1>2. StandingRefusalDrops /\ MisconfigurationSeen /\ OneRoutePerRun
  BY DEF RoutingInv, GuardsPassed, Past, StandingRefusalDrops, RoutingTypes, HandlingState,
     RowsFollow, RouteKept, OneRoutePerRun
<1>3. AnswerBacked  BY DEF LoggedTo, RoutingInv, TurnLogged, AnswerBacked, Mine, Down
<1>4. QED
  BY <1>1, <1>2, <1>3 DEF RoutesAnswerable

(***************************************************************************)
(* Diagnosis                                                               *)
(***************************************************************************)
Answer == [entries : Stated \cup {<<>>}, abstain : BOOLEAN]
Points == {"agent", "taxonomy", "layer", "answer", "gate", "inputs", "principal", "authority",
           "effect", "done", "failed"}
PlayState == [at : Points, standing : SUBSET Backing, acted : BOOLEAN]

DiagnosisTypes ==
  /\ origin \in {"pack", "tenant"} /\ backing \in [Backing -> BOOLEAN]
  /\ said \in Answer /\ play \in PlayState /\ shifts \in 0..MaxShifts
  /\ bound \in [abstain : BOOLEAN, top : Reasons \cup {"abstain", "unbound"}, offered : SUBSET Reasons]

(* What has stood since the step began stands now, and the checks the acting *)
(* step has passed did not let it through against that.                      *)
Cleared(point) ==
  /\ point \in {"principal", "authority", "effect", "done"} => "resolvable" \notin play.standing
  /\ point \in {"authority", "effect", "done"} =>
       origin = "pack" /\ {"instance", "manifest"} \cap play.standing = {}
  /\ point \in {"effect", "done"} => {"entitled", "executable"} \cap play.standing = {}
ChecksHeld ==
  /\ play.standing \subseteq Refusing
  /\ play.at # "done" => ~play.acted /\ Cleared(play.at)
  /\ play.acted => Cleared("done")

DiagnosisInv == DiagnosisTypes /\ DiagnosisGrounded /\ ChecksHeld

(* The confidence a stated one is taken for is a number (the clamp).         *)
LEMMA Clamped == \A c \in Confidences : Clamp(c) \in Int
BY DiagnosisAssumption DEF Clamp, One, NaN

LEMMA StatedEntries ==
  ASSUME NEW answer \in Stated \cup {<<>>}
  PROVE  /\ DOMAIN answer = 1..Len(answer) /\ Len(answer) \in 0..2
         /\ \A i \in DOMAIN answer : answer[i] \in Entries /\ Clamp(answer[i].confidence) \in Int
<1>1. CASE answer = <<>>
  BY <1>1
<1>2. CASE \E e \in Entries : answer = <<e>>
  BY <1>2, Clamped DEF Entries
<1>3. CASE \E e, f \in Entries : answer = <<e, f>>
  BY <1>3, Clamped DEF Entries
<1>4. QED
  BY <1>1, <1>2, <1>3 DEF Stated

(* The entry the sort puts first is one that was kept, and no kept one is    *)
(* surer (ranked.sort).                                                      *)
LEMMA BestIsKept ==
  ASSUME NEW answer \in Stated \cup {<<>>}, Ranked(answer) # {}
  PROVE  \E i \in Ranked(answer) :
           /\ Best(answer) = answer[i]
           /\ \A j \in Ranked(answer) : Clamp(answer[j].confidence) <= Clamp(answer[i].confidence)
<1> DEFINE Sure(i) == Clamp(answer[i].confidence)
<1> DEFINE First(i) == /\ \A j \in Ranked(answer) : Sure(j) <= Sure(i)
                       /\ \A j \in Ranked(answer) : j < i => Sure(j) < Sure(i)
<1>1. Ranked(answer) \subseteq {1, 2} /\ \A i \in Ranked(answer) : Sure(i) \in Int
  BY StatedEntries DEF Ranked
<1>2. Best(answer) = answer[CHOOSE i \in Ranked(answer) : First(i)]
  BY DEF Best
<1>3. \A i : First(i) => \A j \in Ranked(answer) : Sure(j) <= Sure(i)
  OBVIOUS
<1>4. \E i \in Ranked(answer) : First(i)
  <2> HIDE DEF Sure
  <2>1. CASE Ranked(answer) = {1}
    BY <1>1, <2>1
  <2>2. CASE Ranked(answer) = {2}
    BY <1>1, <2>2
  <2>3. CASE Ranked(answer) = {1, 2}  BY <1>1, <2>3
  <2>4. QED
    BY <1>1, <2>1, <2>2, <2>3
<1> HIDE DEF First
<1>5. PICK i \in Ranked(answer) : i = (CHOOSE k \in Ranked(answer) : First(k)) /\ First(i)
  BY <1>4
<1>6. QED
  BY <1>2, <1>3, <1>5

(* What is bound is grounded in what was said (parse_diagnosis).             *)
LEMMA ParsedIsGrounded ==
  ASSUME NEW answer \in Answer
  PROVE  LET parsed == ParseDiagnosis(answer)
             kept == Ranked(answer.entries)
         IN  /\ parsed \in [abstain : BOOLEAN, top : Reasons \cup {"abstain", "unbound"},
                            offered : SUBSET Reasons]
             /\ parsed.offered = {answer.entries[i].reason : i \in kept}
             /\ ~parsed.abstain =>
                  /\ ~answer.abstain
                  /\ \E i \in kept :
                       /\ answer.entries[i].reason = parsed.top
                       /\ Clamp(answer.entries[i].confidence) >= Threshold
                       /\ \A j \in kept : Clamp(answer.entries[j].confidence)
                                            <= Clamp(answer.entries[i].confidence)
<1> DEFINE entries == answer.entries
           kept == Ranked(entries)
           shown == {entries[i].reason : i \in kept}
           parsed == ParseDiagnosis(answer)
           Weak == kept = {} \/ answer.abstain \/ Clamp(Best(entries).confidence) < Threshold
<1>1. entries \in Stated \cup {<<>>} /\ answer.abstain \in BOOLEAN
  BY DEF Answer
<1>2. shown \in SUBSET Reasons
  BY DEF Ranked
<1>3. parsed = IF Weak THEN [abstain |-> TRUE, top |-> "abstain", offered |-> shown]
               ELSE [abstain |-> FALSE, top |-> Best(entries).reason, offered |-> shown]
  BY DEF ParseDiagnosis
<1>4. CASE Weak
  <2>1. parsed = [abstain |-> TRUE, top |-> "abstain", offered |-> shown]
    BY <1>3, <1>4
  <2> HIDE DEF parsed, shown, Weak
  <2>2. /\ parsed.abstain = TRUE /\ parsed.offered = shown
        /\ parsed \in [abstain : BOOLEAN, top : Reasons \cup {"abstain", "unbound"}, offered : SUBSET Reasons]
    BY <1>2, <2>1
  <2>3. QED
    BY <2>2 DEF parsed, shown
<1>5. CASE ~Weak
  <2>1. parsed = [abstain |-> FALSE, top |-> Best(entries).reason, offered |-> shown]
    BY <1>3, <1>5
  <2>2. PICK i \in kept :
          /\ Best(entries) = entries[i]
          /\ \A j \in kept : Clamp(entries[j].confidence) <= Clamp(entries[i].confidence)
    BY <1>1, <1>5, BestIsKept
  <2>3. entries[i].reason \in Reasons /\ Clamp(entries[i].confidence) \in Int
    BY <1>1, StatedEntries DEF Ranked
  <2>4. Clamp(entries[i].confidence) >= Threshold /\ ~answer.abstain
    <3>1. ~(Clamp(entries[i].confidence) < Threshold) /\ ~answer.abstain
      BY <1>5, <2>2
    <3> HIDE DEF entries
    <3>2. QED
      BY <2>3, <3>1, DiagnosisAssumption
  <2> HIDE DEF parsed, shown, Weak, kept
  <2>5. /\ parsed.abstain = FALSE /\ parsed.offered = shown /\ parsed.top = entries[i].reason
        /\ parsed \in [abstain : BOOLEAN, top : Reasons \cup {"abstain", "unbound"}, offered : SUBSET Reasons]
    BY <1>2, <2>1, <2>2, <2>3
  <2>6. QED
    BY <2>2, <2>4, <2>5 DEF parsed, shown, kept
<1>6. QED
  BY <1>4, <1>5

LEMMA DiagnosisStarts == DiagnosisInit => DiagnosisInv
<1> SUFFICES ASSUME DiagnosisInit PROVE DiagnosisInv
  OBVIOUS
<1>1. DiagnosisTypes
  BY DiagnosisAssumption DEF DiagnosisInit, DiagnosisTypes, Answer, PlayState, Points, Nothing, Unbound, Backing
<1>2. DiagnosisGrounded
  BY DEF DiagnosisInit, DiagnosisGrounded, Unbound, Nothing
<1>3. ChecksHeld
  BY DEF DiagnosisInit, ChecksHeld, Cleared
<1>4. QED
  BY <1>1, <1>2, <1>3 DEF DiagnosisInv

LEMMA DiagnosisSteps == DiagnosisInv /\ [DiagnosisNext]_diagnosisVars => DiagnosisInv'
<1> SUFFICES ASSUME DiagnosisInv, [DiagnosisNext]_diagnosisVars PROVE DiagnosisInv'
  OBVIOUS
<1>1. DiagnosisTypes /\ DiagnosisGrounded /\ ChecksHeld
  BY DEF DiagnosisInv
<1>2. CASE UNCHANGED diagnosisVars
  BY <1>1, <1>2 DEF diagnosisVars, DiagnosisInv, DiagnosisTypes, DiagnosisGrounded, ChecksHeld, Cleared, Refusing
(* a step that only moves on: nothing said or bound changes                  *)
<1>3. ASSUME UNCHANGED <<origin, backing, said, bound, shifts>>, play' \in PlayState, ChecksHeld'
      PROVE  DiagnosisInv'
  BY <1>1, <1>3 DEF DiagnosisInv, DiagnosisTypes, DiagnosisGrounded
<1>4. ASSUME NEW b \in Backing, Shift(b) PROVE DiagnosisInv'
  BY <1>1, <1>4, DiagnosisAssumption DEF Shift, DiagnosisTypes, PlayState, Points,
     DiagnosisGrounded, ChecksHeld, Cleared, Refusing, DiagnosisInv
<1>5. CASE FindDiagnoser
  BY <1>1, <1>3, <1>5 DEF FindDiagnoser, DiagnosisTypes, PlayState, Points, Refusing,
     ChecksHeld, Cleared
<1>6. CASE LoadTaxonomy \/ PromptLayer
  BY <1>1, <1>3, <1>6 DEF LoadTaxonomy, PromptLayer, StepAt, DiagnosisTypes, PlayState,
     Points, ChecksHeld, Cleared, Refusing
<1>7. CASE Diagnose
  <2>1. said' \in Answer /\ bound' = ParseDiagnosis(said')
        /\ play' = [play EXCEPT !.at = "gate"] /\ UNCHANGED <<origin, backing, shifts>>
        /\ play.at = "answer"
    BY <1>7 DEF Diagnose, Answer
  <2>2. PICK answer \in Answer : answer = said'
    BY <2>1
  <2> DEFINE kept == Ranked(answer.entries)
  <2>3. /\ bound' \in [abstain : BOOLEAN, top : Reasons \cup {"abstain", "unbound"}, offered : SUBSET Reasons]
        /\ bound'.offered = {answer.entries[i].reason : i \in kept}
        /\ ~bound'.abstain =>
             /\ ~answer.abstain
             /\ \E i \in kept :
                  /\ answer.entries[i].reason = bound'.top
                  /\ Clamp(answer.entries[i].confidence) >= Threshold
                  /\ \A j \in kept : Clamp(answer.entries[j].confidence)
                                       <= Clamp(answer.entries[i].confidence)
    BY <2>1, <2>2, ParsedIsGrounded
  <2>4. kept = {i \in DOMAIN said'.entries : said'.entries[i].reason \in Reasons}
    BY <2>2 DEF Ranked
  <2>5. DiagnosisGrounded'
    <3> HIDE DEF kept
    <3>1. QED
      BY <2>2, <2>3, <2>4 DEF DiagnosisGrounded
  <2>6. play' \in PlayState /\ play'.standing = play.standing /\ play'.acted = play.acted /\ play'.at = "gate"
    BY <1>1, <2>1 DEF DiagnosisTypes, PlayState, Points
  <2>7. DiagnosisTypes'
    BY <1>1, <2>1, <2>3, <2>6 DEF DiagnosisTypes
  <2>8. ChecksHeld'
    BY <1>1, <2>1, <2>6 DEF ChecksHeld, Cleared, Refusing
  <2>9. QED
    BY <2>5, <2>7, <2>8 DEF DiagnosisInv
<1>8. CASE OwnerGate
  <2>1. /\ play' \in PlayState /\ play'.acted = play.acted /\ play.at = "gate"
        /\ \/ play'.at = "inputs" /\ play'.standing = Refusing
           \/ play'.at = "done" /\ play'.standing = play.standing
    BY <1>1, <1>8 DEF OwnerGate, DiagnosisTypes, PlayState, Points, Refusing
  <2>2. QED
    BY <1>1, <1>3, <1>8, <2>1 DEF OwnerGate, ChecksHeld, Cleared, Refusing
<1>9. CASE ResolveInputs \/ ResolvePrincipal \/ Entitle
  BY <1>1, <1>3, <1>9 DEF ResolveInputs, ResolvePrincipal, Entitle, StepAt, Trusts,
     DiagnosisTypes, PlayState, Points, ChecksHeld, Cleared, Refusing, Backing
<1>10. CASE Act
  BY <1>1, <1>3, <1>10 DEF Act, DiagnosisTypes, PlayState, Points, ChecksHeld, Cleared,
     Refusing
<1>11. QED
  BY <1>2, <1>4, <1>5, <1>6, <1>7, <1>8, <1>9, <1>10 DEF DiagnosisNext

LEMMA DiagnosisInvShows == DiagnosisInv => DiagnosisTypeOK /\ DiagnosisGrounded /\ ActsWithAuthority
<1> SUFFICES ASSUME DiagnosisInv PROVE DiagnosisTypeOK /\ ActsWithAuthority
  BY DEF DiagnosisInv
<1>1. DiagnosisTypeOK
  BY DEF DiagnosisInv, DiagnosisTypes, DiagnosisTypeOK, Answer, PlayState
<1>2. ActsWithAuthority
  BY DEF DiagnosisInv, ChecksHeld, Cleared, ActsWithAuthority
<1>3. QED
  BY <1>1, <1>2

(***************************************************************************)
(* Campaigns                                                               *)
(***************************************************************************)
CampaignRecord ==
  [status : {"draft", "pending_approval", "rejected", "executing", "executed", "halted"},
   hour : Nat, announced : BOOLEAN, ended : BOOLEAN, late : BOOLEAN]
SendRow == [status : {"none", "queued", "sent", "skipped", "failed"}, hour : Nat]
BatchWork == [at : {"idle", "start", "sending", "counted"}, rows : SUBSET Members]

CampaignTypes ==
  /\ campaign \in CampaignRecord /\ audience \subseteq Members
  /\ sends \in [Members -> SendRow] /\ copies \in [Members -> Nat]
  /\ batch \in [Batches -> BatchWork] /\ lapses \in Nat
  /\ \A b \in Batches : batch[b].at # "sending" => batch[b].rows = {}

(* The copies a member was sent, and those that batches hold in memory.      *)
HoldersOf(m) == {b \in Batches : m \in batch[b].rows}
CopiesCounted ==
  \A m \in Members :
    /\ copies[m] + Cardinality(HoldersOf(m)) <= Cardinality(Batches) + lapses
    /\ sends[m].status \in {"none", "queued"} => copies[m] <= lapses

(* Before a broadcast is set going nobody sends, unless a request wrote late. *)
Unsent == campaign.status \in {"draft", "pending_approval", "rejected"} /\ ~campaign.late
NothingSentBefore ==
  Unsent =>
    /\ \A m \in Members : copies[m] = 0
    /\ \A b \in Batches : batch[b].at \in {"idle", "start"}

CampaignCore == CampaignTypes /\ CopiesCounted /\ NothingSentBefore

LEMMA BatchesCounted ==
  /\ Cardinality(Batches) \in Nat
  /\ \A S : S \subseteq Batches => /\ IsFiniteSet(S) /\ Cardinality(S) \in Nat
                                   /\ Cardinality(S) <= Cardinality(Batches)
<1>1. Cardinality(Batches) \in Nat
  BY CampaignAssumption, FS_CardinalityType
<1>2. ASSUME NEW S, S \subseteq Batches
      PROVE  IsFiniteSet(S) /\ Cardinality(S) \in Nat /\ Cardinality(S) <= Cardinality(Batches)
  BY <1>2, CampaignAssumption, FS_Subset, FS_CardinalityType
<1>3. QED
  BY <1>1, <1>2

LEMMA CampaignBegins == CampaignInit => CampaignCore
<1> SUFFICES ASSUME CampaignInit PROVE CampaignCore
  OBVIOUS
<1>1. /\ NoSend \in SendRow /\ NoSend.status = "none"
      /\ NoBatch \in BatchWork /\ NoBatch.at = "idle" /\ NoBatch.rows = {}
  BY DEF NoSend, SendRow, NoBatch, BatchWork
<1>2. CampaignTypes  BY <1>1 DEF CampaignInit, CampaignRecord, CampaignTypes
<1>3. NothingSentBefore
  BY <1>1 DEF NothingSentBefore, CampaignInit
<1>4. ASSUME NEW m \in Members
      PROVE  /\ copies[m] + Cardinality(HoldersOf(m)) <= Cardinality(Batches) + lapses
             /\ sends[m].status \in {"none", "queued"} => copies[m] <= lapses
  BY <1>1, FS_EmptySet, BatchesCounted DEF CampaignInit, HoldersOf
<1>5. QED
  BY <1>2, <1>3, <1>4 DEF CampaignCore, CopiesCounted

(* A step that sends nothing, queues nothing again and reads no rows leaves  *)
(* the copies counted.                                                       *)
LEMMA CopiesKept ==
  ASSUME CampaignCore, copies' = copies, lapses' = lapses,
         \A b \in Batches : batch'[b].rows \subseteq batch[b].rows,
         \A m \in Members : sends'[m].status \in {"none", "queued"} => sends[m].status \in {"none", "queued"}
  PROVE  CopiesCounted'
<1> SUFFICES ASSUME NEW m \in Members
             PROVE  /\ copies[m] + Cardinality(HoldersOf(m)') <= Cardinality(Batches) + lapses
                    /\ sends'[m].status \in {"none", "queued"} => copies[m] <= lapses
  BY DEF CopiesCounted
<1>1. HoldersOf(m)' \subseteq HoldersOf(m) /\ HoldersOf(m) \subseteq Batches /\ HoldersOf(m)' \subseteq Batches
  BY DEF HoldersOf
<1>2. /\ Cardinality(HoldersOf(m)') \in Nat /\ Cardinality(HoldersOf(m)) \in Nat
      /\ Cardinality(Batches) \in Nat /\ IsFiniteSet(HoldersOf(m))
  BY <1>1, BatchesCounted
<1>3. Cardinality(HoldersOf(m)') <= Cardinality(HoldersOf(m))
  BY <1>1, <1>2, FS_Subset
<1>4. copies[m] \in Nat /\ lapses \in Nat
  BY DEF CampaignCore, CampaignTypes
<1>5. copies[m] + Cardinality(HoldersOf(m)) <= Cardinality(Batches) + lapses
  BY DEF CampaignCore, CopiesCounted
<1>6. sends'[m].status \in {"none", "queued"} => copies[m] <= lapses
  BY DEF CampaignCore, CopiesCounted
<1>7. copies[m] + Cardinality(HoldersOf(m)') <= Cardinality(Batches) + lapses
  BY <1>2, <1>3, <1>4, <1>5
<1>8. QED
  BY <1>6, <1>7

(* The status of a campaign is replaced.                                     *)
LEMMA CampaignStatus ==
  ASSUME CampaignCore,
         NEW status \in {"draft", "pending_approval", "rejected", "executing", "executed", "halted"},
         Status(status)
  PROVE  /\ campaign' \in CampaignRecord /\ campaign'.status = status
         /\ campaign'.late = campaign.late
         /\ campaign'.ended = (campaign.ended \/ status \in Ends)
<1>1. campaign \in CampaignRecord
  BY DEF CampaignCore, CampaignTypes
<1>2. PICK e : e = (campaign.ended \/ status \in Ends)
  OBVIOUS
<1>3. e \in BOOLEAN
  BY <1>1, <1>2 DEF CampaignRecord
<1>4. campaign' = [campaign EXCEPT !.status = status, !.ended = e]
  BY <1>2 DEF Status
<1>5. QED
  BY <1>1, <1>2, <1>3, <1>4 DEF CampaignRecord

LEMMA BatchReplaced ==
  ASSUME CampaignCore, NEW b \in Batches, NEW work \in BatchWork, work.at # "sending" => work.rows = {},
         batch' = [batch EXCEPT ![b] = work]
  PROVE  /\ batch' \in [Batches -> BatchWork] /\ batch'[b] = work
         /\ \A c \in Batches : c # b => batch'[c] = batch[c]
         /\ \A c \in Batches : batch'[c].at # "sending" => batch'[c].rows = {}
BY DEF CampaignCore, CampaignTypes

LEMMA BatchFacts ==
  /\ NoBatch \in BatchWork /\ NoBatch.at = "idle" /\ NoBatch.rows = {}
  /\ \A w \in BatchWork, at \in {"idle", "start", "sending", "counted"} :
       /\ [w EXCEPT !.at = at] \in BatchWork /\ [w EXCEPT !.at = at].at = at
       /\ [w EXCEPT !.at = at].rows = w.rows
BY DEF NoBatch, BatchWork

(* What the write of a request leaves behind.                                *)
LEMMA LateWrite ==
  ASSUME CampaignCore, NEW q \in Requests, RequestSend(q)
  PROVE  /\ campaign' \in CampaignRecord /\ campaign'.status = "pending_approval"
         /\ campaign'.ended = campaign.ended
         /\ ~campaign'.late => ~campaign.late /\ campaign.status \in {"draft", "pending_approval"}
<1>1. campaign \in CampaignRecord
  BY DEF CampaignCore, CampaignTypes
<1>2. PICK l : l = (campaign.late \/ campaign.status \notin {"draft", "pending_approval"})
  OBVIOUS
<1>3. l \in BOOLEAN
  BY <1>1, <1>2 DEF CampaignRecord
<1>4. campaign' = [campaign EXCEPT !.status = "pending_approval", !.late = l]
  BY <1>2 DEF RequestSend
<1>5. QED
  BY <1>1, <1>2, <1>3, <1>4 DEF CampaignRecord

(* What the owner, the audience and the hour do                              *)
LEMMA AroundBatchesSafe ==
  ASSUME CampaignCore,
         \/ AudienceMoves \/ HourPasses \/ CampaignExecuted
         \/ \E q \in Requests : ReadDraft(q) \/ RequestSend(q) \/ ResolveTicket(q)
  PROVE  CampaignCore'
<1>1. UNCHANGED <<sends, copies, batch, lapses>>
  BY DEF AudienceMoves, HourPasses, CampaignExecuted, ReadDraft, RequestSend, ResolveTicket
<1>2. CopiesCounted'
  BY <1>1, CopiesKept
<1>3. audience' \subseteq Members
  BY DEF AudienceMoves, HourPasses, CampaignExecuted, ReadDraft, RequestSend, ResolveTicket,
         CampaignCore, CampaignTypes
<1>4. /\ campaign' \in CampaignRecord
      /\ Unsent' => Unsent
  <2>1. campaign \in CampaignRecord
    BY DEF CampaignCore, CampaignTypes
  <2>2. CASE campaign' = campaign
    BY <2>1, <2>2 DEF Unsent
  <2>3. CASE HourPasses
    BY <2>1, <2>3 DEF HourPasses, CampaignRecord, Unsent
  <2>4. CASE CampaignExecuted
    BY <2>1, <2>4 DEF CampaignExecuted, CampaignRecord, Unsent
  <2>5. ASSUME NEW q \in Requests, RequestSend(q)
        PROVE  campaign' \in CampaignRecord /\ (Unsent' => Unsent)
    BY <2>1, <2>5, LateWrite DEF Unsent
  <2>6. QED
    BY <2>2, <2>3, <2>4, <2>5 DEF AudienceMoves, ReadDraft, ResolveTicket
<1>5. CampaignTypes' /\ NothingSentBefore'
  BY <1>1, <1>3, <1>4 DEF CampaignCore, CampaignTypes, NothingSentBefore
<1>6. QED
  BY <1>2, <1>5 DEF CampaignCore

LEMMA HandleTicketSafe ==
  ASSUME CampaignCore, NEW b \in Batches, NEW q \in Requests, HandleTicket(b, q)
  PROVE  CampaignCore'
<1>1. batch[b] = NoBatch /\ UNCHANGED <<audience, copies, lapses>>
  BY DEF HandleTicket
<1>2. /\ batch' \in [Batches -> BatchWork]
      /\ \A c \in Batches : batch'[c].at # "sending" => batch'[c].rows = {}
      /\ \A c \in Batches : batch'[c].rows \subseteq batch[c].rows
      /\ \A c \in Batches : batch'[c].at = batch[c].at \/ batch'[c].at = "start"
  <2>1. CASE batch' = batch
    BY <2>1 DEF CampaignCore, CampaignTypes
  <2>2. CASE batch' = [batch EXCEPT ![b].at = "start"]
    <3> DEFINE work == [batch[b] EXCEPT !.at = "start"]
    <3>1. batch' = [batch EXCEPT ![b] = work]
      BY <2>2
    <3>2. work \in BatchWork /\ work.at = "start" /\ work.rows = {}
      BY <1>1, BatchFacts
    <3> HIDE DEF work
    <3>3. /\ batch' \in [Batches -> BatchWork] /\ batch'[b] = work
          /\ \A c \in Batches : c # b => batch'[c] = batch[c]
          /\ \A c \in Batches : batch'[c].at # "sending" => batch'[c].rows = {}
      BY <3>1, <3>2, BatchReplaced
    <3>4. QED
      BY <3>2, <3>3
  <2>3. QED
    BY <2>1, <2>2 DEF HandleTicket
<1>3. /\ campaign' \in CampaignRecord /\ sends' \in [Members -> SendRow]
      /\ Unsent' => Unsent
      /\ \A m \in Members : sends'[m].status \in {"none", "queued"} => sends[m].status \in {"none", "queued"}
  BY CampaignStatus DEF CampaignCore, CampaignTypes, NoSend, SendRow, RejectCampaign, SetUp,
     HandleTicket, Unsent
<1>4. CampaignTypes'
  BY <1>1, <1>2, <1>3 DEF CampaignCore, CampaignTypes
<1>5. CopiesCounted'
  BY <1>1, <1>2, <1>3, CopiesKept
<1>6. NothingSentBefore'
  BY <1>1, <1>2, <1>3 DEF CampaignCore, NothingSentBefore
<1>7. QED
  BY <1>4, <1>5, <1>6 DEF CampaignCore

LEMMA BatchMovesSafe ==
  ASSUME CampaignCore, NEW b \in Batches, FanOut(b) \/ CountBatch(b) \/ RecordExecution(b)
  PROVE  CampaignCore'
<1>1. UNCHANGED <<audience, sends, copies, lapses>>
  BY DEF FanOut, CountBatch, RecordExecution
<1>2. \A c \in Batches : batch[c] \in BatchWork /\ (batch[c].at # "sending" => batch[c].rows = {})
  BY DEF CampaignCore, CampaignTypes
<1>3. /\ [batch[b] EXCEPT !.at = "start"] \in BatchWork
      /\ [batch[b] EXCEPT !.at = "start"].at = "start"
      /\ [batch[b] EXCEPT !.at = "start"].rows = batch[b].rows
      /\ [NoBatch EXCEPT !.at = "counted"] \in BatchWork
      /\ [NoBatch EXCEPT !.at = "counted"].at = "counted"
      /\ [NoBatch EXCEPT !.at = "counted"].rows = {}
  BY <1>2, BatchFacts
<1>4. PICK work \in BatchWork : /\ work.rows = {} /\ work.at # "sending"
                                /\ batch' = [batch EXCEPT ![b] = work]
                                /\ FanOut(b) => work.at = "start"
  <2>1. CASE FanOut(b)  BY <1>3, <2>1, BatchFacts DEF FanOut
  <2>2. CASE CountBatch(b)  BY <1>3, <2>2, BatchFacts DEF FanOut, CountBatch
  <2>3. CASE RecordExecution(b)  BY <2>3, BatchFacts DEF FanOut, RecordExecution
  <2>4. QED
    BY <2>1, <2>2, <2>3
<1>5. /\ batch' \in [Batches -> BatchWork] /\ batch'[b] = work
      /\ \A c \in Batches : c # b => batch'[c] = batch[c]
      /\ \A c \in Batches : batch'[c].at # "sending" => batch'[c].rows = {}
  BY <1>4, BatchReplaced
<1>6. CopiesCounted'  BY <1>1, <1>4, <1>5, CopiesKept
<1>7. /\ campaign' \in CampaignRecord
      /\ Unsent' => campaign' = campaign /\ batch[b].at \notin {"sending", "counted"}
  BY DEF CampaignCore, CampaignTypes, FanOut, CountBatch, NothingSentBefore, RecordExecution,
     CampaignRecord, Unsent
<1>8. NothingSentBefore'
  BY <1>1, <1>4, <1>5, <1>7 DEF CampaignCore, NothingSentBefore, FanOut, CountBatch,
     RecordExecution, Unsent
<1>9. CampaignTypes'
  BY <1>1, <1>5, <1>7 DEF CampaignCore, CampaignTypes
<1>10. QED
  BY <1>6, <1>8, <1>9 DEF CampaignCore

LEMMA StartBatchSafe ==
  ASSUME CampaignCore, NEW b \in Batches, StartBatch(b)
  PROVE  CampaignCore'
<1>1. batch[b].at = "start" /\ UNCHANGED <<audience, sends, copies, lapses>>
  BY DEF StartBatch
<1>2. batch[b].rows = {} /\ campaign \in CampaignRecord
  BY <1>1 DEF CampaignCore, CampaignTypes
<1>3. CASE batch' = [batch EXCEPT ![b] = NoBatch]
  <2>1. /\ batch' \in [Batches -> BatchWork] /\ batch'[b] = NoBatch
        /\ \A c \in Batches : c # b => batch'[c] = batch[c]
        /\ \A c \in Batches : batch'[c].at # "sending" => batch'[c].rows = {}
    BY <1>3, BatchFacts, BatchReplaced
  <2>2. /\ campaign' \in CampaignRecord
        /\ campaign' = campaign \/ campaign'.status = "halted"
    BY <1>2, CampaignStatus DEF StartBatch
  <2>3. CampaignTypes'
    BY <1>1, <2>1, <2>2 DEF CampaignCore, CampaignTypes
  <2>4. NothingSentBefore'
    BY <1>1, <2>1, <2>2, BatchFacts DEF CampaignCore, NothingSentBefore, Unsent
  <2>5. \A c \in Batches : batch'[c].rows \subseteq batch[c].rows
    BY <2>1, BatchFacts
  <2>6. CopiesCounted'
    BY <1>1, <2>5, CopiesKept
  <2>7. QED
    BY <2>3, <2>4, <2>6 DEF CampaignCore
<1>4. CASE /\ campaign.status = "executing" /\ campaign' = campaign
           /\ batch' = [batch EXCEPT ![b] = [at |-> "sending",
                                             rows |-> Oldest(Having("queued"), HourlyBudget)]]
  <2> DEFINE work == [at |-> "sending", rows |-> Oldest(Having("queued"), HourlyBudget)]
  <2>1. /\ work \in BatchWork /\ work.at = "sending"
        /\ \A m \in work.rows : m \in Members /\ sends[m].status = "queued"
    BY DEF Oldest, Having, BatchWork
  <2>2. batch' = [batch EXCEPT ![b] = work]
    BY <1>4
  <2> HIDE DEF work
  <2>3. /\ batch' \in [Batches -> BatchWork] /\ batch'[b] = work
        /\ \A c \in Batches : c # b => batch'[c] = batch[c]
        /\ \A c \in Batches : batch'[c].at # "sending" => batch'[c].rows = {}
    BY <2>1, <2>2, BatchReplaced
  <2>4. CampaignTypes' /\ NothingSentBefore'
    BY <1>1, <1>4, <2>3 DEF CampaignCore, CampaignTypes, NothingSentBefore, Unsent
  <2>5. ASSUME NEW m \in Members
        PROVE  /\ copies[m] + Cardinality(HoldersOf(m)') <= Cardinality(Batches) + lapses
               /\ sends[m].status \in {"none", "queued"} => copies[m] <= lapses
    <3>1. /\ copies[m] \in Nat /\ lapses \in Nat
          /\ copies[m] + Cardinality(HoldersOf(m)) <= Cardinality(Batches) + lapses
          /\ sends[m].status \in {"none", "queued"} => copies[m] <= lapses
      BY DEF CampaignCore, CampaignTypes, CopiesCounted
    <3>2. HoldersOf(m)' \subseteq Batches /\ HoldersOf(m) \subseteq Batches
      BY DEF HoldersOf
    <3>3. /\ Cardinality(HoldersOf(m)') \in Nat /\ Cardinality(HoldersOf(m)) \in Nat
          /\ Cardinality(Batches) \in Nat /\ IsFiniteSet(HoldersOf(m))
          /\ Cardinality(HoldersOf(m)') <= Cardinality(Batches)
      BY <3>2, BatchesCounted
    <3>4. CASE m \in work.rows  BY <2>1, <3>1, <3>3, <3>4
    <3>5. CASE m \notin work.rows  BY <2>3, <3>1, <3>3, <3>5, FS_Subset DEF HoldersOf
    <3>6. QED
      BY <3>4, <3>5
  <2>6. CopiesCounted'
    BY <1>1, <2>5 DEF CopiesCounted
  <2>7. QED
    BY <2>4, <2>6 DEF CampaignCore
<1>5. QED
  BY <1>3, <1>4 DEF StartBatch

LEMMA SendOneSafe ==
  ASSUME CampaignCore, NEW b \in Batches, NEW m \in Members, SendOne(b, m)
  PROVE  CampaignCore'
<1>1. /\ batch[b].at = "sending" /\ m \in batch[b].rows
      /\ UNCHANGED <<campaign, audience, lapses>>
  BY DEF SendOne, Oldest
<1>2. PICK status \in {"sent", "skipped", "failed"} :
        /\ MarkRow(b, m, status)
        /\ copies' = copies \/ copies' = [copies EXCEPT ![m] = @ + 1]
  BY DEF SendOne
<1>3. /\ batch[b] \in BatchWork /\ sends[m] \in SendRow /\ campaign \in CampaignRecord
      /\ sends \in [Members -> SendRow] /\ copies \in [Members -> Nat]
  BY DEF CampaignCore, CampaignTypes
<1> DEFINE hour == IF status = "sent" THEN campaign.hour ELSE sends[m].hour
           row == [[sends[m] EXCEPT !.status = status] EXCEPT !.hour = hour]
           work == [batch[b] EXCEPT !.rows = @ \ {m}]
<1>4. hour \in Nat
  BY <1>3 DEF SendRow, CampaignRecord
<1>5. sends' = [sends EXCEPT ![m] = row]
  BY <1>2, <1>3 DEF MarkRow, SendRow
<1> HIDE DEF hour
<1>6. row \in SendRow /\ row.status = status
  BY <1>3, <1>4 DEF SendRow
<1>7. batch' = [batch EXCEPT ![b] = work]
  BY <1>2 DEF MarkRow
<1>8. work \in BatchWork /\ work.at = "sending" /\ work.rows = batch[b].rows \ {m}
  BY <1>1, <1>3 DEF BatchWork
<1> HIDE DEF row, work
<1>9. /\ batch' \in [Batches -> BatchWork] /\ batch'[b] = work
      /\ \A c \in Batches : c # b => batch'[c] = batch[c]
      /\ \A c \in Batches : batch'[c].at # "sending" => batch'[c].rows = {}
  BY <1>7, <1>8, BatchReplaced
<1>10. /\ sends' \in [Members -> SendRow] /\ sends'[m] = row
       /\ \A n \in Members : n # m => sends'[n] = sends[n]
  BY <1>3, <1>5, <1>6
<1>11. /\ copies' \in [Members -> Nat] /\ copies'[m] <= copies[m] + 1
       /\ \A n \in Members : n # m => copies'[n] = copies[n]
  BY <1>2, <1>3
<1>12. CampaignTypes'
  BY <1>1, <1>9, <1>10, <1>11 DEF CampaignCore, CampaignTypes
<1>13. NothingSentBefore'  BY <1>1 DEF CampaignCore, NothingSentBefore, Unsent
<1>14. ASSUME NEW n \in Members
       PROVE  /\ copies'[n] + Cardinality(HoldersOf(n)') <= Cardinality(Batches) + lapses
              /\ sends'[n].status \in {"none", "queued"} => copies'[n] <= lapses
  <2>1. /\ copies[n] \in Nat /\ copies'[n] \in Nat /\ lapses \in Nat
        /\ copies[n] + Cardinality(HoldersOf(n)) <= Cardinality(Batches) + lapses
        /\ sends[n].status \in {"none", "queued"} => copies[n] <= lapses
    BY <1>11 DEF CampaignCore, CampaignTypes, CopiesCounted
  <2>2. HoldersOf(n)' \subseteq HoldersOf(n) /\ HoldersOf(n) \subseteq Batches /\ HoldersOf(n)' \subseteq Batches
    BY <1>8, <1>9 DEF HoldersOf
  <2>3. /\ Cardinality(HoldersOf(n)') \in Nat /\ Cardinality(HoldersOf(n)) \in Nat
        /\ Cardinality(Batches) \in Nat /\ IsFiniteSet(HoldersOf(n))
    BY <2>2, BatchesCounted
  <2>4. CASE n = m
    <3>1. b \in HoldersOf(m) /\ b \notin HoldersOf(m)'
      BY <1>1, <1>8, <1>9 DEF HoldersOf
    <3>2. HoldersOf(m)' \subseteq HoldersOf(m) \ {b}
      BY <2>2, <2>4, <3>1
    <3>3. /\ IsFiniteSet(HoldersOf(m) \ {b})
          /\ Cardinality(HoldersOf(m) \ {b}) = Cardinality(HoldersOf(m)) - 1
      BY <2>3, <2>4, <3>1, FS_RemoveElement
    <3>4. Cardinality(HoldersOf(m)') <= Cardinality(HoldersOf(m)) - 1
      BY <3>2, <3>3, FS_Subset
    <3>5. copies'[n] <= copies[n] + 1
      BY <1>11, <2>4
    <3>6. copies'[n] + Cardinality(HoldersOf(n)') <= Cardinality(Batches) + lapses
      BY <2>1, <2>3, <2>4, <3>4, <3>5
    <3>7. sends'[n].status \notin {"none", "queued"}
      BY <1>6, <1>10, <2>4
    <3>8. QED
      BY <3>6, <3>7
  <2>5. CASE n # m  BY <1>10, <1>11, <2>1, <2>2, <2>3, <2>5, FS_Subset
  <2>6. QED
    BY <2>4, <2>5
<1>15. CopiesCounted'
  BY <1>1, <1>14 DEF CopiesCounted
<1>16. QED
  BY <1>12, <1>13, <1>15 DEF CampaignCore

LEMMA CampaignCrashSafe ==
  ASSUME CampaignCore, NEW b \in Batches, CampaignCrash(b)
  PROVE  CampaignCore'
<1>1. /\ lapses' = lapses + 1 /\ batch' = [batch EXCEPT ![b] = NoBatch]
      /\ UNCHANGED <<campaign, audience, sends>>
      /\ copies' = copies \/ \E m \in batch[b].rows \cap audience : copies' = [copies EXCEPT ![m] = @ + 1]
  BY DEF CampaignCrash, Oldest
<1>2. /\ batch[b] \in BatchWork /\ copies \in [Members -> Nat] /\ lapses \in Nat
      /\ batch[b].at # "sending" => batch[b].rows = {}
  BY DEF CampaignCore, CampaignTypes
<1>3. /\ copies' \in [Members -> Nat]
      /\ \A m \in Members : copies'[m] <= copies[m] + 1
      /\ batch[b].rows = {} => copies' = copies
  BY <1>1, <1>2 DEF BatchWork
<1>4. /\ batch' \in [Batches -> BatchWork] /\ batch'[b] = NoBatch
      /\ \A c \in Batches : c # b => batch'[c] = batch[c]
      /\ \A c \in Batches : batch'[c].at # "sending" => batch'[c].rows = {}
  BY <1>1, BatchFacts, BatchReplaced
<1>5. CampaignTypes'
  BY <1>1, <1>2, <1>3, <1>4 DEF CampaignCore, CampaignTypes
<1>6. NothingSentBefore'
  BY <1>1, <1>2, <1>3, <1>4, BatchFacts DEF CampaignCore, NothingSentBefore, Unsent
<1>7. ASSUME NEW m \in Members
      PROVE  /\ copies'[m] + Cardinality(HoldersOf(m)') <= Cardinality(Batches) + lapses'
             /\ sends[m].status \in {"none", "queued"} => copies'[m] <= lapses'
  <2>1. /\ copies[m] \in Nat /\ copies'[m] \in Nat /\ copies'[m] <= copies[m] + 1
        /\ copies[m] + Cardinality(HoldersOf(m)) <= Cardinality(Batches) + lapses
        /\ sends[m].status \in {"none", "queued"} => copies[m] <= lapses
    BY <1>2, <1>3 DEF CampaignCore, CopiesCounted
  <2>2. HoldersOf(m)' \subseteq HoldersOf(m) /\ HoldersOf(m) \subseteq Batches /\ HoldersOf(m)' \subseteq Batches
    BY <1>4, BatchFacts DEF HoldersOf
  <2>3. /\ Cardinality(HoldersOf(m)') \in Nat /\ Cardinality(HoldersOf(m)) \in Nat
        /\ Cardinality(Batches) \in Nat /\ IsFiniteSet(HoldersOf(m))
    BY <2>2, BatchesCounted
  <2>4. Cardinality(HoldersOf(m)') <= Cardinality(HoldersOf(m))
    BY <2>2, <2>3, FS_Subset
  <2>5. copies'[m] + Cardinality(HoldersOf(m)') <= Cardinality(Batches) + lapses'
    BY <1>1, <1>2, <2>1, <2>3, <2>4
  <2>6. sends[m].status \in {"none", "queued"} => copies'[m] <= lapses'
    BY <1>1, <1>2, <2>1
  <2>7. QED
    BY <2>5, <2>6
<1>8. CopiesCounted'
  BY <1>1, <1>7 DEF CopiesCounted
<1>9. QED
  BY <1>5, <1>6, <1>8 DEF CampaignCore

LEMMA CampaignMoves == CampaignCore /\ [CampaignNext]_campaignVars => CampaignCore'
<1> SUFFICES ASSUME CampaignCore, [CampaignNext]_campaignVars PROVE CampaignCore'
  OBVIOUS
<1>1. CASE UNCHANGED campaignVars
  BY <1>1, CopiesKept DEF campaignVars, CampaignCore, CampaignTypes, NothingSentBefore, Unsent
<1>2. ASSUME NEW b \in Batches, NEW q \in Requests, HandleTicket(b, q)
      PROVE  CampaignCore'
  BY <1>2, HandleTicketSafe
<1>3. ASSUME NEW b \in Batches, StartBatch(b)
      PROVE  CampaignCore'
  BY <1>3, StartBatchSafe
<1>4. ASSUME NEW b \in Batches, NEW m \in Members, SendOne(b, m)
      PROVE  CampaignCore'
  BY <1>4, SendOneSafe
<1>5. ASSUME NEW b \in Batches, CampaignCrash(b)
      PROVE  CampaignCore'
  BY <1>5, CampaignCrashSafe
<1>6. QED
  BY <1>1, <1>2, <1>3, <1>4, <1>5, AroundBatchesSafe, BatchMovesSafe DEF CampaignNext

(* A broadcast that ended stays so, unless a request wrote late.             *)
EndedHolds == campaign.ended /\ ~campaign.late => campaign.status \in Ends

LEMMA EndedKept == CampaignCore /\ EndedHolds /\ [CampaignNext]_campaignVars => EndedHolds'
<1> SUFFICES ASSUME CampaignCore, EndedHolds, [CampaignNext]_campaignVars PROVE EndedHolds'
  OBVIOUS
<1>1. campaign \in CampaignRecord
  BY DEF CampaignCore, CampaignTypes
<1>2. CASE campaign' = campaign
  BY <1>2 DEF EndedHolds
<1>3. CASE HourPasses \/ CampaignExecuted
  BY <1>1, <1>3 DEF HourPasses, CampaignExecuted, CampaignRecord, EndedHolds, Ends
<1>4. ASSUME NEW b \in Batches, RecordExecution(b)
      PROVE  EndedHolds'
  BY <1>1, <1>4 DEF RecordExecution, CampaignRecord, EndedHolds, Ends
<1>5. ASSUME NEW b \in Batches, StartBatch(b)
      PROVE  EndedHolds'
  BY <1>2, <1>5, CampaignStatus DEF StartBatch, EndedHolds, Ends
<1>6. ASSUME NEW b \in Batches, NEW q \in Requests, HandleTicket(b, q)
      PROVE  EndedHolds'
  BY <1>2, <1>6, CampaignStatus DEF SetUp, RejectCampaign, HandleTicket, EndedHolds, Ends
<1>7. ASSUME NEW q \in Requests, RequestSend(q)
      PROVE  EndedHolds'
  BY <1>7, LateWrite DEF EndedHolds, Ends
<1>8. \/ campaign' = campaign \/ HourPasses \/ CampaignExecuted
      \/ \E q \in Requests : RequestSend(q)
      \/ \E b \in Batches : \/ RecordExecution(b) \/ StartBatch(b)
                            \/ \E q \in Requests : HandleTicket(b, q)
  BY DEF CampaignNext, campaignVars, AudienceMoves, ReadDraft, ResolveTicket, FanOut, CountBatch,
         CampaignCrash, SendOne
<1>9. QED
  BY <1>2, <1>3, <1>4, <1>5, <1>6, <1>7, <1>8

CampaignInv == CampaignCore /\ EndedHolds

LEMMA CampaignStarts == CampaignInit => CampaignInv
<1>1. CampaignInit => EndedHolds
  BY DEF CampaignInit, EndedHolds
<1>2. QED
  BY <1>1, CampaignBegins DEF CampaignInv

LEMMA CampaignSteps == CampaignInv /\ [CampaignNext]_campaignVars => CampaignInv'
  BY CampaignMoves, EndedKept DEF CampaignInv

LEMMA CampaignInvShows == CampaignInv => CampaignTypeOK /\ CopiesBounded /\ RejectedSendsNothing
<1> SUFFICES ASSUME CampaignInv PROVE CampaignTypeOK /\ CopiesBounded /\ RejectedSendsNothing
  OBVIOUS
<1>1. CampaignTypeOK
  BY DEF CampaignTypeOK, CampaignInv, CampaignCore, CampaignTypes, CampaignRecord, SendRow, BatchWork
<1>2. ASSUME NEW m \in Members
      PROVE  copies[m] <= Cardinality(Batches) + lapses
  <2>1. HoldersOf(m) \subseteq Batches
    BY DEF HoldersOf
  <2>2. Cardinality(HoldersOf(m)) \in Nat /\ Cardinality(Batches) \in Nat
    BY <2>1, BatchesCounted
  <2>3. /\ copies[m] \in Nat /\ lapses \in Nat
        /\ copies[m] + Cardinality(HoldersOf(m)) <= Cardinality(Batches) + lapses
    BY DEF CampaignInv, CampaignCore, CampaignTypes, CopiesCounted
  <2>4. QED
    BY <2>2, <2>3
<1>3. QED
  BY <1>1, <1>2
  DEF CopiesBounded, RejectedSendsNothing, CampaignInv, CampaignCore, NothingSentBefore, Unsent

(* A member gets no more copies of a broadcast than there are batches at     *)
(* once and crashes, and a broadcast that is rejected, unless the write of a *)
(* request came after it was decided, has sent none (core/campaigns:         *)
(* process_campaign_batch, request_campaign_send, mark_campaign_rejected):    *)
(* for any audience, number of batches, of racing requests and of crashes.    *)
THEOREM CampaignsAlwaysBounded ==
  CampaignSpec => [](CampaignTypeOK /\ CopiesBounded /\ RejectedSendsNothing)
<1>1. QED
  BY CampaignStarts, CampaignSteps, CampaignInvShows, PTL DEF CampaignSpec

(* No step sets an ended broadcast going again, but for a late request's.     *)
LEMMA EndedStays == CampaignInv /\ [CampaignNext]_campaignVars => EndedNeverRestarts
<1> SUFFICES ASSUME CampaignInv, [CampaignNext]_campaignVars, campaign.ended, ~campaign.late
             PROVE  campaign'.status # "executing"
  BY DEF EndedNeverRestarts, CampaignInv, CampaignCore, CampaignTypes, CampaignRecord
<1>1. CampaignCore /\ campaign \in CampaignRecord /\ campaign.status \in Ends
  BY DEF CampaignInv, CampaignCore, CampaignTypes, EndedHolds
<1>2. CASE campaign' = campaign
  BY <1>1, <1>2 DEF Ends
<1>3. CASE HourPasses \/ CampaignExecuted
  <2>1. campaign'.status \in {campaign.status, "executed"}
    BY <1>1, <1>3 DEF HourPasses, CampaignExecuted, CampaignRecord
  <2>2. QED
    BY <1>1, <2>1 DEF Ends
<1>4. ASSUME NEW b \in Batches, RecordExecution(b)
      PROVE  campaign'.status # "executing"
  BY <1>1, <1>4 DEF RecordExecution, CampaignRecord
<1>5. ASSUME NEW b \in Batches, StartBatch(b)
      PROVE  campaign'.status # "executing"
  BY <1>1, <1>2, <1>5, CampaignStatus DEF StartBatch
<1>6. ASSUME NEW b \in Batches, NEW q \in Requests, HandleTicket(b, q)
      PROVE  campaign'.status # "executing"
  BY <1>1, <1>2, <1>6, CampaignStatus DEF SetUp, RejectCampaign, HandleTicket, Ends
<1>7. ASSUME NEW q \in Requests, RequestSend(q)
      PROVE  campaign'.status # "executing"
  BY <1>1, <1>7, LateWrite
<1>8. \/ campaign' = campaign \/ HourPasses \/ CampaignExecuted
      \/ \E q \in Requests : RequestSend(q)
      \/ \E b \in Batches : \/ RecordExecution(b) \/ StartBatch(b)
                            \/ \E q \in Requests : HandleTicket(b, q)
  BY DEF CampaignNext, campaignVars, AudienceMoves, ReadDraft, ResolveTicket, FanOut, CountBatch,
         CampaignCrash, SendOne
<1>9. QED
  BY <1>2, <1>3, <1>4, <1>5, <1>6, <1>7, <1>8

(***************************************************************************)
(* Ingress                                                                 *)
(***************************************************************************)
Transaction == [post : SUBSET Posts, step : Nat, held : SUBSET Senders, new : SUBSET Wamids,
                opened : SUBSET Senders, stopped : SUBSET Senders, sick : SUBSET Wamids]
WorkerState == [at : {"idle", "batch", "tx", "confirming"}, candidates : SUBSET Posts,
                tx : Transaction, owed : SUBSET Senders]
InboundFacts == [emitted : [Wamids -> Nat], open : [Senders -> Nat], stopped : SUBSET Senders,
                 confirmed : [Senders -> Nat], sick : SUBSET Wamids, alerts : Nat]

IngressTypes ==
  /\ webhooks \in [Posts -> {"unseen", "stored", "normalized", "unrouted"}]
  /\ inbound \in InboundFacts /\ worker \in [Workers -> WorkerState] /\ mishaps \in Nat
  /\ IsFiniteSet(inbound.stopped) /\ IsFiniteSet(inbound.sick)
  /\ \A w \in Workers : IsFiniteSet(worker[w].tx.sick)

(* A transaction is of one webhook that is stored, and nobody else's; what a *)
(* worker owes is of one webhook it committed.                               *)
OnePostEach ==
  /\ \A w \in Workers : \/ worker[w].at # "tx" /\ worker[w].tx = NoTx
                        \/ /\ worker[w].at = "tx" /\ worker[w].owed = {}
                           /\ \E p \in Posts : worker[w].tx.post = {p} /\ webhooks[p] = "stored"
  /\ \A w \in Workers : worker[w].at \in {"idle", "batch"} => worker[w].owed = {}
  /\ \A w \in Workers : worker[w].owed = {} \/ \E p \in Posts : worker[w].owed \subseteq Stoppers(p)
  /\ \A w, v \in Workers, p \in Posts :
       worker[w].tx.post = {p} /\ worker[v].tx.post = {p} => w = v

(* A transaction holds the contact of every message it has looked at, and    *)
(* what it found new nobody has committed.                                   *)
Looked(w, p) ==
  LET trx == worker[w].tx IN
  /\ trx.step \in 1..Len(Content[p]) + 1
  /\ \A i \in 1..trx.step - 1 : /\ Content[p][i].from \in trx.held
                               /\ Content[p][i].wamid \in trx.new \cup Ingested
  /\ \A m \in trx.new : m \notin Ingested /\ \E i \in 1..trx.step - 1 : Content[p][i].wamid = m
  /\ trx.opened \subseteq trx.held /\ \A s \in trx.opened : inbound.open[s] = 0
  /\ trx.stopped \subseteq trx.held \cap Stoppers(p) /\ trx.stopped \cap inbound.stopped = {}
  /\ trx.sick \subseteq trx.new
TransactionsApart ==
  /\ \A w \in Workers, p \in Posts : worker[w].tx.post = {p} => Looked(w, p)
  /\ \A w, v \in Workers : w # v => worker[w].tx.held \cap worker[v].tx.held = {}

(* What is committed is committed once.                                      *)
CommittedOnce ==
  /\ \A m \in Wamids : inbound.emitted[m] <= 1
  /\ \A p \in Posts : webhooks[p] = "normalized" =>
       \A i \in DOMAIN Content[p] : inbound.emitted[Content[p][i].wamid] = 1
  /\ \A s \in Senders : inbound.open[s] <= 1
  /\ \A m \in inbound.sick : m \in Ingested
  /\ inbound.alerts = Cardinality(inbound.sick)
ConfirmationsOwed ==
  /\ \A s \in Senders : inbound.confirmed[s] <= 1
  /\ \A s \in Senders : inbound.confirmed[s] = 1 => s \in inbound.stopped
  /\ \A w \in Workers : \A s \in worker[w].owed :
       /\ s \in inbound.stopped /\ inbound.confirmed[s] = 0
       /\ \A v \in Workers \ {w} : s \notin worker[v].owed
  /\ Cardinality(Unconfirmed) <= mishaps * MaxStops

IngressInv == IngressTypes /\ OnePostEach /\ TransactionsApart /\ CommittedOnce /\ ConfirmationsOwed

LEMMA IngressStarts == IngressInit => IngressInv
<1> SUFFICES ASSUME IngressInit PROVE IngressInv
  OBVIOUS
<1>1. /\ NoTx \in Transaction /\ NoTx.post = {} /\ NoTx.held = {} /\ NoTx.sick = {}
      /\ Idle0 \in WorkerState /\ Idle0.at = "idle" /\ Idle0.tx = NoTx /\ Idle0.owed = {}
  BY DEF NoTx, Transaction, Idle0, WorkerState
<1>2. /\ Nobody \in [Senders -> Nat] /\ \A s \in Senders : Nobody[s] = 0
      /\ [w \in Wamids |-> 0] \in [Wamids -> Nat]
  BY DEF Nobody
<1>3. /\ inbound \in InboundFacts /\ inbound.stopped = {} /\ inbound.sick = {} /\ inbound.alerts = 0
      /\ inbound.open = Nobody /\ inbound.confirmed = Nobody
      /\ \A m \in Wamids : inbound.emitted[m] = 0
  BY <1>2 DEF IngressInit, InboundFacts
<1>4. /\ worker \in [Workers -> WorkerState] /\ mishaps = 0
      /\ \A w \in Workers : worker[w] = Idle0
      /\ webhooks \in [Posts -> {"unseen", "stored", "normalized", "unrouted"}]
      /\ \A p \in Posts : webhooks[p] = "unseen"
  BY <1>1 DEF IngressInit
<1>5. IsFiniteSet({}) /\ Cardinality({}) = 0
  BY FS_EmptySet
<1>6. IngressTypes
  BY <1>1, <1>3, <1>4, <1>5 DEF IngressTypes
<1>7. OnePostEach
  BY <1>1, <1>4 DEF OnePostEach
<1>8. TransactionsApart
  BY <1>1, <1>4 DEF TransactionsApart
<1>9. CommittedOnce
  BY <1>2, <1>3, <1>4, <1>5 DEF CommittedOnce
<1>10. ConfirmationsOwed
  BY <1>1, <1>2, <1>3, <1>4, <1>5, IngressAssumption DEF Unconfirmed, ConfirmationsOwed
<1>11. QED
  BY <1>6, <1>7, <1>8, <1>9, <1>10 DEF IngressInv

LEMMA NothingHeld ==
  /\ NoTx \in Transaction /\ NoTx.post = {} /\ NoTx.step = 1 /\ NoTx.held = {} /\ NoTx.new = {}
  /\ NoTx.opened = {} /\ NoTx.stopped = {} /\ NoTx.sick = {}
  /\ Idle0 \in WorkerState /\ Idle0.at = "idle" /\ Idle0.tx = NoTx /\ Idle0.owed = {}
BY DEF NoTx, Transaction, Idle0, WorkerState

(* A worker that has no transaction after its step: it began none, or let    *)
(* the one it had roll back.                                                 *)
LEMMA TransactionDropped ==
  ASSUME IngressInv, NEW w \in Workers, inbound' = inbound,
         worker' \in [Workers -> WorkerState], \A v \in Workers : v # w => worker'[v] = worker[v],
         worker'[w].tx = NoTx, worker'[w].at # "tx", worker'[w].owed \subseteq worker[w].owed,
         worker'[w].at \in {"idle", "batch"} => worker'[w].owed = {},
         webhooks' \in [Posts -> {"unseen", "stored", "normalized", "unrouted"}],
         \A p \in Posts : \/ webhooks'[p] = webhooks[p]
                          \/ worker[w].tx.post = {p} /\ webhooks'[p] = "unrouted",
         mishaps' \in Nat, Cardinality(Unconfirmed') <= mishaps' * MaxStops
  PROVE  IngressInv'
<1>1. IngressTypes'
  <2>1. IsFiniteSet(worker'[w].tx.sick)
    BY NothingHeld, FS_EmptySet
  <2>2. QED
    BY <2>1 DEF IngressInv, IngressTypes
<1>2. OnePostEach'  BY SMTT(30), NothingHeld DEF IngressInv, OnePostEach
<1>3. TransactionsApart'  BY NothingHeld DEF IngressInv, TransactionsApart, Looked, Ingested
<1>4. CommittedOnce'
  BY DEF IngressInv, CommittedOnce, Ingested
<1>5. ConfirmationsOwed'  BY DEF IngressInv, ConfirmationsOwed
<1>6. QED
  BY <1>1, <1>2, <1>3, <1>4, <1>5 DEF IngressInv

(* What a step leaves owed and confirmed, it leaves accounted for.           *)
LEMMA NothingLost ==
  ASSUME IngressInv, inbound' = inbound, mishaps' = mishaps \/ mishaps' = mishaps + 1,
         \A v \in Workers : worker'[v].owed = worker[v].owed
  PROVE  mishaps' \in Nat /\ Cardinality(Unconfirmed') <= mishaps' * MaxStops
<1>1. Unconfirmed' = Unconfirmed
  BY DEF Unconfirmed
<1>2. /\ mishaps \in Nat /\ MaxStops \in Nat /\ Cardinality(Unconfirmed) <= mishaps * MaxStops
      /\ Cardinality(Unconfirmed) \in Nat
  BY FS_Subset, FS_CardinalityType, IngressAssumption DEF Unconfirmed, IngressInv,
     IngressTypes, ConfirmationsOwed
<1> DEFINE n == Cardinality(Unconfirmed)
<1>3. n \in Nat /\ n <= mishaps * MaxStops
  BY <1>2
<1> HIDE DEF n
<1>4. (mishaps + 1) * MaxStops = mishaps * MaxStops + MaxStops
  BY <1>2
<1>5. n <= (mishaps + 1) * MaxStops  BY <1>2, <1>3, <1>4
<1>6. n <= mishaps' * MaxStops
  BY <1>3, <1>5
<1>7. QED
  BY <1>1, <1>2, <1>6 DEF n

(* A mishap loses what one worker owed at most.                              *)
LEMMA LossesCounted ==
  ASSUME IngressInv, NEW w \in Workers, inbound' = inbound, mishaps' = mishaps + 1,
         \A v \in Workers : v # w => worker'[v].owed = worker[v].owed
  PROVE  mishaps' \in Nat /\ Cardinality(Unconfirmed') <= mishaps' * MaxStops
<1>1. Unconfirmed' \subseteq Unconfirmed \cup worker[w].owed
  BY DEF Unconfirmed
<1>2. IsFiniteSet(worker[w].owed) /\ Cardinality(worker[w].owed) <= MaxStops
  BY FS_EmptySet, IngressAssumption, FS_Subset, FS_CardinalityType DEF IngressInv, OnePostEach
<1>3. IsFiniteSet(Unconfirmed) /\ Cardinality(Unconfirmed) <= mishaps * MaxStops
  BY FS_Subset DEF Unconfirmed, IngressInv, IngressTypes, ConfirmationsOwed
<1> DEFINE before == Cardinality(Unconfirmed)
           owed == Cardinality(worker[w].owed)
           after == Cardinality(Unconfirmed')
           both == Cardinality(Unconfirmed \cup worker[w].owed)
           shared == Cardinality(Unconfirmed \cap worker[w].owed)
<1>4. /\ IsFiniteSet(Unconfirmed \cup worker[w].owed) /\ both = before + owed - shared
      /\ IsFiniteSet(Unconfirmed \cap worker[w].owed)
  BY <1>2, <1>3, FS_Union, FS_Intersection
<1>5. after <= both /\ after \in Nat
  BY <1>1, <1>4, FS_Subset, FS_CardinalityType
<1>6. before \in Nat /\ owed \in Nat /\ shared \in Nat /\ before <= mishaps * MaxStops /\ owed <= MaxStops
  BY <1>2, <1>3, <1>4, FS_CardinalityType
<1> HIDE DEF before, owed, after, both, shared
<1>7. mishaps \in Nat /\ MaxStops \in Nat
  BY IngressAssumption DEF IngressInv, IngressTypes
<1>8. (mishaps + 1) * MaxStops = mishaps * MaxStops + MaxStops /\ mishaps * MaxStops \in Nat
  BY <1>7
<1>9. after <= (mishaps + 1) * MaxStops
  BY <1>4, <1>5, <1>6, <1>7, <1>8
<1>10. QED
  BY <1>7, <1>9 DEF after

LEMMA PostSafe ==
  ASSUME IngressInv, NEW p \in Posts, Post(p)
  PROVE  IngressInv'
<1>1. /\ webhooks[p] = "unseen" /\ webhooks' = [webhooks EXCEPT ![p] = "stored"]
      /\ UNCHANGED <<inbound, worker, mishaps>>
  BY DEF Post
<1>2. /\ webhooks' \in [Posts -> {"unseen", "stored", "normalized", "unrouted"}]
      /\ \A q \in Posts : webhooks'[q] = webhooks[q] \/ (webhooks[q] = "unseen" /\ webhooks'[q] = "stored")
  BY <1>1 DEF IngressInv, IngressTypes
<1>3. IngressTypes' /\ CommittedOnce'
  BY <1>1, <1>2 DEF IngressInv, IngressTypes, CommittedOnce, Ingested
<1>4. OnePostEach'  BY <1>1, <1>2 DEF IngressInv, OnePostEach
<1>5. TransactionsApart' /\ ConfirmationsOwed'
  BY <1>1 DEF IngressInv, TransactionsApart, Looked, Ingested, ConfirmationsOwed, Unconfirmed
<1>6. QED
  BY <1>3, <1>4, <1>5 DEF IngressInv

(* Everything but what is read from `connected` is as it was.                *)
LEMMA InvStays ==
  ASSUME IngressInv, UNCHANGED <<webhooks, inbound, worker, mishaps>>
  PROVE  IngressInv'
<1>1. IngressTypes' /\ OnePostEach'
  BY DEF IngressInv, IngressTypes, OnePostEach
<1>2. CommittedOnce' /\ TransactionsApart' /\ ConfirmationsOwed'
  BY DEF IngressInv, TransactionsApart, Looked, Ingested, ConfirmationsOwed, Unconfirmed, CommittedOnce
<1>3. QED
  BY <1>1, <1>2 DEF IngressInv

LEMMA WorkerFacts ==
  ASSUME IngressInv, NEW w \in Workers
  PROVE  /\ worker[w] \in WorkerState /\ worker \in [Workers -> WorkerState]
         /\ worker[w].at \in {"idle", "batch"} => worker[w].owed = {}
         /\ worker[w].at # "tx" => worker[w].tx = NoTx
         /\ worker[w].at = "tx" => worker[w].owed = {}
BY DEF IngressInv, IngressTypes, OnePostEach

LEMMA BatchStepsSafe ==
  ASSUME IngressInv, NEW w \in Workers, Scan(w) \/ EndBatch(w)
  PROVE  IngressInv'
<1>1. UNCHANGED <<webhooks, inbound, mishaps>>
  BY DEF Scan, EndBatch
<1>2. /\ worker[w] \in WorkerState /\ worker \in [Workers -> WorkerState]
      /\ worker[w].at \in {"idle", "batch"} /\ worker[w].owed = {}
  BY NothingHeld, WorkerFacts DEF Scan, EndBatch
<1> DEFINE work == [Idle0 EXCEPT !.at = "batch", !.candidates = {p \in Posts : webhooks[p] = "stored"}]
<1>3. work \in WorkerState /\ work.tx = NoTx /\ work.at = "batch" /\ work.owed = {}
  BY NothingHeld DEF WorkerState
<1>4. worker' = [worker EXCEPT ![w] = work] \/ worker' = [worker EXCEPT ![w] = Idle0]
  BY DEF Scan, EndBatch
<1> HIDE DEF work
<1>5. /\ worker' \in [Workers -> WorkerState] /\ \A v \in Workers : v # w => worker'[v] = worker[v]
      /\ worker'[w].tx = NoTx /\ worker'[w].at # "tx" /\ worker'[w].owed = {}
  BY <1>2, <1>3, <1>4, NothingHeld
<1>6. \A v \in Workers : worker'[v].owed = worker[v].owed
  BY <1>2, <1>5
<1>7. mishaps' \in Nat /\ Cardinality(Unconfirmed') <= mishaps' * MaxStops
  BY <1>1, <1>6, NothingLost
<1>8. webhooks \in [Posts -> {"unseen", "stored", "normalized", "unrouted"}]
  BY DEF IngressInv, IngressTypes
<1>9. QED
  BY <1>1, <1>5, <1>7, <1>8, TransactionDropped

LEMMA RolledBackSafe ==
  ASSUME IngressInv, NEW w \in Workers, Unrouted(w) \/ AbortPost(w) \/ DeadlockVictim(w)
  PROVE  IngressInv'
<1>1. /\ inbound' = inbound /\ worker[w].at = "tx"
      /\ mishaps' = mishaps \/ mishaps' = mishaps + 1
      /\ worker' = [worker EXCEPT ![w].tx = NoTx, ![w].at = "batch"]
         \/ worker' = [worker EXCEPT ![w].at = "batch", ![w].tx = NoTx]
  BY DEF Unrouted, AbortPost, DeadlockVictim, Waits
<1>2. worker[w] \in WorkerState /\ worker \in [Workers -> WorkerState] /\ worker[w].owed = {}
  BY <1>1, WorkerFacts
<1>3. /\ worker' \in [Workers -> WorkerState] /\ \A v \in Workers : v # w => worker'[v] = worker[v]
      /\ worker'[w].tx = NoTx /\ worker'[w].at = "batch" /\ worker'[w].owed = {}
  BY <1>1, <1>2, NothingHeld DEF WorkerState
<1>4. \A v \in Workers : worker'[v].owed = worker[v].owed
  BY <1>2, <1>3
<1>5. mishaps' \in Nat /\ Cardinality(Unconfirmed') <= mishaps' * MaxStops
  BY <1>1, <1>4, NothingLost
<1>6. /\ webhooks' \in [Posts -> {"unseen", "stored", "normalized", "unrouted"}]
      /\ \A p \in Posts : \/ webhooks'[p] = webhooks[p]
                          \/ worker[w].tx.post = {p} /\ webhooks'[p] = "unrouted"
  BY DEF Unrouted, AbortPost, DeadlockVictim, IngressInv, IngressTypes
<1>7. QED
  BY <1>1, <1>3, <1>5, <1>6, TransactionDropped

LEMMA WorkerDiesSafe ==
  ASSUME IngressInv, NEW w \in Workers, WorkerDies(w)
  PROVE  IngressInv'
<1>1. /\ inbound' = inbound /\ webhooks' = webhooks /\ mishaps' = mishaps + 1
      /\ worker' = [worker EXCEPT ![w] = Idle0]
  BY DEF WorkerDies
<1>2. /\ worker' \in [Workers -> WorkerState] /\ \A v \in Workers : v # w => worker'[v] = worker[v]
      /\ worker'[w].tx = NoTx /\ worker'[w].at # "tx" /\ worker'[w].owed = {}
  BY <1>1, WorkerFacts, NothingHeld
<1>3. mishaps' \in Nat /\ Cardinality(Unconfirmed') <= mishaps' * MaxStops
  BY <1>1, <1>2, LossesCounted
<1>4. webhooks \in [Posts -> {"unseen", "stored", "normalized", "unrouted"}]
  BY DEF IngressInv, IngressTypes
<1>5. QED
  BY <1>1, <1>2, <1>3, <1>4, TransactionDropped

(* A worker crosses one sender off what it owes.                             *)
LEMMA CrossedOff ==
  ASSUME IngressInv, NEW w \in Workers, NEW s \in Senders, worker[w].at = "confirming", s \in worker[w].owed,
         worker' = [worker EXCEPT ![w].owed = @ \ {s},
                                  ![w].at = IF worker[w].owed = {s} THEN "batch" ELSE @]
  PROVE  /\ worker' \in [Workers -> WorkerState] /\ \A v \in Workers : v # w => worker'[v] = worker[v]
         /\ worker'[w].tx = NoTx /\ worker'[w].at \in {"batch", "confirming"}
         /\ worker'[w].owed = worker[w].owed \ {s}
         /\ worker'[w].at \in {"idle", "batch"} => worker'[w].owed = {}
<1>1. worker[w] \in WorkerState /\ worker \in [Workers -> WorkerState] /\ worker[w].tx = NoTx
  BY WorkerFacts
<1> DEFINE next == IF worker[w].owed = {s} THEN "batch" ELSE "confirming"
           work == [[worker[w] EXCEPT !.owed = worker[w].owed \ {s}] EXCEPT !.at = next]
<1>2. worker' = [worker EXCEPT ![w] = work]
  BY <1>1 DEF WorkerState
<1>3. next \in {"batch", "confirming"} /\ (next = "batch" => worker[w].owed \ {s} = {})
  OBVIOUS
<1> HIDE DEF next
<1>4. /\ work \in WorkerState /\ work.tx = NoTx /\ work.at = next /\ work.owed = worker[w].owed \ {s}
  BY <1>1, <1>3 DEF WorkerState
<1> HIDE DEF work
<1>5. QED
  BY <1>1, <1>2, <1>3, <1>4

LEMMA RefuseConfirmationSafe ==
  ASSUME IngressInv, NEW w \in Workers, NEW s \in Senders, RefuseConfirmation(w, s)
  PROVE  IngressInv'
<1>1. /\ inbound' = inbound /\ webhooks' = webhooks /\ mishaps' = mishaps + 1
      /\ worker[w].at = "confirming" /\ s \in worker[w].owed
      /\ worker' = [worker EXCEPT ![w].owed = @ \ {s},
                                  ![w].at = IF worker[w].owed = {s} THEN "batch" ELSE @]
  BY DEF RefuseConfirmation
<1>2. /\ worker' \in [Workers -> WorkerState] /\ \A v \in Workers : v # w => worker'[v] = worker[v]
      /\ worker'[w].tx = NoTx /\ worker'[w].at \in {"batch", "confirming"}
      /\ worker'[w].owed = worker[w].owed \ {s}
      /\ worker'[w].at \in {"idle", "batch"} => worker'[w].owed = {}
  BY <1>1, CrossedOff
<1>3. mishaps' \in Nat /\ Cardinality(Unconfirmed') <= mishaps' * MaxStops
  BY <1>1, <1>2, LossesCounted
<1>4. webhooks \in [Posts -> {"unseen", "stored", "normalized", "unrouted"}]
  BY DEF IngressInv, IngressTypes
<1>5. QED
  BY <1>1, <1>2, <1>3, <1>4, TransactionDropped

LEMMA ConfirmStopSafe ==
  ASSUME IngressInv, NEW w \in Workers, NEW s \in Senders, ConfirmStop(w, s)
  PROVE  IngressInv'
<1>1. /\ inbound' = [inbound EXCEPT !.confirmed[s] = @ + 1] /\ UNCHANGED <<webhooks, mishaps>>
      /\ worker[w].at = "confirming" /\ s \in worker[w].owed
      /\ worker' = [worker EXCEPT ![w].owed = @ \ {s},
                                  ![w].at = IF worker[w].owed = {s} THEN "batch" ELSE @]
  BY DEF ConfirmStop
<1>2. /\ worker' \in [Workers -> WorkerState] /\ \A v \in Workers : v # w => worker'[v] = worker[v]
      /\ worker'[w].tx = NoTx /\ worker'[w].at \in {"batch", "confirming"}
      /\ worker'[w].owed = worker[w].owed \ {s}
      /\ worker'[w].at \in {"idle", "batch"} => worker'[w].owed = {}
  BY <1>1, CrossedOff
<1>3. /\ s \in inbound.stopped /\ inbound.confirmed[s] = 0
      /\ \A v \in Workers \ {w} : s \notin worker[v].owed
  BY <1>1 DEF IngressInv, ConfirmationsOwed
<1>4. /\ inbound' \in InboundFacts /\ inbound'.confirmed = [inbound.confirmed EXCEPT ![s] = 1]
      /\ inbound'.emitted = inbound.emitted /\ inbound'.open = inbound.open
      /\ inbound'.stopped = inbound.stopped /\ inbound'.sick = inbound.sick
      /\ inbound'.alerts = inbound.alerts
  BY <1>1, <1>3 DEF IngressInv, IngressTypes, InboundFacts
<1>5. \A r \in Senders : inbound'.confirmed[r] = IF r = s THEN 1 ELSE inbound.confirmed[r]
  BY <1>4 DEF IngressInv, IngressTypes, InboundFacts
<1>6. Ingested' = Ingested
  BY <1>4 DEF Ingested
<1>7. IngressTypes'
  BY <1>1, <1>2, <1>4, NothingHeld, FS_EmptySet DEF IngressInv, IngressTypes
<1>8. OnePostEach'  BY <1>1, <1>2, NothingHeld DEF IngressInv, OnePostEach
<1>9. TransactionsApart'
  BY <1>2, <1>4, <1>6, NothingHeld DEF IngressInv, TransactionsApart, Looked
<1>10. CommittedOnce'
  BY <1>1, <1>4, <1>6 DEF IngressInv, CommittedOnce
<1>11. ConfirmationsOwed'
  <2>1. \A r \in Senders : inbound'.confirmed[r] <= 1 /\ (inbound'.confirmed[r] = 1 => r \in inbound'.stopped)
    BY <1>3, <1>4, <1>5 DEF IngressInv, ConfirmationsOwed
  <2>2. ASSUME NEW v \in Workers, NEW r \in worker'[v].owed
        PROVE  /\ r \in inbound'.stopped /\ inbound'.confirmed[r] = 0
               /\ \A u \in Workers \ {v} : r \notin worker'[u].owed
    <3>1. r \in worker[v].owed /\ r # s /\ r \in Senders
      BY <1>2, <1>3 DEF IngressInv, IngressTypes, WorkerState
    <3>2. \A u \in Workers : worker'[u].owed \subseteq worker[u].owed
      BY <1>2
    <3>3. QED
      BY <1>4, <1>5, <3>1, <3>2 DEF IngressInv, ConfirmationsOwed
  <2>3. Unconfirmed' \subseteq Unconfirmed
    BY <1>2, <1>4, <1>5 DEF Unconfirmed, IngressInv, IngressTypes, InboundFacts
  <2>4. Unconfirmed \subseteq inbound.stopped /\ IsFiniteSet(inbound.stopped)
    BY DEF Unconfirmed, IngressInv, IngressTypes
  <2>5. /\ Cardinality(Unconfirmed') <= Cardinality(Unconfirmed)
        /\ Cardinality(Unconfirmed') \in Nat /\ Cardinality(Unconfirmed) \in Nat
    BY <2>3, <2>4, FS_Subset, FS_CardinalityType
  <2>6. mishaps' * MaxStops \in Nat /\ Cardinality(Unconfirmed) <= mishaps' * MaxStops
    BY <1>1, IngressAssumption DEF IngressInv, IngressTypes, ConfirmationsOwed
  <2>7. Cardinality(Unconfirmed') <= mishaps' * MaxStops
    BY <2>5, <2>6
  <2>8. QED
    BY <2>1, <2>2, <2>7 DEF ConfirmationsOwed
<1>12. QED
  BY <1>7, <1>8, <1>9, <1>10, <1>11 DEF IngressInv

LEMMA ContentLength == \A p \in Posts : Len(Content[p]) \in Nat /\ DOMAIN Content[p] = 1..Len(Content[p])
<1> DEFINE Messages == [wamid : Wamids, from : Senders, kind : STRING]
<1>1. Content \in [Posts -> Seq(Messages)]
  BY IngressAssumption
<1> HIDE DEF Messages
<1>2. QED
  BY <1>1

(* The messages a worker is in the middle of are those of the one webhook    *)
(* its transaction holds.                                                    *)
LEMMA WhatItReads ==
  ASSUME IngressInv, NEW w \in Workers, NEW p \in Posts, worker[w].tx.post = {p}
  PROVE  /\ Message(w) = Content[p][worker[w].tx.step] /\ Length(w) = Len(Content[p])
         /\ Looked(w, p) /\ worker[w].at = "tx" /\ worker[w].owed = {} /\ webhooks[p] = "stored"
<1>1. (CHOOSE q \in Posts : worker[w].tx.post = {q}) = p  OBVIOUS
<1>2. worker[w].at = "tx" /\ worker[w].owed = {} /\ webhooks[p] = "stored"
  BY NothingHeld DEF IngressInv, OnePostEach
<1>3. QED
  BY <1>1, <1>2 DEF Message, Length, IngressInv, TransactionsApart

LEMMA ClaimPostSafe ==
  ASSUME IngressInv, NEW w \in Workers, NEW p \in Posts, ClaimPost(w, p)
  PROVE  IngressInv'
<1>1. UNCHANGED <<webhooks, inbound, mishaps>> /\ worker[w].at = "batch"
  BY DEF ClaimPost
<1>2. /\ worker[w] \in WorkerState /\ worker \in [Workers -> WorkerState]
      /\ worker[w].owed = {} /\ worker[w].tx = NoTx
  BY <1>1, WorkerFacts
<1>3. CASE ~(webhooks[p] = "stored" /\ ~Locked(p))
  <2> DEFINE work == [worker[w] EXCEPT !.candidates = worker[w].candidates \ {p}]
  <2>1. work \in WorkerState /\ work.tx = NoTx /\ work.at = "batch" /\ work.owed = {}
    BY <1>1, <1>2 DEF WorkerState
  <2>2. worker' = [worker EXCEPT ![w] = work]
    BY <1>2, <1>3 DEF ClaimPost, WorkerState
  <2> HIDE DEF work
  <2>3. /\ worker' \in [Workers -> WorkerState] /\ \A v \in Workers : v # w => worker'[v] = worker[v]
        /\ worker'[w].tx = NoTx /\ worker'[w].at # "tx" /\ worker'[w].owed = {}
    BY <1>2, <2>1, <2>2
  <2>4. \A v \in Workers : worker'[v].owed = worker[v].owed
    BY <1>2, <2>3
  <2>5. mishaps' \in Nat /\ Cardinality(Unconfirmed') <= mishaps' * MaxStops
    BY <1>1, <2>4, NothingLost
  <2>6. webhooks \in [Posts -> {"unseen", "stored", "normalized", "unrouted"}]
    BY DEF IngressInv, IngressTypes
  <2>7. QED
    BY <1>1, <2>3, <2>5, <2>6, TransactionDropped
<1>4. CASE webhooks[p] = "stored" /\ ~Locked(p)
  <2> DEFINE begun == [NoTx EXCEPT !.post = {p}]
             work == [[[worker[w] EXCEPT !.candidates = worker[w].candidates \ {p}]
                       EXCEPT !.at = "tx"] EXCEPT !.tx = begun]
  <2>1. /\ begun \in Transaction /\ begun.post = {p} /\ begun.step = 1 /\ begun.held = {}
        /\ begun.new = {} /\ begun.opened = {} /\ begun.stopped = {} /\ begun.sick = {}
    BY NothingHeld DEF Transaction
  <2>2. worker' = [worker EXCEPT ![w] = work]
    BY <1>2, <1>4 DEF ClaimPost, WorkerState
  <2> HIDE DEF begun
  <2>3. work \in WorkerState /\ work.tx = begun /\ work.at = "tx" /\ work.owed = {}
    BY <1>2, <2>1 DEF WorkerState
  <2> HIDE DEF work
  <2>4. /\ worker' \in [Workers -> WorkerState] /\ \A v \in Workers : v # w => worker'[v] = worker[v]
        /\ worker'[w].tx = begun /\ worker'[w].at = "tx" /\ worker'[w].owed = {}
    BY <1>2, <2>2, <2>3
  <2>5. IngressTypes'
    BY <1>1, <2>1, <2>4, FS_EmptySet DEF IngressInv, IngressTypes
  <2>6. \A v \in Workers : worker[v].tx.post # {p}
    BY <1>4 DEF Locked
  <2>7. OnePostEach'
    <3>1. ASSUME NEW v \in Workers
          PROVE  \/ worker'[v].at # "tx" /\ worker'[v].tx = NoTx
                 \/ /\ worker'[v].at = "tx" /\ worker'[v].owed = {}
                    /\ \E q \in Posts : worker'[v].tx.post = {q} /\ webhooks'[q] = "stored"
      BY <1>1, <1>4, <2>1, <2>4 DEF IngressInv, OnePostEach
    <3>2. ASSUME NEW v \in Workers
          PROVE  /\ worker'[v].at \in {"idle", "batch"} => worker'[v].owed = {}
                 /\ worker'[v].owed = {} \/ \E q \in Posts : worker'[v].owed \subseteq Stoppers(q)
      BY <2>4 DEF IngressInv, OnePostEach
    <3>3. ASSUME NEW v \in Workers, NEW u \in Workers, NEW q \in Posts,
                 worker'[v].tx.post = {q}, worker'[u].tx.post = {q}
          PROVE  v = u
      <4>1. v = w => q = p
        BY <2>1, <2>4, <3>3
      <4>2. u = w => q = p
        BY <2>1, <2>4, <3>3
      <4>3. QED
        BY <2>4, <2>6, <3>3, <4>1, <4>2 DEF IngressInv, OnePostEach
    <3>4. QED
      BY <3>1, <3>2, <3>3 DEF OnePostEach
  <2>8. TransactionsApart'
    BY SMTT(30), <1>1, <2>1, <2>4, ContentLength DEF Looked, IngressInv, TransactionsApart, Ingested
  <2>9. CommittedOnce'
    BY <1>1 DEF IngressInv, CommittedOnce, Ingested
  <2>10. ConfirmationsOwed'
    <3>1. \A v \in Workers : worker'[v].owed = worker[v].owed
      BY <1>2, <2>4
    <3>2. Unconfirmed' = Unconfirmed
      BY <1>1, <3>1 DEF Unconfirmed
    <3>3. QED
      BY <1>1, <3>1, <3>2 DEF IngressInv, ConfirmationsOwed
  <2>11. QED
    BY <2>5, <2>7, <2>8, <2>9, <2>10 DEF IngressInv
<1>5. QED
  BY <1>3, <1>4

(* One message of a webhook: the transaction after it.                       *)
LEMMA OneMoreMessage ==
  ASSUME IngressInv, NEW w \in Workers, NormalizeMessage(w)
  PROVE  \E p \in Posts : LET trx == worker[w].tx
                              done == worker'[w].tx
                              m == Content[p][trx.step] IN
           /\ trx.post = {p} /\ trx.step \in 1..Len(Content[p]) /\ m.from \in Senders /\ m.wamid \in Wamids
           /\ worker' \in [Workers -> WorkerState] /\ \A v \in Workers : v # w => worker'[v] = worker[v]
           /\ worker'[w].at = "tx" /\ worker'[w].owed = {}
           /\ done.post = {p} /\ done.step = trx.step + 1 /\ done.held = trx.held \cup {m.from}
           /\ done.new = IF IsNew(w, m.wamid) THEN trx.new \cup {m.wamid} ELSE trx.new
           /\ done.opened \subseteq trx.opened \cup {m.from}
           /\ inbound.open[m.from] = 0 \/ done.opened = trx.opened
           /\ done.stopped \subseteq trx.stopped \cup {m.from}
           /\ (m.kind = "stop" /\ m.from \notin inbound.stopped) \/ done.stopped = trx.stopped
           /\ done.sick = trx.sick \/ (IsNew(w, m.wamid) /\ done.sick = trx.sick \cup {m.wamid})
           /\ IsFiniteSet(done.sick) /\ UNCHANGED <<webhooks, inbound, mishaps>>
<1>1. worker[w].at = "tx"
  BY DEF NormalizeMessage
<1>2. PICK p \in Posts : worker[w].tx.post = {p}
  BY <1>1 DEF IngressInv, OnePostEach
<1> DEFINE trx == worker[w].tx
           m == Content[p][trx.step]
<1>3. Message(w) = m /\ Length(w) = Len(Content[p]) /\ trx.step \in 1..Len(Content[p]) + 1 /\ worker[w].owed = {}
  BY <1>2, WhatItReads DEF Looked
<1>4. trx.step \in 1..Len(Content[p])
  <2>1. trx.step <= Length(w)
    BY DEF NormalizeMessage
  <2>2. PICK n, k : n = Len(Content[p]) /\ k = trx.step
    OBVIOUS
  <2>3. n \in Nat /\ k \in 1..n + 1 /\ k <= n
    BY <1>3, <2>1, <2>2, ContentLength
  <2>4. k \in 1..n
    BY <2>3
  <2>5. QED
    BY <2>2, <2>4
<1>5. m.from \in Senders /\ m.wamid \in Wamids
  <2> DEFINE Messages == [wamid : Wamids, from : Senders, kind : STRING]
  <2>1. Content[p] \in Seq(Messages)
    BY IngressAssumption
  <2>2. \A x \in Messages : x.from \in Senders /\ x.wamid \in Wamids
    OBVIOUS
  <2> HIDE DEF Messages
  <2>3. m \in Messages
    BY <1>4, <2>1
  <2>4. QED
    BY <2>2, <2>3
<1>6. PICK unfetched \in {m.kind = "media" /\ IsNew(w, m.wamid), FALSE} :
        /\ worker' = [worker EXCEPT
               ![w].tx = [trx EXCEPT
                 !.step = trx.step + 1,
                 !.held = trx.held \cup {m.from},
                 !.opened = IF inbound.open[m.from] = 0 THEN trx.opened \cup {m.from} ELSE trx.opened,
                 !.new = IF IsNew(w, m.wamid) THEN trx.new \cup {m.wamid} ELSE trx.new,
                 !.stopped = IF IsNew(w, m.wamid) /\ m.kind = "stop" /\ NewlyStopped(w, m.from)
                             THEN trx.stopped \cup {m.from} ELSE trx.stopped,
                 !.sick = IF unfetched THEN trx.sick \cup {m.wamid} ELSE trx.sick]]
        /\ inbound' = inbound
  BY ZenonT(60), <1>3 DEF NormalizeMessage, Quarantined
<1>7. unfetched => IsNew(w, m.wamid)
  BY <1>6
<1>8. UNCHANGED <<webhooks, mishaps>>
  BY DEF NormalizeMessage
<1>9. /\ worker[w] \in WorkerState /\ worker \in [Workers -> WorkerState] /\ trx \in Transaction
      /\ IsFiniteSet(trx.sick)
  BY DEF IngressInv, IngressTypes, WorkerState
<1> DEFINE step == trx.step + 1
           held == trx.held \cup {m.from}
           opened == IF inbound.open[m.from] = 0 THEN trx.opened \cup {m.from} ELSE trx.opened
           new == IF IsNew(w, m.wamid) THEN trx.new \cup {m.wamid} ELSE trx.new
           stopped == IF IsNew(w, m.wamid) /\ m.kind = "stop" /\ NewlyStopped(w, m.from)
                      THEN trx.stopped \cup {m.from} ELSE trx.stopped
           sick == IF unfetched THEN trx.sick \cup {m.wamid} ELSE trx.sick
           done == [trx EXCEPT !.step = step, !.held = held, !.opened = opened,
                              !.new = new, !.stopped = stopped, !.sick = sick]
<1>10. worker' = [worker EXCEPT ![w].tx = done]
  BY <1>6
<1>11. /\ opened \subseteq trx.opened \cup {m.from} /\ (inbound.open[m.from] = 0 \/ opened = trx.opened)
       /\ stopped \subseteq trx.stopped \cup {m.from}
       /\ (m.kind = "stop" /\ m.from \notin inbound.stopped) \/ stopped = trx.stopped
       /\ sick = trx.sick \/ (IsNew(w, m.wamid) /\ sick = trx.sick \cup {m.wamid})
       /\ new = IF IsNew(w, m.wamid) THEN trx.new \cup {m.wamid} ELSE trx.new
  BY <1>7 DEF NewlyStopped
<1>12. IsFiniteSet(sick)
  <2>1. IsFiniteSet(trx.sick \cup {m.wamid})
    BY <1>9, FS_AddElement
  <2>2. QED
    BY <1>9, <1>11, <2>1
<1>13. opened \subseteq Senders /\ new \subseteq Wamids /\ stopped \subseteq Senders /\ sick \subseteq Wamids
  BY <1>5, <1>9 DEF Transaction
<1>a. step \in Nat /\ held \subseteq Senders
  BY <1>4, <1>5, <1>9, ContentLength DEF Transaction
<1> HIDE DEF step, held, opened, new, stopped, sick
<1>14. /\ done \in Transaction /\ done.post = {p} /\ done.step = step
       /\ done.held = held /\ done.opened = opened /\ done.new = new
       /\ done.stopped = stopped /\ done.sick = sick
  BY <1>2, <1>9, <1>a, <1>13 DEF Transaction
<1> HIDE DEF done
<1>b. worker' = [worker EXCEPT ![w] = [worker[w] EXCEPT !.tx = done]]
  BY <1>9, <1>10 DEF WorkerState
<1>15. /\ [worker[w] EXCEPT !.tx = done] \in WorkerState
       /\ [worker[w] EXCEPT !.tx = done].tx = done /\ [worker[w] EXCEPT !.tx = done].at = "tx"
       /\ [worker[w] EXCEPT !.tx = done].owed = {}
  BY <1>1, <1>3, <1>9, <1>14 DEF WorkerState
<1>16. /\ worker' \in [Workers -> WorkerState] /\ \A v \in Workers : v # w => worker'[v] = worker[v]
       /\ worker'[w].tx = done /\ worker'[w].at = "tx" /\ worker'[w].owed = {}
  BY <1>9, <1>b, <1>15
<1>17. done.step = trx.step + 1 /\ done.held = trx.held \cup {m.from}
  BY <1>14 DEF step, held
<1>18. QED
  BY <1>2, <1>4, <1>5, <1>6, <1>8, <1>11, <1>12, <1>14, <1>16, <1>17

LEMMA NormalizeMessageSafe ==
  ASSUME IngressInv, NEW w \in Workers, NormalizeMessage(w)
  PROVE  IngressInv'
<1> DEFINE trx == worker[w].tx
           done == worker'[w].tx
<1>1. PICK p \in Posts : LET m == Content[p][trx.step] IN
           /\ trx.post = {p} /\ trx.step \in 1..Len(Content[p]) /\ m.from \in Senders /\ m.wamid \in Wamids
           /\ worker' \in [Workers -> WorkerState] /\ \A v \in Workers : v # w => worker'[v] = worker[v]
           /\ worker'[w].at = "tx" /\ worker'[w].owed = {}
           /\ done.post = {p} /\ done.step = trx.step + 1 /\ done.held = trx.held \cup {m.from}
           /\ done.new = IF IsNew(w, m.wamid) THEN trx.new \cup {m.wamid} ELSE trx.new
           /\ done.opened \subseteq trx.opened \cup {m.from}
           /\ inbound.open[m.from] = 0 \/ done.opened = trx.opened
           /\ done.stopped \subseteq trx.stopped \cup {m.from}
           /\ (m.kind = "stop" /\ m.from \notin inbound.stopped) \/ done.stopped = trx.stopped
           /\ done.sick = trx.sick \/ (IsNew(w, m.wamid) /\ done.sick = trx.sick \cup {m.wamid})
           /\ IsFiniteSet(done.sick) /\ UNCHANGED <<webhooks, inbound, mishaps>>
  BY OneMoreMessage
<1> DEFINE m == Content[p][trx.step]
<1>2. Looked(w, p) /\ worker[w].at = "tx" /\ worker[w].owed = {} /\ webhooks[p] = "stored"
  BY <1>1, WhatItReads
<1>3. Ingested' = Ingested
  BY <1>1 DEF Ingested
<1>4. SenderFree(w, m.from)
  <2>1. Message(w) = m
    BY <1>1, WhatItReads
  <2>2. SenderFree(w, Message(w).from)
    BY DEF NormalizeMessage
  <2>3. QED
    BY <2>1, <2>2
<1>5. IngressTypes'
  BY <1>1 DEF IngressInv, IngressTypes
<1>6. OnePostEach'
  <2>1. ASSUME NEW v \in Workers
        PROVE  \/ worker'[v].at # "tx" /\ worker'[v].tx = NoTx
               \/ /\ worker'[v].at = "tx" /\ worker'[v].owed = {}
                  /\ \E q \in Posts : worker'[v].tx.post = {q} /\ webhooks'[q] = "stored"
    <3>1. CASE v = w
      BY <1>1, <1>2, <3>1
    <3>2. CASE v # w
      <4>1. worker'[v] = worker[v] /\ webhooks' = webhooks
        BY <1>1, <3>2
      <4>2. QED
        BY <4>1 DEF IngressInv, OnePostEach
    <3>3. QED
      BY <3>1, <3>2
  <2>2. ASSUME NEW v \in Workers
        PROVE  /\ worker'[v].at \in {"idle", "batch"} => worker'[v].owed = {}
               /\ worker'[v].owed = {} \/ \E q \in Posts : worker'[v].owed \subseteq Stoppers(q)
    BY <1>1 DEF IngressInv, OnePostEach
  <2>3. ASSUME NEW v \in Workers, NEW u \in Workers, NEW q \in Posts,
               worker'[v].tx.post = {q}, worker'[u].tx.post = {q}
        PROVE  v = u
    <3>1. \A x \in Workers : worker'[x].tx.post = worker[x].tx.post
      BY <1>1
    <3>2. QED
      BY <2>3, <3>1 DEF IngressInv, OnePostEach
  <2>4. QED
    BY <2>1, <2>2, <2>3 DEF OnePostEach
<1>7. Looked(w, p)'
  <2> DEFINE n == trx.step
             len == Len(Content[p])
  <2>a. len \in Nat /\ n \in 1..len /\ done.step = n + 1 /\ DOMAIN Content[p] = 1..len
    BY <1>1, ContentLength
  <2> HIDE DEF n, len
  <2>1. /\ n + 1 \in 1..len + 1 /\ \A i \in 1..(n + 1) - 1 : i \in 1..n - 1 \/ i = n
        /\ \A i \in 1..n - 1 : i \in 1..(n + 1) - 1
        /\ n \in 1..(n + 1) - 1
    BY <2>a
  <2>2. \A i \in 1..n - 1 : Content[p][i].from \in trx.held /\ Content[p][i].wamid \in trx.new \cup Ingested
    BY <1>2 DEF Looked, n
  <2>3. m.from \in done.held /\ m.wamid \in done.new \cup Ingested
    BY <1>1 DEF IsNew
  <2>4. \A i \in 1..done.step - 1 : /\ Content[p][i].from \in done.held
                                    /\ Content[p][i].wamid \in done.new \cup Ingested
    BY <1>1, <2>1, <2>2, <2>3, <2>a DEF n
  <2>5. ASSUME NEW x \in done.new
        PROVE  x \notin Ingested /\ \E i \in 1..done.step - 1 : Content[p][i].wamid = x
    <3>1. CASE x \in trx.new  BY <1>2, <2>1, <3>1, <2>a DEF Looked, n
    <3>2. CASE x \notin trx.new
      <4>1. x = m.wamid /\ x \notin Ingested
        BY <1>1, <2>5, <3>2 DEF IsNew
      <4>2. x = Content[p][n].wamid
        BY <4>1 DEF n
      <4>3. QED
        BY <2>a, <2>1, <4>1, <4>2
    <3>3. QED
      BY <3>1, <3>2
  <2>6. done.opened \subseteq done.held /\ \A s \in done.opened : inbound.open[s] = 0
    BY <1>1, <1>2 DEF Looked
  <2>7. done.stopped \subseteq done.held \cap Stoppers(p) /\ done.stopped \cap inbound.stopped = {}
    <3>1. m.kind = "stop" => m.from \in Stoppers(p)
      BY <2>a DEF Stoppers, n
    <3>2. QED
      BY <1>1, <1>2, <3>1 DEF Looked
  <2>8. done.sick \subseteq done.new
    BY <1>1, <1>2 DEF Looked
  <2>9. done.step \in 1..Len(Content[p]) + 1
    BY <2>a, <2>1 DEF len
  <2>10. QED
    BY <1>1, <1>3, <2>4, <2>5, <2>6, <2>7, <2>8, <2>9 DEF Looked
<1>8. TransactionsApart'
  <2>1. ASSUME NEW v \in Workers, NEW q \in Posts, worker'[v].tx.post = {q}
        PROVE  Looked(v, q)'
    <3>1. CASE v = w  BY <1>1, <1>7, <2>1, <3>1
    <3>2. CASE v # w
      <4>1. worker'[v] = worker[v] /\ Looked(v, q)
        BY <1>1, <2>1, <3>2 DEF IngressInv, TransactionsApart
      <4>2. QED
        BY <1>1, <1>3, <4>1 DEF Looked
    <3>3. QED
      BY <3>1, <3>2
  <2>2. \A v \in Workers : v # w => worker'[v].tx.held \cap done.held = {}
    <3>1. \A v \in Workers : v # w => worker[v].tx.held \cap trx.held = {} /\ m.from \notin worker[v].tx.held
      BY <1>4 DEF IngressInv, TransactionsApart, SenderFree
    <3>2. QED
      BY <1>1, <3>1
  <2>3. ASSUME NEW v \in Workers, NEW u \in Workers, v # u
        PROVE  worker'[v].tx.held \cap worker'[u].tx.held = {}
    BY <1>1, <2>2, <2>3 DEF IngressInv, TransactionsApart
  <2>4. QED
    BY <2>1, <2>3 DEF TransactionsApart
<1>9. CommittedOnce'
  BY <1>1, <1>3 DEF IngressInv, CommittedOnce
<1>10. ConfirmationsOwed'  BY <1>1, <1>2 DEF Unconfirmed, IngressInv, ConfirmationsOwed
<1>11. QED
  BY <1>5, <1>6, <1>8, <1>9, <1>10 DEF IngressInv

(* What a transaction that has looked at all its webhook's messages leaves.  *)
LEMMA PostCommitted ==
  ASSUME IngressInv, NEW w \in Workers, CommitPost(w)
  PROVE  \E p \in Posts : LET trx == worker[w].tx IN
           /\ trx.post = {p} /\ Looked(w, p) /\ webhooks[p] = "stored"
           /\ trx.step = Len(Content[p]) + 1 /\ mishaps' = mishaps
           /\ webhooks' \in [Posts -> {"unseen", "stored", "normalized", "unrouted"}]
           /\ webhooks'[p] = "normalized" /\ \A q \in Posts : q # p => webhooks'[q] = webhooks[q]
           /\ inbound' \in InboundFacts
           /\ \A m \in Wamids : inbound'.emitted[m] = IF m \in trx.new THEN 1 ELSE inbound.emitted[m]
           /\ \A s \in Senders : inbound'.open[s] = IF s \in trx.opened THEN 1 ELSE inbound.open[s]
           /\ inbound'.stopped = inbound.stopped \cup trx.stopped
           /\ inbound'.sick = inbound.sick \cup trx.sick /\ inbound'.confirmed = inbound.confirmed
           /\ inbound'.alerts = inbound.alerts + Cardinality(trx.sick)
           /\ worker' \in [Workers -> WorkerState] /\ \A v \in Workers : v # w => worker'[v] = worker[v]
           /\ worker'[w].tx = NoTx /\ worker'[w].at \in {"batch", "confirming"}
           /\ worker'[w].owed = trx.stopped
           /\ worker'[w].at \in {"idle", "batch"} => worker'[w].owed = {}
<1> DEFINE trx == worker[w].tx
<1>1. worker[w].at = "tx" /\ trx.step > Length(w) /\ mishaps' = mishaps
  BY DEF CommitPost
<1>2. PICK p \in Posts : trx.post = {p}
  BY <1>1 DEF IngressInv, OnePostEach
<1>3. Length(w) = Len(Content[p]) /\ Looked(w, p) /\ webhooks[p] = "stored" /\ worker[w].owed = {}
  BY <1>2, WhatItReads
<1>4. trx.step = Len(Content[p]) + 1  BY <1>1, <1>3, ContentLength DEF Looked
<1>5. /\ worker[w] \in WorkerState /\ worker \in [Workers -> WorkerState] /\ trx \in Transaction
      /\ IsFiniteSet(trx.sick) /\ inbound \in InboundFacts
      /\ webhooks \in [Posts -> {"unseen", "stored", "normalized", "unrouted"}]
  BY DEF IngressInv, IngressTypes, WorkerState
<1>6. /\ webhooks' \in [Posts -> {"unseen", "stored", "normalized", "unrouted"}]
      /\ webhooks'[p] = "normalized" /\ \A q \in Posts : q # p => webhooks'[q] = webhooks[q]
  BY <1>2, <1>5 DEF CommitPost
<1> DEFINE emitted == Plus(inbound.emitted, trx.new)
           open == Plus(inbound.open, trx.opened)
           stopped == inbound.stopped \cup trx.stopped
           sick == inbound.sick \cup trx.sick
           alerts == inbound.alerts + Cardinality(trx.sick)
<1>7. /\ emitted \in [Wamids -> Nat]
      /\ \A m \in Wamids : emitted[m] = IF m \in trx.new THEN 1 ELSE inbound.emitted[m]
  BY <1>3, <1>5 DEF Looked, Ingested, InboundFacts, Transaction, Plus
<1>8. /\ open \in [Senders -> Nat]
      /\ \A s \in Senders : open[s] = IF s \in trx.opened THEN 1 ELSE inbound.open[s]
  BY <1>3, <1>5 DEF Looked, InboundFacts, Transaction, Plus
<1>9. stopped \subseteq Senders /\ sick \subseteq Wamids /\ alerts \in Nat
  BY <1>5, FS_CardinalityType DEF InboundFacts, Transaction
<1>10. inbound' = [inbound EXCEPT !.emitted = emitted, !.open = open, !.stopped = stopped, !.sick = sick,
                                  !.alerts = alerts]
  BY DEF CommitPost
<1> HIDE DEF emitted, open, stopped, sick, alerts
<1>11. /\ inbound' \in InboundFacts /\ inbound'.emitted = emitted /\ inbound'.open = open
       /\ inbound'.stopped = stopped /\ inbound'.sick = sick /\ inbound'.alerts = alerts
       /\ inbound'.confirmed = inbound.confirmed
  BY <1>5, <1>7, <1>8, <1>9, <1>10 DEF InboundFacts
<1> DEFINE next == IF trx.stopped = {} THEN "batch" ELSE "confirming"
           work == [[[worker[w] EXCEPT !.tx = NoTx] EXCEPT !.owed = trx.stopped] EXCEPT !.at = next]
<1>12. worker' = [worker EXCEPT ![w] = work]
  BY <1>5 DEF CommitPost, WorkerState
<1>13. next \in {"batch", "confirming"} /\ (next = "batch" => trx.stopped = {})
  OBVIOUS
<1> HIDE DEF next
<1>14. /\ work \in WorkerState /\ work.tx = NoTx /\ work.at = next /\ work.owed = trx.stopped
  BY <1>5, <1>13, NothingHeld DEF WorkerState, Transaction
<1> HIDE DEF work
<1>15. /\ worker' \in [Workers -> WorkerState] /\ \A v \in Workers : v # w => worker'[v] = worker[v]
       /\ worker'[w].tx = NoTx /\ worker'[w].at = next /\ worker'[w].owed = trx.stopped
  BY <1>5, <1>12, <1>14
<1>16. /\ worker'[w].at \in {"batch", "confirming"}
       /\ worker'[w].at \in {"idle", "batch"} => worker'[w].owed = {}
  BY <1>13, <1>15
<1>17. /\ inbound'.stopped = inbound.stopped \cup trx.stopped /\ inbound'.sick = inbound.sick \cup trx.sick
       /\ inbound'.alerts = inbound.alerts + Cardinality(trx.sick)
  BY <1>11 DEF stopped, sick, alerts
<1>18. QED
  BY <1>1, <1>2, <1>3, <1>4, <1>6, <1>7, <1>8, <1>11, <1>15, <1>16, <1>17

LEMMA CommitPostSafe ==
  ASSUME IngressInv, NEW w \in Workers, CommitPost(w)
  PROVE  IngressInv'
<1> DEFINE trx == worker[w].tx
<1>1. PICK p \in Posts :
           /\ trx.post = {p} /\ Looked(w, p) /\ webhooks[p] = "stored"
           /\ trx.step = Len(Content[p]) + 1 /\ mishaps' = mishaps
           /\ webhooks' \in [Posts -> {"unseen", "stored", "normalized", "unrouted"}]
           /\ webhooks'[p] = "normalized" /\ \A q \in Posts : q # p => webhooks'[q] = webhooks[q]
           /\ inbound' \in InboundFacts
           /\ \A m \in Wamids : inbound'.emitted[m] = IF m \in trx.new THEN 1 ELSE inbound.emitted[m]
           /\ \A s \in Senders : inbound'.open[s] = IF s \in trx.opened THEN 1 ELSE inbound.open[s]
           /\ inbound'.stopped = inbound.stopped \cup trx.stopped
           /\ inbound'.sick = inbound.sick \cup trx.sick /\ inbound'.confirmed = inbound.confirmed
           /\ inbound'.alerts = inbound.alerts + Cardinality(trx.sick)
           /\ worker' \in [Workers -> WorkerState] /\ \A v \in Workers : v # w => worker'[v] = worker[v]
           /\ worker'[w].tx = NoTx /\ worker'[w].at \in {"batch", "confirming"}
           /\ worker'[w].owed = trx.stopped
           /\ worker'[w].at \in {"idle", "batch"} => worker'[w].owed = {}
  BY PostCommitted
<1>2. /\ trx \in Transaction /\ IsFiniteSet(trx.sick) /\ IsFiniteSet(inbound.sick)
      /\ IsFiniteSet(inbound.stopped) /\ inbound \in InboundFacts
      /\ worker \in [Workers -> WorkerState]
  BY DEF IngressInv, IngressTypes, WorkerState
<1>3. IsFiniteSet(trx.stopped) /\ trx.stopped \subseteq Stoppers(p)
  BY <1>1, IngressAssumption, FS_Subset DEF Looked
<1>4. Ingested' = Ingested \cup trx.new  BY <1>1, <1>2 DEF Ingested, Transaction
<1>5. \A q \in Posts : worker[w].tx.post = {q} => q = p
  BY <1>1
<1>6. \A v \in Workers : v # w => worker[v].tx.post # {p}
  BY <1>1 DEF IngressInv, OnePostEach
<1>7. IngressTypes'
  <2>1. IsFiniteSet(inbound'.stopped)
    <3>1. IsFiniteSet(inbound.stopped \cup trx.stopped)
      BY <1>2, <1>3, FS_Union
    <3>2. inbound'.stopped = inbound.stopped \cup trx.stopped
      BY <1>1
    <3>3. QED
      BY <3>1, <3>2
  <2>2. IsFiniteSet(inbound'.sick)
    <3>1. IsFiniteSet(inbound.sick \cup trx.sick)
      BY <1>2, FS_Union
    <3>2. inbound'.sick = inbound.sick \cup trx.sick
      BY <1>1
    <3>3. QED
      BY <3>1, <3>2
  <2>3. mishaps' \in Nat
    BY <1>1 DEF IngressInv, IngressTypes
  <2>4. ASSUME NEW v \in Workers
        PROVE  IsFiniteSet(worker'[v].tx.sick)
    <3>1. CASE v = w
      BY <1>1, <3>1, NothingHeld, FS_EmptySet
    <3>2. CASE v # w
      BY <1>1, <3>2 DEF IngressInv, IngressTypes
    <3>3. QED
      BY <3>1, <3>2
  <2>5. QED
    BY <1>1, <2>1, <2>2, <2>3, <2>4 DEF IngressTypes
<1>8. OnePostEach'
  <2>1. ASSUME NEW v \in Workers
        PROVE  \/ worker'[v].at # "tx" /\ worker'[v].tx = NoTx
               \/ /\ worker'[v].at = "tx" /\ worker'[v].owed = {}
                  /\ \E q \in Posts : worker'[v].tx.post = {q} /\ webhooks'[q] = "stored"
    BY <1>1, <1>6 DEF IngressInv, OnePostEach
  <2>2. ASSUME NEW v \in Workers
        PROVE  /\ worker'[v].at \in {"idle", "batch"} => worker'[v].owed = {}
               /\ worker'[v].owed = {} \/ \E q \in Posts : worker'[v].owed \subseteq Stoppers(q)
    BY <1>1, <1>3 DEF IngressInv, OnePostEach
  <2>3. ASSUME NEW v \in Workers, NEW u \in Workers, NEW q \in Posts,
               worker'[v].tx.post = {q}, worker'[u].tx.post = {q}
        PROVE  v = u
    <3>1. v # w /\ u # w
      BY <1>1, <2>3, NothingHeld
    <3>2. worker'[v] = worker[v] /\ worker'[u] = worker[u]
      BY <1>1, <3>1
    <3>3. QED
      BY <2>3, <3>2 DEF IngressInv, OnePostEach
  <2>4. QED
    BY <2>1, <2>2, <2>3 DEF OnePostEach
<1>9. TransactionsApart'
  <2>1. ASSUME NEW v \in Workers, NEW q \in Posts, worker'[v].tx.post = {q}
        PROVE  Looked(v, q)'
    <3>1. v # w
      BY <1>1, <2>1, NothingHeld
    <3>2. worker'[v] = worker[v] /\ Looked(v, q) /\ worker[v].tx.held \cap trx.held = {}
      BY <1>1, <2>1, <3>1 DEF IngressInv, TransactionsApart
    <3> DEFINE other == worker[v].tx
    <3>3. ASSUME NEW m \in other.new, m \in trx.new
          PROVE  FALSE
      <4>1. PICK i \in 1..other.step - 1 : Content[q][i].wamid = m
        BY <3>2 DEF Looked
      <4>2. PICK j \in 1..trx.step - 1 : Content[p][j].wamid = m
        BY <1>1, <3>3 DEF Looked
      <4>3. Content[q][i].from \in other.held /\ Content[p][j].from \in trx.held
        BY <1>1, <3>2, <4>1, <4>2 DEF Looked
      <4>4. i \in DOMAIN Content[q] /\ j \in DOMAIN Content[p]
        BY SMTT(30), <1>1, <3>2, <4>1, <4>2, ContentLength DEF Looked
      <4>5. Content[q][i].from = Content[p][j].from
        BY <4>1, <4>2, <4>4, IngressAssumption
      <4>6. QED
        BY <3>2, <4>3, <4>5
    <3>4. \A m \in other.new : m \notin Ingested'
      BY <1>4, <3>2, <3>3 DEF Looked
    <3>5. \A s \in other.opened : inbound'.open[s] = 0
      BY <1>1, <1>2, <3>2 DEF Looked, WorkerState, Transaction
    <3>6. other.stopped \cap inbound'.stopped = {}  BY <1>1, <3>2 DEF Looked
    <3>7. \A i \in 1..other.step - 1 : /\ Content[q][i].from \in other.held
                                       /\ Content[q][i].wamid \in other.new \cup Ingested'
      BY <1>4, <3>2 DEF Looked
    <3>8. QED
      BY <3>2, <3>4, <3>5, <3>6, <3>7 DEF Looked
  <2>2. ASSUME NEW v \in Workers, NEW u \in Workers, v # u
        PROVE  worker'[v].tx.held \cap worker'[u].tx.held = {}
    BY <1>1, <2>2, NothingHeld DEF IngressInv, TransactionsApart
  <2>3. QED
    BY <2>1, <2>2 DEF TransactionsApart
<1>10. CommittedOnce'
  <2>1. \A m \in Wamids : inbound'.emitted[m] <= 1
    BY <1>1 DEF IngressInv, CommittedOnce
  <2>2. \A s \in Senders : inbound'.open[s] <= 1
    BY <1>1 DEF IngressInv, CommittedOnce
  <2>3. \A m \in inbound'.sick : m \in Ingested'
    BY <1>1, <1>4 DEF IngressInv, CommittedOnce, Looked
  <2>4. inbound'.alerts = Cardinality(inbound'.sick)
    <3>1. inbound.sick \cap trx.sick = {} /\ inbound.alerts = Cardinality(inbound.sick)
      BY <1>1 DEF IngressInv, CommittedOnce, Looked
    <3>2. /\ Cardinality(inbound.sick \cup trx.sick)
               = Cardinality(inbound.sick) + Cardinality(trx.sick) - Cardinality(inbound.sick \cap trx.sick)
          /\ Cardinality(inbound.sick \cap trx.sick) = 0
      BY <1>2, <3>1, FS_Union, FS_EmptySet
    <3>3. Cardinality(inbound.sick) \in Nat /\ Cardinality(trx.sick) \in Nat
      BY <1>2, FS_CardinalityType
    <3>4. QED
      BY <1>1, <3>1, <3>2, <3>3
  <2>5. ASSUME NEW q \in Posts, webhooks'[q] = "normalized", NEW i \in DOMAIN Content[q]
        PROVE  inbound'.emitted[Content[q][i].wamid] = 1
    <3>1. Content[q][i].wamid \in Wamids
      <4> DEFINE Messages == [wamid : Wamids, from : Senders, kind : STRING]
      <4>1. Content[q] \in Seq(Messages)
        BY IngressAssumption
      <4>2. \A x \in Messages : x.wamid \in Wamids
        OBVIOUS
      <4> HIDE DEF Messages
      <4>3. QED
        BY <2>5, <4>1, <4>2
    <3>2. CASE q = p
      <4>1. Len(Content[p]) \in Nat /\ i \in 1..Len(Content[p])
        BY <2>5, <3>2, ContentLength
      <4>2. i \in 1..trx.step - 1
        BY <1>1, <4>1
      <4>3. Content[p][i].wamid \in trx.new \cup Ingested
        BY <1>1, <4>2 DEF Looked
      <4>4. Content[p][i].wamid \in Ingested => inbound.emitted[Content[p][i].wamid] = 1
        BY <1>2, <3>1, <3>2 DEF Ingested, IngressInv, CommittedOnce, InboundFacts
      <4>5. QED
        BY <1>1, <3>1, <3>2, <4>3, <4>4
    <3>3. CASE q # p  BY <1>1, <2>5, <3>1, <3>3 DEF IngressInv, CommittedOnce
    <3>4. QED
      BY <3>2, <3>3
  <2>6. QED
    BY <2>1, <2>2, <2>3, <2>4, <2>5 DEF CommittedOnce
<1>11. ConfirmationsOwed'
  <2>1. \A s \in Senders : inbound'.confirmed[s] <= 1 /\ (inbound'.confirmed[s] = 1 => s \in inbound'.stopped)
    BY <1>1 DEF IngressInv, ConfirmationsOwed
  <2>2. \A s \in trx.stopped : s \in Senders /\ s \notin inbound.stopped /\ inbound.confirmed[s] = 0
    BY <1>1, <1>2 DEF Looked, Transaction, InboundFacts, IngressInv, ConfirmationsOwed
  <2>3. ASSUME NEW v \in Workers, NEW s \in worker'[v].owed
        PROVE  /\ s \in inbound'.stopped /\ inbound'.confirmed[s] = 0
               /\ \A u \in Workers \ {v} : s \notin worker'[u].owed
    BY <1>1, <2>2 DEF IngressInv, ConfirmationsOwed
  <2>4. Unconfirmed' \subseteq Unconfirmed  BY <1>1, WhatItReads DEF Unconfirmed
  <2>5. Cardinality(Unconfirmed') <= mishaps' * MaxStops
    <3>1. Unconfirmed \subseteq inbound.stopped
      BY DEF Unconfirmed
    <3>2. IsFiniteSet(Unconfirmed)
      BY <1>2, <3>1, FS_Subset
    <3>3. /\ Cardinality(Unconfirmed') <= Cardinality(Unconfirmed)
          /\ Cardinality(Unconfirmed') \in Nat /\ Cardinality(Unconfirmed) \in Nat
      BY <2>4, <3>2, FS_Subset, FS_CardinalityType
    <3>4. mishaps' * MaxStops \in Nat /\ Cardinality(Unconfirmed) <= mishaps' * MaxStops
      BY <1>1, IngressAssumption DEF IngressInv, IngressTypes, ConfirmationsOwed
    <3>5. QED
      BY <3>3, <3>4
  <2>6. QED
    BY <2>1, <2>3, <2>5 DEF ConfirmationsOwed
<1>12. QED
  BY <1>7, <1>8, <1>9, <1>10, <1>11 DEF IngressInv

LEMMA IngressSteps == IngressInv /\ [IngressNext]_ingressVars => IngressInv'
<1> SUFFICES ASSUME IngressInv, [IngressNext]_ingressVars PROVE IngressInv'
  OBVIOUS
<1>1. CASE UNCHANGED ingressVars
  BY <1>1, InvStays DEF ingressVars
<1>2. CASE WireChannel
  BY <1>2, InvStays DEF WireChannel
<1>3. ASSUME NEW p \in Posts, Post(p) PROVE IngressInv'
  BY <1>3, PostSafe
<1>4. ASSUME NEW w \in Workers, Scan(w) \/ EndBatch(w) PROVE IngressInv'
  BY <1>4, BatchStepsSafe
<1>5. ASSUME NEW w \in Workers, Unrouted(w) \/ AbortPost(w) \/ DeadlockVictim(w) PROVE IngressInv'
  BY <1>5, RolledBackSafe
<1>6. ASSUME NEW w \in Workers, NormalizeMessage(w) PROVE IngressInv'
  BY <1>6, NormalizeMessageSafe
<1>7. ASSUME NEW w \in Workers, CommitPost(w) PROVE IngressInv'
  BY <1>7, CommitPostSafe
<1>8. ASSUME NEW w \in Workers, WorkerDies(w) PROVE IngressInv'
  BY <1>8, WorkerDiesSafe
<1>9. ASSUME NEW w \in Workers, NEW p \in Posts, ClaimPost(w, p) PROVE IngressInv'
  BY <1>9, ClaimPostSafe
<1>10. ASSUME NEW w \in Workers, NEW s \in Senders, ConfirmStop(w, s) PROVE IngressInv'
  BY <1>10, ConfirmStopSafe
<1>11. ASSUME NEW w \in Workers, NEW s \in Senders, RefuseConfirmation(w, s) PROVE IngressInv'
  BY <1>11, RefuseConfirmationSafe
<1>12. QED
  BY <1>1, <1>2, <1>3, <1>4, <1>5, <1>6, <1>7, <1>8, <1>9, <1>10, <1>11 DEF IngressNext

LEMMA IngressInvShows ==
  IngressInv => IngressTypeOK /\ IngestedOnce /\ OneOpenConversation /\ ConfirmationsAccounted
                /\ QuarantineAlerted
<1> SUFFICES ASSUME IngressInv PROVE IngressTypeOK /\ IngestedOnce /\ OneOpenConversation
                                     /\ ConfirmationsAccounted /\ QuarantineAlerted
  OBVIOUS
<1>1. IngressTypeOK
  BY DEF IngressInv, IngressTypes, IngressTypeOK, WorkerState, Transaction, InboundFacts
<1>2. IngestedOnce /\ OneOpenConversation /\ QuarantineAlerted
  BY DEF IngressInv, CommittedOnce, IngestedOnce, OneOpenConversation, QuarantineAlerted
<1>3. ConfirmationsAccounted
  BY DEF IngressInv, IngressTypes, InboundFacts, ConfirmationsOwed, ConfirmationsAccounted
<1>4. QED
  BY <1>1, <1>2, <1>3

(* The normalizers: a message announced once, one conversation a customer,   *)
(* confirmations accounted for, alerts and quarantines together, however     *)
(* many workers share, abort or die over the webhooks (normalize_pending).   *)
THEOREM IngressAlwaysOnce ==
  IngressSpec => [](IngressTypeOK /\ IngestedOnce /\ OneOpenConversation /\ ConfirmationsAccounted
                    /\ QuarantineAlerted)
<1>1. IngressSpec => []IngressInv
  BY IngressStarts, IngressSteps, PTL DEF IngressSpec
<1>2. QED
  BY <1>1, IngressInvShows, PTL

(***************************************************************************)
(* The audit chain                                                         *)
(***************************************************************************)
AuditRow == [what : Writers, prev : Seq(Writers), hash : Seq(Writers)]
SettingRow == [version : Nat \ {0}, value : Values, old : Values \cup {DefaultValue}]
AuditWork == [doing : {"nothing", "insert", "append", "write"}, locked : BOOLEAN, seq : Nat,
              prev : Seq(Writers), own : Seq(AuditRow), row : SUBSET SettingRow]

(* A row hashes the contents before it and its own. *)
Chained(rows) ==
  \A i \in 1..Len(rows) :
    /\ rows[i].prev = [j \in 1..(i - 1) |-> rows[j].what]
    /\ rows[i].hash = Append(rows[i].prev, rows[i].what)

AuditTypes ==
  /\ chain \in Seq(AuditRow) /\ Len(chain) <= MaxEntries
  /\ tx \in [Writers -> AuditWork]
  /\ IsFiniteSet(anchors) /\ Cardinality(anchors) <= MaxAnchors
  /\ IsFiniteSet(versions) /\ versions \subseteq SettingRow

(* The advisory lock: rows not committed yet are one transaction's, and what *)
(* it read of the head is still the head.                                    *)
ChainLocked ==
  /\ \A v, w \in Writers : tx[v].locked /\ tx[w].locked => v = w
  /\ \A w \in Writers :
       /\ tx[w].own # <<>> \/ tx[w].doing = "write" => tx[w].locked
       /\ tx[w].locked => tx[w].doing \in {"append", "write"}
       /\ tx[w].doing = "nothing" => tx[w] = NoWork
       /\ tx[w].doing = "write" => /\ tx[w].seq = Len(chain) + Len(tx[w].own) + 1
                                   /\ tx[w].seq <= MaxEntries
                                   /\ tx[w].prev = Committed(chain \o tx[w].own)
       /\ Len(chain) + Len(tx[w].own) <= MaxEntries

ChainsVerify ==
  /\ Chained(chain)
  /\ \A w \in Writers : Chained(chain \o tx[w].own)
  /\ \A a \in anchors : a.seq \in 1..Len(chain) /\ chain[a.seq].hash = a.hash

(* The version before a row's: it is there, and its value the row's old one. *)
Follows(r) ==
  IF r.version = 1 THEN r.old = DefaultValue
  ELSE \E q \in versions : q.version = r.version - 1 /\ q.value = r.old

VersionsNumbered ==
  /\ Latest <= Len(chain)
  /\ \A r \in versions : r.version <= Latest /\ Follows(r)
  /\ \A r, q \in versions : q.version = r.version => q = r
  /\ \A n \in 1..Latest : \E r \in versions : r.version = n
  /\ \A w \in Writers :
       /\ \A r, q \in tx[w].row : q = r
       /\ \A r \in tx[w].row :
            /\ r.version <= Latest + 1 /\ Follows(r)
            /\ tx[w].doing \in {"append", "write"} =>
                 /\ ~Clashes(versions, r)
                 /\ \A v \in Writers \ {w} :
                      tx[v].doing \in {"append", "write"} => ~Clashes(tx[v].row, r)

AuditInv == AuditTypes /\ collided = {} /\ ChainLocked /\ ChainsVerify /\ VersionsNumbered

LEMMA ConcatAppends ==
  ASSUME NEW S, NEW s \in Seq(S), NEW t \in Seq(S), NEW e \in S
  PROVE  /\ s \o Append(t, e) = Append(s \o t, e)
         /\ s \o t \in Seq(S) /\ Len(s \o t) = Len(s) + Len(t)
         /\ s \o <<>> = s /\ s \o Append(t, e) \in Seq(S)
OBVIOUS

LEMMA CommittedType ==
  ASSUME NEW rows \in Seq(AuditRow)
  PROVE  Committed(rows) \in Seq(Writers) /\ Committed(rows) = [j \in 1..Len(rows) |-> rows[j].what]
<1>1. \A i \in 1..Len(rows) : rows[i].what \in Writers
  <2> SUFFICES ASSUME NEW i \in 1..Len(rows) PROVE rows[i].what \in Writers
    OBVIOUS
  <2>1. rows[i] \in AuditRow
    OBVIOUS
  <2>2. QED
    BY <2>1 DEF AuditRow
<1>2. QED
  BY <1>1 DEF Committed

LEMMA ChainGrows ==
  ASSUME NEW rows \in Seq(AuditRow), Chained(rows), NEW w \in Writers, NEW e \in AuditRow,
         e = [what |-> w, prev |-> Committed(rows), hash |-> Append(Committed(rows), w)]
  PROVE  Chained(Append(rows, e))
<1> DEFINE more == Append(rows, e)
<1>1. /\ Len(more) = Len(rows) + 1 /\ more[Len(rows) + 1] = e
      /\ \A i \in 1..Len(rows) : more[i] = rows[i]
  OBVIOUS
<1> HIDE DEF more
<1> SUFFICES ASSUME NEW i \in 1..Len(more)
             PROVE  /\ more[i].prev = [j \in 1..(i - 1) |-> more[j].what]
                    /\ more[i].hash = Append(more[i].prev, more[i].what)
  BY DEF Chained, more
<1>2. [j \in 1..(i - 1) |-> more[j].what] = [j \in 1..(i - 1) |-> rows[j].what]
  BY SMTT(30), <1>1
<1>3. CASE i \in 1..Len(rows)
  BY <1>1, <1>2, <1>3 DEF Chained
<1>4. CASE i = Len(rows) + 1
  <2>1. more[i].prev = Committed(rows) /\ more[i].what = w /\ more[i].hash = Append(Committed(rows), w)
    BY <1>1, <1>4
  <2>2. Committed(rows) = [j \in 1..(i - 1) |-> rows[j].what]
    BY <1>4, CommittedType
  <2>3. QED
    BY <2>1, <2>2, <1>2
<1>5. QED
  BY <1>1, <1>3, <1>4

LEMMA AuditStarts == AuditInit => AuditInv
<1> SUFFICES ASSUME AuditInit PROVE AuditInv
  OBVIOUS
<1>1. Cardinality({}) = 0 /\ IsFiniteSet({})
  BY FS_EmptySet
<1>2. \A w \in Writers : tx[w] = NoWork
  BY DEF AuditInit
<1>3. NoWork \in AuditWork
  BY DEF NoWork, AuditWork
<1>4. AuditTypes
  BY <1>1, <1>3, AuditAssumption DEF AuditTypes, AuditInit
<1>5. ChainLocked
  BY <1>2, AuditAssumption DEF ChainLocked, AuditInit, NoWork
<1>6. ChainsVerify
  BY <1>2 DEF ChainsVerify, AuditInit, NoWork, Chained
<1>7. VersionsNumbered
  BY <1>1, <1>2 DEF VersionsNumbered, AuditInit, NoWork, Latest
<1>8. QED
  BY <1>4, <1>5, <1>6, <1>7 DEF AuditInv, AuditInit

(* What a writer does before it commits: the committed tables stay.         *)
LEMMA ChainIsTheirs ==
  ASSUME AuditTypes, NEW w \in Writers
  PROVE  /\ tx[w] \in AuditWork /\ tx[w].own \in Seq(AuditRow)
         /\ chain \o tx[w].own \in Seq(AuditRow)
         /\ Len(chain \o tx[w].own) = Len(chain) + Len(tx[w].own)
         /\ Latest \in Nat
<1>1. tx[w] \in AuditWork
  BY DEF AuditTypes
<1>2. tx[w].own \in Seq(AuditRow) /\ chain \in Seq(AuditRow)
  BY <1>1 DEF AuditWork, AuditTypes
<1>3. QED
  BY <1>1, <1>2, FS_CardinalityType DEF AuditTypes, Latest

(* A writer's row of its own changes, the tables and the others' rows stay. *)
LEMMA OwnWorkOnly ==
  ASSUME AuditInv, NEW w \in Writers, NEW new \in AuditWork, tx' = [tx EXCEPT ![w] = new],
         UNCHANGED <<chain, versions, collided, anchors>>,
         new.own # <<>> \/ new.doing = "write" => new.locked,
         new.locked => new.doing \in {"append", "write"},
         new.locked => \A v \in Writers \ {w} : ~tx[v].locked,
         new.doing = "nothing" => new = NoWork,
         new.doing = "write" => /\ new.seq = Len(chain) + Len(new.own) + 1
                                /\ new.seq <= MaxEntries
                                /\ new.prev = Committed(chain \o new.own),
         Len(chain) + Len(new.own) <= MaxEntries,
         Chained(chain \o new.own),
         \A r, q \in new.row : q = r,
         \A r \in new.row :
           /\ r.version <= Latest + 1 /\ Follows(r)
           /\ new.doing \in {"append", "write"} =>
                /\ ~Clashes(versions, r)
                /\ \A v \in Writers \ {w} :
                     tx[v].doing \in {"append", "write"} => ~Clashes(tx[v].row, r)
  PROVE  AuditInv'
<1>1. /\ tx'[w] = new /\ \A v \in Writers : v # w => tx'[v] = tx[v]
      /\ tx' \in [Writers -> AuditWork]
  BY DEF AuditInv, AuditTypes
<1>2. AuditTypes'
  BY <1>1 DEF AuditInv, AuditTypes
<1>3. ChainLocked'
  <2>1. ASSUME NEW v \in Writers, NEW u \in Writers, tx'[v].locked, tx'[u].locked PROVE v = u
    BY <1>1, <2>1 DEF AuditInv, ChainLocked
  <2> SUFFICES ASSUME NEW v \in Writers
               PROVE (/\ tx[v].own # <<>> \/ tx[v].doing = "write" => tx[v].locked
                      /\ tx[v].locked => tx[v].doing \in {"append", "write"}
                      /\ tx[v].doing = "nothing" => tx[v] = NoWork
                      /\ tx[v].doing = "write" => /\ tx[v].seq = Len(chain) + Len(tx[v].own) + 1
                                                  /\ tx[v].seq <= MaxEntries
                                                  /\ tx[v].prev = Committed(chain \o tx[v].own)
                      /\ Len(chain) + Len(tx[v].own) <= MaxEntries)'
    BY <2>1 DEF ChainLocked
  <2>2. CASE v = w
    BY <1>1, <2>2 DEF Committed
  <2>3. CASE v # w
    <3>1. /\ tx[v].own # <<>> \/ tx[v].doing = "write" => tx[v].locked
          /\ tx[v].locked => tx[v].doing \in {"append", "write"}
          /\ tx[v].doing = "nothing" => tx[v] = NoWork
          /\ tx[v].doing = "write" => /\ tx[v].seq = Len(chain) + Len(tx[v].own) + 1
                                      /\ tx[v].seq <= MaxEntries
                                      /\ tx[v].prev = Committed(chain \o tx[v].own)
          /\ Len(chain) + Len(tx[v].own) <= MaxEntries
      BY DEF AuditInv, ChainLocked
    <3>2. tx'[v] = tx[v] /\ chain' = chain
      BY <1>1, <2>3
    <3>3. QED
      BY <3>1, <3>2 DEF Committed
  <2>4. QED
    BY <2>2, <2>3
<1>4. ChainsVerify'
  <2>1. \A v \in Writers : Chained(chain \o tx'[v].own)
    BY <1>1 DEF AuditInv, ChainsVerify
  <2>2. QED
    <3>1. Chained(chain) /\ \A a \in anchors : a.seq \in 1..Len(chain) /\ chain[a.seq].hash = a.hash
      BY DEF AuditInv, ChainsVerify
    <3>2. \A v \in Writers : Chained(chain' \o tx'[v].own)
      BY <2>1
    <3>3. Chained(chain')
      BY <3>1
    <3>4. QED
      BY <3>1, <3>2, <3>3 DEF ChainsVerify, Chained
<1>5. VersionsNumbered'
  <2>1. Latest' = Latest /\ versions' = versions
    BY DEF Latest
  <2>2. /\ Latest <= Len(chain)
        /\ \A r \in versions : r.version <= Latest /\ Follows(r)
        /\ \A r, q \in versions : q.version = r.version => q = r
        /\ \A n \in 1..Latest : \E r \in versions : r.version = n
    BY DEF AuditInv, VersionsNumbered
  <2>3. \A r : Follows(r)' <=> Follows(r)
    BY <2>1 DEF Follows
  <2>4. ASSUME NEW v \in Writers, NEW r \in tx'[v].row
        PROVE  /\ \A q \in tx'[v].row : q = r
               /\ r.version <= Latest + 1 /\ Follows(r)
               /\ tx'[v].doing \in {"append", "write"} =>
                 /\ ~Clashes(versions, r)
                 /\ \A u \in Writers \ {v} :
                      tx'[u].doing \in {"append", "write"} => ~Clashes(tx'[u].row, r)
    BY <1>1, <2>4 DEF AuditInv, VersionsNumbered, Clashes
  <2>5. \A S, r : Clashes(S, r)' <=> Clashes(S, r)
    BY DEF Clashes
  <2>6. QED
    BY <2>1, <2>2, <2>3, <2>4 DEF VersionsNumbered, Clashes
<1>6. QED
  BY <1>2, <1>3, <1>4, <1>5 DEF AuditInv

LEMMA NoWorkFits ==
  /\ NoWork \in AuditWork /\ NoWork.doing = "nothing" /\ ~NoWork.locked
  /\ NoWork.own = <<>> /\ NoWork.row = {} /\ Len(NoWork.own) = 0
BY DEF NoWork, AuditWork

(* Nothing is held by a transaction that has nothing, or that reads first.  *)
LEMMA AuditWorkGoes ==
  ASSUME AuditInv, NEW w \in Writers, Become(w, NoWork),
         UNCHANGED <<chain, versions, collided, anchors>>
  PROVE  AuditInv'
<1>1. chain \in Seq(AuditRow) /\ Chained(chain) /\ Len(chain) <= MaxEntries
  BY DEF AuditInv, ChainsVerify, AuditTypes
<1>2. Chained(chain \o NoWork.own) /\ Len(chain) + Len(NoWork.own) <= MaxEntries
  BY <1>1, NoWorkFits
<1>3. \A q, r \in NoWork.row : FALSE
  BY NoWorkFits
<1>4. tx' = [tx EXCEPT ![w] = NoWork]
  BY DEF Become
<1>5. ~(NoWork.own # <<>> \/ NoWork.doing = "write") /\ NoWork.doing # "write"
  BY NoWorkFits
<1>6. \A r \in NoWork.row : FALSE
  BY NoWorkFits
<1>7. QED
  BY <1>2, <1>3, <1>4, <1>5, <1>6, NoWorkFits, OwnWorkOnly, ZenonT(60)

LEMMA AuditReadsSetting ==
  ASSUME AuditInv, NEW w \in Writers, NEW x \in Values, ReadSetting(w, x)
  PROVE  AuditInv'
<1> DEFINE r == [version |-> Latest + 1, value |-> x, old |-> InForce]
<1> DEFINE new == [NoWork EXCEPT !.doing = "insert", !.row = {r}]
<1>1. /\ Latest \in Nat /\ versions \subseteq SettingRow /\ IsFiniteSet(versions)
      /\ chain \in Seq(AuditRow) /\ Len(chain) <= MaxEntries
  BY FS_CardinalityType DEF Latest, AuditInv, AuditTypes
<1>2. InForce \in Values \cup {DefaultValue} /\ Follows(r)
  <2>1. CASE versions = {}
    BY <2>1, FS_EmptySet DEF InForce, Follows, Latest
  <2>2. CASE versions # {}
    <3>1. Latest # 0
      BY <1>1, <2>2, FS_EmptySet DEF Latest
    <3>2. PICK q \in versions : q.version = Latest
      BY <1>1, <3>1 DEF AuditInv, VersionsNumbered
    <3>3. \A p \in versions : p.version \in Nat /\ q.version >= p.version
      BY <1>1, <3>2 DEF AuditInv, VersionsNumbered, SettingRow
    <3>4. PICK h \in versions : /\ h = CHOOSE r1 \in versions : \A p \in versions : r1.version >= p.version
                                /\ \A p \in versions : h.version >= p.version
      BY <3>3
    <3>5. h.version = Latest /\ InForce = h.value
      BY <3>2, <3>3, <3>4, <2>2, <1>1 DEF InForce
    <3>6. QED
      BY <3>1, <3>5, <1>1 DEF Follows, SettingRow
  <2>3. QED
    BY <2>1, <2>2
<1>3. r \in SettingRow
  BY <1>1, <1>2 DEF SettingRow
<1>4. new \in AuditWork /\ new.doing = "insert" /\ ~new.locked /\ new.own = <<>> /\ new.row = {r}
  <2> HIDE DEF r
  <2>1. {r} \subseteq SettingRow
    BY <1>3
  <2>2. QED  BY <2>1, NoWorkFits DEF AuditWork
<1>5. Chained(chain \o <<>>)
  BY <1>1 DEF AuditInv, ChainsVerify
<1>6. tx' = [tx EXCEPT ![w] = new] /\ UNCHANGED <<chain, versions, collided, anchors>>
  BY DEF ReadSetting, Become
<1>7. \A q \in new.row : q.version <= Latest + 1 /\ Follows(q)
  BY <1>1, <1>2, <1>4
<1>8. Len(chain) + Len(new.own) <= MaxEntries
  BY <1>1, <1>4
<1> HIDE DEF r, new
<1>9. QED
  BY <1>4, <1>5, <1>6, <1>7, <1>8, OwnWorkOnly, ZenonT(60)

LEMMA AuditInsertsSetting ==
  ASSUME AuditInv, NEW w \in Writers, InsertSetting(w)
  PROVE  AuditInv'
<1>1. CASE \E r \in tx[w].row : Clashes(versions, r)
  BY <1>1, AuditWorkGoes DEF InsertSetting
<1>2. CASE ~ \E r \in tx[w].row : Clashes(versions, r)
  <2> DEFINE new == [tx[w] EXCEPT !.doing = "append"]
  <2>1. tx[w] \in AuditWork
    BY DEF AuditInv, AuditTypes
  <2>2. /\ new \in AuditWork /\ new.doing = "append" /\ new.locked = tx[w].locked
        /\ new.own = tx[w].own /\ new.row = tx[w].row
    BY <2>1 DEF AuditWork
  <2>3. tx[w].doing = "insert" /\ ~tx[w].locked /\ tx[w].own = <<>>
    BY <2>1 DEF InsertSetting, AuditInv, ChainLocked, AuditWork
  <2>4. /\ Len(chain) + Len(tx[w].own) <= MaxEntries /\ Chained(chain \o tx[w].own)
        /\ \A r, q \in tx[w].row : q = r
        /\ \A r \in tx[w].row : r.version <= Latest + 1 /\ Follows(r)
    BY DEF AuditInv, ChainLocked, ChainsVerify, VersionsNumbered
  <2>5. \A r \in tx[w].row : \A v \in Writers \ {w} :
          tx[v].doing \in {"append", "write"} => ~Clashes(tx[v].row, r)
    BY DEF InsertSetting
  <2>6. tx' = [tx EXCEPT ![w] = new] /\ UNCHANGED <<chain, versions, collided, anchors>>
    BY <1>2 DEF InsertSetting, Become
  <2> HIDE DEF new
  <2>7. QED
    BY <1>2, <2>2, <2>3, <2>4, <2>5, <2>6, OwnWorkOnly, ZenonT(60)
<1>3. QED
  BY <1>1, <1>2

LEMMA AuditReadsHead ==
  ASSUME AuditInv, NEW w \in Writers, ReadHead(w)
  PROVE  AuditInv'
<1> DEFINE new == [tx[w] EXCEPT !.doing = "write", !.locked = TRUE,
                                !.seq = Len(chain \o tx[w].own) + 1, !.prev = HeadHash(w)]
<1>1. /\ tx[w] \in AuditWork /\ chain \o tx[w].own \in Seq(AuditRow)
      /\ Len(chain \o tx[w].own) = Len(chain) + Len(tx[w].own)
      /\ tx[w].own \in Seq(AuditRow) /\ chain \in Seq(AuditRow)
  BY ChainIsTheirs DEF AuditInv, AuditTypes
<1>2. HeadHash(w) \in Seq(Writers)
  BY <1>1, CommittedType DEF HeadHash
<1>3. /\ new \in AuditWork /\ new.doing = "write" /\ new.locked /\ new.own = tx[w].own
      /\ new.row = tx[w].row /\ new.prev = Committed(chain \o tx[w].own)
      /\ new.seq = Len(chain) + Len(tx[w].own) + 1
  <2> DEFINE h == HeadHash(w)
  <2>1. h \in Seq(Writers) /\ h = Committed(chain \o tx[w].own)
    BY <1>2 DEF HeadHash
  <2>2. Len(chain \o tx[w].own) + 1 \in Nat
    BY <1>1
  <2> HIDE DEF h
  <2>3. new = [tx[w] EXCEPT !.doing = "write", !.locked = TRUE,
                            !.seq = Len(chain \o tx[w].own) + 1, !.prev = h]
    BY DEF h
  <2>4. QED
    BY ZenonT(60), <1>1, <2>1, <2>2, <2>3 DEF AuditWork
<1>4. /\ Len(chain) + Len(tx[w].own) <= MaxEntries /\ Chained(chain \o tx[w].own)
      /\ \A r, q \in tx[w].row : q = r
  BY DEF AuditInv, ChainLocked, ChainsVerify, VersionsNumbered
<1>5. new.seq <= MaxEntries
  BY <1>1, <1>3, AuditAssumption DEF ReadHead
<1>6. \A v \in Writers \ {w} : ~tx[v].locked
  BY DEF ReadHead, LockFree
<1>7. \A r \in tx[w].row :
        /\ r.version <= Latest + 1 /\ Follows(r) /\ ~Clashes(versions, r)
        /\ \A v \in Writers \ {w} : tx[v].doing \in {"append", "write"} => ~Clashes(tx[v].row, r)
  BY DEF AuditInv, VersionsNumbered, ReadHead
<1>8. tx' = [tx EXCEPT ![w] = new] /\ UNCHANGED <<chain, versions, collided, anchors>>
  BY DEF ReadHead, Become
<1> HIDE DEF new
<1>9. QED
  BY <1>3, <1>4, <1>5, <1>6, <1>7, <1>8, OwnWorkOnly, ZenonT(60)

LEMMA AuditInsertsEntry ==
  ASSUME AuditInv, NEW w \in Writers, InsertEntry(w)
  PROVE  AuditInv'
<1> DEFINE e == [what |-> w, prev |-> tx[w].prev, hash |-> Append(tx[w].prev, w)]
<1> DEFINE new == [tx[w] EXCEPT !.doing = "append", !.own = Append(@, e)]
<1>1. /\ tx[w] \in AuditWork /\ chain \o tx[w].own \in Seq(AuditRow)
      /\ tx[w].own \in Seq(AuditRow) /\ chain \in Seq(AuditRow)
  BY ChainIsTheirs DEF AuditInv, AuditTypes
<1>2. /\ tx[w].seq = Len(chain) + Len(tx[w].own) + 1 /\ tx[w].seq <= MaxEntries
      /\ tx[w].prev = Committed(chain \o tx[w].own) /\ tx[w].locked
  BY DEF InsertEntry, AuditInv, ChainLocked
<1>3. ~(tx[w].seq <= Len(chain))
  BY <1>1, <1>2
<1>4. e \in AuditRow
  BY <1>1 DEF AuditRow, AuditWork
<1>5. /\ new \in AuditWork /\ new.doing = "append" /\ new.locked
      /\ new.own = Append(tx[w].own, e) /\ new.row = tx[w].row
      /\ Len(new.own) = Len(tx[w].own) + 1
  <2> HIDE DEF e
  <2>1. Append(tx[w].own, e) \in Seq(AuditRow) /\ Len(Append(tx[w].own, e)) = Len(tx[w].own) + 1
    BY <1>1, <1>4
  <2>2. QED
    BY <1>1, <1>2, <2>1 DEF AuditWork
<1>6. Chained(chain \o new.own)
  <2>1. chain \o new.own = Append(chain \o tx[w].own, e)
    <3> HIDE DEF e, new
    <3>1. chain \in Seq(AuditRow) /\ tx[w].own \in Seq(AuditRow) /\ e \in AuditRow
      BY <1>1, <1>4
    <3>2. chain \o Append(tx[w].own, e) = Append(chain \o tx[w].own, e)
      BY <3>1, ConcatAppends, SMTT(60)
    <3>3. new.own = Append(tx[w].own, e)
      BY <1>5
    <3>4. QED
      BY <3>2, <3>3, Zenon
  <2>2. Chained(chain \o tx[w].own)
    BY DEF AuditInv, ChainsVerify
  <2>3. QED
    BY <1>1, <1>2, <1>4, <2>1, <2>2, ChainGrows
<1>7. Len(chain) + Len(new.own) <= MaxEntries
  BY <1>1, <1>2, <1>5
<1>8. \A v \in Writers \ {w} : ~tx[v].locked
  BY <1>2 DEF AuditInv, ChainLocked
<1>9. \A r \in tx[w].row :
        /\ r.version <= Latest + 1 /\ Follows(r) /\ ~Clashes(versions, r)
        /\ \A q \in tx[w].row : q = r
        /\ \A v \in Writers \ {w} : tx[v].doing \in {"append", "write"} => ~Clashes(tx[v].row, r)
  BY DEF AuditInv, VersionsNumbered, InsertEntry
<1>10. tx' = [tx EXCEPT ![w] = new] /\ UNCHANGED <<chain, versions, collided, anchors>>
  BY <1>3 DEF InsertEntry, Become
<1> HIDE DEF new, e
<1>11. QED
  BY <1>5, <1>6, <1>7, <1>8, <1>9, <1>10, OwnWorkOnly, ZenonT(60)

LEMMA AuditOtherWork ==
  ASSUME AuditInv, NEW w \in Writers, OtherWork(w)
  PROVE  AuditInv'
<1> DEFINE new == [NoWork EXCEPT !.doing = "append"]
<1>1. new \in AuditWork /\ new.doing = "append" /\ ~new.locked /\ new.own = <<>> /\ new.row = {}
  BY NoWorkFits DEF AuditWork
<1>2. chain \in Seq(AuditRow) /\ Chained(chain) /\ Len(chain) <= MaxEntries
  BY DEF AuditInv, ChainsVerify, AuditTypes
<1>3. Chained(chain \o new.own) /\ Len(chain) + Len(new.own) <= MaxEntries
  <2>1. chain \o <<>> = chain /\ Len(<<>>) = 0 /\ Len(chain) \in Nat
    BY <1>2
  <2>2. new.own = <<>>
    BY <1>1
  <2> HIDE DEF new
  <2>3. QED
    BY <1>2, <2>1, <2>2, AuditAssumption
<1>4. tx' = [tx EXCEPT ![w] = new] /\ UNCHANGED <<chain, versions, collided, anchors>>
  BY DEF OtherWork, Become
<1>5. \A r \in new.row : FALSE
  BY <1>1
<1> HIDE DEF new
<1>6. QED
  BY <1>1, <1>3, <1>4, <1>5, OwnWorkOnly, ZenonT(60)

(* The commit appends the transaction's rows and its version of the setting. *)
LEMMA AuditCommits ==
  ASSUME AuditInv, NEW w \in Writers, Commit(w)
  PROVE  AuditInv'
<1>1. /\ tx[w] \in AuditWork /\ chain \o tx[w].own \in Seq(AuditRow)
      /\ tx[w].own \in Seq(AuditRow) /\ chain \in Seq(AuditRow) /\ Latest \in Nat
      /\ Len(chain \o tx[w].own) = Len(chain) + Len(tx[w].own)
      /\ tx[w].row \subseteq SettingRow
  BY ChainIsTheirs DEF AuditInv, AuditTypes, AuditWork
<1>2. /\ tx[w].doing = "append" /\ tx[w].own # <<>> /\ tx[w].locked
      /\ chain' = chain \o tx[w].own /\ versions' = versions \cup tx[w].row
      /\ UNCHANGED <<collided, anchors>>
  BY DEF Commit, AuditInv, ChainLocked
<1>3. /\ tx'[w] = NoWork /\ \A v \in Writers : v # w => tx'[v] = tx[v]
      /\ tx' \in [Writers -> AuditWork]
  BY NoWorkFits DEF Commit, Become, AuditInv, AuditTypes
<1>4. Len(tx[w].own) >= 1 /\ Len(chain') = Len(chain) + Len(tx[w].own)
      /\ Len(chain') <= MaxEntries /\ chain' \in Seq(AuditRow)
  BY <1>1, <1>2 DEF AuditInv, ChainLocked
<1>5. \A v \in Writers : v # w => ~tx[v].locked /\ tx[v].own = <<>> /\ tx[v].doing # "write"
  BY <1>2 DEF AuditInv, ChainLocked
<1>6. \A r, q \in tx[w].row : q = r
  BY DEF AuditInv, VersionsNumbered
<1>7. \A r \in tx[w].row :
        /\ r.version = Latest + 1 /\ Follows(r) /\ ~Clashes(versions, r)
  <2> SUFFICES ASSUME NEW r \in tx[w].row
               PROVE  r.version = Latest + 1 /\ Follows(r) /\ ~Clashes(versions, r)
    OBVIOUS
  <2>1. r.version <= Latest + 1 /\ Follows(r) /\ ~Clashes(versions, r)
    BY <1>2 DEF AuditInv, VersionsNumbered
  <2>2. r.version \in Nat \ {0}
    BY <1>1 DEF SettingRow
  <2>3. \A n \in 1..Latest : \E q \in versions : q.version = n
    BY DEF AuditInv, VersionsNumbered
  <2>4. QED
    BY <1>1, <2>1, <2>2, <2>3 DEF Clashes
<1>8. /\ IsFiniteSet(versions')
      /\ \/ tx[w].row = {} /\ versions' = versions /\ Latest' = Latest
         \/ \E r \in tx[w].row : versions' = versions \cup {r} /\ Latest' = Latest + 1
  <2>1. CASE tx[w].row = {}
    BY <1>2, <2>1 DEF AuditInv, AuditTypes, Latest
  <2>2. CASE tx[w].row # {}
    <3>1. PICK r \in tx[w].row : tx[w].row = {r}
      BY <1>6, <2>2
    <3>2. r \notin versions
      BY <1>7, <3>1 DEF Clashes
    <3>3. versions' = versions \cup {r}
      BY <1>2, <3>1
    <3>4. QED
      BY <3>2, <3>3, FS_AddElement DEF AuditInv, AuditTypes, Latest
  <2>3. QED
    BY <2>1, <2>2
<1>9. AuditTypes'
  BY <1>1, <1>2, <1>3, <1>4, <1>8 DEF AuditInv, AuditTypes
<1>10. ChainLocked'
  <2>1. ASSUME NEW v \in Writers, NEW u \in Writers, tx'[v].locked, tx'[u].locked PROVE v = u
    BY <1>3, <1>5, <2>1, NoWorkFits
  <2>2. ASSUME NEW v \in Writers
        PROVE  /\ ~tx'[v].locked /\ tx'[v].own = <<>> /\ tx'[v].doing # "write"
               /\ tx'[v].doing = "nothing" => tx'[v] = NoWork
    BY <1>3, <1>5, NoWorkFits DEF AuditInv, ChainLocked
  <2>3. \A v \in Writers : Len(chain') + Len(tx'[v].own) <= MaxEntries
    <3>1. Len(<<>>) = 0 /\ Len(chain') \in Nat
      BY <1>4
    <3>2. ASSUME NEW v \in Writers PROVE Len(chain') + Len(tx'[v].own) <= MaxEntries
      <4>1. Len(tx'[v].own) = 0
        BY <2>2, <3>1
      <4>2. QED
        BY <4>1, <3>1, <1>4
    <3>3. QED
      BY <3>2
  <2>4. QED
    BY <2>1, <2>2, <2>3 DEF ChainLocked
<1>11. ChainsVerify'
  <2>1. Chained(chain')
    BY <1>2 DEF AuditInv, ChainsVerify
  <2>2. \A v \in Writers : chain' \o tx'[v].own = chain'
    BY <1>3, <1>4, <1>5, NoWorkFits
  <2>3. ASSUME NEW a \in anchors' PROVE a.seq \in 1..Len(chain') /\ chain'[a.seq].hash = a.hash
    BY <1>1, <1>2, <1>4, <2>3 DEF AuditInv, ChainsVerify
  <2>4. \A v \in Writers : Chained(chain' \o tx'[v].own)
    BY <2>1, <2>2
  <2>5. QED
    BY <2>1, <2>3, <2>4 DEF ChainsVerify, Chained
<1>12. VersionsNumbered'
  <2>1. \A r : Follows(r) => Follows(r)'
    BY <1>2 DEF Follows
  <2>2. /\ Latest <= Len(chain)
        /\ \A r \in versions : r.version <= Latest /\ Follows(r) /\ r.version \in Nat
        /\ \A r, q \in versions : q.version = r.version => q = r
        /\ \A n \in 1..Latest : \E r \in versions : r.version = n
    BY DEF AuditInv, VersionsNumbered, AuditTypes, SettingRow
  <2>3. Latest' <= Len(chain') /\ Latest' \in Nat /\ Latest' >= Latest
    BY <1>1, <1>4, <1>8, <2>2
  <2>4. \A r \in versions' : r.version <= Latest' /\ Follows(r)'
    BY <1>1, <1>7, <1>8, <2>1, <2>2, <2>3
  <2>5. \A r, q \in versions' : q.version = r.version => q = r
    BY <1>7, <1>8, <2>2 DEF Clashes
  <2>6. \A n \in 1..Latest' : \E r \in versions' : r.version = n  BY <1>1, <1>7, <1>8, <2>2
  <2>7. ASSUME NEW v \in Writers, NEW r \in tx'[v].row
        PROVE  /\ \A q \in tx'[v].row : q = r
               /\ r.version <= Latest' + 1 /\ Follows(r)'
               /\ tx'[v].doing \in {"append", "write"} =>
                 /\ ~Clashes(versions', r)
                 /\ \A u \in Writers \ {v} :
                      tx'[u].doing \in {"append", "write"} => ~Clashes(tx'[u].row, r)
    <3>1. v # w /\ r \in tx[v].row /\ tx'[v] = tx[v]
      BY <1>3, <2>7, NoWorkFits
    <3>2. r \in SettingRow
      BY <3>1 DEF AuditInv, AuditTypes, AuditWork
    <3>3. /\ \A q \in tx[v].row : q = r
          /\ r.version <= Latest + 1 /\ Follows(r)
      BY <3>1 DEF AuditInv, VersionsNumbered
    <3>4. r.version <= Latest' + 1
      BY <1>1, <2>3, <3>2, <3>3 DEF SettingRow
    <3>5. ASSUME tx[v].doing \in {"append", "write"} PROVE ~Clashes(versions', r)
      BY <1>2, <3>1, <3>5 DEF AuditInv, VersionsNumbered, Clashes
    <3>6. ASSUME tx[v].doing \in {"append", "write"}, NEW u \in Writers \ {v},
                 tx'[u].doing \in {"append", "write"}
          PROVE  ~Clashes(tx'[u].row, r)
      BY <1>3, <3>1, <3>6, NoWorkFits DEF AuditInv, VersionsNumbered
    <3>7. QED
      BY <2>1, <3>1, <3>3, <3>4, <3>5, <3>6
  <2>8. QED
    BY <2>3, <2>4, <2>5, <2>6, <2>7 DEF VersionsNumbered, Clashes
<1>13. QED
  BY <1>2, <1>9, <1>10, <1>11, <1>12 DEF AuditInv

LEMMA AuditAnchors ==
  ASSUME AuditInv, Anchor
  PROVE  AuditInv'
<1> DEFINE a == [seq |-> Len(chain), hash |-> chain[Len(chain)].hash]
<1>1. /\ anchors' = anchors \cup {a} /\ UNCHANGED <<chain, versions, tx, collided>>
      /\ chain # <<>> /\ Cardinality(anchors) < MaxAnchors
  BY DEF Anchor
<1>2. chain \in Seq(AuditRow) /\ IsFiniteSet(anchors) /\ Cardinality(anchors) \in Nat
  BY FS_CardinalityType DEF AuditInv, AuditTypes
<1>3. IsFiniteSet(anchors') /\ Cardinality(anchors') <= MaxAnchors
  <2>1. IsFiniteSet(anchors \cup {a}) /\ \/ Cardinality(anchors \cup {a}) = Cardinality(anchors)
                                         \/ Cardinality(anchors \cup {a}) = Cardinality(anchors) + 1
    <3> HIDE DEF a
    <3>1. QED
      BY <1>2, FS_AddElement
  <2>2. QED
    BY <1>1, <1>2, <2>1, AuditAssumption
<1>4. a.seq \in 1..Len(chain) /\ chain[a.seq].hash = a.hash
  BY <1>1, <1>2
<1>5. AuditTypes'
  BY <1>1, <1>3 DEF AuditInv, AuditTypes
<1>6. ChainLocked'
  BY <1>1 DEF AuditInv, ChainLocked, Committed
<1>7. ChainsVerify'
  <2> HIDE DEF a
  <2>1. \A b \in anchors' : b.seq \in 1..Len(chain) /\ chain[b.seq].hash = b.hash
    BY <1>1, <1>4 DEF AuditInv, ChainsVerify
  <2>2. QED
    <3>1. Chained(chain) /\ \A v \in Writers : Chained(chain \o tx[v].own)
      BY DEF AuditInv, ChainsVerify
    <3>2. Chained(chain') /\ \A v \in Writers : Chained(chain' \o tx'[v].own)
      BY <1>1, <3>1
    <3>3. QED
      BY <1>1, <2>1, <3>2 DEF ChainsVerify, Chained
<1>8. VersionsNumbered'
  BY <1>1 DEF AuditInv, VersionsNumbered, Latest, Follows, Clashes
<1>9. QED
  BY <1>1, <1>5, <1>6, <1>7, <1>8 DEF AuditInv

LEMMA AuditSteps == AuditInv /\ [AuditNext]_auditVars => AuditInv'
<1> SUFFICES ASSUME AuditInv, [AuditNext]_auditVars PROVE AuditInv'
  OBVIOUS
<1>1. ASSUME NEW w \in Writers, NEW x \in Values, ReadSetting(w, x) PROVE AuditInv'
  BY <1>1, AuditReadsSetting
<1>2. ASSUME NEW w \in Writers, InsertSetting(w) \/ OtherWork(w) \/ ReadHead(w) \/ InsertEntry(w)
      PROVE  AuditInv'
  BY <1>2, AuditInsertsSetting, AuditOtherWork, AuditReadsHead, AuditInsertsEntry
<1>3. ASSUME NEW w \in Writers, Commit(w) PROVE AuditInv'
  BY <1>3, AuditCommits
<1>4. ASSUME NEW w \in Writers, Abort(w) PROVE AuditInv'
  BY <1>4, AuditWorkGoes DEF Abort
<1>5. CASE Anchor
  BY <1>5, AuditAnchors
<1>6. CASE UNCHANGED auditVars
  <2>1. UNCHANGED <<chain, versions, tx, collided, anchors>>
    BY <1>6 DEF auditVars
  <2>2. AuditTypes'
    BY <2>1 DEF AuditInv, AuditTypes
  <2>3. ChainLocked'
    BY <2>1 DEF AuditInv, ChainLocked, Committed
  <2>4. ChainsVerify'
    <3>1. Chained(chain) /\ \A v \in Writers : Chained(chain \o tx[v].own)
      BY DEF AuditInv, ChainsVerify
    <3>2. Chained(chain') /\ \A v \in Writers : Chained(chain' \o tx'[v].own)
      BY <2>1, <3>1
    <3>3. QED
      BY <2>1, <3>2 DEF AuditInv, ChainsVerify, Chained
  <2>5. VersionsNumbered'
    BY <2>1 DEF AuditInv, VersionsNumbered, Latest, Follows, Clashes
  <2>6. QED
    BY <2>1, <2>2, <2>3, <2>4, <2>5 DEF AuditInv
<1>7. QED
  BY <1>1, <1>2, <1>3, <1>4, <1>5, <1>6 DEF AuditNext

(* The chain as verify_chain walks it, and the settings' diffs.             *)
LEMMA AuditInvShows == AuditInv => AuditTypeOK /\ ChainIntact /\ AppendsNeverCollide /\ DiffsAreTrue
<1> SUFFICES ASSUME AuditInv PROVE AuditTypeOK /\ ChainIntact /\ AppendsNeverCollide /\ DiffsAreTrue
  OBVIOUS
<1>1. AppendsNeverCollide
  BY DEF AuditInv, AppendsNeverCollide
<1>2. chain \in Seq(AuditRow) /\ Len(chain) <= MaxEntries
  BY DEF AuditInv, AuditTypes
<1>3. \A i \in 1..Len(chain) : chain[i] \in AuditRow /\ chain[i].what \in Writers
  <2>1. \A i \in 1..Len(chain) : chain[i] \in AuditRow
    BY <1>2
  <2>2. QED
    BY <2>1 DEF AuditRow
<1>4. AuditTypeOK
  BY <1>2, <1>3, AuditAssumption, FS_CardinalityType DEF AuditInv, VersionsNumbered,
     AuditTypes, Latest, SettingRow, AuditWork, AuditTypeOK
<1>5. ChainIntact
  <2>1. ASSUME NEW i \in 1..Len(chain)
        PROVE  /\ chain[i].prev = IF i = 1 THEN <<>> ELSE chain[i - 1].hash
               /\ chain[i].hash = Append(chain[i].prev, chain[i].what)
    <3>1. /\ chain[i].prev = [j \in 1..(i - 1) |-> chain[j].what]
          /\ chain[i].hash = Append(chain[i].prev, chain[i].what)
      BY <1>2 DEF AuditInv, ChainsVerify, Chained
    <3>2. CASE i = 1
      BY <3>1, <3>2
    <3>3. CASE i # 1
      <4> DEFINE p == [j \in 1..(i - 2) |-> chain[j].what]
      <4>1. i - 1 \in 1..Len(chain)
        BY <1>2, <3>3
      <4>2. /\ chain[i - 1].prev = [j \in 1..((i - 1) - 1) |-> chain[j].what]
            /\ chain[i - 1].hash = Append(chain[i - 1].prev, chain[i - 1].what)
        BY <4>1 DEF AuditInv, ChainsVerify, Chained
      <4>3. (i - 1) - 1 = i - 2 /\ i - 2 \in Nat
        BY <3>3
      <4>4. p \in Seq(Writers) /\ Len(p) = i - 2
        BY <1>2, <1>3, <4>3
      <4>5. chain[i - 1].what \in Writers
        BY <1>3, <4>1
      <4>6. [j \in 1..(i - 1) |-> chain[j].what] = Append(p, chain[i - 1].what)
        BY <4>3, <4>4, <4>5
      <4>7. QED
        BY <3>1, <3>3, <4>2, <4>3, <4>6
    <3>4. QED
      BY <3>1, <3>2, <3>3
  <2>2. Breaks(chain) = {}
    BY SMTT(30), <1>2, <2>1 DEF Breaks
  <2>3. QED
    BY <2>2, <1>2 DEF ChainIntact, AuditInv, ChainsVerify
<1>6. DiffsAreTrue
  BY DEF DiffsAreTrue, AuditInv, VersionsNumbered, Follows
<1>7. QED
  BY <1>1, <1>4, <1>5, <1>6

(* The chain has no gap and no fork, appends never collide, and the diffs of *)
(* a setting are the values it had (core/audit/writer.write, the settings    *)
(* writers): for any number of writers, values, entries and anchors.         *)
THEOREM AuditAlwaysTrue ==
  AuditSpec => [](AuditTypeOK /\ ChainIntact /\ AppendsNeverCollide /\ DiffsAreTrue)
<1>1. AuditSpec => []AuditInv
  BY AuditStarts, AuditSteps, PTL DEF AuditSpec
<1>2. QED
  BY <1>1, AuditInvShows, PTL

(***************************************************************************)
(* Packs                                                                   *)
(***************************************************************************)
PackStatuses == {"absent", "installing", "active", "failed", "uninstalled"}
AgentStates == {"none", "paused", "active", "circuit_open"}
InstallerWork == [doing : {"nothing", "claim", "pipeline", "mark", "activate"},
                  org : SUBSET Stores, pack : SUBSET PackRows, digest : SUBSET Digests,
                  setup : BOOLEAN]

PacksTypes ==
  /\ installation \in [Stores -> [PackRows -> [status : PackStatuses, digest : SUBSET Digests]]]
  /\ instance \in [Stores -> [PackRows -> AgentStates]]
  /\ manifest \in [PackRows -> SUBSET Digests]
  /\ shell \subseteq Stores /\ late \subseteq Stores \X PackRows
  /\ installer \in [Installers -> InstallerWork]
  /\ faults \in 0..MaxFaults

(* The claimed row: until its pipeline ended it is one install's, and no     *)
(* agent of it is there.                                                     *)
Installs(k, o, p) == At(k, "pipeline", o, p) \/ At(k, "mark", o, p)
RowClaimed ==
  /\ \A o \in Stores, p \in PackRows :
       installation[o][p].status = "absent" => installation[o][p] = NoInstallation
  /\ \A k \in Installers, o \in Stores, p \in PackRows : Installs(k, o, p) =>
       /\ installation[o][p].status \in {"installing", "uninstalled"}
       /\ instance[o][p] = "none"
       /\ \A l \in Installers : Installs(l, o, p) => l = k

(* What is uninstalled before the setup activated the agents is late.        *)
SetupAhead(o) == o \in shell \/ \E k \in Installers : installer[k].org = {o} /\ installer[k].setup
LateOnes ==
  /\ \A k \in Installers : installer[k].doing = "activate" => installer[k].setup
  /\ \A o \in Stores, p \in PackRows :
       SetupAhead(o) /\ installation[o][p].status = "uninstalled" => <<o, p>> \in late

PacksInv == PacksTypes /\ RowClaimed /\ LateOnes /\ InstallAllOrNothing /\ UninstalledIsPaused

LEMMA PacksStart == PacksInit => PacksInv
<1> SUFFICES ASSUME PacksInit PROVE PacksInv
  OBVIOUS
<1>1. PacksTypes
  BY PacksAssumption DEF PacksInit, PacksTypes, NoInstallation, OffDuty, PackStatuses, AgentStates, InstallerWork
<1>2. QED
  BY <1>1 DEF PacksInv, PacksInit, RowClaimed, LateOnes, InstallAllOrNothing, UninstalledIsPaused,
              Installs, At, SetupAhead, NoInstallation, OffDuty

(* Only an install's own work changes, and it is on no row.                 *)
LEMMA InstallerMoves ==
  ASSUME PacksInv, NEW k \in Installers, NEW work \in InstallerWork,
         installer' = [installer EXCEPT ![k] = work],
         UNCHANGED <<installation, instance>>,
         shell' \subseteq shell, manifest' \in [PackRows -> SUBSET Digests], late' = late,
         faults' \in 0..MaxFaults,
         work.doing \in {"pipeline", "mark"} =>
           /\ installer[k].doing \in {"pipeline", "mark"}
           /\ work.org = installer[k].org /\ work.pack = installer[k].pack,
         work.doing = "activate" => work.setup,
         \A o \in Stores : work.setup /\ work.org = {o} => SetupAhead(o)
  PROVE  PacksInv'
<1>1. /\ installer'[k] = work /\ \A l \in Installers : l # k => installer'[l] = installer[l]
      /\ installer' \in [Installers -> InstallerWork]
  BY DEF PacksInv, PacksTypes
<1>2. PacksTypes'
  BY <1>1 DEF PacksInv, PacksTypes
<1>3. \A l \in Installers, o \in Stores, p \in PackRows : Installs(l, o, p)' => Installs(l, o, p)
  BY <1>1 DEF Installs, At
<1>4. RowClaimed'
  BY <1>3 DEF PacksInv, RowClaimed
<1>5. \A o \in Stores : SetupAhead(o)' => SetupAhead(o)
  BY <1>1 DEF SetupAhead
<1>6. LateOnes'
  BY <1>1, <1>5 DEF PacksInv, LateOnes
<1>7. QED
  BY <1>2, <1>4, <1>6 DEF PacksInv, InstallAllOrNothing, UninstalledIsPaused

LEMMA OffDutyFits ==
  OffDuty \in InstallerWork /\ OffDuty.doing = "nothing" /\ ~OffDuty.setup
BY DEF OffDuty, InstallerWork

LEMMA PacksStartInstall ==
  ASSUME PacksInv, NEW k \in Installers, NEW o \in Stores, NEW p \in PackRows,
         NEW d \in Digests, NEW setup \in BOOLEAN, StartInstall(k, o, p, d, setup)
  PROVE  PacksInv'
<1> DEFINE goOn(what) == [doing |-> what, org |-> {o}, pack |-> {p}, digest |-> {d}, setup |-> setup]
<1>1. goOn("claim") \in InstallerWork /\ goOn("activate") \in InstallerWork
  BY DEF InstallerWork
<1>2. \E work \in {goOn("claim"), OffDuty} \cup (IF setup THEN {goOn("activate")} ELSE {}) :
        installer' = [installer EXCEPT ![k] = work]
  BY DEF StartInstall
<1>3. PICK work \in {goOn("claim"), OffDuty} \cup (IF setup THEN {goOn("activate")} ELSE {}) :
        installer' = [installer EXCEPT ![k] = work]
  BY <1>2
<1>4. /\ work \in InstallerWork /\ work.doing \in {"claim", "activate", "nothing"}
      /\ work.doing = "activate" => work.setup
      /\ work.setup => setup /\ work.org = {o}
  BY <1>1, <1>3, OffDutyFits
<1>5. /\ manifest' \in [PackRows -> SUBSET Digests] /\ faults' \in 0..MaxFaults
      /\ shell' \subseteq shell /\ UNCHANGED <<installation, instance, late>>
  BY DEF StartInstall, PacksInv, PacksTypes
<1>6. setup => o \in shell
  BY DEF StartInstall
<1>7. \A q \in Stores : work.setup /\ work.org = {q} => SetupAhead(q)
  BY <1>4, <1>6 DEF SetupAhead
<1> HIDE DEF goOn
<1>8. QED
  BY <1>3, <1>4, <1>5, <1>7, InstallerMoves

(* An install that goes home.                                               *)
LEMMA PacksGoHome ==
  ASSUME PacksInv, NEW k \in Installers, GoHome(k), UNCHANGED <<installation, instance>>,
         shell' \subseteq shell, UNCHANGED <<manifest, late>>, faults' \in 0..MaxFaults
  PROVE  PacksInv'
<1>1. manifest' \in [PackRows -> SUBSET Digests] /\ installer' = [installer EXCEPT ![k] = OffDuty]
  BY DEF PacksInv, PacksTypes, GoHome
<1>2. QED
  BY <1>1, OffDutyFits, InstallerMoves

LEMMA PacksClaim ==
  ASSUME PacksInv, NEW k \in Installers, NEW o \in Stores, NEW p \in PackRows, ClaimRow(k, o, p)
  PROVE  PacksInv'
<1>1. CASE installation[o][p] # NoInstallation
  BY <1>1, PacksGoHome DEF ClaimRow, PacksInv, PacksTypes
<1>2. CASE installation[o][p] = NoInstallation
  <2> DEFINE row == [status |-> "installing", digest |-> installer[k].digest]
  <2>0. installer[k] \in InstallerWork
    BY DEF PacksInv, PacksTypes
  <2>1. /\ row.status = "installing" /\ row \in [status : PackStatuses, digest : SUBSET Digests]
    BY <2>0 DEF InstallerWork, PackStatuses
  <2>2. /\ installation' = [installation EXCEPT ![o][p] = row]
        /\ installer' = [installer EXCEPT ![k].doing = "pipeline"]
        /\ At(k, "claim", o, p) /\ UNCHANGED <<instance, manifest, shell, late, faults>>
    BY <1>2 DEF ClaimRow, Proceed
  <2> HIDE DEF row
  <2>3. /\ installation' \in [Stores -> [PackRows -> [status : PackStatuses, digest : SUBSET Digests]]]
        /\ installation'[o][p] = row
        /\ \A a \in Stores, b \in PackRows :
             ~(a = o /\ b = p) => installation'[a][b] = installation[a][b]
    BY <2>1, <2>2 DEF PacksInv, PacksTypes
  <2>4. /\ installer' \in [Installers -> InstallerWork]
        /\ installer'[k].doing = "pipeline" /\ installer'[k].org = {o} /\ installer'[k].pack = {p}
        /\ installer'[k].setup = installer[k].setup
        /\ \A l \in Installers : l # k => installer'[l] = installer[l]
    BY <2>0, <2>2 DEF PacksInv, PacksTypes, InstallerWork, At
  <2>5. instance[o][p] = "none"
    BY <1>2 DEF PacksInv, InstallAllOrNothing, NoInstallation, PacksTypes
  <2>6. PacksTypes'
    BY <2>2, <2>3, <2>4 DEF PacksInv, PacksTypes
  <2>7. \A l \in Installers : ~Installs(l, o, p)
    BY <1>2 DEF PacksInv, RowClaimed, NoInstallation
  <2>8. \A l \in Installers, a \in Stores, b \in PackRows :
          Installs(l, a, b)' => \/ l = k /\ a = o /\ b = p
                                \/ l # k /\ Installs(l, a, b) /\ ~(a = o /\ b = p)
    BY <2>4, <2>7 DEF Installs, At
  <2>9. RowClaimed'  BY <2>1, <2>2, <2>3, <2>5, <2>8 DEF PacksInv, RowClaimed
  <2>10. \A a \in Stores : SetupAhead(a)' => SetupAhead(a)
    BY <2>2, <2>4 DEF SetupAhead, At
  <2>11. LateOnes'
    BY <2>1, <2>2, <2>3, <2>4, <2>10 DEF PacksInv, LateOnes
  <2>12. InstallAllOrNothing' /\ UninstalledIsPaused'
    BY <2>1, <2>2, <2>3, <2>5 DEF PacksInv, InstallAllOrNothing, UninstalledIsPaused
  <2>13. QED
    BY <2>6, <2>9, <2>11, <2>12 DEF PacksInv
<1>3. QED
  BY <1>1, <1>2

LEMMA StatusIsSet ==
  ASSUME PacksTypes, NEW o \in Stores, NEW p \in PackRows, NEW s \in PackStatuses,
         SetInstallation(o, p, s)
  PROVE  /\ installation' \in [Stores -> [PackRows -> [status : PackStatuses, digest : SUBSET Digests]]]
         /\ installation'[o][p].status = s
         /\ \A a \in Stores, b \in PackRows :
              ~(a = o /\ b = p) => installation'[a][b] = installation[a][b]
<1> DEFINE PackCell == [status : PackStatuses, digest : SUBSET Digests]
<1> DEFINE row == [installation[o][p] EXCEPT !.status = s]
<1> DEFINE rows == [installation[o] EXCEPT ![p] = row]
<1>1. installation \in [Stores -> [PackRows -> PackCell]]
  BY DEF PacksTypes
<1>2. row \in PackCell /\ row.status = s
  BY <1>1
<1> HIDE DEF PackCell, row
<1>3. rows \in [PackRows -> PackCell] /\ rows[p] = row
      /\ \A b \in PackRows : b # p => rows[b] = installation[o][b]
  BY <1>1, <1>2
<1>4. installation' = [installation EXCEPT ![o] = rows]
  BY DEF SetInstallation, row
<1> HIDE DEF rows
<1>5. installation' \in [Stores -> [PackRows -> PackCell]] /\ installation'[o] = rows
      /\ \A a \in Stores : a # o => installation'[a] = installation[a]
  BY <1>1, <1>3, <1>4
<1>6. QED
  BY <1>2, <1>3, <1>5 DEF PackCell

(* The row's installation and its agents change, and the install that holds *)
(* it leaves the row.                                                       *)
LEMMA RowSettled ==
  ASSUME PacksInv, NEW k \in Installers, NEW o \in Stores, NEW p \in PackRows, Installs(k, o, p),
         NEW s \in {"active", "failed"}, NEW i \in {"none", "paused"}, s = "active" <=> i = "paused",
         SetInstallation(o, p, s), instance' = [instance EXCEPT ![o][p] = i],
         NEW work \in InstallerWork, installer' = [installer EXCEPT ![k] = work],
         work.doing \in {"nothing", "activate"}, work.doing = "activate" => work.setup,
         work.setup => installer[k].setup /\ work.org = installer[k].org,
         UNCHANGED <<manifest, shell, late, faults>>
  PROVE  PacksInv'
<1>1. /\ installation' \in [Stores -> [PackRows -> [status : PackStatuses, digest : SUBSET Digests]]]
      /\ installation'[o][p].status = s
      /\ \A a \in Stores, b \in PackRows :
           ~(a = o /\ b = p) => installation'[a][b] = installation[a][b]
  BY StatusIsSet DEF PacksInv, PackStatuses
<1>2. /\ instance' \in [Stores -> [PackRows -> AgentStates]] /\ instance'[o][p] = i
      /\ \A a \in Stores, b \in PackRows : ~(a = o /\ b = p) => instance'[a][b] = instance[a][b]
  BY DEF PacksInv, PacksTypes, AgentStates
<1>3. /\ installer' \in [Installers -> InstallerWork] /\ installer'[k] = work
      /\ \A l \in Installers : l # k => installer'[l] = installer[l]
  BY DEF PacksInv, PacksTypes
<1>4. PacksTypes'
  BY <1>1, <1>2, <1>3 DEF PacksInv, PacksTypes
<1>5. \A l \in Installers, a \in Stores, b \in PackRows :
        Installs(l, a, b)' => l # k /\ Installs(l, a, b) /\ ~(a = o /\ b = p)
  BY <1>3 DEF PacksInv, RowClaimed, Installs, At
<1>6. RowClaimed'
  <2>1. \A a \in Stores, b \in PackRows :
          installation'[a][b].status = "absent" => installation'[a][b] = NoInstallation
    <3> SUFFICES ASSUME NEW a \in Stores, NEW b \in PackRows, installation'[a][b].status = "absent"
                 PROVE  installation'[a][b] = NoInstallation
      OBVIOUS
    <3>1. ~(a = o /\ b = p)
      BY <1>1
    <3>2. installation'[a][b] = installation[a][b]
      BY <1>1, <3>1
    <3>3. installation[a][b].status = "absent" => installation[a][b] = NoInstallation
      BY DEF PacksInv, RowClaimed
    <3>4. QED
      BY <3>2, <3>3
  <2>2. ASSUME NEW l \in Installers, NEW a \in Stores, NEW b \in PackRows, Installs(l, a, b)'
        PROVE  /\ installation'[a][b].status \in {"installing", "uninstalled"}
               /\ instance'[a][b] = "none"
               /\ \A m \in Installers : Installs(m, a, b)' => m = l
    <3>1. l # k /\ Installs(l, a, b) /\ ~(a = o /\ b = p)
      BY <1>5, <2>2
    <3>2. /\ installation[a][b].status \in {"installing", "uninstalled"}
          /\ instance[a][b] = "none"
          /\ \A m \in Installers : Installs(m, a, b) => m = l
      BY <3>1 DEF PacksInv, RowClaimed
    <3>3. installation'[a][b] = installation[a][b] /\ instance'[a][b] = instance[a][b]
      BY <1>1, <1>2, <3>1
    <3>4. QED
      BY <1>5, <3>2, <3>3
  <2>3. QED
    BY <2>1, <2>2 DEF RowClaimed
<1>7. \A a \in Stores : SetupAhead(a)' => SetupAhead(a)
  BY <1>3 DEF SetupAhead
<1>8. LateOnes'
  BY <1>1, <1>3, <1>7 DEF PacksInv, LateOnes
<1>9. InstallAllOrNothing' /\ UninstalledIsPaused'
  <2> SUFFICES ASSUME NEW a \in Stores, NEW b \in PackRows
               PROVE  /\ installation'[a][b].status = "active" => instance'[a][b] # "none"
                      /\ instance'[a][b] # "none" => installation'[a][b].status \in {"active", "uninstalled"}
                      /\ installation'[a][b].status = "uninstalled" /\ <<a, b>> \notin late'
                           => instance'[a][b] # "active"
    BY DEF InstallAllOrNothing, UninstalledIsPaused
  <2>1. CASE a = o /\ b = p
    BY <1>1, <1>2, <2>1
  <2>2. CASE ~(a = o /\ b = p)
    BY SMTT(30), <1>1, <1>2, <2>2 DEF PacksInv, InstallAllOrNothing, UninstalledIsPaused
  <2>3. QED
    BY <2>1, <2>2
<1>10. QED
  BY <1>4, <1>6, <1>8, <1>9 DEF PacksInv

LEMMA PacksPipeline ==
  ASSUME PacksInv, NEW k \in Installers, NEW o \in Stores, NEW p \in PackRows,
         RunPipeline(k, o, p) \/ FailPipeline(k, o, p) \/ MarkFailed(k, o, p)
  PROVE  PacksInv'
<1>1. /\ Installs(k, o, p) /\ instance[o][p] = "none" /\ installer[k] \in InstallerWork
      /\ instance \in [Stores -> [PackRows -> AgentStates]]
  BY DEF PacksInv, RowClaimed, Installs, RunPipeline, FailPipeline, MarkFailed, PacksTypes
<1>2. CASE RunPipeline(k, o, p)
  <2>1. instance' = [instance EXCEPT ![o][p] = "paused"]
    BY <1>1, <1>2 DEF RunPipeline
  <2>2. \E work \in InstallerWork :
          /\ installer' = [installer EXCEPT ![k] = work]
          /\ work.doing \in {"nothing", "activate"} /\ (work.doing = "activate" => work.setup)
          /\ work.setup => installer[k].setup /\ work.org = installer[k].org
    <3>1. CASE installer[k].setup
      <4> DEFINE work == [installer[k] EXCEPT !.doing = "activate"]
      <4>1. /\ work \in InstallerWork /\ work.doing = "activate" /\ work.setup
            /\ work.org = installer[k].org /\ installer' = [installer EXCEPT ![k] = work]
        BY <1>1, <1>2, <3>1 DEF RunPipeline, Proceed, InstallerWork
      <4> HIDE DEF work
      <4>2. QED
        BY <4>1, <3>1
    <3>2. CASE ~installer[k].setup
      BY <1>2, <3>2, OffDutyFits DEF RunPipeline, GoHome
    <3>3. QED
      BY <3>1, <3>2
  <2>3. SetInstallation(o, p, "active") /\ UNCHANGED <<manifest, shell, late, faults>>
    BY <1>2 DEF RunPipeline
  <2>4. QED
    BY <1>1, <2>1, <2>2, <2>3, RowSettled
<1>3. CASE FailPipeline(k, o, p)
  <2> DEFINE work == [installer[k] EXCEPT !.doing = "mark"]
  <2>1. /\ work \in InstallerWork /\ work.doing = "mark" /\ work.org = installer[k].org
        /\ work.pack = installer[k].pack /\ work.setup = installer[k].setup
        /\ installer' = [installer EXCEPT ![k] = work] /\ installer[k].doing = "pipeline"
    BY <1>1, <1>3 DEF FailPipeline, Proceed, InstallerWork, At
  <2>2. /\ UNCHANGED <<installation, instance, late, shell>> /\ faults' \in 0..MaxFaults
        /\ manifest' \in [PackRows -> SUBSET Digests]
    BY <1>3, PacksAssumption DEF FailPipeline, LeftByFailure, PacksInv, PacksTypes
  <2> HIDE DEF work
  <2>3. \A q \in Stores : work.setup /\ work.org = {q} => SetupAhead(q)
    BY <2>1 DEF SetupAhead
  <2>4. QED
    BY <2>1, <2>2, <2>3, InstallerMoves
<1>4. CASE MarkFailed(k, o, p)  BY <1>1, <1>4, OffDutyFits, RowSettled DEF MarkFailed, GoHome
<1>5. QED
  BY <1>2, <1>3, <1>4

(* The rows and the installs stay; agents that are there stay there, and none *)
(* becomes active.                                                          *)
LEMMA AgentsMove ==
  ASSUME PacksInv, instance' \in [Stores -> [PackRows -> AgentStates]],
         \A o \in Stores, p \in PackRows : instance'[o][p] = "none" <=> instance[o][p] = "none",
         \A o \in Stores, p \in PackRows : instance'[o][p] = "active" => instance[o][p] = "active",
         UNCHANGED <<installation, manifest, shell, installer, late, faults>>
  PROVE  PacksInv'
<1>1. PacksTypes'
  BY DEF PacksInv, PacksTypes
<1>2. RowClaimed' /\ LateOnes'
  BY DEF PacksInv, RowClaimed, LateOnes, Installs, At, SetupAhead
<1>3. InstallAllOrNothing' /\ UninstalledIsPaused'
  BY DEF PacksInv, InstallAllOrNothing, UninstalledIsPaused
<1>4. QED
  BY <1>1, <1>2, <1>3 DEF PacksInv

LEMMA PacksActivate ==
  ASSUME PacksInv, NEW k \in Installers, NEW o \in Stores, NEW p \in PackRows,
         ActivateAgents(k, o, p)
  PROVE  PacksInv'
<1> DEFINE active == [q \in PackRows |-> IF instance[o][q] = "none" THEN "none" ELSE "active"]
<1>1. /\ instance \in [Stores -> [PackRows -> AgentStates]]
      /\ instance' = [instance EXCEPT ![o] = active]
  BY DEF ActivateAgents, PacksInv, PacksTypes
<1>2. active \in [PackRows -> AgentStates]
  BY DEF AgentStates
<1>3. /\ instance' \in [Stores -> [PackRows -> AgentStates]]
      /\ \A a \in Stores, b \in PackRows :
           instance'[a][b] = IF a = o THEN active[b] ELSE instance[a][b]
  BY <1>1, <1>2
<1>4. \A a \in Stores, b \in PackRows : instance'[a][b] = "none" <=> instance[a][b] = "none"
  BY <1>3
<1>5. SetupAhead(o)
  BY DEF SetupAhead, ActivateAgents, At, PacksInv, LateOnes
<1>6. PacksTypes' /\ GoHome(k) /\ UNCHANGED <<installation, manifest, shell, late, faults>>
  BY <1>3, OffDutyFits DEF ActivateAgents, GoHome, PacksInv, PacksTypes
<1>7. /\ installer'[k] = OffDuty /\ \A l \in Installers : l # k => installer'[l] = installer[l]
  BY <1>6 DEF GoHome, PacksInv, PacksTypes
<1>8. \A l \in Installers, a \in Stores, b \in PackRows : Installs(l, a, b)' => Installs(l, a, b)
  BY <1>7, OffDutyFits DEF Installs, At
<1>9. RowClaimed'
  BY <1>4, <1>6, <1>8 DEF PacksInv, RowClaimed
<1>10. \A a \in Stores : SetupAhead(a)' => SetupAhead(a)
  BY <1>6, <1>7, OffDutyFits DEF SetupAhead
<1>11. LateOnes'
  BY <1>6, <1>7, <1>10, OffDutyFits DEF PacksInv, LateOnes
<1>12. InstallAllOrNothing'
  BY <1>4, <1>6 DEF PacksInv, InstallAllOrNothing
<1>13. UninstalledIsPaused'
  BY <1>3, <1>5, <1>6 DEF PacksInv, LateOnes, UninstalledIsPaused
<1>14. QED
  BY <1>6, <1>9, <1>11, <1>12, <1>13 DEF PacksInv

LEMMA PacksCircuit ==
  ASSUME PacksInv, NEW o \in Stores, NEW p \in PackRows, OpenCircuit(o, p)
  PROVE  PacksInv'
<1>1. /\ instance \in [Stores -> [PackRows -> AgentStates]] /\ instance[o][p] # "none"
      /\ instance' = [instance EXCEPT ![o][p] = "circuit_open"]
      /\ UNCHANGED <<installation, manifest, shell, installer, late, faults>>
  BY DEF OpenCircuit, PacksInv, PacksTypes
<1>2. /\ instance' \in [Stores -> [PackRows -> AgentStates]]
      /\ \A a \in Stores, b \in PackRows :
           instance'[a][b] = IF a = o /\ b = p THEN "circuit_open" ELSE instance[a][b]
  BY <1>1 DEF AgentStates
<1>3. /\ \A a \in Stores, b \in PackRows : instance'[a][b] = "none" <=> instance[a][b] = "none"
      /\ \A a \in Stores, b \in PackRows : instance'[a][b] = "active" => instance[a][b] = "active"
  BY <1>1, <1>2
<1>4. QED
  BY <1>1, <1>2, <1>3, AgentsMove

LEMMA PacksUninstall ==
  ASSUME PacksInv, NEW o \in Stores, NEW p \in PackRows, Uninstall(o, p)
  PROVE  PacksInv'
<1>1. /\ instance \in [Stores -> [PackRows -> AgentStates]]
      /\ instance' = [instance EXCEPT ![o][p] = IF @ = "none" THEN "none" ELSE "paused"]
      /\ installation[o][p] # NoInstallation
      /\ installation' = [installation EXCEPT ![o][p].status = "uninstalled"]
      /\ late' = IF SetupAhead(o) THEN late \cup {<<o, p>>} ELSE late
      /\ UNCHANGED <<manifest, shell, installer, faults>>
  BY DEF Uninstall, Paused, SetInstallation, SetupAhead, PacksInv, PacksTypes
<1>2. /\ instance' \in [Stores -> [PackRows -> AgentStates]]
      /\ \A a \in Stores, b \in PackRows :
           instance'[a][b] = IF a = o /\ b = p
                             THEN IF instance[a][b] = "none" THEN "none" ELSE "paused"
                             ELSE instance[a][b]
  BY <1>1 DEF AgentStates
<1>3. /\ installation' \in [Stores -> [PackRows -> [status : PackStatuses, digest : SUBSET Digests]]]
      /\ installation'[o][p].status = "uninstalled"
      /\ \A a \in Stores, b \in PackRows :
           ~(a = o /\ b = p) => installation'[a][b] = installation[a][b]
  BY StatusIsSet DEF Uninstall, PackStatuses, PacksInv
<1>4. PacksTypes'
  <2>1. late' \subseteq Stores \X PackRows
    BY <1>1 DEF PacksInv, PacksTypes
  <2>2. QED
    BY <1>1, <1>2, <1>3, <2>1 DEF PacksInv, PacksTypes
<1>5. \A l \in Installers, a \in Stores, b \in PackRows : Installs(l, a, b)' <=> Installs(l, a, b)
  BY <1>1 DEF Installs, At
<1>6. RowClaimed'
  <2>1. \A a \in Stores, b \in PackRows :
          installation'[a][b].status = "absent" => installation'[a][b] = NoInstallation
    BY <1>3 DEF PacksInv, RowClaimed
  <2>2. ASSUME NEW l \in Installers, NEW a \in Stores, NEW b \in PackRows, Installs(l, a, b)'
        PROVE  /\ installation'[a][b].status \in {"installing", "uninstalled"}
               /\ instance'[a][b] = "none"
               /\ \A m \in Installers : Installs(m, a, b)' => m = l
    <3>1. Installs(l, a, b)
      BY <1>5, <2>2
    <3>2. /\ installation[a][b].status \in {"installing", "uninstalled"}
          /\ instance[a][b] = "none"
          /\ \A m \in Installers : Installs(m, a, b) => m = l
      BY <3>1 DEF PacksInv, RowClaimed
    <3>3. CASE a = o /\ b = p
      BY <1>2, <1>3, <1>5, <3>2, <3>3
    <3>4. CASE ~(a = o /\ b = p)
      BY <1>2, <1>3, <1>5, <3>2, <3>4
    <3>5. QED
      BY <3>3, <3>4
  <2>3. QED
    BY <2>1, <2>2 DEF RowClaimed
<1>7. \A a \in Stores : SetupAhead(a)' <=> SetupAhead(a)
  BY <1>1 DEF SetupAhead
<1>8. LateOnes'
  BY <1>1, <1>3, <1>7 DEF PacksInv, LateOnes
<1>9. InstallAllOrNothing' /\ UninstalledIsPaused'
  BY <1>1, <1>2, <1>3 DEF PacksInv, InstallAllOrNothing, UninstalledIsPaused
<1>10. QED
  BY <1>4, <1>6, <1>8, <1>9 DEF PacksInv

LEMMA PacksSteps == PacksInv /\ [PacksNext]_packVars => PacksInv'
<1> SUFFICES ASSUME PacksInv, [PacksNext]_packVars PROVE PacksInv'
  OBVIOUS
<1>1. ASSUME NEW o \in Stores, NEW p \in PackRows, Uninstall(o, p) \/ OpenCircuit(o, p)
      PROVE  PacksInv'
  BY <1>1, PacksUninstall, PacksCircuit
<1>2. ASSUME NEW o \in Stores, NEW p \in PackRows, NEW k \in Installers, NEW d \in Digests,
             NEW setup \in BOOLEAN, StartInstall(k, o, p, d, setup)
      PROVE  PacksInv'
  BY <1>2, PacksStartInstall
<1>3. ASSUME NEW o \in Stores, NEW p \in PackRows, NEW k \in Installers,
             \/ ClaimRow(k, o, p) \/ RunPipeline(k, o, p) \/ FailPipeline(k, o, p)
             \/ MarkFailed(k, o, p) \/ ActivateAgents(k, o, p)
      PROVE  PacksInv'
  BY <1>3, PacksClaim, PacksPipeline, PacksActivate
<1>4. ASSUME NEW k \in Installers, Die(k) PROVE PacksInv'
  BY <1>4, PacksAssumption, PacksGoHome DEF Die, PacksInv, PacksTypes
<1>5. CASE UNCHANGED packVars  BY <1>5, AgentsMove DEF packVars, PacksInv, PacksTypes
<1>6. QED
  BY <1>1, <1>2, <1>3, <1>4, <1>5 DEF PacksNext

(* A pack is installed whole or not at all, and an uninstalled one's agents  *)
(* are paused but for the setup's late activation (install, uninstall,       *)
(* activate_plan_agents): for any stores, packs, digests and requests.       *)
THEOREM PacksAlwaysWhole ==
  PacksSpec => [](PacksTypeOK /\ InstallAllOrNothing /\ UninstalledIsPaused)
<1>1. PacksInv => PacksTypeOK
  BY DEF PacksInv, PacksTypes, PacksTypeOK, PackStatuses, AgentStates, InstallerWork
<1>2. PacksInv => InstallAllOrNothing /\ UninstalledIsPaused
  BY DEF PacksInv
<1>3. PacksSpec => []PacksInv
  BY PacksStart, PacksSteps, PTL DEF PacksSpec
<1>4. QED
  BY <1>1, <1>2, <1>3, PTL

(***************************************************************************)
(* Sign-in                                                                 *)
(***************************************************************************)
CodeRow == [serial : 0..MaxCodes, tries : Nat, used : BOOLEAN, expired : BOOLEAN, cooling : BOOLEAN]
SessionRow == [user : SUBSET Identifiers, token : 0..MaxTokens, revoked : BOOLEAN, expired : BOOLEAN]
CallWork == [doing : {"nothing", "issue", "login", "miss", "rotate", "revoke", "commit"},
             who : SUBSET Identifiers, serial : Nat, known : BOOLEAN,
             on : SUBSET Sessions, token : 0..MaxTokens, given : 0..MaxTokens]

IdentityTypes ==
  /\ code \in [Identifiers -> CodeRow] /\ users \subseteq Identifiers
  /\ session \in [Sessions -> SessionRow] /\ issued \in [Sessions -> 0..MaxTokens]
  /\ succeeded \subseteq [of : Sessions, old : 1..MaxTokens, new : 1..MaxTokens]
  /\ call \in [Calls -> CallWork]

(* A session has a token from the moment it is opened, and none is its row's *)
(* that was not handed out.                                                  *)
SessionsOpened ==
  /\ \A s \in Sessions :
       /\ session[s].token <= issued[s]
       /\ session[s].token = 0 => session[s] = NoSession /\ issued[s] = 0
  /\ \A k \in Calls :
       /\ call[k].doing \in {"rotate", "commit"} => call[k].token > 0
       /\ call[k].doing = "revoke" => \A s \in call[k].on : session[s].token > 0

(* An uncommitted rotation holds its row: the row is live, shows the token   *)
(* that was presented, and no other rotation of it is uncommitted.           *)
RotationsApart ==
  /\ \A k \in Calls, s \in Sessions : call[k].doing = "commit" /\ call[k].on = {s} =>
       /\ session[s].token = call[k].token /\ ~session[s].revoked
       /\ call[k].token < call[k].given /\ call[k].given <= issued[s]
       /\ \A l \in Calls : call[l].doing = "commit" /\ call[l].on = {s} => l = k
  /\ \A r \in succeeded : r.old < session[r.of].token

(* The wrong guesses at a code: those counted and those still to be counted. *)
Misses(i) == {k \in Calls : /\ call[k].doing = "miss" /\ call[k].who = {i}
                            /\ call[k].serial = code[i].serial}
GuessesCounted ==
  \A i \in Identifiers :
    /\ code[i].tries + Cardinality(Misses(i)) <= MaxTries + Cardinality(Calls) - 1
    /\ \A k \in Calls : call[k].doing = "miss" /\ call[k].who = {i} => call[k].serial <= code[i].serial

IdentityInv == IdentityTypes /\ SessionsOpened /\ RotationsApart /\ GuessesCounted /\ OneSuccessor

LEMMA QuietFits == Quiet \in CallWork /\ Quiet.doing = "nothing"
BY IdentityAssumption DEF Quiet, CallWork

LEMMA CallsCounted ==
  /\ Cardinality(Calls) \in Nat /\ Cardinality(Calls) >= 1
  /\ \A S : S \subseteq Calls => /\ IsFiniteSet(S) /\ Cardinality(S) \in Nat
                                 /\ Cardinality(S) <= Cardinality(Calls)
<1>1. Cardinality(Calls) \in Nat /\ Cardinality(Calls) # 0
  BY IdentityAssumption, FS_CardinalityType, FS_EmptySet
<1>2. ASSUME NEW S, S \subseteq Calls
      PROVE  IsFiniteSet(S) /\ Cardinality(S) \in Nat /\ Cardinality(S) <= Cardinality(Calls)
  BY <1>2, IdentityAssumption, FS_Subset, FS_CardinalityType
<1>3. QED
  BY <1>1, <1>2

LEMMA IdentityStarts == IdentityInit => IdentityInv
<1> SUFFICES ASSUME IdentityInit PROVE IdentityInv
  OBVIOUS
<1>1. /\ NoCode \in CodeRow /\ NoCode.serial = 0 /\ NoCode.tries = 0
      /\ NoSession \in SessionRow /\ NoSession.token = 0
  BY IdentityAssumption DEF NoCode, CodeRow, NoSession, SessionRow
<1>2. IdentityTypes
  BY <1>1, QuietFits, IdentityAssumption DEF IdentityTypes, IdentityInit
<1>3. SessionsOpened
  BY <1>1, QuietFits DEF SessionsOpened, IdentityInit
<1>4. RotationsApart /\ OneSuccessor
  BY QuietFits DEF RotationsApart, OneSuccessor, IdentityInit
<1>5. GuessesCounted
  <2>1. \A i \in Identifiers : Misses(i) = {} /\ code[i].tries = 0
    BY <1>1, QuietFits DEF Misses, IdentityInit
  <2>2. \A k \in Calls : call[k].doing = "nothing"
    BY QuietFits DEF IdentityInit
  <2>3. Cardinality({}) = 0
    BY FS_EmptySet
  <2>4. ASSUME NEW i \in Identifiers
        PROVE  code[i].tries + Cardinality(Misses(i)) <= MaxTries + Cardinality(Calls) - 1
    <3>1. code[i].tries = 0 /\ Cardinality(Misses(i)) = 0
      BY <2>1, <2>3
    <3>2. MaxTries \in Nat /\ Cardinality(Calls) \in Nat /\ Cardinality(Calls) >= 1
      BY CallsCounted, IdentityAssumption
    <3>3. QED
      BY <3>1, <3>2
  <2>5. QED
    BY <2>2, <2>4 DEF GuessesCounted
<1>6. QED
  BY <1>2, <1>3, <1>4, <1>5 DEF IdentityInv

(* A request goes on: what it was counted for it is counted for no more, and *)
(* what it now does it may do.                                              *)
LEMMA CallGoesOn ==
  ASSUME IdentityInv, NEW k \in Calls, NEW work \in CallWork, Serve(k, work),
         UNCHANGED <<code, users, session, succeeded>>,
         issued' \in [Sessions -> 0..MaxTokens],
         \A s \in Sessions : issued[s] <= issued'[s] /\ (issued[s] = 0 => issued'[s] = 0),
         work.doing \in {"rotate", "commit"} => work.token > 0,
         work.doing = "revoke" => \A s \in work.on : session[s].token > 0,
         work.doing = "commit" => \A s \in Sessions : work.on = {s} =>
           /\ session[s].token = work.token /\ ~session[s].revoked
           /\ work.token < work.given /\ work.given <= issued'[s]
           /\ \A l \in Calls \ {k} : ~(call[l].doing = "commit" /\ call[l].on = {s}),
         work.doing = "miss" => \A i \in Identifiers : work.who = {i} =>
           code[i].tries < MaxTries /\ work.serial <= code[i].serial
  PROVE  IdentityInv'
<1>1. /\ call' \in [Calls -> CallWork] /\ call'[k] = work
      /\ \A l \in Calls : l # k => call'[l] = call[l]
  BY DEF Serve, IdentityInv, IdentityTypes
<1>2. IdentityTypes'
  BY <1>1 DEF IdentityInv, IdentityTypes
<1>3. SessionsOpened'  BY <1>1 DEF IdentityInv, IdentityTypes, SessionsOpened, SessionRow
<1>4. RotationsApart'
  <2>1. ASSUME NEW l \in Calls, NEW s \in Sessions, call'[l].doing = "commit", call'[l].on = {s}
        PROVE  /\ session[s].token = call'[l].token /\ ~session[s].revoked
               /\ call'[l].token < call'[l].given /\ call'[l].given <= issued'[s]
    BY <1>1, <2>1 DEF IdentityInv, RotationsApart, IdentityTypes, CallWork
  <2>2. ASSUME NEW l \in Calls, NEW m \in Calls, NEW s \in Sessions,
               call'[l].doing = "commit", call'[l].on = {s},
               call'[m].doing = "commit", call'[m].on = {s}
        PROVE  l = m  BY <1>1, <2>2 DEF IdentityInv, RotationsApart
  <2>3. QED
    BY <2>1, <2>2 DEF IdentityInv, RotationsApart
<1>5. GuessesCounted'
  <2> SUFFICES ASSUME NEW i \in Identifiers
               PROVE  /\ code[i].tries + Cardinality(Misses(i)') <= MaxTries + Cardinality(Calls) - 1
                      /\ \A l \in Calls : call'[l].doing = "miss" /\ call'[l].who = {i}
                           => call'[l].serial <= code[i].serial
    BY DEF GuessesCounted
  <2>1. code[i].tries \in Nat /\ code' = code
    BY DEF IdentityInv, IdentityTypes, CodeRow
  <2>2. Misses(i)' \subseteq Calls /\ Misses(i) \subseteq Calls
    BY DEF Misses
  <2>3. \A l \in Calls : call'[l].doing = "miss" /\ call'[l].who = {i}
          => call'[l].serial <= code[i].serial
    BY <1>1 DEF IdentityInv, GuessesCounted
  <2>4. CASE work.doing = "miss" /\ work.who = {i}
    BY <2>1, <2>2, <2>3, <2>4, IdentityAssumption, CallsCounted
  <2>5. CASE ~(work.doing = "miss" /\ work.who = {i})
    <3>1. Misses(i)' \subseteq Misses(i)
      BY <1>1, <2>1, <2>5 DEF Misses
    <3>2. Cardinality(Misses(i)') <= Cardinality(Misses(i))
      BY <2>2, <3>1, CallsCounted, FS_Subset
    <3>3. /\ Cardinality(Misses(i)') \in Nat /\ Cardinality(Misses(i)) \in Nat
          /\ Cardinality(Calls) \in Nat /\ MaxTries \in Nat /\ code[i].tries \in Nat
      BY <2>1, <2>2, CallsCounted, IdentityAssumption
    <3>4. code[i].tries + Cardinality(Misses(i)) <= MaxTries + Cardinality(Calls) - 1
      BY DEF IdentityInv, GuessesCounted
    <3>5. code[i].tries + Cardinality(Misses(i)') <= MaxTries + Cardinality(Calls) - 1
      BY <3>2, <3>3, <3>4
    <3>6. QED
      BY <2>3, <3>5
  <2>6. QED
    BY <2>3, <2>4, <2>5
<1>6. QED
  BY <1>2, <1>3, <1>4, <1>5 DEF IdentityInv, OneSuccessor

LEMMA CallCloses ==
  ASSUME IdentityInv, NEW k \in Calls, Close(k), UNCHANGED <<code, users, session, issued, succeeded>>
  PROVE  IdentityInv'
<1>1. Serve(k, Quiet) /\ issued' = issued /\ issued \in [Sessions -> 0..MaxTokens]
  BY DEF Close, IdentityInv, IdentityTypes
<1>2. \A s \in Sessions : issued[s] <= issued'[s]
  BY <1>1
<1>3. QED
  BY <1>1, <1>2, QuietFits, CallGoesOn

(* What leaves the codes' serials and tries alone, and starts no guess,      *)
(* leaves the guesses counted.                                               *)
LEMMA GuessesKept ==
  ASSUME IdentityInv,
         \A l \in Calls : call'[l] = call[l] \/ call'[l].doing = "nothing",
         \A i \in Identifiers : code'[i].serial = code[i].serial /\ code'[i].tries = code[i].tries
  PROVE  GuessesCounted'
<1> SUFFICES ASSUME NEW i \in Identifiers
             PROVE  /\ code'[i].tries + Cardinality(Misses(i)') <= MaxTries + Cardinality(Calls) - 1
                    /\ \A l \in Calls : call'[l].doing = "miss" /\ call'[l].who = {i}
                         => call'[l].serial <= code'[i].serial
  BY DEF GuessesCounted
<1>1. Misses(i)' \subseteq Misses(i) /\ Misses(i) \subseteq Calls
  BY DEF Misses
<1>2. IsFiniteSet(Misses(i)) /\ Misses(i)' \subseteq Calls
  BY <1>1, CallsCounted
<1>3. Cardinality(Misses(i)') <= Cardinality(Misses(i))
  BY <1>1, <1>2, FS_Subset
<1>4. /\ Cardinality(Misses(i)') \in Nat /\ Cardinality(Misses(i)) \in Nat
      /\ Cardinality(Calls) \in Nat /\ MaxTries \in Nat /\ code[i].tries \in Nat
  BY <1>1, <1>2, CallsCounted, IdentityAssumption DEF IdentityInv, IdentityTypes, CodeRow
<1>5. code[i].tries + Cardinality(Misses(i)) <= MaxTries + Cardinality(Calls) - 1
  BY DEF IdentityInv, GuessesCounted
<1>6. code'[i].tries + Cardinality(Misses(i)') <= MaxTries + Cardinality(Calls) - 1
  BY <1>3, <1>4, <1>5
<1>7. \A l \in Calls : call'[l].doing = "miss" /\ call'[l].who = {i}
        => call'[l].serial <= code'[i].serial
  BY DEF IdentityInv, GuessesCounted
<1>8. QED
  BY <1>6, <1>7

(* What moves no token, and revokes no row that a rotation holds, leaves the *)
(* sessions and their rotations as they were.                                *)
LEMMA SessionsKept ==
  ASSUME IdentityInv, UNCHANGED <<issued, succeeded>>,
         \A l \in Calls : call'[l] = call[l] \/ call'[l].doing = "nothing",
         \A s \in Sessions : /\ session'[s].token = session[s].token
                             /\ session[s].token = 0 => session'[s] = session[s],
         \A s \in Sessions, l \in Calls : call'[l].doing = "commit" /\ call'[l].on = {s}
            => session'[s].revoked = session[s].revoked
  PROVE  SessionsOpened' /\ RotationsApart' /\ OneSuccessor'
<1>1. SessionsOpened'  BY DEF IdentityInv, SessionsOpened, IdentityTypes, CallWork
<1>2. RotationsApart'  BY DEF IdentityInv, RotationsApart, IdentityTypes
<1>3. QED
  BY <1>1, <1>2 DEF IdentityInv, OneSuccessor

LEMMA IssueCodeSafe ==
  ASSUME IdentityInv, NEW k \in Calls, NEW i \in Identifiers, IssueCode(k, i)
  PROVE  IdentityInv'
<1> DEFINE fresh == [NoCode EXCEPT !.serial = code[i].serial + 1, !.cooling = TRUE]
<1>1. /\ code[i] \in CodeRow /\ code[i].serial < MaxCodes /\ MaxCodes \in Nat
      /\ MaxTries \in Nat
  BY IdentityAssumption DEF IdentityInv, IdentityTypes, IssueCode
<1>2. /\ fresh \in CodeRow /\ fresh.tries = 0 /\ fresh.serial = code[i].serial + 1
  <2>1. code[i].serial + 1 \in 0..MaxCodes
    BY <1>1 DEF CodeRow
  <2>2. NoCode \in CodeRow /\ NoCode.tries = 0
    BY <1>1 DEF NoCode, CodeRow
  <2>3. QED
    BY <2>1, <2>2 DEF CodeRow
<1>3. code' = [code EXCEPT ![i] = fresh]
  BY DEF IssueCode
<1> HIDE DEF fresh
<1>4. /\ code' \in [Identifiers -> CodeRow] /\ code'[i] = fresh
      /\ \A j \in Identifiers : j # i => code'[j] = code[j]
  BY <1>2, <1>3 DEF IdentityInv, IdentityTypes
<1>5. /\ call' \in [Calls -> CallWork] /\ call'[k] = Quiet
      /\ \A l \in Calls : l # k => call'[l] = call[l]
  BY QuietFits DEF IssueCode, Close, Serve, IdentityInv, IdentityTypes
<1>6. \A l \in Calls : call'[l] = call[l] \/ call'[l].doing = "nothing"
  BY <1>5, QuietFits
<1>7. UNCHANGED <<users, session, issued, succeeded>>
  BY DEF IssueCode
<1>8. IdentityTypes'
  BY <1>4, <1>5, <1>7 DEF IdentityInv, IdentityTypes
<1>9. SessionsOpened' /\ RotationsApart' /\ OneSuccessor'
  BY <1>6, <1>7, SessionsKept
<1>10. ASSUME NEW j \in Identifiers
       PROVE  /\ code'[j].tries + Cardinality(Misses(j)') <= MaxTries + Cardinality(Calls) - 1
              /\ \A l \in Calls : call'[l].doing = "miss" /\ call'[l].who = {j}
                   => call'[l].serial <= code'[j].serial
  <2>1. Cardinality(Calls) \in Nat /\ Cardinality(Calls) >= 1
    BY CallsCounted
  <2>2. CASE j = i
    <3>1. \A l \in Calls : call'[l].doing = "miss" /\ call'[l].who = {i}
            => call[l].serial <= code[i].serial /\ call'[l] = call[l] /\ call[l].serial \in Nat
      BY <1>6 DEF IdentityInv, GuessesCounted, IdentityTypes, CallWork
    <3>2. code[i].serial \in Nat /\ code'[i].serial = code[i].serial + 1
      BY <1>1, <1>2, <1>4 DEF CodeRow
    <3>3. \A l \in Calls : call'[l].doing = "miss" /\ call'[l].who = {i}
            => call'[l].serial < code'[i].serial
      BY <3>1, <3>2
    <3>4. Misses(i)' = {}  BY <3>1, <3>2 DEF Misses
    <3>5. Cardinality(Misses(i)') = 0 /\ code'[i].tries = 0
      BY <3>4, <1>2, <1>4, FS_EmptySet
    <3>6. code'[j].tries + Cardinality(Misses(j)') <= MaxTries + Cardinality(Calls) - 1
      BY <2>1, <2>2, <3>5, <1>1
    <3>7. \A l \in Calls : call'[l].doing = "miss" /\ call'[l].who = {j}
            => call'[l].serial <= code'[j].serial
      BY <2>2, <3>1, <3>2
    <3>8. QED
      BY <3>6, <3>7
  <2>3. CASE j # i
    <3>1. Misses(j)' \subseteq Misses(j) /\ Misses(j) \subseteq Calls
      BY <1>4, <1>6, <2>3 DEF Misses
    <3>2. IsFiniteSet(Misses(j)) /\ Misses(j)' \subseteq Calls
      BY <3>1, CallsCounted
    <3>3. Cardinality(Misses(j)') <= Cardinality(Misses(j))
      BY <3>1, <3>2, FS_Subset
    <3>4. /\ Cardinality(Misses(j)') \in Nat /\ Cardinality(Misses(j)) \in Nat
          /\ code[j].tries \in Nat
      BY <3>1, <3>2, CallsCounted DEF IdentityInv, IdentityTypes, CodeRow
    <3>5. code[j].tries + Cardinality(Misses(j)) <= MaxTries + Cardinality(Calls) - 1
      BY DEF IdentityInv, GuessesCounted
    <3>6. code'[j].tries + Cardinality(Misses(j)') <= MaxTries + Cardinality(Calls) - 1
      BY <1>1, <1>4, <2>1, <2>3, <3>3, <3>4, <3>5
    <3>7. \A l \in Calls : call'[l].doing = "miss" /\ call'[l].who = {j}
            => call'[l].serial <= code'[j].serial
      BY <1>4, <1>6, <2>3 DEF IdentityInv, GuessesCounted
    <3>8. QED
      BY <3>6, <3>7
  <2>4. QED
    BY <2>2, <2>3
<1>11. GuessesCounted'
  BY <1>10 DEF GuessesCounted
<1>12. QED
  BY <1>8, <1>9, <1>11 DEF IdentityInv

LEMMA MissSafe ==
  ASSUME IdentityInv, NEW k \in Calls, NEW i \in Identifiers, Miss(k, i)
  PROVE  IdentityInv'
<1>1. /\ call' \in [Calls -> CallWork] /\ call'[k] = Quiet
      /\ \A l \in Calls : l # k => call'[l] = call[l]
  BY QuietFits DEF Miss, Close, Serve, IdentityInv, IdentityTypes
<1>2. \A l \in Calls : call'[l] = call[l] \/ call'[l].doing = "nothing"
  BY <1>1, QuietFits
<1>3. UNCHANGED <<users, session, issued, succeeded>>
  BY DEF Miss
<1>4. SessionsOpened' /\ RotationsApart' /\ OneSuccessor'
  BY <1>2, <1>3, SessionsKept
<1>5. CASE code[i].serial # call[k].serial
  BY <1>1, <1>2, <1>3, <1>4, <1>5, GuessesKept DEF Miss, IdentityInv, IdentityTypes
<1>6. CASE code[i].serial = call[k].serial
  <2> DEFINE counted == [code[i] EXCEPT !.tries = @ + 1]
  <2>1. code' = [code EXCEPT ![i] = counted]
    BY <1>6 DEF Miss
  <2>2. code[i] \in CodeRow
    BY DEF IdentityInv, IdentityTypes
  <2>3. /\ counted \in CodeRow /\ counted.tries = code[i].tries + 1
        /\ counted.serial = code[i].serial
    BY <2>2 DEF CodeRow
  <2> HIDE DEF counted
  <2>4. /\ code' \in [Identifiers -> CodeRow] /\ code'[i] = counted
        /\ \A j \in Identifiers : j # i => code'[j] = code[j]
    BY <2>1, <2>3 DEF IdentityInv, IdentityTypes
  <2>5. IdentityTypes'
    BY <1>1, <1>3, <2>4 DEF IdentityInv, IdentityTypes
  <2>6. ASSUME NEW j \in Identifiers
        PROVE  /\ code'[j].tries + Cardinality(Misses(j)') <= MaxTries + Cardinality(Calls) - 1
               /\ \A l \in Calls : call'[l].doing = "miss" /\ call'[l].who = {j}
                    => call'[l].serial <= code'[j].serial
    <3>1. Misses(j)' \subseteq Misses(j) /\ Misses(j) \subseteq Calls
      BY <1>2, <2>3, <2>4 DEF Misses
    <3>2. IsFiniteSet(Misses(j)) /\ Misses(j)' \subseteq Calls
      BY <3>1, CallsCounted
    <3>3. Cardinality(Misses(j)') <= Cardinality(Misses(j))
      BY <3>1, <3>2, FS_Subset
    <3>4. /\ Cardinality(Misses(j)') \in Nat /\ Cardinality(Misses(j)) \in Nat
          /\ code[j].tries \in Nat /\ MaxTries \in Nat /\ Cardinality(Calls) \in Nat
      BY <3>1, <3>2, CallsCounted, IdentityAssumption DEF IdentityInv, IdentityTypes, CodeRow
    <3>5. code[j].tries + Cardinality(Misses(j)) <= MaxTries + Cardinality(Calls) - 1
      BY DEF IdentityInv, GuessesCounted
    <3>6. CASE j = i
      <4>1. k \in Misses(i) /\ k \notin Misses(i)'
        BY <1>1, <1>6, QuietFits DEF Miss, Misses
      <4>2. Misses(i)' \subseteq Misses(i) \ {k}
        BY <3>1, <3>6, <4>1
      <4>3. /\ IsFiniteSet(Misses(i) \ {k})
            /\ Cardinality(Misses(i) \ {k}) = Cardinality(Misses(i)) - 1
        BY <3>2, <3>6, <4>1, FS_RemoveElement
      <4>4. Cardinality(Misses(i)') <= Cardinality(Misses(i)) - 1
        BY <4>2, <4>3, FS_Subset
      <4>5. code'[j].tries = code[j].tries + 1
        BY <2>3, <2>4, <3>6
      <4>6. QED
        BY <1>2, <2>3, <2>4, <3>4, <3>5, <3>6, <4>4, <4>5 DEF IdentityInv, GuessesCounted
    <3>7. CASE j # i  BY <1>2, <2>4, <3>3, <3>4, <3>5, <3>7 DEF IdentityInv, GuessesCounted
    <3>8. QED
      BY <3>6, <3>7
  <2>7. GuessesCounted'
    BY <2>6 DEF GuessesCounted
  <2>8. QED
    BY <1>4, <2>5, <2>7 DEF IdentityInv
<1>7. QED
  BY <1>5, <1>6

LEMMA OpenSessionSafe ==
  ASSUME IdentityInv, NEW k \in Calls, NEW i \in Identifiers, NEW s \in Sessions,
         OpenSession(k, i, s)
  PROVE  IdentityInv'
<1>1. CASE i \in users /\ ~call[k].known  BY <1>1, CallCloses DEF OpenSession
<1>2. CASE ~(i \in users /\ ~call[k].known)
  <2> DEFINE opened == [NoSession EXCEPT !.user = {i}, !.token = 1]
             used == [code[i] EXCEPT !.used = TRUE]
  <2>1. /\ code' = code \/ code' = [code EXCEPT ![i] = used]
        /\ users' = users \cup {i} /\ session' = [session EXCEPT ![s] = opened]
        /\ issued' = [issued EXCEPT ![s] = 1]
        /\ Close(k) /\ succeeded' = succeeded /\ session[s] = NoSession
    BY <1>2 DEF OpenSession
  <2>2. code[i] \in CodeRow
    BY DEF IdentityInv, IdentityTypes
  <2>3. used \in CodeRow /\ used.serial = code[i].serial /\ used.tries = code[i].tries
    BY <2>2 DEF CodeRow
  <2>4. NoSession \in SessionRow
    BY IdentityAssumption DEF NoSession, SessionRow
  <2>5. 1 \in 0..MaxTokens
    BY IdentityAssumption
  <2>6. opened \in SessionRow /\ opened.token = 1
    BY <2>4, <2>5 DEF SessionRow
  <2> HIDE DEF opened, used
  <2>7. /\ code' \in [Identifiers -> CodeRow]
        /\ \A j \in Identifiers : code'[j].serial = code[j].serial /\ code'[j].tries = code[j].tries
    BY <2>1, <2>3 DEF IdentityInv, IdentityTypes
  <2>8. /\ session' \in [Sessions -> SessionRow] /\ session'[s] = opened
        /\ \A t \in Sessions : t # s => session'[t] = session[t]
    BY <2>1, <2>6 DEF IdentityInv, IdentityTypes
  <2>9. /\ issued' \in [Sessions -> 0..MaxTokens] /\ issued'[s] = 1
        /\ \A t \in Sessions : t # s => issued'[t] = issued[t]
    BY <2>1, <2>5 DEF IdentityInv, IdentityTypes
  <2>10. /\ call' \in [Calls -> CallWork] /\ call'[k] = Quiet
         /\ \A l \in Calls : l # k => call'[l] = call[l]
    BY <2>1, QuietFits DEF Close, Serve, IdentityInv, IdentityTypes
  <2>11. \A l \in Calls : call'[l] = call[l] \/ call'[l].doing = "nothing"
    BY <2>10, QuietFits
  <2>12. IdentityTypes'
    BY <2>1, <2>7, <2>8, <2>9, <2>10 DEF IdentityInv, IdentityTypes
  <2>13. GuessesCounted'
    BY <2>7, <2>11, GuessesKept
  <2>14. session[s].token = 0
    BY <2>1 DEF NoSession
  <2>15. SessionsOpened'
    BY <2>6, <2>8, <2>9, <2>11 DEF IdentityInv, SessionsOpened, IdentityTypes, CallWork
  <2>16. RotationsApart'
    BY <2>1, <2>8, <2>9, <2>11, <2>14, IdentityAssumption DEF IdentityInv, RotationsApart,
       SessionsOpened, IdentityTypes
  <2>17. OneSuccessor'
    BY <2>1 DEF IdentityInv, OneSuccessor
  <2>18. QED
    BY <2>12, <2>13, <2>15, <2>16, <2>17 DEF IdentityInv
<1>3. QED
  BY <1>1, <1>2

LEMMA CommitRotationSafe ==
  ASSUME IdentityInv, NEW k \in Calls, NEW s \in Sessions, CommitRotation(k, s)
  PROVE  IdentityInv'
<1> DEFINE rotated == [session[s] EXCEPT !.token = call[k].given, !.expired = FALSE]
           given == [of |-> s, old |-> call[k].token, new |-> call[k].given]
<1>1. /\ session' = [session EXCEPT ![s] = rotated] /\ succeeded' = succeeded \cup {given}
      /\ Close(k) /\ UNCHANGED <<code, users, issued>>
      /\ call[k].doing = "commit" /\ call[k].on = {s}
  BY DEF IdentityInv, IdentityTypes, CommitRotation, SessionRow
<1>2. /\ session[s] \in SessionRow /\ call[k] \in CallWork /\ MaxTokens \in Nat
      /\ session[s].token = call[k].token /\ ~session[s].revoked
      /\ call[k].token < call[k].given /\ call[k].given <= issued[s] /\ call[k].token > 0
      /\ \A l \in Calls : call[l].doing = "commit" /\ call[l].on = {s} => l = k
  BY <1>1, IdentityAssumption DEF IdentityInv, IdentityTypes, RotationsApart, SessionsOpened
<1>3. /\ call[k].token \in 1..MaxTokens /\ call[k].given \in 1..MaxTokens
      /\ call[k].given \in 0..MaxTokens
  BY <1>2 DEF CallWork
<1>4. rotated \in SessionRow /\ rotated.token = call[k].given /\ rotated.revoked = session[s].revoked
  BY <1>2, <1>3 DEF SessionRow
<1>5. /\ given \in [of : Sessions, old : 1..MaxTokens, new : 1..MaxTokens]
      /\ given.of = s /\ given.old = call[k].token /\ given.new = call[k].given
  BY <1>3
<1> HIDE DEF rotated, given
<1>6. /\ session' \in [Sessions -> SessionRow] /\ session'[s] = rotated
      /\ \A t \in Sessions : t # s => session'[t] = session[t]
  BY <1>1, <1>4 DEF IdentityInv, IdentityTypes
<1>7. /\ call' \in [Calls -> CallWork] /\ call'[k] = Quiet
      /\ \A l \in Calls : l # k => call'[l] = call[l]
  BY <1>1, QuietFits DEF Close, Serve, IdentityInv, IdentityTypes
<1>8. \A l \in Calls : call'[l] = call[l] \/ call'[l].doing = "nothing"
  BY <1>7, QuietFits
<1>9. IdentityTypes'
  BY <1>1, <1>5, <1>6, <1>7 DEF IdentityInv, IdentityTypes
<1>10. GuessesCounted'
  BY <1>1, <1>8, GuessesKept
<1>11. SessionsOpened'
  BY <1>1, <1>2, <1>3, <1>4, <1>6, <1>8 DEF IdentityInv, SessionsOpened, IdentityTypes,
     CallWork
<1>12. RotationsApart'
  BY <1>1, <1>2, <1>3, <1>4, <1>5, <1>6, <1>7, <1>8, QuietFits, IdentityAssumption DEF
     IdentityInv, RotationsApart, IdentityTypes
<1>13. OneSuccessor'
  BY <1>1, <1>2, <1>3, <1>5, IdentityAssumption DEF IdentityInv, RotationsApart, OneSuccessor
<1>14. QED
  BY <1>9, <1>10, <1>11, <1>12, <1>13 DEF IdentityInv

LEMMA RevokeSafe ==
  ASSUME IdentityInv, NEW k \in Calls, Revoke(k)
  PROVE  IdentityInv'
<1>1. /\ call' \in [Calls -> CallWork] /\ call'[k] = Quiet
      /\ \A l \in Calls : l # k => call'[l] = call[l]
  BY QuietFits DEF Revoke, Close, Serve, IdentityInv, IdentityTypes
<1>2. \A l \in Calls : call'[l] = call[l] \/ call'[l].doing = "nothing"
  BY <1>1, QuietFits
<1>3. /\ UNCHANGED <<code, users, issued, succeeded>>
      /\ session' = [s \in Sessions |-> IF s \in call[k].on THEN [session[s] EXCEPT !.revoked = TRUE]
                                        ELSE session[s]]
      /\ call[k].doing = "revoke" /\ \A s \in call[k].on : ~RowLocked(s)
  BY DEF Revoke
<1>4. ASSUME NEW s \in Sessions
      PROVE  /\ session'[s] \in SessionRow /\ session'[s].token = session[s].token
             /\ s \notin call[k].on => session'[s] = session[s]
  BY <1>3 DEF IdentityInv, IdentityTypes, SessionRow
<1>5. session' \in [Sessions -> SessionRow]
  BY <1>3, <1>4
<1>6. IdentityTypes'
  BY <1>1, <1>3, <1>5 DEF IdentityInv, IdentityTypes
<1>7. \A s \in Sessions : session[s].token = 0 => session'[s] = session[s]
  BY <1>3, <1>4 DEF IdentityInv, SessionsOpened
<1>8. ASSUME NEW s \in Sessions, NEW l \in Calls, call'[l].doing = "commit", call'[l].on = {s}
      PROVE  session'[s].revoked = session[s].revoked
  <2>1. RowLocked(s)
    BY <1>2, <1>8 DEF RowLocked
  <2>2. QED
    BY <1>3, <1>4, <2>1
<1>9. SessionsOpened' /\ RotationsApart' /\ OneSuccessor'
  BY <1>2, <1>3, <1>4, <1>7, <1>8, SessionsKept
<1>10. GuessesCounted'
  BY <1>2, <1>3, GuessesKept
<1>11. QED
  BY <1>6, <1>9, <1>10 DEF IdentityInv

LEMMA TimePassesSafe ==
  ASSUME IdentityInv, NEW i \in Identifiers, TimePasses(i)
  PROVE  IdentityInv'
<1>1. UNCHANGED <<users, session, issued, succeeded, call>>
  BY DEF TimePasses
<1>2. PICK row \in CodeRow : /\ code' = [code EXCEPT ![i] = row]
                             /\ row.serial = code[i].serial /\ row.tries = code[i].tries
  <2>1. code[i] \in CodeRow
    BY DEF IdentityInv, IdentityTypes
  <2>2. /\ [code[i] EXCEPT !.cooling = FALSE] \in CodeRow
        /\ [code[i] EXCEPT !.cooling = FALSE].serial = code[i].serial
        /\ [code[i] EXCEPT !.cooling = FALSE].tries = code[i].tries
    BY <2>1 DEF CodeRow
  <2>3. /\ [code[i] EXCEPT !.expired = TRUE] \in CodeRow
        /\ [code[i] EXCEPT !.expired = TRUE].serial = code[i].serial
        /\ [code[i] EXCEPT !.expired = TRUE].tries = code[i].tries
    BY <2>1 DEF CodeRow
  <2>4. \/ code' = [code EXCEPT ![i] = [code[i] EXCEPT !.cooling = FALSE]]
        \/ code' = [code EXCEPT ![i] = [code[i] EXCEPT !.expired = TRUE]]
    BY DEF TimePasses
  <2>5. QED
    BY <2>2, <2>3, <2>4
<1>3. /\ code' \in [Identifiers -> CodeRow]
      /\ \A j \in Identifiers : code'[j].serial = code[j].serial /\ code'[j].tries = code[j].tries
  BY <1>2 DEF IdentityInv, IdentityTypes
<1>4. IdentityTypes'
  BY <1>1, <1>3 DEF IdentityInv, IdentityTypes
<1>5. GuessesCounted'
  BY <1>1, <1>3, GuessesKept
<1>6. SessionsOpened' /\ RotationsApart' /\ OneSuccessor'
  BY <1>1, SessionsKept
<1>7. QED
  BY <1>4, <1>5, <1>6 DEF IdentityInv

LEMMA ExpireSessionSafe ==
  ASSUME IdentityInv, NEW s \in Sessions, ExpireSession(s)
  PROVE  IdentityInv'
<1> DEFINE row == [session[s] EXCEPT !.expired = TRUE]
<1>1. session[s] \in SessionRow
  BY DEF IdentityInv, IdentityTypes
<1>2. row \in SessionRow /\ row.token = session[s].token /\ row.revoked = session[s].revoked
  BY <1>1 DEF SessionRow
<1>3. /\ session' = [session EXCEPT ![s] = row] /\ session[s].user # {}
      /\ UNCHANGED <<code, users, issued, succeeded, call>>
  BY DEF ExpireSession
<1> HIDE DEF row
<1>4. /\ session' \in [Sessions -> SessionRow] /\ session'[s] = row
      /\ \A t \in Sessions : t # s => session'[t] = session[t]
  BY <1>2, <1>3 DEF IdentityInv, IdentityTypes
<1>5. IdentityTypes'
  BY <1>3, <1>4 DEF IdentityInv, IdentityTypes
<1>6. session[s].token # 0
  BY <1>3 DEF IdentityInv, SessionsOpened, NoSession
<1>7. SessionsOpened' /\ RotationsApart' /\ OneSuccessor'
  BY <1>2, <1>3, <1>4, <1>6, SessionsKept
<1>8. GuessesCounted'
  BY <1>3, GuessesKept
<1>9. QED
  BY <1>5, <1>7, <1>8 DEF IdentityInv

(* What a request begins to do *)
LEMMA RequestsBegin ==
  ASSUME IdentityInv, NEW k \in Calls,
         \/ DropCall(k)
         \/ \E i \in Identifiers : \/ JudgeResend(k, i) \/ LogoutAll(k, i)
                                   \/ \E right \in BOOLEAN : Evaluate(k, i, right)
         \/ \E s \in Sessions : \/ Rotate(k, s) \/ Logout(k, s)
                                \/ \E t \in 1..MaxTokens : ReadSession(k, s, t)
  PROVE  IdentityInv'
<1>1. /\ Quiet \in CallWork /\ MaxTokens \in Nat /\ 0 \in 0..MaxTokens
      /\ issued \in [Sessions -> 0..MaxTokens]
      /\ \A s \in Sessions : issued[s] <= issued[s]
  BY QuietFits, IdentityAssumption DEF IdentityInv, IdentityTypes
<1>2. CASE DropCall(k)
  BY <1>2, CallCloses DEF DropCall
<1>3. ASSUME NEW i \in Identifiers, JudgeResend(k, i)
      PROVE  IdentityInv'
  <2> DEFINE work == [Quiet EXCEPT !.doing = "issue", !.who = {i}]
  <2>1. work \in CallWork /\ work.doing = "issue"
    BY <1>1 DEF CallWork
  <2>2. Serve(k, work) /\ UNCHANGED <<code, users, session, issued, succeeded>>
    BY <1>3 DEF JudgeResend
  <2> HIDE DEF work
  <2>3. QED
    BY <1>1, <2>1, <2>2, CallGoesOn
<1>4. ASSUME NEW i \in Identifiers, LogoutAll(k, i)
      PROVE  IdentityInv'
  <2> DEFINE work == [Quiet EXCEPT !.doing = "revoke",
                                   !.on = {s \in Sessions : session[s].user = {i}}]
  <2>1. work \in CallWork /\ work.doing = "revoke" /\ work.on = {s \in Sessions : session[s].user = {i}}
    BY <1>1 DEF CallWork
  <2>2. Serve(k, work) /\ UNCHANGED <<code, users, session, issued, succeeded>>
    BY <1>4 DEF LogoutAll
  <2> HIDE DEF work
  <2>3. ASSUME NEW s \in work.on
        PROVE  session[s].token > 0
    <3>1. s \in Sessions /\ session[s].user = {i}
      BY <2>1, <2>3
    <3>2. NoSession.user = {} /\ (session[s].token = 0 => session[s] = NoSession)
      BY <3>1 DEF IdentityInv, SessionsOpened, NoSession
    <3>3. session[s].token \in Nat
      BY <3>1 DEF IdentityInv, IdentityTypes, SessionRow
    <3>4. session[s].token # 0
      BY <3>1, <3>2
    <3>5. QED
      BY <3>3, <3>4
  <2>4. QED
    BY <1>1, <2>1, <2>2, <2>3, CallGoesOn
<1>5. ASSUME NEW i \in Identifiers, NEW right \in BOOLEAN, Evaluate(k, i, right)
      PROVE  IdentityInv'
  <2> DEFINE next == IF right THEN "login" ELSE "miss"
             had == i \in users
             work == [Quiet EXCEPT !.doing = next, !.who = {i}, !.serial = code[i].serial,
                                   !.known = had]
  <2> HIDE DEF next, had
  <2>1. next \in {"login", "miss"} /\ had \in BOOLEAN
    BY DEF next, had
  <2>2. code[i].serial \in Nat /\ code[i].tries \in Nat /\ MaxTries \in Nat
    BY IdentityAssumption DEF IdentityInv, IdentityTypes, CodeRow
  <2>3. /\ work \in CallWork /\ work.doing \in {"login", "miss"}
        /\ work.who = {i} /\ work.serial = code[i].serial
    BY <1>1, <2>2, <2>1 DEF CallWork
  <2>4. /\ Serve(k, work) /\ UNCHANGED <<code, users, session, issued, succeeded>>
        /\ ~IsLocked(i)
    BY <1>5 DEF Evaluate, next, had
  <2>5. code[i].tries < MaxTries
    BY <2>2, <2>4 DEF IsLocked
  <2> HIDE DEF work
  <2>6. \A j \in Identifiers : work.who = {j}
          => code[j].tries < MaxTries /\ work.serial <= code[j].serial
    BY <2>2, <2>3, <2>5
  <2>7. QED
    BY <1>1, <2>3, <2>4, <2>6, CallGoesOn
<1>6. ASSUME NEW s \in Sessions, Rotate(k, s)
      PROVE  IdentityInv'
  <2>1. /\ call[k].doing = "rotate" /\ call[k].on = {s} /\ ~RowLocked(s)
        /\ UNCHANGED <<code, users, session, succeeded>>
    BY <1>6 DEF Rotate
  <2>2. CASE ~TokenMatches(s, call[k].token)
    BY <1>6, <2>1, <2>2, CallCloses DEF Rotate
  <2>3. CASE TokenMatches(s, call[k].token)
    <3> DEFINE work == [call[k] EXCEPT !.doing = "commit", !.given = issued[s] + 1]
    <3>1. /\ issued[s] < MaxTokens /\ issued' = [issued EXCEPT ![s] = @ + 1]
          /\ Serve(k, work)
      BY <1>6, <2>3 DEF Rotate
    <3>2. call[k] \in CallWork /\ issued[s] \in Nat /\ call[k].token > 0
      BY <2>1 DEF IdentityInv, IdentityTypes, SessionsOpened
    <3>3. issued[s] + 1 \in 0..MaxTokens
      BY <1>1, <3>1, <3>2
    <3>4. /\ work \in CallWork /\ work.doing = "commit" /\ work.on = {s}
          /\ work.token = call[k].token /\ work.given = issued[s] + 1
      BY <2>1, <3>2, <3>3 DEF CallWork
    <3> HIDE DEF work
    <3>5. /\ issued' \in [Sessions -> 0..MaxTokens] /\ issued'[s] = issued[s] + 1
          /\ \A t \in Sessions : t # s => issued'[t] = issued[t]
      BY <1>1, <3>1, <3>3
    <3>6. /\ session[s].token = work.token /\ ~session[s].revoked
          /\ session[s].token <= issued[s] /\ session[s].token \in Nat
      BY <2>3, <3>4 DEF TokenMatches, IdentityInv, SessionsOpened, IdentityTypes, SessionRow
    <3>7. issued[s] # 0
      BY <3>2, <3>4, <3>6
    <3>8. \A t \in Sessions : issued[t] <= issued'[t] /\ (issued[t] = 0 => issued'[t] = 0)
      BY <1>1, <3>5, <3>7
    <3>9. work.token < work.given /\ work.given <= issued'[s]
      BY <3>2, <3>4, <3>5, <3>6
    <3>10. \A l \in Calls \ {k} : ~(call[l].doing = "commit" /\ call[l].on = {s})
      BY <2>1 DEF RowLocked
    <3>11. \A t \in Sessions : work.on = {t} => t = s
      BY <3>4
    <3>12. QED
      BY ZenonT(60), <2>1, <3>1, <3>2, <3>4, <3>5, <3>6, <3>8, <3>9, <3>10, <3>11, CallGoesOn
  <2>4. QED
    BY <2>2, <2>3
<1>7. ASSUME NEW s \in Sessions, Logout(k, s)
      PROVE  IdentityInv'
  <2> DEFINE work == [Quiet EXCEPT !.doing = "revoke", !.on = {s}]
  <2>1. work \in CallWork /\ work.doing = "revoke" /\ work.on = {s}
    BY <1>1 DEF CallWork
  <2>2. Serve(k, work) /\ UNCHANGED <<code, users, session, issued, succeeded>> /\ issued[s] > 0
    BY <1>7 DEF Logout
  <2> HIDE DEF work
  <2>3. session[s].token # 0 /\ session[s].token \in Nat
    BY <2>2 DEF IdentityInv, SessionsOpened, IdentityTypes, SessionRow
  <2>4. \A t \in work.on : session[t].token > 0
    BY <2>1, <2>3
  <2>5. QED
    BY <1>1, <2>1, <2>2, <2>4, CallGoesOn
<1>8. ASSUME NEW s \in Sessions, NEW t \in 1..MaxTokens, ReadSession(k, s, t)
      PROVE  IdentityInv'
  <2> DEFINE work == [Quiet EXCEPT !.doing = IF session[s].token = t THEN "rotate" ELSE "revoke",
                                   !.on = {s}, !.token = t]
  <2>1. t \in 0..MaxTokens /\ t > 0
    BY <1>1
  <2>2. /\ work \in CallWork /\ work.doing \in {"rotate", "revoke"}
        /\ work.on = {s} /\ work.token = t
    BY <1>1, <2>1 DEF CallWork
  <2>3. /\ Serve(k, work) /\ UNCHANGED <<code, users, session, issued, succeeded>>
        /\ t \in 1..issued[s]
    BY <1>8 DEF ReadSession
  <2> HIDE DEF work
  <2>4. issued[s] # 0
    BY <1>1, <2>1, <2>3
  <2>5. session[s].token # 0 /\ session[s].token \in Nat
    BY <2>4 DEF IdentityInv, SessionsOpened, IdentityTypes, SessionRow
  <2>6. \A u \in work.on : session[u].token > 0
    BY <2>2, <2>5
  <2>7. QED
    BY <1>1, <2>1, <2>2, <2>3, <2>6, CallGoesOn
<1>9. QED
  BY <1>2, <1>3, <1>4, <1>5, <1>6, <1>7, <1>8

LEMMA IdentitySteps == IdentityInv /\ [IdentityNext]_identityVars => IdentityInv'
<1> SUFFICES ASSUME IdentityInv, [IdentityNext]_identityVars PROVE IdentityInv'
  OBVIOUS
<1>1. CASE UNCHANGED identityVars
  BY <1>1, GuessesKept, SessionsKept DEF identityVars, IdentityInv, IdentityTypes
<1>2. ASSUME NEW k \in Calls, Revoke(k)
      PROVE  IdentityInv'
  BY <1>2, RevokeSafe
<1>3. ASSUME NEW k \in Calls, NEW i \in Identifiers,
             \/ IssueCode(k, i) \/ Miss(k, i) \/ \E s \in Sessions : OpenSession(k, i, s)
      PROVE  IdentityInv'
  BY <1>3, IssueCodeSafe, MissSafe, OpenSessionSafe
<1>4. ASSUME NEW k \in Calls, NEW s \in Sessions, CommitRotation(k, s)
      PROVE  IdentityInv'
  BY <1>4, CommitRotationSafe
<1>5. ASSUME NEW i \in Identifiers, TimePasses(i)
      PROVE  IdentityInv'
  BY <1>5, TimePassesSafe
<1>6. ASSUME NEW s \in Sessions, ExpireSession(s)
      PROVE  IdentityInv'
  BY <1>6, ExpireSessionSafe
<1>7. QED
  BY <1>1, <1>2, <1>3, <1>4, <1>5, <1>6, RequestsBegin DEF IdentityNext

LEMMA IdentityInvShows == IdentityInv => IdentityTypeOK /\ OneSuccessor /\ AttemptsBounded
<1> SUFFICES ASSUME IdentityInv PROVE IdentityTypeOK /\ OneSuccessor /\ AttemptsBounded
  OBVIOUS
<1>1. ASSUME NEW i \in Identifiers
      PROVE  /\ code[i].tries <= MaxTries + Cardinality(Calls) - 1
             /\ code[i] \in [serial : 0..MaxCodes, tries : 0..MaxTries + Cardinality(Calls),
                             used : BOOLEAN, expired : BOOLEAN, cooling : BOOLEAN]
  <2>1. Misses(i) \subseteq Calls
    BY DEF Misses
  <2>2. /\ Cardinality(Misses(i)) \in Nat /\ Cardinality(Calls) \in Nat /\ MaxTries \in Nat
        /\ code[i] \in CodeRow /\ code[i].tries \in Nat
    BY <2>1, CallsCounted, IdentityAssumption DEF IdentityInv, IdentityTypes, CodeRow
  <2>3. code[i].tries + Cardinality(Misses(i)) <= MaxTries + Cardinality(Calls) - 1
    BY DEF IdentityInv, GuessesCounted
  <2>4. /\ code[i].tries <= MaxTries + Cardinality(Calls) - 1
        /\ code[i].tries \in 0..MaxTries + Cardinality(Calls)
    BY <2>2, <2>3
  <2>5. QED
    BY <2>2, <2>4 DEF CodeRow
<1>2. AttemptsBounded
  BY <1>1 DEF AttemptsBounded
<1>3. IdentityTypeOK
  BY <1>1 DEF IdentityTypeOK, IdentityInv, IdentityTypes, SessionRow, CallWork
<1>4. QED
  BY <1>2, <1>3 DEF IdentityInv

(* A refresh token is exchanged for at most one successor, and a code takes  *)
(* at most the tries allowed and one for every other request in flight       *)
(* (core/tenancy/tokens.refresh_session, otp.Challenge.evaluate): for any    *)
(* number of sessions, of requests at once and of tokens and codes issued.   *)
THEOREM SignInAlwaysSound == IdentitySpec => [](IdentityTypeOK /\ OneSuccessor /\ AttemptsBounded)
<1>1. QED
  BY IdentityStarts, IdentitySteps, IdentityInvShows, PTL DEF IdentitySpec

(* Every step of a reachable state leaves revoked sessions as they are.      *)
LEMMA RevokedStays == IdentityInv /\ [IdentityNext]_identityVars => RevokedStaysDead
<1> SUFFICES ASSUME IdentityInv, [IdentityNext]_identityVars,
                    NEW s \in Sessions, session[s].revoked
             PROVE  session'[s] = session[s]
  BY DEF RevokedStaysDead
<1>1. session[s] \in SessionRow
  BY DEF IdentityInv, IdentityTypes
<1>2. CASE session' = session
  BY <1>2
<1>3. ASSUME NEW k \in Calls, Revoke(k)
      PROVE  session'[s] = session[s]  BY <1>1, <1>3 DEF Revoke, SessionRow
<1>4. ASSUME NEW k \in Calls, NEW i \in Identifiers, NEW t \in Sessions, OpenSession(k, i, t)
      PROVE  session'[s] = session[s]
  BY <1>4 DEF OpenSession, NoSession, IdentityInv, IdentityTypes
<1>5. ASSUME NEW k \in Calls, NEW t \in Sessions, CommitRotation(k, t)
      PROVE  session'[s] = session[s]
  BY <1>5 DEF CommitRotation, IdentityInv, RotationsApart, IdentityTypes
<1>6. ASSUME NEW t \in Sessions, ExpireSession(t)
      PROVE  session'[s] = session[s]  BY <1>6 DEF ExpireSession, IdentityInv, IdentityTypes
<1>7. session' = session
      \/ (\E k \in Calls : Revoke(k) \/ (\E t \in Sessions : CommitRotation(k, t))
            \/ (\E i \in Identifiers, t \in Sessions : OpenSession(k, i, t)))
      \/ (\E t \in Sessions : ExpireSession(t))
  BY ZenonT(60) DEF IdentityNext, identityVars, DropCall, JudgeResend, IssueCode, Miss, LogoutAll, Evaluate,
         Rotate, Logout, ReadSession, TimePasses
<1>8. QED
  BY <1>2, <1>3, <1>4, <1>5, <1>6, <1>7

(***************************************************************************)
(* Members and seats                                                       *)
(***************************************************************************)
InviteRow == [state : {"absent", "open", "accepted", "expired"}, org : SUBSET Shops, role : Roles]
RecruiterWork == [doing : {"nothing", "create", "invite", "accept"}, who : SUBSET People,
                  org : SUBSET Shops, role : Roles, invite : SUBSET Invites]

MembershipTypes ==
  /\ shops \subseteq Shops /\ IsFiniteSet(member)
  /\ member \subseteq [user : People, org : shops, role : Roles]
  /\ seats \in [Shops -> {{}} \cup {{n} : n \in 0..SeatsMax}]
  /\ invite \in [Invites -> InviteRow] /\ seated \subseteq Invites \X People
  /\ allowed \in [Shops -> 0..SeatsMax] /\ recruiter \in [Recruiters -> RecruiterWork]
  /\ \A i \in Invites : invite[i].org \subseteq shops
  /\ \A k \in Recruiters : recruiter[k].org \subseteq shops

OneRoleEach == \A a, b \in member : a.user = b.user /\ a.org = b.org => a = b

(* An invitation keeps its organisation and its role while it is accepted,   *)
(* and whoever it seated is the member it names, seated by no other of that  *)
(* organisation.                                                             *)
InvitesFollowed ==
  /\ \A i \in Invites : invite[i].state = "absent" => invite[i] = NoInvite
  /\ \A k \in Recruiters : recruiter[k].doing = "accept" =>
       \E i \in Invites : /\ recruiter[k].invite = {i} /\ invite[i].state # "absent"
                          /\ recruiter[k].org = invite[i].org /\ recruiter[k].role = invite[i].role
  /\ \A i \in Invites, u \in People : <<i, u>> \in seated =>
       /\ invite[i].state # "absent"
       /\ \A o \in Shops : invite[i].org = {o} =>
            [user |-> u, org |-> o, role |-> invite[i].role] \in member
       /\ \A j \in Invites : <<j, u>> \in seated /\ invite[j].org = invite[i].org => j = i

(* The manager invitations of an organisation that are open, have seated     *)
(* somebody or are being accepted, and the requests about to insert one.     *)
ManagerInvites(o) == {i \in Invites : invite[i].org = {o} /\ invite[i].role = "manager"}
Seaters(o) == {i \in ManagerInvites(o) : \E u \in People : <<i, u>> \in seated}
Accepting(o) == {i \in ManagerInvites(o) :
                   \E k \in Recruiters : recruiter[k].doing = "accept" /\ recruiter[k].invite = {i}}
Unsettled(o) == {i \in ManagerInvites(o) : invite[i].state = "open"} \cup Seaters(o) \cup Accepting(o)
Inserting(o) == {k \in Recruiters : /\ recruiter[k].doing = "invite" /\ recruiter[k].org = {o}
                                    /\ recruiter[k].role = "manager"}
SeatsCounted ==
  \A o \in Shops : Cardinality(Unsettled(o)) + Cardinality(Inserting(o))
                     <= allowed[o] + Cardinality(Recruiters) - 1

MembershipInv == MembershipTypes /\ OneRoleEach /\ InvitesFollowed /\ SeatsCounted

LEMMA RolesListed == Roles = {"owner", "manager", "viewer"}
BY DEF Roles, RoleRank

LEMMA FreeFits == Free \in RecruiterWork /\ Free.doing = "nothing" /\ Free.org = {}
BY RolesListed DEF Free, RecruiterWork

LEMMA InvitesAndRecruitersFinite ==
  /\ IsFiniteSet(Invites) /\ Cardinality(Recruiters) \in Nat /\ Cardinality(Recruiters) >= 1
  /\ \A S : S \subseteq Invites => IsFiniteSet(S) /\ Cardinality(S) \in Nat
  /\ \A S : S \subseteq Recruiters => IsFiniteSet(S) /\ Cardinality(S) \in Nat
<1>1. IsFiniteSet(Invites)
  BY MembershipAssumption, FS_Interval DEF Invites
<1>2. Cardinality(Recruiters) \in Nat /\ Cardinality(Recruiters) # 0
  BY MembershipAssumption, FS_CardinalityType, FS_EmptySet
<1>3. ASSUME NEW S, S \subseteq Invites
      PROVE  IsFiniteSet(S) /\ Cardinality(S) \in Nat
  BY <1>1, <1>3, FS_Subset, FS_CardinalityType
<1>4. ASSUME NEW S, S \subseteq Recruiters
      PROVE  IsFiniteSet(S) /\ Cardinality(S) \in Nat
  BY <1>4, MembershipAssumption, FS_Subset, FS_CardinalityType
<1>5. QED
  BY <1>1, <1>2, <1>3, <1>4

LEMMA MembershipStarts == MembershipInit => MembershipInv
<1> SUFFICES ASSUME MembershipInit PROVE MembershipInv
  OBVIOUS
<1>1. NoInvite \in InviteRow /\ NoInvite.role = "viewer" /\ NoInvite.org = {}
  BY RolesListed DEF NoInvite, InviteRow
<1>2. MembershipTypes
  BY <1>1, FS_EmptySet, MembershipAssumption, FreeFits DEF MembershipInit, MembershipTypes
<1>3. OneRoleEach /\ InvitesFollowed
  BY FreeFits DEF OneRoleEach, InvitesFollowed, MembershipInit
<1>4. SeatsCounted
  <2>1. \A o \in Shops : Unsettled(o) = {} /\ Inserting(o) = {} /\ allowed[o] = 0
    BY <1>1, FreeFits DEF Unsettled, Seaters, Accepting, ManagerInvites, Inserting, MembershipInit
  <2>2. Cardinality({}) = 0 /\ Cardinality(Recruiters) \in Nat /\ Cardinality(Recruiters) >= 1
    BY FS_EmptySet, InvitesAndRecruitersFinite
  <2>3. ASSUME NEW o \in Shops
        PROVE  Cardinality(Unsettled(o)) + Cardinality(Inserting(o))
                 <= allowed[o] + Cardinality(Recruiters) - 1
    <3>1. Cardinality(Unsettled(o)) = 0 /\ Cardinality(Inserting(o)) = 0 /\ allowed[o] = 0
      BY <2>1, <2>2
    <3>2. QED
      BY <2>2, <3>1
  <2>4. QED
    BY <2>3 DEF SeatsCounted
<1>5. QED
  BY <1>2, <1>3, <1>4 DEF MembershipInv

(* A step that lets no invitation take a seat and no request seek one leaves *)
(* the seats counted.                                                        *)
LEMMA SeatsKept ==
  ASSUME MembershipInv, allowed' = allowed,
         \A o \in Shops : Unsettled(o)' \subseteq Unsettled(o) /\ Inserting(o)' \subseteq Inserting(o)
  PROVE  SeatsCounted'
<1> SUFFICES ASSUME NEW o \in Shops
             PROVE  Cardinality(Unsettled(o)') + Cardinality(Inserting(o)')
                      <= allowed[o] + Cardinality(Recruiters) - 1
  BY DEF SeatsCounted
<1>1. Unsettled(o) \subseteq Invites /\ Inserting(o) \subseteq Recruiters
  BY DEF Unsettled, Seaters, Accepting, ManagerInvites, Inserting
<1>2. /\ IsFiniteSet(Unsettled(o)) /\ Cardinality(Unsettled(o)) \in Nat
      /\ IsFiniteSet(Inserting(o)) /\ Cardinality(Inserting(o)) \in Nat
      /\ Cardinality(Recruiters) \in Nat
  BY <1>1, InvitesAndRecruitersFinite
<1>3. /\ Cardinality(Unsettled(o)') <= Cardinality(Unsettled(o))
      /\ Cardinality(Inserting(o)') <= Cardinality(Inserting(o))
      /\ Cardinality(Unsettled(o)') \in Nat /\ Cardinality(Inserting(o)') \in Nat
  BY <1>2, FS_Subset, FS_CardinalityType
<1>4. Cardinality(Unsettled(o)) + Cardinality(Inserting(o)) <= allowed[o] + Cardinality(Recruiters) - 1
  BY DEF MembershipInv, SeatsCounted
<1>5. allowed[o] \in Nat
  BY MembershipAssumption DEF MembershipInv, MembershipTypes
<1>6. QED
  BY <1>2, <1>3, <1>4, <1>5

(* A step that opens no invitation, seats nobody and starts no acceptance.   *)
LEMMA InvitesKept ==
  ASSUME MembershipInv, UNCHANGED <<seated, allowed>>, member \subseteq member',
         \A i \in Invites :
            /\ invite'[i].org = invite[i].org /\ invite'[i].role = invite[i].role
            /\ invite'[i].state = "open" => invite[i].state = "open"
            /\ invite'[i].state = "absent" => invite'[i] = invite[i]
            /\ invite[i].state = "absent" => invite'[i] = invite[i],
         \A k \in Recruiters : recruiter'[k] = recruiter[k] \/ recruiter'[k].doing \in {"nothing", "create"}
  PROVE  InvitesFollowed' /\ SeatsCounted'
<1>1. InvitesFollowed'  BY DEF MembershipInv, InvitesFollowed
<1>2. \A k \in Recruiters : recruiter'[k].doing \in {"invite", "accept"} => recruiter'[k] = recruiter[k]
  OBVIOUS
<1>3. ASSUME NEW o \in Shops
      PROVE  Unsettled(o)' \subseteq Unsettled(o) /\ Inserting(o)' \subseteq Inserting(o)
  BY <1>2 DEF ManagerInvites, Seaters, Accepting, Inserting, Unsettled
<1>4. SeatsCounted'
  BY <1>3, SeatsKept
<1>5. QED
  BY <1>1, <1>4

(* An organisation begins with its owner.                                    *)
LEMMA OwnerJoins ==
  ASSUME MembershipInv, NEW u \in People, NEW o \in Shops \ shops,
         member' = member \cup {[user |-> u, org |-> o, role |-> "owner"]}, shops' = shops \cup {o}
  PROVE  /\ IsFiniteSet(member)' /\ shops' \subseteq Shops /\ OneRoleEach'
         /\ member' \subseteq [user : People, org : shops', role : Roles]
<1>1. IsFiniteSet(member')
  BY FS_AddElement DEF MembershipInv, MembershipTypes
<1>2. /\ member \subseteq [user : People, org : shops, role : Roles] /\ shops \subseteq Shops
      /\ \A m \in member : m.org # o
  BY DEF MembershipInv, MembershipTypes
<1>3. member' \subseteq [user : People, org : shops', role : Roles]
  BY <1>2, RolesListed
<1>4. OneRoleEach'
  BY <1>2 DEF MembershipInv, OneRoleEach
<1>5. QED
  BY <1>1, <1>2, <1>3, <1>4

(* The work of a request is replaced, and what it names exists.              *)
LEMMA WorkReplaced ==
  ASSUME MembershipInv, NEW k \in Recruiters, NEW work \in RecruiterWork, work.org \subseteq shops,
         recruiter' = [recruiter EXCEPT ![k] = work]
  PROVE  /\ recruiter' \in [Recruiters -> RecruiterWork] /\ recruiter'[k] = work
         /\ \A l \in Recruiters : l # k => recruiter'[l] = recruiter[l]
         /\ \A l \in Recruiters : recruiter'[l].org \subseteq shops
BY DEF MembershipInv, MembershipTypes

LEMMA PlainStepsSafe ==
  ASSUME MembershipInv,
         \/ \E k \in Recruiters : \/ Abandon(k)
                                  \/ \E u \in People : \/ LookForOrg(k, u)
                                                       \/ \E o \in Shops : CreateOrg(k, u, o)
         \/ \E u \in People, o \in Shops, n \in 0..SeatsMax : ProvisionStore(u, o, n)
         \/ \E o \in Shops, n \in {{}} \cup {{c} : c \in 0..SeatsMax} : ChangePlan(o, n)
         \/ \E i \in Invites : ExpireInvite(i)
  PROVE  MembershipInv'
<1>1. ASSUME NEW k \in Recruiters, Abandon(k)
      PROVE  MembershipInv'
  BY <1>1, FreeFits, WorkReplaced, InvitesKept DEF Abandon, Leave, MembershipInv,
     MembershipTypes, OneRoleEach
<1>2. ASSUME NEW k \in Recruiters, NEW u \in People, LookForOrg(k, u)
      PROVE  MembershipInv'
  <2> DEFINE work == [Free EXCEPT !.doing = "create", !.who = {u}]
  <2>1. /\ recruiter' = [recruiter EXCEPT ![k] = work]
        /\ UNCHANGED <<shops, member, seats, invite, seated, allowed>>
    BY <1>2 DEF LookForOrg, Take
  <2>2. work \in RecruiterWork /\ work.doing = "create" /\ work.org = {}
    BY FreeFits DEF RecruiterWork
  <2> HIDE DEF work
  <2>3. /\ recruiter' \in [Recruiters -> RecruiterWork] /\ recruiter'[k] = work
        /\ \A l \in Recruiters : l # k => recruiter'[l] = recruiter[l]
        /\ \A l \in Recruiters : recruiter'[l].org \subseteq shops
    BY <2>1, <2>2, WorkReplaced
  <2>4. MembershipTypes' /\ OneRoleEach'
    BY <2>1, <2>3 DEF MembershipInv, MembershipTypes, OneRoleEach
  <2>5. \A l \in Recruiters : recruiter'[l] = recruiter[l] \/ recruiter'[l].doing \in {"nothing", "create"}
    BY <2>2, <2>3
  <2>6. InvitesFollowed' /\ SeatsCounted'
    BY <2>1, <2>5, InvitesKept
  <2>7. QED
    BY <2>4, <2>6 DEF MembershipInv
<1>3. ASSUME NEW k \in Recruiters, NEW u \in People, NEW o \in Shops, CreateOrg(k, u, o)
      PROVE  MembershipInv'
  BY <1>3, FreeFits, WorkReplaced, OwnerJoins, InvitesKept DEF CreateOrg, Leave,
     MembershipInv, MembershipTypes
<1>4. ASSUME NEW u \in People, NEW o \in Shops, NEW n \in 0..SeatsMax, ProvisionStore(u, o, n)
      PROVE  MembershipInv'
  BY <1>4, OwnerJoins, InvitesKept DEF ProvisionStore, MembershipInv, MembershipTypes
<1>5. ASSUME NEW o \in Shops, NEW n \in {{}} \cup {{c} : c \in 0..SeatsMax}, ChangePlan(o, n)
      PROVE  MembershipInv'
  BY <1>5, InvitesKept DEF ChangePlan, MembershipInv, MembershipTypes, OneRoleEach
<1>6. ASSUME NEW i \in Invites, ExpireInvite(i)
      PROVE  MembershipInv'
  <2> DEFINE row == [invite[i] EXCEPT !.state = "expired"]
  <2>1. /\ invite' = [invite EXCEPT ![i] = row] /\ invite[i].state = "open"
        /\ UNCHANGED <<shops, member, seats, seated, allowed, recruiter>>
    BY <1>6 DEF ExpireInvite
  <2>2. invite[i] \in InviteRow
    BY DEF MembershipInv, MembershipTypes
  <2>3. /\ row \in InviteRow /\ row.state = "expired"
        /\ row.org = invite[i].org /\ row.role = invite[i].role
    BY <2>2 DEF InviteRow
  <2> HIDE DEF row
  <2>4. /\ invite' \in [Invites -> InviteRow] /\ invite'[i] = row
        /\ \A j \in Invites : j # i => invite'[j] = invite[j]
    BY <2>1, <2>3 DEF MembershipInv, MembershipTypes
  <2>5. \A j \in Invites : /\ invite'[j].org = invite[j].org /\ invite'[j].role = invite[j].role
                           /\ invite'[j].state = "open" => invite[j].state = "open"
                           /\ invite'[j].state = "absent" => invite'[j] = invite[j]
                           /\ invite[j].state = "absent" => invite'[j] = invite[j]
    BY <2>1, <2>3, <2>4
  <2>6. MembershipTypes' /\ OneRoleEach'
    BY <2>1, <2>4, <2>5 DEF MembershipInv, MembershipTypes, OneRoleEach
  <2>7. InvitesFollowed' /\ SeatsCounted'
    BY <2>1, <2>5, InvitesKept
  <2>8. QED
    BY <2>6, <2>7 DEF MembershipInv
<1>7. QED
  BY <1>1, <1>2, <1>3, <1>4, <1>5, <1>6

LEMMA ReadInviteSafe ==
  ASSUME MembershipInv, NEW k \in Recruiters, NEW u \in People, NEW i \in Invites, ReadInvite(k, u, i)
  PROVE  MembershipInv'
<1> DEFINE work == [Free EXCEPT !.doing = "accept", !.who = {u}, !.org = invite[i].org,
                                !.role = invite[i].role, !.invite = {i}]
<1>1. /\ recruiter' = [recruiter EXCEPT ![k] = work] /\ recruiter[k] = Free
      /\ invite[i].state = "open"
      /\ UNCHANGED <<shops, member, seats, invite, seated, allowed>>
  BY DEF ReadInvite, Take
<1>2. invite[i] \in InviteRow /\ invite[i].org \subseteq shops
  BY DEF MembershipInv, MembershipTypes
<1>3. /\ work \in RecruiterWork /\ work.doing = "accept" /\ work.org = invite[i].org
      /\ work.role = invite[i].role /\ work.invite = {i}
  BY <1>2, FreeFits DEF RecruiterWork, InviteRow
<1> HIDE DEF work
<1>4. /\ recruiter' \in [Recruiters -> RecruiterWork] /\ recruiter'[k] = work
      /\ \A l \in Recruiters : l # k => recruiter'[l] = recruiter[l]
      /\ \A l \in Recruiters : recruiter'[l].org \subseteq shops
  BY <1>1, <1>2, <1>3, WorkReplaced
<1>5. MembershipTypes' /\ OneRoleEach'
  BY <1>1, <1>4 DEF MembershipInv, MembershipTypes, OneRoleEach
<1>6. InvitesFollowed'  BY <1>1, <1>3, <1>4 DEF MembershipInv, InvitesFollowed
<1>7. ASSUME NEW o \in Shops
      PROVE  Unsettled(o)' \subseteq Unsettled(o) /\ Inserting(o)' \subseteq Inserting(o)
  BY <1>1, <1>3, <1>4 DEF ManagerInvites, Seaters, Accepting, Unsettled, Inserting
<1>8. SeatsCounted'
  BY <1>1, <1>7, SeatsKept
<1>9. QED
  BY <1>5, <1>6, <1>8 DEF MembershipInv

LEMMA JoinSafe ==
  ASSUME MembershipInv, NEW k \in Recruiters, NEW u \in People, NEW o \in Shops, NEW i \in Invites,
         Join(k, u, o, i)
  PROVE  MembershipInv' /\ member \subseteq member'
<1> DEFINE row == [invite[i] EXCEPT !.state = "accepted"]
           seat == [user |-> u, org |-> o, role |-> recruiter[k].role]
<1>1. /\ recruiter' = [recruiter EXCEPT ![k] = Free] /\ invite' = [invite EXCEPT ![i] = row]
      /\ recruiter[k].doing = "accept" /\ recruiter[k].org = {o} /\ recruiter[k].invite = {i}
      /\ UNCHANGED <<shops, seats, allowed>>
      /\ member' = Joined(u, o, recruiter[k].role)
      /\ seated' = IF member' = member THEN seated ELSE seated \cup {<<i, u>>}
  BY DEF Join, Leave
<1>2. \/ member' = member /\ seated' = seated
      \/ /\ \A m \in member : ~(m.user = u /\ m.org = o)
         /\ member' = member \cup {seat} /\ seated' = seated \cup {<<i, u>>}
  BY <1>1 DEF Joined, MemberOf
<1>3. /\ invite[i] \in InviteRow /\ recruiter[k].role \in Roles /\ o \in shops
      /\ member \subseteq [user : People, org : shops, role : Roles]
  BY <1>1 DEF MembershipInv, MembershipTypes, RecruiterWork
<1>4. seat \in [user : People, org : shops, role : Roles] /\ seat.user = u /\ seat.org = o
  BY <1>3
<1>5. /\ row \in InviteRow /\ row.state = "accepted"
      /\ row.org = invite[i].org /\ row.role = invite[i].role
  BY <1>3 DEF InviteRow
<1>6. PICK j \in Invites : /\ recruiter[k].invite = {j} /\ invite[j].state # "absent"
                           /\ recruiter[k].org = invite[j].org /\ recruiter[k].role = invite[j].role
  BY <1>1 DEF MembershipInv, InvitesFollowed
<1>7. invite[i].state # "absent" /\ invite[i].org = {o} /\ recruiter[k].role = invite[i].role
  BY <1>1, <1>6
<1>8. seat = [user |-> u, org |-> o, role |-> invite[i].role]
  BY <1>7
<1> HIDE DEF row, seat
<1>9. /\ recruiter' \in [Recruiters -> RecruiterWork] /\ recruiter'[k] = Free
      /\ \A l \in Recruiters : l # k => recruiter'[l] = recruiter[l]
      /\ \A l \in Recruiters : recruiter'[l].org \subseteq shops
  BY <1>1, FreeFits, WorkReplaced
<1>10. /\ invite' \in [Invites -> InviteRow] /\ invite'[i] = row
       /\ \A h \in Invites : h # i => invite'[h] = invite[h]
  BY <1>1, <1>5 DEF MembershipInv, MembershipTypes
<1>11. \A h \in Invites : /\ invite'[h].org = invite[h].org /\ invite'[h].role = invite[h].role
                          /\ invite'[h].state = "open" => invite[h].state = "open"
                          /\ invite'[h].state = "absent" <=> invite[h].state = "absent"
                          /\ invite'[h].state = "absent" => invite'[h] = invite[h]
  BY <1>5, <1>7, <1>10
<1>12. MembershipTypes'
  <2>1. IsFiniteSet(member')
    BY <1>2, FS_AddElement DEF MembershipInv, MembershipTypes
  <2>2. member' \subseteq [user : People, org : shops, role : Roles]
    BY <1>2, <1>3, <1>4
  <2>3. seated' \subseteq Invites \X People
    BY <1>2 DEF MembershipInv, MembershipTypes
  <2>4. QED
    BY <1>1, <1>9, <1>10, <1>11, <2>1, <2>2, <2>3 DEF MembershipInv, MembershipTypes
<1>13. OneRoleEach'
  BY <1>2, <1>4 DEF MembershipInv, OneRoleEach
<1>14. InvitesFollowed'
  <2>1. \A h \in Invites : invite'[h].state = "absent" => invite'[h] = NoInvite
    BY <1>11 DEF MembershipInv, InvitesFollowed
  <2>2. ASSUME NEW l \in Recruiters, recruiter'[l].doing = "accept"
        PROVE  \E h \in Invites : /\ recruiter'[l].invite = {h} /\ invite'[h].state # "absent"
                                  /\ recruiter'[l].org = invite'[h].org
                                  /\ recruiter'[l].role = invite'[h].role
    BY <1>9, <1>11, <2>2, FreeFits DEF MembershipInv, InvitesFollowed
  <2>3. ASSUME NEW h \in Invites, NEW v \in People, <<h, v>> \in seated
        PROVE  /\ invite[h].state # "absent"
               /\ \A p \in Shops : invite[h].org = {p} =>
                    [user |-> v, org |-> p, role |-> invite[h].role] \in member
               /\ \A g \in Invites : <<g, v>> \in seated /\ invite[g].org = invite[h].org => g = h
    BY <2>3 DEF MembershipInv, InvitesFollowed
  <2>4. CASE member' = member /\ seated' = seated
    BY <1>11, <2>1, <2>2, <2>3, <2>4 DEF InvitesFollowed
  <2>5. CASE /\ \A m \in member : ~(m.user = u /\ m.org = o)
             /\ member' = member \cup {seat} /\ seated' = seated \cup {<<i, u>>}
    <3>1. ASSUME NEW h \in Invites, <<h, u>> \in seated
          PROVE  invite[h].org # {o}
      <4>1. invite[h].org = {o} => [user |-> u, org |-> o, role |-> invite[h].role] \in member
        BY <2>3, <3>1
      <4>2. QED
        BY <2>5, <4>1
    <3>2. ASSUME NEW h \in Invites, NEW v \in People, <<h, v>> \in seated'
          PROVE  /\ invite'[h].state # "absent"
                 /\ \A p \in Shops : invite'[h].org = {p} =>
                      [user |-> v, org |-> p, role |-> invite'[h].role] \in member'
                 /\ \A g \in Invites : <<g, v>> \in seated' /\ invite'[g].org = invite'[h].org => g = h
      BY <1>7, <1>8, <1>11, <2>3, <2>5, <3>1, <3>2
    <3>3. QED
      BY <2>1, <2>2, <3>2 DEF InvitesFollowed
  <2>6. QED
    BY <1>2, <2>4, <2>5
<1>15. ASSUME NEW p \in Shops
       PROVE  Unsettled(p)' \subseteq Unsettled(p) /\ Inserting(p)' \subseteq Inserting(p)
  BY <1>1, <1>2, <1>9, <1>11, FreeFits DEF ManagerInvites, Accepting, Inserting, Seaters,
     Unsettled
<1>16. SeatsCounted'
  BY <1>1, <1>15, SeatsKept
<1>17. QED
  BY <1>2, <1>12, <1>13, <1>14, <1>16 DEF MembershipInv

LEMMA InsertInviteSafe ==
  ASSUME MembershipInv, NEW k \in Recruiters, NEW i \in Invites, InsertInvite(k, i)
  PROVE  MembershipInv'
<1> DEFINE row == [state |-> "open", org |-> recruiter[k].org, role |-> recruiter[k].role]
<1>1. /\ recruiter' = [recruiter EXCEPT ![k] = Free] /\ invite' = [invite EXCEPT ![i] = row]
      /\ recruiter[k].doing = "invite" /\ invite[i] = NoInvite
      /\ UNCHANGED <<shops, member, seats, seated, allowed>>
  BY DEF InsertInvite, Leave
<1>2. recruiter[k] \in RecruiterWork /\ recruiter[k].org \subseteq shops /\ shops \subseteq Shops
  BY DEF MembershipInv, MembershipTypes
<1>3. /\ row \in InviteRow /\ row.state = "open"
      /\ row.org = recruiter[k].org /\ row.role = recruiter[k].role
  BY <1>2 DEF InviteRow, RecruiterWork
<1> HIDE DEF row
<1>4. /\ recruiter' \in [Recruiters -> RecruiterWork] /\ recruiter'[k] = Free
      /\ \A l \in Recruiters : l # k => recruiter'[l] = recruiter[l]
      /\ \A l \in Recruiters : recruiter'[l].org \subseteq shops
  BY <1>1, FreeFits, WorkReplaced
<1>5. /\ invite' \in [Invites -> InviteRow] /\ invite'[i] = row
      /\ \A j \in Invites : j # i => invite'[j] = invite[j]
  BY <1>1, <1>3 DEF MembershipInv, MembershipTypes
<1>6. MembershipTypes' /\ OneRoleEach'
  BY <1>1, <1>2, <1>3, <1>4, <1>5 DEF MembershipInv, MembershipTypes, OneRoleEach
<1>7. invite[i].state = "absent" /\ invite[i].role = "viewer" /\ invite[i].org = {}
  BY <1>1 DEF NoInvite
<1>8. \A u \in People : <<i, u>> \notin seated
  BY <1>7 DEF MembershipInv, InvitesFollowed
<1>9. InvitesFollowed'
  BY <1>1, <1>3, <1>4, <1>5, <1>7, <1>8, FreeFits DEF MembershipInv, InvitesFollowed
<1>10. ASSUME NEW o \in Shops
       PROVE  Cardinality(Unsettled(o)') + Cardinality(Inserting(o)')
                <= allowed[o] + Cardinality(Recruiters) - 1
  <2>1. /\ \A j \in ManagerInvites(o)' : j \in ManagerInvites(o) \/ j = i
        /\ ManagerInvites(o) \subseteq ManagerInvites(o)'
    BY <1>5, <1>7 DEF ManagerInvites
  <2>2. Unsettled(o)' \subseteq Unsettled(o) \cup {i}
    BY SMTT(30), <1>1, <1>4, <1>5, <1>8, <2>1, FreeFits DEF Seaters, Accepting, Unsettled,
       ManagerInvites
  <2>3. Inserting(o)' \subseteq Inserting(o) \ {k}
    BY <1>4, FreeFits DEF Inserting
  <2>4. Unsettled(o) \subseteq Invites /\ Inserting(o) \subseteq Recruiters
    BY DEF Unsettled, Seaters, Accepting, ManagerInvites, Inserting
  <2>5. /\ IsFiniteSet(Unsettled(o)) /\ Cardinality(Unsettled(o)) \in Nat
        /\ IsFiniteSet(Inserting(o)) /\ Cardinality(Inserting(o)) \in Nat
        /\ Cardinality(Recruiters) \in Nat
    BY <2>4, InvitesAndRecruitersFinite
  <2>6. /\ IsFiniteSet(Unsettled(o) \cup {i}) /\ IsFiniteSet(Inserting(o) \ {k})
        /\ Cardinality(Unsettled(o) \cup {i}) <= Cardinality(Unsettled(o)) + 1
        /\ Cardinality(Inserting(o) \ {k})
             = IF k \in Inserting(o) THEN Cardinality(Inserting(o)) - 1 ELSE Cardinality(Inserting(o))
    <3>1. /\ IsFiniteSet(Unsettled(o) \cup {i})
          /\ Cardinality(Unsettled(o) \cup {i})
               = IF i \in Unsettled(o) THEN Cardinality(Unsettled(o)) ELSE Cardinality(Unsettled(o)) + 1
      BY <2>5, FS_AddElement
    <3>2. /\ IsFiniteSet(Inserting(o) \ {k})
          /\ Cardinality(Inserting(o) \ {k})
               = IF k \in Inserting(o) THEN Cardinality(Inserting(o)) - 1 ELSE Cardinality(Inserting(o))
      BY <2>5, FS_RemoveElement
    <3>3. Cardinality(Unsettled(o) \cup {i}) <= Cardinality(Unsettled(o)) + 1
      BY <2>5, <3>1
    <3>4. QED
      BY <3>1, <3>2, <3>3
  <2>7. allowed[o] \in Nat
    BY MembershipAssumption DEF MembershipInv, MembershipTypes
  <2>8. Cardinality(Unsettled(o)) + Cardinality(Inserting(o)) <= allowed[o] + Cardinality(Recruiters) - 1
    BY DEF MembershipInv, SeatsCounted
  <2>9. /\ IsFiniteSet(Unsettled(o)') /\ Cardinality(Unsettled(o)') <= Cardinality(Unsettled(o) \cup {i})
        /\ IsFiniteSet(Inserting(o)') /\ Cardinality(Inserting(o)') <= Cardinality(Inserting(o) \ {k})
    BY <2>2, <2>3, <2>6, FS_Subset
  <2>10. /\ Cardinality(Unsettled(o)') \in Nat /\ Cardinality(Inserting(o)') \in Nat
         /\ Cardinality(Unsettled(o) \cup {i}) \in Nat /\ Cardinality(Inserting(o) \ {k}) \in Nat
    BY <2>6, <2>9, FS_CardinalityType
  <2>11. CASE k \in Inserting(o)
    BY <2>5, <2>6, <2>7, <2>8, <2>9, <2>10, <2>11
  <2>12. CASE k \notin Inserting(o)
    <3>1. ~(recruiter[k].org = {o} /\ recruiter[k].role = "manager")
      BY <1>1, <2>12 DEF Inserting
    <3>2. i \notin ManagerInvites(o)'
      BY <1>3, <1>5, <3>1 DEF ManagerInvites
    <3>3. i \notin Unsettled(o)'
      BY <3>2 DEF Unsettled, Seaters, Accepting
    <3>4. Unsettled(o)' \subseteq Unsettled(o)
      BY <2>2, <3>3
    <3>5. Cardinality(Unsettled(o)') <= Cardinality(Unsettled(o))
      BY <2>5, <3>4, FS_Subset
    <3>6. QED
      BY <2>5, <2>6, <2>7, <2>8, <2>9, <2>10, <2>12, <3>5
  <2>13. QED
    BY <2>11, <2>12
<1>11. SeatsCounted'
  BY <1>1, <1>10 DEF SeatsCounted
<1>12. QED
  BY <1>6, <1>9, <1>11 DEF MembershipInv

LEMMA AtMostAsMany ==
  ASSUME NEW S, NEW T, IsFiniteSet(T), NEW f \in [S -> T], \A a, b \in S : f[a] = f[b] => a = b
  PROVE  IsFiniteSet(S) /\ Cardinality(S) <= Cardinality(T)
<1>1. f \in Injection(S, T)
  BY DEF Injection, IsInjective
<1>2. QED
  BY <1>1, FS_Injection

(* What a request that is still free sees taken, and the others in flight,   *)
(* cover every seat that is or may be taken.                                 *)
LEMMA SeatsSeen ==
  ASSUME MembershipInv, NEW o \in Shops, NEW k \in Recruiters, recruiter[k] = Free
  PROVE  /\ Taken(o, "manager") \in Nat
         /\ Cardinality(Unsettled(o)) + Cardinality(Inserting(o))
              <= Taken(o, "manager") + Cardinality(Recruiters) - 1
<1> DEFINE opened == {i \in ManagerInvites(o) : invite[i].state = "open"}
           managers == In(o, "manager")
           acceptors == {l \in Recruiters : recruiter[l].doing = "accept"}
<1>1. /\ ManagerInvites(o) \subseteq Invites /\ opened \subseteq Invites /\ Seaters(o) \subseteq Invites
      /\ Accepting(o) \subseteq Invites /\ Inserting(o) \subseteq Recruiters /\ acceptors \subseteq Recruiters
      /\ opened \cup Seaters(o) \subseteq Invites
  BY DEF ManagerInvites, Seaters, Accepting, Inserting
<1>2. opened = Open(o, "manager")
  <2>1. ASSUME NEW i \in Invites
        PROVE  (invite[i] = [state |-> "open", org |-> {o}, role |-> "manager"])
                 <=> (invite[i].state = "open" /\ invite[i].org = {o} /\ invite[i].role = "manager")
    BY DEF MembershipInv, MembershipTypes, InviteRow
  <2>2. QED
    BY <2>1 DEF Open, ManagerInvites
<1>3. IsFiniteSet(managers) /\ Cardinality(managers) \in Nat
  BY FS_Subset, FS_CardinalityType DEF In, MemberOf, MembershipInv, MembershipTypes
<1>4. Cardinality(Seaters(o)) <= Cardinality(managers)
  <2> DEFINE who == [i \in Seaters(o) |->
                       [user |-> CHOOSE u \in People : <<i, u>> \in seated, org |-> o, role |-> "manager"]]
  <2>1. ASSUME NEW i \in Seaters(o)
        PROVE  \E u \in People : who[i] = [user |-> u, org |-> o, role |-> "manager"] /\ <<i, u>> \in seated
    BY DEF Seaters
  <2> HIDE DEF who
  <2>2. ASSUME NEW i \in Seaters(o)
        PROVE  who[i] \in managers
    <3>1. PICK u \in People : who[i] = [user |-> u, org |-> o, role |-> "manager"] /\ <<i, u>> \in seated
      BY <2>1
    <3>2. i \in Invites /\ invite[i].org = {o} /\ invite[i].role = "manager"
      BY DEF Seaters, ManagerInvites
    <3>3. who[i] \in member
      BY <3>1, <3>2 DEF MembershipInv, InvitesFollowed
    <3>4. QED
      BY <3>1, <3>3 DEF In, MemberOf
  <2>3. ASSUME NEW i \in Seaters(o), NEW j \in Seaters(o), who[i] = who[j]
        PROVE  i = j
    <3>1. PICK u \in People : who[i] = [user |-> u, org |-> o, role |-> "manager"] /\ <<i, u>> \in seated
      BY <2>1
    <3>2. PICK v \in People : who[j] = [user |-> v, org |-> o, role |-> "manager"] /\ <<j, v>> \in seated
      BY <2>1
    <3>3. u = v
      <4>1. who[i].user = u /\ who[j].user = v
        BY <3>1, <3>2
      <4>2. QED
        BY <2>3, <4>1
    <3>4. i \in Invites /\ j \in Invites /\ invite[i].org = {o} /\ invite[j].org = {o}
      BY DEF Seaters, ManagerInvites
    <3>5. QED
      BY <3>1, <3>2, <3>3, <3>4 DEF MembershipInv, InvitesFollowed
  <2>4. who \in [Seaters(o) -> managers]
    BY <2>2 DEF who
  <2>5. QED
    BY <1>3, <2>3, <2>4, AtMostAsMany
<1>5. Cardinality(Accepting(o)) <= Cardinality(acceptors)
  <2> DEFINE by == [i \in Accepting(o) |->
                      CHOOSE l \in Recruiters : recruiter[l].doing = "accept" /\ recruiter[l].invite = {i}]
  <2>1. \A i \in Accepting(o) : by[i] \in acceptors /\ recruiter[by[i]].invite = {i}
    BY DEF Accepting
  <2>2. by \in [Accepting(o) -> acceptors]
    BY <2>1
  <2> HIDE DEF by
  <2>3. \A i, j \in Accepting(o) : by[i] = by[j] => i = j
    BY <2>1
  <2>4. IsFiniteSet(acceptors)
    BY <1>1, InvitesAndRecruitersFinite
  <2> HIDE DEF acceptors
  <2>5. QED
    BY <2>2, <2>3, <2>4, AtMostAsMany
<1>6. Cardinality(acceptors) + Cardinality(Inserting(o)) <= Cardinality(Recruiters) - 1
  <2>1. /\ acceptors \cap Inserting(o) = {} /\ acceptors \cup Inserting(o) \subseteq Recruiters \ {k}
    BY FreeFits DEF Inserting
  <2>2. /\ IsFiniteSet(acceptors) /\ IsFiniteSet(Inserting(o))
        /\ Cardinality(acceptors) \in Nat /\ Cardinality(Inserting(o)) \in Nat
    BY <1>1, InvitesAndRecruitersFinite
  <2> HIDE DEF acceptors
  <2>3. Cardinality(acceptors \cup Inserting(o)) = Cardinality(acceptors) + Cardinality(Inserting(o))
    BY <2>1, <2>2, FS_Union, FS_EmptySet
  <2>4. /\ IsFiniteSet(Recruiters \ {k})
        /\ Cardinality(Recruiters \ {k}) = Cardinality(Recruiters) - 1
    BY MembershipAssumption, FS_RemoveElement
  <2>5. Cardinality(acceptors \cup Inserting(o)) <= Cardinality(Recruiters \ {k})
    BY <2>1, <2>4, FS_Subset
  <2>6. QED
    BY <2>3, <2>4, <2>5
<1>7. /\ Cardinality(opened) \in Nat /\ Cardinality(Seaters(o)) \in Nat
      /\ Cardinality(Accepting(o)) \in Nat /\ Cardinality(acceptors) \in Nat
      /\ Cardinality(Inserting(o)) \in Nat /\ Cardinality(Recruiters) \in Nat
      /\ IsFiniteSet(opened) /\ IsFiniteSet(Seaters(o)) /\ IsFiniteSet(Accepting(o))
      /\ IsFiniteSet(opened \cup Seaters(o)) /\ Cardinality(opened \cup Seaters(o)) \in Nat
  BY <1>1, InvitesAndRecruitersFinite
<1>8. Taken(o, "manager") = Cardinality(managers) + Cardinality(opened)
  BY <1>2 DEF Taken
<1>9. Unsettled(o) = (opened \cup Seaters(o)) \cup Accepting(o)
  BY DEF Unsettled
<1> HIDE DEF opened, managers, acceptors
<1>10. Cardinality(opened \cup Seaters(o)) <= Cardinality(opened) + Cardinality(Seaters(o))
  <2>1. /\ Cardinality(opened \cup Seaters(o))
             = Cardinality(opened) + Cardinality(Seaters(o)) - Cardinality(opened \cap Seaters(o))
        /\ Cardinality(opened \cap Seaters(o)) \in Nat
    BY <1>7, FS_Union, FS_Intersection, FS_CardinalityType
  <2>2. QED
    BY <1>7, <2>1
<1>11. Cardinality(Unsettled(o)) <= Cardinality(opened \cup Seaters(o)) + Cardinality(Accepting(o))
  <2>1. /\ Cardinality(Unsettled(o)) = Cardinality(opened \cup Seaters(o)) + Cardinality(Accepting(o))
                                         - Cardinality((opened \cup Seaters(o)) \cap Accepting(o))
        /\ Cardinality((opened \cup Seaters(o)) \cap Accepting(o)) \in Nat
    BY <1>7, <1>9, FS_Union, FS_Intersection, FS_CardinalityType
  <2>2. QED
    BY <1>7, <2>1
<1>12. Cardinality(Unsettled(o)) \in Nat  BY <1>1, <1>9, InvitesAndRecruitersFinite
<1>13. Taken(o, "manager") \in Nat
  BY <1>3, <1>7, <1>8
<1>14. Cardinality(Unsettled(o)) + Cardinality(Inserting(o))
         <= Taken(o, "manager") + Cardinality(Recruiters) - 1
  BY <1>3, <1>4, <1>5, <1>6, <1>7, <1>8, <1>10, <1>11, <1>12
<1>15. QED
  BY <1>13, <1>14

LEMMA CheckSeatSafe ==
  ASSUME MembershipInv, NEW k \in Recruiters, NEW m \in member, NEW role \in Offered, CheckSeat(k, m, role)
  PROVE  MembershipInv'
<1> DEFINE work == [Free EXCEPT !.doing = "invite", !.org = {m.org}, !.role = role]
<1>1. /\ recruiter' = [recruiter EXCEPT ![k] = work] /\ recruiter[k] = Free
      /\ SeatFree(m.org, role)
      /\ UNCHANGED <<shops, member, seats, invite, seated>>
      /\ allowed' = IF role = "manager" /\ \E n \in seats[m.org] : n > allowed[m.org]
                    THEN [allowed EXCEPT ![m.org] = CHOOSE n \in seats[m.org] : TRUE] ELSE allowed
  BY DEF CheckSeat, Take
<1>2. m.org \in shops /\ m.org \in Shops /\ role \in Roles
  BY MembershipAssumption DEF MembershipInv, MembershipTypes
<1>3. /\ work \in RecruiterWork /\ work.doing = "invite" /\ work.org = {m.org} /\ work.role = role
  BY <1>2, FreeFits DEF RecruiterWork
<1> HIDE DEF work
<1>4. /\ recruiter' \in [Recruiters -> RecruiterWork] /\ recruiter'[k] = work
      /\ \A l \in Recruiters : l # k => recruiter'[l] = recruiter[l]
      /\ \A l \in Recruiters : recruiter'[l].org \subseteq shops
  BY <1>1, <1>2, <1>3, WorkReplaced
<1>5. /\ allowed \in [Shops -> 0..SeatsMax] /\ SeatsMax \in Nat
      /\ \A o \in Shops : allowed[o] \in Nat
      /\ seats[m.org] = {} \/ \E n \in 0..SeatsMax : seats[m.org] = {n}
  BY <1>2, MembershipAssumption DEF MembershipInv, MembershipTypes
<1>6. /\ allowed' \in [Shops -> 0..SeatsMax]
      /\ \A o \in Shops : allowed[o] <= allowed'[o]
      /\ role = "manager" => \A n \in seats[m.org] : n <= allowed'[m.org]  BY <1>1, <1>2, <1>5
<1>7. MembershipTypes' /\ OneRoleEach'
  BY <1>1, <1>4, <1>6 DEF MembershipInv, MembershipTypes, OneRoleEach
<1>8. InvitesFollowed'  BY <1>1, <1>3, <1>4 DEF MembershipInv, InvitesFollowed
<1>9. ASSUME NEW o \in Shops
      PROVE  Cardinality(Unsettled(o)') + Cardinality(Inserting(o)')
               <= allowed'[o] + Cardinality(Recruiters) - 1
  <2>1. Unsettled(o)' \subseteq Unsettled(o)
    BY <1>1, <1>3, <1>4 DEF ManagerInvites, Seaters, Accepting, Unsettled
  <2>2. Inserting(o)' \subseteq Inserting(o) \cup {k}
    BY <1>4 DEF Inserting
  <2>3. Unsettled(o) \subseteq Invites /\ Inserting(o) \subseteq Recruiters
    BY DEF Unsettled, Seaters, Accepting, ManagerInvites, Inserting
  <2>4. /\ IsFiniteSet(Unsettled(o)) /\ Cardinality(Unsettled(o)) \in Nat
        /\ IsFiniteSet(Inserting(o)) /\ Cardinality(Inserting(o)) \in Nat
        /\ Cardinality(Recruiters) \in Nat /\ allowed[o] \in Nat /\ allowed'[o] \in Nat
    BY <1>5, <1>6, <2>3, InvitesAndRecruitersFinite
  <2>5. Cardinality(Unsettled(o)') <= Cardinality(Unsettled(o)) /\ Cardinality(Unsettled(o)') \in Nat
    BY <2>1, <2>4, FS_Subset, FS_CardinalityType
  <2>6. CASE role = "manager" /\ o = m.org
    <3>1. PICK n \in seats[o] : Taken(o, "manager") < n
      BY <1>1, <2>6 DEF SeatFree
    <3>2. n <= allowed'[o] /\ n \in Nat
      BY <1>5, <1>6, <2>6, <3>1
    <3>3. /\ Taken(o, "manager") \in Nat
          /\ Cardinality(Unsettled(o)) + Cardinality(Inserting(o))
               <= Taken(o, "manager") + Cardinality(Recruiters) - 1
      BY <1>1, SeatsSeen
    <3>4. k \notin Inserting(o)
      BY <1>1, FreeFits DEF Inserting
    <3>5. IsFiniteSet(Inserting(o) \cup {k}) /\ Cardinality(Inserting(o) \cup {k}) = Cardinality(Inserting(o)) + 1
      BY <2>4, <3>4, FS_AddElement
    <3>6. /\ Cardinality(Inserting(o)') <= Cardinality(Inserting(o)) + 1
          /\ Cardinality(Inserting(o)') \in Nat
      BY <2>2, <3>5, FS_Subset, FS_CardinalityType
    <3>7. QED
      BY <2>4, <2>5, <3>1, <3>2, <3>3, <3>6
  <2>7. CASE ~(role = "manager" /\ o = m.org)
    <3>1. k \notin Inserting(o)'
      BY <1>3, <1>4, <2>7 DEF Inserting
    <3>2. Inserting(o)' \subseteq Inserting(o)
      BY <2>2, <3>1
    <3>3. Cardinality(Inserting(o)') <= Cardinality(Inserting(o)) /\ Cardinality(Inserting(o)') \in Nat
      BY <2>4, <3>2, FS_Subset, FS_CardinalityType
    <3>4. Cardinality(Unsettled(o)) + Cardinality(Inserting(o)) <= allowed[o] + Cardinality(Recruiters) - 1
      BY DEF MembershipInv, SeatsCounted
    <3>5. allowed[o] <= allowed'[o]
      BY <1>6
    <3>6. QED
      BY <2>4, <2>5, <3>3, <3>4, <3>5
  <2>8. QED
    BY <2>6, <2>7
<1>10. SeatsCounted'
  BY <1>9 DEF SeatsCounted
<1>11. QED
  BY <1>7, <1>8, <1>10 DEF MembershipInv

LEMMA MembershipSteps == MembershipInv /\ [MembershipNext]_memberVars => MembershipInv'
<1> SUFFICES ASSUME MembershipInv, [MembershipNext]_memberVars PROVE MembershipInv'
  OBVIOUS
<1>1. CASE UNCHANGED memberVars
  BY <1>1, InvitesKept DEF memberVars, MembershipInv, MembershipTypes, OneRoleEach
<1>2. ASSUME NEW k \in Recruiters, NEW u \in People, NEW o \in Shops, NEW i \in Invites, Join(k, u, o, i)
      PROVE  MembershipInv'
  BY <1>2, JoinSafe
<1>3. ASSUME NEW k \in Recruiters, NEW u \in People, NEW i \in Invites, ReadInvite(k, u, i)
      PROVE  MembershipInv'
  BY <1>3, ReadInviteSafe
<1>4. ASSUME NEW k \in Recruiters, NEW m \in member, NEW role \in Offered, CheckSeat(k, m, role)
      PROVE  MembershipInv'
  BY <1>4, CheckSeatSafe
<1>5. ASSUME NEW k \in Recruiters, NEW i \in Invites, InsertInvite(k, i)
      PROVE  MembershipInv'
  BY <1>5, InsertInviteSafe
<1>6. QED
  BY <1>1, <1>2, <1>3, <1>4, <1>5, PlainStepsSafe DEF MembershipNext

LEMMA MembershipInvShows == MembershipInv => MembershipTypeOK /\ SeatOverrunBounded
<1> SUFFICES ASSUME MembershipInv PROVE MembershipTypeOK /\ SeatOverrunBounded
  OBVIOUS
<1>1. MembershipTypeOK
  BY DEF MembershipTypeOK, MembershipInv, MembershipTypes, InviteRow, RecruiterWork
<1>2. ASSUME NEW o \in Shops
      PROVE  Cardinality({i \in Invites :
                 /\ invite[i].org = {o} /\ invite[i].role = "manager"
                 /\ invite[i].state = "open" \/ \E u \in People : <<i, u>> \in seated})
               <= allowed[o] + Cardinality(Recruiters) - 1
  <2> DEFINE counted == {i \in Invites :
                 /\ invite[i].org = {o} /\ invite[i].role = "manager"
                 /\ invite[i].state = "open" \/ \E u \in People : <<i, u>> \in seated}
  <2>1. counted \subseteq Unsettled(o) /\ Unsettled(o) \subseteq Invites /\ Inserting(o) \subseteq Recruiters
    BY DEF Unsettled, Seaters, Accepting, ManagerInvites, Inserting
  <2>2. /\ IsFiniteSet(Unsettled(o)) /\ Cardinality(Unsettled(o)) \in Nat
        /\ Cardinality(Inserting(o)) \in Nat /\ Cardinality(Recruiters) \in Nat
    BY <2>1, InvitesAndRecruitersFinite
  <2> HIDE DEF counted
  <2>3. Cardinality(counted) <= Cardinality(Unsettled(o)) /\ Cardinality(counted) \in Nat
    BY <2>1, <2>2, FS_Subset, FS_CardinalityType
  <2>4. Cardinality(Unsettled(o)) + Cardinality(Inserting(o)) <= allowed[o] + Cardinality(Recruiters) - 1
    BY DEF MembershipInv, SeatsCounted
  <2>5. allowed[o] \in Nat
    BY MembershipAssumption DEF MembershipInv, MembershipTypes
  <2>6. Cardinality(counted) <= allowed[o] + Cardinality(Recruiters) - 1
    BY <2>2, <2>3, <2>4, <2>5
  <2>7. QED
    BY <2>6 DEF counted
<1>3. SeatOverrunBounded
  BY <1>2 DEF SeatOverrunBounded
<1>4. QED
  BY <1>1, <1>3

(* Racing invitations exceed the manager seats they were judged against by   *)
(* at most the other requests in flight (core/tenancy/seats.check_seat runs  *)
(* without a lock): for any number of people, organisations, invitations and *)
(* requests.                                                                 *)
THEOREM SeatsAlwaysCounted == MembershipSpec => [](MembershipTypeOK /\ SeatOverrunBounded)
<1>1. QED
  BY MembershipStarts, MembershipSteps, MembershipInvShows, PTL DEF MembershipSpec

(* Every step of a reachable state keeps every member and their role.        *)
LEMMA RolesKept == MembershipInv /\ [MembershipNext]_memberVars => RolesStay
<1> SUFFICES ASSUME MembershipInv, [MembershipNext]_memberVars PROVE RolesStay
  OBVIOUS
<1>1. MembershipInv'
  BY MembershipSteps
<1>2. member \subseteq member'
  BY JoinSafe DEF memberVars, Abandon, LookForOrg, CreateOrg, ReadInvite, CheckSeat,
     InsertInvite, ProvisionStore, ChangePlan, ExpireInvite, MembershipNext
<1>3. QED
  BY <1>1, <1>2 DEF RolesStay, MembershipInv, OneRoleEach

(***************************************************************************)
(* Scheduler                                                               *)
(***************************************************************************)
LEMMA Products ==
  ASSUME NEW a \in Nat, NEW b \in Nat, NEW k \in Nat \ {0}
  PROVE  /\ a * k \in Nat /\ (a + 1) * k = a * k + k /\ (a + 2) * k = a * k + 2 * k
         /\ a <= b => a * k <= b * k
         /\ a * k < b * k => a < b
<1>1. a * k \in Nat /\ b * k \in Nat /\ (a + 1) * k = a * k + k /\ (a + 2) * k = a * k + 2 * k
  OBVIOUS
<1>2. ASSUME a <= b PROVE a * k <= b * k  BY <1>1, <1>2
<1>3. ASSUME b <= a PROVE b * k <= a * k  BY <1>1, <1>3
<1>4. QED
  BY <1>1, <1>2, <1>3

(* The minute of an instant.                                                 *)
LEMMA MinuteOf ==
  ASSUME NEW t \in Nat
  PROVE  /\ t \div Minute \in Nat
         /\ (t \div Minute) * Minute <= t /\ t < (t \div Minute + 1) * Minute
<1>1. Minute \in Nat /\ Minute > 0
  BY SchedulerAssumption
<1>2. PICK k \in Nat : k = Minute /\ k > 0
  BY <1>1
<1>3. /\ t \div k \in Nat
      /\ (t \div k) * k <= t /\ t < (t \div k + 1) * k
  BY <1>2
<1>4. QED
  BY <1>2, <1>3

ProcState == [at : {"sleep", "round"}, until : Nat, minute : Nat, left : Seq(Names)]
SchedulerTypes ==
  /\ clock \in 0..LastInstant /\ proc \in [Schedulers -> ProcState] /\ deaths \in 0..MaxDeaths
  /\ lock \in [Names -> [Minutes -> Nat]] /\ runs \in [Names -> [Minutes -> Nat]]
  /\ away \in [Schedulers -> SUBSET Minutes]

(* Nobody's next step is overdue, and no round is ahead of its own clock.    *)
OnTime ==
  \A s \in Schedulers : clock <= proc[s].until /\ proc[s].minute <= OwnMinute(s, clock)

(* A lock was taken by a run, not before its minute began on some clock.     *)
LocksSince ==
  \A j \in Names, m \in Minutes :
    /\ lock[j][m] > 0 => runs[j][m] > 0
    /\ runs[j][m] > 0 => \E s \in Schedulers : m * Minute + Ttl <= lock[j][m] + Ahead[s]

(* A scheduler has seen to every minute before its next round and, in one, to *)
(* the jobs it has passed.                                                    *)
Seen(s, j, m) == m \in Due[j] => m \in away[s] \/ runs[j][m] > 0
Awaits(s, j) == \E i \in DOMAIN proc[s].left : proc[s].left[i] = j
SeenTo(s) ==
  /\ proc[s].at = "sleep" =>
       \A j \in Names, m \in Minutes : m < OwnMinute(s, proc[s].until) => Seen(s, j, m)
  /\ proc[s].at = "round" =>
       \A j \in Names, m \in Minutes :
         m < proc[s].minute \/ (m = proc[s].minute /\ ~Awaits(s, j)) => Seen(s, j, m)

SchedulerInv ==
  SchedulerTypes /\ OnTime /\ LocksSince /\ \A s \in Schedulers : SeenTo(s)

LEMMA Registry ==
  /\ Len(Jobs) \in Nat /\ Jobs \in Seq(Names) /\ DOMAIN Jobs = 1..Len(Jobs)
  /\ \A j \in Names : \E i \in 1..Len(Jobs) : j = Jobs[i]
  /\ \A i \in 1..Len(Jobs) : Jobs[i] \in Names
<1>1. Jobs \in Seq(Names)
  BY SchedulerAssumption
<1>2. Len(Jobs) \in Nat /\ DOMAIN Jobs = 1..Len(Jobs)
  BY <1>1
<1>3. QED
  BY <1>1, <1>2 DEF Names

(* The minutes of two instants, and of one a tick later.                     *)
LEMMA MinutesPass ==
  ASSUME NEW s \in Schedulers, NEW t \in Nat, NEW u \in Nat, t <= u
  PROVE  /\ OwnMinute(s, t) \in Nat /\ OwnMinute(s, t) <= OwnMinute(s, u)
         /\ u <= t + Tick => OwnMinute(s, u) <= OwnMinute(s, t) + 1
         /\ \A m \in Nat : /\ m <= OwnMinute(s, t) => m * Minute <= t + Ahead[s]
                           /\ m * Minute <= t + Ahead[s] => m <= OwnMinute(s, t)
<1>1. /\ Minute \in Nat \ {0} /\ Ahead[s] \in Nat /\ Tick \in Nat /\ Tick <= Minute
      /\ t + Ahead[s] \in Nat /\ u + Ahead[s] \in Nat
  BY SchedulerAssumption
<1>2. PICK x \in Nat, y \in Nat : x = OwnMinute(s, t) /\ y = OwnMinute(s, u)
  BY <1>1, MinuteOf DEF OwnMinute
<1>3. /\ x * Minute <= t + Ahead[s] /\ t + Ahead[s] < (x + 1) * Minute
      /\ y * Minute <= u + Ahead[s] /\ u + Ahead[s] < (y + 1) * Minute
  BY <1>1, <1>2, MinuteOf DEF OwnMinute
<1>4. ASSUME NEW m \in Nat
      PROVE  /\ m <= x => m * Minute <= t + Ahead[s]
             /\ m * Minute <= t + Ahead[s] => m <= x
  <2>1. m <= x => m * Minute <= x * Minute
    BY <1>1, Products
  <2>2. m * Minute < (x + 1) * Minute => m < x + 1
    BY <1>1, Products
  <2>3. m * Minute \in Nat /\ x * Minute \in Nat /\ (x + 1) * Minute \in Nat
    BY <1>1, Products
  <2>4. QED
    BY <1>1, <1>3, <2>1, <2>2, <2>3
<1>5. x <= y
  <2>1. x * Minute \in Nat /\ (y + 1) * Minute \in Nat
    BY <1>1, Products
  <2>2. x * Minute < (y + 1) * Minute
    BY <1>1, <1>3, <2>1
  <2>3. x < y + 1
    BY <1>1, <2>2, Products
  <2>4. QED
    BY <2>3
<1>6. ASSUME u <= t + Tick PROVE y <= x + 1
  <2>1. /\ y * Minute \in Nat /\ (x + 1) * Minute \in Nat
        /\ (x + 1 + 1) * Minute = (x + 1) * Minute + Minute
    BY <1>1, Products
  <2>2. y * Minute < (x + 1 + 1) * Minute
    BY <1>1, <1>3, <1>6, <2>1
  <2>3. x + 1 + 1 \in Nat
    OBVIOUS
  <2>4. y < x + 1 + 1
    BY <1>1, <2>2, <2>3, Products
  <2>5. QED
    BY <2>4
<1>7. QED
  BY <1>2, <1>4, <1>5, <1>6

LEMMA SchedulerStarts == SchedulerInit => SchedulerInv
<1> SUFFICES ASSUME SchedulerInit PROVE SchedulerInv
  OBVIOUS
<1>1. Minute \in Nat \ {0} /\ LastInstant \in Nat /\ MaxDeaths \in Nat
  BY SchedulerAssumption
<1> DEFINE Starts == {[Sleeping EXCEPT !.until = start] : start \in 0..(Minute - 1)}
<1>2. \A x \in Starts : x \in ProcState /\ x.at = "sleep" /\ x.minute = 0
  <2>1. Sleeping \in ProcState /\ Sleeping.at = "sleep" /\ Sleeping.minute = 0
    BY DEF Sleeping, ProcState
  <2>2. QED
    BY <1>1, <2>1 DEF ProcState
<1>3. proc \in [Schedulers -> Starts]
  BY DEF SchedulerInit
<1> HIDE DEF Starts
<1>4. \A s \in Schedulers : proc[s] \in ProcState /\ proc[s].at = "sleep" /\ proc[s].minute = 0
  BY <1>2, <1>3
<1>5. proc \in [Schedulers -> ProcState]
  BY <1>2, <1>3
<1>6. SchedulerTypes
  BY <1>1, <1>5 DEF SchedulerInit, SchedulerTypes
<1>7. OnTime
  BY <1>4, MinutesPass DEF SchedulerInit, OnTime, ProcState
<1>8. LocksSince
  BY DEF SchedulerInit, LocksSince
<1>9. ASSUME NEW s \in Schedulers PROVE SeenTo(s)
  BY <1>4 DEF SchedulerInit, SeenTo, Seen, OwnMinute
<1>10. QED
  BY <1>6, <1>7, <1>8, <1>9 DEF SchedulerInv

(* The others see no less of the minutes, while runs are only added.         *)
LEMMA OthersSee ==
  ASSUME NEW s \in Schedulers, SeenTo(s), proc'[s] = proc[s], away'[s] = away[s],
         \A j \in Names, m \in Minutes : runs[j][m] > 0 => runs'[j][m] > 0
  PROVE  SeenTo(s)'
BY DEF SeenTo, Seen, Awaits, OwnMinute

LEMMA ClockPassesSafe ==
  ASSUME SchedulerInv, ClockPasses
  PROVE  SchedulerInv'
<1>1. /\ clock' = clock + 1 /\ clock < LastInstant /\ \A s \in Schedulers : proc[s].until > clock
      /\ UNCHANGED <<proc, lock, runs, away, deaths>>
  BY DEF ClockPasses
<1>2. clock \in Nat /\ \A s \in Schedulers : proc[s].until \in Nat /\ proc[s].minute \in Nat
  BY SchedulerAssumption DEF SchedulerInv, SchedulerTypes, ProcState
<1>3. SchedulerTypes'
  BY <1>1, SchedulerAssumption DEF SchedulerInv, SchedulerTypes
<1>4. ASSUME NEW s \in Schedulers
      PROVE  clock + 1 <= proc[s].until /\ proc[s].minute <= OwnMinute(s, clock + 1)
  <2>1. /\ OwnMinute(s, clock) \in Nat /\ OwnMinute(s, clock + 1) \in Nat
        /\ OwnMinute(s, clock) <= OwnMinute(s, clock + 1)
    BY <1>2, MinutesPass
  <2>2. proc[s].minute <= OwnMinute(s, clock)
    BY DEF SchedulerInv, OnTime
  <2>3. QED
    BY <1>1, <1>2, <2>1, <2>2
<1>5. OnTime'
  BY <1>1, <1>4 DEF OnTime, OwnMinute
<1>6. LocksSince'
  BY <1>1 DEF SchedulerInv, LocksSince
<1>7. \A s \in Schedulers : SeenTo(s)'
  BY <1>1, OthersSee DEF SchedulerInv
<1>8. QED
  BY <1>3, <1>5, <1>6, <1>7 DEF SchedulerInv

(* A step of one process that leaves the clock and the runs alone.           *)
LEMMA ProcessMoves ==
  ASSUME SchedulerInv, NEW s \in Schedulers, NEW next \in ProcState, NEW missed \in SUBSET Minutes,
         proc' = [proc EXCEPT ![s] = next], away' = [away EXCEPT ![s] = missed],
         UNCHANGED <<clock, lock, runs>>, deaths' \in 0..MaxDeaths,
         clock <= next.until, next.minute <= OwnMinute(s, clock), SeenTo(s)'
  PROVE  SchedulerInv'
<1>1. /\ proc' \in [Schedulers -> ProcState] /\ proc'[s] = next
      /\ away' \in [Schedulers -> SUBSET Minutes]
      /\ \A t \in Schedulers : t # s => proc'[t] = proc[t] /\ away'[t] = away[t]
  BY DEF SchedulerInv, SchedulerTypes
<1>2. SchedulerTypes'
  BY <1>1 DEF SchedulerInv, SchedulerTypes
<1>3. OnTime'
  BY <1>1 DEF SchedulerInv, OnTime, OwnMinute
<1>4. LocksSince'
  BY DEF SchedulerInv, LocksSince
<1>5. \A t \in Schedulers : SeenTo(t)'
  BY <1>1, OthersSee DEF SchedulerInv
<1>6. QED
  BY <1>2, <1>3, <1>4, <1>5 DEF SchedulerInv

LEMMA StartRoundSafe ==
  ASSUME SchedulerInv, NEW s \in Schedulers, StartRound(s)
  PROVE  SchedulerInv'
<1> DEFINE next == [at |-> "round", until |-> clock, minute |-> OwnMinute(s, clock), left |-> Jobs]
<1>1. /\ proc[s].at = "sleep" /\ proc[s].until <= clock /\ proc' = [proc EXCEPT ![s] = next]
      /\ UNCHANGED <<clock, lock, runs, away, deaths>>
  BY DEF StartRound, Ready
<1>2. /\ clock \in Nat /\ clock <= proc[s].until /\ proc[s].until \in Nat
      /\ proc \in [Schedulers -> ProcState] /\ away \in [Schedulers -> SUBSET Minutes]
      /\ deaths \in 0..MaxDeaths
  BY SchedulerAssumption DEF SchedulerInv, SchedulerTypes, OnTime, ProcState
<1>3. proc[s].until = clock /\ OwnMinute(s, clock) \in Nat
  <2>1. OwnMinute(s, clock) \in Nat
    BY <1>2, MinutesPass
  <2>2. QED
    BY <1>1, <1>2, <2>1
<1>4. next \in ProcState
  BY <1>2, <1>3, Registry DEF ProcState
<1>5. next.at = "round" /\ next.until = clock /\ next.minute = OwnMinute(s, clock) /\ next.left = Jobs
  OBVIOUS
<1> HIDE DEF next
<1>6. proc'[s] = next
  BY <1>1, <1>2
<1>7. \A j \in Names : Awaits(s, j)'
  BY <1>5, <1>6, Registry DEF Awaits
<1>8. \A j \in Names, m \in Minutes : m < OwnMinute(s, clock) => Seen(s, j, m)
  BY <1>1, <1>3 DEF SchedulerInv, SeenTo
<1>9. SeenTo(s)'
  BY <1>1, <1>5, <1>6, <1>7, <1>8 DEF SeenTo, Seen
<1>10. away' = [away EXCEPT ![s] = away[s]] /\ away[s] \in SUBSET Minutes
  BY <1>1, <1>2
<1>11. /\ deaths' \in 0..MaxDeaths /\ clock <= next.until /\ next.minute <= OwnMinute(s, clock)
       /\ UNCHANGED <<clock, lock, runs>>
  BY <1>1, <1>2, <1>3, <1>5
<1>12. QED
  BY <1>1, <1>4, <1>9, <1>10, <1>11, ProcessMoves

LEMMA SleepSafe ==
  ASSUME SchedulerInv, NEW s \in Schedulers, Sleep(s)
  PROVE  SchedulerInv'
<1> DEFINE next == [proc[s] EXCEPT !.at = "sleep", !.until = clock + Tick]
           missed == away[s] \cup {m \in Minutes : proc[s].minute < m /\ m <= OwnMinute(s, clock)}
<1>1. /\ proc[s].at = "round" /\ proc[s].left = << >>
      /\ proc' = [proc EXCEPT ![s] = next] /\ away' = [away EXCEPT ![s] = missed]
      /\ UNCHANGED <<clock, lock, runs, deaths>>
  BY DEF Sleep, Ready
<1>2. /\ clock \in Nat /\ proc[s] \in ProcState /\ proc[s].minute \in Nat
      /\ proc \in [Schedulers -> ProcState] /\ away \in [Schedulers -> SUBSET Minutes]
      /\ deaths \in 0..MaxDeaths /\ proc[s].minute <= OwnMinute(s, clock) /\ Tick \in Nat
  BY SchedulerAssumption DEF SchedulerInv, SchedulerTypes, OnTime, ProcState
<1>3. /\ next \in ProcState /\ next.at = "sleep" /\ next.until = clock + Tick
      /\ next.minute = proc[s].minute /\ missed \in SUBSET Minutes
  <2>1. PICK u : u = clock + Tick
    OBVIOUS
  <2>2. next = [proc[s] EXCEPT !.at = "sleep", !.until = u] /\ u \in Nat
    BY <1>2, <2>1
  <2>3. missed \in SUBSET Minutes
    BY <1>2
  <2> HIDE DEF next, missed
  <2>4. QED
    BY <1>2, <2>1, <2>2, <2>3 DEF ProcState
<1>4. /\ away[s] \subseteq missed
      /\ \A m \in Minutes : proc[s].minute < m /\ m <= OwnMinute(s, clock) => m \in missed
  OBVIOUS
<1> HIDE DEF next, missed
<1>5. proc'[s] = next /\ away'[s] = missed
  BY <1>1, <1>2
<1>6. /\ OwnMinute(s, clock) \in Nat /\ OwnMinute(s, clock + Tick) \in Nat
      /\ OwnMinute(s, clock + Tick) <= OwnMinute(s, clock) + 1
  BY <1>2, MinutesPass
<1>7. ASSUME NEW j \in Names, NEW m \in Minutes, m < OwnMinute(s, clock + Tick)
      PROVE  Seen(s, j, m)'
  <2>1. m \in Nat /\ m <= OwnMinute(s, clock)
    BY <1>6, <1>7 DEF Minutes
  <2>2. CASE proc[s].minute < m
    BY <1>4, <1>5, <2>1, <2>2 DEF Seen
  <2>3. CASE m <= proc[s].minute
    <3>1. m < proc[s].minute \/ (m = proc[s].minute /\ ~Awaits(s, j))
      BY <1>1, <1>2, <2>1, <2>3 DEF Awaits
    <3>2. Seen(s, j, m)
      BY <1>1, <3>1 DEF SchedulerInv, SeenTo
    <3>3. QED
      BY <1>1, <1>4, <1>5, <3>2 DEF Seen
  <2>4. QED
    BY <1>2, <2>1, <2>2, <2>3
<1>8. SeenTo(s)'
  BY <1>3, <1>5, <1>7 DEF SeenTo, OwnMinute
<1>9. clock <= next.until
  BY <1>2, <1>3
<1>10. QED
  BY <1>1, <1>2, <1>3, <1>8, <1>9, ProcessMoves

LEMMA SchedulerDiesSafe ==
  ASSUME SchedulerInv, NEW s \in Schedulers, SchedulerDies(s)
  PROVE  SchedulerInv'
<1> DEFINE next == [proc[s] EXCEPT !.at = "sleep", !.until = clock + 1, !.left = << >>]
           missed == away[s] \cup {m \in Minutes : proc[s].minute <= m /\ m < OwnMinute(s, clock + 1)}
<1>1. /\ deaths < MaxDeaths /\ deaths' = deaths + 1
      /\ proc' = [proc EXCEPT ![s] = next] /\ away' = [away EXCEPT ![s] = missed]
      /\ UNCHANGED <<clock, lock, runs>>
  BY DEF SchedulerDies
<1>2. /\ clock \in Nat /\ proc[s] \in ProcState /\ proc[s].minute \in Nat /\ proc[s].until \in Nat
      /\ proc \in [Schedulers -> ProcState] /\ away \in [Schedulers -> SUBSET Minutes]
      /\ deaths' \in 0..MaxDeaths /\ proc[s].minute <= OwnMinute(s, clock) /\ clock <= proc[s].until
  BY <1>1, SchedulerAssumption DEF SchedulerInv, SchedulerTypes, OnTime, ProcState
<1>3. /\ next \in ProcState /\ next.at = "sleep" /\ next.until = clock + 1
      /\ next.minute = proc[s].minute /\ missed \in SUBSET Minutes
  <2>1. PICK u, q : u = clock + 1 /\ q = << >>
    OBVIOUS
  <2>2. /\ next = [proc[s] EXCEPT !.at = "sleep", !.until = u, !.left = q]
        /\ u \in Nat /\ q \in Seq(Names)
    BY <1>2, <2>1
  <2>3. missed \in SUBSET Minutes
    BY <1>2
  <2> HIDE DEF next, missed
  <2>4. QED
    BY <1>2, <2>1, <2>2, <2>3 DEF ProcState
<1>4. /\ away[s] \subseteq missed
      /\ \A m \in Minutes : proc[s].minute <= m /\ m < OwnMinute(s, clock + 1) => m \in missed
  OBVIOUS
<1> HIDE DEF next, missed
<1>5. proc'[s] = next /\ away'[s] = missed
  BY <1>1, <1>2
<1>6. /\ OwnMinute(s, clock) \in Nat /\ OwnMinute(s, proc[s].until) \in Nat
      /\ OwnMinute(s, clock) <= OwnMinute(s, proc[s].until)
  BY <1>2, MinutesPass
<1>7. ASSUME NEW j \in Names, NEW m \in Minutes, m < OwnMinute(s, clock + 1)
      PROVE  Seen(s, j, m)'
  <2>1. m \in Nat
    BY DEF Minutes
  <2>2. CASE proc[s].minute <= m
    BY <1>4, <1>5, <1>7, <2>2 DEF Seen
  <2>3. CASE m < proc[s].minute
    <3>1. m < OwnMinute(s, proc[s].until)
      BY <1>2, <1>6, <2>1, <2>3
    <3>2. Seen(s, j, m)
      BY <1>2, <2>3, <3>1 DEF SchedulerInv, SeenTo, ProcState
    <3>3. QED
      BY <1>1, <1>4, <1>5, <3>2 DEF Seen
  <2>4. QED
    BY <1>2, <2>1, <2>2, <2>3
<1>8. SeenTo(s)'
  BY <1>3, <1>5, <1>7 DEF SeenTo, OwnMinute
<1>9. clock <= next.until
  BY <1>2, <1>3
<1>10. QED
  BY <1>1, <1>2, <1>3, <1>8, <1>9, ProcessMoves

(* One entry of a table of jobs and minutes is written, if it has the minute.*)
LEMMA Written ==
  ASSUME NEW f \in [Names -> [Minutes -> Nat]], NEW j \in Names, NEW m, NEW n \in Nat
  PROVE  /\ [f EXCEPT ![j][m] = n] \in [Names -> [Minutes -> Nat]]
         /\ [f EXCEPT ![j][m] = @ + 1] \in [Names -> [Minutes -> Nat]]
         /\ \A i \in Names, k \in Minutes :
              /\ [f EXCEPT ![j][m] = n][i][k] = IF i = j /\ k = m THEN n ELSE f[i][k]
              /\ [f EXCEPT ![j][m] = @ + 1][i][k] = IF i = j /\ k = m THEN f[i][k] + 1 ELSE f[i][k]
<1>1. f[j] \in [Minutes -> Nat]
  OBVIOUS
<1>2. /\ [f[j] EXCEPT ![m] = n] \in [Minutes -> Nat]
      /\ [f[j] EXCEPT ![m] = f[j][m] + 1] \in [Minutes -> Nat]
  <2>1. CASE m \in Minutes
    BY <1>1, <2>1
  <2>2. CASE m \notin Minutes  BY <1>1, <2>2
  <2>3. QED
    BY <2>1, <2>2
<1>3. /\ [f EXCEPT ![j][m] = n] = [f EXCEPT ![j] = [f[j] EXCEPT ![m] = n]]
      /\ [f EXCEPT ![j][m] = @ + 1] = [f EXCEPT ![j] = [f[j] EXCEPT ![m] = f[j][m] + 1]]
  OBVIOUS
<1>4. QED
  BY <1>1, <1>2, <1>3

(* What a step of a round does: one job less to reach, and at most one entry *)
(* of the locks and of the runs written, of a job whose lock was free.       *)
LEMMA RunJobDoes ==
  ASSUME SchedulerInv, NEW s \in Schedulers, RunJob(s)
  PROVE  \E job \in Names, next \in ProcState :
           /\ proc[s].at = "round" /\ UNCHANGED <<clock, away, deaths>>
           /\ proc' = [proc EXCEPT ![s] = next] /\ next.at = "round" /\ clock <= next.until
           /\ next.minute = proc[s].minute
           /\ \A j \in Names : Awaits(s, j) => j = job \/ \E i \in DOMAIN next.left : next.left[i] = j
           /\ \/ /\ proc[s].minute \in Due[job] => LockFreeAt(job, proc[s].minute) = FALSE
                 /\ UNCHANGED <<lock, runs>>
              \/ /\ LockFreeAt(job, proc[s].minute)
                 /\ lock' = [lock EXCEPT ![job][proc[s].minute] = clock + Ttl]
                 /\ runs' = [runs EXCEPT ![job][proc[s].minute] = @ + 1]
<1>1. /\ proc[s].at = "round" /\ proc[s].left # << >> /\ UNCHANGED <<clock, away, deaths>>
  BY DEF RunJob, Ready
<1>2. /\ clock \in Nat /\ proc[s] \in ProcState /\ proc[s].left \in Seq(Names)
      /\ clock <= proc[s].until /\ proc[s].until \in Nat
  BY SchedulerAssumption DEF SchedulerInv, SchedulerTypes, OnTime, ProcState
<1>3. PICK job, rest : job = Head(proc[s].left) /\ rest = Tail(proc[s].left)
  OBVIOUS
<1>4. /\ job \in Names /\ rest \in Seq(Names)
      /\ \A j : Awaits(s, j) => j = job \/ \E i \in DOMAIN rest : rest[i] = j
  <2>1. PICK q \in Seq(Names) : q = proc[s].left /\ q # << >>
    BY <1>1, <1>2
  <2>2. job = Head(q) /\ rest = Tail(q)
    BY <1>3, <2>1
  <2>3. /\ Len(q) \in Nat /\ Len(q) > 0 /\ job = q[1] /\ DOMAIN q = 1..Len(q)
        /\ rest \in Seq(Names) /\ DOMAIN rest = 1..Len(q) - 1
        /\ \A i \in 1..Len(q) - 1 : rest[i] = q[i + 1]
    BY <2>1, <2>2
  <2>4. ASSUME NEW i \in DOMAIN q PROVE i = 1 \/ (i - 1 \in DOMAIN rest /\ rest[i - 1] = q[i])
    BY <2>3, <2>4
  <2>5. job \in Names
    BY <2>1, <2>3
  <2>6. QED
    BY <2>1, <2>3, <2>4, <2>5 DEF Awaits
<1>5. CASE proc[s].minute \in Due[job] /\ LockFreeAt(job, proc[s].minute)
  <2>1. PICK d \in Durations[job] :
          proc' = [proc EXCEPT ![s].left = Tail(@), ![s].until = clock + d]
    BY <1>3, <1>5 DEF RunJob
  <2>2. d \in Nat
    BY <1>4, <2>1, SchedulerAssumption
  <2> DEFINE next == [[proc[s] EXCEPT !.left = rest] EXCEPT !.until = clock + d]
  <2>3. proc' = [proc EXCEPT ![s] = next]
    BY <1>2, <1>3, <2>1 DEF SchedulerInv, SchedulerTypes, ProcState
  <2>4. /\ next \in ProcState /\ next.at = "round" /\ next.left = rest /\ next.until = clock + d
        /\ next.minute = proc[s].minute
    <3>1. PICK u : u = clock + d
      OBVIOUS
    <3>2. next = [[proc[s] EXCEPT !.left = rest] EXCEPT !.until = u] /\ u \in Nat
      BY <1>2, <2>2, <3>1
    <3> HIDE DEF next
    <3>3. QED
      BY <1>1, <1>2, <1>4, <3>1, <3>2 DEF ProcState
  <2> HIDE DEF next
  <2>5. clock <= next.until
    BY <1>2, <2>2, <2>4
  <2>6. /\ lock' = [lock EXCEPT ![job][proc[s].minute] = clock + Ttl]
        /\ runs' = [runs EXCEPT ![job][proc[s].minute] = @ + 1]
    BY <1>3, <1>5 DEF RunJob
  <2>7. \A j \in Names : Awaits(s, j) => j = job \/ \E i \in DOMAIN next.left : next.left[i] = j
    BY <1>4, <2>4
  <2>8. job \in Names /\ LockFreeAt(job, proc[s].minute)
    BY <1>4, <1>5
  <2>9. QED
    BY <1>1, <2>3, <2>4, <2>5, <2>6, <2>7, <2>8
<1>6. CASE ~(proc[s].minute \in Due[job] /\ LockFreeAt(job, proc[s].minute))
  <2> DEFINE next == [proc[s] EXCEPT !.left = rest]
  <2>1. proc' = [proc EXCEPT ![s] = next] /\ UNCHANGED <<lock, runs>>
    BY <1>2, <1>3, <1>6 DEF RunJob, SchedulerInv, SchedulerTypes, ProcState
  <2>2. /\ next \in ProcState /\ next.at = "round" /\ next.left = rest
        /\ next.until = proc[s].until /\ next.minute = proc[s].minute
    BY <1>1, <1>2, <1>4 DEF ProcState
  <2> HIDE DEF next
  <2>3. proc[s].minute \in Due[job] => LockFreeAt(job, proc[s].minute) = FALSE
    BY <1>6 DEF LockFreeAt
  <2>4. \A j \in Names : Awaits(s, j) => j = job \/ \E i \in DOMAIN next.left : next.left[i] = j
    BY <1>4, <2>2
  <2>5. clock <= next.until /\ job \in Names
    BY <1>2, <1>4, <2>2
  <2>6. QED
    BY <1>1, <2>1, <2>2, <2>3, <2>4, <2>5
<1>7. QED
  BY <1>5, <1>6

LEMMA RunJobSafe ==
  ASSUME SchedulerInv, NEW s \in Schedulers, RunJob(s)
  PROVE  SchedulerInv'
<1>1. PICK job \in Names, next \in ProcState :
        /\ proc[s].at = "round" /\ UNCHANGED <<clock, away, deaths>>
        /\ proc' = [proc EXCEPT ![s] = next] /\ next.at = "round" /\ clock <= next.until
        /\ next.minute = proc[s].minute
        /\ \A j \in Names : Awaits(s, j) => j = job \/ \E i \in DOMAIN next.left : next.left[i] = j
        /\ \/ /\ proc[s].minute \in Due[job] => LockFreeAt(job, proc[s].minute) = FALSE
              /\ UNCHANGED <<lock, runs>>
           \/ /\ LockFreeAt(job, proc[s].minute)
              /\ lock' = [lock EXCEPT ![job][proc[s].minute] = clock + Ttl]
              /\ runs' = [runs EXCEPT ![job][proc[s].minute] = @ + 1]
  BY RunJobDoes
<1>2. PICK minute \in Nat : minute = proc[s].minute
  BY DEF SchedulerInv, SchedulerTypes, ProcState
<1>3. /\ clock \in Nat /\ Ttl \in Nat \ {0} /\ clock + Ttl \in Nat
      /\ lock \in [Names -> [Minutes -> Nat]] /\ runs \in [Names -> [Minutes -> Nat]]
      /\ minute * Minute <= clock + Ahead[s] /\ Ahead[s] \in Nat
  <2>1. clock \in Nat /\ Ttl \in Nat \ {0} /\ Ahead[s] \in Nat
    BY SchedulerAssumption DEF SchedulerInv, SchedulerTypes
  <2>2. minute <= OwnMinute(s, clock)
    BY <1>2 DEF SchedulerInv, OnTime
  <2>3. minute * Minute <= clock + Ahead[s]
    BY <2>1, <2>2, MinutesPass
  <2>4. QED
    BY <2>1, <2>3 DEF SchedulerInv, SchedulerTypes
<1>4. /\ lock' \in [Names -> [Minutes -> Nat]] /\ runs' \in [Names -> [Minutes -> Nat]]
      /\ \A j \in Names, m \in Minutes : runs[j][m] > 0 => runs'[j][m] > 0
      /\ \A j \in Names, m \in Minutes :
           \/ lock'[j][m] = lock[j][m] /\ runs'[j][m] = runs[j][m]
           \/ lock'[j][m] = clock + Ttl /\ runs'[j][m] > 0 /\ m = minute
  <2>1. CASE UNCHANGED <<lock, runs>>
    BY <1>3, <2>1
  <2>2. CASE /\ lock' = [lock EXCEPT ![job][minute] = clock + Ttl]
             /\ runs' = [runs EXCEPT ![job][minute] = @ + 1]
    <3>1. \A j \in Names, m \in Minutes : runs[j][m] \in Nat
      BY <1>3
    <3>2. /\ lock' \in [Names -> [Minutes -> Nat]]
          /\ \A j \in Names, m \in Minutes :
               lock'[j][m] = IF j = job /\ m = minute THEN clock + Ttl ELSE lock[j][m]
      <4>1. PICK x \in Nat : x = clock + Ttl
        BY <1>3
      <4>2. lock' = [lock EXCEPT ![job][minute] = x]
        BY <2>2, <4>1
      <4>3. QED
        BY <1>3, <4>1, <4>2, Written
    <3>3. /\ runs' \in [Names -> [Minutes -> Nat]]
          /\ \A j \in Names, m \in Minutes :
               runs'[j][m] = IF j = job /\ m = minute THEN runs[j][m] + 1 ELSE runs[j][m]
      <4>1. /\ [runs EXCEPT ![job][minute] = @ + 1] \in [Names -> [Minutes -> Nat]]
            /\ \A j \in Names, m \in Minutes :
                 [runs EXCEPT ![job][minute] = @ + 1][j][m]
                   = IF j = job /\ m = minute THEN runs[j][m] + 1 ELSE runs[j][m]
        BY <1>3, Written
      <4>2. QED
        BY <2>2, <4>1
    <3>4. QED
      BY <3>1, <3>2, <3>3
  <2>3. QED
    BY <1>1, <1>2, <2>1, <2>2
<1>5. /\ proc' \in [Schedulers -> ProcState] /\ proc'[s] = next
      /\ \A t \in Schedulers : t # s => proc'[t] = proc[t]
  BY <1>1 DEF SchedulerInv, SchedulerTypes
<1>6. SchedulerTypes'
  BY <1>1, <1>4, <1>5 DEF SchedulerInv, SchedulerTypes
<1>7. OnTime'
  BY <1>1, <1>5 DEF SchedulerInv, OnTime, OwnMinute
<1>8. LocksSince'
  <2> SUFFICES ASSUME NEW j \in Names, NEW m \in Minutes
               PROVE  /\ lock'[j][m] > 0 => runs'[j][m] > 0
                      /\ runs'[j][m] > 0 => \E t \in Schedulers : m * Minute + Ttl <= lock'[j][m] + Ahead[t]
    BY DEF LocksSince
  <2>1. CASE lock'[j][m] = lock[j][m] /\ runs'[j][m] = runs[j][m]
    BY <2>1 DEF SchedulerInv, LocksSince
  <2>2. CASE lock'[j][m] = clock + Ttl /\ runs'[j][m] > 0 /\ m = minute
    <3>1. minute * Minute \in Nat
      BY SchedulerAssumption, Products
    <3>2. m * Minute + Ttl <= lock'[j][m] + Ahead[s]
      BY <1>3, <2>2, <3>1
    <3>3. QED
      BY <2>2, <3>2
  <2>3. QED
    BY <1>4, <2>1, <2>2
<1>9. \A t \in Schedulers : t # s => SeenTo(t)'
  BY <1>1, <1>4, <1>5, OthersSee DEF SchedulerInv
<1>10. ASSUME NEW j \in Names, NEW m \in Minutes, m < minute \/ (m = minute /\ ~Awaits(s, j)')
       PROVE  Seen(s, j, m)'
  <2>1. CASE m < minute \/ ~Awaits(s, j)
    <3>1. Seen(s, j, m)
      BY <1>1, <1>2, <1>10, <2>1 DEF SchedulerInv, SeenTo
    <3>2. QED
      BY <1>1, <1>4, <3>1 DEF Seen
  <2>2. CASE m = minute /\ Awaits(s, j) /\ ~Awaits(s, j)'
    <3>1. j = job
      BY <1>1, <1>5, <2>2 DEF Awaits
    <3>2. CASE minute \in Due[job] /\ ~LockFreeAt(job, minute) /\ UNCHANGED <<lock, runs>>
      <4>1. lock[j][m] \in Nat /\ lock[j][m] > 0
        BY <1>3, <2>2, <3>1, <3>2 DEF LockFreeAt
      <4>2. runs[j][m] > 0
        BY <4>1 DEF SchedulerInv, LocksSince
      <4>3. QED
        BY <3>2, <4>2 DEF Seen
    <3>3. CASE minute \notin Due[job]
      BY <2>2, <3>1, <3>3 DEF Seen
    <3>4. CASE runs' = [runs EXCEPT ![job][minute] = @ + 1]
      <4>1. runs'[j][m] = runs[j][m] + 1 /\ runs[j][m] \in Nat
        BY <1>3, <2>2, <3>1, <3>4, Written
      <4>2. QED
        BY <4>1 DEF Seen
    <3>5. QED
      BY <1>1, <1>2, <3>2, <3>3, <3>4
  <2>3. QED
    BY <1>10, <2>1, <2>2
<1>11. SeenTo(s)'
  BY <1>1, <1>2, <1>5, <1>10 DEF SeenTo
<1>12. QED
  BY <1>6, <1>7, <1>8, <1>9, <1>11 DEF SchedulerInv

LEMMA SchedulerSteps == SchedulerInv /\ [SchedulerNext]_schedulerVars => SchedulerInv'
<1> SUFFICES ASSUME SchedulerInv, [SchedulerNext]_schedulerVars PROVE SchedulerInv'
  OBVIOUS
<1>1. CASE UNCHANGED schedulerVars
  BY <1>1 DEF schedulerVars, SchedulerInv, SchedulerTypes, OnTime, OwnMinute, LocksSince, SeenTo,
     Seen, Awaits
<1>2. QED
  BY <1>1, ClockPassesSafe, StartRoundSafe, RunJobSafe, SleepSafe, SchedulerDiesSafe
  DEF SchedulerNext

(* Only a job that is run adds to its runs, and only when its lock is free.  *)
LEMMA FiredOnce == SchedulerInv /\ [SchedulerNext]_schedulerVars => FiresOnce
<1> SUFFICES ASSUME SchedulerInv, [SchedulerNext]_schedulerVars, NEW j \in Names, NEW m \in Minutes,
                    runs[j][m] > 0, runs'[j][m] > runs[j][m]
             PROVE  \E s \in Schedulers : clock + Ahead[s] >= m * Minute + Ttl
  BY DEF FiresOnce
<1>1. runs' # runs
  BY DEF SchedulerInv, SchedulerTypes
<1>2. PICK s \in Schedulers : RunJob(s)
  BY <1>1 DEF SchedulerNext, schedulerVars, ClockPasses, StartRound, Sleep, SchedulerDies
<1>3. lock[j][m] <= clock
  <2>1. PICK job \in Names : /\ LockFreeAt(job, proc[s].minute)
                             /\ runs' = [runs EXCEPT ![job][proc[s].minute] = @ + 1]
    <3>1. \E job \in Names : \/ UNCHANGED <<lock, runs>>
                             \/ /\ LockFreeAt(job, proc[s].minute)
                                /\ lock' = [lock EXCEPT ![job][proc[s].minute] = clock + Ttl]
                                /\ runs' = [runs EXCEPT ![job][proc[s].minute] = @ + 1]
      BY <1>2, RunJobDoes
    <3>2. QED
      BY <1>1, <3>1
  <2>2. runs \in [Names -> [Minutes -> Nat]]
    BY DEF SchedulerInv, SchedulerTypes
  <2>3. runs'[j][m] = IF j = job /\ m = proc[s].minute THEN runs[j][m] + 1 ELSE runs[j][m]
    BY <2>1, <2>2, Written
  <2>4. j = job /\ m = proc[s].minute
    BY <2>2, <2>3
  <2>5. QED
    BY <2>1, <2>4 DEF LockFreeAt
<1>4. PICK t \in Schedulers : m * Minute + Ttl <= lock[j][m] + Ahead[t]
  BY DEF SchedulerInv, LocksSince
<1>5. /\ lock[j][m] \in Nat /\ clock \in Nat /\ Ahead[t] \in Nat /\ m * Minute + Ttl \in Nat
  <2>1. m \in Nat /\ Minute \in Nat \ {0} /\ Ttl \in Nat /\ Ahead[t] \in Nat
    BY SchedulerAssumption DEF Minutes
  <2>2. m * Minute \in Nat
    BY <2>1, Products
  <2>3. lock \in [Names -> [Minutes -> Nat]] /\ clock \in Nat
    BY SchedulerAssumption DEF SchedulerInv, SchedulerTypes
  <2>4. QED
    BY <2>1, <2>2, <2>3
<1>6. clock + Ahead[t] >= m * Minute + Ttl
  BY <1>3, <1>4, <1>5
<1>7. QED
  BY <1>6

LEMMA DueFired == SchedulerInv => DueJobsFire
<1> SUFFICES ASSUME SchedulerInv, NEW s \in Schedulers, NEW j \in Names, NEW m \in Minutes,
                    m \in Due[j], m \notin away[s], proc[s].at = "sleep",
                    (m + 1) * Minute <= clock + Ahead[s]
             PROVE  runs[j][m] > 0
  BY DEF DueJobsFire
<1>1. /\ clock \in Nat /\ proc[s].until \in Nat /\ clock <= proc[s].until /\ m \in Nat
  BY SchedulerAssumption DEF SchedulerInv, SchedulerTypes, OnTime, ProcState, Minutes
<1>2. m + 1 <= OwnMinute(s, clock)
  BY <1>1, MinutesPass
<1>3. /\ OwnMinute(s, clock) \in Nat /\ OwnMinute(s, proc[s].until) \in Nat
      /\ OwnMinute(s, clock) <= OwnMinute(s, proc[s].until)
  BY <1>1, MinutesPass
<1>4. m < OwnMinute(s, proc[s].until)
  BY <1>1, <1>2, <1>3
<1>5. QED
  BY <1>4 DEF SchedulerInv, SeenTo, Seen

(* A job is started again for a minute only when the lock of its first start *)
(* has run out (_acquire): whatever processes tick, lag, race or die, for    *)
(* rounds and locks of any length.                                           *)
THEOREM FiresAlwaysOnce == SchedulerSpec => [][FiresOnce]_schedulerVars
<1>1. QED
  BY SchedulerStarts, SchedulerSteps, FiredOnce, PTL DEF SchedulerSpec

(* No due minute is skipped but those a scheduler was down for or spent in   *)
(* the round of an earlier one (run_scheduler, run_due): for any registry,   *)
(* crons, durations, clocks and deaths, as long as the tick is not longer    *)
(* than a minute, which run_scheduler's is not.                              *)
THEOREM DueJobsAlwaysFire == SchedulerSpec => []DueJobsFire
<1>1. QED
  BY SchedulerStarts, SchedulerSteps, DueFired, PTL DEF SchedulerSpec

(***************************************************************************)
(* The plane                                                               *)
(***************************************************************************)

(* Whichever component moves, every other one stands still.                  *)
LEMMA PlaneMoves ==
  ASSUME [AgentPlaneNext]_AgentPlaneVars
  PROVE  /\ focus' = focus
         /\ [AutonomyNext]_autonomyVars /\ [CampaignNext]_campaignVars
         /\ [IngressNext]_ingressVars /\ [PacksNext]_packVars /\ [AuditNext]_auditVars
         /\ [IdentityNext]_identityVars /\ [MembershipNext]_memberVars
         /\ [SchedulerNext]_schedulerVars /\ [RoutingNext]_routingVars
         /\ [DiagnosisNext]_diagnosisVars
<1>1. CASE UNCHANGED AgentPlaneVars
  BY <1>1 DEF AgentPlaneVars, planeVars
<1>2. CASE Alone("mediation") /\ MediationNext
           /\ UNCHANGED <<campaignVars, ingressVars, packVars, auditVars, identityVars,
                          memberVars, schedulerVars, routingVars, diagnosisVars>>
  BY <1>2, MediationTurnsKnob DEF Alone
<1>3. QED
  BY <1>1, <1>2 DEF AgentPlaneNext, Alone

(* So each component lives in the plane as it does by itself.                *)
LEMMA PlaneRuns ==
  AgentPlaneSpec => /\ CampaignSpec /\ IngressSpec /\ PacksSpec /\ AuditSpec
                    /\ IdentitySpec /\ MembershipSpec /\ SchedulerSpec
<1>1. AgentPlaneInit => /\ CampaignInit /\ IngressInit /\ PacksInit /\ AuditInit
                        /\ IdentityInit /\ MembershipInit /\ SchedulerInit
  BY DEF AgentPlaneInit, PlaneAtRest
<1>2. [AgentPlaneNext]_AgentPlaneVars =>
        /\ [CampaignNext]_campaignVars /\ [IngressNext]_ingressVars /\ [PacksNext]_packVars
        /\ [AuditNext]_auditVars /\ [IdentityNext]_identityVars
        /\ [MembershipNext]_memberVars /\ [SchedulerNext]_schedulerVars
  BY PlaneMoves
<1>3. QED
  BY <1>1, <1>2, PTL DEF AgentPlaneSpec, CampaignSpec, IngressSpec, PacksSpec, AuditSpec,
     IdentitySpec, MembershipSpec, SchedulerSpec

(* The proxy's invariant speaks of the owner's knob, which the autonomy      *)
(* component turns too, without the calls under way: it is kept where the    *)
(* proxy is what moves.                                                      *)
BoundsInv ==
  AutonomyInv /\ RoutingInv /\ DiagnosisInv /\ (focus = "mediation" => MediationInv)

LEMMA BoundsStart == AgentPlaneInit => BoundsInv
BY AutonomyStarts, RoutingStarts, DiagnosisStarts, MediationStarts DEF AgentPlaneInit, PlaneAtRest, BoundsInv

LEMMA BoundsStep == BoundsInv /\ [AgentPlaneNext]_AgentPlaneVars => BoundsInv'
<1> SUFFICES ASSUME BoundsInv, [AgentPlaneNext]_AgentPlaneVars PROVE BoundsInv'
  OBVIOUS
<1>1. AutonomyInv' /\ RoutingInv' /\ DiagnosisInv' /\ focus' = focus
  BY PlaneMoves, AutonomySteps, RoutingSteps, DiagnosisSteps DEF BoundsInv
<1>2. ASSUME focus = "mediation" PROVE MediationInv'
  <2>1. MediationInv /\ AutonomyInv
    BY <1>2 DEF BoundsInv
  <2>2. CASE MediationNext
    BY <2>1, <2>2, MediationSteps
  <2>3. CASE UNCHANGED AgentPlaneVars
    BY <2>1, <2>3 DEF AgentPlaneVars, planeVars, autonomyVars, mediationVars, MediationInv,
       MediationTypes, GatesHeld, PassedSoundly, Standing, SlotsCounted, Slotted
  <2>4. QED
    BY <1>2, <2>2, <2>3 DEF AgentPlaneNext, Alone
<1>3. QED
  BY <1>1, <1>2 DEF BoundsInv

(* An agent stays in its bounds (evaluate_tool, trust.settle, proxy.call,    *)
(* parse_diagnosis, resolve_principal): for any rules of tiers 0 to 4,       *)
(* number of approvals, of calls in the chain at once, limits, and order of  *)
(* settings, incidents and regrants, and for any reasons and confidences a   *)
(* model states.                                                             *)
THEOREM AgentsAlwaysInBounds == AgentPlaneSpec => []AgentsStayInBounds
<1>1. BoundsInv => AgentsStayInBounds
  BY AutonomyInvShows, MediationInvShows, DiagnosisInvShows DEF BoundsInv, AgentsStayInBounds
<1>2. QED
  BY <1>1, BoundsStart, BoundsStep, PTL DEF AgentPlaneSpec

(* Webhooks are ingested once, answered or reported, an answer is backed by  *)
(* the rows of its attempts, and a broadcast copies itself no more than its  *)
(* races account for (normalize_pending, RoutingModel.turn,                  *)
(* process_campaign_batch): for any webhooks, workers, routes, batches and   *)
(* crashes.                                                                  *)
THEOREM MessagesAlwaysAccounted == AgentPlaneSpec => []MessagesAccounted
<1>1. CampaignTypeOK /\ CopiesBounded /\ RejectedSendsNothing
      /\ IngressTypeOK /\ IngestedOnce /\ OneOpenConversation
      /\ ConfirmationsAccounted /\ QuarantineAlerted
      /\ RoutingTypeOK /\ RoutesAnswerable => MessagesAccounted
  BY DEF MessagesAccounted
<1>2. BoundsInv => RoutingTypeOK /\ RoutesAnswerable
  BY RoutingInvShows DEF BoundsInv
<1>3. QED
  BY <1>1, <1>2, BoundsStart, BoundsStep, PlaneRuns, CampaignsAlwaysBounded,
     IngressAlwaysOnce, PTL DEF AgentPlaneSpec

(* A store holds together (install, audit.write, refresh_session,            *)
(* check_seat): for any packs and installers, writers and settings, sessions *)
(* and tokens, people and invitations, and any faults between the steps.     *)
THEOREM StoreAlwaysHolds == AgentPlaneSpec => []StoreHoldsTogether
<1>1. PacksTypeOK /\ InstallAllOrNothing /\ UninstalledIsPaused
      /\ AuditTypeOK /\ ChainIntact /\ AppendsNeverCollide /\ DiffsAreTrue
      /\ IdentityTypeOK /\ OneSuccessor /\ AttemptsBounded
      /\ MembershipTypeOK /\ SeatOverrunBounded => StoreHoldsTogether
  BY DEF StoreHoldsTogether
<1>2. QED
  BY <1>1, PlaneRuns, PacksAlwaysWhole, AuditAlwaysTrue, SignInAlwaysSound,
     SeatsAlwaysCounted, PTL

(* Every due job fires for its minute but where the scheduler was away, and  *)
(* again only when its lock has run out (run_scheduler, _acquire): for any    *)
(* registry, crons, durations, clocks and deaths.                            *)
THEOREM JobsAlwaysFireOnce == AgentPlaneSpec => JobsFireOnce
<1>1. AgentPlaneSpec => []SchedulerInv
  <2>1. SchedulerSpec => []SchedulerInv
    BY SchedulerStarts, SchedulerSteps, PTL DEF SchedulerSpec
  <2>2. QED
    BY <2>1, PlaneRuns, PTL
<1>2. SchedulerInv /\ [AgentPlaneNext]_AgentPlaneVars =>
        [focus = "scheduler" => FiresOnce /\ DueJobsFire]_AgentPlaneVars
  BY PlaneMoves, FiredOnce, DueFired
<1>3. QED
  BY <1>1, <1>2, PTL DEF AgentPlaneSpec, JobsFireOnce

(* No step sets an ended broadcast going again, revives a revoked session or *)
(* changes a member's role (process_campaign_batch, refresh_session,         *)
(* accept_invite).                                                           *)
THEOREM EndedAlwaysStaysEnded == AgentPlaneSpec => EndedStaysEnded
<1>1. AgentPlaneSpec => [](CampaignInv /\ IdentityInv /\ MembershipInv)
  <2>1. CampaignSpec => []CampaignInv
    BY CampaignStarts, CampaignSteps, PTL DEF CampaignSpec
  <2>2. IdentitySpec => []IdentityInv
    BY IdentityStarts, IdentitySteps, PTL DEF IdentitySpec
  <2>3. MembershipSpec => []MembershipInv
    BY MembershipStarts, MembershipSteps, PTL DEF MembershipSpec
  <2>4. QED
    BY <2>1, <2>2, <2>3, PlaneRuns, PTL
<1>2. CampaignInv /\ IdentityInv /\ MembershipInv /\ [AgentPlaneNext]_AgentPlaneVars =>
        [/\ focus = "campaigns" => EndedNeverRestarts
         /\ focus = "identity" => RevokedStaysDead
         /\ focus = "membership" => RolesStay]_AgentPlaneVars
  BY PlaneMoves, EndedStays, RevokedStays, RolesKept
<1>3. QED
  BY <1>1, <1>2, PTL DEF AgentPlaneSpec, EndedStaysEnded

=============================================================================
