----------------------------- MODULE Diagnosis ------------------------------
(* The silent-lead playbook's two agent steps (src/core/workflows             *)
(* diagnose_step.py and tool_step.py, src/core/runtime/diagnosis.py): a model *)
(* ranks the reasons a customer went quiet, and after the owner's gate a tool *)
(* acts under the authority the run's own workflow grants.  What that         *)
(* authority rests on is read in separate transactions while it changes.      *)
EXTENDS Integers, Sequences

CONSTANTS
  Reasons,        \* the reasons the installed pack declares
  StatedReasons,  \* the reasons a model may state
  Confidences,    \* the confidences it may state, in tenths
  Threshold,      \* the threshold of parse_diagnosis, in tenths
  MaxShifts       \* bound: changes of what the steps rest on

ASSUME DiagnosisAssumption ==
  Confidences \subseteq Int /\ Threshold \in Int /\ MaxShifts \in Nat

VARIABLES
  origin,     \* workflow_definitions.origin of the run
  backing,    \* what the steps rest on, each true or false
  said,       \* the model's answer
  bound,      \* what the playbook binds under `diagnose`
  play,       \* where the run is, and the refusals that stood throughout its step
  shifts      \* changes so far

diagnosisVars == <<origin, backing, said, bound, play, shifts>>

NaN == 99               \* float("nan"): every comparison with it is false
One == 10
Backing == {"instance", "taxonomy", "layer", "resolvable", "manifest", "entitled", "executable"}
Unbound == [abstain |-> TRUE, top |-> "unbound", offered |-> {}]
Nothing == [entries |-> <<>>, abstain |-> FALSE]
Entries == [reason : StatedReasons, confidence : Confidences]
Stated == {<<e>> : e \in Entries} \cup {<<e, f>> : e \in Entries, f \in Entries}

DiagnosisInit ==
  /\ origin \in {"pack", "tenant"}
  /\ backing = [b \in Backing |-> TRUE]
  /\ said = Nothing /\ bound = Unbound
  /\ play = [at |-> "agent", standing |-> {}, acted |-> FALSE] /\ shifts = 0

-----------------------------------------------------------------------------
(* parse_diagnosis                                                           *)

(* max(0.0, min(1.0, c)): min keeps its first argument against a NaN         *)
Clamp(c) == IF c = NaN \/ c > One THEN One ELSE IF c < 0 THEN 0 ELSE c

(* Mutant: a reason the pack does not declare is kept.                       *)
RankedAny(entries) == DOMAIN entries
(* the entries that are kept, by their positions                             *)
Ranked(entries) == {i \in DOMAIN entries : entries[i].reason \in Reasons}

(* the sort is stable: of equals the first stated                            *)
Best(entries) ==
  entries[CHOOSE i \in Ranked(entries) :
    /\ \A j \in Ranked(entries) : Clamp(entries[j].confidence) <= Clamp(entries[i].confidence)
    /\ \A j \in Ranked(entries) :
         j < i => Clamp(entries[j].confidence) < Clamp(entries[i].confidence)]

ParseDiagnosis(answer) ==
  LET entries == answer.entries
      shown == {entries[i].reason : i \in Ranked(entries)}
  IN  IF Ranked(entries) = {} \/ answer.abstain \/ Clamp(Best(entries).confidence) < Threshold
      THEN [abstain |-> TRUE, top |-> "abstain", offered |-> shown]
      ELSE [abstain |-> FALSE, top |-> Best(entries).reason, offered |-> shown]

-----------------------------------------------------------------------------
(* A plan, an installation or an agent changes: the refusals that have stood *)
(* since the step began shrink                                               *)
Refusing == {b \in Backing : ~backing[b]}
Shift(b) ==
  /\ play.at \notin {"done", "failed"} /\ shifts < MaxShifts
  /\ backing' = [backing EXCEPT ![b] = ~@]
  /\ play' = [play EXCEPT !.standing = @ \ {b}]
  /\ shifts' = shifts + 1 /\ UNCHANGED <<origin, said, bound>>

StepAt(point, needs, next) ==
  /\ play.at = point
  /\ play' = [play EXCEPT !.at = IF needs THEN next ELSE "failed"]
  /\ UNCHANGED <<origin, backing, said, bound, shifts>>

(* _default_agent_runner: no active instance skips the diagnosis, and the    *)
(* journey goes on with nothing bound                                        *)
FindDiagnoser ==
  /\ play.at = "agent"
  /\ play' = [play EXCEPT !.at = IF backing.instance THEN "taxonomy" ELSE "gate",
                          !.standing = Refusing]
  /\ UNCHANGED <<origin, backing, said, bound, shifts>>

LoadTaxonomy == StepAt("taxonomy", backing.taxonomy, "layer")
PromptLayer  == StepAt("layer", backing.layer, "answer")

(* complete, then parse_diagnosis; a provider that fails, and an answer that *)
(* is no JSON, are parsed as an empty one                                    *)
Diagnose ==
  /\ play.at = "answer"
  /\ \E entries \in Stated \cup {<<>>}, a \in BOOLEAN :
       said' = [entries |-> entries, abstain |-> a]
  /\ bound' = ParseDiagnosis(said')
  /\ play' = [play EXCEPT !.at = "gate"]
  /\ UNCHANGED <<origin, backing, shifts>>

(* the human task, modelled in WorkflowEngine: approved or rejected          *)
OwnerGate ==
  /\ play.at = "gate"
  /\ play' \in {[play EXCEPT !.at = "inputs", !.standing = Refusing],
                [play EXCEPT !.at = "done"]}
  /\ UNCHANGED <<origin, backing, said, bound, shifts>>

(* resolve_inputs, resolve_principal and its two authority checks            *)
ResolveInputs == StepAt("inputs", backing.resolvable, "principal")
(* Mutant: the workflow's origin is not looked at. *)
TrustsAny == TRUE
Trusts == origin = "pack"
ResolvePrincipal ==
  StepAt("principal", Trusts /\ backing.instance /\ backing.manifest, "authority")
Entitle == StepAt("authority", backing.entitled /\ backing.executable, "effect")

(* proxy.call, modelled in Mediation                                         *)
Act ==
  /\ play.at = "effect"
  /\ play' = [play EXCEPT !.at = "done", !.acted = TRUE]
  /\ UNCHANGED <<origin, backing, said, bound, shifts>>

DiagnosisNext ==
  \/ \E b \in Backing : Shift(b)
  \/ FindDiagnoser \/ LoadTaxonomy \/ PromptLayer \/ Diagnose \/ OwnerGate
  \/ ResolveInputs \/ ResolvePrincipal \/ Entitle \/ Act

DiagnosisSpec == DiagnosisInit /\ [][DiagnosisNext]_diagnosisVars

-----------------------------------------------------------------------------
(* Every variable has its type (diagnose_step.py, tool_step.py).             *)
DiagnosisTypeOK ==
  /\ origin \in {"pack", "tenant"} /\ backing \in [Backing -> BOOLEAN]
  /\ said.entries = <<>> \/ said.entries \in Stated
  /\ bound.abstain \in BOOLEAN /\ bound.offered \subseteq Reasons
  /\ bound.top \in Reasons \cup {"abstain", "unbound"}
  /\ play.standing \subseteq Backing /\ play.acted \in BOOLEAN
  /\ shifts \in 0..MaxShifts

(* What an owner is shown was both declared by the pack and stated by the    *)
(* model, and a recommendation was the best stated, at or over the threshold *)
(* after clamping, by a model that did not abstain (parse_diagnosis).        *)
DiagnosisGrounded ==
  LET shown == {i \in DOMAIN said.entries : said.entries[i].reason \in Reasons} IN
  /\ bound.offered \subseteq {said.entries[i].reason : i \in shown}
  /\ ~bound.abstain =>
       /\ ~said.abstain
       /\ \E i \in shown :
            /\ said.entries[i].reason = bound.top
            /\ Clamp(said.entries[i].confidence) >= Threshold
            /\ \A j \in shown : Clamp(said.entries[j].confidence)
                                  <= Clamp(said.entries[i].confidence)

(* The tool acts for a certified pack workflow only, and never past a        *)
(* refusal that has stood since its step began (resolve_principal).          *)
ActsWithAuthority ==
  play.acted \/ play.at = "effect" =>
    /\ origin = "pack"
    /\ play.standing \cap {"instance", "manifest", "entitled", "executable", "resolvable"} = {}

(* diagnosis.py:90 says a confidence that is not a number abstains.          *)
NotANumberAbstains ==
  ~bound.abstain => \E i \in DOMAIN said.entries :
                      /\ said.entries[i].reason = bound.top
                      /\ said.entries[i].confidence # NaN
=============================================================================
