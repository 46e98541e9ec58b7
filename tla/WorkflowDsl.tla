---------------------------- MODULE WorkflowDsl ----------------------------
(* The workflow language: sugar, grammar, guards, the owner's guardrails, the  *)
(* compiler to a linear program and the dry run over recorded events           *)
(* (workflows/parser.py, schema.py, guards.py, authoring.py, program.py,       *)
(* simulate.py, triggers.py).  A step is a record with its verb; `as` is the   *)
(* name its output is bound to; the condition of a branch case is only well    *)
(* formed or not, and any case may be the one that holds.                      *)
EXTENDS Integers, Sequences, FiniteSets

CONSTANTS
  Texts,          \* the definitions somebody may submit
  Recorded        \* the events of the outbox: their type, and what the trigger's
                  \* condition and each guard make of them

VARIABLES
  dsl,            \* the submitted definition, and who submits it
  parsed,         \* what parse returned, or Unparsed
  program         \* what the executor compiles of it

dslVars == <<dsl, parsed, program>>

StepTypes == {"agent_task", "human_task", "tool_call", "wait", "branch", "emit", "set", "loop"}
SugarAgent == {"diagnose", "classify_ghost", "compose"}
GuardNames == {"consent_valid", "not_suppressed", "within_send_window", "touch_cap",
               "budget_ok", "flag_on", "tier_max"}
MandatedGuards == {"not_suppressed"}
LiveEvent == "lead.went_silent.v1"
BareEvent == "lead.went_silent"

Unparsed == [ok |-> FALSE, why |-> "unparsed"]

(* The bodies a step holds: the cases of a branch and then its default, or the *)
(* body of a loop.                                                             *)
Bodies(step) ==
  CASE step.verb = "branch" ->
         [i \in 1 .. Len(step.cases) |-> step.cases[i].steps] \o <<step.default>>
    [] step.verb = "loop" -> <<step.steps>>
    [] OTHER -> << >>

RECURSIVE Walked(_)
Walked(steps) ==
  UNION {{steps[i]} \cup UNION {Walked(body) : body \in {Bodies(steps[i])[k] : k \in DOMAIN Bodies(steps[i])}}
         : i \in DOMAIN steps}

RECURSIVE Desugar(_)

Desugar(steps) ==
  [i \in DOMAIN steps |->
     LET s == steps[i]
     IN  CASE s.verb \in SugarAgent -> [verb |-> "agent_task", as |-> IF s.as = "" THEN s.verb ELSE s.as]
           [] s.verb = "approval_gate" -> [verb |-> "human_task", as |-> ""]
           [] s.verb = "branch" ->
                [s EXCEPT !.cases = [k \in DOMAIN @ |-> [@[k] EXCEPT !.steps = Desugar(@)]],
                          !.default = Desugar(@)]
           [] s.verb = "loop" -> [s EXCEPT !.steps = Desugar(@)]
           [] OTHER -> s]

FitsGrammar(d) ==
  /\ d.steps # << >>
  /\ \A s \in Walked(d.steps) \cup Walked(d.comp) : s.verb \in StepTypes

ConditionsCompileOuter(steps) ==
  \A i \in DOMAIN steps :
     steps[i].verb = "branch" => \A k \in DOMAIN steps[i].cases : steps[i].cases[k].sound

(* Conditions are compiled in the steps, not in the compensation block.        *)
ConditionsCompile(steps) ==
  \A s \in Walked(steps) : s.verb = "branch" => \A k \in DOMAIN s.cases : s.cases[k].sound

InjectIfNone(declared, mandated) == IF declared = {} THEN mandated ELSE declared

(* the mandated guards whose name is absent                                    *)
InjectGuards(declared, mandated) == declared \cup mandated

HasEmitInCases(steps) ==
  \E i \in DOMAIN steps :
     LET s == steps[i]
     IN  \/ s.verb = "emit"
         \/ s.verb = "branch" /\ \E k \in DOMAIN s.cases :
              \E j \in DOMAIN s.cases[k].steps : s.cases[k].steps[j].verb = "emit"

RECURSIVE HasEmit(_)
HasEmit(steps) ==
  \E i \in DOMAIN steps :
     LET s == steps[i]
     IN  \/ s.verb = "emit"
         \/ s.verb = "branch" /\ \E k \in DOMAIN s.cases : HasEmit(s.cases[k].steps)
         \/ s.verb = "branch" /\ HasEmit(s.default)
         \/ s.verb = "loop" /\ HasEmit(s.steps)

Refused(why) == [ok |-> FALSE, why |-> why]

(* parse: sugar, grammar, guards, conditions, in that order.                   *)
ParseDsl(d, mandated) ==
  LET plain == [d EXCEPT !.steps = Desugar(@), !.comp = Desugar(@)]
  IN  CASE ~FitsGrammar(plain) -> Refused("schema")
        [] ~(d.guards \subseteq GuardNames) -> Refused("guard")
        [] ~ConditionsCompile(plain.steps) -> Refused("condition")
        [] OTHER -> [ok |-> TRUE, steps |-> plain.steps, comp |-> plain.comp,
                     guards |-> InjectGuards(d.guards, mandated), trigger |-> d.trigger]

ValidateOwnerDsl(d) ==
  LET p == ParseDsl(d, MandatedGuards)
  IN  IF p.ok /\ (HasEmit(d.steps) \/ HasEmit(d.comp)) THEN Refused("emit") ELSE p

--------------------------------------------------------------------------
(* The compiler.  pc is the place of the first instruction; a JUMP is patched  *)
(* once the end of its branch is known.                                        *)

OpOf == [agent_task |-> "AGENT", human_task |-> "HUMAN", tool_call |-> "TOOL",
         wait |-> "WAIT", emit |-> "EMIT", set |-> "SET"]

Instruction(step) == [op |-> OpOf[step.verb], as |-> step.as]

RECURSIVE EmitCode(_, _)
EmitCode(steps, pc) ==
  IF steps = << >> THEN << >>
  ELSE LET s == Head(steps)
           bodies == Bodies(s)
           at[i \in 1 .. Len(bodies) + 1] ==
             IF i = 1 THEN pc + 1 ELSE at[i - 1] + Len(EmitCode(bodies[i - 1], 0)) + 1
           end == at[Len(bodies) + 1]
           blocks[i \in 0 .. Len(bodies)] ==
             IF i = 0 THEN << >>
             ELSE blocks[i - 1] \o EmitCode(bodies[i], at[i]) \o <<[op |-> "JUMP", target |-> end]>>
           code == CASE s.verb = "branch" ->
                          <<[op |-> "BRANCH", cases |-> [k \in DOMAIN s.cases |-> at[k]],
                             default |-> at[Len(bodies)]]>> \o blocks[Len(bodies)]
                     [] s.verb = "loop" -> <<[op |-> "NOOP"]>>
                     [] OTHER -> <<Instruction(s)>>
       IN  code \o EmitCode(Tail(steps), pc + Len(code))

(* targets counted from one too far                                            *)
CompileShifted(steps) == EmitCode(steps, 2) \o <<[op |-> "END"]>>

CompileSteps(steps) == EmitCode(steps, 1) \o <<[op |-> "END"]>>

(* What the executor can do from pc: a branch takes the case that holds.       *)
RECURSIVE Paths(_, _)
Paths(code, pc) ==
  CASE pc \notin DOMAIN code -> {<<"outside">>}
    [] code[pc].op = "END" -> {<< >>}
    [] code[pc].op = "JUMP" -> Paths(code, code[pc].target)
    [] code[pc].op = "NOOP" -> Paths(code, pc + 1)
    [] code[pc].op = "BRANCH" ->
         UNION {Paths(code, t) : t \in {code[pc].cases[k] : k \in DOMAIN code[pc].cases}
                                        \cup {code[pc].default}}
    [] OTHER -> {<<code[pc]>> \o rest : rest \in Paths(code, pc + 1)}

(* What the author wrote: a verb of the sugar means its generic step, a loop   *)
(* is not run yet.                                                             *)
Meaning(step) ==
  CASE step.verb \in SugarAgent -> [op |-> "AGENT", as |-> IF step.as = "" THEN step.verb ELSE step.as]
    [] step.verb = "approval_gate" -> [op |-> "HUMAN", as |-> ""]
    [] OTHER -> Instruction(step)

RECURSIVE Readings(_)
Readings(steps) ==
  IF steps = << >> THEN {<< >>}
  ELSE LET s == Head(steps)
           first == CASE s.verb = "branch" -> UNION {Readings(Bodies(s)[k]) : k \in DOMAIN Bodies(s)}
                      [] s.verb = "loop" -> {<< >>}
                      [] OTHER -> {<<Meaning(s)>>}
       IN  {a \o b : a \in first, b \in Readings(Tail(steps))}

--------------------------------------------------------------------------
(* The dry run, and what the live router does with the same event.             *)

Agents(code) == Cardinality({i \in DOMAIN code : code[i].op = "AGENT"})

Blocked(p, event) == \E g \in p.guards : g \notin event.passes

OfTriggerBare(type) == {type} \ {LiveEvent}

(* the type as the trigger names it, or its first version                      *)
OfTrigger(type) == IF type = BareEvent THEN {BareEvent, LiveEvent} ELSE {type}

WouldHaveFired(p) ==
  {e \in Recorded : e.type \in OfTrigger(p.trigger) /\ e.holds /\ ~Blocked(p, e)}

EstimatedAgents(p, code) == Cardinality(WouldHaveFired(p)) * Agents(code)

MatchAndStart(p) == {e \in Recorded : e.type = LiveEvent /\ p.trigger = LiveEvent /\ e.holds /\ ~Blocked(p, e)}

--------------------------------------------------------------------------
DslInit ==
  /\ dsl \in [text : Texts, by : {"owner", "pack"}]
  /\ parsed = Unparsed
  /\ program = << >>

ParseText ==
  /\ parsed = Unparsed
  /\ parsed' = IF dsl.by = "owner" THEN ValidateOwnerDsl(dsl.text) ELSE ParseDsl(dsl.text, {})
  /\ UNCHANGED <<dsl, program>>

CompileText ==
  /\ parsed.ok
  /\ program = << >>
  /\ program' = CompileSteps(parsed.steps)
  /\ UNCHANGED <<dsl, parsed>>

DslNext == ParseText \/ CompileText

DslSpec == DslInit /\ [][DslNext]_dslVars

--------------------------------------------------------------------------
DslTypeOK ==
  /\ dsl.by \in {"owner", "pack"}
  /\ parsed.ok => parsed.guards \subseteq GuardNames /\ parsed.steps # << >>
  /\ \A i \in DOMAIN program : program[i].op \in {"AGENT", "HUMAN", "TOOL", "WAIT", "EMIT", "SET",
                                                 "BRANCH", "JUMP", "NOOP", "END"}

(* The compiled program does exactly what the author wrote: its runs are the   *)
(* readings of the text, whatever is nested in what (compile_program drops a   *)
(* verb it does not know, and jumps by absolute places).                       *)
ProgramFollowsText ==
  program # << >> => Paths(program, 1) = Readings(dsl.text.steps)

(* No definition of an owner makes a platform event, in its steps or when it   *)
(* is compensated, at any depth.                                               *)
OwnersCannotEmit ==
  parsed.ok /\ dsl.by = "owner" =>
     \A code \in {CompileSteps(parsed.steps), CompileSteps(parsed.comp)} :
        \A i \in DOMAIN code : code[i].op # "EMIT"

(* An owner's definition keeps the guards it declared and has the mandated     *)
(* ones (inject_mandated_guards).                                              *)
MandatedGuardsHold ==
  parsed.ok /\ dsl.by = "owner" =>
     dsl.text.guards \cup MandatedGuards \subseteq parsed.guards

(* A malformed condition is refused before the definition is stored, unless it *)
(* stands in the compensation block, which parse does not visit.               *)
BadConditionsOnlyInCompensation ==
  parsed.ok => \A s \in Walked(parsed.steps) \cup Walked(parsed.comp) :
     s.verb = "branch" /\ (\E k \in DOMAIN s.cases : ~s.cases[k].sound) => s \in Walked(parsed.comp)

(* Every recorded event that would start a live run is one the simulation      *)
(* reports, and no run calls more agents than the cost estimate charges.       *)
SimulationCoversLive ==
  program # << >> =>
     /\ MatchAndStart(parsed) \subseteq WouldHaveFired(parsed)
     /\ \A path \in Paths(program, 1) :
          Len(SelectSeq(path, LAMBDA ins : ins.op = "AGENT")) <= Agents(program)

=============================================================================
