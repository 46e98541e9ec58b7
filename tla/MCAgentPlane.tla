---------------------------- MODULE MCAgentPlane ----------------------------
(* The agent plane on a small instance, with the workflow language and its     *)
(* authoring as two more components that move alone.                           *)
EXTENDS AgentPlane, Authoring, TLC

CONSTANT d2

MCRules ==
  LET rule(scope, action, tier, guard) ==
        [scope |-> scope, action |-> action, tier |-> tier, guard |-> guard]
  IN  {rule("pack", "action.message.send", 1, "true"), rule("pack", "web.fetch", 1, "true"),
       rule("pack", "action.quote.send", 3, "true"), rule("pack", "action.quote.send", 1, "broken"),
       rule("tenant", "action.message.send", 1, "true")}

(* two posts repeat a wamid with media, the second asks to stop for two        *)
(* customers, and a third is malformed                                         *)
MCContent ==
  1 :> <<[wamid |-> "w1", from |-> "s1", kind |-> "stop"], [wamid |-> "w2", from |-> "s2", kind |-> "media"]>>
  @@ 2 :> <<[wamid |-> "w2", from |-> "s2", kind |-> "media"], [wamid |-> "w3", from |-> "s2", kind |-> "stop"],
            [wamid |-> "w1", from |-> "s1", kind |-> "stop"]>>
  @@ 3 :> << >>

(* a job of every minute before a daily one, as _install_jobs lists them; one  *)
(* clock ahead of the other; the first job may outlast a minute and the lock   *)
Daily == <<"approval_ladder", "recovery_sweep">>
DailyDue == [j \in Names |-> IF j = "recovery_sweep" THEN {2} ELSE Minutes]
Lasting == [j \in Names |-> IF j = "approval_ladder" THEN {0, 7} ELSE {0}]
Skewed == [s \in Schedulers |-> IF s = "second" THEN 1 ELSE 0]

MCSeededChains == {<< >>, <<"la", "lb">>}
MCFallback == <<"lb", "la">>

(* definitions of one or two steps, plain or nested                            *)
Text(steps, comp, named, trigger) ==
  [steps |-> steps, comp |-> comp, guards |-> named, trigger |-> trigger]
Verb(v) == [verb |-> v, as |-> ""]
MCTexts ==
  LET leaves == {Verb(v) : v \in {"emit", "approval_gate", "frob", "diagnose"}}
                  \cup {[verb |-> "agent_task", as |-> "x"]}
      bodies == {<< >>, <<Verb("emit")>>, <<Verb("set"), Verb("diagnose")>>}
      branch(sound, body, other) ==
        [verb |-> "branch", cases |-> <<[sound |-> sound, steps |-> body]>>, default |-> other]
      branches == {branch(sound, a, b) : sound \in BOOLEAN, a \in bodies, b \in bodies}
      twoCases == [branch(TRUE, <<Verb("diagnose")>>, << >>) EXCEPT
                     !.cases = @ \o <<[sound |-> TRUE, steps |-> <<Verb("set")>>]>>]
      nested == {branch(TRUE, << >>, <<b>>) :
                   b \in {branch(TRUE, <<Verb("emit")>>, << >>), twoCases, branch(FALSE, << >>, << >>)}}
      steps == leaves \cup branches \cup {[verb |-> "loop", steps |-> b] : b \in bodies}
                 \cup nested \cup {twoCases}
      comps == {<< >>, <<Verb("emit")>>, <<branch(FALSE, << >>, <<Verb("diagnose")>>)>>}
  IN  {Text(<<a, b>>, << >>, {}, LiveEvent) : a \in steps, b \in {Verb("diagnose")} \cup branches}
      \cup {Text(<<a>>, c, g, t) : a \in steps, c \in comps, t \in {LiveEvent, BareEvent},
                                   g \in {{}, {"touch_cap"}, {"invented"}}}
      \cup {Text(<< >>, << >>, {}, BareEvent)}
PlainText == Text(<<Verb("diagnose")>>, << >>, {}, LiveEvent)
MCRecorded ==
  [type : {LiveEvent, BareEvent}, holds : BOOLEAN, passes : SUBSET {"not_suppressed", "touch_cap"}]
MCSubmissions ==
  {[key |-> "own", text |-> PlainText], [key |-> "shared", text |-> PlainText],
   [key |-> "shared", text |-> [PlainText EXCEPT !.guards = {"touch_cap"}]],
   [key |-> "third", text |-> PlainText],
   [key |-> "own", text |-> Text(<<Verb("emit")>>, << >>, {}, LiveEvent)]}
MCPackTexts == "shared" :> Text(<<Verb("diagnose"), Verb("emit")>>, << >>, {}, LiveEvent)

MCAgentPlaneInit ==
  /\ PlaneAtRest /\ AuthoringInit
  /\ focus \in PlaneParts \cup {"dsl", "authoring"}
  /\ focus # "campaigns" => audience = Members
  /\ focus = "autonomy" => Cardinality(rules) \in {0, 2, 5}
  /\ focus # "autonomy" => rules = {r \in MCRules : r.scope = "pack" /\ r.guard = "true"}
  /\ focus # "scheduler" => \A s \in Schedulers : proc[s].until = 0
  /\ focus # "routing" => routes.seeded = << >> /\ routes.override["default"] = NoLink
  /\ focus # "diagnosis" => origin = "pack"
  /\ IF focus = "dsl" THEN DslInit
     ELSE dsl = [text |-> PlainText, by |-> "owner"] /\ parsed = Unparsed /\ program = << >>

(* the second caller of the proxy only sends, and one viewer is invited        *)
SecondOnlySends == focus = "mediation" => mcall'[d2].tool \in Gateable
OneViewerInvited ==
  focus = "membership" =>
    \A i, j \in {k \in Invites : invite'[k].state # "absent"} :
      invite'[i].role = "viewer" /\ invite'[j].role = "viewer" => i = j

MCAgentPlaneNext ==
  \/ AgentPlaneNext /\ SecondOnlySends /\ OneViewerInvited /\ UNCHANGED <<dslVars, authoringVars>>
  \/ Alone("dsl") /\ DslNext /\ UNCHANGED <<planeVars, authoringVars>>
  \/ Alone("authoring") /\ AuthoringNext /\ UNCHANGED <<planeVars, dslVars>>

MCAgentPlaneSpec ==
  MCAgentPlaneInit /\ [][MCAgentPlaneNext]_<<AgentPlaneVars, dslVars, authoringVars>>

(* A program and its dry run follow the text the author wrote, and what is     *)
(* active is a text that kept its mandated guards and was vouched for as it    *)
(* stands (compiler.py, simulate.py, authoring.py, materialize.py).            *)
ProgramsAreVouched ==
  /\ focus = "dsl" =>
        /\ DslTypeOK /\ OwnersCannotEmit /\ MandatedGuardsHold
        /\ ProgramFollowsText /\ BadConditionsOnlyInCompensation /\ SimulationCoversLive
  /\ focus = "authoring" =>
        /\ AuthoringTypeOK /\ OwnerTextIsGuarded /\ ActiveIsVouched
        /\ DefinitionsOverrunBounded /\ PackStaysUnlessOverwritten

=============================================================================
