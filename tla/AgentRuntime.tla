---------------------------- MODULE AgentRuntime ----------------------------
(* The durable agent executor (src/core/runtime): a driver walks the graph  *)
(* route, compose, model_turn, tool_call, respond one node at a time and     *)
(* writes a step row and then a Redis checkpoint after each.  A tool of tier *)
(* 2 parks the run behind an approval; approval.resolved resumes it; a crash *)
(* leaves the delivery to be redelivered; hard failures feed a breaker.      *)
EXTENDS Naturals, FiniteSets

CONSTANTS
  Runs, Drivers, Asks,    \* agent_runs rows, worker coroutines, approvals
  Tools, Gated,           \* the tools of the manifest, those of tier 2
  MaxToolCalls,           \* MAX_TOOL_CALLS of graph.py
  MaxSteps,               \* budget_caps.max_steps
  CircuitThreshold,       \* CIRCUIT_THRESHOLD of failure.py
  StepRetries,            \* STEP_RETRY_LIMIT
  MaxFaults               \* bound: crashes, resumes by hand and kill switches together

VARIABLES
  agentRun,   \* status of each run, and the error or output code it ended on
  ckpt,       \* the Redis checkpoint of each run
  steps,      \* the newest agent_steps row of each run
  drive,      \* what each driver holds in memory
  ask,        \* the approvals the runs wait for
  events,     \* approval.resolved deliveries still to be made
  acted,      \* how often each gated tool took effect for each run
  replies,    \* how many replies the customer of each run received
  circuit,    \* agent_instances.status and the consecutive failure counter
  faults      \* crashes, recoveries and kill switches so far

runtimeVars == <<agentRun, ckpt, steps, drive, ask, events, acted, replies,
                 circuit, faults>>

Nodes == {"start", "route", "compose", "model", "tool", "respond"}
None  == "none"
Reply == "messages.send"

(* Identifiers are not the empty value, the reply is a tool of the manifest, *)
(* and there are finitely many workers and approvals.                        *)
ASSUME RuntimeAssumption ==
  /\ None \notin Runs /\ None \notin Asks /\ None \notin Tools
  /\ Gated \subseteq Tools /\ Reply \in Tools
  /\ IsFiniteSet(Drivers) /\ IsFiniteSet(Asks)
  /\ MaxToolCalls \in Nat /\ MaxSteps \in Nat /\ MaxFaults \in Nat
  /\ CircuitThreshold \in Nat /\ StepRetries \in Nat

Codes == {None, "awaiting", "denied", "paused", "budget", "timeout", "aborted",
          "circuit", "provider"}

(* RunState, as far as the control reads it: the node last completed, what   *)
(* the model decided, the tool it wants, the calls made, and the tool a      *)
(* parked run waits for                                                      *)
RunStates == [node : Nodes, decision : {"tool", "respond"},
              tool : Tools \cup {None}, calls : 0..MaxToolCalls,
              awaiting : Tools \cup {None}, seq : 0..MaxSteps]
Fresh == [node |-> "start", decision |-> "respond", tool |-> None, calls |-> 0,
          awaiting |-> None, seq |-> 0]
NoState == [Fresh EXCEPT !.node = None]
Idle == [at |-> "idle", run |-> None, ask |-> None, state |-> Fresh,
         approved |-> {}, retries |-> 0]

RuntimeInit ==
  /\ agentRun = [r \in Runs |-> [status |-> "absent", code |-> None]]
  /\ ckpt = [r \in Runs |-> NoState] /\ steps = [r \in Runs |-> NoState]
  /\ drive = [d \in Drivers |-> Idle]
  /\ ask = [a \in Asks |-> [status |-> "absent", run |-> None, tool |-> None]]
  /\ events = [a \in Asks |-> 0]
  /\ acted = [r \in Runs |-> [t \in Gated |-> 0]] /\ replies = [r \in Runs |-> 0]
  /\ circuit = [open |-> FALSE, consec |-> 0]
  /\ faults = [crashes |-> 0, recoveries |-> 0, kills |-> 0]

At(d, point) == drive[d].at = point
Faulty == faults.crashes + faults.recoveries + faults.kills < MaxFaults
Go(d, point) == drive' = [drive EXCEPT ![d].at = point]
Finish(r, status, code) ==
  agentRun' = [agentRun EXCEPT ![r] = [status |-> status, code |-> code]]
(* the handler returns: a resume still has its delivery to acknowledge       *)
Acking(a) == IF a = None THEN Idle ELSE [Idle EXCEPT !.at = "ack", !.ask = a]
Leave(d) == drive' = [drive EXCEPT ![d] = Acking(drive[d].ask)]
Halt(d, code) == Finish(drive[d].run, "interrupted", code) /\ Leave(d)

(* model_turn's branch: a tool while under the loop bound, else respond      *)
NextNode(s) ==
  CASE s.node = "start"   -> "route"
    [] s.node = "route"   -> "compose"
    [] s.node = "compose" -> "model"
    [] s.node = "model"   -> IF s.decision = "tool" /\ s.calls < MaxToolCalls
                             THEN "tool" ELSE "respond"
    [] s.node = "tool"    -> "model"
    [] OTHER              -> None

-----------------------------------------------------------------------------
(* Entering the driver                                                       *)

Enter(d, r, s, approved, a) ==
  drive' = [drive EXCEPT ![d] = [at |-> "enter", run |-> r, ask |-> a, state |-> s,
                                 approved |-> approved, retries |-> 0]]

(* start_run: the row, then the driver; an open circuit holds the run        *)
StartAgentRun(d, r) ==
  /\ At(d, "idle") /\ agentRun[r].status = "absent"
  /\ IF circuit.open
     THEN Finish(r, "interrupted", "circuit") /\ UNCHANGED drive
     ELSE Finish(r, "running", None) /\ Enter(d, r, Fresh, {}, None)
  /\ UNCHANGED <<ckpt, steps, ask, events, acted, replies, circuit, faults>>

(* resume_run: the checkpoint, else the newest step row, else the input      *)
ResumeAgentRun(d, r) ==
  /\ At(d, "idle") /\ agentRun[r].status \in {"running", "interrupted"}
  /\ Faulty
  /\ faults' = [faults EXCEPT !.recoveries = @ + 1]
  /\ Enter(d, r, CASE ckpt[r] # NoState -> ckpt[r]
                   [] ckpt[r] = NoState /\ steps[r] # NoState -> steps[r]
                   [] OTHER -> Fresh, {}, None)
  /\ UNCHANGED <<agentRun, ckpt, steps, ask, events, acted, replies, circuit>>

(* on_approval_resolved and resume_after_approval: a run that is no longer   *)
(* interrupted, or has no checkpoint, is left alone; an approval lets the    *)
(* checkpoint's tool through, a rejection turns the run to its safe close    *)
ResumeAfterApproval(d, a) ==
  LET r == ask[a].run
      s == ckpt[r]
      ready == [s EXCEPT !.awaiting = None]
  IN
  /\ At(d, "idle") /\ events[a] > 0
  /\ events' = [events EXCEPT ![a] = @ - 1]
  /\ \/ /\ agentRun[r].status # "interrupted" \/ s = NoState
        /\ drive' = [drive EXCEPT ![d] = Acking(a)]
     \/ /\ agentRun[r].status = "interrupted" /\ s # NoState
        /\ ask[a].status = "approved"
        /\ Enter(d, r, ready, {s.awaiting} \ {None}, a)
     \/ /\ agentRun[r].status = "interrupted" /\ s # NoState
        /\ ask[a].status = "rejected"
        /\ Enter(d, r, [ready EXCEPT !.decision = "respond", !.tool = None], {}, a)
  /\ UNCHANGED <<agentRun, ckpt, steps, ask, acted, replies, circuit, faults>>

(* the consumer commits its dedupe key and acknowledges                      *)
AckDelivery(d) ==
  /\ At(d, "ack") /\ drive' = [drive EXCEPT ![d] = Idle]
  /\ UNCHANGED <<agentRun, ckpt, steps, ask, events, acted, replies, circuit, faults>>

(* assert_agent_executable, evaluated on every entry                         *)
EnterDrive(d) ==
  /\ At(d, "enter")
  /\ \/ Go(d, "guard") /\ UNCHANGED agentRun
     \/ Halt(d, "denied")
  /\ UNCHANGED <<ckpt, steps, ask, events, acted, replies, circuit, faults>>

-----------------------------------------------------------------------------
(* The step loop                                                             *)

(* Mutant: max_steps is not looked at. *)
GuardStepUncapped(d) ==
  LET s == drive[d].state IN
  /\ At(d, "guard")
  /\ \/ /\ NextNode(s) = None
        /\ Finish(drive[d].run, "succeeded", None) /\ Leave(d) /\ UNCHANGED faults
     \/ /\ NextNode(s) # None /\ Faulty
        /\ faults' = [faults EXCEPT !.kills = @ + 1] /\ Halt(d, "paused")
     \/ /\ NextNode(s) # None
        /\ Go(d, NextNode(s)) /\ UNCHANGED <<agentRun, faults>>
  /\ UNCHANGED <<ckpt, steps, ask, events, acted, replies, circuit>>

(* next_node says done, the kill switch is on, or the step cap is reached    *)
GuardStep(d) ==
  LET s == drive[d].state IN
  /\ At(d, "guard")
  /\ \/ /\ NextNode(s) = None
        /\ Finish(drive[d].run, "succeeded", None) /\ Leave(d) /\ UNCHANGED faults
     \/ /\ NextNode(s) # None /\ Faulty
        /\ faults' = [faults EXCEPT !.kills = @ + 1] /\ Halt(d, "paused")
     \/ /\ NextNode(s) # None /\ s.seq >= MaxSteps
        /\ Halt(d, "budget") /\ UNCHANGED faults
     \/ /\ NextNode(s) # None /\ s.seq < MaxSteps
        /\ Go(d, NextNode(s)) /\ UNCHANGED <<agentRun, faults>>
  /\ UNCHANGED <<ckpt, steps, ask, events, acted, replies, circuit>>

(* a completed node waits to be persisted                                    *)
Completed(d, s) ==
  drive' = [drive EXCEPT ![d].at = "persist",
                         ![d].state = [s EXCEPT !.node = drive[d].at, !.seq = @ + 1]]

(* route_node and compose_node                                               *)
LocalNode(d) ==
  /\ drive[d].at \in {"route", "compose"}
  /\ Completed(d, drive[d].state)
  /\ UNCHANGED <<agentRun, ckpt, steps, ask, events, acted, replies, circuit, faults>>

(* model_turn_node                                                           *)
ModelTurn(d) ==
  LET s == drive[d].state IN
  /\ At(d, "model")
  /\ \/ \E t \in Tools : Completed(d, [s EXCEPT !.decision = "tool", !.tool = t])
     \/ Completed(d, [s EXCEPT !.decision = "respond", !.tool = None])
  /\ UNCHANGED <<agentRun, ckpt, steps, ask, events, acted, replies, circuit, faults>>

(* _park and _park_send: the approval and the interrupted status commit      *)
(* together, the checkpoint that lets the resume re-run the call comes after *)
FreshAsks == {a \in Asks : ask[a].status = "absent"}
ParkRow(d, tool, s) ==
  /\ FreshAsks # {}
  /\ ask' = [ask EXCEPT ![CHOOSE a \in FreshAsks : TRUE] =
                [status |-> "pending", run |-> drive[d].run, tool |-> tool]]
  /\ Finish(drive[d].run, "interrupted", "awaiting")
  /\ drive' = [drive EXCEPT ![d].at = "park",
                            ![d].state = [s EXCEPT !.awaiting = tool]]
ParkCheckpoint(d) ==
  /\ At(d, "park")
  /\ ckpt' = [ckpt EXCEPT ![drive[d].run] = drive[d].state]
  /\ Leave(d)
  /\ UNCHANGED <<agentRun, steps, ask, events, acted, replies, circuit, faults>>

(* Mutant: the tier is looked at for the first call of a run only. *)
NeedsApprovalFirst(d, tool) ==
  tool \in Gated /\ tool \notin drive[d].approved /\ drive[d].state.calls = 0

(* the tier gate of proxy.call, which an approved tool of a resumed run skips *)
NeedsApproval(d, tool) == tool \in Gated /\ tool \notin drive[d].approved

(* note_failure and _open_circuit, note_success                              *)
Opened == circuit.consec + 1 >= CircuitThreshold
Counted(ok) == IF ok THEN [circuit EXCEPT !.consec = 0]
               ELSE [open |-> circuit.open \/ Opened, consec |-> circuit.consec + 1]

(* The gated tool took effect, if it is one.                                 *)
Acts(r, tool) ==
  acted' = IF tool \in Gated THEN [acted EXCEPT ![r][tool] = @ + 1] ELSE acted

(* wait_for cancels a node at its deadline (the reply is sent after it); a   *)
(* tool that was let through may have acted, and is counted neither way      *)
NodeTimesOut(d) ==
  LET tool == drive[d].state.tool IN
  /\ drive[d].at \in Nodes /\ Halt(d, "timeout")
  /\ \/ UNCHANGED acted
     \/ At(d, "tool") /\ ~NeedsApproval(d, tool) /\ Acts(drive[d].run, tool)
  /\ UNCHANGED <<ckpt, steps, ask, events, replies, circuit, faults>>

(* tool_call_node when the proxy lets the call through                       *)
ToolSucceeds(d) ==
  LET s == drive[d].state IN
  /\ At(d, "tool") /\ ~NeedsApproval(d, s.tool)
  /\ Acts(drive[d].run, s.tool)
  /\ circuit' = Counted(TRUE)
  /\ drive' = [drive EXCEPT ![d].at = "persist", ![d].retries = 0,
                 ![d].state = [s EXCEPT !.node = "tool", !.seq = @ + 1,
                                        !.calls = @ + 1, !.tool = None]]
  /\ UNCHANGED <<agentRun, ckpt, steps, ask, events, replies, faults>>

(* a denial the model adapts to, or the third manifest violation             *)
ToolRefused(d) ==
  LET s == drive[d].state IN
  /\ At(d, "tool")
  /\ \/ Completed(d, [s EXCEPT !.calls = @ + 1, !.tool = None]) /\ UNCHANGED agentRun
     \/ Halt(d, "aborted")
  /\ UNCHANGED <<ckpt, steps, ask, events, acted, replies, circuit, faults>>

ToolPending(d) ==
  LET s == drive[d].state IN
  /\ At(d, "tool") /\ NeedsApproval(d, s.tool)
  /\ ParkRow(d, s.tool, [s EXCEPT !.decision = "tool"])
  /\ UNCHANGED <<ckpt, steps, events, acted, replies, circuit, faults>>

(* A hard failure is counted and may open the circuit; the call is re-issued *)
(* once in place, without a step row, and then the run is interrupted        *)
ToolFails(d) ==
  /\ At(d, "tool") /\ ~NeedsApproval(d, drive[d].state.tool)
  /\ circuit.consec < CircuitThreshold + Cardinality(Drivers)
  /\ circuit' = Counted(FALSE)
  /\ \/ Opened /\ Halt(d, "circuit")
     \/ /\ ~Opened /\ drive[d].retries < StepRetries
        /\ drive' = [drive EXCEPT ![d].at = "guard", ![d].retries = @ + 1]
        /\ UNCHANGED agentRun
     \/ ~Opened /\ drive[d].retries >= StepRetries /\ Halt(d, "provider")
  /\ UNCHANGED <<ckpt, steps, ask, events, acted, replies, faults>>

(* Mutant: the message leaves before the gate parks the run. *)
RespondThenPark(d) ==
  LET s == drive[d].state IN
  /\ At(d, "respond")
  /\ replies' = [replies EXCEPT ![drive[d].run] = @ + 1]
  /\ \/ Completed(d, s) /\ UNCHANGED <<agentRun, ask>>
     \/ /\ Reply \notin drive[d].approved
        /\ ParkRow(d, Reply, [s EXCEPT !.decision = "respond"])
  /\ UNCHANGED <<ckpt, steps, events, acted, circuit, faults>>

(* respond_node, and the reply through messages.send: a priced reply parks,  *)
(* anything but pending (a refusal, a failure) lets the run go on            *)
Respond(d) ==
  LET s == drive[d].state IN
  /\ At(d, "respond")
  /\ \/ /\ replies' = [replies EXCEPT ![drive[d].run] = @ + 1]
        /\ Completed(d, s) /\ UNCHANGED <<agentRun, ask>>
     \/ Completed(d, s) /\ UNCHANGED <<agentRun, ask, replies>>
     \/ /\ Reply \notin drive[d].approved
        /\ ParkRow(d, Reply, [s EXCEPT !.decision = "respond"])
        /\ UNCHANGED replies
  /\ UNCHANGED <<ckpt, steps, events, acted, circuit, faults>>

(* Mutant: ON CONFLICT (run_id) DO NOTHING, without the sequence number. *)
PersistFirstStep(d) ==
  LET r == drive[d].run IN
  /\ At(d, "persist")
  /\ steps' = IF steps[r] = NoState
              THEN [steps EXCEPT ![r] = drive[d].state] ELSE steps
  /\ Go(d, "checkpoint")
  /\ UNCHANGED <<agentRun, ckpt, ask, events, acted, replies, circuit, faults>>

(* _persist_step: ON CONFLICT (run_id, seq) DO NOTHING                       *)
PersistStep(d) ==
  LET r == drive[d].run
      s == drive[d].state
  IN
  /\ At(d, "persist")
  /\ steps' = IF steps[r] = NoState \/ s.seq > steps[r].seq
              THEN [steps EXCEPT ![r] = s] ELSE steps
  /\ Go(d, "checkpoint")
  /\ UNCHANGED <<agentRun, ckpt, ask, events, acted, replies, circuit, faults>>

(* _write_checkpoint                                                         *)
WriteCheckpoint(d) ==
  /\ At(d, "checkpoint")
  /\ ckpt' = [ckpt EXCEPT ![drive[d].run] = drive[d].state]
  /\ Go(d, "guard")
  /\ UNCHANGED <<agentRun, steps, ask, events, acted, replies, circuit, faults>>

-----------------------------------------------------------------------------
(* The owner, the operator and the machine                                   *)

ResolveAsk(a) ==
  /\ ask[a].status = "pending"
  /\ \E verdict \in {"approved", "rejected"} : ask' = [ask EXCEPT ![a].status = verdict]
  /\ events' = [events EXCEPT ![a] = 1]
  /\ UNCHANGED <<agentRun, ckpt, steps, drive, acted, replies, circuit, faults>>

(* close_circuit                                                             *)
CloseCircuit ==
  /\ circuit.open /\ circuit' = [open |-> FALSE, consec |-> 0]
  /\ UNCHANGED <<agentRun, ckpt, steps, drive, ask, events, acted, replies, faults>>

(* Mutant: the delivery is acknowledged before it is handled. *)
CrashAcknowledged(d) ==
  /\ ~At(d, "idle") /\ Faulty
  /\ faults' = [faults EXCEPT !.crashes = @ + 1]
  /\ drive' = [drive EXCEPT ![d] = Idle]
  /\ UNCHANGED <<agentRun, ckpt, steps, ask, events, acted, replies, circuit>>

(* a worker dies; the delivery it was handling was never acknowledged        *)
CrashDriver(d) ==
  LET a == drive[d].ask IN
  /\ ~At(d, "idle") /\ Faulty
  /\ faults' = [faults EXCEPT !.crashes = @ + 1]
  /\ events' = IF a = None THEN events ELSE [events EXCEPT ![a] = @ + 1]
  /\ drive' = [drive EXCEPT ![d] = Idle]
  /\ UNCHANGED <<agentRun, ckpt, steps, ask, acted, replies, circuit>>

RuntimeNext ==
  \/ \E d \in Drivers :
       \/ \E r \in Runs : StartAgentRun(d, r) \/ ResumeAgentRun(d, r)
       \/ \E a \in Asks : ResumeAfterApproval(d, a)
       \/ AckDelivery(d) \/ EnterDrive(d) \/ GuardStep(d) \/ LocalNode(d)
       \/ ModelTurn(d) \/ NodeTimesOut(d) \/ ToolSucceeds(d) \/ ToolRefused(d)
       \/ ToolPending(d) \/ ToolFails(d) \/ Respond(d) \/ ParkCheckpoint(d)
       \/ PersistStep(d) \/ WriteCheckpoint(d) \/ CrashDriver(d)
  \/ \E a \in Asks : ResolveAsk(a)
  \/ CloseCircuit

RuntimeSpec == RuntimeInit /\ [][RuntimeNext]_runtimeVars

-----------------------------------------------------------------------------
(* Properties                                                                *)

(* Every row, checkpoint and driver of the executor has its shape.           *)
RuntimeTypeOK ==
  /\ agentRun \in [Runs -> [status : {"absent", "running", "interrupted", "succeeded"},
                            code : Codes]]
  /\ ckpt \in [Runs -> RunStates \cup {NoState}]
  /\ steps \in [Runs -> RunStates \cup {NoState}]
  /\ \A d \in Drivers : /\ drive[d].run \in Runs \cup {None}
                        /\ drive[d].state \in RunStates
                        /\ drive[d].approved \subseteq Tools
  /\ \A a \in Asks : ask[a].status # "absent" => ask[a].run \in Runs /\ ask[a].tool \in Tools

(* A tool of tier 2 takes effect for a run only once the owner has approved  *)
(* something for that run, whatever crashes, is redelivered or is resumed    *)
(* by hand (proxy.call's tier gate and RunContext.approved).                 *)
GatedNeedsConsent ==
  \A r \in Runs, t \in Gated : acted[r][t] > 0 =>
    \E a \in Asks : ask[a].run = r /\ ask[a].status = "approved"

(* ... and once the owner has approved that very tool                        *)
ApprovedToolOnly ==
  \A r \in Runs, t \in Gated : acted[r][t] > 0 =>
    \E a \in Asks : ask[a].run = r /\ ask[a].tool = t /\ ask[a].status = "approved"

(* The Redis checkpoint never runs ahead of the durable step rows, so a      *)
(* resume that falls back on agent_steps loses nothing the checkpoint knew   *)
(* (_persist_step commits before _write_checkpoint).                         *)
CheckpointBehindSteps ==
  \A r \in Runs : ckpt[r] # NoState => steps[r] # NoState /\ ckpt[r].seq <= steps[r].seq

(* A run parked for an approval always has somebody who will move it: an     *)
(* approval still open, a delivery still to come, or a driver at work, even  *)
(* when the worker that resumed it died (status stays interrupted while a    *)
(* resumed run is driven, and the consumer acknowledges last).  Three        *)
(* resumes by hand void it: a run whose worker died three times between a    *)
(* step row and the first checkpoint reaches a gate without a checkpoint.    *)
ParkedRunIsMoved ==
  \A r \in Runs : agentRun[r].code = "awaiting" /\ faults.recoveries < 3 =>
    \/ \E a \in Asks : ask[a].run = r /\ (ask[a].status = "pending" \/ events[a] > 0)
    \/ \E d \in Drivers : drive[d].run = r

(* The customer of a run gets one reply; each further one is accounted for   *)
(* by a crash or by a resume by hand.                                        *)
RepliesAccounted ==
  \A r \in Runs : replies[r] <= 1 + faults.crashes + faults.recoveries

(* Through crashes, redeliveries and resumes, what is recorded of a run can    *)
(* be resumed, is resumed, and explains what the customer received.          *)
RunsAccounted ==
  RuntimeTypeOK /\ CheckpointBehindSteps /\ ParkedRunIsMoved /\ RepliesAccounted

(* The reply of a run reaches its customer once, crash or not.               *)
OneReply == \A r \in Runs : replies[r] <= 1

=============================================================================
