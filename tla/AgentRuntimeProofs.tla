------------------------- MODULE AgentRuntimeProofs -------------------------
(***************************************************************************)
(* Proofs about AgentRuntime for every set of runs, workers, approvals and *)
(* tools and every bound: types, consent before a gated tool takes effect, *)
(* checkpoints that never run ahead of the step rows, parked runs that are *)
(* moved, and replies that are accounted for.                              *)
(***************************************************************************)
EXTENDS AgentRuntime, FiniteSetTheorems, TLAPS

-----------------------------------------------------------------------------
(* The inductive invariant                                                 *)

Points == (Nodes \ {"start"}) \cup
          {"idle", "ack", "enter", "guard", "persist", "checkpoint", "park"}
AgentRows == [status : {"absent", "running", "interrupted", "succeeded"}, code : Codes]
DriveRecords == [at : Points, run : Runs \cup {None}, ask : Asks \cup {None},
                 state : RunStates, approved : SUBSET Tools, retries : Nat]
AskRows == [status : {"absent", "pending", "approved", "rejected"},
            run : Runs \cup {None}, tool : Tools \cup {None}]

Types ==
  /\ agentRun \in [Runs -> AgentRows]
  /\ ckpt \in [Runs -> RunStates \cup {NoState}]
  /\ steps \in [Runs -> RunStates \cup {NoState}]
  /\ drive \in [Drivers -> DriveRecords]
  /\ ask \in [Asks -> AskRows]
  /\ events \in [Asks -> Nat]
  /\ acted \in [Runs -> [Gated -> Nat]]
  /\ replies \in [Runs -> Nat]
  /\ circuit \in [open : BOOLEAN, consec : Nat]
  /\ faults \in [crashes : Nat, recoveries : Nat, kills : Nat]

Resolved == {"approved", "rejected"}
Working(d) == ~ At(d, "idle") /\ ~ At(d, "ack")

(* An approval belongs to a run; its delivery is queued, or in the hands of *)
(* one worker, once it is resolved.                                         *)
AsksOwned ==
  \A a \in Asks :
    /\ ask[a].status # "absent" => ask[a].run \in Runs /\ ask[a].tool \in Tools
    /\ events[a] > 0 => ask[a].status \in Resolved /\ events[a] = 1
    /\ \A d \in Drivers : drive[d].ask = a =>
         /\ events[a] = 0 /\ ask[a].status \in Resolved
         /\ \A e \in Drivers : drive[e].ask = a => e = d

(* A worker is at the node its state leads to, within the caps. *)
DrivesSound ==
  \A d \in Drivers :
    /\ At(d, "idle") => drive[d].ask = None
    /\ Working(d) =>
         /\ drive[d].run \in Runs
         /\ drive[d].ask # None => ask[drive[d].ask].run = drive[d].run
    /\ drive[d].at \in Nodes =>
         NextNode(drive[d].state) = drive[d].at /\ drive[d].state.seq < MaxSteps

Base == Types /\ AsksOwned /\ DrivesSound

-----------------------------------------------------------------------------
(* Types                                                                   *)

(* The node a state leads to. *)
LEMMA NextNodes ==
  ASSUME NEW s \in RunStates
  PROVE  /\ NextNode(s) \in (Nodes \ {"start"}) \cup {None}
         /\ NextNode(s) = "route" => s.node = "start"
         /\ NextNode(s) = "compose" => s.node = "route"
         /\ NextNode(s) = "model" => s.node \in {"compose", "tool"}
         /\ NextNode(s) = "tool" => s.node = "model" /\ s.calls < MaxToolCalls
         /\ NextNode(s) = "respond" => s.node = "model"
         /\ NextNode(s) = None <=> s.node = "respond"
BY DEF NextNode, Nodes, None, RunStates

(* A state of a run keeps its shape. *)
LEMMA StateShapes ==
  ASSUME NEW s \in RunStates
  PROVE  /\ s.calls \in 0..MaxToolCalls /\ s.seq \in 0..MaxSteps /\ s.node \in Nodes
         /\ s.tool \in Tools \cup {None} /\ s.awaiting \in Tools \cup {None}
         /\ s # NoState
BY RuntimeAssumption DEF RunStates, NoState, Fresh, Nodes, None

(* A fresh state and an idle worker have their shapes. *)
LEMMA FreshShapes ==
  Fresh \in RunStates /\ Idle \in DriveRecords /\ \A a \in Asks \cup {None} : Acking(a) \in DriveRecords
<1> USE RuntimeAssumption
<1>1. Fresh \in RunStates BY DEF Fresh, RunStates, Nodes
<1>2. Idle \in DriveRecords BY <1>1 DEF Idle, DriveRecords, Points
<1>3. ASSUME NEW a \in Asks PROVE [Idle EXCEPT !.at = "ack", !.ask = a] \in DriveRecords
  BY <1>1 DEF Idle, DriveRecords, Points
<1> QED BY <1>1, <1>2, <1>3 DEF Acking

(* A worker's record moves to another point. *)
LEMMA Moved ==
  ASSUME Types, NEW d \in Drivers, NEW p \in Points, NEW s \in RunStates, NEW n \in Nat
  PROVE  /\ [drive EXCEPT ![d].at = p] \in [Drivers -> DriveRecords]
         /\ [drive EXCEPT ![d].at = p, ![d].state = s] \in [Drivers -> DriveRecords]
         /\ [drive EXCEPT ![d].at = p, ![d].retries = n] \in [Drivers -> DriveRecords]
         /\ [drive EXCEPT ![d].at = p, ![d].retries = n, ![d].state = s]
              \in [Drivers -> DriveRecords]
         /\ [drive EXCEPT ![d] = Acking(drive[d].ask)] \in [Drivers -> DriveRecords]
         /\ [drive EXCEPT ![d] = Idle] \in [Drivers -> DriveRecords]
<1>1. drive[d] \in DriveRecords /\ drive \in [Drivers -> DriveRecords] BY DEF Types
<1>2. Acking(drive[d].ask) \in DriveRecords /\ Idle \in DriveRecords
  BY <1>1, FreshShapes DEF DriveRecords
<1> QED BY <1>1, <1>2 DEF DriveRecords

(* A row of agent_runs that ends keeps its shape. *)
LEMMA RowsKept ==
  ASSUME Types, NEW r, NEW status \in {"running", "interrupted", "succeeded"},
         NEW code \in Codes, Finish(r, status, code)
  PROVE  agentRun' \in [Runs -> AgentRows]
BY DEF Finish, Types, AgentRows

(* The run is interrupted and the worker leaves. *)
LEMMA HaltKept ==
  ASSUME Types, NEW d \in Drivers, NEW code \in Codes, Halt(d, code)
  PROVE  agentRun' \in [Runs -> AgentRows] /\ drive' \in [Drivers -> DriveRecords]
<1>1. Points # {} /\ RunStates # {} BY FreshShapes DEF Points
<1> QED BY <1>1, Moved, RowsKept DEF Halt, Leave

(* A completed node leaves the worker a state of the run. *)
LEMMA CompletedKept ==
  ASSUME Types, NEW d \in Drivers, NEW s \in RunStates, Completed(d, s),
         drive[d].at \in Nodes, s.seq < MaxSteps
  PROVE  drive' \in [Drivers -> DriveRecords]
<1>0. s.seq + 1 \in 0..MaxSteps BY RuntimeAssumption, StateShapes
<1>1. [s EXCEPT !.node = drive[d].at, !.seq = @ + 1] \in RunStates
  BY <1>0 DEF RunStates
<1>2. "persist" \in Points BY DEF Points
<1> QED BY <1>1, <1>2, Moved DEF Completed

(* Entering the driver. *)
LEMMA EnterKept ==
  ASSUME Types, NEW d \in Drivers, NEW r \in Runs, NEW s \in RunStates,
         NEW approved \in SUBSET Tools, NEW a \in Asks \cup {None},
         Enter(d, r, s, approved, a)
  PROVE  drive' \in [Drivers -> DriveRecords]
BY DEF Enter, Types, DriveRecords, Points

(* A gate writes an approval and interrupts the run (_park, _park_send). *)
LEMMA ParkKept ==
  ASSUME Types, NEW d \in Drivers, drive[d].run \in Runs, NEW tool \in Tools,
         NEW s \in RunStates, ParkRow(d, tool, s)
  PROVE  /\ agentRun' \in [Runs -> AgentRows] /\ drive' \in [Drivers -> DriveRecords]
         /\ ask' \in [Asks -> AskRows]
<1>1. [s EXCEPT !.awaiting = tool] \in RunStates BY DEF RunStates
<1>2. "park" \in Points BY DEF Points
<1>3. drive' \in [Drivers -> DriveRecords] BY <1>1, <1>2, Moved DEF ParkRow
<1>4. agentRun' \in [Runs -> AgentRows] BY RowsKept DEF ParkRow, Codes
<1>5. ask' \in [Asks -> AskRows] BY DEF ParkRow, Types, AskRows
<1> QED BY <1>3, <1>4, <1>5

(* A gated tool that takes effect is counted once more. *)
LEMMA ActsKept ==
  ASSUME Types, NEW r \in Runs, NEW tool, Acts(r, tool)
  PROVE  acted' \in [Runs -> [Gated -> Nat]]
BY DEF Acts, Types

(* Every step keeps the types (executor.py, graph.py, failure.py). *)
LEMMA TypesStep ==
  ASSUME Base, [RuntimeNext]_runtimeVars
  PROVE  Types'
<1> USE RuntimeAssumption
<1>0. Types BY DEF Base
<1>1. ASSUME NEW d \in Drivers, NEW r \in Runs, StartAgentRun(d, r) PROVE Types'
  BY <1>0, <1>1, RowsKept, EnterKept, FreshShapes DEF StartAgentRun, Codes, Types
<1>2. ASSUME NEW d \in Drivers, NEW r \in Runs, ResumeAgentRun(d, r) PROVE Types'
  <2> DEFINE s == CASE ckpt[r] # NoState -> ckpt[r]
                    [] ckpt[r] = NoState /\ steps[r] # NoState -> steps[r]
                    [] OTHER -> Fresh
  <2>1. s \in RunStates BY <1>0, FreshShapes DEF Types
  <2>2. Enter(d, r, s, {}, None) BY <1>2 DEF ResumeAgentRun
  <2>3. drive' \in [Drivers -> DriveRecords] BY <1>0, <2>1, <2>2, EnterKept
  <2> QED BY SMTT(30), <1>0, <1>2, <2>3 DEF ResumeAgentRun, Types
<1>3. ASSUME NEW d \in Drivers, NEW a \in Asks, ResumeAfterApproval(d, a) PROVE Types'
  <2>1. ask[a].run \in Runs BY <1>3, <1>0 DEF ResumeAfterApproval, Base, AsksOwned, Types, Resolved
  <2>2. drive' \in [Drivers -> DriveRecords]
    <3> DEFINE r == ask[a].run
               ready == [ckpt[r] EXCEPT !.awaiting = None]
    <3>1. CASE drive' = [drive EXCEPT ![d] = Acking(a)]
      BY <3>1, <1>0, FreshShapes DEF Types
    <3>2. ASSUME ckpt[r] # NoState
          PROVE  /\ ready \in RunStates
                 /\ [ready EXCEPT !.decision = "respond", !.tool = None]
                      \in RunStates
                 /\ {ckpt[r].awaiting} \ {None} \in SUBSET Tools
      <4>1. ckpt[r] \in RunStates BY <3>2, <2>1, <1>0 DEF Types
      <4> QED BY <4>1 DEF RunStates
    <3>3. CASE ckpt[r] # NoState /\ Enter(d, r, ready, {ckpt[r].awaiting} \ {None}, a)
      BY <3>2, <3>3, <2>1, <1>0, EnterKept
    <3>4. CASE ckpt[r] # NoState /\
               Enter(d, r, [ready EXCEPT !.decision = "respond", !.tool = None], {}, a)
      BY <3>2, <3>4, <2>1, <1>0, EnterKept
    <3> QED BY <1>3, <3>1, <3>3, <3>4 DEF ResumeAfterApproval
  <2>3. events' \in [Asks -> Nat] BY <1>0, <1>3 DEF ResumeAfterApproval, Types
  <2> QED BY <1>0, <1>3, <2>2, <2>3 DEF ResumeAfterApproval, Types
<1>4. ASSUME NEW d \in Drivers, AckDelivery(d) PROVE Types'
  BY <1>0, <1>4, FreshShapes DEF AckDelivery, Types
<1>5. ASSUME NEW d \in Drivers, EnterDrive(d) PROVE Types'
  <2>1. agentRun' \in [Runs -> AgentRows] /\ drive' \in [Drivers -> DriveRecords]
    <3>1. CASE Go(d, "guard") /\ UNCHANGED agentRun
      BY <1>0, <3>1, FreshShapes, Moved DEF Points, Go, Types
    <3>2. CASE Halt(d, "denied") BY <3>2, <1>0, HaltKept DEF Codes
    <3> QED BY <1>5, <3>1, <3>2 DEF EnterDrive
  <2> QED BY <1>0, <1>5, <2>1 DEF EnterDrive, Types
<1>6. ASSUME NEW d \in Drivers, GuardStep(d) PROVE Types'
  <2>1. drive[d].state \in RunStates /\ drive[d] \in DriveRecords
    BY <1>0 DEF Types, DriveRecords
  <2>2. agentRun' \in [Runs -> AgentRows] /\ drive' \in [Drivers -> DriveRecords]
    <3>1. CASE Finish(drive[d].run, "succeeded", None) /\ Leave(d)
      BY <1>0, <2>1, <3>1, RowsKept, Moved DEF Points, Leave, Codes
    <3>2. CASE Halt(d, "paused") \/ Halt(d, "budget") BY <3>2, <1>0, HaltKept DEF Codes
    <3>3. CASE NextNode(drive[d].state) # None /\ Go(d, NextNode(drive[d].state))
                 /\ UNCHANGED agentRun
      BY <1>0, <2>1, <3>3, NextNodes, Moved DEF Points, Go, Types
    <3> QED BY <1>6, <3>1, <3>2, <3>3 DEF GuardStep
  <2>3. faults' \in [crashes : Nat, recoveries : Nat, kills : Nat]
    BY <1>0, <1>6 DEF GuardStep, Types
  <2> QED BY <1>0, <1>6, <2>2, <2>3 DEF GuardStep, Types
<1>7. ASSUME NEW d \in Drivers, LocalNode(d) PROVE Types'
  BY <1>0, <1>7, CompletedKept DEF Types, DriveRecords, LocalNode, Base, DrivesSound, Nodes
<1>8. ASSUME NEW d \in Drivers, ModelTurn(d) PROVE Types'
  <2> DEFINE s == drive[d].state
  <2>1. /\ s \in RunStates /\ drive[d].at \in Nodes /\ s.seq < MaxSteps
    BY <1>0, <1>8 DEF Types, DriveRecords, ModelTurn, Base, DrivesSound, Nodes, At
  <2>2. /\ \A t \in Tools : [s EXCEPT !.decision = "tool", !.tool = t] \in RunStates
        /\ [s EXCEPT !.decision = "respond", !.tool = None] \in RunStates
        /\ \A t \in Tools : [s EXCEPT !.decision = "tool", !.tool = t].seq = s.seq
        /\ [s EXCEPT !.decision = "respond", !.tool = None].seq = s.seq
    BY <2>1 DEF RunStates
  <2>3. agentRun' \in [Runs -> AgentRows] /\ drive' \in [Drivers -> DriveRecords]
    BY <1>0, <1>8, <2>1, <2>2, CompletedKept, HaltKept DEF Codes, Types, ModelTurn
  <2> QED BY <1>0, <1>8, <2>3 DEF ModelTurn, Types
<1>8b. ASSUME NEW d \in Drivers, NodeTimesOut(d) PROVE Types'
  <2>1. agentRun' \in [Runs -> AgentRows] /\ drive' \in [Drivers -> DriveRecords]
    BY <1>0, <1>8b, HaltKept DEF NodeTimesOut, Codes
  <2>2. acted' \in [Runs -> [Gated -> Nat]]
    BY <1>0, <1>8b, ActsKept DEF NodeTimesOut, At, Types, Base, DrivesSound, Working
  <2> QED BY <1>0, <1>8b, <2>1, <2>2 DEF NodeTimesOut, Types
<1>9. ASSUME NEW d \in Drivers, ToolSucceeds(d) PROVE Types'
  <2> DEFINE s == drive[d].state
  <2>1. /\ s \in RunStates /\ s.seq < MaxSteps /\ NextNode(s) = "tool"
    BY <1>0, <1>9 DEF Types, DriveRecords, ToolSucceeds, Base, DrivesSound, Nodes, At
  <2>2. s.calls < MaxToolCalls BY <2>1, NextNodes
  <2>3. [s EXCEPT !.node = "tool", !.seq = @ + 1, !.calls = @ + 1, !.tool = None] \in RunStates
    <3>1. s.calls + 1 \in 0..MaxToolCalls /\ s.seq + 1 \in 0..MaxSteps
      BY <2>1, <2>2, StateShapes
    <3> QED BY <2>1, <3>1 DEF RunStates, Nodes
  <2>4. drive' \in [Drivers -> DriveRecords]
    BY <1>0, <1>9, <2>3, Moved DEF Points, ToolSucceeds
  <2>5. acted' \in [Runs -> [Gated -> Nat]]
    BY <1>0, <1>9, ActsKept DEF Types, Base, DrivesSound, Working, ToolSucceeds, At
  <2>6. circuit' \in [open : BOOLEAN, consec : Nat]
    BY <1>0, <1>9 DEF ToolSucceeds, Counted, Types
  <2> QED BY <1>0, <1>9, <2>4, <2>5, <2>6 DEF ToolSucceeds, Types
<1>10. ASSUME NEW d \in Drivers, ToolRefused(d) PROVE Types'
  <2> DEFINE s == drive[d].state
  <2>1. /\ s \in RunStates /\ drive[d].at \in Nodes /\ s.seq < MaxSteps /\ NextNode(s) = "tool"
    BY <1>0, <1>10 DEF Types, DriveRecords, ToolRefused, Base, DrivesSound, Nodes, At
  <2>2. s.calls < MaxToolCalls BY <2>1, NextNodes
  <2>3. [s EXCEPT !.calls = @ + 1, !.tool = None] \in RunStates
        /\ [s EXCEPT !.calls = @ + 1, !.tool = None].seq = s.seq
    <3>1. s.calls + 1 \in 0..MaxToolCalls BY <2>1, <2>2, StateShapes
    <3> QED BY <2>1, <3>1 DEF RunStates
  <2>4. agentRun' \in [Runs -> AgentRows] /\ drive' \in [Drivers -> DriveRecords]
    BY <1>0, <1>10, <2>1, <2>3, CompletedKept, HaltKept DEF Types, Codes, ToolRefused
  <2> QED BY <1>0, <1>10, <2>4 DEF ToolRefused, Types
<1>11. ASSUME NEW d \in Drivers, ToolPending(d) PROVE Types'
  <2> DEFINE s == drive[d].state
  <2>1. s \in RunStates /\ drive[d].run \in Runs /\ s.tool \in Tools
    BY <1>0, <1>11 DEF Types, DriveRecords, ToolPending, NeedsApproval, Base, DrivesSound,
                       Working, At
  <2>2. [s EXCEPT !.decision = "tool"] \in RunStates BY <2>1 DEF RunStates
  <2>3. ParkRow(d, s.tool, [s EXCEPT !.decision = "tool"]) BY <1>11 DEF ToolPending
  <2> HIDE DEF s
  <2>4. /\ agentRun' \in [Runs -> AgentRows] /\ drive' \in [Drivers -> DriveRecords]
        /\ ask' \in [Asks -> AskRows]
    BY <1>0, <2>1, <2>2, <2>3, ParkKept
  <2> QED BY <1>0, <1>11, <2>4 DEF ToolPending, Types
<1>12. ASSUME NEW d \in Drivers, ToolFails(d) PROVE Types'
  <2>1. circuit' \in [open : BOOLEAN, consec : Nat]
    BY <1>0, <1>12 DEF ToolFails, Counted, Types, Opened
  <2>2. agentRun' \in [Runs -> AgentRows] /\ drive' \in [Drivers -> DriveRecords]
    <3>1. CASE Halt(d, "circuit") \/ Halt(d, "provider") BY <3>1, <1>0, HaltKept DEF Codes
    <3>2. CASE /\ drive' = [drive EXCEPT ![d].at = "guard", ![d].retries = @ + 1]
               /\ UNCHANGED agentRun
      <4>1. "guard" \in Points /\ drive[d].retries + 1 \in Nat
        BY <1>0 DEF Points, Types, DriveRecords
      <4> DEFINE n == drive[d].retries + 1
      <4>2. drive' = [drive EXCEPT ![d].at = "guard", ![d].retries = n]
        BY <3>2
      <4>3. n \in Nat /\ agentRun' \in [Runs -> AgentRows] BY <3>2, <4>1, <1>0 DEF Types
      <4> HIDE DEF n
      <4> QED BY <4>1, <4>2, <4>3, <1>0, FreshShapes, Moved
    <3> QED BY <1>12, <3>1, <3>2 DEF ToolFails
  <2> QED BY <1>0, <1>12, <2>1, <2>2 DEF ToolFails, Types
<1>13. ASSUME NEW d \in Drivers, Respond(d) PROVE Types'
  <2> DEFINE s == drive[d].state
  <2>1. /\ s \in RunStates /\ drive[d].at \in Nodes /\ s.seq < MaxSteps /\ drive[d].run \in Runs
    BY <1>0, <1>13 DEF Types, DriveRecords, Respond, Base, DrivesSound, Nodes, At, Working
  <2>2. [s EXCEPT !.decision = "respond"] \in RunStates BY <2>1 DEF RunStates
  <2>3. replies' \in [Runs -> Nat] BY SMTT(30), <1>0, <1>13 DEF Respond, Types
  <2>4. CASE Completed(d, s) /\ UNCHANGED <<agentRun, ask>>
    BY <1>0, <1>13, <2>1, <2>3, <2>4, CompletedKept DEF Respond, Types
  <2>5. CASE ParkRow(d, Reply, [s EXCEPT !.decision = "respond"])
    <3> HIDE DEF s
    <3>1. /\ agentRun' \in [Runs -> AgentRows] /\ drive' \in [Drivers -> DriveRecords]
          /\ ask' \in [Asks -> AskRows]
      BY <1>0, <2>1, <2>2, <2>5, ParkKept
    <3> QED BY <1>0, <1>13, <2>3, <3>1 DEF Respond, Types
  <2> QED BY <1>13, <2>4, <2>5 DEF Respond
<1>14. ASSUME NEW d \in Drivers, ParkCheckpoint(d) PROVE Types'
  BY <1>0, <1>14, FreshShapes, Moved DEF Points, ParkCheckpoint, Leave, Types, DriveRecords
<1>15. ASSUME NEW d \in Drivers, PersistStep(d) PROVE Types'
  BY <1>0, <1>15, FreshShapes, Moved DEF Points, PersistStep, Go, Types, DriveRecords
<1>16. ASSUME NEW d \in Drivers, WriteCheckpoint(d) PROVE Types'
  BY <1>0, <1>16, FreshShapes, Moved DEF Points, WriteCheckpoint, Go, Types, DriveRecords
<1>17. ASSUME NEW d \in Drivers, CrashDriver(d) PROVE Types'
  BY <1>0, <1>17, FreshShapes DEF Types, CrashDriver, DriveRecords
<1>18. ASSUME NEW a \in Asks, ResolveAsk(a) PROVE Types'
  <2>1. PICK verdict \in {"approved", "rejected"} : ask' = [ask EXCEPT ![a].status = verdict]
    BY <1>18 DEF ResolveAsk
  <2>2. ask' \in [Asks -> AskRows]
    <3>1. ask[a] \in AskRows /\ ask \in [Asks -> AskRows] BY <1>0 DEF Types
    <3>2. [ask[a] EXCEPT !.status = verdict] \in AskRows BY <3>1 DEF AskRows
    <3>3. ask' = [ask EXCEPT ![a] = [ask[a] EXCEPT !.status = verdict]] BY <2>1
    <3> QED BY <3>1, <3>2, <3>3
  <2> QED BY <1>0, <1>18, <2>2 DEF ResolveAsk, Types
<1>19. CASE CloseCircuit BY <1>0, <1>19 DEF CloseCircuit, Types
<1>20. CASE UNCHANGED runtimeVars BY <1>0, <1>20 DEF runtimeVars, Types
<1> QED
  BY <1>1, <1>2, <1>3, <1>4, <1>5, <1>6, <1>7, <1>8, <1>8b, <1>9, <1>10, <1>11, <1>12,
     <1>13, <1>14, <1>15, <1>16, <1>17, <1>18, <1>19, <1>20 DEF RuntimeNext

-----------------------------------------------------------------------------
(* What a step of the driver does                                          *)

(* The steps of a worker inside the driver. *)
Inner(d) ==
  \/ EnterDrive(d) \/ GuardStep(d) \/ LocalNode(d) \/ ModelTurn(d) \/ NodeTimesOut(d)
  \/ ToolSucceeds(d) \/ ToolRefused(d) \/ ToolPending(d) \/ ToolFails(d) \/ Respond(d)
  \/ ParkCheckpoint(d)
  \/ PersistStep(d) \/ WriteCheckpoint(d)

(* The worker goes on with its run ... *)
Stays(d) == /\ drive'[d].run = drive[d].run /\ drive'[d].ask = drive[d].ask
            /\ drive'[d].approved = drive[d].approved /\ drive'[d].at \notin {"idle", "ack"}
(* ... or leaves it, ended ... *)
Left(d) == drive'[d] = Acking(drive[d].ask)
(* ... or stops at a gate, and an approval is raised for the run. *)
Raised(d) ==
  \E a \in Asks, tool \in Tools :
    /\ ask[a].status = "absent"
    /\ ask' = [ask EXCEPT ![a] = [status |-> "pending", run |-> drive[d].run, tool |-> tool]]

(* A completed node. *)
LEMMA CompletedStays ==
  ASSUME Types, NEW d \in Drivers, NEW s, Completed(d, s)
  PROVE  /\ \A e \in Drivers \ {d} : drive'[e] = drive[e]
         /\ drive'[d].at = "persist" /\ drive'[d].state = [s EXCEPT !.node = drive[d].at, !.seq = @ + 1]
         /\ Stays(d)
BY DEF Completed, Types, DriveRecords, Stays

(* The worker moves to another point. *)
LEMMA GoStays ==
  ASSUME Types, NEW d \in Drivers, NEW p \in Points \ {"idle", "ack"}, Go(d, p)
  PROVE  /\ \A e \in Drivers \ {d} : drive'[e] = drive[e]
         /\ drive'[d].at = p /\ drive'[d].state = drive[d].state /\ Stays(d)
BY DEF Go, Types, DriveRecords, Stays

(* The worker parks its run. *)
LEMMA ParkStays ==
  ASSUME Types, NEW d \in Drivers, NEW tool \in Tools, NEW s, ParkRow(d, tool, s)
  PROVE  /\ \A e \in Drivers \ {d} : drive'[e] = drive[e]
         /\ drive'[d].at = "park" /\ drive'[d].state = [s EXCEPT !.awaiting = tool]
         /\ Stays(d) /\ Raised(d)
<1>1. (CHOOSE a \in FreshAsks : TRUE) \in FreshAsks BY DEF ParkRow
<1>2. Raised(d) BY <1>1 DEF ParkRow, Raised, FreshAsks
<1>3. drive' = [drive EXCEPT ![d].at = "park", ![d].state = [s EXCEPT !.awaiting = tool]]
  BY DEF ParkRow
<1> QED BY <1>2, <1>3 DEF Types, DriveRecords, Stays

(* The worker leaves. *)
LEMMA LeaveLeft ==
  ASSUME Types, NEW d \in Drivers, Leave(d)
  PROVE  Left(d) /\ \A e \in Drivers \ {d} : drive'[e] = drive[e]
BY DEF Leave, Left, Types

(* A step inside the driver, as the approvals see it. *)
LEMMA InnerStep ==
  ASSUME Base, NEW d \in Drivers, Inner(d)
  PROVE  /\ \A e \in Drivers \ {d} : drive'[e] = drive[e]
         /\ Working(d) /\ UNCHANGED events
         /\ Stays(d) \/ Left(d)
         /\ UNCHANGED ask \/ (Raised(d) /\ drive'[d].at = "park" /\ Stays(d))
<1>0. Types /\ drive[d].state \in RunStates BY DEF Base, Types, DriveRecords
<1>1. CASE EnterDrive(d)
  BY <1>0, <1>1, GoStays, LeaveLeft DEF EnterDrive, Halt, Working, At, Points
<1>2. CASE GuardStep(d)
  BY <1>0, <1>2, LeaveLeft, NextNodes, GoStays DEF GuardStep, Working, At, Points, Nodes, Halt
<1>3. CASE LocalNode(d) BY <1>0, <1>3, CompletedStays DEF LocalNode, Working, At
<1>4. CASE ModelTurn(d)
  BY <1>0, <1>4, CompletedStays, LeaveLeft DEF ModelTurn, Halt, Working, At
<1>4b. CASE NodeTimesOut(d)
  BY <1>0, <1>4b, LeaveLeft DEF NodeTimesOut, Halt, Working, At, Nodes
<1>5. CASE ToolSucceeds(d)
  BY <1>0, <1>5 DEF ToolSucceeds, Working, At, Types, DriveRecords, Stays
<1>6. CASE ToolRefused(d)
  BY <1>0, <1>6, CompletedStays, LeaveLeft DEF ToolRefused, Halt, Working, At
<1>7. CASE ToolPending(d)
  BY <1>0, <1>7, RuntimeAssumption, ParkStays DEF ToolPending, NeedsApproval, Working, At
<1>8. CASE ToolFails(d)
  BY <1>0, <1>8, LeaveLeft DEF ToolFails, Working, At, Types, DriveRecords, Stays, Halt
<1>9. CASE Respond(d)
  BY <1>0, <1>9, CompletedStays, ParkStays, RuntimeAssumption DEF Respond, Working, At
<1>10. CASE ParkCheckpoint(d)
  BY <1>0, <1>10, LeaveLeft DEF ParkCheckpoint, Working, At
<1>11. CASE PersistStep(d)
  BY <1>0, <1>11, GoStays DEF PersistStep, Working, At, Points
<1>12. CASE WriteCheckpoint(d)
  BY <1>0, <1>12, GoStays DEF WriteCheckpoint, Working, At, Points
<1> QED BY <1>1, <1>2, <1>3, <1>4, <1>4b, <1>5, <1>6, <1>7, <1>8, <1>9, <1>10, <1>11, <1>12
       DEF Inner

(* A worker that has left holds what it must acknowledge. *)
LEMMA AckingAsk ==
  ASSUME NEW a \in Asks \cup {None}
  PROVE  /\ Acking(a).ask = a /\ Acking(a).approved = {} /\ Acking(a).run = None
         /\ Acking(a).at \in {"idle", "ack"}
         /\ Acking(a).at = "idle" => a = None
BY DEF Acking, Idle

(* Approvals stay with their run and their deliveries with one worker. *)
LEMMA OwnedStep ==
  ASSUME Base, [RuntimeNext]_runtimeVars
  PROVE  AsksOwned'
<1> USE RuntimeAssumption
<1>0. /\ Types /\ AsksOwned /\ ask \in [Asks -> AskRows] /\ events \in [Asks -> Nat]
      /\ \A e \in Drivers : drive[e].ask \in Asks \cup {None}
      /\ drive \in [Drivers -> DriveRecords]
  BY DEF Base, Types, DriveRecords
<1>1. ASSUME UNCHANGED <<ask, events>>, \A e \in Drivers : drive'[e].ask = drive[e].ask
      PROVE  AsksOwned'
  BY <1>0, <1>1 DEF AsksOwned
<1>2. ASSUME NEW d \in Drivers, NEW r \in Runs, StartAgentRun(d, r) \/ ResumeAgentRun(d, r)
      PROVE  AsksOwned'
  BY <1>0, <1>1, <1>2 DEF StartAgentRun, ResumeAgentRun, Base, DrivesSound, Enter
<1>3. ASSUME NEW d \in Drivers, NEW a \in Asks, ResumeAfterApproval(d, a) PROVE AsksOwned'
  BY SMTT(30), <1>0, <1>3, AckingAsk DEF ResumeAfterApproval, Enter, Base, DrivesSound, AsksOwned
<1>4. ASSUME NEW d \in Drivers, AckDelivery(d) PROVE AsksOwned'
  BY <1>0, <1>4 DEF AckDelivery, Idle, AsksOwned
<1>5. ASSUME NEW d \in Drivers, Inner(d) PROVE AsksOwned'
  BY <1>0, <1>1, <1>5, InnerStep, AckingAsk DEF Stays, Left, Raised, Base, DrivesSound,
     AsksOwned, Resolved
<1>6. ASSUME NEW d \in Drivers, CrashDriver(d) PROVE AsksOwned'
  BY <1>0, <1>6 DEF CrashDriver, Idle, AsksOwned
<1>7. ASSUME NEW a \in Asks, ResolveAsk(a) PROVE AsksOwned'
  BY <1>0, <1>7 DEF ResolveAsk, AskRows, Resolved, AsksOwned
<1>8. CASE CloseCircuit \/ UNCHANGED runtimeVars BY <1>1, <1>8 DEF CloseCircuit, runtimeVars
<1> QED
  BY <1>2, <1>3, <1>4, <1>5, <1>6, <1>7, <1>8 DEF RuntimeNext, Inner

(* Only the loop of the driver sends a worker to a node. *)
LEMMA InnerPoints ==
  ASSUME Base, NEW d \in Drivers, Inner(d)
  PROVE  drive'[d].at \in Nodes =>
           /\ NextNode(drive'[d].state) = drive'[d].at /\ drive'[d].state.seq < MaxSteps
<1>0. Types /\ drive[d].state \in RunStates /\ drive[d].ask \in Asks \cup {None}
  BY DEF Base, Types, DriveRecords
<1>1. CASE GuardStep(d)
  BY <1>0, <1>1, LeaveLeft, AckingAsk, NextNodes, GoStays DEF Left, Nodes, Points, GuardStep,
     Halt
<1>2. CASE LocalNode(d) \/ ModelTurn(d) \/ NodeTimesOut(d) \/ ToolRefused(d)
  BY <1>0, <1>2, LeaveLeft, AckingAsk, CompletedStays DEF Left, Nodes, LocalNode, ModelTurn,
     NodeTimesOut, ToolRefused, Halt
<1>3. CASE ToolSucceeds(d) BY <1>0, <1>3 DEF ToolSucceeds, Types, DriveRecords, Nodes
<1>4. CASE ToolPending(d) \/ Respond(d)
  <2>1. CASE \E s : Completed(d, s) BY <1>0, <2>1, CompletedStays DEF Nodes
  <2>2. CASE \E s, tool : ParkRow(d, tool, s)
    BY <1>0, <2>2 DEF ParkRow, Types, DriveRecords, Nodes
  <2> QED BY <1>4, <2>1, <2>2 DEF ToolPending, Respond
<1>5. CASE EnterDrive(d) \/ ToolFails(d) \/ ParkCheckpoint(d)
  <2>1. CASE Leave(d) BY <1>0, <2>1, LeaveLeft, AckingAsk DEF Left, Nodes
  <2>2. CASE Go(d, "guard") BY <1>0, <2>2, GoStays DEF Points, Nodes
  <2>3. CASE drive' = [drive EXCEPT ![d].at = "guard", ![d].retries = @ + 1]
    BY <1>0, <2>3 DEF Types, DriveRecords, Nodes
  <2> QED BY <1>5, <2>1, <2>2, <2>3 DEF EnterDrive, ToolFails, ParkCheckpoint, Halt
<1>6. CASE PersistStep(d) \/ WriteCheckpoint(d)
  BY <1>0, <1>6, GoStays DEF PersistStep, WriteCheckpoint, Points, Nodes
<1> QED BY <1>1, <1>2, <1>3, <1>4, <1>5, <1>6 DEF Inner

(* Workers stay where their state leads. *)
LEMMA SoundStep ==
  ASSUME Base, [RuntimeNext]_runtimeVars
  PROVE  DrivesSound'
<1> USE RuntimeAssumption
<1>0. /\ Types /\ AsksOwned /\ DrivesSound /\ ask \in [Asks -> AskRows]
      /\ drive \in [Drivers -> DriveRecords]
      /\ \A e \in Drivers : drive[e].ask \in Asks \cup {None}
  BY DEF Base, Types, DriveRecords
<1>1. ASSUME NEW d \in Drivers, \A e \in Drivers \ {d} : drive'[e] = drive[e],
             \A a \in Asks : ask[a].status # "absent" => ask'[a].run = ask[a].run,
             drive'[d].at = "idle" => drive'[d].ask = None,
             drive'[d].at \notin {"idle", "ack"} =>
               /\ drive'[d].run \in Runs
               /\ drive'[d].ask # None => ask'[drive'[d].ask].run = drive'[d].run,
             drive'[d].at \in Nodes =>
               NextNode(drive'[d].state) = drive'[d].at /\ drive'[d].state.seq < MaxSteps
      PROVE  DrivesSound'  BY <1>0, <1>1 DEF AsksOwned, Resolved, Working, At, DrivesSound
<1>2. ASSUME NEW d \in Drivers, NEW r \in Runs, StartAgentRun(d, r) \/ ResumeAgentRun(d, r)
      PROVE  DrivesSound'
  BY <1>0, <1>1, <1>2 DEF StartAgentRun, ResumeAgentRun, DrivesSound, Working, At, Enter,
     Nodes
<1>3. ASSUME NEW d \in Drivers, NEW a \in Asks, ResumeAfterApproval(d, a) PROVE DrivesSound'
  BY <1>0, <1>1, <1>3, AckingAsk DEF ResumeAfterApproval, AsksOwned, Resolved, Nodes, Enter
<1>4. ASSUME NEW d \in Drivers, AckDelivery(d) \/ CrashDriver(d) PROVE DrivesSound'
  BY <1>0, <1>1, <1>4 DEF AckDelivery, CrashDriver, Idle, Nodes
<1>5. ASSUME NEW d \in Drivers, Inner(d) PROVE DrivesSound'
  BY <1>0, <1>1, <1>5, InnerStep, InnerPoints, AckingAsk DEF Raised, Left, DrivesSound,
     AsksOwned, Resolved, Stays
<1>6. ASSUME NEW a \in Asks, ResolveAsk(a) PROVE DrivesSound'
  BY <1>0, <1>6 DEF ResolveAsk, AskRows, DrivesSound, Working, At
<1>7. CASE CloseCircuit \/ UNCHANGED runtimeVars
  BY <1>0, <1>7 DEF CloseCircuit, runtimeVars, DrivesSound, Working, At
<1> QED
  BY <1>2, <1>3, <1>4, <1>5, <1>6, <1>7 DEF RuntimeNext, Inner

-----------------------------------------------------------------------------
(* Consent                                                                 *)

(* The owner approved something for run r. *)
Consent(r) == \E a \in Asks : ask[a].run = r /\ ask[a].status = "approved"
ConsentNext(r) == \E a \in Asks : ask'[a].run = r /\ ask'[a].status = "approved"

(* A worker lets a tool through only for a run the owner has consented to. *)
ConsentHeld == \A d \in Drivers : drive[d].approved # {} => Consent(drive[d].run)

(* An approval keeps its run, and stays approved (service.py). *)
LEMMA AsksStay ==
  ASSUME Base, [RuntimeNext]_runtimeVars, NEW a \in Asks, ask[a].status # "absent"
  PROVE  /\ ask'[a].run = ask[a].run
         /\ ask[a].status \in Resolved => ask'[a].status = ask[a].status
<1>0. Types /\ ask \in [Asks -> AskRows] BY DEF Base, Types
<1>1. CASE UNCHANGED ask BY <1>1
<1>2. CASE \E d \in Drivers : Raised(d) BY <1>0, <1>2 DEF Raised
<1>3. CASE \E b \in Asks : ResolveAsk(b)  BY <1>0, <1>3 DEF ResolveAsk, AskRows, Resolved
<1>4. ASSUME NEW d \in Drivers, Inner(d) PROVE UNCHANGED ask \/ Raised(d) BY <1>4, InnerStep
<1> QED
  BY <1>1, <1>2, <1>3, <1>4
     DEF RuntimeNext, Inner, StartAgentRun, ResumeAgentRun, ResumeAfterApproval, AckDelivery,
         CrashDriver, CloseCircuit, runtimeVars

(* Consent, once given, is kept. *)
LEMMA ConsentStays ==
  ASSUME Base, [RuntimeNext]_runtimeVars, NEW r \in Runs, Consent(r)
  PROVE  ConsentNext(r)
<1>1. PICK a \in Asks : ask[a].run = r /\ ask[a].status = "approved" BY DEF Consent
<1>2. ask'[a].run = r /\ ask'[a].status = "approved" BY <1>1, AsksStay DEF Resolved
<1> QED BY <1>2 DEF ConsentNext

(* What a worker is allowed comes from an approval of its run              *)
(* (resume_after_approval).                                                *)
LEMMA HeldStep ==
  ASSUME Base, ConsentHeld, [RuntimeNext]_runtimeVars
  PROVE  ConsentHeld'
<1>0. /\ Types /\ AsksOwned /\ drive \in [Drivers -> DriveRecords]
      /\ \A e \in Drivers : drive[e].ask \in Asks \cup {None}
      /\ DrivesSound
  BY DEF Base, Types, DriveRecords
<1> DEFINE Holds(e) == drive'[e].approved # {} => ConsentNext(drive'[e].run)
<1>1. ASSUME NEW e \in Drivers, drive'[e].approved = drive[e].approved,
             drive'[e].run = drive[e].run, drive[e].approved # {} => drive[e].run \in Runs
      PROVE  Holds(e)
  BY <1>1, ConsentStays DEF ConsentHeld
<1>2. \A e \in Drivers : drive[e].approved # {} => drive[e].run \in Runs
  BY <1>0 DEF ConsentHeld, Consent, AsksOwned
<1>3. ASSUME NEW d \in Drivers, \A e \in Drivers \ {d} : drive'[e] = drive[e], Holds(d)
      PROVE  ConsentHeld'  BY <1>1, <1>2, <1>3 DEF ConsentHeld, Consent, ConsentNext
<1>4. ASSUME UNCHANGED drive PROVE ConsentHeld'
  BY <1>1, <1>2, <1>4 DEF ConsentHeld, Consent, ConsentNext
<1>5. ASSUME NEW d \in Drivers, NEW r \in Runs, StartAgentRun(d, r) \/ ResumeAgentRun(d, r)
      PROVE  ConsentHeld'  BY <1>0, <1>3, <1>4, <1>5 DEF Enter, StartAgentRun, ResumeAgentRun
<1>6. ASSUME NEW d \in Drivers, NEW a \in Asks, ResumeAfterApproval(d, a) PROVE ConsentHeld'
  BY <1>0, <1>3, <1>6, AckingAsk, ConsentStays DEF Enter, Consent, AsksOwned,
     ResumeAfterApproval
<1>7. ASSUME NEW d \in Drivers, AckDelivery(d) \/ CrashDriver(d) PROVE ConsentHeld'
  BY <1>0, <1>3, <1>7 DEF AckDelivery, CrashDriver, Idle
<1>8. ASSUME NEW d \in Drivers, Inner(d) PROVE ConsentHeld'
  BY <1>0, <1>1, <1>2, <1>3, <1>8, InnerStep, AckingAsk DEF Stays, Left
<1>9. CASE (\E a \in Asks : ResolveAsk(a)) \/ CloseCircuit \/ UNCHANGED runtimeVars
  BY <1>4, <1>9 DEF ResolveAsk, CloseCircuit, runtimeVars
<1> QED
  BY <1>5, <1>6, <1>7, <1>8, <1>9 DEF RuntimeNext, Inner

(* A gated tool takes effect only in ToolSucceeds, for a run with consent  *)
(* (the tier gate of proxy.call).                                          *)
LEMMA ActedStep ==
  ASSUME Base, ConsentHeld, GatedNeedsConsent, [RuntimeNext]_runtimeVars
  PROVE  GatedNeedsConsent'
<1>0. Types /\ DrivesSound /\ acted \in [Runs -> [Gated -> Nat]] BY DEF Base, Types
<1>1. SUFFICES ASSUME NEW r \in Runs, NEW t \in Gated, acted'[r][t] > 0
               PROVE  ConsentNext(r)
  BY DEF GatedNeedsConsent, ConsentNext
<1>2. CASE UNCHANGED acted
  <2>1. Consent(r) BY <1>1, <1>2 DEF GatedNeedsConsent, Consent
  <2> QED BY <2>1, ConsentStays
<1>3. ASSUME NEW d \in Drivers,
             ToolSucceeds(d) \/ (NodeTimesOut(d) /\ acted' # acted)
      PROVE  ConsentNext(r)
  <2>1. CASE acted'[r][t] = acted[r][t]
    <3>1. Consent(r) BY <1>1, <2>1 DEF GatedNeedsConsent, Consent
    <3> QED BY <3>1, ConsentStays
  <2>2. CASE acted'[r][t] # acted[r][t]
    BY <1>0, <1>3, <2>2, ConsentStays
       DEF ToolSucceeds, NodeTimesOut, Acts, NeedsApproval, ConsentHeld
  <2> QED BY <2>1, <2>2
<1> QED
  BY ZenonT(60), <1>2, <1>3
     DEF RuntimeNext, StartAgentRun, ResumeAgentRun, ResumeAfterApproval, AckDelivery,
         EnterDrive, GuardStep, LocalNode, ModelTurn, NodeTimesOut, ToolRefused, ToolPending,
         ToolFails, Respond, ParkCheckpoint, PersistStep, WriteCheckpoint, CrashDriver,
         ResolveAsk,
         CloseCircuit, runtimeVars

-----------------------------------------------------------------------------
(* Checkpoints and step rows                                               *)

(* A completed node of worker d. *)
NodeDone(d) ==
  /\ drive[d].at \in Nodes \ {"start"} /\ drive'[d].at = "persist"
  /\ drive'[d].state.node = drive[d].at /\ drive'[d].state.seq = drive[d].state.seq + 1
(* Worker d goes on with the state it has. *)
StateKept(d) ==
  /\ drive'[d].at # "persist"
  /\ drive'[d].state.node = drive[d].state.node /\ drive'[d].state.seq = drive[d].state.seq
  /\ drive'[d].at = "park" => drive[d].at \in {"tool", "respond"}
  /\ drive'[d].at = "checkpoint" => PersistStep(d)

(* A completed node. *)
LEMMA CompletedDone ==
  ASSUME Types, NEW d \in Drivers, NEW s \in RunStates, Completed(d, s),
         s.seq = drive[d].state.seq, drive[d].at \in Nodes \ {"start"}
  PROVE  NodeDone(d)
<1>1. drive'[d].at = "persist" /\ drive'[d].state = [s EXCEPT !.node = drive[d].at, !.seq = @ + 1]
  BY CompletedStays
<1> QED BY <1>1 DEF NodeDone, RunStates

(* What a step inside the driver does to the state of the run. *)
LEMMA InnerStates ==
  ASSUME Base, NEW d \in Drivers, Inner(d)
  PROVE  NodeDone(d) \/ StateKept(d) \/ Left(d)
<1>0. Types /\ drive[d].state \in RunStates BY DEF Base, Types, DriveRecords
<1> DEFINE s == drive[d].state
<1>1. CASE EnterDrive(d)
  BY <1>0, <1>1, GoStays, LeaveLeft DEF EnterDrive, Halt, Points, StateKept
<1>2. CASE GuardStep(d)
  BY <1>0, <1>2, LeaveLeft, NextNodes, GoStays DEF Points, Nodes, StateKept, GuardStep, Halt
<1>3. CASE LocalNode(d)
  BY <1>0, <1>3, CompletedDone DEF LocalNode, Nodes
<1>4. CASE ModelTurn(d)
  BY <1>0, <1>4, CompletedDone, LeaveLeft DEF ModelTurn, At, Nodes, RunStates, Halt
<1>4b. CASE NodeTimesOut(d) BY <1>0, <1>4b, LeaveLeft DEF NodeTimesOut, Halt
<1>5. CASE ToolSucceeds(d)
  BY <1>0, <1>5 DEF ToolSucceeds, Types, DriveRecords, RunStates, At, NodeDone, Nodes
<1>6. CASE ToolRefused(d)
  <2>1. CASE Completed(d, [s EXCEPT !.calls = @ + 1, !.tool = None])
    <3>1. drive'[d].at = "persist"
          /\ drive'[d].state = [[s EXCEPT !.calls = @ + 1, !.tool = None]
                                  EXCEPT !.node = drive[d].at, !.seq = @ + 1]
      BY <1>0, <2>1, CompletedStays
    <3> QED BY <1>0, <1>6, <3>1 DEF ToolRefused, At, NodeDone, RunStates, Nodes
  <2>2. CASE Leave(d) BY <1>0, <2>2, LeaveLeft
  <2> QED BY <1>6, <2>1, <2>2 DEF ToolRefused, Halt
<1>7. CASE ToolPending(d)
  <2>1. s.tool \in Tools BY <1>7, RuntimeAssumption DEF ToolPending, NeedsApproval
  <2>2. drive'[d].at = "park"
        /\ drive'[d].state = [[s EXCEPT !.decision = "tool"] EXCEPT !.awaiting = s.tool]
    <3> DEFINE tool == s.tool
               p == [s EXCEPT !.decision = "tool"]
    <3>1. ParkRow(d, tool, p) /\ tool \in Tools BY <1>7, <2>1 DEF ToolPending
    <3> HIDE DEF tool, p
    <3>2. drive'[d].at = "park" /\ drive'[d].state = [p EXCEPT !.awaiting = tool]
      BY <1>0, <3>1, ParkStays
    <3> QED BY <3>2 DEF tool, p
  <2> QED BY <1>0, <1>7, <2>2 DEF ToolPending, At, StateKept, RunStates
<1>8. CASE ToolFails(d)
  BY <1>0, <1>8, LeaveLeft DEF Types, DriveRecords, StateKept, ToolFails, Halt
<1>9. CASE Respond(d)
  <2>1. CASE Completed(d, s) BY <1>0, <1>9, <2>1, CompletedDone DEF Respond, At, Nodes
  <2>2. CASE ParkRow(d, Reply, [s EXCEPT !.decision = "respond"])
    <3>1. drive'[d].at = "park"
          /\ drive'[d].state = [[s EXCEPT !.decision = "respond"] EXCEPT !.awaiting = Reply]
      BY <1>0, <2>2, ParkStays, RuntimeAssumption
    <3> QED BY <1>0, <1>9, <3>1 DEF Respond, At, StateKept, RunStates
  <2> QED BY <1>9, <2>1, <2>2 DEF Respond
<1>10. CASE ParkCheckpoint(d) BY <1>0, <1>10, LeaveLeft DEF ParkCheckpoint
<1>11. CASE PersistStep(d)  BY <1>0, <1>11, GoStays DEF PersistStep, Points, StateKept
<1>12. CASE WriteCheckpoint(d)  BY <1>0, <1>12, GoStays DEF WriteCheckpoint, Points, StateKept
<1> QED BY <1>1, <1>2, <1>3, <1>4, <1>4b, <1>5, <1>6, <1>7, <1>8, <1>9, <1>10, <1>11, <1>12
       DEF Inner

(* What worker d has completed is in the step rows, but for the node it is *)
(* about to persist.                                                       *)
Covered(d) ==
  /\ drive[d].at \in {"persist", "checkpoint", "park"} => drive[d].state.node # "start"
  /\ drive[d].at # "persist" /\ drive[d].state.node # "start" =>
       /\ steps[drive[d].run] # NoState
       /\ drive[d].state.seq <= steps[drive[d].run].seq
Behind == CheckpointBehindSteps /\ \A d \in Drivers : Working(d) => Covered(d)

(* The newest step row of a run only moves forward (_persist_step). *)
LEMMA RowsForward ==
  ASSUME Base, [RuntimeNext]_runtimeVars, NEW r \in Runs
  PROVE  /\ steps[r] # NoState => steps'[r] # NoState /\ steps[r].seq <= steps'[r].seq
         /\ steps'[r] # steps[r] =>
              \E d \in Drivers : PersistStep(d) /\ drive[d].run = r
<1>0. /\ Types /\ steps \in [Runs -> RunStates \cup {NoState}]
      /\ \A d \in Drivers : drive[d].state \in RunStates
  BY DEF Base, Types, DriveRecords
<1>1. CASE UNCHANGED steps  BY <1>0, <1>1, RuntimeAssumption, StateShapes
<1>2. ASSUME NEW d \in Drivers, PersistStep(d)
      PROVE  /\ steps[r] # NoState => steps'[r] # NoState /\ steps[r].seq <= steps'[r].seq
             /\ steps'[r] # steps[r] => PersistStep(d) /\ drive[d].run = r
  BY <1>0, <1>2, RuntimeAssumption, StateShapes DEF PersistStep
<1> QED
  BY ZenonT(60), <1>1, <1>2
     DEF RuntimeNext, StartAgentRun, ResumeAgentRun, ResumeAfterApproval, AckDelivery,
         EnterDrive, GuardStep, LocalNode, ModelTurn, NodeTimesOut, ToolSucceeds, ToolRefused,
         ToolPending, ToolFails, Respond, ParkCheckpoint, WriteCheckpoint, CrashDriver,
         ResolveAsk,
         CloseCircuit, runtimeVars

(* The checkpoint never runs ahead of the step rows (_write_checkpoint     *)
(* comes after _persist_step).                                             *)
LEMMA BehindStep ==
  ASSUME Base, Behind, [RuntimeNext]_runtimeVars
  PROVE  Behind'
<1> USE RuntimeAssumption
<1>0. /\ Types /\ DrivesSound /\ AsksOwned /\ drive \in [Drivers -> DriveRecords]
      /\ ckpt \in [Runs -> RunStates \cup {NoState}]
      /\ steps \in [Runs -> RunStates \cup {NoState}]
      /\ \A d \in Drivers : drive[d].state \in RunStates
      /\ \A r \in Runs : /\ steps'[r] \in RunStates \cup {NoState}
                         /\ ckpt'[r] \in RunStates \cup {NoState}
      /\ NoState.seq = 0 /\ \A s \in RunStates : s.seq \in Nat /\ s # NoState
  <2>1. /\ Types /\ DrivesSound /\ AsksOwned /\ drive \in [Drivers -> DriveRecords]
        /\ ckpt \in [Runs -> RunStates \cup {NoState}]
        /\ steps \in [Runs -> RunStates \cup {NoState}]
        /\ \A d \in Drivers : drive[d].state \in RunStates
    BY DEF Base, Types, DriveRecords
  <2>2. /\ steps' \in [Runs -> RunStates \cup {NoState}]
        /\ ckpt' \in [Runs -> RunStates \cup {NoState}]
    BY TypesStep DEF Types
  <2>3. NoState.seq = 0 BY DEF NoState, Fresh
  <2>4. \A s \in RunStates : s.seq \in Nat /\ s # NoState BY StateShapes
  <2> QED BY <2>1, <2>2, <2>3, <2>4
<1> DEFINE CoveredNext(e) ==
      /\ drive'[e].at \in {"persist", "checkpoint", "park"} => drive'[e].state.node # "start"
      /\ drive'[e].at # "persist" /\ drive'[e].state.node # "start" =>
           /\ steps'[drive'[e].run] # NoState
           /\ drive'[e].state.seq <= steps'[drive'[e].run].seq
(* a worker that has not moved is still covered *)
<1>1. ASSUME NEW e \in Drivers, drive'[e] = drive[e], Working(e) PROVE CoveredNext(e)
  BY <1>0, <1>1, RowsForward DEF Behind, DrivesSound, Covered
<1>2. ASSUME NEW d \in Drivers, \A e \in Drivers \ {d} : drive'[e] = drive[e],
             drive'[d].at \notin {"idle", "ack"} => CoveredNext(d)
      PROVE  \A e \in Drivers : Working(e)' => Covered(e)'
  BY <1>1, <1>2 DEF Working, At, Covered
<1>3. ASSUME NEW d \in Drivers, NEW r \in Runs, NEW s \in RunStates, NEW ok, NEW a,
             Enter(d, r, s, ok, a),
             s.node # "start" => steps[r] # NoState /\ s.seq <= steps[r].seq
      PROVE  \A e \in Drivers : Working(e)' => Covered(e)'
  BY <1>0, <1>2, <1>3, RowsForward DEF Enter
<1>4. ASSUME UNCHANGED drive PROVE \A e \in Drivers : Working(e)' => Covered(e)'
  BY <1>1, <1>4 DEF Working, At, Covered
<1>5. ASSUME UNCHANGED ckpt PROVE CheckpointBehindSteps'
  BY <1>0, <1>5, RowsForward DEF Behind, CheckpointBehindSteps
<1>6. ASSUME NEW d \in Drivers, NEW r \in Runs, StartAgentRun(d, r) PROVE Behind'
  BY <1>3, <1>4, <1>5, <1>6, FreshShapes DEF Fresh, StartAgentRun, Behind
<1>7. ASSUME NEW d \in Drivers, NEW r \in Runs, ResumeAgentRun(d, r) PROVE Behind'
  <2>1. Fresh \in RunStates /\ Fresh.node = "start" BY FreshShapes DEF Fresh
  <2> DEFINE s == CASE ckpt[r] # NoState -> ckpt[r]
                    [] ckpt[r] = NoState /\ steps[r] # NoState -> steps[r]
                    [] OTHER -> Fresh
  <2>2. Enter(d, r, s, {}, None) BY <1>7 DEF ResumeAgentRun
  <2>3. s \in RunStates BY <1>0, <2>1
  <2>4. s.node # "start" => steps[r] # NoState /\ s.seq <= steps[r].seq
    BY <1>0, <2>1 DEF Behind, CheckpointBehindSteps
  <2> HIDE DEF s
  <2>5. \A e \in Drivers : Working(e)' => Covered(e)' BY <1>3, <2>2, <2>3, <2>4
  <2> QED BY <1>5, <1>7, <2>5 DEF ResumeAgentRun, Behind
<1>8. ASSUME NEW d \in Drivers, NEW a \in Asks, ResumeAfterApproval(d, a) PROVE Behind'
  <2>1. ask[a].run \in Runs
    BY <1>0, <1>8 DEF ResumeAfterApproval, AsksOwned, Resolved
  <2> DEFINE r == ask[a].run
             ready == [ckpt[r] EXCEPT !.awaiting = None]
             closing == [ready EXCEPT !.decision = "respond", !.tool = None]
  <2>2. CASE drive' = [drive EXCEPT ![d] = Acking(a)]
    BY <1>0, <1>2, <1>5, <1>8, <2>2, AckingAsk DEF ResumeAfterApproval, Behind
  <2>3. CASE ckpt[r] # NoState /\ \E s \in {ready, closing} : \E ok : Enter(d, r, s, ok, a)
    <3>1. ckpt[r] \in RunStates BY <1>0, <2>1, <2>3
    <3>2. /\ ready \in RunStates /\ ready.node = ckpt[r].node /\ ready.seq = ckpt[r].seq
          /\ closing \in RunStates /\ closing.node = ckpt[r].node
          /\ closing.seq = ckpt[r].seq
      BY <3>1 DEF RunStates
    <3>3. steps[r] # NoState /\ ckpt[r].seq <= steps[r].seq
      BY <2>1, <2>3 DEF Behind, CheckpointBehindSteps
    <3>4. PICK s, ok : s \in {ready, closing} /\ Enter(d, r, s, ok, a) BY <2>3
    <3>5. s \in RunStates /\ s.seq <= steps[r].seq BY <3>2, <3>3, <3>4
    <3>6. \A e \in Drivers : Working(e)' => Covered(e)' BY <1>3, <2>1, <3>3, <3>4, <3>5
    <3> QED BY <1>5, <1>8, <3>6 DEF ResumeAfterApproval, Behind
  <2> QED BY <1>8, <2>2, <2>3 DEF ResumeAfterApproval
<1>9. ASSUME NEW d \in Drivers, AckDelivery(d) \/ CrashDriver(d) PROVE Behind'
  BY <1>0, <1>2, <1>5, <1>9 DEF AckDelivery, CrashDriver, Idle, Behind
<1>10. ASSUME NEW d \in Drivers, Inner(d) PROVE \A e \in Drivers : Working(e)' => Covered(e)'
  <2>1. /\ \A e \in Drivers \ {d} : drive'[e] = drive[e]
        /\ Working(d) /\ (Stays(d) \/ Left(d))
    BY <1>10, InnerStep
  <2>2. Covered(d) /\ drive[d].run \in Runs BY <1>0, <2>1 DEF Behind, DrivesSound
  <2>3. CASE Left(d)  BY <1>0, <1>2, <2>1, <2>3, AckingAsk DEF Left, DriveRecords
  <2>4. CASE NodeDone(d)  BY <1>2, <2>1, <2>4 DEF NodeDone
  <2>5. CASE Stays(d) /\ StateKept(d) /\ PersistStep(d)
    BY <1>0, <1>2, <2>1, <2>2, <2>5 DEF Stays, PersistStep, At, Covered, StateKept
  <2>6. CASE Stays(d) /\ StateKept(d) /\ ~ PersistStep(d)
    <3>1. drive'[d].run = drive[d].run BY <2>6 DEF Stays
    <3>2. drive'[d].at = "park" => drive'[d].state.node # "start"
      BY <1>0, <2>6, NextNodes DEF StateKept, DrivesSound, Nodes
    <3>3. drive[d].at # "persist"
      <4>1. drive[d].at = "persist" => PersistStep(d)
        BY <1>10 DEF Inner, EnterDrive, GuardStep, LocalNode, ModelTurn, NodeTimesOut, Nodes,
                     ToolSucceeds, ToolRefused, ToolPending, ToolFails, Respond,
                     ParkCheckpoint, WriteCheckpoint, At
      <4> QED BY <2>6, <4>1
    <3>4. steps[drive[d].run] # NoState =>
            /\ steps'[drive[d].run] # NoState
            /\ steps[drive[d].run].seq <= steps'[drive[d].run].seq
      BY <2>2, RowsForward
    <3>5. /\ drive[d].state.seq \in Nat /\ steps[drive[d].run].seq \in Nat
          /\ steps'[drive[d].run].seq \in Nat
      BY <1>0, <2>2
    <3>6. CoveredNext(d)
      BY <2>2, <2>6, <3>1, <3>2, <3>3, <3>4, <3>5 DEF StateKept, Covered
    <3> QED BY <1>2, <2>1, <3>6
  <2>7. NodeDone(d) \/ StateKept(d) \/ Left(d) BY <1>10, InnerStates
  <2> QED BY <2>1, <2>3, <2>4, <2>5, <2>6, <2>7
<1>11. ASSUME NEW d \in Drivers, Inner(d) PROVE CheckpointBehindSteps'
  <2>1. CASE UNCHANGED ckpt BY <1>5, <2>1
  <2>2. CASE ParkCheckpoint(d) \/ WriteCheckpoint(d)
    BY <1>0, <2>2 DEF ParkCheckpoint, WriteCheckpoint, Behind, DrivesSound, Working, At,
       Covered, CheckpointBehindSteps
  <2> QED
    BY <1>11, <2>1, <2>2 DEF Inner, EnterDrive, GuardStep, LocalNode, ModelTurn, NodeTimesOut,
      ToolSucceeds, ToolRefused, ToolPending, ToolFails, Respond, PersistStep
<1>12. CASE (\E a \in Asks : ResolveAsk(a)) \/ CloseCircuit \/ UNCHANGED runtimeVars
  BY <1>4, <1>5, <1>12 DEF ResolveAsk, CloseCircuit, runtimeVars, Behind
<1>13. ASSUME NEW d \in Drivers, Inner(d) PROVE Behind'
  BY <1>10, <1>11, <1>13 DEF Behind
<1> QED
  BY <1>6, <1>7, <1>8, <1>9, <1>12, <1>13 DEF RuntimeNext, Inner

-----------------------------------------------------------------------------
(* Parked runs                                                             *)

(* A state counts the nodes on the way to its own. *)
Ripe(s) ==
  /\ s.node = "route" => s.seq >= 1
  /\ s.node = "compose" => s.seq >= 2
  /\ s.node \in {"model", "tool", "respond"} => s.seq >= 3
AllRipe ==
  /\ \A d \in Drivers : Ripe(drive[d].state)
  /\ \A r \in Runs : Ripe(ckpt[r]) /\ Ripe(steps[r])

(* A checkpoint, once written, stays; it is the state of a worker          *)
(* (_write_checkpoint).                                                    *)
LEMMA CheckpointForward ==
  ASSUME Base, [RuntimeNext]_runtimeVars, NEW r \in Runs
  PROVE  /\ ckpt[r] # NoState => ckpt'[r] # NoState
         /\ ckpt'[r] # ckpt[r] =>
              \E d \in Drivers : /\ ParkCheckpoint(d) \/ WriteCheckpoint(d)
                                 /\ drive[d].run = r /\ ckpt'[r] = drive[d].state
<1>0. /\ Types /\ ckpt \in [Runs -> RunStates \cup {NoState}]
      /\ \A d \in Drivers : drive[d].state \in RunStates
  BY DEF Base, Types, DriveRecords
<1>1. CASE UNCHANGED ckpt BY <1>1
<1>2. ASSUME NEW d \in Drivers, ParkCheckpoint(d) \/ WriteCheckpoint(d)
      PROVE  /\ ckpt[r] # NoState => ckpt'[r] # NoState
             /\ ckpt'[r] # ckpt[r] => drive[d].run = r /\ ckpt'[r] = drive[d].state
  BY <1>0, <1>2, StateShapes DEF ParkCheckpoint, WriteCheckpoint
<1> QED
  BY ZenonT(60), <1>1, <1>2
     DEF RuntimeNext, StartAgentRun, ResumeAgentRun, ResumeAfterApproval, AckDelivery,
         EnterDrive, GuardStep, LocalNode, ModelTurn, NodeTimesOut, ToolSucceeds, ToolRefused,
         ToolPending, ToolFails, Respond, PersistStep, CrashDriver, ResolveAsk, CloseCircuit,
         runtimeVars

(* Nodes are completed in their order (next_node). *)
LEMMA RipeStep ==
  ASSUME Base, AllRipe, [RuntimeNext]_runtimeVars
  PROVE  AllRipe'
<1> USE RuntimeAssumption
<1>0. /\ Types /\ DrivesSound /\ AsksOwned /\ drive \in [Drivers -> DriveRecords]
      /\ ckpt \in [Runs -> RunStates \cup {NoState}]
      /\ steps \in [Runs -> RunStates \cup {NoState}]
      /\ \A d \in Drivers : drive[d].state \in RunStates /\ drive[d].ask \in Asks \cup {None}
  BY DEF Base, Types, DriveRecords
<1>1. ASSUME NEW r \in Runs PROVE Ripe(ckpt'[r]) /\ Ripe(steps'[r])
  BY <1>0, CheckpointForward, RowsForward DEF AllRipe, PersistStep
<1>2. ASSUME NEW d \in Drivers, Ripe(drive'[d].state), \A e \in Drivers \ {d} : drive'[e] = drive[e]
      PROVE  AllRipe'  BY <1>1, <1>2 DEF AllRipe, Ripe
<1>3. ASSUME UNCHANGED drive PROVE AllRipe'  BY <1>1, <1>3 DEF AllRipe, Ripe
<1>4. ASSUME NEW d \in Drivers, NEW r, NEW s, NEW ok, NEW a, Enter(d, r, s, ok, a), Ripe(s)
      PROVE  AllRipe'  BY <1>0, <1>2, <1>4 DEF Enter
<1>5. Ripe(Fresh) BY DEF Ripe, Fresh
<1>6. ASSUME NEW d \in Drivers, NEW r \in Runs, StartAgentRun(d, r) \/ ResumeAgentRun(d, r)
      PROVE  AllRipe'
  <2>1. CASE StartAgentRun(d, r) BY <1>3, <1>4, <1>5, <2>1 DEF StartAgentRun
  <2>2. CASE ResumeAgentRun(d, r)
    <3> DEFINE s == CASE ckpt[r] # NoState -> ckpt[r]
                      [] ckpt[r] = NoState /\ steps[r] # NoState -> steps[r]
                      [] OTHER -> Fresh
    <3>1. Enter(d, r, s, {}, None) BY <2>2 DEF ResumeAgentRun
    <3>2. Ripe(s)  BY <1>5 DEF AllRipe
    <3> HIDE DEF s
    <3> QED BY <1>4, <3>1, <3>2
  <2> QED BY <1>6, <2>1, <2>2
<1>7. ASSUME NEW d \in Drivers, NEW a \in Asks, ResumeAfterApproval(d, a) PROVE AllRipe'
  <2>1. ask[a].run \in Runs
    BY <1>0, <1>7 DEF ResumeAfterApproval, AsksOwned, Resolved
  <2> DEFINE r == ask[a].run
             ready == [ckpt[r] EXCEPT !.awaiting = None]
             closing == [ready EXCEPT !.decision = "respond", !.tool = None]
  <2>2. CASE drive' = [drive EXCEPT ![d] = Acking(a)]
    BY <1>0, <1>2, <1>5, <2>2 DEF Acking, Idle
  <2>3. CASE ckpt[r] # NoState /\ \E s \in {ready, closing} : \E ok : Enter(d, r, s, ok, a)
    <3>1. ckpt[r] \in RunStates /\ Ripe(ckpt[r]) BY <1>0, <2>1, <2>3 DEF AllRipe
    <3>2. /\ ready.node = ckpt[r].node /\ ready.seq = ckpt[r].seq
          /\ closing.node = ckpt[r].node /\ closing.seq = ckpt[r].seq
      BY <3>1 DEF RunStates
    <3>3. PICK s, ok : s \in {ready, closing} /\ Enter(d, r, s, ok, a) BY <2>3
    <3>4. s.node = ckpt[r].node /\ s.seq = ckpt[r].seq BY <3>2, <3>3
    <3>5. Ripe(s) BY <3>1, <3>4 DEF Ripe
    <3> QED BY <1>4, <3>3, <3>5
  <2> QED BY <1>7, <2>2, <2>3 DEF ResumeAfterApproval
<1>8. ASSUME NEW d \in Drivers, AckDelivery(d) \/ CrashDriver(d) PROVE AllRipe'
  BY <1>0, <1>2, <1>5, <1>8 DEF AckDelivery, CrashDriver, Idle
<1>9. ASSUME NEW d \in Drivers, Inner(d) PROVE AllRipe'
  <2>0. \A e \in Drivers \ {d} : drive'[e] = drive[e] BY <1>9, InnerStep
  <2>1. CASE Left(d)
    <3>1. drive'[d].state = Fresh BY <2>1 DEF Left, Acking, Idle
    <3> QED BY <1>2, <1>5, <2>0, <3>1
  <2>2. CASE StateKept(d)  BY <1>2, <2>0, <2>2 DEF AllRipe, StateKept, Ripe
  <2>3. CASE NodeDone(d)
    BY <1>0, <1>2, <2>0, <2>3, StateShapes, NextNodes DEF AllRipe, NodeDone, DrivesSound, Ripe
  <2> QED BY <1>9, <2>1, <2>2, <2>3, InnerStates
<1>10. CASE (\E a \in Asks : ResolveAsk(a)) \/ CloseCircuit \/ UNCHANGED runtimeVars
  BY <1>3, <1>10 DEF ResolveAsk, CloseCircuit, runtimeVars
<1> QED
  BY <1>6, <1>7, <1>8, <1>9, <1>10 DEF RuntimeNext, Inner

(* Faults are only ever counted. *)
LEMMA FaultsGrow ==
  ASSUME Base, [RuntimeNext]_runtimeVars
  PROVE  /\ faults'.recoveries \in Nat /\ faults'.crashes \in Nat
         /\ faults.recoveries <= faults'.recoveries /\ faults.crashes <= faults'.crashes
         /\ \A d \in Drivers, r \in Runs :
              ResumeAgentRun(d, r) => faults'.recoveries = faults.recoveries + 1
         /\ \A d \in Drivers : CrashDriver(d) => faults'.crashes = faults.crashes + 1
<1>0. faults \in [crashes : Nat, recoveries : Nat, kills : Nat] BY DEF Base, Types
<1>1. CASE UNCHANGED faults BY <1>0, <1>1 DEF ResumeAgentRun, CrashDriver
<1>2. CASE \E d \in Drivers, r \in Runs : ResumeAgentRun(d, r)
  BY <1>0, <1>2 DEF ResumeAgentRun, CrashDriver
<1>3. CASE \E d \in Drivers : CrashDriver(d) BY <1>0, <1>3 DEF ResumeAgentRun, CrashDriver
<1>4. CASE faults' = [faults EXCEPT !.kills = @ + 1]
  BY <1>0, <1>4 DEF ResumeAgentRun, CrashDriver
<1> QED
  BY ZenonT(60), <1>1, <1>2, <1>3, <1>4
     DEF RuntimeNext, StartAgentRun, ResumeAfterApproval, AckDelivery, EnterDrive, GuardStep,
         LocalNode, ModelTurn, NodeTimesOut, ToolSucceeds, ToolRefused, ToolPending, ToolFails,
         Respond, ParkCheckpoint, PersistStep, WriteCheckpoint, ResolveAsk, CloseCircuit,
         runtimeVars

(* Until its first checkpoint a run gets no further than one node for each *)
(* resume by hand.                                                         *)
Reach(d) ==
  IF drive[d].at \in {"persist", "checkpoint"} THEN faults.recoveries + 1
  ELSE faults.recoveries
Progress ==
  \A r \in Runs : ckpt[r] = NoState =>
    /\ steps[r].seq <= faults.recoveries + 1
    /\ \A d \in Drivers : Working(d) /\ drive[d].run = r => drive[d].state.seq <= Reach(d)

(* A run makes a checkpoint after every node it completes (_drive). *)
LEMMA ProgressStep ==
  ASSUME Base, Progress, [RuntimeNext]_runtimeVars
  PROVE  Progress'
<1> USE RuntimeAssumption
<1>0. /\ Types /\ DrivesSound /\ AsksOwned /\ drive \in [Drivers -> DriveRecords]
      /\ ckpt \in [Runs -> RunStates \cup {NoState}]
      /\ steps \in [Runs -> RunStates \cup {NoState}]
      /\ faults.recoveries \in Nat /\ Fresh.seq = 0 /\ NoState.seq = 0
  BY DEF Base, Types, NoState, Fresh
<1>1. /\ \A s \in RunStates : s.seq \in Nat /\ s # NoState
      /\ \A d \in Drivers : /\ drive[d].state \in RunStates /\ drive[d].state.seq \in Nat
                            /\ drive[d].ask \in Asks \cup {None}
      /\ \A r \in Runs : steps[r].seq \in Nat  BY <1>0, StateShapes DEF DriveRecords
<1>2. SUFFICES ASSUME NEW r \in Runs, ckpt'[r] = NoState
               PROVE  /\ steps'[r].seq <= faults'.recoveries + 1
                      /\ \A d \in Drivers :
                           drive'[d].at \notin {"idle", "ack"} /\ drive'[d].run = r =>
                             drive'[d].state.seq <=
                               IF drive'[d].at \in {"persist", "checkpoint"}
                               THEN faults'.recoveries + 1 ELSE faults'.recoveries
  BY DEF Progress, Working, At, Reach
<1> DEFINE Within(d) == drive'[d].at \notin {"idle", "ack"} /\ drive'[d].run = r =>
                          drive'[d].state.seq <=
                            IF drive'[d].at \in {"persist", "checkpoint"}
                            THEN faults'.recoveries + 1 ELSE faults'.recoveries
<1>3. /\ ckpt[r] = NoState /\ faults.recoveries <= faults'.recoveries /\ faults'.recoveries \in Nat
  BY <1>2, CheckpointForward, FaultsGrow
<1>4. /\ steps[r].seq <= faults.recoveries + 1
      /\ \A d \in Drivers : drive[d].at \notin {"idle", "ack"} /\ drive[d].run = r =>
           drive[d].state.seq <= IF drive[d].at \in {"persist", "checkpoint"}
                                 THEN faults.recoveries + 1 ELSE faults.recoveries
  BY <1>3 DEF Progress, Working, At, Reach
<1>5. steps'[r].seq <= faults'.recoveries + 1
  BY <1>0, <1>1, <1>3, <1>4, RowsForward DEF PersistStep, At
<1>6. ASSUME NEW d \in Drivers, drive'[d] = drive[d] PROVE Within(d)
  BY <1>0, <1>1, <1>3, <1>4, <1>6
<1>7. SUFFICES \A d \in Drivers : Within(d) BY <1>5
<1>8. ASSUME NEW d \in Drivers, NEW q \in Runs, StartAgentRun(d, q) \/ ResumeAgentRun(d, q)
      PROVE  \A e \in Drivers : Within(e)
  <2>1. CASE StartAgentRun(d, q)  BY <1>0, <1>3, <1>6, <2>1 DEF Enter, StartAgentRun
  <2>2. CASE ResumeAgentRun(d, q)
    <3> DEFINE s == CASE ckpt[q] # NoState -> ckpt[q]
                      [] ckpt[q] = NoState /\ steps[q] # NoState -> steps[q]
                      [] OTHER -> Fresh
    <3>1. Enter(d, q, s, {}, None) BY <2>2 DEF ResumeAgentRun
    <3>2. q = r => s \in {steps[r], Fresh} BY <1>3
    <3> HIDE DEF s
    <3>3. /\ drive'[d].state = s /\ drive'[d].run = q /\ drive'[d].at = "enter"
          /\ \A e \in Drivers \ {d} : drive'[e] = drive[e]
      BY <1>0, <3>1 DEF Enter
    <3>4. faults'.recoveries = faults.recoveries + 1 BY <2>2, FaultsGrow
    <3>5. Within(d) BY <1>0, <1>1, <1>4, <3>2, <3>3, <3>4
    <3> QED BY <1>6, <3>3, <3>5
  <2> QED BY <1>8, <2>1, <2>2
<1>9. ASSUME NEW d \in Drivers, NEW a \in Asks, ResumeAfterApproval(d, a)
      PROVE  \A e \in Drivers : Within(e)
  BY <1>0, <1>3, <1>6, <1>9, AckingAsk DEF Enter, ResumeAfterApproval
<1>10. ASSUME NEW d \in Drivers, AckDelivery(d) \/ CrashDriver(d)
       PROVE  \A e \in Drivers : Within(e)
  BY <1>0, <1>6, <1>10 DEF AckDelivery, CrashDriver, Idle
<1>11. ASSUME NEW d \in Drivers, Inner(d) PROVE \A e \in Drivers : Within(e)
  <2>0. (\A e \in Drivers \ {d} : drive'[e] = drive[e]) /\ (Stays(d) \/ Left(d)) /\ Working(d)
    BY <1>11, InnerStep
  <2>1. CASE Left(d)  BY <1>1, <1>6, <2>0, <2>1, AckingAsk DEF Left
  <2>2. CASE Stays(d) /\ drive[d].run # r
    BY <1>6, <2>0, <2>2 DEF Stays
  <2>3. CASE Stays(d) /\ drive[d].run = r /\ NodeDone(d)
    BY <1>0, <1>1, <1>3, <1>4, <1>6, <2>0, <2>3 DEF NodeDone, Nodes
  <2>4. CASE Stays(d) /\ drive[d].run = r /\ StateKept(d)
    <3>1. drive'[d].state.seq = drive[d].state.seq BY <2>4 DEF StateKept
    <3>2. CASE PersistStep(d)
      BY <1>0, <1>1, <1>3, <1>4, <1>6, <2>0, <2>4, <3>1, <3>2, GoStays DEF PersistStep,
         Points, At
    <3>3. CASE ~ PersistStep(d)
      <4>1. ~ WriteCheckpoint(d)  BY <1>0, <1>1, <1>2, <2>4 DEF WriteCheckpoint
      <4>2. drive[d].at \notin {"persist", "checkpoint"}
        BY <1>11, <3>3, <4>1
           DEF Inner, EnterDrive, GuardStep, LocalNode, ModelTurn, NodeTimesOut, Nodes,
               ToolSucceeds, ToolRefused, ToolPending, ToolFails, Respond, ParkCheckpoint, At
      <4>3. drive[d].state.seq <= faults.recoveries
        BY <1>4, <2>0, <2>4, <4>2 DEF Working, At
      <4>4. Within(d) BY <1>0, <1>1, <1>3, <3>1, <4>3
      <4> QED BY <1>6, <2>0, <4>4
    <3> QED BY <3>2, <3>3
  <2> QED BY <1>11, <2>0, <2>1, <2>2, <2>3, <2>4, InnerStates
<1>12. CASE (\E a \in Asks : ResolveAsk(a)) \/ CloseCircuit \/ UNCHANGED runtimeVars
  BY <1>6, <1>12 DEF ResolveAsk, CloseCircuit, runtimeVars
<1> QED
  BY <1>8, <1>9, <1>10, <1>11, <1>12 DEF RuntimeNext, Inner

(* The ways a step inside the driver ends: the run ends with the step, its *)
(* checkpoint ends its parking, the worker goes on, or the run parks.      *)
Ended(d) ==
  /\ Left(d) /\ UNCHANGED ask
  /\ \E status \in {"interrupted", "succeeded"}, code \in Codes \ {"awaiting"} :
       Finish(drive[d].run, status, code)
Parked(d) == Left(d) /\ At(d, "park") /\ UNCHANGED <<agentRun, ask>>
GoesOn(d) == Stays(d) /\ drive'[d].at # "park" /\ UNCHANGED <<agentRun, ask>>
Parks(d) ==
  /\ Stays(d) /\ drive'[d].at = "park" /\ Raised(d) /\ drive[d].at \in {"tool", "respond"}
  /\ Finish(drive[d].run, "interrupted", "awaiting")

(* Every step inside the driver ends in one of these ways. *)
LEMMA InnerEnds ==
  ASSUME Base, NEW d \in Drivers, Inner(d)
  PROVE  Ended(d) \/ Parked(d) \/ GoesOn(d) \/ Parks(d)
<1>0. Types /\ drive[d].state \in RunStates BY DEF Base, Types, DriveRecords
<1>1. ASSUME NEW code \in Codes \ {"awaiting"}, Halt(d, code), UNCHANGED ask PROVE Ended(d)
  BY <1>0, <1>1, LeaveLeft DEF Halt, Ended
<1>2. CASE EnterDrive(d)  BY <1>0, <1>1, <1>2, GoStays DEF EnterDrive, Codes, GoesOn, Points
<1>3. CASE GuardStep(d)
  BY <1>0, <1>1, <1>3, LeaveLeft, NextNodes, GoStays DEF GuardStep, Codes, None, Ended,
     Points, Nodes, GoesOn
<1>4. CASE LocalNode(d) BY <1>0, <1>4, CompletedStays DEF LocalNode, GoesOn
<1>5. CASE ModelTurn(d)  BY <1>0, <1>1, <1>5, CompletedStays DEF ModelTurn, Codes, GoesOn
<1>5b. CASE NodeTimesOut(d)  BY <1>0, <1>1, <1>5b DEF NodeTimesOut, Codes
<1>6. CASE ToolSucceeds(d)
  BY <1>0, <1>6 DEF ToolSucceeds, Types, DriveRecords, Stays, GoesOn
<1>7. CASE ToolRefused(d)  BY <1>0, <1>1, <1>7, CompletedStays DEF ToolRefused, Codes, GoesOn
<1>8. CASE ToolPending(d)
  BY <1>0, <1>8, RuntimeAssumption, ParkStays DEF ToolPending, NeedsApproval, At, ParkRow,
     Parks
<1>9. CASE ToolFails(d)
  BY <1>0, <1>1, <1>9 DEF ToolFails, Codes, Types, DriveRecords, Stays, GoesOn
<1>10. CASE Respond(d)
  <2>1. CASE Completed(d, drive[d].state) /\ UNCHANGED <<agentRun, ask>>
    BY <1>0, <1>10, <2>1, CompletedStays DEF GoesOn
  <2>2. CASE \E s : ParkRow(d, Reply, s)
    BY ZenonT(60), <1>0, <1>10, <2>2, ParkStays, RuntimeAssumption DEF Respond, At, ParkRow, Parks
  <2> QED BY <1>10, <2>1, <2>2 DEF Respond
<1>11. CASE ParkCheckpoint(d) BY <1>0, <1>11, LeaveLeft DEF ParkCheckpoint, Parked
<1>12. CASE PersistStep(d) BY <1>0, <1>12, GoStays DEF PersistStep, Points, GoesOn
<1>13. CASE WriteCheckpoint(d) BY <1>0, <1>13, GoStays DEF WriteCheckpoint, Points, GoesOn
<1> QED
  BY <1>2, <1>3, <1>4, <1>5, <1>5b, <1>6, <1>7, <1>8, <1>9, <1>10, <1>11, <1>12, <1>13
     DEF Inner

(* Somebody will move run r: an open approval, its delivery, or the worker *)
(* that has taken it.                                                      *)
Mover(r) ==
  \/ \E a \in Asks : ask[a].run = r /\ (ask[a].status = "pending" \/ events[a] > 0)
  \/ \E d \in Drivers : Working(d) /\ ~ At(d, "park") /\ drive[d].run = r /\ drive[d].ask # None
MoverNext(r) ==
  \/ \E a \in Asks : ask'[a].run = r /\ (ask'[a].status = "pending" \/ events'[a] > 0)
  \/ \E d \in Drivers : /\ drive'[d].at \notin {"idle", "ack", "park"}
                        /\ drive'[d].run = r /\ drive'[d].ask # None

(* A run that waits is interrupted, and, as long as it cannot have reached *)
(* its gate without one, it has a checkpoint and somebody to move it.      *)
Awaiting ==
  \A r \in Runs : agentRun[r].code = "awaiting" =>
    /\ agentRun[r].status = "interrupted"
    /\ faults.recoveries < 3 => ckpt[r] # NoState /\ Mover(r)

(* A delivery or an open approval is replaced only by what it turns into   *)
(* (approvals/service.py, executor.py resume_after_approval).              *)
LEMMA AskMoves ==
  ASSUME Base, [RuntimeNext]_runtimeVars, NEW a \in Asks, ask[a].run \in Runs,
         ask[a].status = "pending" \/ events[a] > 0,
         agentRun[ask[a].run].status = "interrupted", ckpt[ask[a].run] # NoState
  PROVE  MoverNext(ask[a].run)
<1> DEFINE r == ask[a].run
<1>0. /\ Types /\ AsksOwned /\ ask \in [Asks -> AskRows] /\ events \in [Asks -> Nat]
      /\ drive \in [Drivers -> DriveRecords] /\ ask[a].status # "absent"
  BY DEF Base, Types, AsksOwned, Resolved
<1>1. ask'[a].run = r BY <1>0, AsksStay
<1>2. CASE ask'[a] = ask[a] /\ events'[a] >= events[a]
  BY <1>0, <1>2, TypesStep DEF Types, MoverNext
<1>3. ASSUME NEW b \in Asks, ResolveAsk(b) PROVE MoverNext(r)
  BY <1>0, <1>1, <1>2, <1>3 DEF ResolveAsk, MoverNext
<1>4. ASSUME NEW d \in Drivers, NEW b \in Asks, ResumeAfterApproval(d, b) PROVE MoverNext(r)
  BY <1>0, <1>2, <1>4, RuntimeAssumption DEF ResumeAfterApproval, Enter, MoverNext
<1>5. ASSUME NEW d \in Drivers, CrashDriver(d) PROVE MoverNext(r)
  BY <1>0, <1>2, <1>5 DEF DriveRecords, CrashDriver
<1>6. ASSUME NEW d \in Drivers, Inner(d) PROVE MoverNext(r)
  BY <1>0, <1>2, <1>6, InnerStep DEF Raised
<1>7. CASE UNCHANGED <<ask, events>> BY <1>0, <1>2, <1>7
<1> QED
  BY <1>3, <1>4, <1>5, <1>6, <1>7
     DEF RuntimeNext, Inner, StartAgentRun, ResumeAgentRun, AckDelivery, CloseCircuit,
         runtimeVars

(* The worker that has taken a parked run carries its delivery: it parks   *)
(* the run again, ends it, or dies and the delivery comes back.            *)
LEMMA WorkerMoves ==
  ASSUME Base, [RuntimeNext]_runtimeVars, NEW d \in Drivers, drive[d].run \in Runs,
         Working(d), ~ At(d, "park"), drive[d].ask # None,
         agentRun'[drive[d].run].code = "awaiting"
  PROVE  MoverNext(drive[d].run)
<1> DEFINE r == drive[d].run
<1>0. /\ Types /\ AsksOwned /\ DrivesSound /\ ask \in [Asks -> AskRows]
      /\ events \in [Asks -> Nat] /\ drive \in [Drivers -> DriveRecords]
      /\ drive[d].ask \in Asks /\ agentRun \in [Runs -> AgentRows]
  BY DEF Base, Types, DriveRecords
<1>1. CASE drive'[d] = drive[d] BY <1>1 DEF MoverNext, Working, At
<1>2. CASE CrashDriver(d)  BY <1>0, <1>2 DEF CrashDriver, DrivesSound, MoverNext
<1>3. CASE Inner(d)
  <2>1. CASE Ended(d)  BY <1>0, <2>1 DEF Ended, Finish
  <2>2. CASE Parked(d) BY <2>2 DEF Parked
  <2>3. CASE GoesOn(d) BY <2>3 DEF GoesOn, Stays, MoverNext
  <2>4. CASE Parks(d)  BY <1>0, <2>4 DEF Parks, Raised, MoverNext
  <2> QED BY <1>3, <2>1, <2>2, <2>3, <2>4, InnerEnds
<1>4. ASSUME NEW e \in Drivers, Inner(e) PROVE drive'[d] = drive[d] \/ e = d
  BY <1>4, InnerStep
<1>5. ASSUME NEW e \in Drivers,
             \/ \E q \in Runs : StartAgentRun(e, q) \/ ResumeAgentRun(e, q)
             \/ \E a \in Asks : ResumeAfterApproval(e, a)
             \/ AckDelivery(e) \/ CrashDriver(e)
      PROVE  drive'[d] = drive[d] \/ CrashDriver(d)
  BY <1>0, <1>5 DEF StartAgentRun, ResumeAgentRun, ResumeAfterApproval, AckDelivery, Working,
     At, CrashDriver, Enter
<1>6. CASE (\E a \in Asks : ResolveAsk(a)) \/ CloseCircuit \/ UNCHANGED runtimeVars
  BY <1>1, <1>6 DEF ResolveAsk, CloseCircuit, runtimeVars
<1> QED
  BY <1>1, <1>2, <1>3, <1>4, <1>5, <1>6 DEF RuntimeNext, Inner

(* A run is left waiting only by a step that parks it. *)
LEMMA AwaitingParks ==
  ASSUME Base, [RuntimeNext]_runtimeVars, NEW r \in Runs, agentRun'[r].code = "awaiting",
         agentRun'[r] # agentRun[r]
  PROVE  \E d \in Drivers : Inner(d) /\ Parks(d) /\ drive[d].run = r
<1>0. agentRun \in [Runs -> AgentRows] BY DEF Base, Types
<1>1. ASSUME NEW d \in Drivers, NEW q \in Runs, StartAgentRun(d, q) PROVE FALSE
  BY <1>0, <1>1 DEF StartAgentRun, Finish, None
<1>2. ASSUME NEW d \in Drivers, Inner(d) PROVE Parks(d) /\ drive[d].run = r
  <2>1. ~ Ended(d)
    <3>1. ASSUME Ended(d) PROVE FALSE BY <1>0, <3>1 DEF Ended, Finish
    <3> QED BY <3>1
  <2>2. ~ Parked(d) /\ ~ GoesOn(d) BY DEF Parked, GoesOn
  <2>3. Parks(d) BY <1>2, <2>1, <2>2, InnerEnds
  <2> QED BY <1>0, <2>3 DEF Parks, Finish
<1> QED
  BY <1>1, <1>2
     DEF RuntimeNext, Inner, ResumeAgentRun, ResumeAfterApproval, AckDelivery, CrashDriver,
         ResolveAsk, CloseCircuit, runtimeVars

(* A parked run is moved (_park, resume_after_approval). *)
LEMMA AwaitingStep ==
  ASSUME Base, AllRipe, Progress, Awaiting, [RuntimeNext]_runtimeVars
  PROVE  Awaiting'
<1>0. /\ Types /\ AsksOwned /\ DrivesSound /\ agentRun \in [Runs -> AgentRows]
      /\ ask \in [Asks -> AskRows] /\ drive \in [Drivers -> DriveRecords]
      /\ faults.recoveries \in Nat
  BY DEF Base, Types
<1>1. SUFFICES ASSUME NEW r \in Runs, agentRun'[r].code = "awaiting"
               PROVE  /\ agentRun'[r].status = "interrupted"
                      /\ faults'.recoveries < 3 => ckpt'[r] # NoState /\ MoverNext(r)
  BY DEF Awaiting, Mover, MoverNext, Working, At
<1>2. faults'.recoveries < 3 => faults.recoveries < 3 BY <1>0, FaultsGrow
<1>3. CASE agentRun'[r] = agentRun[r]
  BY <1>1, <1>2, <1>3, AskMoves, CheckpointForward, WorkerMoves DEF Awaiting, Mover
<1>4. CASE agentRun'[r] # agentRun[r]
  <2>1. PICK d \in Drivers : Inner(d) /\ Parks(d) /\ drive[d].run = r
    BY <1>1, <1>4, AwaitingParks
  <2>2. agentRun'[r].status = "interrupted" BY <1>0, <2>1 DEF Parks, Finish
  <2>3. MoverNext(r)  BY <1>0, <2>1 DEF Parks, Raised, MoverNext
  <2>4. faults.recoveries < 3 => ckpt[r] # NoState
    BY <1>0, <2>1, StateShapes, RuntimeAssumption, NextNodes, InnerStep DEF DriveRecords,
       Parks, DrivesSound, Nodes, AllRipe, Ripe, Progress, Reach
  <2> QED BY <1>2, <2>2, <2>3, <2>4, CheckpointForward
<1> QED BY <1>3, <1>4

-----------------------------------------------------------------------------
(* Replies                                                                 *)

(* Who may still send a reply for run r: a worker that has not reached the *)
(* respond node, and an approval that is open or being delivered.          *)
Live(r) == {d \in Drivers : /\ drive[d].run = r /\ drive[d].at \notin {"idle", "ack", "park"}
                            /\ drive[d].state.node # "respond"}
Open(r) == {a \in Asks : ask[a].run = r /\ (ask[a].status = "pending" \/ events[a] > 0)}
LiveNext(r) == {d \in Drivers : /\ drive'[d].run = r
                                /\ drive'[d].at \notin {"idle", "ack", "park"}
                                /\ drive'[d].state.node # "respond"}
OpenNext(r) == {a \in Asks : ask'[a].run = r /\ (ask'[a].status = "pending" \/ events'[a] > 0)}

(* Replies sent and replies still possible never exceed one for the start, *)
(* one for each crash and one for each resume by hand.                     *)
Budget(r) == (IF agentRun[r].status = "absent" THEN 0 ELSE 1)
             + faults.crashes + faults.recoveries
BudgetNext(r) == (IF agentRun'[r].status = "absent" THEN 0 ELSE 1)
                 + faults'.crashes + faults'.recoveries
Spent == \A r \in Runs : replies[r] + Cardinality(Live(r)) + Cardinality(Open(r)) <= Budget(r)

(* With L and O the possible replies before a step, L1 and O1 after it, n  *)
(* and n1 the replies sent, b and b1 the budgets: one is dropped, is sent, *)
(* passes from a worker to an approval or back, or is paid for.            *)
Passes(L, L1, O, O1, n, n1, b, b1) ==
  \/ L1 \subseteq L /\ O1 \subseteq O /\ n1 = n
  \/ \E d : L1 \subseteq L \cup {d} /\ O1 \subseteq O /\ n1 = n /\ b + 1 <= b1
  \/ \E d \in L : L1 \subseteq L \ {d} /\ O1 \subseteq O /\ n1 = n + 1
  \/ \E d \in L : \E a : L1 \subseteq L \ {d} /\ O1 \subseteq O \cup {a} /\ n1 = n
  \/ \E a : L1 \subseteq L /\ O1 \subseteq O \cup {a} /\ n1 = n /\ b + 1 <= b1
  \/ \E a \in O : \E d : L1 \subseteq L \cup {d} /\ O1 \subseteq O \ {a} /\ n1 = n

(* Such a step keeps the count within the budget. *)
LEMMA Balance ==
  ASSUME NEW L, NEW L1, NEW O, NEW O1, IsFiniteSet(L), IsFiniteSet(O),
         NEW n \in Nat, NEW n1 \in Nat, NEW b \in Nat, NEW b1 \in Nat, b <= b1,
         n + Cardinality(L) + Cardinality(O) <= b,
         Passes(L, L1, O, O1, n, n1, b, b1)
  PROVE  n1 + Cardinality(L1) + Cardinality(O1) <= b1
<1>0. Cardinality(L) \in Nat /\ Cardinality(O) \in Nat BY FS_CardinalityType
<1>1. \A S, T : IsFiniteSet(S) /\ T \subseteq S =>
        Cardinality(T) \in Nat /\ Cardinality(T) <= Cardinality(S)
  BY FS_Subset, FS_CardinalityType
<1>2. \A S, x : IsFiniteSet(S) => /\ IsFiniteSet(S \cup {x}) /\ IsFiniteSet(S \ {x})
                                  /\ Cardinality(S \cup {x}) \in Nat
                                  /\ Cardinality(S \cup {x}) <= Cardinality(S) + 1
                                  /\ x \in S => Cardinality(S \ {x}) = Cardinality(S) - 1
  <2>1. ASSUME NEW S, NEW x, IsFiniteSet(S)
        PROVE  /\ IsFiniteSet(S \cup {x}) /\ IsFiniteSet(S \ {x})
               /\ Cardinality(S \cup {x}) \in Nat
               /\ Cardinality(S \cup {x}) <= Cardinality(S) + 1
               /\ x \in S => Cardinality(S \ {x}) = Cardinality(S) - 1
    <3>1. Cardinality(S) \in Nat BY <2>1, FS_CardinalityType
    <3>2. /\ IsFiniteSet(S \cup {x})
          /\ Cardinality(S \cup {x}) = IF x \in S THEN Cardinality(S) ELSE Cardinality(S) + 1
      BY <2>1, FS_AddElement
    <3>3. /\ IsFiniteSet(S \ {x})
          /\ Cardinality(S \ {x}) = IF x \in S THEN Cardinality(S) - 1 ELSE Cardinality(S)
      BY <2>1, FS_RemoveElement
    <3> QED BY <3>1, <3>2, <3>3
  <2> QED BY <2>1
<1>3. CASE L1 \subseteq L /\ O1 \subseteq O /\ n1 = n  BY <1>0, <1>1, <1>3
<1>4. ASSUME NEW d, L1 \subseteq L \cup {d}, O1 \subseteq O, n1 = n, b + 1 <= b1
      PROVE  n1 + Cardinality(L1) + Cardinality(O1) <= b1
  <2>1. IsFiniteSet(L \cup {d}) /\ Cardinality(L \cup {d}) \in Nat
        /\ Cardinality(L \cup {d}) <= Cardinality(L) + 1
    BY <1>2
  <2>2. /\ Cardinality(L1) \in Nat /\ Cardinality(L1) <= Cardinality(L \cup {d})
        /\ Cardinality(O1) \in Nat /\ Cardinality(O1) <= Cardinality(O)
    BY <1>1, <1>4, <2>1
  <2> QED BY <1>0, <1>4, <2>1, <2>2
<1>5. ASSUME NEW d \in L, L1 \subseteq L \ {d}, O1 \subseteq O, n1 = n + 1
      PROVE  n1 + Cardinality(L1) + Cardinality(O1) <= b1
  <2>1. IsFiniteSet(L \ {d}) /\ Cardinality(L \ {d}) = Cardinality(L) - 1 BY <1>2
  <2>2. /\ Cardinality(L1) \in Nat /\ Cardinality(L1) <= Cardinality(L \ {d})
        /\ Cardinality(O1) \in Nat /\ Cardinality(O1) <= Cardinality(O)
    BY <1>1, <1>5, <2>1
  <2> QED BY <1>0, <1>5, <2>1, <2>2
<1>6. ASSUME NEW d \in L, NEW a, L1 \subseteq L \ {d}, O1 \subseteq O \cup {a}, n1 = n
      PROVE  n1 + Cardinality(L1) + Cardinality(O1) <= b1
  <2>1. /\ IsFiniteSet(L \ {d}) /\ Cardinality(L \ {d}) = Cardinality(L) - 1
        /\ IsFiniteSet(O \cup {a}) /\ Cardinality(O \cup {a}) \in Nat
        /\ Cardinality(O \cup {a}) <= Cardinality(O) + 1
    BY <1>2
  <2>2. /\ Cardinality(L1) \in Nat /\ Cardinality(L1) <= Cardinality(L \ {d})
        /\ Cardinality(O1) \in Nat /\ Cardinality(O1) <= Cardinality(O \cup {a})
    BY <1>1, <1>6, <2>1
  <2> QED BY <1>0, <1>6, <2>1, <2>2
<1>7. ASSUME NEW a, L1 \subseteq L, O1 \subseteq O \cup {a}, n1 = n, b + 1 <= b1
      PROVE  n1 + Cardinality(L1) + Cardinality(O1) <= b1
  <2>1. IsFiniteSet(O \cup {a}) /\ Cardinality(O \cup {a}) \in Nat
        /\ Cardinality(O \cup {a}) <= Cardinality(O) + 1
    BY <1>2
  <2>2. /\ Cardinality(L1) \in Nat /\ Cardinality(L1) <= Cardinality(L)
        /\ Cardinality(O1) \in Nat /\ Cardinality(O1) <= Cardinality(O \cup {a})
    BY <1>1, <1>7, <2>1
  <2> QED BY <1>0, <1>7, <2>1, <2>2
<1>8. ASSUME NEW a \in O, NEW d, L1 \subseteq L \cup {d}, O1 \subseteq O \ {a}, n1 = n
      PROVE  n1 + Cardinality(L1) + Cardinality(O1) <= b1
  <2>1. /\ IsFiniteSet(L \cup {d}) /\ Cardinality(L \cup {d}) \in Nat
        /\ Cardinality(L \cup {d}) <= Cardinality(L) + 1
        /\ IsFiniteSet(O \ {a}) /\ Cardinality(O \ {a}) = Cardinality(O) - 1
    BY <1>2
  <2>2. /\ Cardinality(L1) \in Nat /\ Cardinality(L1) <= Cardinality(L \cup {d})
        /\ Cardinality(O1) \in Nat /\ Cardinality(O1) <= Cardinality(O \ {a})
    BY <1>1, <1>8, <2>1
  <2> QED BY <1>0, <1>8, <2>1, <2>2
<1> QED BY <1>3, <1>4, <1>5, <1>6, <1>7, <1>8 DEF Passes

(* A run that has been started stays started, so its budget only grows. *)
LEMMA BudgetGrows ==
  ASSUME Base, [RuntimeNext]_runtimeVars, NEW r \in Runs
  PROVE  Budget(r) \in Nat /\ BudgetNext(r) \in Nat /\ Budget(r) <= BudgetNext(r)
<1>0. /\ agentRun \in [Runs -> AgentRows] /\ faults \in [crashes : Nat, recoveries : Nat, kills : Nat]
  BY DEF Base, Types
<1>1. agentRun[r].status # "absent" => agentRun'[r].status # "absent"
  <2>1. CASE UNCHANGED agentRun BY <2>1
  <2>2. ASSUME NEW d \in Drivers, NEW q \in Runs, StartAgentRun(d, q)
        PROVE  agentRun[r].status # "absent" => agentRun'[r].status # "absent"
    BY <1>0, <2>2 DEF StartAgentRun, Finish
  <2>3. ASSUME NEW d \in Drivers, Inner(d)
        PROVE  agentRun[r].status # "absent" => agentRun'[r].status # "absent"
    <3>1. CASE Ended(d) BY <1>0, <3>1 DEF Ended, Finish
    <3>2. CASE Parks(d) BY <1>0, <3>2 DEF Parks, Finish
    <3>3. CASE Parked(d) \/ GoesOn(d) BY <3>3 DEF Parked, GoesOn
    <3> QED BY <2>3, <3>1, <3>2, <3>3, InnerEnds
  <2> QED
    BY <2>1, <2>2, <2>3
       DEF RuntimeNext, Inner, ResumeAgentRun, ResumeAfterApproval, AckDelivery, CrashDriver,
           ResolveAsk, CloseCircuit, runtimeVars
<1>2. /\ faults.crashes <= faults'.crashes /\ faults.recoveries <= faults'.recoveries
      /\ faults'.crashes \in Nat /\ faults'.recoveries \in Nat
  BY FaultsGrow
<1> QED BY <1>0, <1>1, <1>2 DEF Budget, BudgetNext

(* What a step does to the possible replies of a run is one of the ways    *)
(* that balance (respond_node, _park_send, resume_run, the consumer).      *)
Balanced(r) == Passes(Live(r), LiveNext(r), Open(r), OpenNext(r), replies[r], replies'[r],
                      Budget(r), BudgetNext(r))

(* A step inside the driver balances. *)
LEMMA InnerBalanced ==
  ASSUME Base, NEW d \in Drivers, Inner(d), NEW r \in Runs
  PROVE  Balanced(r)
<1>0. /\ Types /\ DrivesSound /\ AsksOwned /\ drive \in [Drivers -> DriveRecords]
      /\ ask \in [Asks -> AskRows] /\ events \in [Asks -> Nat] /\ replies \in [Runs -> Nat]
      /\ drive[d].state \in RunStates /\ drive[d].ask \in Asks \cup {None} /\ r # None
  BY RuntimeAssumption DEF Base, Types, DriveRecords
<1>1. /\ \A e \in Drivers \ {d} : drive'[e] = drive[e]
      /\ Working(d) /\ UNCHANGED events /\ (Stays(d) \/ Left(d))
  BY InnerStep
<1>2. CASE drive[d].run # r
  <2>1. drive'[d].run # r  BY <1>0, <1>1, <1>2, AckingAsk DEF Stays, Left
  <2>2. LiveNext(r) \subseteq Live(r) BY <1>1, <2>1 DEF LiveNext, Live
  <2>3. OpenNext(r) \subseteq Open(r)
    BY <1>0, <1>1, <1>2, InnerStep DEF OpenNext, Open, Raised
  <2>4. replies'[r] = replies[r]
    <3>1. CASE UNCHANGED replies BY <3>1
    <3>2. CASE Respond(d) BY <1>0, <1>2, <3>2 DEF Respond
    <3> QED
      BY <3>1, <3>2 DEF Inner, EnterDrive, GuardStep, LocalNode, ModelTurn, NodeTimesOut,
        ToolSucceeds, ToolRefused, ToolPending, ToolFails, ParkCheckpoint, PersistStep,
        WriteCheckpoint
  <2> QED BY <2>2, <2>3, <2>4 DEF Balanced, Passes
<1>3. CASE drive[d].run = r /\ Respond(d) /\ Completed(d, drive[d].state)
           /\ replies' = [replies EXCEPT ![r] = @ + 1] /\ UNCHANGED ask
  BY <1>0, <1>1, <1>3, NextNodes, CompletedDone DEF Respond, At, DrivesSound, Nodes, Live,
     NodeDone, LiveNext, OpenNext, Open, Balanced, Passes
<1>4. CASE drive[d].run = r /\ UNCHANGED replies
  <2>1. CASE Ended(d) \/ Parked(d)
    BY <1>0, <1>1, <1>4, <2>1, AckingAsk DEF Ended, Parked, Left, LiveNext, Live, OpenNext,
       Open, Balanced, Passes
  <2>2. CASE GoesOn(d)
    <3>1. drive[d].at \notin {"idle", "ack", "park"}
      <4>1. ~ ParkCheckpoint(d)
        BY <1>0, <2>2, LeaveLeft, AckingAsk DEF ParkCheckpoint, GoesOn, Stays, Left
      <4> QED
        BY <1>1, <4>1
           DEF Inner, EnterDrive, GuardStep, LocalNode, ModelTurn, NodeTimesOut, Nodes,
               ToolSucceeds, ToolRefused, ToolPending, ToolFails, Respond, PersistStep,
               WriteCheckpoint, At, Working
    <3>2. drive'[d].state.node # "respond" => drive[d].state.node # "respond"
      BY <1>0, <2>2, NextNodes, AckingAsk, InnerStates DEF StateKept, NodeDone, DrivesSound,
         Nodes, None, GoesOn, Stays, Left
    <3>3. LiveNext(r) \subseteq Live(r) BY <1>1, <1>4, <3>1, <3>2 DEF LiveNext, Live
    <3>4. OpenNext(r) \subseteq Open(r) BY <1>1, <2>2 DEF OpenNext, Open, GoesOn
    <3> QED BY <1>4, <3>3, <3>4 DEF Balanced, Passes
  <2>3. CASE Parks(d)
    <3>1. PICK a \in Asks, tool \in Tools :
            ask' = [ask EXCEPT ![a] = [status |-> "pending", run |-> drive[d].run, tool |-> tool]]
      BY <2>3 DEF Parks, Raised
    <3>2. OpenNext(r) \subseteq Open(r) \cup {a} BY <1>0, <1>1, <3>1 DEF OpenNext, Open
    <3>3. NextNode(drive[d].state) \in {"tool", "respond"}
      BY <1>0, <2>3 DEF Parks, DrivesSound, Nodes
    <3>4. drive[d].state.node = "model" BY <1>0, <3>3, NextNodes
    <3>5. d \in Live(r) BY <1>4, <2>3, <3>4 DEF Parks, Live
    <3>6. LiveNext(r) \subseteq Live(r) \ {d} BY <1>1, <2>3 DEF Parks, LiveNext, Live
    <3> QED BY <1>4, <3>2, <3>5, <3>6 DEF Balanced, Passes
  <2> QED BY <2>1, <2>2, <2>3, InnerEnds
<1> QED
  BY <1>2, <1>3, <1>4 DEF Inner, EnterDrive, GuardStep, LocalNode, ModelTurn, NodeTimesOut,
    ToolSucceeds, ToolRefused, ToolPending, ToolFails, Respond, ParkCheckpoint, PersistStep,
    WriteCheckpoint

(* Replies sent and replies still possible stay within the budget. *)
LEMMA SpentStep ==
  ASSUME Base, Spent, [RuntimeNext]_runtimeVars
  PROVE  Spent'
<1>0. /\ Types /\ DrivesSound /\ AsksOwned /\ drive \in [Drivers -> DriveRecords]
      /\ ask \in [Asks -> AskRows] /\ events \in [Asks -> Nat] /\ replies \in [Runs -> Nat]
      /\ \A d \in Drivers : drive[d].ask \in Asks \cup {None}
      /\ faults \in [crashes : Nat, recoveries : Nat, kills : Nat]
      /\ None \notin Runs
  BY RuntimeAssumption DEF Base, Types, DriveRecords
<1>1. SUFFICES ASSUME NEW r \in Runs
               PROVE  replies'[r] + Cardinality(LiveNext(r)) + Cardinality(OpenNext(r))
                        <= BudgetNext(r)
  BY DEF Spent, LiveNext, OpenNext, BudgetNext, Live, Open, Budget
<1>2. SUFFICES Balanced(r)
  <2>1. IsFiniteSet(Live(r)) /\ IsFiniteSet(Open(r))
    BY RuntimeAssumption, FS_Subset DEF Live, Open
  <2>2. replies[r] \in Nat /\ replies'[r] \in Nat BY <1>0, TypesStep DEF Types
  <2>3. Budget(r) \in Nat /\ BudgetNext(r) \in Nat /\ Budget(r) <= BudgetNext(r)
    BY BudgetGrows
  <2>4. replies[r] + Cardinality(Live(r)) + Cardinality(Open(r)) <= Budget(r) BY DEF Spent
  <2> DEFINE L == Live(r)
             L1 == LiveNext(r)
             O == Open(r)
             O1 == OpenNext(r)
             n == replies[r]
             n1 == replies'[r]
             b == Budget(r)
             b1 == BudgetNext(r)
  <2>5. Passes(L, L1, O, O1, n, n1, b, b1) BY <1>2 DEF Balanced
  <2>6. /\ IsFiniteSet(L) /\ IsFiniteSet(O) /\ n \in Nat /\ n1 \in Nat /\ b \in Nat
        /\ b1 \in Nat /\ b <= b1 /\ n + Cardinality(L) + Cardinality(O) <= b
    BY <2>1, <2>2, <2>3, <2>4
  <2> HIDE DEF L, L1, O, O1, n, n1, b, b1
  <2>7. n1 + Cardinality(L1) + Cardinality(O1) <= b1 BY <2>5, <2>6, Balance
  <2> QED BY <2>7 DEF L1, O1, n1, b1
<1>3. ASSUME NEW d \in Drivers, \A e \in Drivers \ {d} : drive'[e] = drive[e], UNCHANGED ask,
             UNCHANGED events, UNCHANGED replies, drive'[d].at \in {"idle", "ack"}
      PROVE  Balanced(r)  BY <1>3 DEF LiveNext, Live, OpenNext, Open, Balanced, Passes
<1>4. ASSUME UNCHANGED <<drive, replies>>, OpenNext(r) \subseteq Open(r) PROVE Balanced(r)
  BY <1>4 DEF LiveNext, Live, Balanced, Passes
<1>5. ASSUME NEW d \in Drivers, NEW q \in Runs, StartAgentRun(d, q) \/ ResumeAgentRun(d, q)
      PROVE  Balanced(r)
  <2>0. UNCHANGED <<ask, events, replies>> BY <1>5 DEF StartAgentRun, ResumeAgentRun
  <2>1. OpenNext(r) \subseteq Open(r) BY <2>0 DEF OpenNext, Open
  <2>2. CASE UNCHANGED drive BY <1>4, <2>0, <2>1, <2>2
  <2>3. CASE \E s, ok : Enter(d, q, s, ok, None)
    <3>1. drive'[d].run = q /\ \A e \in Drivers \ {d} : drive'[e] = drive[e]
      BY <1>0, <2>3 DEF Enter
    <3>2. CASE q # r  BY <2>0, <2>1, <3>1, <3>2 DEF LiveNext, Live, Balanced, Passes
    <3>3. CASE q = r
      <4>1. LiveNext(r) \subseteq Live(r) \cup {d} BY <3>1 DEF LiveNext, Live
      <4>2. Budget(r) + 1 <= BudgetNext(r)
        BY <1>0, <1>5, <3>3 DEF Types, StartAgentRun, Finish, Budget, BudgetNext,
           ResumeAgentRun
      <4> QED BY <2>0, <2>1, <4>1, <4>2 DEF Balanced, Passes
    <3> QED BY <3>2, <3>3
  <2> QED BY <1>5, <2>2, <2>3 DEF StartAgentRun, ResumeAgentRun
<1>6. ASSUME NEW d \in Drivers, NEW a \in Asks, ResumeAfterApproval(d, a) PROVE Balanced(r)
  <2>0. /\ UNCHANGED <<ask, replies>> /\ events[a] = 1 /\ ask[a].status \in Resolved
        /\ events' = [events EXCEPT ![a] = @ - 1]
    BY <1>0, <1>6 DEF ResumeAfterApproval, AsksOwned
  <2>1. events'[a] = 0 /\ \A b \in Asks \ {a} : events'[b] = events[b] BY <1>0, <2>0
  <2>2. OpenNext(r) \subseteq Open(r) \ {a}
    BY <1>0, <2>0, <2>1 DEF OpenNext, Open, Resolved
  <2>3. CASE drive' = [drive EXCEPT ![d] = Acking(a)]
    BY <1>0, <2>0, <2>2, <2>3, AckingAsk DEF LiveNext, Live, Balanced, Passes
  <2>4. CASE \E s, ok : Enter(d, ask[a].run, s, ok, a)
    <3>1. drive'[d].run = ask[a].run /\ \A e \in Drivers \ {d} : drive'[e] = drive[e]
      BY <1>0, <2>4 DEF Enter
    <3>2. CASE ask[a].run # r  BY <2>0, <2>2, <3>1, <3>2 DEF LiveNext, Live, Balanced, Passes
    <3>3. CASE ask[a].run = r
      <4>1. LiveNext(r) \subseteq Live(r) \cup {d} BY <3>1 DEF LiveNext, Live
      <4>2. a \in Open(r) BY <2>0, <3>3 DEF Open
      <4> QED BY <2>0, <2>2, <4>1, <4>2 DEF Balanced, Passes
    <3> QED BY <3>2, <3>3
  <2> QED BY <1>6, <2>3, <2>4 DEF ResumeAfterApproval
<1>7. ASSUME NEW d \in Drivers, AckDelivery(d) PROVE Balanced(r)
  BY <1>0, <1>3, <1>7 DEF AckDelivery, Idle
<1>8. ASSUME NEW d \in Drivers, CrashDriver(d) PROVE Balanced(r)
  <2>1. /\ drive'[d].at = "idle" /\ \A e \in Drivers \ {d} : drive'[e] = drive[e]
        /\ UNCHANGED <<ask, agentRun, replies>> /\ faults'.recoveries = faults.recoveries
        /\ faults'.crashes = faults.crashes + 1
    BY <1>0, <1>8 DEF CrashDriver, Idle
  <2>2. LiveNext(r) \subseteq Live(r) BY <2>1 DEF LiveNext, Live
  <2>3. OpenNext(r) \subseteq Open(r) \cup {drive[d].ask}
    BY <1>0, <1>8, <2>1 DEF CrashDriver, OpenNext, Open
  <2>4. Budget(r) + 1 <= BudgetNext(r) BY <1>0, <2>1 DEF Budget, BudgetNext
  <2> QED BY <2>1, <2>2, <2>3, <2>4 DEF Balanced, Passes
<1>9. ASSUME NEW d \in Drivers, Inner(d) PROVE Balanced(r) BY <1>9, InnerBalanced
<1>10. ASSUME NEW a \in Asks, ResolveAsk(a) PROVE Balanced(r)
  BY <1>0, <1>4, <1>10 DEF ResolveAsk, AskRows, OpenNext, Open
<1>11. CASE CloseCircuit \/ UNCHANGED runtimeVars
  BY <1>4, <1>11 DEF CloseCircuit, runtimeVars, OpenNext, Open
<1> QED
  BY <1>5, <1>6, <1>7, <1>8, <1>9, <1>10, <1>11 DEF RuntimeNext, Inner

-----------------------------------------------------------------------------
(* The theorems                                                            *)

Inv == /\ Base /\ ConsentHeld /\ GatedNeedsConsent /\ Behind /\ AllRipe /\ Progress
       /\ Awaiting /\ Spent

(* The executor starts with empty tables and idle workers. *)
LEMMA Start ==
  ASSUME RuntimeInit
  PROVE  Inv
<1> USE RuntimeAssumption DEF RuntimeInit
<1>1. Types  BY FreshShapes DEF Types, AgentRows, AskRows, Codes
<1>2. AsksOwned BY DEF AsksOwned, Idle
<1>3. DrivesSound BY DEF DrivesSound, Idle, Working, At, Nodes
<1>4. ConsentHeld BY DEF ConsentHeld, Idle
<1>5. GatedNeedsConsent BY DEF GatedNeedsConsent
<1>6. Behind BY DEF Behind, CheckpointBehindSteps, Working, At, Idle
<1>7. AllRipe BY DEF AllRipe, Ripe, Idle, Fresh, NoState, None
<1>8. Progress BY DEF Progress, Working, At, Idle, NoState, Fresh
<1>9. Awaiting BY DEF Awaiting, None
<1>10. Spent
  <2>1. ASSUME NEW r \in Runs
        PROVE  replies[r] + Cardinality(Live(r)) + Cardinality(Open(r)) <= Budget(r)
    <3>1. Live(r) = {} /\ Open(r) = {} BY DEF Live, Open, Idle
    <3>2. Cardinality(Live(r)) = 0 /\ Cardinality(Open(r)) = 0 BY <3>1, FS_EmptySet
    <3> QED BY <3>2 DEF Budget
  <2> QED BY <2>1 DEF Spent
<1> QED BY <1>1, <1>2, <1>3, <1>4, <1>5, <1>6, <1>7, <1>8, <1>9, <1>10 DEF Inv, Base

(* Every step keeps the invariant. *)
LEMMA Invariance ==
  ASSUME Inv, [RuntimeNext]_runtimeVars
  PROVE  Inv'
<1>1. Base' BY TypesStep, OwnedStep, SoundStep DEF Inv, Base
<1>2. ConsentHeld' /\ GatedNeedsConsent' BY HeldStep, ActedStep DEF Inv
<1>3. Behind' /\ AllRipe' /\ Progress' BY BehindStep, RipeStep, ProgressStep DEF Inv
<1>4. Awaiting' /\ Spent' BY AwaitingStep, SpentStep DEF Inv
<1> QED BY <1>1, <1>2, <1>3, <1>4 DEF Inv

(* The invariant holds in every reachable state. *)
LEMMA Invariant == RuntimeSpec => []Inv
<1>1. RuntimeInit => Inv BY Start
<1>2. Inv /\ [RuntimeNext]_runtimeVars => Inv' BY Invariance
<1> QED BY <1>1, <1>2, PTL DEF RuntimeSpec

(* The types, as the runs check them, follow. *)
LEMMA TypesFollow == ASSUME Base PROVE RuntimeTypeOK
BY DEF Base, Types, AsksOwned, RuntimeTypeOK, DriveRecords, AgentRows

(* Every row, checkpoint and worker of the executor keeps its shape, for   *)
(* any number of runs, workers, approvals and tools.                       *)
THEOREM RuntimeTypes == RuntimeSpec => []RuntimeTypeOK
<1>1. Inv => RuntimeTypeOK BY TypesFollow DEF Inv
<1> QED BY <1>1, Invariant, PTL

(* A tool of tier 2 takes effect for a run only after the owner approved   *)
(* something for it, through crashes, redeliveries and resumes             *)
(* (proxy.call's tier gate, resume_after_approval).                        *)
THEOREM ConsentAlways == RuntimeSpec => []GatedNeedsConsent
<1>1. Inv => GatedNeedsConsent BY DEF Inv
<1> QED BY <1>1, Invariant, PTL

(* The Redis checkpoint never knows more than the durable step rows        *)
(* (_persist_step before _write_checkpoint).                               *)
THEOREM CheckpointBehindAlways == RuntimeSpec => []CheckpointBehindSteps
<1>1. Inv => CheckpointBehindSteps BY DEF Inv, Behind
<1> QED BY <1>1, Invariant, PTL

(* What is recorded of a run can be resumed, a parked run has somebody who *)
(* will move it, and each reply beyond the first is accounted for by a     *)
(* crash or a resume by hand (executor.py, graph.py).                      *)
THEOREM RunsAlwaysAccounted == RuntimeSpec => []RunsAccounted
<1>1. ASSUME Inv PROVE RunsAccounted
  <2>1. RuntimeTypeOK /\ CheckpointBehindSteps BY <1>1, TypesFollow DEF Inv, Behind
  <2>2. ParkedRunIsMoved BY <1>1 DEF Inv, Awaiting, Mover, ParkedRunIsMoved
  <2>3. ASSUME NEW r \in Runs
        PROVE  replies[r] <= 1 + faults.crashes + faults.recoveries
    <3>1. /\ replies[r] \in Nat /\ faults.crashes \in Nat /\ faults.recoveries \in Nat
      BY <1>1 DEF Inv, Base, Types
    <3>2. Cardinality(Live(r)) \in Nat /\ Cardinality(Open(r)) \in Nat
      BY RuntimeAssumption, FS_Subset, FS_CardinalityType DEF Live, Open
    <3>3. replies[r] + Cardinality(Live(r)) + Cardinality(Open(r)) <= Budget(r)
      BY <1>1 DEF Inv, Spent
    <3> QED BY <3>1, <3>2, <3>3 DEF Budget
  <2>4. RepliesAccounted BY <2>3 DEF RepliesAccounted
  <2> QED BY <2>1, <2>2, <2>4 DEF RunsAccounted
<1> QED BY <1>1, Invariant, PTL

=============================================================================
