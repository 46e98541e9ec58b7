-------------------------- MODULE MCWorkflowEngine --------------------------
(* Programs and drivers with which TLC checks WorkflowEngine.              *)
EXTENDS WorkflowEngine

Set   == [op |-> "SET"]
Emits == [op |-> "EMIT"]
Agent == [op |-> "AGENT"]
Human == [op |-> "HUMAN"]
End   == [op |-> "END"]
Goto(pc) == [op |-> "JUMP", target |-> pc]
Tool(name, gated) == [op |-> "TOOL", name |-> name, gated |-> gated]
WaitFor(kind, timed) == [op |-> "WAIT", for |-> kind, timed |-> timed]
OnReply(yes, no) ==
  [op |-> "BRANCH", to |-> [x \in Results |-> IF x = "reply" THEN {yes} ELSE {no}]]

(* verticals/jewelry/workflows/silent_lead_reactivation.yaml, compiled,    *)
(* for an organisation whose tier engine gates the send, with a second     *)
(* human task on the branch of a lead who stays silent                     *)
GatedRecovery == <<Agent, Human, Tool("send", TRUE), WaitFor("reply", TRUE),
                   OnReply(6, 8), Emits, Goto(9), Human, End>>

(* A hold, then a human task and a gated send *)
HoldThenTool == <<WaitFor("duration", TRUE), Set, Human, Tool("send", TRUE),
                  Emits, End>>

(* tests/integration/test_workflow_waits.py, queue_wf *)
JustWait == <<WaitFor("reply", TRUE), End>>

(* The same with a step to run on the reply *)
WaitThenStep == <<WaitFor("reply", FALSE), Agent, End>>

MCRole == [d \in Drivers |->
             CASE d = "starter2" -> "starter"
               [] OTHER -> d]
=============================================================================
