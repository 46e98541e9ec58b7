--------------------------- MODULE WorkflowEngine ---------------------------
(***************************************************************************)
(* The durable workflow engine: core/workflows/executor.py (the program    *)
(* counter over workflow_runs), waits.py (wait_subscriptions) and          *)
(* consumer.py (the stream handlers that wake a parked run).               *)
(*                                                                         *)
(* Every run belongs to one workflow definition and one concurrency key:   *)
(* runs of different definitions or keys touch no common row.  A driver is *)
(* one sequential loop of the deployment that executes handler code: the   *)
(* consumer that starts runs, the reply, human-task and tool-call          *)
(* consumers, the scheduler's wait sweep, or an operator's resume_run.     *)
(*                                                                         *)
(* A transaction is the atomic step.  The sessions run at READ COMMITTED,  *)
(* so a transaction that SELECTs a run and then UPDATEs it is two steps:   *)
(* the SELECT, which leaves the row it saw in the driver, and the writes   *)
(* with their commit, which use that row and never check it again.         *)
(* Driver d's `at` names the point its code has reached between two steps. *)
(***************************************************************************)
EXTENDS Integers, Sequences, FiniteSets

CONSTANTS
  Drivers,        \* names of the loops that execute handler code
  Role,           \* [Drivers -> RoleNames]
  Program,        \* the compiled program, compile_program(dsl)
  Policy,         \* concurrency policy; "none" is a definition without a key
  HasBlock,       \* the definition has a compensation block
  Compensators,   \* how many agent tasks that block runs
  Expiry,         \* approvals may expire undecided
  MaxRuns, MaxApprovals, MaxSubs,   \* bounds: rows ever inserted
  MaxFailures,    \* bound: handlers that raise or die midway
  MaxResumes      \* bound: operator calls of resume_run

RoleNames == {"starter", "reply", "sweep", "human", "tool", "operator"}
Policies  == {"none", "drop", "queue", "replace"}
Results   == {"none", "reply", "duration", "timeout"}   \* vars.wait.result

Instructions ==
       [op : {"SET", "EMIT", "AGENT", "HUMAN", "END"}]
  \cup [op : {"JUMP"}, target : Nat \ {0}]
  \cup [op : {"BRANCH"}, to : [Results -> SUBSET (Nat \ {0})]]
  \cup [op : {"WAIT"}, for : {"reply", "event", "duration"}, timed : BOOLEAN]
  \cup [op : {"TOOL"}, name : STRING, gated : BOOLEAN]

ASSUME EngineAssumption ==
  /\ Role \in [Drivers -> RoleNames]
  /\ Program \in Seq(Instructions)
  /\ Policy \in Policies
  /\ HasBlock \in BOOLEAN /\ Expiry \in BOOLEAN
  /\ Compensators \in Nat
  /\ MaxRuns \in Nat /\ MaxApprovals \in Nat /\ MaxSubs \in Nat
  /\ MaxFailures \in Nat /\ MaxResumes \in Nat

Runs      == 1..MaxRuns            \* in order of created_at
Approvals == 1..MaxApprovals
Subs      == 1..MaxSubs
PCs       == 1..Len(Program)       \* cursor 0 of the code is 1 here
Tools     == {Program[pc].name : pc \in {p \in PCs : Program[p].op = "TOOL"}}

Op(pc) == IF pc \in PCs THEN Program[pc].op ELSE "END"

Live     == {"running", "waiting"}
Terminal == {"completed", "failed", "compensated", "compensated_partial",
             "superseded"}
Statuses == {"absent", "queued"} \cup Live \cup Terminal

VARIABLES
  run,       \* workflow_runs: status, cursor and the vars the engine reads
  done,      \* workflow_run_events: pcs with a step_completed event, per run
  appr,      \* approvals raised by runs, with their approval.resolved event
  sub,       \* wait_subscriptions
  drv,       \* what each driver is executing
  fired,     \* history: how often each instruction's effect was invoked
  undone,    \* history: how many compensating agent tasks ran, per run
  mishaps,   \* history: which of the races and losses below have happened
  failures, resumes    \* how much of the two bounds is used

vars == <<run, done, appr, sub, drv, fired, undone, mishaps, failures, resumes>>

Rows == [status : Statuses, cursor : Nat \ {0}, approved : SUBSET Tools,
         result : Results]
NewRow == [status |-> "absent", cursor |-> 1, approved |-> {}, result |-> "none"]

Points == {"idle", "insert", "load", "exec", "effect", "record", "park",
           "promote", "promoting", "compensate", "failing", "undo", "claim", "wake",
           "waking", "decide", "deciding", "ack"}

(* run: the run being driven (0: none); row: the row last SELECTed; live:  *)
(* the runs start_run or _promote_next SELECTed; subs: subscriptions seen, *)
(* then claimed; signal: the wait.result to deliver; msg: the approval     *)
(* whose event is being handled; count and partial: compensation progress; *)
(* again: the caller of _compensate re-enters _advance.                    *)
Idle == [at |-> "idle", run |-> 0, row |-> NewRow, live |-> {}, subs |-> {},
         signal |-> "none", msg |-> 0, count |-> 0, partial |-> FALSE,
         again |-> FALSE]

(* The races and losses of the engine, recorded when they happen, because  *)
(* what it promises holds until one of them does: a subscription UPDATEd   *)
(* by a second claim; a decision delivered to a run that is parked on      *)
(* another step, or whose parking driver has not left its loop yet; an     *)
(* operator's resume_run; two start_runs between their SELECT and INSERT;  *)
(* a death while compensators run; a death between a claim and its wake.   *)
Handovers == {"claimed twice", "stray decision", "early decision", "resumed"}
Mishaps   == Handovers \cup {"overlapping start", "broken off", "wake lost"}

Record(mishap, happened) ==
  mishaps' = IF happened THEN mishaps \cup {mishap} ELSE mishaps

Init ==
  /\ run  = [r \in Runs |-> NewRow]
  /\ done = [r \in Runs |-> {}]
  /\ appr = [a \in Approvals |->
               [run |-> 0, pc |-> 0, kind |-> "none", status |-> "absent",
                event |-> "none"]]
  /\ sub  = [s \in Subs |-> [run |-> 0, pc |-> 0, status |-> "absent"]]
  /\ drv  = [d \in Drivers |-> Idle]
  /\ fired  = [r \in Runs |-> [pc \in PCs |-> 0]]
  /\ undone = [r \in Runs |-> 0]
  /\ mishaps = {}
  /\ failures = 0 /\ resumes = 0

-----------------------------------------------------------------------------
(* Helpers                                                                 *)

Free(table) == {i \in DOMAIN table : table[i].status = "absent"}
First(S)    == {i \in S : \A j \in S : i <= j}

At(d, point)     == drv[d].at = point
AtOp(d, op)      == At(d, "exec") /\ Op(drv[d].row.cursor) = op
Go(d, point)     == drv' = [drv EXCEPT ![d].at = point]

(* The loop of _advance comes round to its SELECT, on run r.               *)
Advance(d, r) ==
  drv' = [drv EXCEPT ![d] = [Idle EXCEPT !.at = "load", !.run = r,
                                         !.subs = drv[d].subs, !.msg = drv[d].msg]]
Again(d) == Advance(d, drv[d].run)

(* _advance or _compensate returns: to the next run its handler has to     *)
(* wake, or to the end of the handler.                                     *)
Return(d) ==
  drv' = [drv EXCEPT ![d] = [Idle EXCEPT
            !.at = IF drv[d].subs = {} THEN "ack" ELSE "wake",
            !.subs = drv[d].subs, !.msg = drv[d].msg]]

(* _set_cursor without a status, and with one.  Neither checks the row.    *)
MoveCursor(r, pc)       == run' = [run EXCEPT ![r].cursor = pc]
MoveCursorAs(r, pc, st) == run' = [run EXCEPT ![r].cursor = pc, ![r].status = st]

CreateApproval(r, pc, kind) ==
  \E a \in First(Free(appr)) :
    appr' = [appr EXCEPT ![a] = [run |-> r, pc |-> pc, kind |-> kind,
                                 status |-> "pending", event |-> "none"]]

RegisterWait(r, pc) ==
  \E s \in First(Free(sub)) :
    sub' = [sub EXCEPT ![s] = [run |-> r, pc |-> pc, status |-> "pending"]]

Fire(r, pc) == fired' = [fired EXCEPT ![r][pc] = @ + 1]

(* What subscription s waits for, from the WAIT instruction it was made by. *)
WaitsFor(s) == Program[sub[s].pc].for

-----------------------------------------------------------------------------
(* start_run                                                               *)

(* Mutant: only running runs count as live. *)
StartRunMissesParked(d) ==
  /\ Role[d] = "starter" /\ At(d, "idle") /\ Free(run) # {}
  /\ drv' = [drv EXCEPT ![d].at = "insert",
                        ![d].live = {r \in Runs : run[r].status = "running"}]
  /\ UNCHANGED <<run, done, appr, sub, fired, undone, mishaps, failures, resumes>>

(* The SELECT of _apply_concurrency: the live runs of the key.             *)
StartRun(d) ==
  /\ Role[d] = "starter" /\ At(d, "idle") /\ Free(run) # {}
  /\ drv' = [drv EXCEPT ![d].at = "insert",
               ![d].live = IF Policy = "none" THEN {}
                           ELSE {r \in Runs : run[r].status \in Live}]
  /\ UNCHANGED <<run, done, appr, sub, fired, undone, mishaps, failures, resumes>>

(* A drop policy met a live run: nothing is inserted.                      *)
Drop(d) ==
  /\ At(d, "insert") /\ Policy = "drop" /\ drv[d].live # {}
  /\ Return(d)
  /\ UNCHANGED <<run, done, appr, sub, fired, undone, mishaps, failures, resumes>>

(* The INSERT, after superseding the runs seen live under replace.         *)
InsertRun(d) ==
  /\ At(d, "insert")
  /\ ~ (Policy = "drop" /\ drv[d].live # {})
  /\ \E new \in First(Free(run)) :
     LET queued  == Policy = "queue" /\ drv[d].live # {}
         doomed  == IF Policy = "replace" THEN drv[d].live ELSE {}
     IN  /\ run' = [r \in Runs |->
                      IF r = new
                        THEN [NewRow EXCEPT !.status =
                                IF queued THEN "queued" ELSE "running"]
                      ELSE IF r \in doomed
                        THEN [run[r] EXCEPT !.status = "superseded", !.cursor = 1]
                      ELSE run[r]]
         /\ IF queued THEN Return(d) ELSE Advance(d, new)
         /\ Record("overlapping start", \E e \in Drivers \ {d} : At(e, "insert"))
  /\ UNCHANGED <<done, appr, sub, fired, undone, failures, resumes>>

-----------------------------------------------------------------------------
(* _advance: one transaction per instruction                               *)

(* Mutant: the loop does not look at the status. *)
LoadUnchecked(d) ==
  /\ At(d, "load")
  /\ drv' = [drv EXCEPT ![d].at = "exec", ![d].row = run[drv[d].run]]
  /\ UNCHANGED <<run, done, appr, sub, fired, undone, mishaps, failures, resumes>>

(* Each turn of the loop SELECTs the run and returns unless it is running. *)
Load(d) ==
  /\ At(d, "load")
  /\ LET r == drv[d].run IN
       IF run[r].status = "running"
         THEN drv' = [drv EXCEPT ![d].at = "exec", ![d].row = run[r]]
         ELSE Return(d)
  /\ UNCHANGED <<run, done, appr, sub, fired, undone, mishaps, failures, resumes>>

(* SET and EMIT complete in their own transaction.  SET writes the whole   *)
(* vars column back from the row it read.                                  *)
SetVars(d) ==
  /\ AtOp(d, "SET")
  /\ LET r == drv[d].run  row == drv[d].row IN
       /\ run'  = [run EXCEPT ![r].cursor = row.cursor + 1,
                              ![r].approved = row.approved,
                              ![r].result = row.result]
       /\ done' = [done EXCEPT ![r] = @ \cup {row.cursor}]
  /\ Again(d)
  /\ UNCHANGED <<appr, sub, fired, undone, mishaps, failures, resumes>>

Emit(d) ==
  /\ AtOp(d, "EMIT")
  /\ LET r == drv[d].run  pc == drv[d].row.cursor IN
       /\ MoveCursor(r, pc + 1)
       /\ done' = [done EXCEPT ![r] = @ \cup {pc}]
       /\ Fire(r, pc)
  /\ Again(d)
  /\ UNCHANGED <<appr, sub, undone, mishaps, failures, resumes>>

Branch(d) ==
  /\ AtOp(d, "BRANCH")
  /\ \E target \in Program[drv[d].row.cursor].to[drv[d].row.result] :
       MoveCursor(drv[d].run, target)
  /\ Again(d)
  /\ UNCHANGED <<done, appr, sub, fired, undone, mishaps, failures, resumes>>

Jump(d) ==
  /\ AtOp(d, "JUMP")
  /\ MoveCursor(drv[d].run, Program[drv[d].row.cursor].target)
  /\ Again(d)
  /\ UNCHANGED <<done, appr, sub, fired, undone, mishaps, failures, resumes>>

(* Mutants: no subscription is registered; a status the table refuses. *)
ParkWaitUnregistered(d) ==
  /\ AtOp(d, "WAIT")
  /\ MoveCursorAs(drv[d].run, drv[d].row.cursor, "waiting")
  /\ Return(d)
  /\ UNCHANGED <<done, appr, sub, fired, undone, mishaps, failures, resumes>>

ParkHumanMisspelt(d) ==
  /\ AtOp(d, "HUMAN")
  /\ MoveCursorAs(drv[d].run, drv[d].row.cursor, "parked")
  /\ Return(d)
  /\ UNCHANGED <<done, appr, sub, fired, undone, mishaps, failures, resumes>>

(* Mutant: the loop goes round after a park, as it does for a tool. *)
ParkWaitAndGoOn(d) ==
  /\ AtOp(d, "WAIT")
  /\ LET r == drv[d].run  pc == drv[d].row.cursor IN
       MoveCursorAs(r, pc, "waiting") /\ RegisterWait(r, pc)
  /\ Again(d)
  /\ UNCHANGED <<done, appr, fired, undone, mishaps, failures, resumes>>

(* WAIT and HUMAN park the run and register what will wake it, then        *)
(* _advance returns.                                                       *)
ParkWait(d) ==
  /\ AtOp(d, "WAIT")
  /\ LET r == drv[d].run  pc == drv[d].row.cursor IN
       MoveCursorAs(r, pc, "waiting") /\ RegisterWait(r, pc)
  /\ Return(d)
  /\ UNCHANGED <<done, appr, fired, undone, mishaps, failures, resumes>>

ParkHuman(d) ==
  /\ AtOp(d, "HUMAN")
  /\ LET r == drv[d].run  pc == drv[d].row.cursor IN
       MoveCursorAs(r, pc, "waiting") /\ CreateApproval(r, pc, "human")
  /\ Return(d)
  /\ UNCHANGED <<done, sub, fired, undone, mishaps, failures, resumes>>

(* AGENT and TOOL: skip a step whose step_completed is in the log, else    *)
(* commit step_started and leave the session before the effect.            *)
SkipDone(d) ==
  /\ AtOp(d, "AGENT") \/ AtOp(d, "TOOL")
  /\ LET r == drv[d].run  pc == drv[d].row.cursor IN
       /\ pc \in done[r]
       /\ MoveCursor(r, pc + 1)
  /\ Again(d)
  /\ UNCHANGED <<done, appr, sub, fired, undone, mishaps, failures, resumes>>

StartStep(d) ==
  /\ AtOp(d, "AGENT") \/ AtOp(d, "TOOL")
  /\ drv[d].row.cursor \notin done[drv[d].run]
  /\ Go(d, "effect")
  /\ UNCHANGED <<run, done, appr, sub, fired, undone, mishaps, failures, resumes>>

(* The agent runner ran; a returned failure status goes to _compensate.    *)
RunAgent(d) ==
  /\ At(d, "effect") /\ Op(drv[d].row.cursor) = "AGENT"
  /\ Fire(drv[d].run, drv[d].row.cursor)
  /\ \/ Go(d, "record")
     \/ Go(d, "compensate")
  /\ UNCHANGED <<run, done, appr, sub, undone, mishaps, failures, resumes>>

(* Mutant: the tier gate is not applied. *)
ClearedAlways(d) == TRUE

(* run_tool through the mediation proxy.  A gated tool the run's vars do   *)
(* not list as approved comes back pending; any call may be denied by an   *)
(* earlier check, or fail inside the tool.                                 *)
Cleared(d) == LET ins == Program[drv[d].row.cursor] IN
                ins.gated => ins.name \in drv[d].row.approved

RunTool(d) ==
  /\ At(d, "effect") /\ Op(drv[d].row.cursor) = "TOOL"
  /\ \/ /\ Cleared(d)
        /\ Fire(drv[d].run, drv[d].row.cursor)
        /\ Go(d, "record")
     \/ /\ ~ Cleared(d)
        /\ Go(d, "park")
        /\ UNCHANGED fired
     \/ /\ \/ UNCHANGED fired
           \/ Cleared(d) /\ Fire(drv[d].run, drv[d].row.cursor)
        /\ drv' = [drv EXCEPT ![d].at = "compensate", ![d].again = TRUE]
  /\ UNCHANGED <<run, done, appr, sub, undone, mishaps, failures, resumes>>

(* Mutant: the step is not logged as completed. *)
RecordStepUnlogged(d) ==
  /\ At(d, "record")
  /\ MoveCursor(drv[d].run, drv[d].row.cursor + 1)
  /\ Again(d)
  /\ UNCHANGED <<done, appr, sub, fired, undone, mishaps, failures, resumes>>

(* step_completed and the cursor, in one transaction after the effect.     *)
RecordStep(d) ==
  /\ At(d, "record")
  /\ LET r == drv[d].run  pc == drv[d].row.cursor IN
       /\ done' = [done EXCEPT ![r] = @ \cup {pc}]
       /\ MoveCursor(r, pc + 1)
  /\ Again(d)
  /\ UNCHANGED <<appr, sub, fired, undone, mishaps, failures, resumes>>

(* A pending tool call parks the run on the same step.                     *)
ParkTool(d) ==
  /\ At(d, "park")
  /\ LET r == drv[d].run  pc == drv[d].row.cursor IN
       MoveCursorAs(r, pc, "waiting") /\ CreateApproval(r, pc, "tool")
  /\ Again(d)
  /\ UNCHANGED <<done, sub, fired, undone, mishaps, failures, resumes>>

(* Mutant: completion does not look for a queued run. *)
CompleteUnpromoted(d) ==
  /\ AtOp(d, "END")
  /\ MoveCursorAs(drv[d].run, drv[d].row.cursor, "completed")
  /\ Return(d)
  /\ UNCHANGED <<done, appr, sub, fired, undone, mishaps, failures, resumes>>

Complete(d) ==
  /\ AtOp(d, "END")
  /\ MoveCursorAs(drv[d].run, drv[d].row.cursor, "completed")
  /\ Go(d, "promote")
  /\ UNCHANGED <<done, appr, sub, fired, undone, mishaps, failures, resumes>>

(* Mutant: any queued run is picked. *)
PickQueuedUnordered(d) ==
  /\ At(d, "promote")
  /\ LET queued == {r \in Runs : run[r].status = "queued"} IN
       \/ queued = {} /\ Return(d)
       \/ \E r \in queued :
            drv' = [drv EXCEPT ![d].at = "promoting", ![d].live = {r}]
  /\ UNCHANGED <<run, done, appr, sub, fired, undone, mishaps, failures, resumes>>

(* _promote_next.  Its sub-select takes no row lock, and READ COMMITTED    *)
(* re-checks only the outer `id = ...` after waiting for a concurrent      *)
(* writer, so two promoters can pick the same run.                         *)
PickQueued(d) ==
  /\ At(d, "promote")
  /\ LET queued == {r \in Runs : run[r].status = "queued"} IN
       IF Policy = "none" \/ queued = {}
         THEN Return(d)
         ELSE drv' = [drv EXCEPT ![d].at = "promoting",
                                 ![d].live = First(queued)]
  /\ UNCHANGED <<run, done, appr, sub, fired, undone, mishaps, failures, resumes>>

Promote(d) ==
  /\ At(d, "promoting")
  /\ \E r \in drv[d].live :
       run' = [run EXCEPT ![r].status = "running"] /\ Advance(d, r)
  /\ UNCHANGED <<done, appr, sub, fired, undone, mishaps, failures, resumes>>

-----------------------------------------------------------------------------
(* _compensate                                                             *)

Compensated(d) == IF drv[d].again THEN Again(d) ELSE Return(d)

(* No compensation block: the run is failed, its cursor written back as    *)
(* the SELECT saw it.                                                      *)
LoadToFail(d) ==
  /\ At(d, "compensate") /\ ~ HasBlock
  /\ drv' = [drv EXCEPT ![d].at = "failing", ![d].row = run[drv[d].run]]
  /\ UNCHANGED <<run, done, appr, sub, fired, undone, mishaps, failures, resumes>>

FailRun(d) ==
  /\ At(d, "failing")
  /\ MoveCursorAs(drv[d].run, drv[d].row.cursor, "failed")
  /\ Compensated(d)
  /\ UNCHANGED <<done, appr, sub, fired, undone, mishaps, failures, resumes>>

(* compensation_started is logged; the run's status does not change yet.   *)
BeginCompensation(d) ==
  /\ At(d, "compensate") /\ HasBlock
  /\ Go(d, "undo")
  /\ UNCHANGED <<run, done, appr, sub, fired, undone, mishaps, failures, resumes>>

(* Mutant: one compensator too many. *)
RunCompensatorOnceMore(d) ==
  /\ At(d, "undo") /\ drv[d].count <= Compensators
  /\ undone' = [undone EXCEPT ![drv[d].run] = @ + 1]
  /\ drv' = [drv EXCEPT ![d].count = @ + 1]
  /\ UNCHANGED <<run, done, appr, sub, fired, mishaps, failures, resumes>>

(* One compensating agent task of _run_compensation.                       *)
RunCompensator(d) ==
  /\ At(d, "undo") /\ drv[d].count < Compensators
  /\ undone' = [undone EXCEPT ![drv[d].run] = @ + 1]
  /\ \E failed \in BOOLEAN :
       drv' = [drv EXCEPT ![d].count = @ + 1, ![d].partial = @ \/ failed]
  /\ UNCHANGED <<run, done, appr, sub, fired, mishaps, failures, resumes>>

EndCompensation(d) ==
  /\ At(d, "undo") /\ drv[d].count = Compensators
  /\ run' = [run EXCEPT ![drv[d].run].status =
               IF drv[d].partial THEN "compensated_partial" ELSE "compensated"]
  /\ Compensated(d)
  /\ UNCHANGED <<done, appr, sub, fired, undone, mishaps, failures, resumes>>

-----------------------------------------------------------------------------
(* Waits: claim a subscription, commit, then wake its run                  *)

Pending == {s \in Subs : sub[s].status = "pending"}
Timed   == {s \in Pending : Program[sub[s].pc].timed}

(* Mutant: the sweep forgets duration waits. *)
SeeDueNoDurations(d) ==
  /\ Role[d] = "sweep" /\ At(d, "idle")
  /\ \E seen \in (SUBSET {s \in Timed : WaitsFor(s) # "duration"}) \ {{}} :
       drv' = [drv EXCEPT ![d].at = "claim", ![d].subs = seen]
  /\ UNCHANGED <<run, done, appr, sub, fired, undone, mishaps, failures, resumes>>

(* _claim's sub-select: the pending rows this statement sees.  A reply     *)
(* claims every reply-wait of its conversation, which all runs share; the  *)
(* sweep claims whichever timed waits have come due.                       *)
SeeReply(d) ==
  /\ Role[d] = "reply" /\ At(d, "idle")
  /\ LET seen == {s \in Pending : WaitsFor(s) = "reply"} IN
       /\ seen # {}
       /\ drv' = [drv EXCEPT ![d].at = "claim", ![d].subs = seen]
  /\ UNCHANGED <<run, done, appr, sub, fired, undone, mishaps, failures, resumes>>

SeeDue(d) ==
  /\ Role[d] = "sweep" /\ At(d, "idle")
  /\ \E seen \in (SUBSET Timed) \ {{}} :
       drv' = [drv EXCEPT ![d].at = "claim", ![d].subs = seen]
  /\ UNCHANGED <<run, done, appr, sub, fired, undone, mishaps, failures, resumes>>

(* The wait.result a claim by this driver delivers to the run.             *)
Signal(d, s) ==
  IF Role[d] = "reply" THEN "reply"
  ELSE IF WaitsFor(s) = "duration" THEN "duration" ELSE "timeout"

(* _claim's UPDATE and its commit.  `status = 'pending'` is a condition of *)
(* the sub-select only: after waiting for a concurrent claim PostgreSQL    *)
(* re-checks `id IN (...)` against the rows first seen, so the UPDATE goes *)
(* ahead and RETURNs the run id a second time.                             *)
Claim(d) ==
  /\ At(d, "claim")
  /\ sub' = [s \in Subs |->
               IF s \in drv[d].subs
                 THEN [sub[s] EXCEPT !.status =
                         IF Signal(d, s) = "timeout" THEN "expired" ELSE "matched"]
                 ELSE sub[s]]
  /\ Go(d, "wake")
  /\ Record("claimed twice", ~ drv[d].subs \subseteq Pending)
  /\ UNCHANGED <<run, done, appr, fired, undone, failures, resumes>>

(* wake_run's SELECT: a run that is not waiting is left alone.             *)
LoadToWake(d) ==
  /\ At(d, "wake")
  /\ \E s \in drv[d].subs :
       LET r == sub[s].run  rest == drv[d].subs \ {s} IN
         IF run[r].status = "waiting"
           THEN drv' = [drv EXCEPT ![d].at = "waking", ![d].run = r,
                          ![d].row = run[r], ![d].subs = rest,
                          ![d].signal = Signal(d, s)]
           ELSE drv' = [drv EXCEPT ![d].at = IF rest = {} THEN "ack" ELSE "wake",
                                   ![d].subs = rest]
  /\ UNCHANGED <<run, done, appr, sub, fired, undone, mishaps, failures, resumes>>

WakeRun(d) ==
  /\ At(d, "waking")
  /\ run' = [run EXCEPT ![drv[d].run] =
               [drv[d].row EXCEPT !.status = "running", !.cursor = @ + 1,
                                  !.result = drv[d].signal]]
  /\ Again(d)
  /\ UNCHANGED <<done, appr, sub, fired, undone, mishaps, failures, resumes>>

-----------------------------------------------------------------------------
(* Approvals and the consumers of approval.resolved                        *)

(* A reviewer decides a pending approval; the event commits with it.  The  *)
(* engine reads the decision from the event, so `status` keeps it here     *)
(* even if the ladder overwrites the column later.                         *)
Resolve(a) ==
  /\ appr[a].status = "pending"
  /\ \E decision \in {"approved", "rejected"} :
       appr' = [appr EXCEPT ![a].status = decision, ![a].event = "queued"]
  /\ UNCHANGED <<run, done, sub, drv, fired, undone, mishaps, failures, resumes>>

(* The ladder expires it instead, and emits nothing.                       *)
Expire(a) ==
  /\ Expiry /\ appr[a].status = "pending"
  /\ appr' = [appr EXCEPT ![a].status = "expired"]
  /\ UNCHANGED <<run, done, sub, drv, fired, undone, mishaps, failures, resumes>>

(* The consumer group whose action_type matches takes the event.  The      *)
(* uncommitted dedupe row keeps any other consumer of the group off it.    *)
TakeDecision(d, a) ==
  /\ Role[d] = appr[a].kind /\ At(d, "idle")
  /\ appr[a].event = "queued"
  /\ \A e \in Drivers : drv[e].msg # a
  /\ drv' = [drv EXCEPT ![d].at = "decide", ![d].msg = a, ![d].run = appr[a].run]
  /\ UNCHANGED <<run, done, appr, sub, fired, undone, mishaps, failures, resumes>>

(* The SELECT of resume_human and resume_tool.  It looks at the status of  *)
(* the run and not at the step the decision was about.                     *)
LoadToDecide(d) ==
  /\ At(d, "decide")
  /\ LET r == drv[d].run
         parked == run[r].status = "waiting"
         here   == run[r].cursor = appr[drv[d].msg].pc
     IN  /\ IF parked
              THEN drv' = [drv EXCEPT ![d].at = "deciding", ![d].row = run[r]]
              ELSE Return(d)
         /\ IF parked /\ ~ here THEN Record("stray decision", TRUE)
            ELSE Record("early decision", parked /\ \E e \in Drivers :
                                            At(e, "load") /\ drv[e].run = r)
  /\ UNCHANGED <<run, done, appr, sub, fired, undone, failures, resumes>>

Decision(d) == appr[drv[d].msg].status

(* Mutant: a rejection is recorded and nothing else. *)
ResumeHumanNoCompensation(d) ==
  /\ At(d, "deciding") /\ appr[drv[d].msg].kind = "human"
  /\ IF Decision(d) = "approved"
       THEN run' = [run EXCEPT ![drv[d].run] =
                      [drv[d].row EXCEPT !.status = "running", !.cursor = @ + 1]]
            /\ Again(d)
       ELSE UNCHANGED run /\ Return(d)
  /\ UNCHANGED <<done, appr, sub, fired, undone, mishaps, failures, resumes>>

(* Mutant: the decision is not looked at. *)
ResumeHumanAnyway(d) ==
  /\ At(d, "deciding") /\ appr[drv[d].msg].kind = "human"
  /\ run' = [run EXCEPT ![drv[d].run] =
               [drv[d].row EXCEPT !.status = "running", !.cursor = @ + 1]]
  /\ Again(d)
  /\ UNCHANGED <<done, appr, sub, fired, undone, mishaps, failures, resumes>>

(* resume_human: an approval moves past the step it finds the run on.      *)
ResumeHuman(d) ==
  /\ At(d, "deciding") /\ appr[drv[d].msg].kind = "human"
  /\ run' = [run EXCEPT ![drv[d].run] =
               IF Decision(d) = "approved"
                 THEN [drv[d].row EXCEPT !.status = "running", !.cursor = @ + 1]
                 ELSE drv[d].row]
  /\ IF Decision(d) = "approved" THEN Again(d) ELSE Go(d, "compensate")
  /\ UNCHANGED <<done, appr, sub, fired, undone, mishaps, failures, resumes>>

(* resume_tool: an approval re-enters the step with the tool it names      *)
(* added to _approved_tools; the cursor column is not written.             *)
ResumeTool(d) ==
  /\ At(d, "deciding") /\ appr[drv[d].msg].kind = "tool"
  /\ LET r == drv[d].run
         yes == Decision(d) = "approved"
         tool == Program[appr[drv[d].msg].pc].name
     IN  run' = [run EXCEPT
                   ![r].status = IF yes THEN "running" ELSE "waiting",
                   ![r].approved = IF yes THEN drv[d].row.approved \cup {tool}
                                   ELSE drv[d].row.approved,
                   ![r].result = drv[d].row.result]
  /\ IF Decision(d) = "approved" THEN Again(d) ELSE Go(d, "compensate")
  /\ UNCHANGED <<done, appr, sub, fired, undone, mishaps, failures, resumes>>

-----------------------------------------------------------------------------
(* The end of a handler, its failure, and the operator                     *)

(* The handler returned: the dedupe row commits and the event is acked.    *)
Ack(d) ==
  /\ At(d, "ack")
  /\ drv' = [drv EXCEPT ![d] = Idle]
  /\ IF drv[d].msg = 0 THEN UNCHANGED appr
     ELSE appr' = [appr EXCEPT ![drv[d].msg].event = "handled"]
  /\ UNCHANGED <<run, done, sub, fired, undone, mishaps, failures, resumes>>

(* The handler raises or its process dies: the open transaction and the    *)
(* dedupe row roll back, the event stays pending and is delivered again.   *)
Fail(d) ==
  /\ ~ At(d, "idle") /\ failures < MaxFailures
  /\ drv' = [drv EXCEPT ![d] = Idle]
  /\ failures' = failures + 1
  /\ mishaps' = mishaps \cup {m \in Mishaps :
        \/ m = "broken off" /\ At(d, "undo")
        \/ m = "wake lost" /\ ~ At(d, "claim")
                           /\ (drv[d].subs # {} \/ At(d, "waking"))}
  /\ UNCHANGED <<run, done, appr, sub, fired, undone, resumes>>

(* resume_run: drive a run found running.  Nothing in the deployment calls *)
(* it; the tests and an operator do.                                       *)
ResumeRun(d) ==
  /\ Role[d] = "operator" /\ At(d, "idle") /\ resumes < MaxResumes
  /\ \E r \in Runs :
       /\ run[r].status = "running"
       /\ drv' = [drv EXCEPT ![d].at = "load", ![d].run = r]
  /\ resumes' = resumes + 1
  /\ Record("resumed", TRUE)
  /\ UNCHANGED <<run, done, appr, sub, fired, undone, failures>>

-----------------------------------------------------------------------------
AdvanceStep(d) ==
  \/ Load(d) \/ SetVars(d) \/ Emit(d) \/ Branch(d) \/ Jump(d)
  \/ ParkWait(d) \/ ParkHuman(d) \/ SkipDone(d) \/ StartStep(d)
  \/ RunAgent(d) \/ RunTool(d) \/ RecordStep(d) \/ ParkTool(d)
  \/ Complete(d) \/ PickQueued(d) \/ Promote(d)

CompensateStep(d) ==
  \/ LoadToFail(d) \/ FailRun(d)
  \/ BeginCompensation(d) \/ RunCompensator(d) \/ EndCompensation(d)

(* A driver inside a handler takes its next step. *)
HandlerStep(d) ==
  \/ Drop(d) \/ InsertRun(d) \/ AdvanceStep(d) \/ CompensateStep(d)
  \/ Claim(d) \/ LoadToWake(d) \/ WakeRun(d)
  \/ LoadToDecide(d) \/ ResumeHuman(d) \/ ResumeTool(d) \/ Ack(d)

(* An idle driver of the deployment picks up work. *)
PickUp(d) == SeeReply(d) \/ SeeDue(d) \/ \E a \in Approvals : TakeDecision(d, a)

Next ==
  \/ \E d \in Drivers : HandlerStep(d) \/ PickUp(d) \/ StartRun(d)
                        \/ ResumeRun(d) \/ Fail(d)
  \/ \E a \in Approvals : Resolve(a) \/ Expire(a)

Spec == Init /\ [][Next]_vars

(* asyncio keeps running a handler that has something to do, the consumer  *)
(* loops and the minute sweep come round again, and work that stays        *)
(* available is picked up.  Starting runs, deciding approvals, failing and *)
(* calling resume_run are left to the environment.                         *)
Fairness == \A d \in Drivers : WF_vars(HandlerStep(d)) /\ WF_vars(PickUp(d))

FairSpec == Spec /\ Fairness
-----------------------------------------------------------------------------
(* Properties                                                              *)

ApprovalRows ==
  [run : {0} \cup Runs, pc : Nat, kind : {"none", "human", "tool"},
   status : {"absent", "pending", "approved", "rejected", "expired"},
   event : {"none", "queued", "handled"}]

SubscriptionRows ==
  [run : {0} \cup Runs, pc : Nat, status : {"absent", "pending", "matched", "expired"}]

DriverStates ==
  [at : Points, run : {0} \cup Runs, row : Rows, live : SUBSET Runs,
   subs : SUBSET Subs, signal : Results, msg : {0} \cup Approvals, count : Nat,
   partial : BOOLEAN, again : BOOLEAN]

(* Every variable keeps its type: statuses are those the table's CHECK     *)
(* admits, cursors and snapshots are rows the executor can have read.      *)
TypeOK ==
  /\ run  \in [Runs -> Rows]
  /\ done \in [Runs -> SUBSET (Nat \ {0})]
  /\ appr \in [Approvals -> ApprovalRows]
  /\ sub  \in [Subs -> SubscriptionRows]
  /\ drv  \in [Drivers -> DriverStates]
  /\ fired  \in [Runs -> [PCs -> Nat]]
  /\ undone \in [Runs -> Nat]
  /\ mishaps \subseteq Mishaps
  /\ failures \in 0..MaxFailures
  /\ resumes \in 0..MaxResumes

Approved(r, pc, kind) ==
  \E a \in Approvals : /\ appr[a].run = r /\ appr[a].pc = pc
                       /\ appr[a].kind = kind /\ appr[a].status = "approved"

(* A gated tool is invoked for a run only after a reviewer approved that   *)
(* tool for that run, whatever crashes, is redelivered or races            *)
(* (_run_tool_step, resume_tool and the _approved_tools var).              *)
ToolGate ==
  \A r \in Runs, pc \in PCs :
    (Op(pc) = "TOOL" /\ Program[pc].gated /\ fired[r][pc] > 0) =>
      \E a \in Approvals :
        /\ appr[a].run = r /\ appr[a].kind = "tool" /\ appr[a].status = "approved"
        /\ Program[appr[a].pc].name = Program[pc].name

(* Each run is still handed from one driver to the next.  waits.py says a  *)
(* signal wakes a run exactly once and the consumer delivers a decision to *)
(* the step it was about; the code keeps neither promise in the races      *)
(* above, so what follows from them is promised until one happens.         *)
Orderly == mishaps \cap Handovers = {}

(* Until a handover goes wrong, no step moves a run past a human_task that *)
(* nobody approved: neither a decision about another task, delivered again *)
(* after a crash, nor the wake of a wait (resume_human, wake_run).         *)
HumanGate ==
  [][Orderly' =>
       \A r \in Runs :
         LET pc == run[r].cursor IN
           (Op(pc) = "HUMAN" /\ run[r].status = "waiting" /\ run'[r].cursor > pc)
             => Approved(r, pc, "human")]_vars

(* Until then a run leaves an AGENT or TOOL step forward only with its     *)
(* step_completed in the log, even a TOOL step it was parked on: no effect *)
(* is skipped (RecordStep, resume_human, resume_tool).                     *)
NoSkippedEffect ==
  [][Orderly' =>
       \A r \in Runs :
         LET pc == run[r].cursor IN
           (Op(pc) \in {"AGENT", "TOOL"} /\ run'[r].cursor > pc)
             => pc \in done'[r]]_vars

(* Until then no instruction's effect is invoked twice in a run (the       *)
(* programs here have no backward jump), whatever dies and is delivered    *)
(* again: the step_started/step_completed protocol.                        *)
EffectOnce == Orderly => \A r \in Runs, pc \in PCs : fired[r][pc] <= 1

(* Until then two drivers never execute the same run at once: a wake or a  *)
(* decision hands the run to exactly one of the reply consumer, the sweep, *)
(* the two resolution consumers and the starter.                           *)
Driving(d) == drv[d].at \in {"exec", "effect", "record", "park"}

OneDriverPerRun ==
  Orderly =>
    \A d, e \in Drivers :
      (Driving(d) /\ Driving(e) /\ drv[d].run = drv[e].run) => d = e

(* waits.py: a signal atomically claims its subscription, so a run wakes   *)
(* exactly once.  No two signals are about to wake the same run.           *)
WokenOnce ==
  \A d, e \in Drivers :
    (At(d, "waking") /\ At(e, "waking") /\ drv[d].run = drv[e].run) => d = e

(* A concurrency key has at most one live run, unless two start_runs were  *)
(* between their SELECT and INSERT at once (_apply_concurrency): no other  *)
(* interleaving of starters with the drivers of a run lets a second one in. *)
OneLiveRun ==
  (Orderly /\ "overlapping start" \notin mishaps) =>
    \A q, r \in Runs :
      (Policy # "none" /\ run[q].status \in Live /\ run[r].status \in Live) => q = r

(* A run that ended stays as it ended: no late driver revives it or        *)
(* overwrites its outcome (_set_cursor, wake_run, _compensate).            *)
TerminalIsFinal ==
  \A r \in Runs : run[r].status \in Terminal => run'[r].status = run[r].status

(* Saga order: an effect is invoked only for a running run, and never once *)
(* its compensation began (_compensate against _advance).                  *)
SagaOrder ==
  \A r \in Runs :
    fired'[r] # fired[r] => run[r].status = "running" /\ undone[r] = 0

(* Until a handover goes wrong an ending is final, and compensation is the *)
(* last thing a run does, also when a rejection is delivered again.        *)
EndsInOrder == [][Orderly' => TerminalIsFinal /\ SagaOrder]_vars

(* Until then, and until a driver dies among the compensators (a rejection *)
(* delivered again starts them over), they run once each: a run ends       *)
(* compensated after exactly the block's tasks (_run_compensation).        *)
CompensateOnce ==
  (Orderly /\ "broken off" \notin mishaps) =>
    \A r \in Runs :
      /\ undone[r] <= Compensators
      /\ run[r].status \in {"compensated", "compensated_partial"} =>
           undone[r] = Compensators

(* A parked run can still be woken: a subscription that something will     *)
(* claim, a claimed one whose waker is alive, or an approval open or on    *)
(* its way, for the step it is parked on.                                  *)
Wakeable(r) ==
  \/ \E s \in Subs : /\ sub[s].run = r /\ sub[s].pc = run[r].cursor
                     /\ \/ s \in Pending /\ (WaitsFor(s) = "reply" \/ s \in Timed)
                        \/ \E d \in Drivers : s \in drv[d].subs
  \/ \E d \in Drivers : At(d, "waking") /\ drv[d].run = r
  \/ \E a \in Approvals : /\ appr[a].run = r /\ appr[a].pc = run[r].cursor
                          /\ \/ appr[a].status = "pending"
                             \/ appr[a].event = "queued"

(* The ladder let its approval expire, and emits nothing.                  *)
Undecided(r) ==
  \E a \in Approvals : /\ appr[a].run = r /\ appr[a].pc = run[r].cursor
                       /\ appr[a].status = "expired"

(* Until a handover goes wrong or a wake dies with its claimant, a parked  *)
(* run is stranded only by the expiry of its approval: deaths inside a     *)
(* decision, a compensation or a drive leave it a way on (waits.py,        *)
(* consumer.py).                                                           *)
ParkedRunIsWakeable ==
  (Orderly /\ "wake lost" \notin mishaps) =>
    \A r \in Runs : run[r].status = "waiting" => Wakeable(r) \/ Undecided(r)

(* waits.py: parked runs survive restarts and wake on the right signal.    *)
DurableWaits == \A r \in Runs : run[r].status = "waiting" => Wakeable(r)

(* A driver that brought a run to its end does not leave the key with      *)
(* queued runs and none live (_promote_next in _advance; _compensate calls *)
(* nothing of the kind, so this is a promise for runs that end in END).    *)
EndPromotes ==
  [][\A d \in Drivers :
       (/\ drv[d].at \in {"exec", "promote"}
        /\ drv'[d].at \in {"ack", "wake"})
         => \/ \E r \in Runs : run'[r].status \in Live
            \/ \A r \in Runs : run'[r].status # "queued"]_vars

(* Queued runs of a key are promoted oldest first (_promote_next).         *)
PromotedOldestFirst ==
  [][\A q, r \in Runs :
       (run[r].status = "queued" /\ run'[r].status = "running" /\ q < r)
         => run[q].status # "queued"]_vars

(* A run parked on a wait with a timeout leaves it, by a reply or by the   *)
(* sweep (waits.py).                                                       *)
TimedWaitsEnd ==
  \A r \in Runs :
    (/\ run[r].status = "waiting" /\ Op(run[r].cursor) = "WAIT"
     /\ Program[run[r].cursor].timed)
      ~> (run[r].status # "waiting" \/ Op(run[r].cursor) # "WAIT")

(* A decision reaches its run: its event is handled and the run is no      *)
(* longer parked on the step it was about (on_approval_resolved,           *)
(* on_tool_approval_resolved).                                             *)
DecisionsLand ==
  \A a \in Approvals, r \in Runs :
    (appr[a].event = "queued" /\ appr[a].run = r)
      ~> (/\ appr[a].event = "handled"
          /\ ~ (run[r].status = "waiting" /\ run[r].cursor = appr[a].pc))
=============================================================================
