------------------------ MODULE WorkflowEngineProofs ------------------------
(***************************************************************************)
(* Proofs about WorkflowEngine for every program, policy and set of        *)
(* drivers, in three parts.  First, without any condition, a gated tool    *)
(* runs for a run only after a reviewer approved that tool for that run.   *)
(* Second, who drives a run: until one of the engine's handovers goes      *)
(* wrong a live run is in the hands of one driver or of one thing that     *)
(* will wake it, and what the engine promises of effects, endings,         *)
(* compensation and parked runs follows.  Third, again without a           *)
(* condition, in which order queued runs are promoted and who promotes.    *)
(***************************************************************************)
EXTENDS WorkflowEngine, TLAPS

(***************************************************************************)
(* Types and consent                                                       *)
(***************************************************************************)

(* The tools some reviewer approved for run r. *)
ApprovedTools(r) ==
  {Program[appr[a].pc].name : a \in
     {b \in Approvals : /\ appr[b].run = r /\ appr[b].kind = "tool"
                        /\ appr[b].status = "approved"}}

-----------------------------------------------------------------------------
(* The inductive invariant                                                 *)

(* What the rows of the two wake tables say. *)
RowsShaped ==
  /\ \A a \in Approvals :
       /\ appr[a].status # "absent" => appr[a].run \in Runs
       /\ appr[a].kind = "tool" => appr[a].pc \in PCs /\ Op(appr[a].pc) = "TOOL"
       /\ appr[a].event = "queued" => appr[a].status \in {"approved", "rejected"}
  /\ \A s \in Subs : sub[s].status # "absent" => sub[s].run \in Runs

(* What a driver's registers hold at each point of its code. *)
DriverShaped(d) ==
  /\ drv[d].at \in {"load", "exec", "effect", "record", "park", "waking",
                   "compensate", "failing", "undo"} => drv[d].run \in Runs
  /\ drv[d].at = "park" => Op(drv[d].row.cursor) = "TOOL"
  /\ drv[d].at \in {"decide", "deciding"} =>
       /\ drv[d].msg \in Approvals /\ drv[d].run \in Runs
       /\ drv[d].run = appr[drv[d].msg].run
       /\ appr[drv[d].msg].status \in {"approved", "rejected"}
  /\ \A s \in drv[d].subs : sub[s].status # "absent"

RowPoints == {"exec", "effect", "record", "park", "waking", "deciding", "failing"}

(* A tool is listed as approved, in a run or in a row some driver still    *)
(* holds, only if a reviewer approved it for the run.                      *)
ListsHonest ==
  /\ \A r \in Runs : run[r].approved \subseteq ApprovedTools(r)
  /\ \A d \in Drivers :
       drv[d].at \in RowPoints => drv[d].row.approved \subseteq ApprovedTools(drv[d].run)

CallsApproved ==
  \A r \in Runs, pc \in PCs :
    (Op(pc) = "TOOL" /\ Program[pc].gated /\ fired[r][pc] > 0)
      => Program[pc].name \in ApprovedTools(r)

Shaped == TypeOK /\ RowsShaped /\ \A d \in Drivers : DriverShaped(d)

GateInv == Shaped /\ ListsHonest /\ CallsApproved

-----------------------------------------------------------------------------
(* Type correctness                                                        *)

(* The constants' types, and what an instruction's operation says of it.   *)
LEMMA ProgramFacts ==
  /\ Len(Program) \in Nat
  /\ Runs \subseteq Nat \ {0} /\ Subs \subseteq Nat \ {0}
  /\ Approvals \subseteq Nat \ {0} /\ PCs \subseteq Nat \ {0}
  /\ \A pc \in PCs : Program[pc] \in Instructions
  /\ \A pc : Op(pc) # "END" => pc \in PCs /\ Program[pc].op = Op(pc)
  /\ \A pc : Op(pc) = "BRANCH" => Program[pc].to \in [Results -> SUBSET (Nat \ {0})]
  /\ \A pc : Op(pc) = "JUMP" => Program[pc].target \in Nat \ {0}
  /\ \A pc : Op(pc) = "TOOL" => Program[pc].name \in Tools
<1>1. Len(Program) \in Nat /\ \A pc \in PCs : Program[pc] \in Instructions
  BY EngineAssumption DEF PCs
<1>2. /\ Runs \subseteq Nat \ {0} /\ Subs \subseteq Nat \ {0}
      /\ Approvals \subseteq Nat \ {0} /\ PCs \subseteq Nat \ {0}
  BY EngineAssumption, <1>1 DEF Runs, Subs, Approvals, PCs
<1>3. \A pc : Op(pc) # "END" => pc \in PCs /\ Program[pc].op = Op(pc)
  BY DEF Op
<1>4. \A pc : Op(pc) = "BRANCH" => Program[pc].to \in [Results -> SUBSET (Nat \ {0})]
  BY <1>1, <1>3 DEF Instructions
<1>5. \A pc : Op(pc) = "JUMP" => Program[pc].target \in Nat \ {0}
  BY <1>1, <1>3 DEF Instructions
<1>6. \A pc : Op(pc) = "TOOL" => Program[pc].name \in Tools
  BY <1>3 DEF Tools
<1>. QED BY <1>1, <1>2, <1>3, <1>4, <1>5, <1>6

LEMMA ShapedInit == Init => Shaped
<1>. SUFFICES ASSUME Init PROVE Shaped
  OBVIOUS
<1>. USE EngineAssumption, ProgramFacts
<1>1. NewRow \in Rows
  BY DEF NewRow, Rows, Statuses, Results
<1>2. Idle \in DriverStates
  BY <1>1 DEF Idle, DriverStates, Points, Results
<1>3. TypeOK
  BY <1>1, <1>2 DEF Init, TypeOK, ApprovalRows, SubscriptionRows
<1>4. RowsShaped
  BY DEF Init, RowsShaped
<1>5. \A d \in Drivers : DriverShaped(d)
  BY DEF Init, DriverShaped, Idle
<1>. QED BY <1>3, <1>4, <1>5 DEF Shaped

-----------------------------------------------------------------------------
(* What a step of one driver may leave behind                              *)

Untouched(d) == \A e \in Drivers \ {d} : drv'[e] = drv[e]

(* The wake tables only grow: a row keeps its subject and its decision.    *)
WakeTablesGrow ==
  /\ \A a \in Approvals : appr[a].status # "absent" =>
       /\ appr'[a].run = appr[a].run /\ appr'[a].pc = appr[a].pc
       /\ appr'[a].kind = appr[a].kind
       /\ appr[a].status \in {"approved", "rejected"} =>
            appr'[a].status = appr[a].status
  /\ \A s \in Subs : sub[s].status # "absent" => sub'[s].status # "absent"

(* The row a driver holds lists only tools approved for its run. *)
Holds(d) ==
  drv[d].at \in RowPoints => drv[d].row.approved \subseteq ApprovedTools(drv[d].run)

(* A gated tool invoked by this step had been approved for its run. *)
FiresApproved ==
  \A r \in Runs, pc \in PCs :
    (Op(pc) = "TOOL" /\ Program[pc].gated /\ fired'[r][pc] # fired[r][pc])
      => Program[pc].name \in ApprovedTools(r)

TablesOK ==
  /\ run \in [Runs -> Rows] /\ done \in [Runs -> SUBSET (Nat \ {0})]
  /\ fired \in [Runs -> [PCs -> Nat]] /\ undone \in [Runs -> Nat]
  /\ mishaps \subseteq Mishaps
  /\ failures \in 0..MaxFailures /\ resumes \in 0..MaxResumes

DriversOK == drv \in [Drivers -> DriverStates]

ListsApproved == \A r \in Runs : run[r].approved \subseteq ApprovedTools(r)

LEMMA ApprovedToolsGrow ==
  ASSUME TypeOK, WakeTablesGrow, NEW r \in Runs
  PROVE  ApprovedTools(r) \subseteq ApprovedTools(r)'
BY SMTT(30) DEF WakeTablesGrow, ApprovedTools, TypeOK, ApprovalRows

(* A driver that does not move stays well shaped and honest. *)
LEMMA StillShaped ==
  ASSUME GateInv, WakeTablesGrow, NEW e \in Drivers, drv'[e] = drv[e]
  PROVE  DriverShaped(e)' /\ Holds(e)'
<1>1. drv[e] \in DriverStates /\ DriverShaped(e)
  BY DEF GateInv, Shaped, TypeOK
<1>2. \A s \in drv[e].subs : s \in Subs
  BY <1>1 DEF DriverStates
<1>3. DriverShaped(e)'
  BY <1>1, <1>2 DEF DriverShaped, WakeTablesGrow
<1>4. ASSUME drv[e].at \in RowPoints
      PROVE  drv[e].row.approved \subseteq ApprovedTools(drv[e].run)'
  BY <1>4, ApprovedToolsGrow DEF RowPoints, GateInv, Shaped, DriverShaped, ListsHonest
<1>. QED BY <1>3, <1>4 DEF Holds

(* A step of driver d that keeps the types keeps the invariant, if it      *)
(* leaves d well shaped and lists or invokes only approved tools.          *)
LEMMA StepKeepsGateInv ==
  ASSUME GateInv, NEW d \in Drivers, Untouched(d), WakeTablesGrow,
         appr' \in [Approvals -> ApprovalRows], sub' \in [Subs -> SubscriptionRows],
         TablesOK', DriversOK', RowsShaped', DriverShaped(d)',
         ListsApproved', Holds(d)', FiresApproved
  PROVE  GateInv'
<1>1. TypeOK'
  BY DEF TypeOK, TablesOK, DriversOK
<1>2. \A e \in Drivers : DriverShaped(e)' /\ Holds(e)'
  BY StillShaped DEF Untouched
<1>3. ListsHonest'
  BY <1>2 DEF ListsHonest, ListsApproved, Holds
<1>4. \A r \in Runs : ApprovedTools(r) \subseteq ApprovedTools(r)'
  BY ApprovedToolsGrow DEF GateInv, Shaped
<1>5. CallsApproved'
  BY <1>4 DEF CallsApproved, FiresApproved, GateInv
<1>. QED BY <1>1, <1>2, <1>3, <1>5 DEF GateInv, Shaped

(* The same for a step that leaves both wake tables alone.                 *)
LEMMA DriverStepKeepsGateInv ==
  ASSUME GateInv, NEW d \in Drivers, Untouched(d), UNCHANGED <<appr, sub>>,
         TablesOK', DriversOK', DriverShaped(d)',
         ListsApproved', Holds(d)', FiresApproved
  PROVE  GateInv'
<1>1. WakeTablesGrow
  BY DEF WakeTablesGrow
<1>2. /\ appr' \in [Approvals -> ApprovalRows] /\ sub' \in [Subs -> SubscriptionRows]
      /\ RowsShaped'
  BY DEF GateInv, Shaped, TypeOK, RowsShaped
<1>. QED BY <1>1, <1>2, StepKeepsGateInv

-----------------------------------------------------------------------------
(* How the helpers move a driver                                           *)

LEMMA DriverMoves ==
  ASSUME TypeOK, NEW d \in Drivers, NEW x \in DriverStates,
         drv' = [drv EXCEPT ![d] = x]
  PROVE  DriversOK' /\ Untouched(d) /\ drv'[d] = x
BY DEF TypeOK, DriversOK, Untouched

LEMMA GoMoves ==
  ASSUME TypeOK, NEW d \in Drivers, NEW point \in Points, Go(d, point)
  PROVE  DriversOK' /\ Untouched(d) /\ drv'[d] = [drv[d] EXCEPT !.at = point]
<1>1. [drv[d] EXCEPT !.at = point] \in DriverStates
  BY DEF TypeOK, DriverStates
<1>. QED BY <1>1 DEF Go, TypeOK, DriversOK, Untouched

LEMMA IdleTyped == NewRow \in Rows /\ Idle \in DriverStates
<1>1. NewRow \in Rows
  BY DEF NewRow, Rows, Statuses, Results
<1>. QED BY <1>1 DEF Idle, DriverStates, Points, Results

LEMMA AdvanceMoves ==
  ASSUME GateInv, NEW d \in Drivers, NEW r \in Runs, Advance(d, r)
  PROVE  /\ DriversOK' /\ Untouched(d) /\ Holds(d)'
         /\ drv'[d].at = "load" /\ drv'[d].run = r /\ drv'[d].subs = drv[d].subs
         /\ UNCHANGED sub => DriverShaped(d)'
<1>. DEFINE x == [Idle EXCEPT !.at = "load", !.run = r,
                              !.subs = drv[d].subs, !.msg = drv[d].msg]
<1>1. x \in DriverStates
  BY IdleTyped DEF GateInv, Shaped, TypeOK, DriverStates, Points
<1>2. DriversOK' /\ Untouched(d) /\ drv'[d] = x
  BY <1>1, DriverMoves DEF Advance, GateInv, Shaped
<1>3. x.at = "load" /\ x.run = r /\ x.subs = drv[d].subs
  BY DEF Idle
<1>4. Holds(d)'
  BY <1>2, <1>3 DEF Holds, RowPoints
<1>5. UNCHANGED sub => DriverShaped(d)'
  BY <1>2, <1>3 DEF DriverShaped, GateInv, Shaped
<1>. QED BY <1>2, <1>3, <1>4, <1>5

LEMMA ReturnMoves ==
  ASSUME GateInv, NEW d \in Drivers, Return(d)
  PROVE  /\ DriversOK' /\ Untouched(d) /\ Holds(d)'
         /\ drv'[d].at \in {"ack", "wake"} /\ drv'[d].subs = drv[d].subs
         /\ UNCHANGED sub => DriverShaped(d)'
<1>. DEFINE x == [Idle EXCEPT !.at = IF drv[d].subs = {} THEN "ack" ELSE "wake",
                              !.subs = drv[d].subs, !.msg = drv[d].msg]
<1>1. x \in DriverStates
  BY IdleTyped DEF GateInv, Shaped, TypeOK, DriverStates, Points
<1>2. DriversOK' /\ Untouched(d) /\ drv'[d] = x
  BY <1>1, DriverMoves DEF Return, GateInv, Shaped
<1>3. x.at \in {"ack", "wake"} /\ x.subs = drv[d].subs
  BY DEF Idle
<1>4. Holds(d)'
  BY <1>2, <1>3 DEF Holds, RowPoints
<1>5. UNCHANGED sub => DriverShaped(d)'
  BY <1>2, <1>3 DEF DriverShaped, GateInv, Shaped
<1>. QED BY <1>2, <1>3, <1>4, <1>5

-----------------------------------------------------------------------------
(* How the helpers write the run                                           *)

LEMMA SameApprovals ==
  ASSUME UNCHANGED appr PROVE \A r : ApprovedTools(r)' = ApprovedTools(r)
BY DEF ApprovedTools

LEMMA SameRuns ==
  ASSUME GateInv, UNCHANGED <<run, appr>>
  PROVE  run' \in [Runs -> Rows] /\ ListsApproved'
BY SameApprovals DEF GateInv, Shaped, TypeOK, ListsHonest, ListsApproved

(* A write of one run that lists only approved tools. *)
LEMMA RunWritten ==
  ASSUME GateInv, UNCHANGED appr, NEW r \in Runs, NEW row \in Rows,
         run' = [run EXCEPT ![r] = row], row.approved \subseteq ApprovedTools(r)
  PROVE  run' \in [Runs -> Rows] /\ ListsApproved'
<1>1. run \in [Runs -> Rows] /\ \A q \in Runs : run[q].approved \subseteq ApprovedTools(q)
  BY DEF GateInv, Shaped, TypeOK, ListsHonest
<1>2. run' \in [Runs -> Rows]
  BY <1>1
<1>3. \A q \in Runs : run'[q].approved \subseteq ApprovedTools(q)
  BY <1>1
<1>. QED BY <1>2, <1>3, SameApprovals DEF ListsApproved

LEMMA CursorMoved ==
  ASSUME GateInv, UNCHANGED appr, NEW r \in Runs, NEW pc \in Nat \ {0},
         MoveCursor(r, pc)
  PROVE  run' \in [Runs -> Rows] /\ ListsApproved'
<1>. DEFINE row == [run[r] EXCEPT !.cursor = pc]
<1>1. run \in [Runs -> Rows] /\ run[r].approved \subseteq ApprovedTools(r)
  BY DEF GateInv, Shaped, TypeOK, ListsHonest
<1>2. row \in Rows /\ row.approved = run[r].approved
  BY <1>1 DEF Rows
<1>3. run' = [run EXCEPT ![r] = row]
  BY <1>1 DEF MoveCursor
<1>. HIDE DEF row
<1>. QED BY <1>1, <1>2, <1>3, RunWritten

LEMMA StatusWritten ==
  ASSUME GateInv, UNCHANGED appr, NEW r \in Runs, NEW st \in Statuses,
         run' = [run EXCEPT ![r].status = st]
  PROVE  run' \in [Runs -> Rows] /\ ListsApproved'
<1>. DEFINE row == [run[r] EXCEPT !.status = st]
<1>1. run \in [Runs -> Rows] /\ run[r].approved \subseteq ApprovedTools(r)
  BY DEF GateInv, Shaped, TypeOK, ListsHonest
<1>2. row \in Rows /\ row.approved = run[r].approved
  BY <1>1 DEF Rows
<1>3. run' = [run EXCEPT ![r] = row]
  BY <1>1
<1>. HIDE DEF row
<1>. QED BY <1>1, <1>2, <1>3, RunWritten

LEMMA CursorMovedAs ==
  ASSUME GateInv, NEW r \in Runs, NEW pc \in Nat \ {0}, NEW st \in Statuses,
         MoveCursorAs(r, pc, st)
  PROVE  /\ run' \in [Runs -> Rows]
         /\ \A q \in Runs : run'[q].approved = run[q].approved
<1>. DEFINE row == [run[r] EXCEPT !.cursor = pc, !.status = st]
<1>1. run \in [Runs -> Rows]
  BY DEF GateInv, Shaped, TypeOK
<1>2. row \in Rows /\ row.approved = run[r].approved
  BY <1>1 DEF Rows
<1>3. run' = [run EXCEPT ![r] = row]
  BY <1>1 DEF MoveCursorAs
<1>. HIDE DEF row
<1>. QED BY <1>1, <1>2, <1>3

(* An effect invoked for a tool that needs no approval or has one. *)
LEMMA Fired ==
  ASSUME GateInv, NEW r \in Runs, NEW pc \in PCs, Fire(r, pc),
         (Op(pc) = "TOOL" /\ Program[pc].gated) =>
            Program[pc].name \in ApprovedTools(r)
  PROVE  fired' \in [Runs -> [PCs -> Nat]] /\ FiresApproved
<1>1. fired \in [Runs -> [PCs -> Nat]]
  BY DEF GateInv, Shaped, TypeOK
<1>2. fired' \in [Runs -> [PCs -> Nat]]
  BY <1>1 DEF Fire
<1>3. \A q \in Runs, k \in PCs : fired'[q][k] # fired[q][k] => q = r /\ k = pc
  BY <1>1 DEF Fire
<1>. QED BY <1>2, <1>3 DEF FiresApproved

(* What a driver knows at the points where it holds a row. *)
LEMMA RowHeld ==
  ASSUME GateInv, NEW d \in Drivers, drv[d].at \in RowPoints
  PROVE  /\ drv[d].run \in Runs /\ drv[d].row \in Rows
         /\ drv[d].row.cursor \in Nat \ {0} /\ drv[d].row.cursor + 1 \in Nat \ {0}
         /\ drv[d].row.approved \subseteq ApprovedTools(drv[d].run)
<1>1. drv[d].row \in Rows
  BY DEF GateInv, Shaped, TypeOK, DriverStates
<1>2. drv[d].run \in Runs
  BY DEF RowPoints, GateInv, Shaped, DriverShaped
<1>3. drv[d].row.cursor \in Nat \ {0} /\ drv[d].row.cursor + 1 \in Nat \ {0}
  BY <1>1 DEF Rows
<1>4. drv[d].row.approved \subseteq ApprovedTools(drv[d].run)
  BY DEF GateInv, ListsHonest
<1>. QED BY <1>1, <1>2, <1>3, <1>4

LEMMA StepLogged ==
  ASSUME GateInv, NEW r \in Runs, NEW pc \in Nat \ {0},
         done' = [done EXCEPT ![r] = @ \cup {pc}]
  PROVE  done' \in [Runs -> SUBSET (Nat \ {0})]
BY DEF GateInv, Shaped, TypeOK

(* A race or a loss is added to the history, and none is forgotten. *)
LEMMA MishapRecorded ==
  ASSUME GateInv, NEW m \in Mishaps, NEW happened, Record(m, happened)
  PROVE  mishaps' \subseteq Mishaps /\ mishaps \subseteq mishaps'
BY DEF Record, GateInv, Shaped, TypeOK

-----------------------------------------------------------------------------
(* The steps of _advance                                                   *)

(* The types of the tables a step leaves alone. *)
LEMMA OldTables == GateInv => TablesOK /\ DriversOK
BY DEF GateInv, Shaped, TypeOK, TablesOK, DriversOK

LEMMA LoadStep ==
  ASSUME GateInv, NEW d \in Drivers, Load(d) PROVE GateInv'
<1>. DEFINE r == drv[d].run
<1>1. r \in Runs /\ run[r] \in Rows /\ run[r].approved \subseteq ApprovedTools(r)
  BY DEF Load, At, GateInv, Shaped, TypeOK, DriverShaped, ListsHonest
<1>2. TablesOK' /\ ListsApproved' /\ FiresApproved
  BY OldTables, SameRuns DEF Load, TablesOK, FiresApproved
<1>3. DriversOK' /\ Untouched(d) /\ Holds(d)' /\ DriverShaped(d)'
  <2>1. CASE run[r].status = "running"
    <3>. DEFINE x == [drv[d] EXCEPT !.at = "exec", !.row = run[r]]
    <3>1. x \in DriverStates
      BY ZenonT(60), <1>1 DEF GateInv, Shaped, TypeOK, DriverStates, Points
    <3>2. drv' = [drv EXCEPT ![d] = x]
      BY <2>1 DEF Load, GateInv, Shaped, TypeOK
    <3>3. DriversOK' /\ Untouched(d) /\ drv'[d] = x
      BY <3>1, <3>2, DriverMoves DEF GateInv, Shaped
    <3>4. x.at = "exec" /\ x.run = r /\ x.row = run[r] /\ x.subs = drv[d].subs
      BY DEF GateInv, Shaped, TypeOK, DriverStates
    <3>5. Holds(d)'
      BY <1>1, <3>3, <3>4, SameApprovals DEF Holds, Load
    <3>6. DriverShaped(d)'
      BY <1>1, <3>3, <3>4 DEF DriverShaped, Load, GateInv, Shaped
    <3>. QED BY <3>3, <3>5, <3>6
  <2>2. CASE run[r].status # "running"
    BY <2>2, ReturnMoves DEF Load
  <2>. QED BY <2>1, <2>2
<1>. QED BY <1>2, <1>3, DriverStepKeepsGateInv DEF Load

LEMMA SetVarsStep ==
  ASSUME GateInv, NEW d \in Drivers, SetVars(d) PROVE GateInv'
<1>. DEFINE r == drv[d].run
            row == drv[d].row
            new == [run[r] EXCEPT !.cursor = row.cursor + 1,
                                  !.approved = row.approved, !.result = row.result]
<1>1. /\ r \in Runs /\ row \in Rows /\ row.cursor \in Nat \ {0}
      /\ row.cursor + 1 \in Nat \ {0} /\ row.approved \subseteq ApprovedTools(r)
  BY RowHeld DEF SetVars, AtOp, At, RowPoints
<1>2. run \in [Runs -> Rows]
  BY DEF GateInv, Shaped, TypeOK
<1>3. new \in Rows /\ new.approved = row.approved
  BY <1>1, <1>2 DEF Rows
<1>4. run' = [run EXCEPT ![r] = new]
  BY <1>1, <1>2 DEF SetVars
<1>5. run' \in [Runs -> Rows] /\ ListsApproved'
  <2>. HIDE DEF new
  <2>. QED BY <1>1, <1>3, <1>4, RunWritten DEF SetVars
<1>6. done' \in [Runs -> SUBSET (Nat \ {0})]
  BY <1>1, StepLogged DEF SetVars
<1>7. TablesOK' /\ FiresApproved
  BY <1>5, <1>6, OldTables DEF SetVars, TablesOK, FiresApproved
<1>8. DriversOK' /\ Untouched(d) /\ Holds(d)' /\ DriverShaped(d)'
  BY <1>1, AdvanceMoves DEF SetVars, Again
<1>. QED BY <1>5, <1>7, <1>8, DriverStepKeepsGateInv DEF SetVars

LEMMA EmitStep ==
  ASSUME GateInv, NEW d \in Drivers, Emit(d) PROVE GateInv'
<1>. DEFINE r == drv[d].run
            pc == drv[d].row.cursor
<1>1. r \in Runs /\ pc \in Nat \ {0} /\ pc + 1 \in Nat \ {0}
  BY RowHeld DEF Emit, AtOp, At, RowPoints
<1>2. Op(pc) = "EMIT" /\ pc \in PCs
  BY ProgramFacts DEF Emit, AtOp
<1>3. run' \in [Runs -> Rows] /\ ListsApproved'
  BY <1>1, CursorMoved DEF Emit
<1>4. done' \in [Runs -> SUBSET (Nat \ {0})]
  BY <1>1, StepLogged DEF Emit
<1>5. fired' \in [Runs -> [PCs -> Nat]] /\ FiresApproved
  BY <1>1, <1>2, Fired DEF Emit
<1>6. TablesOK'
  BY <1>3, <1>4, <1>5, OldTables DEF Emit, TablesOK
<1>7. DriversOK' /\ Untouched(d) /\ Holds(d)' /\ DriverShaped(d)'
  BY <1>1, AdvanceMoves DEF Emit, Again
<1>. QED BY <1>3, <1>5, <1>6, <1>7, DriverStepKeepsGateInv DEF Emit

(* BRANCH, JUMP and a skipped step only move the cursor. *)
LEMMA CursorOnlyStep ==
  ASSUME GateInv, NEW d \in Drivers, drv[d].at \in RowPoints,
         NEW pc \in Nat \ {0}, MoveCursor(drv[d].run, pc), Again(d),
         UNCHANGED <<done, appr, sub, fired, undone, mishaps, failures, resumes>>
  PROVE  GateInv'
<1>1. drv[d].run \in Runs
  BY RowHeld
<1>2. run' \in [Runs -> Rows] /\ ListsApproved'
  BY <1>1, CursorMoved
<1>3. TablesOK' /\ FiresApproved
  BY <1>2, OldTables DEF TablesOK, FiresApproved
<1>4. DriversOK' /\ Untouched(d) /\ Holds(d)' /\ DriverShaped(d)'
  BY <1>1, AdvanceMoves DEF Again
<1>. QED BY <1>2, <1>3, <1>4, DriverStepKeepsGateInv

LEMMA MovingSteps ==
  ASSUME GateInv, NEW d \in Drivers, Branch(d) \/ Jump(d) \/ SkipDone(d)
  PROVE  GateInv'
<1>1. drv[d].at \in RowPoints /\ drv[d].row.cursor + 1 \in Nat \ {0}
  BY RowHeld DEF Branch, Jump, SkipDone, AtOp, At, RowPoints
<1>2. CASE Branch(d)
  BY <1>1, <1>2, RowHeld, ProgramFacts, CursorOnlyStep DEF Rows, Branch, AtOp
<1>3. CASE Jump(d)  BY <1>1, <1>3, ProgramFacts, CursorOnlyStep DEF Jump, AtOp
<1>4. CASE SkipDone(d)
  BY <1>1, <1>4, CursorOnlyStep DEF SkipDone
<1>. QED BY <1>2, <1>3, <1>4

(* A driver that goes on to another point of its code with the same run,   *)
(* row and subscriptions.                                                  *)
LEMMA SameRegisters ==
  ASSUME GateInv, NEW d \in Drivers, UNCHANGED <<appr, sub>>,
         drv'[d].run = drv[d].run, drv'[d].row = drv[d].row,
         drv'[d].subs = drv[d].subs,
         drv'[d].at \in {"effect", "record", "park", "compensate", "undo",
                         "promote", "promoting", "insert"},
         drv'[d].at \in {"effect", "record", "park"} => drv[d].at \in RowPoints,
         drv'[d].at = "park" => Op(drv[d].row.cursor) = "TOOL",
         drv'[d].at \in {"compensate", "undo"} => drv[d].run \in Runs
  PROVE  Holds(d)' /\ DriverShaped(d)'
<1>1. drv[d].at \in RowPoints =>
        drv[d].run \in Runs /\ drv[d].row.approved \subseteq ApprovedTools(drv[d].run)
  BY RowHeld
<1>2. Holds(d)'
  BY <1>1, SameApprovals DEF Holds, RowPoints
<1>3. DriverShaped(d)'
  BY <1>1 DEF DriverShaped, GateInv, Shaped
<1>. QED BY <1>2, <1>3

LEMMA GoKeeps ==
  ASSUME GateInv, NEW d \in Drivers, UNCHANGED <<appr, sub>>,
         NEW point \in {"effect", "record", "park", "compensate", "undo", "promote"},
         Go(d, point),
         point # "undo" => drv[d].at \in RowPoints,
         point = "undo" => drv[d].at = "compensate",
         point = "park" => Op(drv[d].row.cursor) = "TOOL"
  PROVE  DriversOK' /\ Untouched(d) /\ Holds(d)' /\ DriverShaped(d)'
<1>1. /\ DriversOK' /\ Untouched(d)
      /\ drv'[d] = [drv[d] EXCEPT !.at = point]
  BY ZenonT(60), GoMoves DEF GateInv, Shaped, Points
<1>2. drv[d].run \in Runs
  BY RowHeld DEF GateInv, Shaped, DriverShaped
<1>3. /\ drv'[d].at = point /\ drv'[d].run = drv[d].run
      /\ drv'[d].row = drv[d].row /\ drv'[d].subs = drv[d].subs
  BY <1>1 DEF GateInv, Shaped, TypeOK, DriverStates
<1>4. Holds(d)' /\ DriverShaped(d)'
  BY <1>2, <1>3, SameRegisters
<1>. QED BY <1>1, <1>4

(* Only the driver moves. *)
LEMMA DriverOnlyStep ==
  ASSUME GateInv, NEW d \in Drivers,
         DriversOK', Untouched(d), Holds(d)', DriverShaped(d)',
         UNCHANGED <<run, done, appr, sub, fired, undone, failures, resumes>>,
         mishaps' = mishaps \/ mishaps' \subseteq Mishaps
  PROVE  GateInv'
<1>1. TablesOK' /\ ListsApproved' /\ FiresApproved
  BY OldTables, SameRuns DEF TablesOK, FiresApproved
<1>. QED BY <1>1, DriverStepKeepsGateInv

LEMMA EffectSteps ==
  ASSUME GateInv, NEW d \in Drivers, StartStep(d) \/ RunAgent(d) \/ RunTool(d)
  PROVE  GateInv'
<1>. DEFINE r == drv[d].run
            pc == drv[d].row.cursor
<1>1. /\ drv[d].at \in RowPoints /\ r \in Runs
      /\ drv[d].row.approved \subseteq ApprovedTools(r)
  BY RowHeld DEF StartStep, RunAgent, RunTool, AtOp, At, RowPoints
<1>2. CASE StartStep(d)
  BY <1>1, <1>2, GoKeeps, DriverOnlyStep DEF StartStep
<1>3. CASE RunAgent(d)
  BY <1>1, <1>3, ProgramFacts, Fired, OldTables, SameRuns, GoKeeps, DriverStepKeepsGateInv DEF
     RunAgent, TablesOK
<1>4. CASE RunTool(d)
  <2>1. pc \in PCs /\ Op(pc) = "TOOL"
    BY <1>4, ProgramFacts DEF RunTool
  <2>2. Cleared(d) => (Program[pc].gated => Program[pc].name \in ApprovedTools(r))
    BY <1>1 DEF Cleared
  <2>3. UNCHANGED fired => fired' \in [Runs -> [PCs -> Nat]] /\ FiresApproved
    BY OldTables DEF TablesOK, FiresApproved
  <2>4. (Cleared(d) /\ Fire(r, pc)) =>
          fired' \in [Runs -> [PCs -> Nat]] /\ FiresApproved
    BY <1>1, <2>1, <2>2, Fired
  <2>5. fired' \in [Runs -> [PCs -> Nat]] /\ FiresApproved
    BY <1>4, <2>3, <2>4 DEF RunTool
  <2>6. TablesOK' /\ ListsApproved'
    BY <1>4, <2>5, OldTables, SameRuns DEF RunTool, TablesOK
  <2>7. DriversOK' /\ Untouched(d) /\ Holds(d)' /\ DriverShaped(d)'
    <3>1. CASE Go(d, "record") \/ Go(d, "park")
      BY <1>1, <1>4, <2>1, <3>1, GoKeeps DEF RunTool
    <3>2. CASE drv' = [drv EXCEPT ![d].at = "compensate", ![d].again = TRUE]
      <4>. DEFINE x == [drv[d] EXCEPT !.at = "compensate", !.again = TRUE]
      <4>1. /\ x \in DriverStates /\ x.at = "compensate" /\ x.run = r
            /\ x.row = drv[d].row /\ x.subs = drv[d].subs
        BY ZenonT(60) DEF GateInv, Shaped, TypeOK, DriverStates, Points
      <4>2. drv' = [drv EXCEPT ![d] = x]
        BY <3>2 DEF GateInv, Shaped, TypeOK
      <4>3. DriversOK' /\ Untouched(d) /\ drv'[d] = x
        BY <4>1, <4>2, DriverMoves DEF GateInv, Shaped
      <4>. QED BY <1>1, <1>4, <4>1, <4>3, SameRegisters DEF RunTool
    <3>. QED BY <1>4, <3>1, <3>2 DEF RunTool
  <2>. QED BY <1>4, <2>5, <2>6, <2>7, DriverStepKeepsGateInv DEF RunTool
<1>. QED BY <1>2, <1>3, <1>4

LEMMA RecordStepStep ==
  ASSUME GateInv, NEW d \in Drivers, RecordStep(d) PROVE GateInv'
<1>. DEFINE r == drv[d].run
            pc == drv[d].row.cursor
<1>1. r \in Runs /\ pc \in Nat \ {0} /\ pc + 1 \in Nat \ {0}
  BY RowHeld DEF RecordStep, At, RowPoints
<1>2. run' \in [Runs -> Rows] /\ ListsApproved'
  BY <1>1, CursorMoved DEF RecordStep
<1>3. done' \in [Runs -> SUBSET (Nat \ {0})]
  BY <1>1, StepLogged DEF RecordStep
<1>4. TablesOK' /\ FiresApproved
  BY <1>2, <1>3, OldTables DEF RecordStep, TablesOK, FiresApproved
<1>5. DriversOK' /\ Untouched(d) /\ Holds(d)' /\ DriverShaped(d)'
  BY <1>1, AdvanceMoves DEF RecordStep, Again
<1>. QED BY <1>2, <1>4, <1>5, DriverStepKeepsGateInv DEF RecordStep

LEMMA CompleteStep ==
  ASSUME GateInv, NEW d \in Drivers, Complete(d) PROVE GateInv'
<1>1. /\ drv[d].at \in RowPoints /\ drv[d].run \in Runs
      /\ drv[d].row.cursor \in Nat \ {0}
  BY RowHeld DEF Complete, AtOp, At, RowPoints
<1>2. /\ run' \in [Runs -> Rows]
      /\ \A q \in Runs : run'[q].approved = run[q].approved
  BY <1>1, CursorMovedAs DEF Complete, Statuses, Terminal
<1>3. ListsApproved'
  BY <1>2, SameApprovals DEF Complete, ListsApproved, GateInv, ListsHonest
<1>4. TablesOK' /\ FiresApproved
  BY <1>2, OldTables DEF Complete, TablesOK, FiresApproved
<1>5. DriversOK' /\ Untouched(d) /\ Holds(d)' /\ DriverShaped(d)'
  BY <1>1, GoKeeps DEF Complete
<1>. QED BY <1>3, <1>4, <1>5, DriverStepKeepsGateInv DEF Complete

-----------------------------------------------------------------------------
(* Parking: a new row in one of the wake tables                            *)

LEMMA ApprovalCreated ==
  ASSUME GateInv, UNCHANGED sub, NEW r \in Runs, NEW pc \in Nat \ {0},
         NEW kind \in {"human", "tool"}, kind = "tool" => Op(pc) = "TOOL",
         CreateApproval(r, pc, kind)
  PROVE  /\ appr' \in [Approvals -> ApprovalRows]
         /\ WakeTablesGrow /\ RowsShaped'
         /\ \A q \in Runs : ApprovedTools(q) \subseteq ApprovedTools(q)'
<1>. DEFINE new == [run |-> r, pc |-> pc, kind |-> kind,
                    status |-> "pending", event |-> "none"]
<1>1. appr \in [Approvals -> ApprovalRows]
  BY DEF GateInv, Shaped, TypeOK
<1>2. PICK a \in Approvals : /\ appr[a].status = "absent"
                             /\ appr' = [appr EXCEPT ![a] = new]
  BY <1>1 DEF CreateApproval, First, Free
<1>3. new \in ApprovalRows
  BY DEF ApprovalRows
<1>4. appr' \in [Approvals -> ApprovalRows]
  BY <1>1, <1>2, <1>3
<1>5. WakeTablesGrow
  BY <1>1, <1>2 DEF WakeTablesGrow
<1>6. RowsShaped'  BY <1>1, <1>2, ProgramFacts DEF GateInv, Shaped, RowsShaped
<1>7. \A q \in Runs : ApprovedTools(q) \subseteq ApprovedTools(q)'
  BY <1>5, ApprovedToolsGrow DEF GateInv, Shaped
<1>. QED BY <1>4, <1>5, <1>6, <1>7

LEMMA WaitRegistered ==
  ASSUME GateInv, UNCHANGED appr, NEW r \in Runs, NEW pc \in Nat \ {0},
         RegisterWait(r, pc)
  PROVE  /\ sub' \in [Subs -> SubscriptionRows] /\ WakeTablesGrow /\ RowsShaped'
         /\ \A q \in Runs : ApprovedTools(q) \subseteq ApprovedTools(q)'
<1>1. sub \in [Subs -> SubscriptionRows]
  BY DEF GateInv, Shaped, TypeOK
<1>2. PICK s \in Subs :
        /\ sub[s].status = "absent"
        /\ sub' = [sub EXCEPT ![s] = [run |-> r, pc |-> pc, status |-> "pending"]]
  BY <1>1 DEF RegisterWait, First, Free
<1>3. sub' \in [Subs -> SubscriptionRows]
  BY <1>1, <1>2 DEF SubscriptionRows
<1>4. WakeTablesGrow
  BY <1>1, <1>2 DEF WakeTablesGrow
<1>5. RowsShaped'
  BY <1>1, <1>2 DEF GateInv, Shaped, RowsShaped
<1>. QED BY <1>3, <1>4, <1>5, SameApprovals

(* A driver whose next point holds no row is well shaped as long as its    *)
(* subscriptions are still rows of the table.                              *)
LEMMA RowlessShaped ==
  ASSUME GateInv, NEW d \in Drivers, WakeTablesGrow,
         drv'[d].at \in {"load", "ack", "wake"}, drv'[d].subs = drv[d].subs,
         drv'[d].at = "load" => drv'[d].run \in Runs
  PROVE  DriverShaped(d)'
<1>1. \A s \in drv[d].subs : s \in Subs /\ sub[s].status # "absent"
  BY DEF GateInv, Shaped, TypeOK, DriverStates, DriverShaped
<1>. QED BY <1>1 DEF DriverShaped, WakeTablesGrow

LEMMA ParkSteps ==
  ASSUME GateInv, NEW d \in Drivers, ParkWait(d) \/ ParkHuman(d) \/ ParkTool(d)
  PROVE  GateInv'
<1>. DEFINE r == drv[d].run
            pc == drv[d].row.cursor
<1>1. r \in Runs /\ pc \in Nat \ {0}
  BY RowHeld DEF ParkWait, ParkHuman, ParkTool, AtOp, At, RowPoints
<1>2. /\ run' \in [Runs -> Rows]
      /\ \A q \in Runs : run'[q].approved = run[q].approved
  BY <1>1, CursorMovedAs DEF ParkWait, ParkHuman, ParkTool, Statuses, Live
<1>3. TablesOK' /\ FiresApproved
  BY <1>2, OldTables DEF ParkWait, ParkHuman, ParkTool, TablesOK, FiresApproved
<1>4. /\ DriversOK' /\ Untouched(d) /\ Holds(d)'
      /\ drv'[d].at \in {"load", "ack", "wake"} /\ drv'[d].subs = drv[d].subs
      /\ drv'[d].at = "load" => drv'[d].run \in Runs
  BY <1>1, AdvanceMoves, ReturnMoves DEF Again, ParkWait, ParkHuman, ParkTool
<1>5. /\ appr' \in [Approvals -> ApprovalRows] /\ sub' \in [Subs -> SubscriptionRows]
      /\ WakeTablesGrow /\ RowsShaped'
      /\ \A q \in Runs : ApprovedTools(q) \subseteq ApprovedTools(q)'
  BY <1>1, WaitRegistered, ApprovalCreated DEF ParkWait, GateInv, Shaped, TypeOK, ParkHuman,
     ParkTool, At, DriverShaped
<1>6. ListsApproved'
  BY <1>2, <1>5 DEF ListsApproved, GateInv, ListsHonest
<1>7. DriverShaped(d)'
  BY <1>4, <1>5, RowlessShaped
<1>. QED BY <1>3, <1>4, <1>5, <1>6, <1>7, StepKeepsGateInv

-----------------------------------------------------------------------------
(* Starting, promoting and compensating runs                               *)

LEMMA StartSteps ==
  ASSUME GateInv, NEW d \in Drivers, StartRun(d) \/ Drop(d)
  PROVE  GateInv'
<1>1. CASE StartRun(d)
  <2>. DEFINE seen == IF Policy = "none" THEN {}
                      ELSE {r \in Runs : run[r].status \in Live}
              x == [drv[d] EXCEPT !.at = "insert", !.live = seen]
  <2>1. /\ x \in DriverStates /\ x.at = "insert" /\ x.run = drv[d].run
        /\ x.row = drv[d].row /\ x.subs = drv[d].subs
    BY ZenonT(60) DEF GateInv, Shaped, TypeOK, DriverStates, Points
  <2>2. drv' = [drv EXCEPT ![d] = x]
    BY <1>1 DEF StartRun, GateInv, Shaped, TypeOK
  <2>3. DriversOK' /\ Untouched(d) /\ drv'[d] = x
    BY <2>1, <2>2, DriverMoves DEF GateInv, Shaped
  <2>4. Holds(d)' /\ DriverShaped(d)'
    BY <1>1, <2>1, <2>3, SameRegisters DEF StartRun
  <2>. QED BY <1>1, <2>3, <2>4, DriverOnlyStep DEF StartRun
<1>2. CASE Drop(d)
  BY <1>2, ReturnMoves, DriverOnlyStep DEF Drop
<1>. QED BY <1>1, <1>2

LEMMA RowRewritten ==
  ASSUME NEW old \in Rows, NEW st \in Statuses, NEW pc \in Nat \ {0}
  PROVE  /\ [old EXCEPT !.status = st, !.cursor = pc] \in Rows
         /\ [old EXCEPT !.status = st, !.cursor = pc].approved = old.approved
BY DEF Rows

LEMMA InsertRunStep ==
  ASSUME GateInv, NEW d \in Drivers, InsertRun(d) PROVE GateInv'
<1>. DEFINE queued == Policy = "queue" /\ drv[d].live # {}
            doomed == IF Policy = "replace" THEN drv[d].live ELSE {}
            row == [NewRow EXCEPT !.status = IF queued THEN "queued" ELSE "running"]
<1>1. PICK new \in Runs :
        /\ run' = [r \in Runs |->
                     IF r = new THEN row
                     ELSE IF r \in doomed
                       THEN [run[r] EXCEPT !.status = "superseded", !.cursor = 1]
                     ELSE run[r]]
        /\ IF queued THEN Return(d) ELSE Advance(d, new)
  BY DEF InsertRun, First, Free, GateInv, Shaped, TypeOK
<1>2. row \in Rows /\ row.approved = {}
  BY DEF NewRow, Rows, Statuses, Live, Results
<1>3. run' \in [Runs -> Rows] /\ \A r \in Runs : run'[r].approved \subseteq ApprovedTools(r)
  <2>1. /\ run \in [Runs -> Rows]
        /\ \A r \in Runs : run[r].approved \subseteq ApprovedTools(r)
    BY DEF GateInv, Shaped, TypeOK, ListsHonest
  <2>2. ASSUME NEW r \in Runs
        PROVE  /\ [run[r] EXCEPT !.status = "superseded", !.cursor = 1] \in Rows
               /\ [run[r] EXCEPT !.status = "superseded", !.cursor = 1].approved
                    = run[r].approved
    <3>1. "superseded" \in Statuses /\ 1 \in Nat \ {0} /\ run[r] \in Rows
      BY <2>1 DEF Statuses, Terminal
    <3>. QED BY <3>1, RowRewritten
  <2>. HIDE DEF row
  <2>. QED BY <1>1, <1>2, <2>1, <2>2
<1>4. ListsApproved'
  BY <1>3, SameApprovals DEF InsertRun, ListsApproved
<1>5. TablesOK' /\ FiresApproved
  <2>1. mishaps' \subseteq Mishaps
    BY MishapRecorded DEF InsertRun, Mishaps
  <2>. QED BY <1>3, <2>1, OldTables DEF InsertRun, TablesOK, FiresApproved
<1>6. DriversOK' /\ Untouched(d) /\ Holds(d)' /\ DriverShaped(d)'
  BY <1>1, AdvanceMoves, ReturnMoves DEF InsertRun
<1>. QED BY <1>4, <1>5, <1>6, DriverStepKeepsGateInv DEF InsertRun

LEMMA PromoteSteps ==
  ASSUME GateInv, NEW d \in Drivers, PickQueued(d) \/ Promote(d)
  PROVE  GateInv'
<1>1. CASE PickQueued(d)
  <2>. DEFINE queued == {r \in Runs : run[r].status = "queued"}
              x == [drv[d] EXCEPT !.at = "promoting", !.live = First(queued)]
  <2>1. CASE Return(d)
    BY <1>1, <2>1, ReturnMoves, DriverOnlyStep DEF PickQueued
  <2>2. CASE drv' = [drv EXCEPT ![d].at = "promoting", ![d].live = First(queued)]
    <3>1. /\ x \in DriverStates /\ x.at = "promoting" /\ x.run = drv[d].run
          /\ x.row = drv[d].row /\ x.subs = drv[d].subs
      BY ZenonT(60) DEF GateInv, Shaped, TypeOK, DriverStates, Points, First
    <3>2. drv' = [drv EXCEPT ![d] = x]
      BY <2>2 DEF GateInv, Shaped, TypeOK
    <3>3. DriversOK' /\ Untouched(d) /\ drv'[d] = x
      BY <3>1, <3>2, DriverMoves DEF GateInv, Shaped
    <3>4. Holds(d)' /\ DriverShaped(d)'
      BY <1>1, <3>1, <3>3, SameRegisters DEF PickQueued
    <3>. QED BY <1>1, <3>3, <3>4, DriverOnlyStep DEF PickQueued
  <2>. QED BY <1>1, <2>1, <2>2 DEF PickQueued
<1>2. CASE Promote(d)
  BY <1>2, StatusWritten, OldTables, AdvanceMoves, DriverStepKeepsGateInv DEF Promote,
     GateInv, Shaped, TypeOK, DriverStates, Statuses, Live, TablesOK, FiresApproved
<1>. QED BY <1>1, <1>2

(* The end of _compensate, with the row it writes. *)
LEMMA OutcomeWritten ==
  ASSUME GateInv, NEW d \in Drivers, drv[d].at \in {"failing", "undo"},
         run' \in [Runs -> Rows], ListsApproved', Compensated(d),
         UNCHANGED <<done, appr, sub, fired, undone, mishaps, failures, resumes>>
  PROVE  GateInv'
<1>1. drv[d].run \in Runs
  BY DEF GateInv, Shaped, DriverShaped
<1>2. TablesOK' /\ FiresApproved
  BY OldTables DEF TablesOK, FiresApproved
<1>3. DriversOK' /\ Untouched(d) /\ Holds(d)' /\ DriverShaped(d)'
  BY <1>1, AdvanceMoves, ReturnMoves DEF Compensated, Again
<1>. QED BY <1>2, <1>3, DriverStepKeepsGateInv

(* A SELECT that leaves the row in the driver. *)
LEMMA RowSelected ==
  ASSUME GateInv, NEW d \in Drivers, NEW point \in {"deciding", "failing"},
         drv[d].at \in {"decide", "compensate"}, point = "deciding" => drv[d].at = "decide",
         UNCHANGED <<appr, sub>>,
         drv' = [drv EXCEPT ![d].at = point, ![d].row = run[drv[d].run]]
  PROVE  DriversOK' /\ Untouched(d) /\ Holds(d)' /\ DriverShaped(d)'
<1>. DEFINE r == drv[d].run
            x == [drv[d] EXCEPT !.at = point, !.row = run[r]]
<1>1. /\ drv \in [Drivers -> DriverStates] /\ drv[d] \in DriverStates
      /\ DriverShaped(d) /\ r \in Runs /\ run[r] \in Rows
      /\ run[r].approved \subseteq ApprovedTools(r)
  BY DEF GateInv, Shaped, TypeOK, DriverShaped, ListsHonest
<1>2. /\ x \in DriverStates /\ x.at = point /\ x.run = r /\ x.msg = drv[d].msg
      /\ x.row = run[r] /\ x.subs = drv[d].subs
  BY <1>1 DEF DriverStates, Points
<1>3. drv' = [drv EXCEPT ![d] = x]
  BY <1>1
<1>4. DriversOK' /\ Untouched(d) /\ drv'[d] = x
  BY <1>2, <1>3, DriverMoves DEF GateInv, Shaped
<1>5. Holds(d)'
  BY <1>1, <1>2, <1>4, SameApprovals DEF Holds
<1>6. DriverShaped(d)'
  BY <1>1, <1>2, <1>4 DEF DriverShaped
<1>. QED BY <1>4, <1>5, <1>6

LEMMA FailSteps ==
  ASSUME GateInv, NEW d \in Drivers, LoadToFail(d) \/ FailRun(d)
  PROVE  GateInv'
<1>1. CASE LoadToFail(d)
  BY <1>1, RowSelected, DriverOnlyStep DEF LoadToFail, At
<1>2. CASE FailRun(d)
  <2>1. drv[d].at = "failing" /\ UNCHANGED appr
    BY <1>2 DEF FailRun, At
  <2>2. drv[d].run \in Runs /\ drv[d].row.cursor \in Nat \ {0}
    BY <2>1, RowHeld DEF RowPoints
  <2>3. run' \in [Runs -> Rows] /\ \A q \in Runs : run'[q].approved = run[q].approved
    BY <1>2, <2>2, CursorMovedAs DEF FailRun, Statuses, Terminal
  <2>4. ListsApproved'
    BY <2>1, <2>3, SameApprovals DEF ListsApproved, GateInv, ListsHonest
  <2>. QED BY <1>2, <2>1, <2>3, <2>4, OutcomeWritten DEF FailRun
<1>. QED BY <1>1, <1>2

LEMMA CompensateSteps ==
  ASSUME GateInv, NEW d \in Drivers, CompensateStep(d)
  PROVE  GateInv'
<1>1. CASE LoadToFail(d) \/ FailRun(d)  BY <1>1, FailSteps
<1>2. CASE BeginCompensation(d)  BY <1>2, GoKeeps, DriverOnlyStep DEF BeginCompensation, At
<1>3. CASE RunCompensator(d)
  <2>1. /\ drv \in [Drivers -> DriverStates] /\ drv[d] \in DriverStates
        /\ drv[d].at = "undo" /\ drv[d].run \in Runs
    BY <1>3 DEF RunCompensator, At, GateInv, Shaped, TypeOK, DriverShaped
  <2>2. PICK n \in Nat, p \in BOOLEAN :
          drv' = [drv EXCEPT ![d].count = n, ![d].partial = p]
    <3>1. PICK failed \in BOOLEAN :
            drv' = [drv EXCEPT ![d].count = @ + 1, ![d].partial = @ \/ failed]
      BY <1>3 DEF RunCompensator
    <3>2. drv[d].count + 1 \in Nat /\ (drv[d].partial \/ failed) \in BOOLEAN
      BY <2>1 DEF DriverStates
    <3>3. drv' = [drv EXCEPT ![d].count = drv[d].count + 1,
                             ![d].partial = drv[d].partial \/ failed]
      BY <2>1, <3>1
    <3>. QED BY <3>2, <3>3, Zenon
  <2>. DEFINE x == [drv[d] EXCEPT !.count = n, !.partial = p]
  <2>3. /\ x \in DriverStates /\ x.at = "undo" /\ x.run = drv[d].run
        /\ x.row = drv[d].row /\ x.subs = drv[d].subs
    BY <2>1 DEF DriverStates
  <2>4. drv' = [drv EXCEPT ![d] = x]
    BY <2>1, <2>2
  <2>5. DriversOK' /\ Untouched(d) /\ drv'[d] = x
    BY <2>3, <2>4, DriverMoves DEF GateInv, Shaped
  <2>6. Holds(d)' /\ DriverShaped(d)'
    BY <1>3, <2>1, <2>3, <2>5, SameRegisters DEF RunCompensator
  <2>7. undone' \in [Runs -> Nat]
    BY <1>3, <2>1 DEF RunCompensator, GateInv, Shaped, TypeOK
  <2>8. TablesOK' /\ ListsApproved' /\ FiresApproved
    BY <1>3, <2>7, OldTables, SameRuns DEF RunCompensator, TablesOK, FiresApproved
  <2>. QED BY <1>3, <2>5, <2>6, <2>8, DriverStepKeepsGateInv DEF RunCompensator
<1>4. CASE EndCompensation(d)
  <2>1. drv[d].at = "undo" /\ drv[d].run \in Runs /\ UNCHANGED appr
    BY <1>4 DEF EndCompensation, At, GateInv, Shaped, DriverShaped
  <2>2. PICK st \in Statuses : run' = [run EXCEPT ![drv[d].run].status = st]
    BY <1>4 DEF EndCompensation, Statuses, Terminal
  <2>3. run' \in [Runs -> Rows] /\ ListsApproved'
    BY <2>1, <2>2, StatusWritten
  <2>. QED BY <1>4, <2>1, <2>3, OutcomeWritten DEF EndCompensation
<1>. QED BY <1>1, <1>2, <1>3, <1>4 DEF CompensateStep

-----------------------------------------------------------------------------
(* Waits                                                                   *)

LEMMA SeeSteps ==
  ASSUME GateInv, NEW d \in Drivers, SeeReply(d) \/ SeeDue(d)
  PROVE  GateInv'
<1>1. PICK seen \in SUBSET Pending :
        /\ drv' = [drv EXCEPT ![d].at = "claim", ![d].subs = seen]
        /\ UNCHANGED <<run, done, appr, sub, fired, undone, mishaps, failures, resumes>>
  BY DEF SeeReply, SeeDue, Pending, Timed
<1>. DEFINE x == [drv[d] EXCEPT !.at = "claim", !.subs = seen]
<1>2. x \in DriverStates /\ x.at = "claim" /\ x.subs = seen
  BY ZenonT(60), <1>1 DEF GateInv, Shaped, TypeOK, DriverStates, Points, Pending
<1>3. drv' = [drv EXCEPT ![d] = x]
  BY <1>1 DEF GateInv, Shaped, TypeOK
<1>4. DriversOK' /\ Untouched(d) /\ drv'[d] = x
  BY <1>2, <1>3, DriverMoves DEF GateInv, Shaped
<1>5. Holds(d)'
  BY <1>2, <1>4 DEF Holds, RowPoints
<1>6. DriverShaped(d)'
  BY <1>1, <1>2, <1>4 DEF DriverShaped, Pending
<1>. QED BY <1>1, <1>4, <1>5, <1>6, DriverOnlyStep

LEMMA ClaimStep ==
  ASSUME GateInv, NEW d \in Drivers, Claim(d) PROVE GateInv'
<1>1. /\ drv \in [Drivers -> DriverStates] /\ sub \in [Subs -> SubscriptionRows]
      /\ \A s \in drv[d].subs : sub[s].status # "absent"
  BY DEF GateInv, Shaped, TypeOK, DriverShaped
<1>2. /\ sub' \in [Subs -> SubscriptionRows]
      /\ \A s \in Subs : /\ sub'[s].run = sub[s].run
                         /\ sub'[s].status = "absent" <=> sub[s].status = "absent"
  <2>1. \A s \in Subs : sub[s] \in SubscriptionRows
    BY <1>1
  <2>2. \A s \in Subs : \A st \in {"expired", "matched"} :
          /\ [sub[s] EXCEPT !.status = st] \in SubscriptionRows
          /\ [sub[s] EXCEPT !.status = st].run = sub[s].run
          /\ [sub[s] EXCEPT !.status = st].status = st
    BY <2>1 DEF SubscriptionRows
  <2>3. \A s \in Subs : \/ sub'[s] = sub[s]
                        \/ /\ s \in drv[d].subs
                           /\ \E st \in {"expired", "matched"} :
                                sub'[s] = [sub[s] EXCEPT !.status = st]
    BY DEF Claim
  <2>4. ASSUME NEW s \in Subs
        PROVE  /\ sub'[s] \in SubscriptionRows
               /\ sub'[s].run = sub[s].run
               /\ sub'[s].status = "absent" <=> sub[s].status = "absent"
    <3>1. CASE sub'[s] = sub[s]
      BY <2>1, <3>1
    <3>2. CASE /\ s \in drv[d].subs
               /\ \E st \in {"expired", "matched"} :
                    sub'[s] = [sub[s] EXCEPT !.status = st]  BY <1>1, <2>2, <3>2
    <3>. QED BY <2>3, <3>1, <3>2
  <2>5. sub' \in [Subs -> SubscriptionRows]
    BY <2>4 DEF Claim
  <2>. QED BY <2>4, <2>5
<1>3. WakeTablesGrow /\ RowsShaped'
  BY <1>2 DEF Claim, WakeTablesGrow, GateInv, Shaped, RowsShaped
<1>4. /\ DriversOK' /\ Untouched(d)
      /\ drv'[d] = [drv[d] EXCEPT !.at = "wake"]
  BY GoMoves DEF Claim, GateInv, Shaped, Points
<1>5. drv'[d].at = "wake" /\ drv'[d].subs = drv[d].subs
  BY <1>1, <1>4 DEF DriverStates
<1>6. Holds(d)' /\ DriverShaped(d)'
  BY <1>3, <1>5, RowlessShaped DEF Holds, RowPoints
<1>7. TablesOK' /\ ListsApproved' /\ FiresApproved
  <2>1. mishaps' \subseteq Mishaps
    BY MishapRecorded DEF Claim, Mishaps, Handovers
  <2>. QED BY <2>1, OldTables, SameRuns DEF Claim, TablesOK, FiresApproved
<1>8. appr' \in [Approvals -> ApprovalRows]
  BY DEF Claim, GateInv, Shaped, TypeOK
<1>. QED BY <1>2, <1>3, <1>4, <1>6, <1>7, <1>8, StepKeepsGateInv

LEMMA RowResumed ==
  ASSUME NEW old \in Rows, NEW st \in Statuses, NEW pc \in Nat \ {0},
         NEW res \in Results
  PROVE  /\ [old EXCEPT !.status = st, !.cursor = pc, !.result = res] \in Rows
         /\ [old EXCEPT !.status = st, !.cursor = pc, !.result = res].approved
              = old.approved
BY DEF Rows

LEMMA LoadToWakeStep ==
  ASSUME GateInv, NEW d \in Drivers, LoadToWake(d) PROVE GateInv'
<1>1. /\ drv \in [Drivers -> DriverStates] /\ drv[d] \in DriverStates
      /\ run \in [Runs -> Rows]
      /\ UNCHANGED <<run, done, appr, sub, fired, undone, mishaps, failures, resumes>>
  BY DEF LoadToWake, GateInv, Shaped, TypeOK
<1>2. PICK s \in drv[d].subs :
        LET r == sub[s].run  rest == drv[d].subs \ {s} IN
          IF run[r].status = "waiting"
            THEN drv' = [drv EXCEPT ![d].at = "waking", ![d].run = r,
                           ![d].row = run[r], ![d].subs = rest,
                           ![d].signal = Signal(d, s)]
            ELSE drv' = [drv EXCEPT ![d].at = IF rest = {} THEN "ack" ELSE "wake",
                                    ![d].subs = rest]
  BY DEF LoadToWake
<1>. DEFINE r == sub[s].run
            rest == drv[d].subs \ {s}
<1>3. r \in Runs /\ \A t \in rest : sub[t].status # "absent"
  BY <1>1 DEF GateInv, Shaped, DriverShaped, RowsShaped, DriverStates
<1>4. rest \in SUBSET Subs /\ run[r] \in Rows /\ Signal(d, s) \in Results
  BY <1>1, <1>3 DEF DriverStates, Signal, Results
<1>5. run[r].approved \subseteq ApprovedTools(r)
  BY <1>3 DEF GateInv, ListsHonest
<1>6. CASE run[r].status = "waiting"
  BY SMTT(30), <1>1, <1>2, <1>3, <1>4, <1>5, <1>6, DriverMoves, SameApprovals, DriverOnlyStep DEF
     DriverStates, Points, GateInv, Shaped, Holds, DriverShaped
<1>7. CASE run[r].status # "waiting"
  BY <1>1, <1>2, <1>3, <1>4, <1>7, DriverMoves, DriverOnlyStep DEF DriverStates, Points,
     GateInv, Shaped, Holds, RowPoints, DriverShaped
<1>. QED BY <1>6, <1>7

LEMMA WakeRunStep ==
  ASSUME GateInv, NEW d \in Drivers, WakeRun(d) PROVE GateInv'
<1>. DEFINE r == drv[d].run
            row == drv[d].row
<1>1. /\ r \in Runs /\ row \in Rows /\ row.cursor + 1 \in Nat \ {0}
      /\ row.approved \subseteq ApprovedTools(r)
  BY RowHeld DEF WakeRun, At, RowPoints
<1>2. drv[d].signal \in Results /\ "running" \in Statuses
  BY DEF GateInv, Shaped, TypeOK, DriverStates, Statuses, Live
<1>. DEFINE next == row.cursor + 1
            new == [row EXCEPT !.status = "running", !.cursor = next,
                               !.result = drv[d].signal]
<1>3. /\ run' = [run EXCEPT ![r] = new]
      /\ new \in Rows /\ new.approved = row.approved
  <2>1. run' = [run EXCEPT ![r] = new]
    BY DEF WakeRun
  <2>2. new \in Rows /\ new.approved = row.approved
    <3>1. next \in Nat \ {0}
      BY <1>1
    <3>2. \A st \in Statuses, res \in Results :
            /\ [row EXCEPT !.status = st, !.cursor = next, !.result = res] \in Rows
            /\ [row EXCEPT !.status = st, !.cursor = next, !.result = res].approved
                 = row.approved
      <4>. HIDE DEF next
      <4>. QED BY ZenonT(60), <1>1, <3>1, RowResumed
    <3>. QED BY <1>2, <3>2, Zenon
  <2>. QED BY <2>1, <2>2
<1>4. run' \in [Runs -> Rows] /\ ListsApproved'
  <2>. HIDE DEF new
  <2>. QED BY <1>1, <1>3, RunWritten DEF WakeRun
<1>5. TablesOK' /\ FiresApproved
  BY <1>4, OldTables DEF WakeRun, TablesOK, FiresApproved
<1>6. DriversOK' /\ Untouched(d) /\ Holds(d)' /\ DriverShaped(d)'
  BY <1>1, AdvanceMoves DEF WakeRun, Again
<1>. QED BY <1>4, <1>5, <1>6, DriverStepKeepsGateInv DEF WakeRun

-----------------------------------------------------------------------------
(* Approvals and the handlers of their events                              *)

(* A reviewer or the ladder moves an approval; no driver moves. *)
LEMMA ApprovalSteps ==
  ASSUME GateInv, NEW a \in Approvals, Resolve(a) \/ Expire(a)
  PROVE  GateInv'
<1>1. PICK st \in {"approved", "rejected", "expired"}, ev \in {"none", "queued", "handled"} :
        /\ appr[a].status = "pending"
        /\ appr' = [appr EXCEPT ![a].status = st, ![a].event = ev]
        /\ ev = "queued" => st # "expired" \/ appr[a].event = "queued"
        /\ UNCHANGED <<run, done, sub, drv, fired, undone, mishaps, failures, resumes>>
  <2>1. appr[a].event \in {"none", "queued", "handled"} /\ appr \in [Approvals -> ApprovalRows]
    BY DEF GateInv, Shaped, TypeOK, ApprovalRows
  <2>2. CASE Resolve(a)
    BY <2>2 DEF Resolve
  <2>3. CASE Expire(a)  BY <2>1, <2>3 DEF ApprovalRows, Expire
  <2>. QED BY <2>2, <2>3
<1>2. appr \in [Approvals -> ApprovalRows] /\ appr[a].event # "queued"
  BY <1>1 DEF GateInv, Shaped, TypeOK, RowsShaped
<1>3. appr' \in [Approvals -> ApprovalRows]
  BY ZenonT(60), <1>1, <1>2 DEF ApprovalRows
<1>4. WakeTablesGrow
  BY <1>1, <1>2 DEF WakeTablesGrow, ApprovalRows
<1>5. RowsShaped'
  BY <1>1, <1>2 DEF GateInv, Shaped, RowsShaped, ApprovalRows
<1>6. TypeOK'
  BY <1>1, <1>3 DEF GateInv, Shaped, TypeOK
<1>7. \A e \in Drivers : DriverShaped(e)' /\ Holds(e)'
  BY <1>1, <1>4, StillShaped
<1>8. \A r \in Runs : ApprovedTools(r) \subseteq ApprovedTools(r)'
  BY <1>4, ApprovedToolsGrow DEF GateInv, Shaped
<1>9. ListsHonest' /\ CallsApproved'
  BY <1>1, <1>7, <1>8 DEF ListsHonest, CallsApproved, Holds, GateInv
<1>. QED BY <1>5, <1>6, <1>7, <1>9 DEF GateInv, Shaped

LEMMA TakeDecisionStep ==
  ASSUME GateInv, NEW d \in Drivers, NEW a \in Approvals, TakeDecision(d, a)
  PROVE  GateInv'
<1>. DEFINE x == [drv[d] EXCEPT !.at = "decide", !.msg = a, !.run = appr[a].run]
<1>1. /\ drv \in [Drivers -> DriverStates] /\ drv[d] \in DriverStates
      /\ DriverShaped(d) /\ UNCHANGED <<appr, sub>>
  BY DEF TakeDecision, GateInv, Shaped, TypeOK
<1>2. appr[a].status \in {"approved", "rejected"} /\ appr[a].run \in Runs
  BY DEF TakeDecision, GateInv, Shaped, RowsShaped
<1>3. /\ x \in DriverStates /\ x.at = "decide" /\ x.msg = a
      /\ x.run = appr[a].run /\ x.subs = drv[d].subs
  BY <1>1, <1>2 DEF DriverStates, Points
<1>4. drv' = [drv EXCEPT ![d] = x]
  BY <1>1 DEF TakeDecision
<1>5. DriversOK' /\ Untouched(d) /\ drv'[d] = x
  BY <1>3, <1>4, DriverMoves DEF GateInv, Shaped
<1>6. Holds(d)'
  BY <1>3, <1>5 DEF Holds, RowPoints
<1>7. DriverShaped(d)'
  BY <1>1, <1>2, <1>3, <1>5 DEF DriverShaped
<1>. QED BY <1>5, <1>6, <1>7, DriverOnlyStep DEF TakeDecision

LEMMA LoadToDecideStep ==
  ASSUME GateInv, NEW d \in Drivers, LoadToDecide(d) PROVE GateInv'
<1>. DEFINE r == drv[d].run
<1>1. /\ UNCHANGED <<run, done, appr, sub, fired, undone, failures, resumes>>
      /\ drv[d].at = "decide"
  BY DEF LoadToDecide, At
<1>2. mishaps' \subseteq Mishaps
  BY MishapRecorded DEF LoadToDecide, Handovers, Mishaps
<1>3. CASE Return(d)
  BY <1>1, <1>2, <1>3, ReturnMoves, DriverOnlyStep
<1>4. CASE drv' = [drv EXCEPT ![d].at = "deciding", ![d].row = run[r]]
  BY <1>1, <1>2, <1>4, RowSelected, DriverOnlyStep
<1>. QED BY <1>3, <1>4 DEF LoadToDecide

(* The end of resume_human and resume_tool, given the row they write. *)
LEMMA DecisionWritten ==
  ASSUME GateInv, NEW d \in Drivers, drv[d].at = "deciding",
         run' \in [Runs -> Rows], ListsApproved',
         Again(d) \/ Go(d, "compensate"),
         UNCHANGED <<done, appr, sub, fired, undone, mishaps, failures, resumes>>
  PROVE  GateInv'
<1>1. drv[d].at \in RowPoints /\ drv[d].run \in Runs
  BY RowHeld DEF RowPoints
<1>2. TablesOK' /\ FiresApproved
  BY OldTables DEF TablesOK, FiresApproved
<1>3. DriversOK' /\ Untouched(d) /\ Holds(d)' /\ DriverShaped(d)'
  BY <1>1, AdvanceMoves, GoKeeps DEF Again
<1>. QED BY <1>2, <1>3, DriverStepKeepsGateInv

LEMMA ResumeHumanStep ==
  ASSUME GateInv, NEW d \in Drivers, ResumeHuman(d) PROVE GateInv'
<1>. DEFINE r == drv[d].run
            row == drv[d].row
            next == row.cursor + 1
            new == IF Decision(d) = "approved"
                     THEN [row EXCEPT !.status = "running", !.cursor = next] ELSE row
<1>1. /\ drv[d].at = "deciding" /\ r \in Runs /\ row \in Rows
      /\ next \in Nat \ {0} /\ row.approved \subseteq ApprovedTools(r)
  BY RowHeld DEF ResumeHuman, At, RowPoints
<1>2. new \in Rows /\ new.approved = row.approved
  <2>1. \A st \in Statuses :
          /\ [row EXCEPT !.status = st, !.cursor = next] \in Rows
          /\ [row EXCEPT !.status = st, !.cursor = next].approved = row.approved
    <3>. HIDE DEF next
    <3>. QED BY <1>1, RowRewritten
  <2>2. "running" \in Statuses
    BY DEF Statuses, Live
  <2>. QED BY <1>1, <2>1, <2>2, Zenon
<1>3. run' = [run EXCEPT ![r] = new]
  BY DEF ResumeHuman
<1>4. run' \in [Runs -> Rows] /\ ListsApproved'
  <2>. HIDE DEF new
  <2>. QED BY <1>1, <1>2, <1>3, RunWritten DEF ResumeHuman
<1>5. Again(d) \/ Go(d, "compensate")
  BY DEF ResumeHuman
<1>. QED BY <1>1, <1>4, <1>5, DecisionWritten DEF ResumeHuman

(* The approval that resume_tool acts on names a tool of the program, and  *)
(* its decision makes that tool one of the run's approved tools.           *)
LEMMA DecidedTool ==
  ASSUME GateInv, NEW d \in Drivers, ResumeTool(d)
  PROVE  LET tool == Program[appr[drv[d].msg].pc].name IN
           /\ tool \in Tools
           /\ Decision(d) = "approved" => tool \in ApprovedTools(drv[d].run)
<1>. DEFINE a == drv[d].msg
<1>1. /\ a \in Approvals /\ appr[a].run = drv[d].run /\ appr[a].kind = "tool"
      /\ Op(appr[a].pc) = "TOOL"
  BY DEF ResumeTool, At, GateInv, Shaped, DriverShaped, RowsShaped
<1>2. Program[appr[a].pc].name \in Tools
  BY <1>1, ProgramFacts
<1>3. Decision(d) = "approved" => Program[appr[a].pc].name \in ApprovedTools(drv[d].run)
  BY <1>1 DEF Decision, ApprovedTools
<1>. QED BY <1>2, <1>3

LEMMA ListRewritten ==
  ASSUME NEW old \in Rows, NEW st \in Statuses, NEW list \in SUBSET Tools,
         NEW res \in Results
  PROVE  /\ [old EXCEPT !.status = st, !.approved = list, !.result = res] \in Rows
         /\ [old EXCEPT !.status = st, !.approved = list, !.result = res].approved = list
BY DEF Rows

LEMMA ResumeToolStep ==
  ASSUME GateInv, NEW d \in Drivers, ResumeTool(d) PROVE GateInv'
<1>. DEFINE r == drv[d].run
            row == drv[d].row
            yes == Decision(d) = "approved"
            tool == Program[appr[drv[d].msg].pc].name
            st == IF yes THEN "running" ELSE "waiting"
            list == IF yes THEN row.approved \cup {tool} ELSE row.approved
            new == [run[r] EXCEPT !.status = st, !.approved = list,
                                  !.result = row.result]
<1>1. /\ drv[d].at = "deciding" /\ r \in Runs /\ row \in Rows
      /\ row.approved \subseteq ApprovedTools(r)
  BY RowHeld DEF ResumeTool, At, RowPoints
<1>2. run \in [Runs -> Rows] /\ run[r] \in Rows
  BY <1>1 DEF GateInv, Shaped, TypeOK
<1>3. list \in SUBSET Tools /\ list \subseteq ApprovedTools(r)
  BY <1>1, DecidedTool DEF Rows
<1>4. st \in Statuses /\ row.result \in Results
  BY <1>1 DEF Statuses, Live, Rows
<1>5. run' = [run EXCEPT ![r] = new]
  BY <1>2 DEF ResumeTool
<1>6. new \in Rows /\ new.approved = list
  <2>1. \A s \in Statuses, l \in SUBSET Tools, res \in Results :
          /\ [run[r] EXCEPT !.status = s, !.approved = l, !.result = res] \in Rows
          /\ [run[r] EXCEPT !.status = s, !.approved = l, !.result = res].approved = l
    BY <1>2, ListRewritten
  <2>. HIDE DEF st, list
  <2>. QED BY ZenonT(60), <1>3, <1>4, <2>1
<1>7. run' \in [Runs -> Rows] /\ ListsApproved'
  <2>. HIDE DEF new, list
  <2>. QED BY <1>1, <1>3, <1>5, <1>6, RunWritten DEF ResumeTool
<1>8. Again(d) \/ Go(d, "compensate")
  BY DEF ResumeTool
<1>. QED BY <1>1, <1>7, <1>8, DecisionWritten DEF ResumeTool

-----------------------------------------------------------------------------
(* The end of a handler, its failure, and the operator                     *)

LEMMA IdleAgain ==
  ASSUME GateInv, NEW d \in Drivers, drv' = [drv EXCEPT ![d] = Idle]
  PROVE  DriversOK' /\ Untouched(d) /\ Holds(d)' /\ DriverShaped(d)'
<1>1. DriversOK' /\ Untouched(d) /\ drv'[d] = Idle
  BY IdleTyped, DriverMoves DEF GateInv, Shaped
<1>2. Idle.at = "idle" /\ Idle.subs = {}
  BY DEF Idle
<1>. QED BY <1>1, <1>2 DEF Holds, RowPoints, DriverShaped

LEMMA AckStep ==
  ASSUME GateInv, NEW d \in Drivers, Ack(d) PROVE GateInv'
<1>. DEFINE a == drv[d].msg
<1>1. DriversOK' /\ Untouched(d) /\ Holds(d)' /\ DriverShaped(d)'
  BY IdleAgain DEF Ack
<1>2. CASE a = 0
  BY <1>1, <1>2, DriverOnlyStep DEF Ack
<1>3. CASE a # 0
  <2>1. a \in Approvals /\ appr \in [Approvals -> ApprovalRows]
    BY <1>3 DEF GateInv, Shaped, TypeOK, DriverStates
  <2>2. appr' = [appr EXCEPT ![a].event = "handled"] /\ UNCHANGED sub
    BY <1>3 DEF Ack
  <2>3. appr' \in [Approvals -> ApprovalRows]
    BY <2>1, <2>2 DEF ApprovalRows
  <2>4. WakeTablesGrow
    BY <2>1, <2>2 DEF WakeTablesGrow, ApprovalRows
  <2>5. RowsShaped' /\ sub' \in [Subs -> SubscriptionRows]
    BY <2>1, <2>2 DEF GateInv, Shaped, TypeOK, RowsShaped, ApprovalRows
  <2>6. \A r \in Runs : ApprovedTools(r) \subseteq ApprovedTools(r)'
    BY <2>4, ApprovedToolsGrow DEF GateInv, Shaped
  <2>7. ListsApproved' /\ TablesOK' /\ FiresApproved
    BY <2>6, OldTables DEF Ack, ListsApproved, GateInv, ListsHonest, TablesOK, FiresApproved
  <2>. QED BY <1>1, <2>3, <2>4, <2>5, <2>7, StepKeepsGateInv
<1>. QED BY <1>2, <1>3

LEMMA FailStep ==
  ASSUME GateInv, NEW d \in Drivers, Fail(d) PROVE GateInv'
<1>1. DriversOK' /\ Untouched(d) /\ Holds(d)' /\ DriverShaped(d)'
  BY IdleAgain DEF Fail
<1>2. failures' \in 0..MaxFailures
  <2>1. failures < MaxFailures /\ failures' = failures + 1
    BY DEF Fail
  <2>. QED BY <2>1, EngineAssumption DEF GateInv, Shaped, TypeOK
<1>3. TablesOK' /\ ListsApproved' /\ FiresApproved
  <2>1. mishaps' \subseteq Mishaps
    BY DEF Fail, GateInv, Shaped, TypeOK
  <2>. QED BY <1>2, <2>1, OldTables, SameRuns DEF Fail, TablesOK, FiresApproved
<1>. QED BY <1>1, <1>3, DriverStepKeepsGateInv DEF Fail

LEMMA ResumeRunStep ==
  ASSUME GateInv, NEW d \in Drivers, ResumeRun(d) PROVE GateInv'
<1>1. /\ drv \in [Drivers -> DriverStates] /\ drv[d] \in DriverStates
      /\ DriverShaped(d) /\ UNCHANGED <<appr, sub>>
  BY DEF ResumeRun, GateInv, Shaped, TypeOK
<1>2. PICK r \in Runs : drv' = [drv EXCEPT ![d].at = "load", ![d].run = r]
  BY DEF ResumeRun
<1>. DEFINE x == [drv[d] EXCEPT !.at = "load", !.run = r]
<1>3. x \in DriverStates /\ x.at = "load" /\ x.run = r /\ x.subs = drv[d].subs
  BY <1>1 DEF DriverStates, Points
<1>4. drv' = [drv EXCEPT ![d] = x]
  BY <1>1, <1>2
<1>5. DriversOK' /\ Untouched(d) /\ drv'[d] = x
  BY <1>3, <1>4, DriverMoves DEF GateInv, Shaped
<1>6. Holds(d)'
  BY <1>3, <1>5 DEF Holds, RowPoints
<1>7. DriverShaped(d)'
  BY <1>1, <1>3, <1>5 DEF DriverShaped
<1>8. resumes' \in 0..MaxResumes
  BY EngineAssumption DEF ResumeRun, GateInv, Shaped, TypeOK
<1>9. TablesOK' /\ ListsApproved' /\ FiresApproved
  <2>1. mishaps' \subseteq Mishaps
    BY MishapRecorded DEF ResumeRun, Mishaps, Handovers
  <2>. QED BY <1>8, <2>1, OldTables, SameRuns DEF ResumeRun, TablesOK, FiresApproved
<1>. QED BY <1>5, <1>6, <1>7, <1>9, DriverStepKeepsGateInv DEF ResumeRun

-----------------------------------------------------------------------------
(* The theorems                                                            *)

LEMMA GateInvInit == Init => GateInv
<1>. SUFFICES ASSUME Init PROVE GateInv
  OBVIOUS
<1>1. Shaped
  BY ShapedInit
<1>2. ListsHonest
  BY DEF Init, ListsHonest, RowPoints, Idle, NewRow
<1>3. CallsApproved
  BY DEF Init, CallsApproved
<1>. QED BY <1>1, <1>2, <1>3 DEF GateInv

LEMMA HandlerSteps ==
  ASSUME GateInv, NEW d \in Drivers, HandlerStep(d) PROVE GateInv'
<1>1. CASE AdvanceStep(d)
  BY <1>1, LoadStep, SetVarsStep, EmitStep, MovingSteps, ParkSteps, EffectSteps,
     RecordStepStep, CompleteStep, PromoteSteps DEF AdvanceStep
<1>2. CASE CompensateStep(d)
  BY <1>2, CompensateSteps
<1>3. CASE Drop(d) \/ InsertRun(d)
  BY <1>3, StartSteps, InsertRunStep
<1>4. CASE Claim(d) \/ LoadToWake(d) \/ WakeRun(d)
  BY <1>4, ClaimStep, LoadToWakeStep, WakeRunStep
<1>5. CASE LoadToDecide(d) \/ ResumeHuman(d) \/ ResumeTool(d) \/ Ack(d)
  BY <1>5, LoadToDecideStep, ResumeHumanStep, ResumeToolStep, AckStep
<1>. QED BY <1>1, <1>2, <1>3, <1>4, <1>5 DEF HandlerStep

LEMMA GateInvStep == GateInv /\ [Next]_vars => GateInv'
<1>. SUFFICES ASSUME GateInv, [Next]_vars PROVE GateInv'
  OBVIOUS
<1>1. ASSUME NEW d \in Drivers, HandlerStep(d) PROVE GateInv'
  BY <1>1, HandlerSteps
<1>2. ASSUME NEW d \in Drivers, PickUp(d) PROVE GateInv'
  BY <1>2, SeeSteps, TakeDecisionStep DEF PickUp
<1>3. ASSUME NEW d \in Drivers, StartRun(d) \/ ResumeRun(d) \/ Fail(d) PROVE GateInv'
  BY <1>3, StartSteps, ResumeRunStep, FailStep
<1>4. ASSUME NEW a \in Approvals, Resolve(a) \/ Expire(a) PROVE GateInv'
  BY <1>4, ApprovalSteps
<1>5. CASE UNCHANGED vars
  BY <1>5 DEF vars, GateInv, Shaped, TypeOK, RowsShaped, DriverShaped, ListsHonest,
     ApprovedTools, CallsApproved
<1>. QED BY <1>1, <1>2, <1>3, <1>4, <1>5 DEF Next

LEMMA GateInvGivesToolGate == GateInv => ToolGate
BY DEF GateInv, CallsApproved, ApprovedTools, ToolGate

(* Every variable keeps its type in every behaviour of the engine, for any *)
(* program, policy, set of drivers and bounds (executor.py, waits.py,      *)
(* consumer.py).                                                           *)
THEOREM EngineTypes == Spec => []TypeOK
<1>1. GateInv => TypeOK
  BY DEF GateInv, Shaped
<1>. QED BY <1>1, GateInvInit, GateInvStep, PTL DEF Spec

(* A gated tool is invoked for a run only after a reviewer approved that   *)
(* tool for that run, however many drivers race, crash and retry           *)
(* (_run_tool_step, resume_tool, _approved_tools).                         *)
THEOREM GatedToolsAreApproved == Spec => []ToolGate
<1>. QED BY GateInvInit, GateInvStep, GateInvGivesToolGate, PTL DEF Spec

(* The list a run carries is never forged: every tool in _approved_tools,  *)
(* in the table or in a row a driver still holds, was approved for that    *)
(* run (resume_tool writing back the row it read earlier).                 *)
THEOREM ApprovedListsAreHonest == Spec => []ListsHonest
<1>1. GateInv => ListsHonest
  BY DEF GateInv
<1>. QED BY <1>1, GateInvInit, GateInvStep, PTL DEF Spec

(***************************************************************************)
(* Who drives a run: while every handover goes right, a live run is in the *)
(* hands of one driver, or of one thing that will wake it.                 *)
(***************************************************************************)

-----------------------------------------------------------------------------
(* The conditions                                                          *)

(* compile_program lays jumps and branches out forwards. *)
Forward ==
  \A pc \in PCs :
    /\ Op(pc) = "JUMP" => Program[pc].target > pc
    /\ Op(pc) = "BRANCH" =>
         \A result \in Results : \A to \in Program[pc].to[result] : to > pc

(* Nothing is queued or superseded, so nothing but a driver that has a run *)
(* in hand ends it.                                                        *)
Setting == Forward /\ Policy \in {"none", "drop"}

-----------------------------------------------------------------------------
(* The inductive invariant                                                 *)

HandPoints == {"exec", "effect", "record", "park", "waking", "deciding",
               "compensate", "failing", "undo"}

(* Where a driver is before it has done what the decision it handles asks. *)
Deciding == {"deciding", "compensate", "failing", "undo"}

(* Driver d is in the loop of run r; it has r in its hands if it will not  *)
(* find, coming round to the SELECT, that it has not.                      *)
Near(d, r)    == drv[d].run = r /\ drv[d].at \in HandPoints \cup {"load"}
Engaged(d, r) == Near(d, r) /\ (drv[d].at = "load" => run[r].status = "running")

(* What can still put a run into some driver's hands. *)
OpenSub(s)   == \/ sub[s].status = "pending"
                \/ \E d \in Drivers : s \in drv[d].subs /\ drv[d].at # "claim"
InHand(d, a) == drv[d].msg = a /\ drv[d].at # "decide"
OpenAppr(a)  ==
  \/ appr[a].status = "pending"
  \/ appr[a].event = "queued" /\ \A d \in Drivers : ~ InHand(d, a)

Waits(r, pc) == run[r].status = "waiting" /\ run[r].cursor = pc
Parked(a)    == Waits(appr[a].run, appr[a].pc)
Awaits(a)    == OpenAppr(a) /\ Parked(a)

(* The row a driver holds, and the run it drives, are as it believes. *)
Agrees(d) ==
  LET r == drv[d].run IN
  /\ drv[d].at = "idle" => drv[d] = Idle
  /\ drv[d].at # "promoting"
  /\ drv[d].at \in {"exec", "effect", "record", "park"} =>
       drv[d].row = run[r] /\ run[r].status = "running"
  /\ drv[d].at = "park" => ~ Cleared(d)
  /\ drv[d].at \in {"waking", "deciding"} =>
       drv[d].row = run[r] /\ run[r].status = "waiting"
  /\ drv[d].at = "waking" => Op(run[r].cursor) = "WAIT"
  /\ drv[d].at \in {"compensate", "failing", "undo"} => run[r].status \in Live
  /\ drv[d].at = "failing" => drv[d].row = run[r]
  /\ drv[d].at = "load" => run[r].status \notin {"absent", "queued"}

(* The subscriptions it holds past the claim are claimed; the event it     *)
(* handles is still to be acked, is about the run it drives, and has moved *)
(* that run off the step by the time the driver goes on.                   *)
Carries(d) ==
  /\ drv[d].at # "claim" => \A s \in drv[d].subs : sub[s].status # "pending"
  /\ drv[d].msg # 0 =>
       /\ drv[d].subs = {} /\ drv[d].at \notin {"insert", "claim", "wake", "waking"}
       /\ appr[drv[d].msg].event = "queued"
       /\ drv[d].at \in HandPoints \cup {"load"} => drv[d].run = appr[drv[d].msg].run
       /\ drv[d].at = "deciding" => Parked(drv[d].msg)
       /\ drv[d].at \notin Deciding \cup {"decide"} => ~ Parked(drv[d].msg)

(* A run reaches the step of an approval again only to call the tool the   *)
(* approval let it call.                                                   *)
Behind(a) ==
  LET r == appr[a].run IN
  /\ appr[a].pc <= run[r].cursor
  /\ run[r].status = "running" /\ appr[a].pc = run[r].cursor =>
       appr[a].kind = "tool" /\ Program[appr[a].pc].name \in run[r].approved

Placed ==
  /\ \A r \in Runs : run[r].status # "queued"
  /\ \A s \in Subs : sub[s].status # "absent" =>
       Op(sub[s].pc) = "WAIT" /\ run[sub[s].run].status # "absent"
  /\ \A a \in Approvals : appr[a].status # "absent" =>
       /\ Op(appr[a].pc) = IF appr[a].kind = "human" THEN "HUMAN" ELSE "TOOL"
       /\ run[appr[a].run].status # "absent"
       /\ Behind(a)
  /\ \A a, b \in Approvals :
       (/\ appr[a].status # "absent" /\ appr[b].status # "absent"
        /\ appr[a].run = appr[b].run /\ appr[a].pc = appr[b].pc) => a = b

Sole ==
  /\ \A d, e \in Drivers, r \in Runs : (Engaged(d, r) /\ Near(e, r)) => d = e
  /\ \A d, e \in Drivers : (drv[d].msg = drv[e].msg /\ drv[d].msg # 0) => d = e
  /\ \A d, e \in Drivers, s \in Subs :
       (/\ s \in drv[d].subs /\ drv[d].at # "claim"
        /\ s \in drv[e].subs /\ drv[e].at # "claim") => d = e

Tickets ==
  /\ \A s \in Subs : OpenSub(s) =>
       Waits(sub[s].run, sub[s].pc) /\ \A d \in Drivers : ~ Near(d, sub[s].run)
  /\ \A a \in Approvals : Awaits(a) => \A d \in Drivers : ~ Engaged(d, appr[a].run)
  /\ \A s, t \in Subs : (OpenSub(s) /\ OpenSub(t) /\ sub[s].run = sub[t].run) => s = t

Owned == (\A d \in Drivers : Agrees(d) /\ Carries(d)) /\ Placed /\ Sole /\ Tickets

(* No effect at or after the cursor was invoked. *)
Unfired(r) == \A pc \in PCs : pc >= run[r].cursor => fired[r][pc] = 0

Fresh(d) ==
  LET r == drv[d].run IN
  /\ drv[d].at \in {"load", "exec", "effect", "park"} /\ run[r].status = "running"
       => Unfired(r)
  /\ drv[d].at = "record" => \A pc \in PCs : pc > run[r].cursor => fired[r][pc] = 0

Once ==
  /\ \A r \in Runs, pc \in PCs : fired[r][pc] <= 1
  /\ \A r \in Runs : run[r].status = "absent" => \A pc \in PCs : fired[r][pc] = 0
  /\ \A r \in Runs : run[r].status = "waiting" => Unfired(r)
  /\ \A d \in Drivers : Fresh(d)

Decided(d) == appr[drv[d].msg].status
Unbroken   == "broken off" \notin mishaps

(* No compensator ran for a run that is to go on. *)
Whole(d) ==
  LET r == drv[d].run IN
  /\ (\/ drv[d].at \in {"exec", "effect", "record", "park", "waking"}
      \/ drv[d].at = "load" /\ run[r].status = "running")
       => undone[r] = 0
  /\ drv[d].at = "deciding" /\ (Unbroken \/ Decided(d) # "rejected") => undone[r] = 0
  /\ drv[d].at \in {"compensate", "failing"} /\ Unbroken => undone[r] = 0
  /\ drv[d].at \in {"compensate", "failing", "undo"} /\ run[r].status = "waiting"
       => drv[d].msg # 0 /\ Decided(d) = "rejected"

Intact ==
  /\ \A r \in Runs : run[r].status = "absent" => undone[r] = 0
  /\ \A d \in Drivers : Whole(d)
  /\ \A s \in Subs : OpenSub(s) => undone[sub[s].run] = 0
  /\ \A a \in Approvals :
       Awaits(a) /\ (Unbroken \/ appr[a].status # "rejected") => undone[appr[a].run] = 0

Counted ==
  Unbroken =>
    /\ \A r \in Runs :
         /\ undone[r] <= Compensators
         /\ run[r].status \in {"compensated", "compensated_partial"} =>
              undone[r] = Compensators
    /\ \A d \in Drivers :
         /\ drv[d].at # "undo" => drv[d].count = 0
         /\ drv[d].at = "undo" => undone[drv[d].run] = drv[d].count

OneLive ==
  (Policy = "drop" /\ "overlapping start" \notin mishaps) =>
    /\ \A q, r \in Runs : (run[q].status \in Live /\ run[r].status \in Live) => q = r
    /\ \A d \in Drivers : (drv[d].at = "insert" /\ drv[d].live = {}) =>
         \A r \in Runs : run[r].status \notin Live

(* A parked run has something that will wake it, or had an approval that   *)
(* expired.                                                                *)
HasTicket(r) ==
  \/ \E s \in Subs : OpenSub(s) /\ sub[s].run = r
  \/ \E d \in Drivers : drv[d].at = "waking" /\ drv[d].run = r
  \/ \E a \in Approvals :
       /\ appr[a].run = r /\ Parked(a)
       /\ appr[a].status \in {"pending", "expired"} \/ appr[a].event = "queued"

Ticketed ==
  "wake lost" \notin mishaps =>
    \A r \in Runs : run[r].status = "waiting" => HasTicket(r)

(* A handler ends once it has woken every run it claimed. *)
Emptied == \A d \in Drivers : drv[d].at = "ack" => drv[d].subs = {}

OwnInv ==
  Orderly => Owned /\ Once /\ Intact /\ Counted /\ OneLive /\ Emptied /\ Ticketed

-----------------------------------------------------------------------------
(* Who can take a run                                                      *)

(* What the tables and the registers of well-shaped drivers contain. *)
LEMMA Tables ==
  ASSUME GateInv
  PROVE  /\ run \in [Runs -> Rows] /\ appr \in [Approvals -> ApprovalRows]
         /\ sub \in [Subs -> SubscriptionRows] /\ drv \in [Drivers -> DriverStates]
         /\ \A d \in Drivers : DriverShaped(d) /\ drv[d] \in DriverStates
         /\ \A r \in Runs : /\ run[r] \in Rows /\ run[r].status \in Statuses
                            /\ run[r].cursor \in Nat \ {0}
         /\ RowsShaped
<1>1. \A r \in Runs : run[r] \in Rows
  BY DEF GateInv, Shaped, TypeOK
<1>2. \A r \in Runs : run[r].status \in Statuses /\ run[r].cursor \in Nat \ {0}
  BY <1>1 DEF Rows
<1>. QED BY <1>1, <1>2 DEF GateInv, Shaped, TypeOK

LEMMA OpenApprExists ==
  ASSUME GateInv, NEW a \in Approvals, OpenAppr(a)
  PROVE  appr[a].status # "absent" /\ appr[a].run \in Runs
BY DEF OpenAppr, GateInv, Shaped, RowsShaped

LEMMA OpenSubExists ==
  ASSUME GateInv, NEW s \in Subs, OpenSub(s)
  PROVE  sub[s].status # "absent" /\ sub[s].run \in Runs
BY DEF OpenSub, GateInv, Shaped, RowsShaped, DriverShaped

(* The same of the next state. *)
LEMMA TablesAfter ==
  ASSUME GateInv'
  PROVE  /\ run' \in [Runs -> Rows] /\ appr' \in [Approvals -> ApprovalRows]
         /\ sub' \in [Subs -> SubscriptionRows] /\ drv' \in [Drivers -> DriverStates]
         /\ \A d \in Drivers : DriverShaped(d)' /\ drv'[d] \in DriverStates
         /\ \A r \in Runs : /\ run'[r] \in Rows /\ run'[r].status \in Statuses
                            /\ run'[r].cursor \in Nat \ {0}
         /\ RowsShaped'
<1>1. \A r \in Runs : run'[r] \in Rows
  BY DEF GateInv, Shaped, TypeOK
<1>2. \A r \in Runs : run'[r].status \in Statuses /\ run'[r].cursor \in Nat \ {0}
  BY <1>1 DEF Rows
<1>. QED BY <1>1, <1>2 DEF GateInv, Shaped, TypeOK

(* Whoever is near a run has one, and the runs in hand are live. *)
LEMMA NearHasRun ==
  ASSUME GateInv, NEW d \in Drivers, drv[d].at \in HandPoints \cup {"load"}
  PROVE  drv[d].run \in Runs
BY Tables DEF HandPoints, DriverShaped

LEMMA EngagedFacts ==
  ASSUME GateInv, Owned, NEW d \in Drivers, Engaged(d, drv[d].run)
  PROVE  /\ drv[d].run \in Runs /\ run[drv[d].run].status \in Live
         /\ drv[d].at \in HandPoints \cup {"load"}
         /\ drv[d].at \notin {"idle", "claim", "decide", "insert"}
         /\ \A e \in Drivers \ {d} : ~ Near(e, drv[d].run)
         /\ \A s \in Subs : OpenSub(s) => sub[s].run # drv[d].run
         /\ \A a \in Approvals : Awaits(a) => appr[a].run # drv[d].run
<1>. DEFINE r == drv[d].run
<1>1. drv[d].at \in HandPoints \cup {"load"}
  BY DEF Engaged, Near
<1>2. r \in Runs /\ drv[d].at \notin {"idle", "claim", "decide", "insert"}
  BY <1>1, NearHasRun DEF HandPoints
<1>3. run[r].status \in Live
  BY <1>1 DEF Engaged, HandPoints, Owned, Agrees, Live
<1>4. Near(d, r)
  BY DEF Engaged
<1>. QED BY <1>1, <1>2, <1>3, <1>4 DEF Owned, Sole, Tickets

(* A step that brings no driver near a run and opens no ticket.            *)
Shrinks ==
  /\ \A e \in Drivers, r \in Runs : /\ Near(e, r)' => Near(e, r)
                                    /\ Engaged(e, r)' => Engaged(e, r)
  /\ \A s \in Subs : OpenSub(s)' =>
       /\ OpenSub(s) /\ sub'[s].run = sub[s].run /\ sub'[s].pc = sub[s].pc
       /\ run'[sub[s].run] = run[sub[s].run]
  /\ \A a \in Approvals : Awaits(a)' => Awaits(a) /\ appr'[a].run = appr[a].run

LEMMA ShrinkingKeeps ==
  ASSUME GateInv, Sole, Tickets, Shrinks
  PROVE  /\ \A d, e \in Drivers, r \in Runs : (Engaged(d, r)' /\ Near(e, r)') => d = e
         /\ Tickets'
<1>1. \A d, e \in Drivers, r \in Runs : (Engaged(d, r)' /\ Near(e, r)') => d = e
  BY DEF Shrinks, Sole
<1>2. \A s \in Subs : OpenSub(s)' =>
        /\ OpenSub(s) /\ sub'[s].run = sub[s].run /\ sub'[s].pc = sub[s].pc
        /\ sub[s].run \in Runs /\ run'[sub[s].run] = run[sub[s].run]
  BY OpenSubExists DEF Shrinks
<1>3. \A a \in Approvals : Awaits(a)' =>
        Awaits(a) /\ appr'[a].run = appr[a].run /\ appr[a].run \in Runs
  BY OpenApprExists DEF Shrinks, Awaits
<1>4. ASSUME NEW s \in Subs, OpenSub(s)'
      PROVE  Waits(sub[s].run, sub[s].pc)' /\ \A d \in Drivers : ~ Near(d, sub[s].run)'
  BY <1>2, <1>4 DEF Tickets, Shrinks, Waits
<1>5. ASSUME NEW a \in Approvals, Awaits(a)'
      PROVE  \A d \in Drivers : ~ Engaged(d, appr[a].run)'
  <2>1. Awaits(a) /\ appr'[a].run = appr[a].run /\ appr[a].run \in Runs
    BY <1>3, <1>5
  <2>2. \A d \in Drivers : ~ Engaged(d, appr[a].run)
    BY <2>1 DEF Tickets
  <2>. QED BY <2>1, <2>2 DEF Shrinks, Engaged, Near
<1>6. ASSUME NEW s \in Subs, NEW t \in Subs,
             OpenSub(s)', OpenSub(t)', sub'[s].run = sub'[t].run
      PROVE  s = t
  BY <1>2, <1>6 DEF Tickets
<1>. QED BY <1>1, <1>4, <1>5, <1>6 DEF Tickets

(* A driver that has a run in its hands works on it: it writes no other    *)
(* run, keeps its event and subscriptions, and takes up nothing else.      *)
Works(d) ==
  LET r == drv[d].run IN
  /\ Engaged(d, r) /\ Untouched(d) /\ UNCHANGED <<appr, sub>>
  /\ \A q \in Runs \ {r} : run'[q] = run[q]
  /\ run'[r].status \in Live \cup Terminal
  /\ \A a \in Approvals : (appr[a].status # "absent" /\ appr[a].run = r) => Behind(a)'
  /\ run'[r].status = "waiting" =>
       run[r].status = "waiting" /\ run'[r].cursor = run[r].cursor
  /\ drv'[d].msg = drv[d].msg /\ drv'[d].subs = drv[d].subs
  /\ drv'[d].run \in {r, 0}
  /\ drv'[d].at \notin {"idle", "claim", "decide", "insert", "waking", "deciding"}
  /\ drv'[d].at = "wake" => drv[d].subs # {}
  /\ drv[d].at \in Deciding /\ drv'[d].at \notin Deciding => run'[r].status # "waiting"

LEMMA WorksParks ==
  ASSUME GateInv, Owned, NEW d \in Drivers, Works(d), NEW a \in Approvals,
         appr[a].status # "absent", Parked(a)'
  PROVE  Parked(a)
<1>1. appr[a].run \in Runs /\ appr' = appr
  BY Tables DEF RowsShaped, Works
<1>2. appr[a].run # drv[d].run => run'[appr[a].run] = run[appr[a].run]
  BY <1>1 DEF Works
<1>. QED BY <1>1, <1>2 DEF Works, Parked, Waits

LEMMA MsgFacts ==
  ASSUME GateInv, Owned, NEW d \in Drivers, drv[d].msg # 0
  PROVE  /\ drv[d].msg \in Approvals /\ appr[drv[d].msg].event = "queued"
         /\ appr[drv[d].msg].status \in {"approved", "rejected"}
         /\ appr[drv[d].msg].run \in Runs
<1>1. drv[d].msg \in Approvals
  BY Tables DEF DriverStates
<1>2. appr[drv[d].msg].event = "queued"
  BY DEF Owned, Carries
<1>. QED BY <1>1, <1>2, Tables DEF RowsShaped

(* Nothing a working driver does touches what another one believes. *)
LEMMA WorksApart ==
  ASSUME GateInv, Owned, NEW d \in Drivers, Works(d), NEW e \in Drivers \ {d}
  PROVE  /\ Agrees(e)' /\ Carries(e)'
         /\ \A r \in Runs : /\ Near(e, r)' => Near(e, r)
                            /\ Engaged(e, r)' => Engaged(e, r)
<1>1. drv'[e] = drv[e] /\ Agrees(e) /\ Carries(e) /\ UNCHANGED <<appr, sub>>
  BY DEF Works, Untouched, Owned
<1>2. ~ Near(e, drv[d].run)
  BY EngagedFacts DEF Works
<1>3. drv[e].at \in HandPoints \cup {"load"} =>
        drv[e].run \in Runs /\ run'[drv[e].run] = run[drv[e].run]
  BY <1>2, NearHasRun DEF Works, Near
<1>4. Agrees(e)'
  BY <1>1, <1>3 DEF Agrees, HandPoints, Cleared
<1>5. Carries(e)'
  <2>1. ASSUME drv[e].msg # 0
        PROVE  /\ drv[e].at = "deciding" => Parked(drv[e].msg)'
               /\ drv[e].at \notin Deciding \cup {"decide"} => ~ Parked(drv[e].msg)'
    <3>1. drv[e].msg \in Approvals /\ appr[drv[e].msg].status # "absent"
      BY <2>1, MsgFacts
    <3>2. Parked(drv[e].msg)' => Parked(drv[e].msg)
      BY <1>1, <3>1, WorksParks
    <3>3. drv[e].at = "deciding" =>
            /\ appr[drv[e].msg].run = drv[e].run /\ Parked(drv[e].msg)
            /\ run'[drv[e].run] = run[drv[e].run]
      BY <1>1, <1>3, <2>1 DEF Carries, HandPoints
    <3>. QED BY <1>1, <2>1, <3>2, <3>3 DEF Carries, Parked, Waits
  <2>. QED BY <1>1, <2>1 DEF Carries
<1>6. \A r \in Runs : Near(e, r)' => Near(e, r)
  BY <1>1 DEF Near
<1>7. \A r \in Runs : Engaged(e, r)' => Engaged(e, r)
  BY <1>1, <1>3 DEF Engaged, Near
<1>. QED BY <1>4, <1>5, <1>6, <1>7

LEMMA WorksCarries ==
  ASSUME GateInv, GateInv', Owned, NEW d \in Drivers, Works(d)
  PROVE  Carries(d)'
<1>. DEFINE r == drv[d].run
            m == drv[d].msg
<1>1. /\ r \in Runs /\ drv[d].at \in HandPoints \cup {"load"}
      /\ drv[d].at \notin {"idle", "claim", "decide", "insert"}
  BY EngagedFacts DEF Works
<1>2. /\ UNCHANGED <<appr, sub>> /\ drv'[d].msg = m /\ drv'[d].subs = drv[d].subs
      /\ drv'[d].at \notin {"idle", "claim", "decide", "insert", "waking", "deciding"}
      /\ drv'[d].at = "wake" => drv[d].subs # {}
  BY DEF Works
<1>3. Carries(d)
  BY DEF Owned
<1>4. ASSUME m # 0 PROVE drv'[d].at \in HandPoints \cup {"load"} => drv'[d].run = appr[m].run
  <2>1. drv'[d].at \in HandPoints \cup {"load"} => drv'[d].run \in Runs
    BY TablesAfter DEF HandPoints, DriverShaped
  <2>2. drv'[d].run \in {r, 0} /\ 0 \notin Runs
    BY DEF Works, Runs
  <2>. QED BY <1>1, <1>3, <1>4, <2>1, <2>2 DEF Carries
<1>5. ASSUME m # 0, drv'[d].at \notin Deciding \cup {"decide"} PROVE ~ Parked(m)'
  <2>1. m \in Approvals /\ appr[m].status # "absent" /\ appr[m].run = r
    BY <1>1, <1>3, <1>5, MsgFacts DEF Carries
  <2>2. CASE drv[d].at \in Deciding
    BY <1>2, <1>5, <2>1, <2>2 DEF Works, Parked, Waits
  <2>3. CASE drv[d].at \notin Deciding
    <3>1. ~ Parked(m)
      BY <1>1, <1>3, <1>5, <2>3 DEF Carries
    <3>. PICK a \in Approvals : a = m
      BY <2>1
    <3>2. ~ Parked(a)'
      BY <2>1, <3>1, WorksParks
    <3>. QED BY <1>2, <3>2
  <2>. QED BY <2>2, <2>3
<1>. QED BY <1>1, <1>2, <1>3, <1>4, <1>5 DEF Carries

LEMMA WorksShrinks ==
  ASSUME GateInv, Owned, NEW d \in Drivers, Works(d)
  PROVE  Shrinks
<1>. DEFINE r == drv[d].run
<1>1. /\ r \in Runs /\ run[r].status \in Live
      /\ drv[d].at \notin {"idle", "claim", "decide", "insert"}
      /\ \A s \in Subs : OpenSub(s) => sub[s].run # r
  BY EngagedFacts DEF Works
<1>2. UNCHANGED <<appr, sub>>
  BY DEF Works
<1>3. \A e \in Drivers : drv'[e].msg = drv[e].msg /\ drv'[e].subs = drv[e].subs
  BY DEF Works, Untouched
<1>4. \A e \in Drivers : /\ drv'[e].at = "decide" <=> drv[e].at = "decide"
                         /\ drv'[e].at = "claim" <=> drv[e].at = "claim"
  BY <1>1 DEF Works, Untouched
<1>5. \A q \in Runs : /\ Near(d, q)' => Near(d, q)
                      /\ Engaged(d, q)' => Engaged(d, q)
  BY DEF Works, Engaged, Near, Runs
<1>6. \A e \in Drivers, q \in Runs : /\ Near(e, q)' => Near(e, q)
                                     /\ Engaged(e, q)' => Engaged(e, q)
  BY <1>5, WorksApart
<1>7. \A s \in Subs : OpenSub(s)' => OpenSub(s) /\ run'[sub[s].run] = run[sub[s].run]
  <2>1. \A s \in Subs : OpenSub(s)' => OpenSub(s)
    BY <1>2, <1>3, <1>4 DEF OpenSub
  <2>. QED BY <1>1, <2>1, OpenSubExists DEF Works
<1>8. \A a \in Approvals : Awaits(a)' => Awaits(a)
  <2>1. \A a \in Approvals : OpenAppr(a)' => OpenAppr(a)
    BY <1>2, <1>3, <1>4 DEF OpenAppr, InHand
  <2>. QED BY <2>1, OpenApprExists, WorksParks DEF Awaits
<1>. QED
  BY <1>2, <1>6, <1>7, <1>8 DEF Shrinks

LEMMA WorksKeeps ==
  ASSUME GateInv, GateInv', Owned, NEW d \in Drivers, Works(d), Agrees(d)'
  PROVE  Owned'
<1>. DEFINE r == drv[d].run
<1>1. r \in Runs /\ run[r].status \in Live
  BY EngagedFacts DEF Works
<1>2. UNCHANGED <<appr, sub>>
  BY DEF Works
<1>3. \A e \in Drivers : drv'[e].msg = drv[e].msg /\ drv'[e].subs = drv[e].subs
  BY DEF Works, Untouched
<1>4. \A e \in Drivers : drv'[e].at = "claim" <=> drv[e].at = "claim"
  BY EngagedFacts DEF Works, Untouched
<1>5. \A e \in Drivers : Agrees(e)' /\ Carries(e)'
  BY WorksCarries, WorksApart
<1>6. Placed'
  <2>1. \A q \in Runs : /\ run'[q].status # "queued"
                        /\ run[q].status # "absent" => run'[q].status # "absent"
    BY <1>1 DEF Works, Live, Terminal, Owned, Placed
  <2>2. \A a \in Approvals : appr[a].status # "absent" => appr[a].run \in Runs
    BY Tables DEF RowsShaped
  <2>3. \A s \in Subs : sub[s].status # "absent" => sub[s].run \in Runs
    BY Tables DEF RowsShaped
  <2>4. ASSUME NEW a \in Approvals, appr[a].status # "absent" PROVE Behind(a)'
    <3>1. CASE appr[a].run = r
      BY <2>4, <3>1 DEF Works
    <3>2. CASE appr[a].run # r
      <4>1. run'[appr[a].run] = run[appr[a].run]
        BY <2>2, <2>4, <3>2 DEF Works
      <4>2. Behind(a)
        BY <2>4 DEF Owned, Placed
      <4>. QED BY <1>2, <4>1, <4>2 DEF Behind
    <3>. QED BY <3>1, <3>2
  <2>5. ASSUME NEW s \in Subs, sub[s].status # "absent"
        PROVE  Op(sub[s].pc) = "WAIT" /\ run'[sub[s].run].status # "absent"
    BY <2>1, <2>3, <2>5 DEF Owned, Placed
  <2>. QED BY <1>2, <2>1, <2>2, <2>4, <2>5 DEF Owned, Placed
<1>7. Sole'
  BY <1>3, <1>4, WorksShrinks, ShrinkingKeeps DEF Owned, Sole
<1>. QED BY <1>5, <1>6, <1>7, WorksShrinks, ShrinkingKeeps DEF Owned

-----------------------------------------------------------------------------
(* What the helpers leave in a driver and a run                            *)

LEMMA GoGives ==
  ASSUME GateInv, NEW d \in Drivers, NEW point, Go(d, point)
  PROVE  /\ Untouched(d) /\ drv'[d].at = point
         /\ drv'[d].run = drv[d].run /\ drv'[d].row = drv[d].row
         /\ drv'[d].subs = drv[d].subs /\ drv'[d].msg = drv[d].msg
         /\ drv'[d].count = drv[d].count /\ drv'[d].live = drv[d].live
BY Tables DEF Go, Untouched, DriverStates

LEMMA AdvanceGives ==
  ASSUME GateInv, NEW d \in Drivers, NEW r, Advance(d, r)
  PROVE  /\ Untouched(d) /\ drv'[d].at = "load" /\ drv'[d].run = r
         /\ drv'[d].subs = drv[d].subs /\ drv'[d].msg = drv[d].msg
         /\ drv'[d].count = 0
BY Tables DEF Advance, Untouched, Idle

LEMMA ReturnGives ==
  ASSUME GateInv, NEW d \in Drivers, Return(d)
  PROVE  /\ Untouched(d) /\ drv'[d].run = 0
         /\ drv'[d].at = IF drv[d].subs = {} THEN "ack" ELSE "wake"
         /\ drv'[d].subs = drv[d].subs /\ drv'[d].msg = drv[d].msg
         /\ drv'[d].count = 0
BY Tables DEF Return, Untouched, Idle

(* The one run a step writes, and its status and cursor after it. *)
Writes(r, st, pc) ==
  /\ run'[r].status = st /\ run'[r].cursor = pc
  /\ \A q \in Runs \ {r} : run'[q] = run[q]

LEMMA CursorWrites ==
  ASSUME GateInv, NEW r \in Runs, NEW pc, MoveCursor(r, pc)
  PROVE  Writes(r, run[r].status, pc)
BY Tables DEF MoveCursor, Writes, Rows

LEMMA StatusWrites ==
  ASSUME GateInv, NEW r \in Runs, NEW st, run' = [run EXCEPT ![r].status = st]
  PROVE  Writes(r, st, run[r].cursor)
BY Tables DEF Writes, Rows

LEMMA CursorWritesAs ==
  ASSUME GateInv, NEW r \in Runs, NEW pc, NEW st, MoveCursorAs(r, pc, st)
  PROVE  Writes(r, st, pc)
BY Tables DEF MoveCursorAs, Writes, Rows

-----------------------------------------------------------------------------
(* The steps of a driver with a run in its hands                           *)

(* A run that moves forward, or no longer runs, leaves its approvals       *)
(* behind.                                                                 *)
LEMMA MovesPast ==
  ASSUME GateInv, Owned, NEW r \in Runs, NEW pc \in Nat, NEW st, Writes(r, st, pc),
         UNCHANGED appr, pc >= run[r].cursor, st = "running" => pc > run[r].cursor
  PROVE  \A a \in Approvals : (appr[a].status # "absent" /\ appr[a].run = r) => Behind(a)'
<1>. SUFFICES ASSUME NEW a \in Approvals, appr[a].status # "absent", appr[a].run = r
              PROVE  Behind(a)'
  OBVIOUS
<1>1. appr[a].pc \in Nat /\ run[r].cursor \in Nat
  BY Tables DEF ApprovalRows
<1>2. appr[a].pc <= run[r].cursor
  BY DEF Owned, Placed, Behind
<1>3. appr[a].pc <= pc /\ (st = "running" => appr[a].pc # pc)
  BY <1>1, <1>2
<1>. QED BY <1>3 DEF Behind, Writes

(* The driver moves its run forward and comes round to the SELECT. *)
LEMMA ForwardWorks ==
  ASSUME GateInv, Owned, NEW d \in Drivers, drv[d].at \in HandPoints,
         NEW pc \in Nat, pc > run[drv[d].run].cursor,
         Writes(drv[d].run, "running", pc), Again(d), UNCHANGED <<appr, sub>>
  PROVE  Works(d) /\ Agrees(d)'
<1>1. Engaged(d, drv[d].run)
  BY DEF Engaged, Near, HandPoints
<1>2. /\ Untouched(d) /\ drv'[d].at = "load" /\ drv'[d].run = drv[d].run
      /\ drv'[d].subs = drv[d].subs /\ drv'[d].msg = drv[d].msg
  BY AdvanceGives DEF Again
<1>3. drv[d].run \in Runs /\ run[drv[d].run].cursor \in Nat
  BY <1>1, EngagedFacts, Tables
<1>4. \A a \in Approvals :
        (appr[a].status # "absent" /\ appr[a].run = drv[d].run) => Behind(a)'
  BY <1>3, MovesPast
<1>5. Works(d)
  BY <1>1, <1>2, <1>4 DEF Works, Writes, Live
<1>6. Agrees(d)'
  BY <1>2 DEF Agrees, Writes
<1>. QED BY <1>5, <1>6

LEMMA AtHand ==
  ASSUME GateInv, Owned, NEW d \in Drivers,
         drv[d].at \in {"exec", "effect", "record", "park"}
  PROVE  /\ drv[d].run \in Runs /\ drv[d].row = run[drv[d].run]
         /\ run[drv[d].run].status = "running"
         /\ run[drv[d].run].cursor \in Nat \ {0} /\ run[drv[d].run].result \in Results
         /\ Engaged(d, drv[d].run)
<1>1. Engaged(d, drv[d].run)
  BY DEF Engaged, Near, HandPoints
<1>2. drv[d].run \in Runs
  BY <1>1, EngagedFacts
<1>. QED BY <1>1, <1>2, Tables DEF Owned, Agrees, Rows

LEMMA ForwardSteps ==
  ASSUME GateInv, Owned, Setting, NEW d \in Drivers,
         SetVars(d) \/ Emit(d) \/ Branch(d) \/ Jump(d) \/ SkipDone(d) \/ RecordStep(d)
  PROVE  /\ Works(d) /\ Agrees(d)'
         /\ run'[drv[d].run].status = "running"
         /\ run'[drv[d].run].cursor > run[drv[d].run].cursor
<1>. DEFINE r == drv[d].run
            pc == run[r].cursor
<1>1. drv[d].at \in {"exec", "record"} /\ Again(d) /\ UNCHANGED <<appr, sub>>
  BY DEF SetVars, Emit, Branch, Jump, SkipDone, RecordStep, AtOp, At
<1>2. /\ r \in Runs /\ drv[d].row.cursor = pc /\ run[r].status = "running"
      /\ pc \in Nat \ {0} /\ drv[d].row.result \in Results
  BY <1>1, AtHand
<1>3. \E to \in Nat : to > pc /\ Writes(r, "running", to)
  <2>1. CASE SetVars(d)
    <3>. DEFINE row == [run[r] EXCEPT !.cursor = pc + 1,
                          !.approved = drv[d].row.approved, !.result = drv[d].row.result]
    <3>1. row.status = "running" /\ row.cursor = pc + 1
      BY <1>2, Tables DEF Rows
    <3>2. run' = [run EXCEPT ![r] = row]
      BY <1>2, <2>1, Tables DEF SetVars
    <3>3. Writes(r, "running", pc + 1)
      <4>. HIDE DEF row
      <4>. QED BY <1>2, <3>1, <3>2, Tables DEF Writes
    <3>. QED BY <1>2, <3>3
  <2>2. CASE Emit(d) \/ SkipDone(d) \/ RecordStep(d)
    <3>1. MoveCursor(r, drv[d].row.cursor + 1)
      BY <2>2, ZenonT(60) DEF Emit, SkipDone, RecordStep
    <3>2. pc + 1 \in Nat /\ pc + 1 > pc  BY <1>2
    <3>. QED BY <1>2, <3>1, <3>2, CursorWrites
  <2>3. CASE Branch(d)
    <3>1. Op(pc) = "BRANCH"
      BY <1>2, <2>3 DEF Branch, AtOp
    <3>2. PICK to \in Program[drv[d].row.cursor].to[drv[d].row.result] : MoveCursor(r, to)
      BY <2>3 DEF Branch
    <3>3. to \in Nat /\ to > pc
      BY <1>2, <3>1, <3>2, ProgramFacts DEF Setting, Forward
    <3>. QED BY <1>2, <3>2, <3>3, CursorWrites
  <2>4. CASE Jump(d)
    BY ZenonT(60), <1>2, <2>4, ProgramFacts, CursorWrites DEF Jump, AtOp, Setting, Forward
  <2>. QED BY <2>1, <2>2, <2>3, <2>4
<1>4. Works(d) /\ Agrees(d)'
  BY <1>1, <1>3, ForwardWorks DEF HandPoints
<1>. QED BY <1>3, <1>4 DEF Writes

(* The driver goes on to another point; the run may get its ending. *)
LEMMA OnwardWorks ==
  ASSUME GateInv, Owned, NEW d \in Drivers, Engaged(d, drv[d].run),
         Untouched(d), UNCHANGED <<appr, sub>>,
         \/ UNCHANGED run /\ (drv[d].at \in Deciding => drv'[d].at \in Deciding)
         \/ \E st \in Terminal, pc \in Nat : /\ Writes(drv[d].run, st, pc)
                                             /\ pc >= run[drv[d].run].cursor,
         drv'[d].msg = drv[d].msg, drv'[d].subs = drv[d].subs,
         drv'[d].run \in {drv[d].run, 0}, drv'[d].at = "wake" => drv[d].subs # {},
         drv'[d].at \notin {"idle", "claim", "decide", "insert", "waking", "deciding"}
  PROVE  Works(d)
<1>1. /\ run[drv[d].run].status \in Live /\ run[drv[d].run].cursor \in Nat
      /\ "waiting" \notin Terminal /\ "running" \notin Terminal /\ drv[d].run \in Runs
  BY EngagedFacts, Tables DEF Terminal
<1>2. CASE UNCHANGED run /\ (drv[d].at \in Deciding => drv'[d].at \in Deciding)
  <2>1. \A a \in Approvals : appr[a].status # "absent" => Behind(a)'
    BY <1>2 DEF Owned, Placed, Behind
  <2>. QED BY <1>1, <1>2, <2>1 DEF Works
<1>3. ASSUME NEW st \in Terminal, NEW pc \in Nat,
             Writes(drv[d].run, st, pc), pc >= run[drv[d].run].cursor
      PROVE  Works(d)
  <2>1. \A a \in Approvals :
          (appr[a].status # "absent" /\ appr[a].run = drv[d].run) => Behind(a)'
    BY <1>1, <1>3, MovesPast
  <2>. QED BY <1>1, <1>3, <2>1 DEF Works, Writes
<1>. QED BY <1>2, <1>3

LEMMA LoadRunning ==
  ASSUME GateInv, Owned, NEW d \in Drivers, Load(d), run[drv[d].run].status = "running"
  PROVE  /\ Works(d) /\ Agrees(d)' /\ drv'[d].at = "exec"
         /\ drv'[d].run = drv[d].run /\ drv'[d].count = drv[d].count
<1>1. /\ drv'[d].at = "exec" /\ drv'[d].row = run[drv[d].run] /\ Untouched(d)
      /\ drv'[d].run = drv[d].run /\ drv'[d].msg = drv[d].msg
      /\ drv'[d].subs = drv[d].subs /\ drv'[d].count = drv[d].count
  BY Tables DEF Load, Untouched, DriverStates
<1>2. /\ Engaged(d, drv[d].run) /\ UNCHANGED <<run, appr, sub>> /\ drv[d].at \notin Deciding
  BY DEF Load, At, Engaged, Near, Deciding
<1>3. Works(d)
  BY <1>1, <1>2, OnwardWorks
<1>4. Agrees(d)'
  BY <1>1, <1>2 DEF Agrees
<1>. QED BY <1>1, <1>3, <1>4

LEMMA EffectWorks ==
  ASSUME GateInv, Owned, NEW d \in Drivers, StartStep(d) \/ RunAgent(d) \/ RunTool(d)
  PROVE  /\ Works(d) /\ Agrees(d)' /\ UNCHANGED run
         /\ drv'[d].at \in {"effect", "record", "park", "compensate"}
         /\ drv'[d].run = drv[d].run /\ drv'[d].count = drv[d].count
<1>1. drv[d].at \in {"exec", "effect"} /\ UNCHANGED <<run, appr, sub>>
  BY DEF StartStep, RunAgent, RunTool, AtOp, At
<1>2. Engaged(d, drv[d].run) /\ drv[d].row = run[drv[d].run] /\ run[drv[d].run].status = "running"
  BY <1>1, AtHand
<1>3. /\ Untouched(d) /\ drv'[d].at \in {"effect", "record", "park", "compensate"}
      /\ drv'[d].run = drv[d].run /\ drv'[d].msg = drv[d].msg /\ drv'[d].row = drv[d].row
      /\ drv'[d].subs = drv[d].subs /\ drv'[d].count = drv[d].count
  BY GoGives, Tables DEF Untouched, DriverStates, StartStep, RunAgent, RunTool
<1>4. Works(d)
  BY <1>1, <1>2, <1>3, OnwardWorks DEF Deciding
<1>5. drv'[d].at = "park" => ~ Cleared(d)'
  <2>1. CASE StartStep(d) \/ RunAgent(d)
    BY <2>1, GoGives, Tables DEF StartStep, RunAgent
  <2>2. CASE RunTool(d)
    <3>1. drv'[d].at = "park" => ~ Cleared(d)
      BY <2>2, GoGives, Tables DEF RunTool, DriverStates
    <3>. QED BY <1>3, <3>1 DEF Cleared
  <2>. QED BY <2>1, <2>2
<1>6. Agrees(d)'
  BY <1>1, <1>2, <1>3, <1>5 DEF Agrees, Live
<1>. QED BY <1>1, <1>3, <1>4, <1>6

LEMMA CompleteWorks ==
  ASSUME GateInv, Owned, NEW d \in Drivers, Complete(d)
  PROVE  /\ Works(d) /\ Agrees(d)' /\ run'[drv[d].run].status = "completed"
         /\ drv'[d].at = "promote" /\ drv'[d].count = drv[d].count
<1>. DEFINE r == drv[d].run
<1>1. /\ drv[d].at = "exec" /\ MoveCursorAs(r, drv[d].row.cursor, "completed")
      /\ Go(d, "promote") /\ UNCHANGED <<appr, sub>>
  BY DEF Complete, AtOp, At
<1>2. /\ r \in Runs /\ drv[d].row = run[r] /\ run[r].cursor \in Nat
      /\ Engaged(d, r)
  BY <1>1, AtHand
<1>3. Writes(r, "completed", run[r].cursor)
  BY <1>1, <1>2, CursorWritesAs
<1>4. /\ Untouched(d) /\ drv'[d].at = "promote" /\ drv'[d].run = r
      /\ drv'[d].subs = drv[d].subs /\ drv'[d].msg = drv[d].msg
      /\ drv'[d].count = drv[d].count
  BY <1>1, GoGives
<1>5. Works(d)
  BY <1>1, <1>2, <1>3, <1>4, OnwardWorks DEF Terminal
<1>6. Agrees(d)'
  BY <1>4 DEF Agrees
<1>. QED BY <1>3, <1>4, <1>5, <1>6 DEF Writes

LEMMA CompensateWorks ==
  ASSUME GateInv, Owned, NEW d \in Drivers, FailRun(d) \/ EndCompensation(d)
  PROVE  /\ Works(d) /\ Agrees(d)' /\ run'[drv[d].run].status \in Terminal
         /\ run'[drv[d].run].cursor = run[drv[d].run].cursor
         /\ drv'[d].at \in {"load", "ack", "wake"} /\ drv'[d].count = 0
<1>. DEFINE r == drv[d].run
<1>1. /\ drv[d].at \in {"failing", "undo"} /\ UNCHANGED <<appr, sub>>
      /\ Again(d) \/ Return(d)
  BY DEF FailRun, EndCompensation, At, Compensated
<1>2. Engaged(d, r) /\ r \in Runs /\ run[r].cursor \in Nat
  BY <1>1, Tables, NearHasRun DEF Engaged, Near, HandPoints
<1>3. \E st \in Terminal : Writes(r, st, run[r].cursor)
  <2>1. CASE FailRun(d)
    <3>1. drv[d].row = run[r] /\ MoveCursorAs(r, drv[d].row.cursor, "failed")
      BY <2>1 DEF FailRun, At, Owned, Agrees
    <3>. QED BY <1>2, <3>1, CursorWritesAs DEF Terminal
  <2>2. CASE EndCompensation(d)
    BY <1>2, <2>2, StatusWrites DEF EndCompensation, Terminal
  <2>. QED BY <2>1, <2>2
<1>4. PICK st \in Terminal : Writes(r, st, run[r].cursor)
  BY <1>3
<1>5. /\ Untouched(d) /\ drv'[d].at \in {"load", "ack", "wake"}
      /\ drv'[d].run \in {r, 0}
      /\ drv'[d].at = "wake" => drv[d].subs # {}
      /\ drv'[d].at = "load" => drv'[d].run = r
      /\ drv'[d].subs = drv[d].subs /\ drv'[d].msg = drv[d].msg /\ drv'[d].count = 0
  BY <1>1, AdvanceGives, ReturnGives DEF Again
<1>6. Works(d)
  BY <1>1, <1>2, <1>4, <1>5, OnwardWorks
<1>7. Agrees(d)'
  BY <1>4, <1>5 DEF Agrees, Writes, Terminal
<1>. QED BY <1>4, <1>5, <1>6, <1>7 DEF Writes

LEMMA UndoWorks ==
  ASSUME GateInv, Owned, NEW d \in Drivers,
         LoadToFail(d) \/ BeginCompensation(d) \/ RunCompensator(d)
  PROVE  /\ Works(d) /\ Agrees(d)' /\ UNCHANGED run
         /\ drv'[d].at = IF LoadToFail(d) THEN "failing" ELSE "undo"
         /\ drv'[d].run = drv[d].run /\ drv'[d].msg = drv[d].msg
<1>1. /\ drv[d].at \in {"compensate", "undo"} /\ UNCHANGED <<run, appr, sub>>
      /\ LoadToFail(d) => ~ HasBlock /\ drv[d].at = "compensate"
  BY DEF LoadToFail, BeginCompensation, RunCompensator, At
<1>2. Engaged(d, drv[d].run) /\ run[drv[d].run].status \in Live
  BY <1>1 DEF Engaged, Near, HandPoints, Owned, Agrees
<1>3. /\ Untouched(d) /\ drv'[d].at = IF LoadToFail(d) THEN "failing" ELSE "undo"
      /\ drv'[d].run = drv[d].run
      /\ drv'[d].msg = drv[d].msg /\ drv'[d].subs = drv[d].subs
      /\ LoadToFail(d) => drv'[d].row = run[drv[d].run]
  <2>1. CASE BeginCompensation(d)
    <3>1. Go(d, "undo") /\ HasBlock
      BY <2>1 DEF BeginCompensation
    <3>. QED BY <1>1, <3>1, GoGives
  <2>2. CASE RunCompensator(d)
    <3>1. \E n, failed : drv' = [drv EXCEPT ![d].count = n, ![d].partial = failed]
      BY <2>2 DEF RunCompensator
    <3>2. PICK n, failed : drv' = [drv EXCEPT ![d].count = n, ![d].partial = failed]
      BY <3>1
    <3>3. drv' = [drv EXCEPT ![d] = [drv[d] EXCEPT !.count = n, !.partial = failed]]
      BY <3>2, Tables
    <3>4. drv[d].at = "undo"
      BY <2>2 DEF RunCompensator, At
    <3>. QED BY <1>1, <3>3, <3>4, Tables DEF Untouched, DriverStates
  <2>3. CASE LoadToFail(d)
    BY <2>3, Tables DEF LoadToFail, Untouched, DriverStates
  <2>. QED BY <2>1, <2>2, <2>3
<1>4. Works(d)
  BY <1>1, <1>2, <1>3, OnwardWorks DEF Deciding
<1>5. Agrees(d)'
  BY <1>1, <1>2, <1>3 DEF Agrees
<1>. QED BY <1>1, <1>3, <1>4, <1>5

LEMMA WakeWorks ==
  ASSUME GateInv, Owned, NEW d \in Drivers, WakeRun(d)
  PROVE  /\ Works(d) /\ Agrees(d)' /\ run[drv[d].run].status = "waiting"
         /\ run'[drv[d].run].status = "running" /\ drv'[d].count = 0
         /\ drv'[d].at = "load" /\ run'[drv[d].run].cursor > run[drv[d].run].cursor
<1>. DEFINE r == drv[d].run
            pc == run[r].cursor
            row == [drv[d].row EXCEPT !.status = "running", !.cursor = @ + 1,
                                      !.result = drv[d].signal]
<1>1. drv[d].at = "waking" /\ Again(d) /\ UNCHANGED <<appr, sub>>
  BY DEF WakeRun, At
<1>2. /\ r \in Runs /\ drv[d].row = run[r] /\ run[r].status = "waiting"
      /\ pc \in Nat \ {0} /\ run[r] \in Rows
  BY <1>1, Tables DEF DriverShaped, Owned, Agrees
<1>3. run' = [run EXCEPT ![r] = row]
  BY DEF WakeRun
<1>4. row.status = "running" /\ row.cursor = pc + 1
  BY <1>2 DEF Rows
<1>5. Writes(r, "running", pc + 1)
  <2>. HIDE DEF row
  <2>. QED BY <1>2, <1>3, <1>4, Tables DEF Writes
<1>6. Works(d) /\ Agrees(d)'
  <2>1. pc + 1 \in Nat /\ pc + 1 > pc /\ drv[d].at \in HandPoints
    BY <1>1, <1>2 DEF HandPoints
  <2>. HIDE DEF row
  <2>. QED BY <1>1, <1>5, <2>1, ForwardWorks
<1>7. drv'[d].at = "load" /\ drv'[d].count = 0
  BY <1>1, AdvanceGives DEF Again
<1>. QED BY <1>2, <1>5, <1>6, <1>7 DEF Writes

(* What a driver about to decide finds: the run waits at the step its      *)
(* decision is about, and no other approval of the run is about that step. *)
LEMMA DecidingFacts ==
  ASSUME GateInv, Owned, NEW d \in Drivers, drv[d].at = "deciding"
  PROVE  LET r == drv[d].run  m == drv[d].msg IN
         /\ r \in Runs /\ drv[d].row = run[r] /\ run[r].status = "waiting"
         /\ run[r].cursor \in Nat \ {0} /\ run[r] \in Rows /\ Engaged(d, r)
         /\ m \in Approvals /\ m # 0 /\ appr[m].run = r /\ appr[m].status # "absent"
         /\ appr[m].status \in {"approved", "rejected"}
         /\ run[r].cursor = appr[m].pc
         /\ \A a \in Approvals :
              (appr[a].status # "absent" /\ appr[a].run = r /\ appr[a].pc = appr[m].pc)
                => a = m
<1>. DEFINE r == drv[d].run
            m == drv[d].msg
<1>1. /\ m \in Approvals /\ r \in Runs /\ r = appr[m].run
      /\ appr[m].status \in {"approved", "rejected"}
  BY Tables DEF DriverShaped
<1>2. m # 0
  BY <1>1, ProgramFacts
<1>3. /\ drv[d].row = run[r] /\ run[r].status = "waiting" /\ run[r].cursor = appr[m].pc
  BY <1>1, <1>2 DEF Owned, Agrees, Carries, Parked, Waits
<1>4. Engaged(d, r)
  BY DEF Engaged, Near, HandPoints
<1>5. \A a \in Approvals :
        (appr[a].status # "absent" /\ appr[a].run = r /\ appr[a].pc = appr[m].pc) => a = m
  BY <1>1 DEF Owned, Placed
<1>. QED BY <1>1, <1>2, <1>3, <1>4, <1>5, Tables

(* A decision that asks to go on, and one that asks for compensation.      *)
LEMMA DecisionWorks ==
  ASSUME GateInv, Owned, NEW d \in Drivers, ResumeHuman(d) \/ ResumeTool(d)
  PROVE  LET r == drv[d].run IN
         /\ drv[d].at = "deciding" /\ UNCHANGED <<appr, sub>>
         /\ Decided(d) = "approved" =>
              /\ Again(d)
              /\ ResumeTool(d) => Writes(r, "running", run[r].cursor)
              /\ ResumeHuman(d) => Writes(r, "running", run[r].cursor + 1)
         /\ Decided(d) # "approved" =>
              Go(d, "compensate") /\ Writes(r, "waiting", run[r].cursor)
<1>. DEFINE r == drv[d].run
<1>1. drv[d].at = "deciding" /\ UNCHANGED <<appr, sub>>
  BY DEF ResumeHuman, ResumeTool, At
<1>2. /\ r \in Runs /\ drv[d].row = run[r] /\ run[r].status = "waiting"
      /\ run[r].cursor \in Nat \ {0} /\ run[r] \in Rows
  BY <1>1, DecidingFacts
<1>3. CASE ResumeHuman(d)
  <2>. DEFINE row == [run[r] EXCEPT !.status = "running", !.cursor = run[r].cursor + 1]
  <2>1. row.status = "running" /\ row.cursor = run[r].cursor + 1
    BY <1>2 DEF Rows
  <2>2. run' = [run EXCEPT ![r] = IF Decided(d) = "approved" THEN row ELSE run[r]]
    BY <1>2, <1>3 DEF ResumeHuman, Decision, Decided
  <2>3. IF Decided(d) = "approved" THEN Again(d) ELSE Go(d, "compensate")
    BY <1>3 DEF ResumeHuman, Decision, Decided
  <2>. HIDE DEF row
  <2>4. Decided(d) = "approved" => Writes(r, "running", run[r].cursor + 1)
    BY <1>2, <2>1, <2>2, Tables DEF Writes
  <2>5. Decided(d) # "approved" => Writes(r, "waiting", run[r].cursor)
    BY <1>2, <2>2, Tables DEF Writes
  <2>6. ~ ResumeTool(d)
    BY <1>3 DEF ResumeHuman, ResumeTool
  <2>. QED BY <1>1, <2>3, <2>4, <2>5, <2>6
<1>4. CASE ResumeTool(d)
  <2>1. PICK st, list :
          /\ run' = [run EXCEPT ![r].status = st, ![r].approved = list,
                                ![r].result = drv[d].row.result]
          /\ st = IF Decided(d) = "approved" THEN "running" ELSE "waiting"
    BY <1>4 DEF ResumeTool, Decision, Decided
  <2>2. Writes(r, st, run[r].cursor)
    BY <1>2, <2>1, Tables DEF Writes, Rows
  <2>3. IF Decided(d) = "approved" THEN Again(d) ELSE Go(d, "compensate")
    BY <1>4 DEF ResumeTool, Decision, Decided
  <2>4. ~ ResumeHuman(d)
    BY <1>4 DEF ResumeHuman, ResumeTool
  <2>. QED BY <1>1, <2>1, <2>2, <2>3, <2>4
<1>. QED BY <1>3, <1>4

(* An approved tool call re-enters the step with its tool on the list.     *)
LEMMA ToolLetThrough ==
  ASSUME GateInv, Owned, NEW d \in Drivers, ResumeTool(d), Decided(d) = "approved"
  PROVE  \A a \in Approvals :
           (appr[a].status # "absent" /\ appr[a].run = drv[d].run) => Behind(a)'
<1>. PICK r \in Runs, m \in Approvals : r = drv[d].run /\ m = drv[d].msg
  BY DecidingFacts DEF ResumeTool, At
<1>. SUFFICES ASSUME NEW a \in Approvals, appr[a].status # "absent", appr[a].run = r
              PROVE  Behind(a)'
  OBVIOUS
<1>0. drv[d].at = "deciding" /\ UNCHANGED appr
  BY DEF ResumeTool, At
<1>1. /\ run[r].cursor = appr[m].pc
      /\ appr[a].pc = appr[m].pc => a = m
      /\ Writes(r, "running", run[r].cursor)
  BY <1>0, DecidingFacts, DecisionWorks
<1>2. appr[m].kind = "tool" /\ Program[appr[m].pc].name \in run'[r].approved
  BY Tables DEF ResumeTool, Decision, Decided, Rows
<1>3. appr[a].pc <= run[r].cursor
  BY DEF Owned, Placed, Behind
<1>. QED BY <1>0, <1>1, <1>2, <1>3 DEF Behind, Writes

LEMMA ResumeWorks ==
  ASSUME GateInv, Owned, NEW d \in Drivers, ResumeHuman(d) \/ ResumeTool(d)
  PROVE  /\ Works(d) /\ Agrees(d)' /\ run[drv[d].run].status = "waiting"
         /\ Decided(d) = "approved" =>
              /\ run'[drv[d].run].status = "running"
              /\ run'[drv[d].run].cursor >= run[drv[d].run].cursor
              /\ drv'[d].at = "load" /\ drv'[d].count = 0
         /\ Decided(d) # "approved" =>
              /\ Writes(drv[d].run, "waiting", run[drv[d].run].cursor)
              /\ drv'[d].at = "compensate"
              /\ drv'[d].count = drv[d].count /\ drv'[d].run = drv[d].run
<1>. DEFINE r == drv[d].run
<1>1. drv[d].at = "deciding" /\ UNCHANGED <<appr, sub>>
  BY DecisionWorks
<1>2. /\ r \in Runs /\ run[r].status = "waiting" /\ run[r].cursor \in Nat \ {0}
      /\ Engaged(d, r)
  BY <1>1, DecidingFacts
<1>3. CASE Decided(d) = "approved"
  <2>1. /\ Again(d)
        /\ \E pc \in Nat : Writes(r, "running", pc) /\ pc >= run[r].cursor
    BY <1>2, <1>3, DecisionWorks
  <2>2. /\ Untouched(d) /\ drv'[d].at = "load" /\ drv'[d].run = r
        /\ drv'[d].subs = drv[d].subs /\ drv'[d].msg = drv[d].msg /\ drv'[d].count = 0
    BY <2>1, AdvanceGives DEF Again
  <2>3. CASE ResumeHuman(d)
    <3>1. Writes(r, "running", run[r].cursor + 1) /\ run[r].cursor + 1 \in Nat
      BY <1>2, <1>3, <2>3, DecisionWorks
    <3>2. Works(d) /\ Agrees(d)'
      BY <1>1, <1>2, <2>1, <3>1, ForwardWorks DEF HandPoints
    <3>. QED BY <1>2, <1>3, <2>1, <2>2, <3>2 DEF Writes
  <2>4. CASE ResumeTool(d)
    <3>1. Works(d)
      BY <1>1, <1>2, <1>3, <2>1, <2>2, <2>4, ToolLetThrough DEF Works, Writes, Live
    <3>2. Agrees(d)'
      BY <2>1, <2>2 DEF Agrees, Writes
    <3>. QED BY <1>2, <1>3, <2>1, <2>2, <3>1, <3>2 DEF Writes
  <2>. QED BY <2>3, <2>4
<1>4. CASE Decided(d) # "approved"
  <2>1. Go(d, "compensate") /\ Writes(r, "waiting", run[r].cursor)
    BY <1>4, DecisionWorks
  <2>2. /\ Untouched(d) /\ drv'[d].at = "compensate" /\ drv'[d].run = r
        /\ drv'[d].subs = drv[d].subs /\ drv'[d].msg = drv[d].msg
        /\ drv'[d].count = drv[d].count
    BY <2>1, GoGives
  <2>3. \A a \in Approvals :
          (appr[a].status # "absent" /\ appr[a].run = r) => Behind(a)'
    BY <1>1, <1>2, <2>1, MovesPast
  <2>4. Works(d)
    BY <1>1, <1>2, <2>1, <2>2, <2>3 DEF Works, Writes, Live, Deciding
  <2>5. Agrees(d)'
    BY <2>1, <2>2 DEF Agrees, Writes, Live
  <2>. QED BY <1>2, <1>4, <2>1, <2>2, <2>4, <2>5
<1>. QED BY <1>3, <1>4

(* Every step of a driver with a run in its hands, but those that park the *)
(* run.                                                                    *)
HandStep(d) ==
  \/ Load(d) /\ run[drv[d].run].status = "running"
  \/ SetVars(d) \/ Emit(d) \/ Branch(d) \/ Jump(d) \/ SkipDone(d) \/ RecordStep(d)
  \/ StartStep(d) \/ RunAgent(d) \/ RunTool(d) \/ Complete(d)
  \/ FailRun(d) \/ EndCompensation(d)
  \/ LoadToFail(d) \/ BeginCompensation(d) \/ RunCompensator(d)
  \/ WakeRun(d) \/ ResumeHuman(d) \/ ResumeTool(d)

LEMMA HandStepWorks ==
  ASSUME GateInv, Owned, Setting, NEW d \in Drivers, HandStep(d)
  PROVE  Works(d) /\ Agrees(d)'
BY LoadRunning, ForwardSteps, EffectWorks, CompleteWorks, CompensateWorks, UndoWorks,
   WakeWorks, ResumeWorks DEF HandStep

-----------------------------------------------------------------------------
(* The steps that park a run                                               *)

(* A parked run is in nobody's hands: the driver leaves it, or comes round *)
(* once more to find it waiting.                                           *)
Hands(d) ==
  /\ Untouched(d) /\ drv'[d].at \in {"ack", "wake", "load"}
  /\ drv'[d].run \in {drv[d].run, 0}
  /\ drv'[d].at # "load" => drv'[d].run = 0
  /\ drv'[d].msg = drv[d].msg /\ drv'[d].subs = drv[d].subs /\ drv'[d].count = 0
  /\ drv'[d].at = "wake" => drv[d].subs # {}

LEMMA HandsGives ==
  ASSUME GateInv, Owned, NEW d \in Drivers, Return(d)
  PROVE  Hands(d) /\ Agrees(d)' /\ drv'[d].count = 0 /\ drv'[d].at # "load"
BY ReturnGives DEF Hands, Agrees

LEMMA HandedOver ==
  ASSUME GateInv, Owned, NEW d \in Drivers, Engaged(d, drv[d].run),
         Hands(d), NEW pc, Writes(drv[d].run, "waiting", pc)
  PROVE  /\ \A e \in Drivers, r \in Runs : /\ Near(e, r)' => Near(e, r)
                                           /\ Engaged(e, r)' => Engaged(e, r) /\ r # drv[d].run
         /\ \A e \in Drivers \ {d} : /\ Agrees(e)' /\ drv'[e] = drv[e]
                                     /\ ~ Near(e, drv[d].run)
         /\ \A e \in Drivers : drv'[e].msg = drv[e].msg /\ drv'[e].subs = drv[e].subs
         /\ \A e \in Drivers : drv'[e].at = "claim" <=> drv[e].at = "claim"
         /\ \A a \in Approvals, e \in Drivers : InHand(e, a)' <=> InHand(e, a)
<1>1. \A e \in Drivers \ {d} : ~ Near(e, drv[d].run)
  BY EngagedFacts
<1>2. /\ drv[d].run \in Runs /\ drv[d].at \notin {"claim", "decide"}
      /\ drv[d].at \in HandPoints \cup {"load"}
  BY EngagedFacts
<1>3. \A e \in Drivers \ {d} : drv'[e] = drv[e] /\ Agrees(e)
  BY DEF Hands, Untouched, Owned
<1>4. \A e \in Drivers \ {d} : drv[e].at \in HandPoints \cup {"load"} =>
        /\ drv[e].run \in Runs /\ drv[e].run # drv[d].run
        /\ run'[drv[e].run] = run[drv[e].run]
  BY <1>1, NearHasRun DEF Near, Writes
<1>5. \A e \in Drivers \ {d} : Agrees(e)'
  BY <1>3, <1>4 DEF Agrees, HandPoints, Cleared
<1>6. \A e \in Drivers \ {d}, r \in Runs :
        /\ Near(e, r)' => Near(e, r)
        /\ Engaged(e, r)' => Engaged(e, r) /\ r # drv[d].run
  BY <1>3, <1>4 DEF Engaged, Near
<1>7. \A r \in Runs : /\ Near(d, r)' => Near(d, r)
                      /\ ~ Engaged(d, r)'
  <2>1. /\ drv'[d].run \in {drv[d].run, 0} /\ 0 \notin Runs
        /\ drv'[d].at # "load" => drv'[d].run = 0
    BY DEF Hands, Runs
  <2>2. Near(d, drv[d].run)
    BY <1>2 DEF Near
  <2>3. run'[drv[d].run].status = "waiting"
    BY DEF Writes
  <2>. QED BY <1>2, <2>1, <2>2, <2>3 DEF Engaged, Near
<1>8. \A e \in Drivers : drv'[e].msg = drv[e].msg /\ drv'[e].subs = drv[e].subs
  BY DEF Hands, Untouched
<1>9. \A e \in Drivers : /\ drv'[e].at = "claim" <=> drv[e].at = "claim"
                         /\ drv'[e].at = "decide" <=> drv[e].at = "decide"
  BY <1>2, <1>3 DEF Hands
<1>10. \A a \in Approvals, e \in Drivers : InHand(e, a)' <=> InHand(e, a)
  BY <1>8, <1>9 DEF InHand
<1>. QED BY <1>1, <1>3, <1>5, <1>6, <1>7, <1>8, <1>9, <1>10

Parks(d) == ParkWait(d) \/ ParkHuman(d) \/ ParkTool(d)

(* What a park finds and leaves in its run and its driver. *)
LEMMA ParkFinds ==
  ASSUME GateInv, Owned, NEW d \in Drivers, Parks(d)
  PROVE  LET r == drv[d].run IN
         /\ r \in Runs /\ Engaged(d, r) /\ run[r].status = "running"
         /\ drv[d].at \in {"exec", "park"} /\ run[r].cursor \in Nat \ {0}
         /\ Hands(d) /\ Agrees(d)' /\ (ParkWait(d) => drv'[d].run = 0)
         /\ Writes(r, "waiting", run[r].cursor)
         /\ ParkWait(d) => /\ Op(run[r].cursor) = "WAIT"
                           /\ RegisterWait(r, run[r].cursor) /\ UNCHANGED appr
         /\ ParkHuman(d) => /\ Op(run[r].cursor) = "HUMAN" /\ UNCHANGED sub
                            /\ CreateApproval(r, run[r].cursor, "human")
         /\ ParkTool(d) => /\ Op(run[r].cursor) = "TOOL" /\ UNCHANGED sub
                           /\ CreateApproval(r, run[r].cursor, "tool")
                           /\ Program[run[r].cursor].name \notin run[r].approved
<1>. DEFINE r == drv[d].run
<1>1. drv[d].at \in {"exec", "park"} /\ (ParkTool(d) <=> drv[d].at = "park")
  BY DEF Parks, ParkWait, ParkHuman, ParkTool, AtOp, At
<1>2. /\ r \in Runs /\ Engaged(d, r) /\ run[r].status = "running"
      /\ drv[d].row = run[r] /\ run[r].cursor \in Nat \ {0}
  BY <1>1, AtHand
<1>3. MoveCursorAs(r, run[r].cursor, "waiting")
  BY <1>2, ZenonT(60) DEF Parks, ParkWait, ParkHuman, ParkTool
<1>4. Writes(r, "waiting", run[r].cursor)
  BY <1>2, <1>3, CursorWritesAs
<1>5. /\ ParkWait(d) => /\ Op(run[r].cursor) = "WAIT"
                        /\ RegisterWait(r, run[r].cursor) /\ UNCHANGED appr
      /\ ParkHuman(d) => /\ Op(run[r].cursor) = "HUMAN" /\ UNCHANGED sub
                         /\ CreateApproval(r, run[r].cursor, "human")
  BY <1>2 DEF ParkWait, ParkHuman, AtOp
<1>6. ParkTool(d) => /\ Op(run[r].cursor) = "TOOL" /\ UNCHANGED sub
                     /\ CreateApproval(r, run[r].cursor, "tool")
                     /\ Program[run[r].cursor].name \notin run[r].approved
  BY <1>2, Tables DEF ParkTool, At, DriverShaped, Owned, Agrees, Cleared
<1>7. CASE Return(d)
  <2>1. Hands(d) /\ Agrees(d)' /\ drv'[d].run = 0
    BY <1>7, HandsGives, ReturnGives
  <2>. QED BY <1>1, <1>2, <1>4, <1>5, <1>6, <2>1
<1>8. CASE Again(d) /\ ParkTool(d)
  <2>1. /\ Untouched(d) /\ drv'[d].at = "load" /\ drv'[d].run = r
        /\ drv'[d].subs = drv[d].subs /\ drv'[d].msg = drv[d].msg /\ drv'[d].count = 0
    BY <1>8, AdvanceGives DEF Again
  <2>2. Hands(d) /\ Agrees(d)'
    BY <1>4, <2>1 DEF Hands, Agrees, Writes
  <2>3. ~ ParkWait(d)
    BY <1>8 DEF ParkWait, ParkTool, AtOp, At
  <2>. QED BY <1>1, <1>2, <1>4, <1>5, <1>6, <2>2, <2>3
<1>. QED BY <1>7, <1>8 DEF Parks, ParkWait, ParkHuman, ParkTool

(* What a park adds to the tables. *)
Added(a, r, pc) ==
  /\ appr[a].status = "absent" /\ appr'[a].status = "pending" /\ appr'[a].event = "none"
  /\ appr'[a].run = r /\ appr'[a].pc = pc
  /\ Op(pc) = IF appr'[a].kind = "human" THEN "HUMAN" ELSE "TOOL"

AddedSub(s, r, pc) ==
  /\ sub[s].status = "absent" /\ sub'[s].status = "pending"
  /\ sub'[s].run = r /\ sub'[s].pc = pc /\ Op(pc) = "WAIT"

LEMMA ParkAdds ==
  ASSUME GateInv, Owned, NEW d \in Drivers, Parks(d)
  PROVE  LET r == drv[d].run  pc == run[r].cursor IN
         /\ \A a \in Approvals : appr'[a] = appr[a] \/ Added(a, r, pc)
         /\ \A a, b \in Approvals : appr'[a] # appr[a] /\ appr'[b] # appr[b] => a = b
         /\ \A s \in Subs : sub'[s] = sub[s] \/ (AddedSub(s, r, pc) /\ ParkWait(d))
         /\ \A s, t \in Subs : sub'[s] # sub[s] /\ sub'[t] # sub[t] => s = t
         /\ \A a \in Approvals :
              (appr[a].status # "absent" /\ appr[a].run = r) => appr[a].pc # pc
<1>. DEFINE r == drv[d].run
            pc == run[r].cursor
<1>1. /\ r \in Runs /\ run[r].status = "running"
      /\ ParkWait(d) => Op(pc) = "WAIT" /\ RegisterWait(r, pc) /\ UNCHANGED appr
      /\ ParkHuman(d) => Op(pc) = "HUMAN" /\ UNCHANGED sub /\ CreateApproval(r, pc, "human")
      /\ ParkTool(d) => /\ Op(pc) = "TOOL" /\ UNCHANGED sub
                        /\ CreateApproval(r, pc, "tool")
                        /\ Program[pc].name \notin run[r].approved
  BY ParkFinds
<1>2. \A a \in Approvals :
        (appr[a].status # "absent" /\ appr[a].run = r) => appr[a].pc # pc
  BY <1>1 DEF Parks, Owned, Placed, Behind
<1>3. CASE ParkWait(d)
  <2>1. PICK s \in First(Free(sub)) :
          sub' = [sub EXCEPT ![s] = [run |-> r, pc |-> pc, status |-> "pending"]]
    BY <1>1, <1>3 DEF RegisterWait
  <2>2. s \in Subs /\ sub[s].status = "absent"
    BY Tables DEF First, Free
  <2>3. /\ sub'[s].run = r /\ sub'[s].pc = pc /\ sub'[s].status = "pending"
        /\ \A t \in Subs \ {s} : sub'[t] = sub[t]
    BY <2>1, <2>2, Tables
  <2>. QED BY <1>1, <1>2, <1>3, <2>2, <2>3 DEF AddedSub
<1>4. ASSUME NEW kind \in {"human", "tool"}, CreateApproval(r, pc, kind),
             Op(pc) = IF kind = "human" THEN "HUMAN" ELSE "TOOL"
      PROVE  /\ \A a \in Approvals : appr'[a] = appr[a] \/ Added(a, r, pc)
             /\ \A a, b \in Approvals : appr'[a] # appr[a] /\ appr'[b] # appr[b] => a = b
  <2>1. PICK a \in First(Free(appr)) :
          appr' = [appr EXCEPT ![a] = [run |-> r, pc |-> pc, kind |-> kind,
                                       status |-> "pending", event |-> "none"]]
    BY <1>4 DEF CreateApproval
  <2>2. a \in Approvals /\ appr[a].status = "absent"
    BY Tables DEF First, Free
  <2>3. /\ appr'[a].run = r /\ appr'[a].pc = pc /\ appr'[a].status = "pending"
        /\ appr'[a].event = "none" /\ appr'[a].kind = kind
        /\ \A b \in Approvals \ {a} : appr'[b] = appr[b]
    BY <2>1, <2>2, Tables
  <2>. QED BY <1>4, <2>2, <2>3 DEF Added
<1>5. CASE ParkHuman(d) \/ ParkTool(d)
  <2>1. UNCHANGED sub
    BY <1>1, <1>5
  <2>2. /\ \A a \in Approvals : appr'[a] = appr[a] \/ Added(a, r, pc)
        /\ \A a, b \in Approvals : appr'[a] # appr[a] /\ appr'[b] # appr[b] => a = b
    BY <1>1, <1>4, <1>5
  <2>3. \A s \in Subs : sub'[s] = sub[s]
    BY <2>1
  <2>. QED BY <1>2, <2>2, <2>3
<1>. QED BY <1>3, <1>5 DEF Parks

LEMMA ParkCarries ==
  ASSUME GateInv, GateInv', Owned, NEW d \in Drivers, Parks(d), NEW e \in Drivers
  PROVE  Carries(e)'
<1>. DEFINE r == drv[d].run
<1>1. /\ r \in Runs /\ Engaged(d, r) /\ Hands(d) /\ drv[d].at \in {"exec", "park"}
      /\ Writes(r, "waiting", run[r].cursor)
  BY ParkFinds
<1>2. /\ drv'[e].msg = drv[e].msg /\ drv'[e].subs = drv[e].subs
      /\ drv'[e].at = "claim" <=> drv[e].at = "claim"
      /\ e # d => drv'[e] = drv[e]
  BY <1>1, HandedOver
<1>3. Carries(e)
  BY DEF Owned
<1>4. \A s \in drv[e].subs : sub'[s] = sub[s] /\ s \in Subs
  BY Tables, ParkAdds DEF DriverShaped, AddedSub, DriverStates
<1>5. drv'[e].at # "claim" => \A s \in drv'[e].subs : sub'[s].status # "pending"
  BY <1>2, <1>3, <1>4 DEF Carries
<1>6. ASSUME drv[e].msg # 0
      PROVE  /\ drv'[e].subs = {} /\ drv'[e].at \notin {"insert", "claim", "wake", "waking"}
             /\ appr'[drv[e].msg].event = "queued"
             /\ drv'[e].at \in HandPoints \cup {"load"} => drv'[e].run = appr'[drv[e].msg].run
             /\ drv'[e].at = "deciding" => Parked(drv[e].msg)'
             /\ drv'[e].at \notin Deciding \cup {"decide"} => ~ Parked(drv[e].msg)'
  <2>. PICK m \in Approvals : m = drv[e].msg
    BY <1>6, MsgFacts
  <2>1. /\ appr[m].event = "queued" /\ appr[m].run \in Runs
        /\ appr[m].status \in {"approved", "rejected"}
    BY <1>6, MsgFacts
  <2>2. appr'[m] = appr[m] /\ (appr[m].run = r => appr[m].pc # run[r].cursor)
    BY <2>1, ParkAdds DEF Added
  <2>3. appr[m].run # r => (Parked(m)' <=> Parked(m))
    BY <1>1, <2>1, <2>2 DEF Parked, Waits, Writes
  <2>4. appr[m].run = r => ~ Parked(m)'
    BY <1>1, <2>2 DEF Parked, Waits, Writes
  <2>5. CASE e = d
    <3>1. drv'[d].at \in {"ack", "wake", "load"} /\ appr[m].run = r
          /\ drv[d].subs = {} /\ (drv'[d].at = "wake" => drv[d].subs # {})
      BY <1>1, <1>3, <1>6, <2>5 DEF Hands, Carries, HandPoints
    <3>2. drv'[d].at = "load" => drv'[d].run = r
      <4>1. drv'[d].at = "load" => drv'[d].run \in Runs
        BY TablesAfter DEF DriverShaped
      <4>. QED BY <1>1, <4>1 DEF Hands, Runs
    <3>. QED BY <1>2, <2>1, <2>2, <2>4, <2>5, <3>1, <3>2 DEF HandPoints
  <2>6. CASE e # d
    <3>1. drv'[e] = drv[e] /\ ~ Near(e, r)
      BY <1>1, <1>2, <2>6, HandedOver
    <3>2. drv[e].at = "deciding" => appr[m].run # r
      BY <1>3, <1>6, <3>1 DEF Carries, HandPoints, Near
    <3>. QED BY <1>3, <1>6, <2>1, <2>2, <2>3, <2>4, <3>1, <3>2 DEF Carries
  <2>. QED BY <2>5, <2>6
<1>. QED BY <1>2, <1>5, <1>6 DEF Carries

LEMMA ParkPlaced ==
  ASSUME GateInv, Owned, NEW d \in Drivers, Parks(d)
  PROVE  Placed'
<1>. DEFINE r == drv[d].run
            pc == run[r].cursor
<1>1. r \in Runs /\ Writes(r, "waiting", pc) /\ pc \in Nat
  BY ParkFinds
<1>2. /\ \A a \in Approvals : appr'[a] = appr[a] \/ Added(a, r, pc)
      /\ \A a, b \in Approvals : appr'[a] # appr[a] /\ appr'[b] # appr[b] => a = b
      /\ \A s \in Subs : sub'[s] = sub[s] \/ AddedSub(s, r, pc)
      /\ \A a \in Approvals :
           (appr[a].status # "absent" /\ appr[a].run = r) => appr[a].pc # pc
  BY ParkAdds
<1>3. \A q \in Runs : /\ run'[q].status # "queued"
                      /\ run[q].status # "absent" => run'[q].status # "absent"
  BY <1>1 DEF Writes, Owned, Placed
<1>4. \A s \in Subs : sub'[s].status # "absent" =>
        Op(sub'[s].pc) = "WAIT" /\ run'[sub'[s].run].status # "absent"
  BY <1>1, <1>2, <1>3, Tables DEF Owned, Placed, AddedSub, Writes, RowsShaped
<1>5. ASSUME NEW a \in Approvals, appr'[a].status # "absent"
      PROVE  /\ Op(appr'[a].pc) = IF appr'[a].kind = "human" THEN "HUMAN" ELSE "TOOL"
             /\ run'[appr'[a].run].status # "absent"
             /\ Behind(a)'
  <2>1. CASE Added(a, r, pc)
    BY <1>1, <2>1 DEF Added, Behind, Writes
  <2>2. CASE appr'[a] = appr[a] /\ appr[a].status # "absent"
    <3>1. appr[a].run \in Runs /\ Behind(a)
      BY <2>2, Tables DEF Owned, Placed, RowsShaped
    <3>2. Behind(a)'
      BY <1>1, <2>2, <3>1 DEF Behind, Writes
    <3>. QED BY <1>3, <2>2, <3>1, <3>2 DEF Owned, Placed
  <2>. QED BY <1>2, <1>5, <2>1, <2>2
<1>6. ASSUME NEW a \in Approvals, NEW b \in Approvals,
             appr'[a].status # "absent", appr'[b].status # "absent",
             appr'[a].run = appr'[b].run, appr'[a].pc = appr'[b].pc
      PROVE  a = b
  <2>1. /\ appr'[a] = appr[a] => appr[a].status # "absent"
        /\ appr'[b] = appr[b] => appr[b].status # "absent"
    BY <1>6
  <2>2. CASE appr'[a] = appr[a] /\ appr'[b] = appr[b]
    BY <1>6, <2>2 DEF Owned, Placed
  <2>3. CASE appr'[a] # appr[a] /\ appr'[b] # appr[b]
    BY <1>2, <2>3
  <2>4. CASE appr'[a] = appr[a] /\ appr'[b] # appr[b]
    BY <1>2, <1>6, <2>1, <2>4 DEF Added
  <2>5. CASE appr'[a] # appr[a] /\ appr'[b] = appr[b]
    BY <1>2, <1>6, <2>1, <2>5 DEF Added
  <2>. QED BY <2>2, <2>3, <2>4, <2>5
<1>. QED BY <1>3, <1>4, <1>5, <1>6 DEF Placed

LEMMA ParkOwned ==
  ASSUME GateInv, GateInv', Owned, NEW d \in Drivers, Parks(d)
  PROVE  Owned'
<1>. DEFINE r == drv[d].run
            pc == run[r].cursor
<1>1. /\ r \in Runs /\ Engaged(d, r) /\ Hands(d) /\ Agrees(d)'
      /\ ParkWait(d) => drv'[d].run = 0
      /\ Writes(r, "waiting", pc)
  BY ParkFinds
<1>2. /\ \A e \in Drivers, q \in Runs : /\ Near(e, q)' => Near(e, q)
                                        /\ Engaged(e, q)' => Engaged(e, q) /\ q # r
      /\ \A e \in Drivers \ {d} : Agrees(e)' /\ ~ Near(e, r)
      /\ \A e \in Drivers : drv'[e].msg = drv[e].msg /\ drv'[e].subs = drv[e].subs
      /\ \A e \in Drivers : drv'[e].at = "claim" <=> drv[e].at = "claim"
      /\ \A a \in Approvals, e \in Drivers : InHand(e, a)' <=> InHand(e, a)
  BY <1>1, HandedOver
<1>3. /\ \A a \in Approvals : appr'[a] = appr[a] \/ Added(a, r, pc)
      /\ \A s \in Subs : sub'[s] = sub[s] \/ (AddedSub(s, r, pc) /\ ParkWait(d))
      /\ \A s, t \in Subs : sub'[s] # sub[s] /\ sub'[t] # sub[t] => s = t
      /\ \A a \in Approvals :
           (appr[a].status # "absent" /\ appr[a].run = r) => appr[a].pc # pc
  BY ParkAdds
<1>4. Sole'
  BY <1>2 DEF Owned, Sole
<1>5. ASSUME NEW s \in Subs, OpenSub(s)', sub'[s] = sub[s]
      PROVE  /\ OpenSub(s) /\ sub[s].run \in Runs /\ sub[s].run # r
             /\ run'[sub[s].run] = run[sub[s].run]
  <2>1. OpenSub(s)
    BY <1>2, <1>5 DEF OpenSub
  <2>. QED BY <1>1, <2>1, OpenSubExists, EngagedFacts DEF Writes
<1>6. ASSUME NEW s \in Subs, OpenSub(s)'
      PROVE  Waits(sub[s].run, sub[s].pc)' /\ \A e \in Drivers : ~ Near(e, sub[s].run)'
  <2>1. CASE sub'[s] = sub[s]
    <3>1. /\ OpenSub(s) /\ sub[s].run \in Runs /\ run'[sub[s].run] = run[sub[s].run]
      BY <1>5, <1>6, <2>1
    <3>2. Waits(sub[s].run, sub[s].pc) /\ \A e \in Drivers : ~ Near(e, sub[s].run)
      BY <3>1 DEF Owned, Tickets
    <3>3. \A e \in Drivers : ~ (drv'[e].run = sub[s].run
                                /\ drv'[e].at \in HandPoints \cup {"load"})
      BY <1>2, <3>1, <3>2 DEF Near
    <3>. QED BY <2>1, <3>1, <3>2, <3>3 DEF Waits, Near
  <2>2. CASE AddedSub(s, r, pc) /\ ParkWait(d)
    <3>1. sub'[s].run = r /\ sub'[s].pc = pc
      BY <2>2 DEF AddedSub
    <3>2. \A e \in Drivers : ~ (drv'[e].run = r /\ drv'[e].at \in HandPoints \cup {"load"})
      <4>1. drv'[d].run # r
        BY <1>1, <2>2 DEF Runs
      <4>. QED BY <1>1, <1>2, <4>1 DEF Near
    <3>. QED BY <1>1, <3>1, <3>2 DEF Waits, Near, Writes
  <2>. QED BY <1>3, <2>1, <2>2
<1>7. ASSUME NEW a \in Approvals, Awaits(a)'
      PROVE  \A e \in Drivers : ~ Engaged(e, appr[a].run)'
  <2>1. CASE Added(a, r, pc)
    <3>1. appr'[a].run = r
      BY <2>1 DEF Added
    <3>2. \A e \in Drivers : ~ (/\ drv'[e].run = r /\ drv'[e].at \in HandPoints \cup {"load"}
                                /\ drv'[e].at = "load" => run'[r].status = "running")
      BY <1>1, <1>2 DEF Engaged, Near
    <3>. QED BY <3>1, <3>2 DEF Engaged, Near
  <2>2. CASE appr'[a] = appr[a]
    <3>1. OpenAppr(a)
      BY <1>2, <1>7, <2>2 DEF Awaits, OpenAppr
    <3>2. appr[a].status # "absent" /\ appr[a].run \in Runs
      BY <3>1, OpenApprExists
    <3>3. appr[a].run # r
      BY <1>1, <1>3, <1>7, <2>2, <3>2 DEF Awaits, Parked, Waits, Writes
    <3>4. run'[appr[a].run] = run[appr[a].run]
      BY <1>1, <3>2, <3>3 DEF Writes
    <3>5. Awaits(a)
      BY <1>7, <2>2, <3>1, <3>4 DEF Awaits, Parked, Waits
    <3>6. \A e \in Drivers : ~ Engaged(e, appr[a].run)
      BY <3>5 DEF Owned, Tickets
    <3>. QED BY <1>2, <2>2, <3>2, <3>6 DEF Engaged, Near
  <2>. QED BY <1>3, <2>1, <2>2
<1>8. ASSUME NEW s \in Subs, NEW t \in Subs,
             OpenSub(s)', OpenSub(t)', sub'[s].run = sub'[t].run
      PROVE  s = t
  <2>1. CASE sub'[s] = sub[s] /\ sub'[t] = sub[t]
    BY <1>5, <1>8, <2>1 DEF Owned, Tickets
  <2>2. CASE sub'[s] # sub[s] /\ sub'[t] # sub[t]
    BY <1>3, <2>2
  <2>3. CASE sub'[s] = sub[s] /\ sub'[t] # sub[t]
    BY <1>3, <1>5, <1>8, <2>3 DEF AddedSub
  <2>4. CASE sub'[s] # sub[s] /\ sub'[t] = sub[t]
    BY <1>3, <1>5, <1>8, <2>4 DEF AddedSub
  <2>. QED BY <2>1, <2>2, <2>3, <2>4
<1>9. Tickets'
  BY <1>6, <1>7, <1>8 DEF Tickets
<1>10. \A e \in Drivers : Agrees(e)' /\ Carries(e)'
  BY <1>1, <1>2, ParkCarries
<1>. QED BY <1>4, <1>9, <1>10, ParkPlaced DEF Owned

-----------------------------------------------------------------------------
(* The steps outside the loop that take no run                             *)

(* A step of driver d that writes no table and takes nothing up. *)
Quiet(d) ==
  /\ Untouched(d) /\ UNCHANGED <<run, appr, sub>>
  /\ drv'[d].at \notin HandPoints \cup {"load", "decide", "promoting"}
  /\ drv'[d].at = "idle" => drv'[d] = Idle
  /\ \A s \in drv'[d].subs : drv'[d].at # "claim" =>
       s \in drv[d].subs /\ drv[d].at # "claim"
  /\ drv'[d].msg = drv[d].msg
  /\ drv[d].msg # 0 => drv'[d].at = "ack" /\ ~ Parked(drv[d].msg)

LEMMA QuietKeeps ==
  ASSUME GateInv, GateInv', Owned, NEW d \in Drivers, Quiet(d)
  PROVE  Owned'
<1>1. \A e \in Drivers \ {d} : drv'[e] = drv[e]
  BY DEF Quiet, Untouched
<1>2. UNCHANGED <<run, appr, sub>>
  BY DEF Quiet
<1>3. \A e \in Drivers, r \in Runs : /\ Near(e, r)' => Near(e, r)
                                     /\ Engaged(e, r)' => Engaged(e, r)
  BY <1>1, <1>2 DEF Quiet, Near, Engaged
<1>4. \A e \in Drivers, s \in Subs :
        (s \in drv'[e].subs /\ drv'[e].at # "claim")
          => s \in drv[e].subs /\ drv[e].at # "claim"
  BY <1>1 DEF Quiet
<1>5. \A s \in Subs : OpenSub(s)' => OpenSub(s)
  BY <1>2, <1>4 DEF OpenSub
<1>6. ASSUME NEW a \in Approvals, Awaits(a)' PROVE Awaits(a)
  <2>1. Parked(a)
    BY <1>2, <1>6 DEF Awaits, Parked, Waits
  <2>2. OpenAppr(a)'
    BY <1>6 DEF Awaits
  <2>3. \A e \in Drivers : InHand(e, a) => InHand(e, a)'
    <3>1. \A e \in Drivers \ {d} : InHand(e, a) => InHand(e, a)'
      BY <1>1 DEF InHand
    <3>2. InHand(d, a) => InHand(d, a)'
      BY ProgramFacts DEF InHand, Quiet
    <3>. QED BY <3>1, <3>2
  <2>. QED BY <1>2, <2>1, <2>2, <2>3 DEF Awaits, OpenAppr
<1>7. Shrinks
  BY <1>2, <1>3, <1>5, <1>6, OpenSubExists DEF Shrinks
<1>8. \A e \in Drivers \ {d} : Agrees(e)' /\ Carries(e)'
  BY <1>1, <1>2 DEF Owned, Agrees, Carries, Parked, Waits, Cleared
<1>9. Agrees(d)'
  BY DEF Quiet, Agrees, HandPoints
<1>10. Carries(d)'
  <2>1. Carries(d)
    BY DEF Owned
  <2>2. drv'[d].at # "claim" => \A s \in drv'[d].subs : sub'[s].status # "pending"
    BY <1>2, <2>1 DEF Quiet, Carries
  <2>3. ASSUME drv'[d].msg # 0
        PROVE  /\ drv'[d].subs = {} /\ drv'[d].at = "ack"
               /\ appr'[drv'[d].msg].event = "queued" /\ ~ Parked(drv[d].msg)'
    <3>1. drv[d].msg # 0 /\ drv'[d].msg = drv[d].msg
      BY <2>3 DEF Quiet
    <3>2. drv'[d].at = "ack" /\ ~ Parked(drv[d].msg) /\ drv[d].subs = {}
          /\ appr[drv[d].msg].event = "queued"
      BY <2>1, <3>1 DEF Quiet, Carries
    <3>3. drv'[d].subs = {}
      BY <3>2 DEF Quiet
    <3>4. ~ Parked(drv[d].msg)'
      BY <1>2, <3>1, <3>2 DEF Parked, Waits
    <3>. QED BY <1>2, <3>1, <3>2, <3>3, <3>4
  <2>. QED BY <2>2, <2>3 DEF Carries, HandPoints
<1>11. Placed'
  BY <1>2 DEF Owned, Placed, Behind
<1>12. Sole'
  <2>1. \A e \in Drivers : drv'[e].msg = drv[e].msg
    BY <1>1 DEF Quiet
  <2>. QED BY <1>4, <1>7, <2>1, ShrinkingKeeps DEF Owned, Sole
<1>. QED BY <1>7, <1>8, <1>9, <1>10, <1>11, <1>12, ShrinkingKeeps DEF Owned

(* The steps that return, and those that pick up something to claim or a   *)
(* run to start.                                                           *)
Leaves(d) ==
  \/ Load(d) /\ run[drv[d].run].status # "running"
  \/ Drop(d) \/ PickQueued(d)

(* No run is queued, so a completed run promotes nobody. *)
LEMMA LeavesReturns ==
  ASSUME GateInv, Owned, Setting, NEW d \in Drivers, Leaves(d)
  PROVE  /\ Return(d) /\ UNCHANGED <<run, done, appr, sub, fired, undone, mishaps>>
         /\ drv[d].at \in {"load", "insert", "promote"}
         /\ drv[d].at = "load" => run[drv[d].run].status # "running"
<1>1. CASE PickQueued(d)
  BY <1>1 DEF PickQueued, At, Owned, Placed
<1>2. CASE Drop(d)
  BY <1>2 DEF Drop, At
<1>3. CASE Load(d) /\ run[drv[d].run].status # "running"
  BY <1>3 DEF Load, At
<1>. QED BY <1>1, <1>2, <1>3 DEF Leaves

LEMMA LeavesOwned ==
  ASSUME GateInv, GateInv', Owned, Setting, NEW d \in Drivers, Leaves(d)
  PROVE  Owned'
<1>1. Return(d) /\ UNCHANGED <<run, appr, sub>> /\ drv[d].at \in {"load", "insert", "promote"}
  BY LeavesReturns
<1>2. /\ Untouched(d) /\ drv'[d].at = IF drv[d].subs = {} THEN "ack" ELSE "wake"
      /\ drv'[d].subs = drv[d].subs /\ drv'[d].msg = drv[d].msg
  BY <1>1, ReturnGives
<1>3. drv[d].msg # 0 => drv[d].subs = {} /\ ~ Parked(drv[d].msg)
  BY <1>1 DEF Owned, Carries, Deciding
<1>4. Quiet(d)
  BY <1>1, <1>2, <1>3 DEF Quiet, HandPoints
<1>. QED BY <1>4, QuietKeeps

(* An idle driver holds nothing. *)
LEMMA IdleFacts ==
  ASSUME Owned, NEW d \in Drivers, drv[d].at = "idle"
  PROVE  /\ drv[d].run = 0 /\ drv[d].msg = 0 /\ drv[d].subs = {} /\ drv[d].count = 0
         /\ drv[d].live = {}
BY DEF Owned, Agrees, Idle

Sees(d) == StartRun(d) \/ SeeReply(d) \/ SeeDue(d)

LEMMA SeesMoves ==
  ASSUME GateInv, Owned, NEW d \in Drivers, Sees(d)
  PROVE  /\ Untouched(d) /\ UNCHANGED <<run, done, appr, sub, fired, undone, mishaps>>
         /\ drv[d].at = "idle" /\ drv'[d].at \in {"insert", "claim"}
         /\ drv'[d].msg = 0 /\ drv'[d].run = 0 /\ drv'[d].count = 0
         /\ drv'[d].at = "insert" => StartRun(d) /\ drv'[d].subs = {}
<1>1. drv[d].at = "idle" /\ UNCHANGED <<run, done, appr, sub, fired, undone, mishaps>>
  BY DEF Sees, StartRun, SeeReply, SeeDue, At
<1>2. drv[d].run = 0 /\ drv[d].msg = 0 /\ drv[d].subs = {} /\ drv[d].count = 0
  BY <1>1, IdleFacts
<1>3. CASE StartRun(d)
  <2>1. \E L : drv' = [drv EXCEPT ![d].at = "insert", ![d].live = L]
    BY <1>3 DEF StartRun
  <2>2. PICK L : drv' = [drv EXCEPT ![d] = [drv[d] EXCEPT !.at = "insert", !.live = L]]
    BY <2>1, Tables
  <2>. QED BY <1>1, <1>2, <1>3, <2>2, Tables DEF Untouched, DriverStates
<1>4. CASE SeeReply(d) \/ SeeDue(d)
  <2>1. \E S : drv' = [drv EXCEPT ![d].at = "claim", ![d].subs = S]
    BY <1>4 DEF SeeReply, SeeDue
  <2>2. PICK S : drv' = [drv EXCEPT ![d] = [drv[d] EXCEPT !.at = "claim", !.subs = S]]
    BY <2>1, Tables
  <2>. QED BY <1>1, <1>2, <2>2, Tables DEF Untouched, DriverStates
<1>. QED BY <1>3, <1>4 DEF Sees

LEMMA SeesOwned ==
  ASSUME GateInv, GateInv', Owned, NEW d \in Drivers, Sees(d)
  PROVE  Owned'
<1>1. drv[d].msg = 0
  BY SeesMoves, IdleFacts
<1>2. Quiet(d)
  BY <1>1, SeesMoves DEF Quiet, HandPoints
<1>. QED BY <1>2, QuietKeeps

(* A step of driver d, or of a reviewer, that changes no run, brings nobody *)
(* near a run and opens no ticket keeps who owns what, if the driver is     *)
(* left consistent.                                                         *)
LEMMA ApartKeeps ==
  ASSUME GateInv, Owned, Shrinks, UNCHANGED run,
         \A e \in Drivers : Agrees(e)' /\ Carries(e)',
         \A s \in Subs : sub'[s].run = sub[s].run /\ sub'[s].pc = sub[s].pc
                         /\ (sub'[s].status = "absent" <=> sub[s].status = "absent"),
         \A a \in Approvals : /\ appr'[a].run = appr[a].run /\ appr'[a].pc = appr[a].pc
                              /\ appr'[a].kind = appr[a].kind
                              /\ appr'[a].status = "absent" <=> appr[a].status = "absent",
         \A d, e \in Drivers : (drv'[d].msg = drv'[e].msg /\ drv'[d].msg # 0) => d = e,
         \A d, e \in Drivers, s \in Subs :
           (/\ s \in drv'[d].subs /\ drv'[d].at # "claim"
            /\ s \in drv'[e].subs /\ drv'[e].at # "claim") => d = e
  PROVE  Owned'
<1>1. \A a \in Approvals : appr[a].status # "absent" => Behind(a)'
  BY DEF Owned, Placed, Behind
<1>2. Placed'
  BY <1>1 DEF Owned, Placed
<1>3. Sole' /\ Tickets'
  BY ShrinkingKeeps DEF Owned, Sole
<1>. QED BY <1>2, <1>3 DEF Owned

LEMMA TakeDecisionOwned ==
  ASSUME GateInv, GateInv', Owned, NEW d \in Drivers, NEW a \in Approvals,
         TakeDecision(d, a)
  PROVE  Owned'
<1>1. /\ drv[d].at = "idle" /\ appr[a].event = "queued"
      /\ \A e \in Drivers : drv[e].msg # a
      /\ UNCHANGED <<run, appr, sub>>
  BY DEF TakeDecision, At
<1>2. drv' = [drv EXCEPT ![d] = [drv[d] EXCEPT !.at = "decide", !.msg = a,
                                               !.run = appr[a].run]]
  BY Tables DEF TakeDecision
<1>3. /\ Untouched(d) /\ drv'[d].at = "decide" /\ drv'[d].msg = a /\ drv'[d].subs = {}
  BY <1>1, <1>2, IdleFacts, Tables DEF Untouched, DriverStates
<1>4. \A e \in Drivers \ {d} : drv'[e] = drv[e]
  BY <1>3 DEF Untouched
<1>5. \A e \in Drivers, r \in Runs : /\ Near(e, r)' => Near(e, r)
                                     /\ Engaged(e, r)' => Engaged(e, r)
  BY <1>1, <1>3, <1>4 DEF Near, Engaged, HandPoints
<1>6. \A s \in Subs : OpenSub(s)' => OpenSub(s)
  BY <1>1, <1>3, <1>4 DEF OpenSub
<1>7. ASSUME NEW b \in Approvals PROVE Awaits(b)' => Awaits(b)
  <2>1. ~ InHand(d, b)
    BY <1>1, IdleFacts, ProgramFacts DEF InHand
  <2>2. \A e \in Drivers \ {d} : InHand(e, b)' <=> InHand(e, b)
    BY <1>4 DEF InHand
  <2>. QED BY <1>1, <2>1, <2>2 DEF Awaits, OpenAppr, Parked, Waits
<1>8. Shrinks
  BY <1>1, <1>5, <1>6, <1>7, OpenSubExists DEF Shrinks
<1>9. \A e \in Drivers : Agrees(e)'
  BY <1>1, <1>3, <1>4 DEF Owned, Agrees, Cleared
<1>10. \A e \in Drivers : Carries(e)'
  BY <1>1, <1>3, <1>4 DEF Owned, Carries, Parked, Waits, HandPoints
<1>11. /\ \A e, f \in Drivers : (drv'[e].msg = drv'[f].msg /\ drv'[e].msg # 0) => e = f
       /\ \A e, f \in Drivers, s \in Subs :
            (/\ s \in drv'[e].subs /\ drv'[e].at # "claim"
             /\ s \in drv'[f].subs /\ drv'[f].at # "claim") => e = f
  BY <1>1, <1>3, <1>4 DEF Owned, Sole
<1>. QED BY <1>1, <1>8, <1>9, <1>10, <1>11, ApartKeeps

LEMMA AckOwned ==
  ASSUME GateInv, GateInv', Owned, NEW d \in Drivers, Ack(d)
  PROVE  Owned'
<1>. DEFINE m == drv[d].msg
<1>1. /\ drv[d].at = "ack" /\ drv' = [drv EXCEPT ![d] = Idle] /\ UNCHANGED <<run, sub>>
      /\ IF m = 0 THEN UNCHANGED appr ELSE appr' = [appr EXCEPT ![m].event = "handled"]
  BY DEF Ack, At
<1>2. drv'[d] = Idle /\ \A e \in Drivers \ {d} : drv'[e] = drv[e]
  BY <1>1, Tables
<1>3. \A a \in Approvals :
        /\ appr'[a].run = appr[a].run /\ appr'[a].pc = appr[a].pc
        /\ appr'[a].kind = appr[a].kind /\ appr'[a].status = appr[a].status
        /\ appr'[a].event = appr[a].event \/ (a = m /\ appr'[a].event = "handled")
  BY <1>1, Tables DEF ApprovalRows
<1>4. m # 0 => appr[m].status # "pending"
  BY MsgFacts
<1>5. \A e \in Drivers, r \in Runs : /\ Near(e, r)' => Near(e, r)
                                     /\ Engaged(e, r)' => Engaged(e, r)
  BY <1>1, <1>2 DEF Near, Engaged, HandPoints, Idle
<1>6. \A s \in Subs : OpenSub(s)' => OpenSub(s)
  BY <1>1, <1>2 DEF OpenSub, Idle
<1>7. ASSUME NEW a \in Approvals, Awaits(a)' PROVE Awaits(a)
  <2>1. Parked(a)
    BY <1>1, <1>3, <1>7 DEF Awaits, Parked, Waits
  <2>2. CASE appr[a].status = "pending"
    BY <2>1, <2>2 DEF Awaits, OpenAppr
  <2>3. CASE appr[a].status # "pending"
    <3>1. appr'[a].event = "queued" /\ \A e \in Drivers : ~ InHand(e, a)'
      BY <1>3, <1>7, <2>3 DEF Awaits, OpenAppr
    <3>2. a # m \/ m = 0
      <4>1. CASE m # 0 /\ a = m
        BY <1>1, <3>1, <4>1, Tables DEF ApprovalRows
      <4>. QED BY <4>1
    <3>3. appr[a].event = "queued" /\ a # m
      BY <1>3, <3>1, <3>2, ProgramFacts
    <3>4. \A e \in Drivers : ~ InHand(e, a)
      BY <1>2, <3>1, <3>3 DEF InHand
    <3>. QED BY <2>1, <3>3, <3>4 DEF Awaits, OpenAppr
  <2>. QED BY <2>2, <2>3
<1>8. Shrinks
  BY <1>1, <1>3, <1>5, <1>6, <1>7, OpenSubExists DEF Shrinks
<1>9. \A e \in Drivers : Agrees(e)'
  <2>1. Agrees(d)'
    BY <1>2 DEF Agrees, Idle
  <2>2. \A e \in Drivers \ {d} : Agrees(e)'
    BY <1>1, <1>2 DEF Owned, Agrees, Cleared
  <2>. QED BY <2>1, <2>2
<1>10. ASSUME NEW e \in Drivers PROVE Carries(e)'
  <2>1. CASE e = d
    BY <1>2, <2>1 DEF Carries, Idle
  <2>2. CASE e # d
    <3>1. drv'[e] = drv[e] /\ Carries(e) /\ (drv[e].msg # 0 => drv[e].msg # m)
      BY <1>2, <2>2 DEF Owned, Sole
    <3>2. drv[e].msg # 0 => drv[e].msg \in Approvals
      BY MsgFacts
    <3>. QED BY <1>1, <1>3, <3>1, <3>2 DEF Carries, Parked, Waits
  <2>. QED BY <2>1, <2>2
<1>11. /\ \A e, f \in Drivers : (drv'[e].msg = drv'[f].msg /\ drv'[e].msg # 0) => e = f
       /\ \A e, f \in Drivers, s \in Subs :
            (/\ s \in drv'[e].subs /\ drv'[e].at # "claim"
             /\ s \in drv'[f].subs /\ drv'[f].at # "claim") => e = f
  BY <1>2 DEF Owned, Sole, Idle
<1>. QED BY <1>1, <1>3, <1>8, <1>9, <1>10, <1>11, ApartKeeps

LEMMA DecideChanges ==
  ASSUME GateInv, NEW a \in Approvals, Resolve(a) \/ Expire(a)
  PROVE  /\ UNCHANGED <<run, sub, drv, fired, undone, mishaps>>
         /\ appr[a].status = "pending"
         /\ \A b \in Approvals \ {a} : appr'[b] = appr[b]
         /\ appr'[a].run = appr[a].run /\ appr'[a].pc = appr[a].pc
         /\ appr'[a].kind = appr[a].kind
         /\ \/ appr'[a].status \in {"approved", "rejected"} /\ appr'[a].event = "queued"
            \/ appr'[a].status = "expired" /\ appr'[a].event = appr[a].event
<1>1. CASE Resolve(a)
  <2>1. PICK st \in {"approved", "rejected"} :
          appr' = [appr EXCEPT ![a].status = st, ![a].event = "queued"]
    BY <1>1 DEF Resolve
  <2>. QED BY <1>1, <2>1, Tables DEF Resolve, ApprovalRows
<1>2. CASE Expire(a)
  BY <1>2, Tables DEF Expire, ApprovalRows
<1>. QED BY <1>1, <1>2

LEMMA DecideOwned ==
  ASSUME GateInv, GateInv', Owned, NEW a \in Approvals, Resolve(a) \/ Expire(a)
  PROVE  Owned'
<1>1. appr[a].status = "pending" /\ UNCHANGED <<run, sub, drv>>
  BY DecideChanges
<1>2. /\ \A b \in Approvals \ {a} : appr'[b] = appr[b]
      /\ appr'[a].run = appr[a].run /\ appr'[a].pc = appr[a].pc
      /\ appr'[a].kind = appr[a].kind /\ appr'[a].status \notin {"absent", "pending"}
  BY DecideChanges
<1>3. \A b \in Approvals : Awaits(b)' => Awaits(b)
  BY <1>1, <1>2 DEF Awaits, OpenAppr, InHand, Parked, Waits
<1>4. Shrinks
  BY <1>1, <1>2, <1>3, OpenSubExists DEF Shrinks, Near, Engaged, OpenSub
<1>5. \A e \in Drivers : Agrees(e)'
  BY <1>1 DEF Owned, Agrees, Cleared
<1>6. ASSUME NEW e \in Drivers PROVE Carries(e)'
  <2>1. drv[e].msg # 0 => drv[e].msg \in Approvals \ {a}
    BY <1>1, MsgFacts
  <2>. QED BY <1>1, <1>2, <2>1 DEF Owned, Carries, Parked, Waits
<1>. QED BY <1>1, <1>2, <1>4, <1>5, <1>6, ApartKeeps DEF Owned, Sole

(* A claim that goes right takes pending subscriptions, which nobody held. *)
LEMMA ClaimOwned ==
  ASSUME GateInv, GateInv', Owned, NEW d \in Drivers, Claim(d), drv[d].subs \subseteq Pending
  PROVE  Owned'
<1>1. drv[d].at = "claim" /\ UNCHANGED <<run, appr>> /\ Go(d, "wake")
  BY DEF Claim, At
<1>2. /\ \A e \in Drivers \ {d} : drv'[e] = drv[e]
      /\ drv'[d].at = "wake" /\ drv'[d].run = drv[d].run
      /\ drv'[d].subs = drv[d].subs /\ drv'[d].msg = drv[d].msg
  BY <1>1, GoGives DEF Untouched
<1>3. \A s \in Subs :
        /\ sub'[s].run = sub[s].run /\ sub'[s].pc = sub[s].pc
        /\ s \in drv[d].subs => sub'[s].status \in {"matched", "expired"}
        /\ s \notin drv[d].subs => sub'[s] = sub[s]
  BY Tables DEF Claim, SubscriptionRows
<1>4. \A s \in drv[d].subs : s \in Subs /\ sub[s].status = "pending"
  BY DEF Pending
<1>5. drv[d].msg = 0
  BY <1>1 DEF Owned, Carries
<1>6. \A e \in Drivers, r \in Runs : /\ Near(e, r)' => Near(e, r)
                                     /\ Engaged(e, r)' => Engaged(e, r)
  BY <1>1, <1>2 DEF Near, Engaged, HandPoints
<1>7. \A s \in Subs : OpenSub(s)' => OpenSub(s)
  BY <1>2, <1>3, <1>4 DEF OpenSub
<1>8. \A a \in Approvals : Awaits(a)' => Awaits(a)
  <2>1. \A a \in Approvals, e \in Drivers : InHand(e, a) => InHand(e, a)'
    BY <1>1, <1>2 DEF InHand
  <2>. QED BY <1>1, <2>1 DEF Awaits, OpenAppr, Parked, Waits
<1>9. Shrinks
  BY <1>1, <1>3, <1>6, <1>7, <1>8, OpenSubExists DEF Shrinks
<1>10. \A e \in Drivers : Agrees(e)'
  BY <1>1, <1>2 DEF Owned, Agrees, HandPoints, Cleared
<1>11. ASSUME NEW e \in Drivers PROVE Carries(e)'
  <2>1. CASE e = d
    <3>1. \A s \in drv[d].subs : sub'[s].status # "pending"
      BY <1>3, <1>4
    <3>. QED BY <1>2, <1>5, <2>1, <3>1 DEF Carries
  <2>2. CASE e # d
    <3>1. \A s \in drv[e].subs : s \in Subs
      BY Tables DEF DriverStates
    <3>2. drv[e].at # "claim" => \A s \in drv[e].subs : sub'[s].status # "pending"
      BY <1>3, <3>1 DEF Owned, Carries
    <3>. QED BY <1>1, <1>2, <2>2, <3>2 DEF Owned, Carries, Parked, Waits
  <2>. QED BY <2>1, <2>2
<1>12. ASSUME NEW e \in Drivers, NEW f \in Drivers, NEW s \in Subs,
              s \in drv'[e].subs, drv'[e].at # "claim",
              s \in drv'[f].subs, drv'[f].at # "claim"
       PROVE  e = f
  <2>1. \A g \in Drivers : (s \in drv'[g].subs /\ drv'[g].at # "claim") =>
          s \in drv[g].subs /\ (g # d => drv[g].at # "claim" /\ sub[s].status # "pending")
    BY <1>2 DEF Owned, Carries
  <2>2. s \in drv[d].subs => sub[s].status = "pending"
    BY <1>4
  <2>. QED BY <1>12, <2>1, <2>2 DEF Owned, Sole
<1>13. \A e, f \in Drivers : (drv'[e].msg = drv'[f].msg /\ drv'[e].msg # 0) => e = f
  BY <1>2 DEF Owned, Sole
<1>14. \A s \in Subs : sub'[s].status = "absent" <=> sub[s].status = "absent"
  BY <1>3, <1>4
<1>. QED BY <1>1, <1>3, <1>9, <1>10, <1>11, <1>12, <1>13, <1>14, ApartKeeps

-----------------------------------------------------------------------------
(* The steps that take a run                                               *)

(* Driver d takes run r, which nobody is near: the ticket that let it do   *)
(* so is gone, and no other is open for r.                                 *)
Takes(d, r) ==
  /\ Untouched(d) /\ UNCHANGED <<appr, sub>> /\ r \in Runs
  /\ \A q \in Runs \ {r} : run'[q] = run[q]
  /\ \A e \in Drivers : ~ Near(e, r)
  /\ drv'[d].run = r /\ drv'[d].msg = drv[d].msg
  /\ drv'[d].at \in {"load", "waking", "deciding"}
  /\ drv'[d].subs \subseteq drv[d].subs /\ drv[d].at # "claim"
  /\ \A s \in Subs : OpenSub(s)' => sub[s].run # r
  /\ \A a \in Approvals : Awaits(a)' => appr[a].run # r
  /\ drv[d].msg # 0 => ~ InHand(d, drv[d].msg)

LEMMA TakesKeeps ==
  ASSUME GateInv, GateInv', Owned, NEW d \in Drivers, NEW r \in Runs, Takes(d, r),
         Agrees(d)', Carries(d)', Placed',
         \A e \in Drivers : drv[e].msg # 0 /\ e # d => appr[drv[e].msg].run # r \/ run'[r] = run[r]
  PROVE  Owned'
<1>1. \A e \in Drivers \ {d} : drv'[e] = drv[e]
  BY DEF Takes, Untouched
<1>2. UNCHANGED <<appr, sub>> /\ \A e \in Drivers : ~ Near(e, r)
  BY DEF Takes
<1>3. \A e \in Drivers \ {d} : drv[e].at \in HandPoints \cup {"load"} =>
        drv[e].run \in Runs /\ run'[drv[e].run] = run[drv[e].run]
  BY <1>2, NearHasRun DEF Takes, Near
<1>4. \A e \in Drivers \ {d} : Agrees(e)'
  BY <1>1, <1>3 DEF Owned, Agrees, HandPoints, Cleared
<1>5. ASSUME NEW e \in Drivers \ {d} PROVE Carries(e)'
  <2>1. drv[e].msg # 0 => drv[e].msg \in Approvals /\ appr[drv[e].msg].run \in Runs
    BY MsgFacts
  <2>2. drv[e].msg # 0 => run'[appr[drv[e].msg].run] = run[appr[drv[e].msg].run]
    BY <2>1 DEF Takes
  <2>. QED BY <1>1, <1>2, <2>1, <2>2 DEF Owned, Carries, Parked, Waits
<1>6. \A e \in Drivers \ {d}, q \in Runs :
        /\ Near(e, q)' => Near(e, q) /\ q # r
        /\ Engaged(e, q)' => Engaged(e, q) /\ q # r
  BY <1>1, <1>2, <1>3 DEF Engaged, Near
<1>7. \A q \in Runs : Near(d, q)' => q = r
  BY DEF Takes, Near
<1>8. Sole'
  <2>1. \A e, f \in Drivers, q \in Runs : (Engaged(e, q)' /\ Near(f, q)') => e = f
    BY <1>6, <1>7 DEF Owned, Sole, Engaged
  <2>2. \A e, f \in Drivers : (drv'[e].msg = drv'[f].msg /\ drv'[e].msg # 0) => e = f
    BY <1>1 DEF Owned, Sole, Takes
  <2>3. \A e \in Drivers, s \in Subs : (s \in drv'[e].subs /\ drv'[e].at # "claim")
          => s \in drv[e].subs /\ drv[e].at # "claim"
    BY <1>1 DEF Takes
  <2>. QED BY <2>1, <2>2, <2>3 DEF Owned, Sole
<1>9. ASSUME NEW s \in Subs, OpenSub(s)'
      PROVE  OpenSub(s) /\ sub[s].run \in Runs \ {r} /\ run'[sub[s].run] = run[sub[s].run]
  <2>1. OpenSub(s)
    BY <1>1, <1>2, <1>9 DEF OpenSub, Takes
  <2>. QED BY <1>9, <2>1, OpenSubExists DEF Takes
<1>10. ASSUME NEW a \in Approvals, Awaits(a)'
       PROVE  Awaits(a) /\ appr[a].run \in Runs \ {r}
  <2>1. OpenAppr(a)
    <3>1. \A e \in Drivers : InHand(e, a) => InHand(e, a)'
      <4>1. \A e \in Drivers \ {d} : InHand(e, a) => InHand(e, a)'
        BY <1>1 DEF InHand
      <4>2. InHand(d, a) => InHand(d, a)'
        BY ProgramFacts DEF InHand, Takes
      <4>. QED BY <4>1, <4>2
    <3>. QED BY <1>2, <1>10, <3>1 DEF Awaits, OpenAppr
  <2>2. appr[a].run \in Runs /\ appr[a].run # r
    BY <1>10, <2>1, OpenApprExists DEF Takes
  <2>3. Parked(a)
    BY <1>2, <1>10, <2>2 DEF Awaits, Parked, Waits, Takes
  <2>. QED BY <2>1, <2>2, <2>3 DEF Awaits
<1>11. Tickets'
  <2>1. ASSUME NEW s \in Subs, OpenSub(s)'
        PROVE  Waits(sub[s].run, sub[s].pc)' /\ \A e \in Drivers : ~ Near(e, sub[s].run)'
    <3>1. Waits(sub[s].run, sub[s].pc) /\ \A e \in Drivers : ~ Near(e, sub[s].run)
      BY <1>9, <2>1 DEF Owned, Tickets
    <3>2. \A e \in Drivers : ~ (drv'[e].run = sub[s].run /\ drv'[e].at \in HandPoints \cup {"load"})
      <4>1. drv'[d].run # sub[s].run
        BY <1>9, <2>1 DEF Takes
      <4>. QED BY <1>1, <3>1, <4>1 DEF Near
    <3>. QED BY <1>2, <1>9, <2>1, <3>1, <3>2 DEF Waits, Near
  <2>2. ASSUME NEW a \in Approvals, Awaits(a)'
        PROVE  \A e \in Drivers : ~ Engaged(e, appr[a].run)'
    <3>1. /\ \A e \in Drivers : ~ Engaged(e, appr[a].run)
          /\ appr[a].run \in Runs \ {r} /\ run'[appr[a].run] = run[appr[a].run]
      BY <1>10, <2>2 DEF Owned, Tickets, Takes
    <3>2. \A e \in Drivers :
            ~ (/\ drv'[e].run = appr[a].run /\ drv'[e].at \in HandPoints \cup {"load"}
               /\ drv'[e].at = "load" => run'[appr[a].run].status = "running")
      <4>1. drv'[d].run # appr[a].run
        BY <3>1 DEF Takes
      <4>. QED BY <1>1, <3>1, <4>1 DEF Near, Engaged
    <3>. QED BY <1>2, <3>2 DEF Engaged, Near
  <2>3. \A s, t \in Subs : (OpenSub(s)' /\ OpenSub(t)' /\ sub'[s].run = sub'[t].run) => s = t
    BY <1>2, <1>9 DEF Owned, Tickets
  <2>. QED BY <2>1, <2>2, <2>3 DEF Tickets
<1>. QED BY <1>4, <1>5, <1>8, <1>11 DEF Owned

(* The parked branch of resume_human's and resume_tool's SELECT, when the  *)
(* run is parked on the step the decision is about and its driver has left. *)
LEMMA LoadToDecideOwned ==
  ASSUME GateInv, GateInv', Owned, NEW d \in Drivers, LoadToDecide(d), Orderly'
  PROVE  Owned'
<1>. PICK r \in Runs, m \in Approvals :
       /\ r = drv[d].run /\ m = drv[d].msg /\ r = appr[m].run
       /\ appr[m].status \in {"approved", "rejected"}
  BY Tables DEF LoadToDecide, At, DriverShaped
<1>1. drv[d].at = "decide" /\ UNCHANGED <<run, appr, sub>> /\ m # 0
  BY ProgramFacts DEF LoadToDecide, At
<1>2. appr[m].event = "queued" /\ drv[d].subs = {}
  BY <1>1 DEF Owned, Carries
<1>3. OpenAppr(m)
  <2>1. \A e \in Drivers : drv[e].msg = m => e = d
    BY <1>1 DEF Owned, Sole
  <2>. QED BY <1>1, <1>2, <2>1 DEF OpenAppr, InHand
<1>4. CASE run[r].status # "waiting"
  <2>1. Return(d)
    BY <1>4 DEF LoadToDecide
  <2>2. Untouched(d) /\ drv'[d].at = "ack" /\ drv'[d].subs = {} /\ drv'[d].msg = m
    BY <1>2, <2>1, ReturnGives
  <2>3. ~ Parked(m)
    BY <1>4 DEF Parked, Waits
  <2>4. Quiet(d)
    BY <1>1, <2>2, <2>3 DEF Quiet, HandPoints
  <2>. QED BY <2>4, QuietKeeps
<1>5. CASE run[r].status = "waiting"
  <2>1. drv' = [drv EXCEPT ![d] = [drv[d] EXCEPT !.at = "deciding", !.row = run[r]]]
    BY <1>5, Tables DEF LoadToDecide
  <2>2. /\ Untouched(d) /\ drv'[d].at = "deciding" /\ drv'[d].row = run[r]
        /\ drv'[d].run = r /\ drv'[d].msg = m /\ drv'[d].subs = {}
    BY <1>2, <2>1, Tables DEF Untouched, DriverStates
  <2>3. /\ run[r].cursor = appr[m].pc
        /\ \A e \in Drivers : ~ (drv[e].at = "load" /\ drv[e].run = r)
    <3>1. run[r].cursor # appr[m].pc => mishaps' = mishaps \cup {"stray decision"}
      BY <1>5 DEF LoadToDecide, Record
    <3>2. run[r].cursor = appr[m].pc => Record("early decision",
            \E e \in Drivers : At(e, "load") /\ drv[e].run = r)
      BY <1>5 DEF LoadToDecide
    <3>. QED BY <3>1, <3>2 DEF Orderly, Handovers, Record, At
  <2>4. Parked(m) /\ Awaits(m)
    BY <1>3, <1>5, <2>3 DEF Parked, Waits, Awaits
  <2>5. \A e \in Drivers : ~ Near(e, r)
    BY <2>3, <2>4 DEF Owned, Tickets, Engaged, Near
  <2>6. ASSUME NEW s \in Subs, OpenSub(s)' PROVE sub[s].run # r
    <3>1. OpenSub(s)
      BY <1>1, <2>2, <2>6 DEF OpenSub, Untouched
    <3>2. sub[s].run = r => /\ Op(run[r].cursor) = "WAIT"
      BY <3>1, OpenSubExists DEF Owned, Tickets, Placed, Waits
    <3>3. Op(run[r].cursor) # "WAIT"
      BY <2>3 DEF Owned, Placed
    <3>. QED BY <3>2, <3>3
  <2>7. ASSUME NEW a \in Approvals, Awaits(a)' PROVE appr[a].run # r
    <3>1. a # m
      BY <1>1, <2>2, <2>7 DEF Awaits, OpenAppr, InHand
    <3>2. appr[a].status # "absent"
      BY <1>1, <2>7, TablesAfter DEF Awaits, OpenAppr, RowsShaped
    <3>3. appr[a].run = r => appr[a].pc = run[r].cursor
      BY <1>1, <2>7 DEF Awaits, Parked, Waits
    <3>. QED BY <2>3, <3>1, <3>2, <3>3 DEF Owned, Placed
  <2>8. Takes(d, r)
    BY <1>1, <1>2, <2>2, <2>5, <2>6, <2>7 DEF Takes, InHand
  <2>9. Agrees(d)'
    BY <1>1, <1>5, <2>2 DEF Agrees
  <2>10. Carries(d)'
    BY <1>1, <1>2, <2>2, <2>4 DEF Carries, Parked, Waits, Deciding
  <2>11. Placed'
    BY <1>1 DEF Owned, Placed, Behind
  <2>. QED BY <1>1, <2>8, <2>9, <2>10, <2>11, TakesKeeps
<1>. QED BY <1>4, <1>5

(* wake_run's SELECT finds the run parked on the wait the claimed          *)
(* subscription was made for.                                              *)
LEMMA WakeFinds ==
  ASSUME GateInv, Owned, NEW d \in Drivers, LoadToWake(d)
  PROVE  \E s \in Subs : LET r == sub[s].run IN
           /\ s \in drv[d].subs /\ r \in Runs /\ OpenSub(s)
           /\ run[r].status = "waiting" /\ run[r].cursor = sub[s].pc
           /\ Op(run[r].cursor) = "WAIT" /\ sub[s].status # "pending"
           /\ drv[d].at = "wake" /\ drv[d].msg = 0 /\ UNCHANGED <<run, appr, sub>>
           /\ Untouched(d) /\ drv'[d].at = "waking" /\ drv'[d].run = r
           /\ drv'[d].row = run[r] /\ drv'[d].subs = drv[d].subs \ {s}
           /\ drv'[d].msg = 0 /\ drv'[d].count = drv[d].count
<1>1. drv[d].at = "wake" /\ UNCHANGED <<run, appr, sub>>
  BY DEF LoadToWake, At
<1>2. drv[d].msg = 0
  BY <1>1 DEF Owned, Carries
<1>3. \A s \in drv[d].subs : s \in Subs /\ OpenSub(s) /\ sub[s].status # "pending"
  BY <1>1, Tables DEF OpenSub, DriverStates, Owned, Carries
<1>4. \A s \in drv[d].subs :
        /\ sub[s].run \in Runs /\ run[sub[s].run].status = "waiting"
        /\ run[sub[s].run].cursor = sub[s].pc /\ Op(sub[s].pc) = "WAIT"
  BY <1>3, OpenSubExists DEF Owned, Tickets, Waits, Placed
<1>5. PICK s \in drv[d].subs :
        \E signal : drv' = [drv EXCEPT ![d].at = "waking", ![d].run = sub[s].run,
                              ![d].row = run[sub[s].run], ![d].subs = drv[d].subs \ {s},
                              ![d].signal = signal]
  BY <1>4 DEF LoadToWake
<1>6. PICK signal : drv' = [drv EXCEPT ![d] = [drv[d] EXCEPT !.at = "waking",
                              !.run = sub[s].run, !.row = run[sub[s].run],
                              !.subs = drv[d].subs \ {s}, !.signal = signal]]
  BY <1>5, Tables
<1>7. /\ Untouched(d) /\ drv'[d].at = "waking" /\ drv'[d].run = sub[s].run
      /\ drv'[d].row = run[sub[s].run] /\ drv'[d].subs = drv[d].subs \ {s}
      /\ drv'[d].msg = drv[d].msg /\ drv'[d].count = drv[d].count
  BY <1>6, Tables DEF Untouched, DriverStates
<1>. QED BY <1>1, <1>2, <1>3, <1>4, <1>7

LEMMA LoadToWakeOwned ==
  ASSUME GateInv, GateInv', Owned, NEW d \in Drivers, LoadToWake(d)
  PROVE  Owned'
<1>1. PICK s \in Subs : LET r == sub[s].run IN
        /\ s \in drv[d].subs /\ r \in Runs /\ OpenSub(s)
        /\ run[r].status = "waiting" /\ run[r].cursor = sub[s].pc
        /\ Op(run[r].cursor) = "WAIT" /\ sub[s].status # "pending"
        /\ drv[d].at = "wake" /\ drv[d].msg = 0 /\ UNCHANGED <<run, appr, sub>>
        /\ Untouched(d) /\ drv'[d].at = "waking" /\ drv'[d].run = r
        /\ drv'[d].row = run[r] /\ drv'[d].subs = drv[d].subs \ {s}
        /\ drv'[d].msg = 0 /\ drv'[d].count = drv[d].count
  BY WakeFinds
<1>. PICK r \in Runs : r = sub[s].run
  BY <1>1
<1>2. \A e \in Drivers : ~ Near(e, r)
  BY <1>1 DEF Owned, Tickets
<1>3. \A e \in Drivers, t \in Subs : t \in drv'[e].subs /\ drv'[e].at # "claim" =>
        t \in drv[e].subs /\ drv[e].at # "claim" /\ (e = d => t # s)
  BY <1>1 DEF Untouched
<1>4. ASSUME NEW t \in Subs, OpenSub(t)' PROVE sub[t].run # r
  <2>1. OpenSub(t)
    BY <1>1, <1>3, <1>4 DEF OpenSub
  <2>2. sub[t].run = r => t = s
    BY <1>1, <2>1 DEF Owned, Tickets
  <2>3. t # s
    BY <1>1, <1>3, <1>4 DEF OpenSub, Owned, Sole
  <2>. QED BY <2>2, <2>3
<1>5. ASSUME NEW a \in Approvals, Awaits(a)' PROVE appr[a].run # r
  <2>1. appr[a].status # "absent"
    BY <1>1, <1>5, TablesAfter DEF Awaits, OpenAppr, RowsShaped
  <2>2. appr[a].run = r => appr[a].pc = run[r].cursor
    BY <1>1, <1>5 DEF Awaits, Parked, Waits
  <2>. QED BY <1>1, <2>1, <2>2 DEF Owned, Placed
<1>6. Takes(d, r)
  BY <1>1, <1>2, <1>4, <1>5 DEF Takes
<1>7. Agrees(d)' /\ Carries(d)'
  BY <1>1 DEF Agrees, Carries, Owned
<1>8. Placed'
  BY <1>1 DEF Owned, Placed, Behind
<1>. QED BY <1>1, <1>6, <1>7, <1>8, TakesKeeps

(* Nothing is queued or superseded: the new run is running, and its         *)
(* starter's.                                                              *)
LEMMA InsertReads ==
  ASSUME GateInv, Setting, NEW d \in Drivers, InsertRun(d)
  PROVE  /\ drv[d].at = "insert" /\ UNCHANGED <<done, appr, sub, fired, undone>>
         /\ Policy = "drop" => drv[d].live = {}
         /\ Record("overlapping start", \E e \in Drivers \ {d} : At(e, "insert"))
         /\ \E new \in Runs : /\ run[new].status = "absent" /\ Advance(d, new)
                              /\ run'[new].status = "running" /\ run'[new].cursor = 1
                              /\ \A q \in Runs \ {new} : run'[q] = run[q]
<1>1. PICK new \in First(Free(run)) :
        /\ Advance(d, new)
        /\ run' = [r \in Runs |-> IF r = new THEN [NewRow EXCEPT !.status = "running"]
                                  ELSE run[r]]
  BY DEF Setting, InsertRun
<1>2. new \in Runs /\ run[new].status = "absent"
  BY Tables DEF First, Free
<1>3. run'[new].status = "running" /\ run'[new].cursor = 1
  BY <1>1, <1>2 DEF NewRow
<1>. QED BY <1>1, <1>2, <1>3 DEF InsertRun, At

LEMMA InsertOwned ==
  ASSUME GateInv, GateInv', Owned, Setting, NEW d \in Drivers, InsertRun(d)
  PROVE  Owned'
<1>. PICK r \in Runs : /\ run[r].status = "absent" /\ Advance(d, r)
                       /\ run'[r].status = "running" /\ run'[r].cursor = 1
                       /\ \A q \in Runs \ {r} : run'[q] = run[q]
  BY InsertReads
<1>1. drv[d].at = "insert" /\ UNCHANGED <<appr, sub>>
  BY InsertReads
<1>2. /\ Untouched(d) /\ drv'[d].at = "load" /\ drv'[d].run = r
      /\ drv'[d].subs = drv[d].subs /\ drv'[d].msg = drv[d].msg
  BY AdvanceGives
<1>3. drv[d].msg = 0
  BY <1>1 DEF Owned, Carries
<1>4. \A e \in Drivers : ~ Near(e, r)
  BY DEF Owned, Agrees, Near, HandPoints, Live
<1>5. \A s \in Subs : sub[s].status # "absent" => sub[s].run # r
  BY DEF Owned, Placed
<1>6. \A a \in Approvals : appr[a].status # "absent" => appr[a].run # r
  BY DEF Owned, Placed
<1>7. \A s \in Subs : OpenSub(s)' => sub[s].run # r
  <2>1. \A s \in Subs : OpenSub(s)' => OpenSub(s)
    BY <1>1, <1>2 DEF OpenSub, Untouched
  <2>. QED BY <1>5, <2>1, OpenSubExists
<1>8. ASSUME NEW a \in Approvals, Awaits(a)' PROVE appr[a].run # r
  <2>1. appr[a].status # "absent"
    BY <1>1, <1>8, TablesAfter DEF Awaits, OpenAppr, RowsShaped
  <2>. QED BY <1>6, <2>1
<1>9. Takes(d, r)
  BY <1>1, <1>2, <1>3, <1>4, <1>7, <1>8 DEF Takes
<1>10. Agrees(d)' /\ Carries(d)'
  BY <1>1, <1>2, <1>3 DEF Agrees, Carries, Owned
<1>11. Placed'
  <2>1. \A q \in Runs : /\ run'[q].status # "queued"
                        /\ run[q].status # "absent" => run'[q].status # "absent"
    BY DEF Owned, Placed
  <2>2. \A a \in Approvals : appr[a].status # "absent" =>
          appr[a].run \in Runs \ {r} /\ Behind(a)'
    BY <1>1, <1>6, Tables DEF Owned, Placed, Behind, RowsShaped
  <2>3. \A s \in Subs : sub[s].status # "absent" => sub[s].run \in Runs \ {r}
    BY <1>5, Tables DEF RowsShaped
  <2>. QED BY <1>1, <2>1, <2>2, <2>3 DEF Owned, Placed
<1>12. \A e \in Drivers : drv[e].msg # 0 => appr[drv[e].msg].run # r
  BY <1>6, MsgFacts
<1>. QED BY <1>9, <1>10, <1>11, <1>12, TakesKeeps

(* A driver that dies holds nothing; the event it had is delivered again,  *)
(* and what it had not done can still be done.                             *)
LEMMA FailOwned ==
  ASSUME GateInv, GateInv', Owned, NEW d \in Drivers, Fail(d)
  PROVE  Owned'
<1>. DEFINE m == drv[d].msg
<1>1. drv' = [drv EXCEPT ![d] = Idle] /\ UNCHANGED <<run, appr, sub>>
  BY DEF Fail
<1>2. drv'[d] = Idle /\ \A e \in Drivers \ {d} : drv'[e] = drv[e]
  BY <1>1, Tables
<1>3. \A e \in Drivers, r \in Runs :
        /\ Near(e, r)' => Near(e, r) /\ e # d
        /\ Engaged(e, r)' => Engaged(e, r) /\ e # d
  BY <1>1, <1>2 DEF Near, Engaged, HandPoints, Idle
<1>4. \A s \in Subs : OpenSub(s)' => OpenSub(s)
  BY <1>1, <1>2 DEF OpenSub, Idle
<1>5. ASSUME NEW a \in Approvals, Awaits(a)'
      PROVE  appr[a].run \in Runs /\ \A e \in Drivers : ~ Engaged(e, appr[a].run)'
  <2>1. /\ Parked(a) /\ appr[a].run \in Runs
        /\ appr[a].status = "pending" \/ appr[a].event = "queued"
    BY <1>1, <1>5, TablesAfter DEF Awaits, OpenAppr, Parked, Waits, RowsShaped
  <2>2. \A e \in Drivers \ {d} : InHand(e, a) => InHand(e, a)'
    BY <1>2 DEF InHand
  <2>3. CASE OpenAppr(a)
    <3>1. \A e \in Drivers : ~ Engaged(e, appr[a].run)
      BY <2>1, <2>3 DEF Owned, Tickets, Awaits
    <3>. QED BY <1>1, <1>3, <2>1, <3>1 DEF Engaged, Near
  <2>4. CASE ~ OpenAppr(a)
    <3>1. InHand(d, a) /\ m # 0
      BY <1>1, <1>5, <2>1, <2>2, <2>4, ProgramFacts DEF Awaits, OpenAppr, InHand
    <3>2. drv[d].at \in Deciding /\ drv[d].run = appr[a].run
      BY <2>1, <3>1 DEF InHand, Owned, Carries, Deciding, HandPoints
    <3>3. Engaged(d, appr[a].run)
      BY <3>2 DEF Engaged, Near, Deciding, HandPoints
    <3>4. \A e \in Drivers \ {d} : ~ Engaged(e, appr[a].run)
      BY <2>1, <3>3 DEF Owned, Sole, Engaged
    <3>. QED BY <1>1, <1>3, <2>1, <3>4 DEF Engaged, Near
  <2>. QED BY <2>3, <2>4
<1>6. ASSUME NEW s \in Subs, OpenSub(s)'
      PROVE  /\ OpenSub(s) /\ sub[s].run \in Runs
             /\ Waits(sub[s].run, sub[s].pc)' /\ \A e \in Drivers : ~ Near(e, sub[s].run)'
  <2>1. OpenSub(s) /\ sub[s].run \in Runs
    BY <1>4, <1>6, OpenSubExists
  <2>2. Waits(sub[s].run, sub[s].pc) /\ \A e \in Drivers : ~ Near(e, sub[s].run)
    BY <2>1 DEF Owned, Tickets
  <2>. QED BY <1>1, <1>3, <2>1, <2>2 DEF Waits, Near
<1>7. Tickets'
  BY <1>1, <1>5, <1>6 DEF Owned, Tickets
<1>8. Sole'
  <2>1. \A e, f \in Drivers, r \in Runs : (Engaged(e, r)' /\ Near(f, r)') => e = f
    BY <1>3 DEF Owned, Sole
  <2>2. \A e, f \in Drivers : (drv'[e].msg = drv'[f].msg /\ drv'[e].msg # 0) => e = f
    BY <1>2 DEF Owned, Sole, Idle
  <2>3. \A e \in Drivers, s \in Subs : (s \in drv'[e].subs /\ drv'[e].at # "claim")
          => s \in drv[e].subs /\ drv[e].at # "claim"
    BY <1>2 DEF Idle
  <2>. QED BY <2>1, <2>2, <2>3 DEF Owned, Sole
<1>9. Placed'
  BY <1>1 DEF Owned, Placed, Behind
<1>10. Agrees(d)' /\ Carries(d)'
  BY <1>2 DEF Agrees, Carries, Idle
<1>11. \A e \in Drivers \ {d} : Agrees(e)' /\ Carries(e)'
  BY <1>1, <1>2 DEF Owned, Agrees, Carries, Parked, Waits, Cleared
<1>. QED BY <1>7, <1>8, <1>9, <1>10, <1>11 DEF Owned

-----------------------------------------------------------------------------
(* Every step is one of these                                              *)

(* A claim that goes right, and the other steps that touch no run's row.   *)
Other(d) ==
  \/ Leaves(d) \/ Sees(d) \/ Ack(d) \/ Fail(d)
  \/ Claim(d) /\ drv[d].subs \subseteq Pending
  \/ LoadToWake(d) \/ LoadToDecide(d)
  \/ \E a \in Approvals : TakeDecision(d, a)

LEMMA StepKinds ==
  ASSUME GateInv, Owned, [Next]_vars, Orderly'
  PROVE  \/ \E d \in Drivers : HandStep(d) \/ Parks(d) \/ Other(d) \/ InsertRun(d)
         \/ \E a \in Approvals : Resolve(a) \/ Expire(a)
         \/ UNCHANGED vars
<1>1. ASSUME NEW d \in Drivers, HandlerStep(d)
      PROVE  HandStep(d) \/ Parks(d) \/ Other(d) \/ InsertRun(d)
  <2>1. ~ Promote(d)
    BY DEF Owned, Agrees, Promote, At
  <2>2. Claim(d) => drv[d].subs \subseteq Pending
    BY DEF Claim, Record, Orderly, Handovers
  <2>. QED BY <1>1, <2>1, <2>2 DEF HandlerStep, AdvanceStep, CompensateStep, HandStep, Parks,
              Other, Leaves
<1>2. ASSUME NEW d \in Drivers, PickUp(d) \/ StartRun(d) \/ Fail(d) PROVE Other(d)
  BY <1>2 DEF PickUp, Other, Sees
<1>3. \A d \in Drivers : ~ ResumeRun(d)
  BY DEF ResumeRun, Record, Orderly, Handovers
<1>. QED BY <1>1, <1>2, <1>3 DEF Next

LEMMA OtherOwned ==
  ASSUME GateInv, GateInv', Setting, Owned, Orderly', NEW d \in Drivers, Other(d)
  PROVE  Owned'
BY LeavesOwned, SeesOwned, AckOwned, FailOwned, ClaimOwned, LoadToWakeOwned,
   LoadToDecideOwned, TakeDecisionOwned DEF Other

(* What has gone wrong stays on record. *)
LEMMA MishapsGrow ==
  ASSUME [Next]_vars PROVE mishaps \subseteq mishaps'
<1>1. ASSUME NEW d \in Drivers, HandlerStep(d) PROVE mishaps \subseteq mishaps'
  <2>1. CASE Drop(d) \/ CompensateStep(d) \/ LoadToWake(d) \/ WakeRun(d)
             \/ ResumeHuman(d) \/ ResumeTool(d) \/ Ack(d)
    BY <2>1, Zenon DEF Drop, CompensateStep, LoadToFail, FailRun, BeginCompensation,
       RunCompensator, EndCompensation, LoadToWake, WakeRun, ResumeHuman, ResumeTool, Ack
  <2>2. CASE AdvanceStep(d)
    BY <2>2, Zenon DEF AdvanceStep, Load, SetVars, Emit, Branch, Jump, ParkWait, ParkHuman,
       SkipDone, StartStep, RunAgent, RunTool, RecordStep, ParkTool, Complete, PickQueued,
       Promote
  <2>3. CASE InsertRun(d)
    BY <2>3 DEF InsertRun, Record
  <2>4. CASE Claim(d)
    BY <2>4 DEF Claim, Record
  <2>5. CASE LoadToDecide(d)
    BY <2>5 DEF LoadToDecide, Record
  <2>. QED BY <1>1, <2>1, <2>2, <2>3, <2>4, <2>5 DEF HandlerStep
<1>2. ASSUME NEW d \in Drivers, PickUp(d) \/ StartRun(d) PROVE mishaps \subseteq mishaps'
  BY <1>2, Zenon DEF PickUp, SeeReply, SeeDue, TakeDecision, StartRun
<1>3. ASSUME NEW d \in Drivers, ResumeRun(d) \/ Fail(d) PROVE mishaps \subseteq mishaps'
  BY <1>3 DEF ResumeRun, Fail, Record
<1>4. ASSUME NEW a \in Approvals, Resolve(a) \/ Expire(a) PROVE mishaps \subseteq mishaps'
  BY <1>4, Zenon DEF Resolve, Expire
<1>5. CASE UNCHANGED vars
  BY <1>5 DEF vars
<1>. QED BY <1>1, <1>2, <1>3, <1>4, <1>5 DEF Next

LEMMA OwnedInit == Init => Owned
<1>. SUFFICES ASSUME Init PROVE Owned
  OBVIOUS
<1>1. \A d \in Drivers : drv[d] = Idle
  BY DEF Init
<1>2. /\ \A r \in Runs : run[r].status = "absent"
      /\ \A s \in Subs : sub[s].status = "absent"
      /\ \A a \in Approvals : appr[a].status = "absent" /\ appr[a].event = "none"
  BY DEF Init, NewRow
<1>3. \A d \in Drivers : drv[d].at = "idle" /\ drv[d].msg = 0 /\ drv[d].subs = {}
  BY <1>1 DEF Idle
<1>4. \A d \in Drivers : Agrees(d) /\ Carries(d)
  BY <1>1, <1>3 DEF Agrees, Carries
<1>5. Placed
  BY <1>2 DEF Placed
<1>6. /\ \A d \in Drivers, r \in Runs : ~ Near(d, r)
      /\ \A s \in Subs : ~ OpenSub(s)
      /\ \A a \in Approvals : ~ OpenAppr(a)
  BY <1>2, <1>3 DEF Near, HandPoints, OpenSub, OpenAppr
<1>7. Sole
  BY <1>3, <1>6 DEF Sole, Engaged
<1>8. Tickets
  BY <1>6 DEF Tickets, Awaits
<1>. QED BY <1>4, <1>5, <1>7, <1>8 DEF Owned

LEMMA OwnedStep ==
  ASSUME GateInv, GateInv', Setting, Orderly', Owned, [Next]_vars
  PROVE  Owned'
<1>1. ASSUME NEW d \in Drivers, HandStep(d) PROVE Owned'
  BY <1>1, HandStepWorks, WorksKeeps
<1>2. ASSUME NEW d \in Drivers, Parks(d) \/ Other(d) \/ InsertRun(d) PROVE Owned'
  BY <1>2, ParkOwned, OtherOwned, InsertOwned
<1>3. ASSUME NEW a \in Approvals, Resolve(a) \/ Expire(a) PROVE Owned'
  BY <1>3, DecideOwned
<1>4. CASE UNCHANGED vars
  BY <1>4 DEF vars, Owned, Agrees, Carries, Placed, Sole, Tickets, Behind, Engaged, Near,
     OpenSub, OpenAppr, InHand, Awaits, Parked, Waits, Cleared
<1>. QED BY <1>1, <1>2, <1>3, <1>4, StepKinds

-----------------------------------------------------------------------------
(* Effects                                                                 *)

(* What a driver that works on its run leaves alone. *)
LEMMA WorksBeside ==
  ASSUME GateInv, GateInv', Owned, NEW d \in Drivers, Works(d)
  PROVE  LET r == drv[d].run IN
         /\ r \in Runs /\ run'[r].status # "absent" /\ UNCHANGED <<appr, sub>>
         /\ \A q \in Runs \ {r} : run'[q] = run[q]
         /\ \A e \in Drivers \ {d} :
              /\ drv'[e] = drv[e]
              /\ drv[e].at \in HandPoints \cup {"load"} => drv[e].run \in Runs \ {r}
         /\ drv'[d].msg = drv[d].msg /\ drv'[d].subs = drv[d].subs
         /\ drv'[d].at \in HandPoints \cup {"load"} => drv'[d].run = r
         /\ drv'[d].at \notin {"waking", "deciding"}
<1>. DEFINE r == drv[d].run
<1>1. r \in Runs /\ \A e \in Drivers \ {d} : ~ Near(e, r)
  BY EngagedFacts DEF Works
<1>2. \A e \in Drivers \ {d} :
        /\ drv'[e] = drv[e]
        /\ drv[e].at \in HandPoints \cup {"load"} => drv[e].run \in Runs \ {r}
  BY <1>1, NearHasRun DEF Works, Untouched, Near
<1>3. drv'[d].at \in HandPoints \cup {"load"} => drv'[d].run = r
  <2>1. drv'[d].at \in (HandPoints \cup {"load"}) \ {"waking", "deciding"} => drv'[d].run \in Runs
    BY TablesAfter DEF HandPoints, DriverShaped
  <2>. QED BY <2>1 DEF Works, Runs
<1>. QED BY <1>1, <1>2, <1>3 DEF Works, Live, Terminal

(* Which steps with a run in hand invoke an effect or a compensator.       *)
LEMMA HandStepFires ==
  ASSUME NEW d \in Drivers, HandStep(d)
  PROVE  /\ UNCHANGED mishaps
         /\ UNCHANGED fired \/ Emit(d) \/ RunAgent(d) \/ RunTool(d)
         /\ UNCHANGED undone \/ RunCompensator(d)
         /\ Emit(d) \/ RunAgent(d) \/ RunTool(d) => UNCHANGED undone
<1>6. Emit(d) \/ RunAgent(d) \/ RunTool(d) => UNCHANGED undone
  BY Zenon DEF Emit, RunAgent, RunTool
<1>1. CASE Load(d) \/ SetVars(d) \/ Branch(d) \/ Jump(d) \/ SkipDone(d)
  BY <1>1, Zenon DEF Load, SetVars, Branch, Jump, SkipDone
<1>2. CASE StartStep(d) \/ RecordStep(d) \/ Complete(d)
  BY <1>2, Zenon DEF StartStep, RecordStep, Complete
<1>3. CASE LoadToFail(d) \/ FailRun(d) \/ EndCompensation(d) \/ BeginCompensation(d)
           \/ RunCompensator(d)
  <2>1. UNCHANGED <<mishaps, fired>> /\ (UNCHANGED undone \/ RunCompensator(d))
    BY <1>3, Zenon DEF LoadToFail, FailRun, EndCompensation, BeginCompensation, RunCompensator
  <2>. QED BY <1>6, <2>1
<1>4. CASE WakeRun(d) \/ ResumeHuman(d) \/ ResumeTool(d)
  BY <1>4, Zenon DEF WakeRun, ResumeHuman, ResumeTool
<1>5. CASE Emit(d) \/ RunAgent(d) \/ RunTool(d)
  BY <1>5, Zenon DEF Emit, RunAgent, RunTool
<1>. QED BY <1>1, <1>2, <1>3, <1>4, <1>5, <1>6 DEF HandStep

(* Moving a cursor forward leaves no more to fire. *)
LEMMA UnfiredKept ==
  ASSUME GateInv, GateInv', NEW r \in Runs, Unfired(r), fired'[r] = fired[r],
         run'[r].cursor >= run[r].cursor
  PROVE  Unfired(r)'
<1>1. run[r].cursor \in Nat /\ run'[r].cursor \in Nat /\ PCs \subseteq Nat
  BY Tables, TablesAfter, ProgramFacts
<1>. QED BY <1>1 DEF Unfired

(* The run a driver works on is the only one whose effects count. *)
LEMMA OnceApart ==
  ASSUME GateInv, GateInv', Owned, Once, NEW d \in Drivers, Works(d),
         NEW r \in Runs, r = drv[d].run,
         \A q \in Runs \ {r} : fired'[q] = fired[q],
         \A pc \in PCs : fired'[r][pc] <= 1,
         run'[r].status = "waiting" => Unfired(r)', Fresh(d)'
  PROVE  Once'
<1>1. \A q \in Runs \ {r} : run'[q] = run[q] /\ fired'[q] = fired[q]
  BY WorksBeside
<1>2. run'[r].status # "absent"
  BY WorksBeside
<1>3. \A q \in Runs, pc \in PCs : fired'[q][pc] <= 1
  BY <1>1 DEF Once
<1>4. \A q \in Runs : run'[q].status = "absent" => \A pc \in PCs : fired'[q][pc] = 0
  BY <1>1, <1>2 DEF Once
<1>5. \A q \in Runs : run'[q].status = "waiting" => Unfired(q)'
  BY <1>1 DEF Once, Unfired
<1>6. ASSUME NEW e \in Drivers \ {d} PROVE Fresh(e)'
  <2>1. /\ drv'[e] = drv[e]
        /\ drv[e].at \in {"load", "exec", "effect", "park", "record"} =>
             run'[drv[e].run] = run[drv[e].run] /\ fired'[drv[e].run] = fired[drv[e].run]
    BY <1>1, WorksBeside DEF HandPoints
  <2>. QED BY <2>1 DEF Once, Fresh, Unfired
<1>. QED BY <1>3, <1>4, <1>5, <1>6 DEF Once

(* An effect invoked at the cursor, by a run that had invoked none there.  *)
LEMMA FiresOnce ==
  ASSUME GateInv, NEW r \in Runs, NEW pc \in PCs, pc = run[r].cursor, Unfired(r), Fire(r, pc)
  PROVE  /\ \A q \in Runs \ {r} : fired'[q] = fired[q]
         /\ fired'[r][pc] = 1
         /\ \A k \in PCs \ {pc} : fired'[r][k] = fired[r][k]
<1>1. fired \in [Runs -> [PCs -> Nat]] /\ run[r].cursor \in Nat
  BY Tables DEF GateInv, Shaped, TypeOK
<1>2. fired[r][pc] = 0
  BY <1>1 DEF Unfired
<1>. QED BY <1>1, <1>2 DEF Fire

LEMMA EmitOnce ==
  ASSUME GateInv, GateInv', Setting, Owned, Once, NEW d \in Drivers, Emit(d) PROVE Once'
<1>. PICK r \in Runs : r = drv[d].run
  BY AtHand DEF Emit, AtOp, At
<1>. DEFINE pc == run[r].cursor
<1>1. /\ drv[d].at = "exec" /\ drv[d].row = run[r] /\ run[r].status = "running"
      /\ pc \in Nat /\ Op(pc) = "EMIT" /\ Fire(r, pc) /\ Again(d)
  BY AtHand DEF Emit, AtOp, At
<1>2. pc \in PCs /\ Unfired(r)
  BY <1>1, ProgramFacts DEF Once, Fresh
<1>3. /\ Works(d) /\ run'[r].status = "running" /\ run'[r].cursor > pc
  BY ForwardSteps
<1>4. /\ \A q \in Runs \ {r} : fired'[q] = fired[q]
      /\ fired'[r][pc] = 1
      /\ \A k \in PCs \ {pc} : fired'[r][k] = fired[r][k]
  BY <1>1, <1>2, FiresOnce
<1>5. Unfired(r)'
  BY SMTT(30), <1>1, <1>2, <1>3, <1>4, TablesAfter, ProgramFacts DEF Unfired
<1>6. \A k \in PCs : fired'[r][k] <= 1
  BY <1>2, <1>4 DEF Once
<1>7. drv'[d].at = "load" /\ drv'[d].run = r
  BY <1>1, AdvanceGives DEF Again
<1>8. Fresh(d)'
  BY <1>5, <1>7 DEF Fresh, Unfired
<1>. QED BY <1>3, <1>4, <1>6, <1>8, OnceApart

LEMMA EffectOnceStep ==
  ASSUME GateInv, GateInv', Owned, Once, NEW d \in Drivers, RunAgent(d) \/ RunTool(d)
  PROVE  Once'
<1>. PICK r \in Runs : r = drv[d].run
  BY AtHand DEF RunAgent, RunTool, At
<1>. DEFINE pc == run[r].cursor
<1>1. /\ drv[d].at = "effect" /\ drv[d].row = run[r] /\ run[r].status = "running"
      /\ pc \in Nat /\ Op(pc) \in {"AGENT", "TOOL"}
      /\ Fire(r, pc) \/ UNCHANGED fired
  BY AtHand DEF RunAgent, RunTool, At
<1>2. pc \in PCs /\ Unfired(r)
  BY <1>1, ProgramFacts DEF Once, Fresh
<1>3. /\ Works(d) /\ UNCHANGED run /\ drv'[d].run = r
  BY EffectWorks
<1>4. /\ drv'[d].at \in {"record", "park", "compensate"}
      /\ drv'[d].at = "park" => UNCHANGED fired
  BY GoGives, Tables DEF DriverStates, RunAgent, RunTool
<1>5. /\ \A q \in Runs \ {r} : fired'[q] = fired[q]
      /\ fired'[r][pc] <= 1
      /\ \A k \in PCs \ {pc} : fired'[r][k] = fired[r][k]
  BY <1>1, <1>2, FiresOnce DEF Once
<1>6. \A k \in PCs : fired'[r][k] <= 1
  BY <1>5 DEF Once
<1>7. \A k \in PCs : k > run[r].cursor => fired'[r][k] = 0
  BY <1>1, <1>2, <1>5, ProgramFacts DEF Unfired
<1>8. Fresh(d)'
  BY <1>2, <1>3, <1>4, <1>7 DEF Fresh, Unfired
<1>. QED BY <1>1, <1>3, <1>5, <1>6, <1>8, OnceApart

(* The other steps with a run in hand invoke nothing. *)
LEMMA SilentOnce ==
  ASSUME GateInv, GateInv', Owned, Once, NEW d \in Drivers, Works(d), UNCHANGED fired,
         run'[drv[d].run].status = "running" =>
           run'[drv[d].run].cursor >= run[drv[d].run].cursor,
         drv'[d].at # "record",
         drv'[d].at \in {"load", "exec", "effect", "park"} /\ run'[drv[d].run].status = "running"
           => \/ drv[d].at \in {"load", "exec", "effect", "park"}
                 /\ run[drv[d].run].status = "running"
              \/ run[drv[d].run].status = "waiting"
              \/ /\ drv[d].at = "record"
                 /\ run'[drv[d].run].cursor > run[drv[d].run].cursor
  PROVE  Once'
<1>. PICK r \in Runs : r = drv[d].run
  BY WorksBeside
<1>1. run[r].cursor \in Nat /\ run'[r].cursor \in Nat /\ PCs \subseteq Nat
  BY Tables, TablesAfter, ProgramFacts
<1>2. run'[r].status = "waiting" => Unfired(r)'
  BY <1>1, UnfiredKept DEF Once, Works
<1>3. ASSUME drv'[d].at \in {"load", "exec", "effect", "park"}, run'[r].status = "running"
      PROVE  Unfired(r)'
  <2>0. run'[r].cursor >= run[r].cursor
    BY <1>3
  <2>1. CASE run[r].status = "waiting"
    <3>1. Unfired(r)
      BY <2>1 DEF Once
    <3>. QED BY <2>0, <3>1, UnfiredKept
  <2>2. CASE drv[d].at = "record" /\ run'[r].cursor > run[r].cursor
    <3>1. \A pc \in PCs : pc > run[r].cursor => fired[r][pc] = 0
      BY <2>2 DEF Once, Fresh
    <3>2. \A pc \in PCs : pc >= run'[r].cursor => pc > run[r].cursor
      BY <1>1, <2>2
    <3>. QED BY <3>1, <3>2 DEF Unfired
  <2>3. CASE drv[d].at \in {"load", "exec", "effect", "park"} /\ run[r].status = "running"
    <3>1. Unfired(r)
      BY <2>3 DEF Once, Fresh
    <3>. QED BY <2>0, <3>1, UnfiredKept
  <2>. QED BY <1>3, <2>1, <2>2, <2>3
<1>4. Fresh(d)'
  <2>1. drv'[d].at \in {"load", "exec", "effect", "park"} => drv'[d].run = r
    BY WorksBeside DEF HandPoints
  <2>. QED BY <1>3, <2>1 DEF Fresh, Unfired
<1>5. \A pc \in PCs : fired'[r][pc] <= 1
  BY DEF Once
<1>. QED BY <1>2, <1>4, <1>5, OnceApart

LEMMA HandStepOnce ==
  ASSUME GateInv, GateInv', Setting, Owned, Once, NEW d \in Drivers, HandStep(d)
  PROVE  Once'
<1>0. /\ Works(d) /\ run'[drv[d].run].cursor \in Nat /\ run[drv[d].run].cursor \in Nat
      /\ UNCHANGED fired \/ Emit(d) \/ RunAgent(d) \/ RunTool(d)
  BY HandStepWorks, HandStepFires, WorksBeside, Tables, TablesAfter
<1>1. CASE Emit(d)
  BY <1>1, EmitOnce
<1>2. CASE RunAgent(d) \/ RunTool(d)
  BY <1>2, EffectOnceStep
<1>3. ASSUME UNCHANGED fired PROVE Once'
  <2>1. CASE Load(d) /\ run[drv[d].run].status = "running"
    <3>1. UNCHANGED run /\ drv[d].at = "load" /\ drv'[d].at = "exec"
      BY <2>1, LoadRunning DEF Load, At
    <3>. QED BY <1>0, <1>3, <2>1, <3>1, SilentOnce
  <2>2. CASE SetVars(d) \/ Branch(d) \/ Jump(d) \/ SkipDone(d) \/ RecordStep(d)
    <3>1. /\ drv[d].at \in {"exec", "record"} /\ Again(d)
          /\ run[drv[d].run].status = "running"
      BY <2>2, AtHand DEF SetVars, Branch, Jump, SkipDone, RecordStep, AtOp, At
    <3>2. drv'[d].at = "load"
      BY <3>1, AdvanceGives DEF Again
    <3>3. run'[drv[d].run].cursor > run[drv[d].run].cursor
      BY <2>2, ForwardSteps
    <3>. QED BY <1>0, <1>3, <3>1, <3>2, <3>3, SilentOnce
  <2>3. CASE StartStep(d)
    <3>1. /\ drv[d].at = "exec" /\ drv'[d].at = "effect" /\ UNCHANGED run
          /\ run[drv[d].run].status = "running"
      BY <2>3, GoGives, AtHand DEF StartStep, AtOp, At
    <3>. QED BY <1>0, <1>3, <3>1, SilentOnce
  <2>4. CASE Complete(d)
    <3>1. drv'[d].at = "promote" /\ run'[drv[d].run].status = "completed"
      BY <2>4, CompleteWorks
    <3>. QED BY <1>0, <1>3, <3>1, SilentOnce
  <2>5. CASE FailRun(d) \/ EndCompensation(d)
    <3>1. drv'[d].at \in {"load", "ack", "wake"} /\ run'[drv[d].run].status \in Terminal
      BY <2>5, CompensateWorks
    <3>. QED BY <1>0, <1>3, <3>1, SilentOnce DEF Terminal
  <2>6. CASE LoadToFail(d) \/ BeginCompensation(d) \/ RunCompensator(d)
    <3>1. drv'[d].at \in {"failing", "undo"} /\ UNCHANGED run
      BY <2>6, UndoWorks
    <3>. QED BY <1>0, <1>3, <3>1, SilentOnce
  <2>7. CASE WakeRun(d)
    BY <1>0, <1>3, <2>7, WakeWorks, SilentOnce
  <2>8. CASE ResumeHuman(d) \/ ResumeTool(d)
    <3>1. CASE Decided(d) = "approved"
      BY <1>0, <1>3, <2>8, <3>1, ResumeWorks, SilentOnce
    <3>2. CASE Decided(d) # "approved"
      <4>1. drv'[d].at = "compensate" /\ run'[drv[d].run].status = "waiting"
        BY <2>8, <3>2, ResumeWorks DEF Writes
      <4>. QED BY <1>0, <1>3, <4>1, SilentOnce
    <3>. QED BY <3>1, <3>2
  <2>. QED BY <1>1, <1>2, <2>1, <2>2, <2>3, <2>4, <2>5, <2>6, <2>7, <2>8 DEF HandStep
<1>. QED BY <1>0, <1>1, <1>2, <1>3

(* What parking and the other steps leave alone. *)
LEMMA ParksBeside ==
  ASSUME GateInv, Owned, NEW d \in Drivers, Parks(d)
  PROVE  LET r == drv[d].run IN
         /\ r \in Runs /\ run[r].status = "running" /\ drv[d].at \in {"exec", "park"}
         /\ Writes(r, "waiting", run[r].cursor)
         /\ UNCHANGED <<fired, undone, mishaps>>
         /\ drv'[d].at \in {"ack", "wake", "load"} /\ drv'[d].count = 0
         /\ drv'[d].at = "load" => drv'[d].run = r
         /\ \A e \in Drivers \ {d} :
              /\ drv'[e] = drv[e]
              /\ drv[e].at \in HandPoints \cup {"load"} => drv[e].run \in Runs \ {r}
<1>. DEFINE r == drv[d].run
<1>1. /\ r \in Runs /\ run[r].status = "running" /\ drv[d].at \in {"exec", "park"}
      /\ Writes(r, "waiting", run[r].cursor) /\ Engaged(d, r) /\ Hands(d)
  BY ParkFinds
<1>2. UNCHANGED <<fired, undone, mishaps>>
  BY Zenon DEF Parks, ParkWait, ParkHuman, ParkTool
<1>3. drv'[d].at = "load" => drv'[d].run = r
  <2>1. Return(d) \/ Again(d)
    BY DEF Parks, ParkWait, ParkHuman, ParkTool
  <2>. QED BY <2>1, ReturnGives, AdvanceGives DEF Again
<1>4. \A e \in Drivers \ {d} :
        /\ drv'[e] = drv[e]
        /\ drv[e].at \in HandPoints \cup {"load"} => drv[e].run \in Runs \ {r}
  BY <1>1, EngagedFacts, NearHasRun DEF Hands, Untouched, Near
<1>. QED BY <1>1, <1>2, <1>3, <1>4 DEF Hands

LEMMA ParkOnce ==
  ASSUME GateInv, GateInv', Owned, Once, NEW d \in Drivers, Parks(d)
  PROVE  Once'
<1>. PICK r \in Runs : r = drv[d].run
  BY ParksBeside
<1>1. /\ run'[r].status = "waiting" /\ run'[r].cursor = run[r].cursor
      /\ \A q \in Runs \ {r} : run'[q] = run[q]
      /\ UNCHANGED fired
  BY ParksBeside DEF Writes
<1>2. Unfired(r)
  BY ParksBeside DEF Once, Fresh
<1>3. \A q \in Runs : run'[q].status = "waiting" => Unfired(q)'
  BY <1>1, <1>2 DEF Once, Unfired
<1>4. \A q \in Runs : run'[q].status = "absent" => \A pc \in PCs : fired'[q][pc] = 0
  BY <1>1 DEF Once
<1>5. \A e \in Drivers \ {d} : Fresh(e)'
  <2>1. \A e \in Drivers \ {d} :
          /\ drv'[e] = drv[e]
          /\ drv[e].at \in {"load", "exec", "effect", "park", "record"} =>
               run'[drv[e].run] = run[drv[e].run]
    BY <1>1, ParksBeside DEF HandPoints
  <2>. QED BY <1>1, <2>1 DEF Once, Fresh, Unfired
<1>6. Fresh(d)'
  BY <1>1, ParksBeside DEF Fresh
<1>. QED BY <1>1, <1>3, <1>4, <1>5, <1>6 DEF Once

(* The steps outside the loop change what one driver is doing and nothing  *)
(* of any run.                                                             *)
LEMMA OtherBeside ==
  ASSUME GateInv, Setting, Owned, NEW d \in Drivers, Other(d)
  PROVE  /\ UNCHANGED <<run, fired, undone>> /\ \A e \in Drivers \ {d} : drv'[e] = drv[e]
         /\ drv'[d].at \notin (HandPoints \cup {"load"}) \ {"waking", "deciding"}
         /\ drv'[d].count = 0 \/ (drv[d].at # "undo" /\ drv'[d].count = drv[d].count)
         /\ drv'[d].at = "waking" => LoadToWake(d)
         /\ drv'[d].at = "deciding" => LoadToDecide(d)
         /\ drv'[d].at = "insert" => StartRun(d)
         /\ drv'[d].at = "ack" => drv'[d].subs = {}
<1>1. CASE Leaves(d)
  <2>1. Return(d) /\ UNCHANGED <<run, fired, undone>>
    BY <1>1, LeavesReturns
  <2>. QED BY <2>1, ReturnGives DEF Untouched, HandPoints
<1>2. CASE Sees(d)
  BY <1>2, SeesMoves DEF Untouched, HandPoints
<1>3. CASE Ack(d) \/ Fail(d)
  <2>1. /\ drv' = [drv EXCEPT ![d] = Idle] /\ UNCHANGED <<run, fired, undone>>
    BY <1>3, Zenon DEF Ack, Fail
  <2>2. drv'[d] = Idle /\ \A e \in Drivers \ {d} : drv'[e] = drv[e]
    BY <2>1, Tables
  <2>. QED BY <2>1, <2>2 DEF Idle, HandPoints
<1>4. CASE Claim(d)
  <2>1. drv[d].at = "claim" /\ Go(d, "wake") /\ UNCHANGED <<run, fired, undone>>
    BY <1>4 DEF Claim, At
  <2>. QED BY <2>1, GoGives DEF Untouched, HandPoints
<1>5. CASE LoadToWake(d)
  <2>1. UNCHANGED <<run, fired, undone>> /\ drv[d].at = "wake"
    BY <1>5 DEF LoadToWake, At
  <2>. QED BY <1>5, <2>1, WakeFinds DEF Untouched, HandPoints
<1>6. CASE LoadToDecide(d)
  <2>1. drv[d].at = "decide" /\ UNCHANGED <<run, fired, undone>>
    BY <1>6 DEF LoadToDecide, At
  <2>2. CASE Return(d)
    BY <1>6, <2>1, <2>2, ReturnGives DEF Untouched, HandPoints
  <2>3. CASE ~ Return(d)
    <3>1. drv' = [drv EXCEPT ![d] = [drv[d] EXCEPT !.at = "deciding",
                                                   !.row = run[drv[d].run]]]
      BY <1>6, <2>3, Tables DEF LoadToDecide
    <3>2. /\ \A e \in Drivers \ {d} : drv'[e] = drv[e]
          /\ drv'[d].at = "deciding" /\ drv'[d].count = drv[d].count
      BY <3>1, Tables DEF DriverStates
    <3>. QED BY <1>6, <2>1, <3>2
  <2>. QED BY <2>2, <2>3
<1>7. ASSUME NEW a \in Approvals, TakeDecision(d, a) PROVE
         /\ UNCHANGED <<run, fired, undone>>
         /\ \A e \in Drivers \ {d} : drv'[e] = drv[e]
         /\ drv[d].at = "idle" /\ drv'[d].at = "decide" /\ drv'[d].count = drv[d].count
  BY <1>7, Tables DEF TakeDecision, At, DriverStates
<1>. QED BY <1>1, <1>2, <1>3, <1>4, <1>5, <1>6, <1>7 DEF Other, HandPoints

LEMMA OtherOnce ==
  ASSUME GateInv, Setting, Owned, Once, NEW d \in Drivers, Other(d) PROVE Once'
<1>1. /\ UNCHANGED <<run, fired>> /\ \A e \in Drivers \ {d} : drv'[e] = drv[e]
      /\ drv'[d].at \notin {"load", "exec", "effect", "park", "record"}
  BY OtherBeside DEF HandPoints
<1>. QED BY <1>1 DEF Once, Unfired, Fresh

(* The INSERT gives its driver a run that nobody was near and whose        *)
(* effects are all to come.                                                *)
LEMMA InsertBeside ==
  ASSUME GateInv, Setting, Owned, NEW d \in Drivers, InsertRun(d)
  PROVE  /\ UNCHANGED <<appr, sub, fired, undone>> /\ drv[d].at = "insert"
         /\ drv'[d].at = "load" /\ drv'[d].count = 0
         /\ drv'[d].subs = drv[d].subs /\ drv'[d].msg = 0 /\ drv[d].msg = 0
         /\ \A e \in Drivers \ {d} : drv'[e] = drv[e]
         /\ \E new \in Runs :
              /\ run[new].status = "absent" /\ run'[new].status = "running"
              /\ run'[new].cursor = 1 /\ drv'[d].run = new
              /\ \A q \in Runs \ {new} : run'[q] = run[q]
              /\ \A e \in Drivers : ~ Near(e, new)
              /\ \A s \in Subs : sub[s].status # "absent" => sub[s].run # new
              /\ \A a \in Approvals : appr[a].status # "absent" => appr[a].run # new
<1>1. PICK new \in Runs : /\ run[new].status = "absent" /\ Advance(d, new)
                          /\ run'[new].status = "running" /\ run'[new].cursor = 1
                          /\ \A q \in Runs \ {new} : run'[q] = run[q]
  BY InsertReads
<1>2. UNCHANGED <<appr, sub, fired, undone>> /\ drv[d].at = "insert"
  BY InsertReads
<1>3. drv[d].msg = 0
  BY <1>2 DEF Owned, Carries
<1>4. \A e \in Drivers : ~ Near(e, new)
  BY <1>1 DEF Owned, Agrees, Near, HandPoints, Live
<1>5. /\ \A s \in Subs : sub[s].status # "absent" => sub[s].run # new
      /\ \A a \in Approvals : appr[a].status # "absent" => appr[a].run # new
  BY <1>1 DEF Owned, Placed
<1>. QED BY <1>1, <1>2, <1>3, <1>4, <1>5, AdvanceGives DEF Untouched

LEMMA InsertOnce ==
  ASSUME GateInv, Owned, Setting, Once, NEW d \in Drivers, InsertRun(d)
  PROVE  Once'
<1>1. PICK new \in Runs :
        /\ run[new].status = "absent" /\ run'[new].status = "running"
        /\ drv'[d].run = new /\ \A q \in Runs \ {new} : run'[q] = run[q]
        /\ \A e \in Drivers : ~ Near(e, new)
  BY InsertBeside
<1>2. UNCHANGED fired /\ drv'[d].at = "load" /\ \A e \in Drivers \ {d} : drv'[e] = drv[e]
  BY InsertBeside
<1>3. \A pc \in PCs : fired[new][pc] = 0
  BY <1>1 DEF Once
<1>4. \A e \in Drivers \ {d} : drv[e].at \in HandPoints \cup {"load"} =>
        run'[drv[e].run] = run[drv[e].run]
  BY <1>1, NearHasRun DEF Near
<1>5. \A e \in Drivers \ {d} : Fresh(e)'
  BY <1>2, <1>4 DEF Once, Fresh, Unfired, HandPoints
<1>6. Fresh(d)'
  BY <1>1, <1>2, <1>3 DEF Fresh, Unfired
<1>7. \A q \in Runs : run'[q].status = "waiting" => Unfired(q)'
  BY <1>1, <1>2 DEF Once, Unfired
<1>8. \A q \in Runs : run'[q].status = "absent" => \A pc \in PCs : fired'[q][pc] = 0
  BY <1>1, <1>2 DEF Once
<1>. QED BY <1>2, <1>5, <1>6, <1>7, <1>8 DEF Once

LEMMA OnceStep ==
  ASSUME GateInv, GateInv', Setting, Orderly', Owned, Once, [Next]_vars
  PROVE  Once'
<1>1. ASSUME NEW d \in Drivers, HandStep(d) \/ Parks(d) \/ Other(d) \/ InsertRun(d)
      PROVE  Once'
  BY <1>1, HandStepOnce, ParkOnce, OtherOnce, InsertOnce
<1>2. ASSUME NEW a \in Approvals, Resolve(a) \/ Expire(a) PROVE Once'
  BY <1>2 DEF Resolve, Expire, Once, Unfired, Fresh
<1>3. CASE UNCHANGED vars
  BY <1>3 DEF vars, Once, Unfired, Fresh
<1>. QED BY <1>1, <1>2, <1>3, StepKinds

LEMMA OnceInit == Init => Once
BY DEF Init, NewRow, Once, Unfired, Idle, Fresh

-----------------------------------------------------------------------------
(* Compensation                                                            *)

(* The run a driver works on is the only one compensated. *)
LEMMA IntactApart ==
  ASSUME GateInv, GateInv', Owned, Intact, NEW d \in Drivers, Works(d),
         NEW r \in Runs, r = drv[d].run, UNCHANGED mishaps,
         \A q \in Runs \ {r} : undone'[q] = undone[q], Whole(d)'
  PROVE  Intact'
<1>1. \A q \in Runs \ {r} : run'[q] = run[q] /\ undone'[q] = undone[q]
  BY WorksBeside
<1>2. run'[r].status # "absent" /\ UNCHANGED <<appr, sub>>
  BY WorksBeside
<1>3. \A q \in Runs : run'[q].status = "absent" => undone'[q] = 0
  BY <1>1, <1>2 DEF Intact
<1>4. ASSUME NEW e \in Drivers \ {d} PROVE Whole(e)'
  <2>1. /\ drv'[e] = drv[e]
        /\ drv[e].at \in HandPoints \cup {"load"} =>
             run'[drv[e].run] = run[drv[e].run] /\ undone'[drv[e].run] = undone[drv[e].run]
    BY <1>1, WorksBeside
  <2>. QED BY <1>2, <2>1 DEF Intact, Whole, HandPoints, Decided, Unbroken
<1>5. \A s \in Subs : OpenSub(s)' => OpenSub(s) /\ sub[s].run \in Runs \ {r}
  BY WorksShrinks, OpenSubExists, EngagedFacts DEF Shrinks, Works
<1>6. \A a \in Approvals : Awaits(a)' => Awaits(a) /\ appr[a].run \in Runs \ {r}
  BY WorksShrinks, OpenApprExists, EngagedFacts DEF Shrinks, Works, Awaits
<1>7. \A s \in Subs : OpenSub(s)' => undone'[sub'[s].run] = 0
  BY <1>1, <1>2, <1>5 DEF Intact
<1>8. \A a \in Approvals :
        Awaits(a)' /\ (Unbroken' \/ appr'[a].status # "rejected") => undone'[appr'[a].run] = 0
  BY <1>1, <1>2, <1>6 DEF Intact, Unbroken
<1>. QED BY <1>3, <1>4, <1>7, <1>8 DEF Intact

LEMMA CompensatorUndoes ==
  ASSUME GateInv, Owned, NEW d \in Drivers, RunCompensator(d)
  PROVE  LET r == drv[d].run IN
         /\ r \in Runs /\ drv[d].at = "undo" /\ drv'[d].at = "undo"
         /\ drv[d].count \in Nat /\ drv[d].count < Compensators
         /\ undone[r] \in Nat /\ undone'[r] = undone[r] + 1
         /\ drv'[d].count = drv[d].count + 1
         /\ \A q \in Runs \ {r} : undone'[q] = undone[q]
<1>1. drv[d].at = "undo" /\ drv[d].count < Compensators
  BY DEF RunCompensator, At
<1>2. drv[d].run \in Runs /\ drv[d].count \in Nat
  BY <1>1, Tables DEF DriverShaped, DriverStates
<1>3. undone \in [Runs -> Nat] /\ undone' = [undone EXCEPT ![drv[d].run] = @ + 1]
  BY DEF RunCompensator, GateInv, Shaped, TypeOK
<1>4. \E failed : drv' = [drv EXCEPT ![d] = [drv[d] EXCEPT !.count = drv[d].count + 1,
                                                           !.partial = failed]]
  <2>1. \E failed : drv' = [drv EXCEPT ![d].count = drv[d].count + 1, ![d].partial = failed]
    BY DEF RunCompensator
  <2>. QED BY <2>1, Tables
<1>5. drv'[d].at = "undo" /\ drv'[d].count = drv[d].count + 1
  BY <1>1, <1>4, Tables DEF DriverStates
<1>. QED BY <1>1, <1>2, <1>3, <1>5

(* Before a driver invokes anything, its run was not compensated; a run    *)
(* that goes on is whole.                                                  *)
LEMMA GoesOnWhole ==
  ASSUME GateInv, GateInv', Owned, Intact, NEW d \in Drivers, Works(d), UNCHANGED undone,
         run'[drv[d].run].status = "running" \/ drv'[d].at \in {"load", "promote", "ack", "wake"},
         \/ undone[drv[d].run] = 0
         \/ /\ drv'[d].at \in {"load", "promote", "ack", "wake"}
            /\ run'[drv[d].run].status # "running"
  PROVE  Whole(d)'
<1>. PICK r \in Runs : r = drv[d].run
  BY WorksBeside
<1>1. /\ drv'[d].at \in HandPoints \cup {"load"} => drv'[d].run = r
      /\ drv'[d].at # "deciding"
  BY WorksBeside
<1>. QED BY <1>1 DEF Whole, HandPoints

LEMMA HandStepIntact ==
  ASSUME GateInv, GateInv', Setting, Owned, Intact, NEW d \in Drivers, HandStep(d)
  PROVE  Intact'
<1>1. Works(d) /\ UNCHANGED mishaps /\ (UNCHANGED undone \/ RunCompensator(d))
  BY HandStepWorks, HandStepFires
<1>. PICK r \in Runs : r = drv[d].run
  BY <1>1, WorksBeside
<1>2. Whole(d) /\ UNCHANGED appr /\ drv'[d].msg = drv[d].msg
  BY <1>1, WorksBeside DEF Intact
<1>3. CASE RunCompensator(d)
  <2>1. /\ drv[d].at = "undo" /\ drv'[d].at = "undo" /\ drv'[d].run = r /\ UNCHANGED run
        /\ \A q \in Runs \ {r} : undone'[q] = undone[q]
    BY <1>3, CompensatorUndoes, UndoWorks
  <2>2. Whole(d)'
    BY <1>2, <2>1 DEF Whole, Decided
  <2>. QED BY <1>1, <2>1, <2>2, IntactApart
<1>4. ASSUME Whole(d)', UNCHANGED undone PROVE Intact'
  BY <1>1, <1>4, IntactApart
<1>5. CASE UNCHANGED undone /\ ~ RunCompensator(d)
  <2>1. CASE \/ Load(d) /\ run[drv[d].run].status = "running"
             \/ SetVars(d) \/ Emit(d) \/ Branch(d) \/ Jump(d) \/ SkipDone(d) \/ RecordStep(d)
             \/ StartStep(d) \/ RunAgent(d) \/ RunTool(d) \/ WakeRun(d)
    <3>1. \/ drv[d].at \in {"exec", "effect", "record", "park", "waking"}
          \/ drv[d].at = "load" /\ run[r].status = "running"
      BY <2>1 DEF Load, SetVars, Emit, Branch, Jump, SkipDone, RecordStep, StartStep,
         RunAgent, RunTool, WakeRun, AtOp, At
    <3>2. undone[r] = 0
      BY <1>2, <3>1 DEF Whole
    <3>3. run'[r].status = "running"
      <4>1. CASE WakeRun(d)
        BY <4>1, WakeWorks
      <4>2. CASE SetVars(d) \/ Emit(d) \/ Branch(d) \/ Jump(d) \/ SkipDone(d) \/ RecordStep(d)
        BY <4>2, ForwardSteps
      <4>3. CASE Load(d) /\ run[drv[d].run].status = "running"
        BY <4>3 DEF Load
      <4>4. CASE StartStep(d) \/ RunAgent(d) \/ RunTool(d)
        BY <4>4, EffectWorks, AtHand DEF StartStep, RunAgent, RunTool, AtOp, At
      <4>. QED BY <2>1, <4>1, <4>2, <4>3, <4>4
    <3>. QED BY <1>1, <1>4, <1>5, <3>2, <3>3, GoesOnWhole
  <2>2. CASE Complete(d) \/ FailRun(d) \/ EndCompensation(d)
    <3>1. /\ drv'[d].at \in {"load", "promote", "ack", "wake"}
          /\ run'[r].status # "running"
      BY <2>2, CompleteWorks, CompensateWorks DEF Terminal
    <3>. QED BY <1>1, <1>4, <1>5, <3>1, GoesOnWhole
  <2>3. CASE LoadToFail(d) \/ BeginCompensation(d)
    <3>1. /\ drv[d].at = "compensate" /\ drv'[d].at \in {"failing", "undo"}
          /\ drv'[d].run = r /\ UNCHANGED run
      BY <2>3, UndoWorks DEF LoadToFail, BeginCompensation, At
    <3>2. Whole(d)'
      BY <1>1, <1>2, <1>5, <3>1 DEF Whole, Decided, Unbroken
    <3>. QED BY <1>4, <1>5, <3>2
  <2>4. CASE ResumeHuman(d) \/ ResumeTool(d)
    <3>1. drv[d].at = "deciding" /\ Decided(d) \in {"approved", "rejected"} /\ drv[d].msg # 0
      BY <2>4, DecidingFacts DEF ResumeHuman, ResumeTool, At, Decided
    <3>2. CASE Decided(d) = "approved"
      <4>1. undone[r] = 0 /\ run'[r].status = "running"
        BY <1>2, <2>4, <3>1, <3>2, ResumeWorks DEF Whole
      <4>. QED BY <1>1, <1>4, <1>5, <4>1, GoesOnWhole
    <3>3. CASE Decided(d) = "rejected"
      <4>1. /\ drv'[d].at = "compensate" /\ drv'[d].run = r
            /\ run'[r].status = "waiting"
        BY <2>4, <3>3, ResumeWorks DEF Writes
      <4>2. Whole(d)'
        BY <1>1, <1>2, <1>5, <3>1, <3>3, <4>1 DEF Whole, Decided, Unbroken
      <4>. QED BY <1>4, <1>5, <4>2
    <3>. QED BY <3>1, <3>2, <3>3
  <2>. QED BY <1>5, <2>1, <2>2, <2>3, <2>4 DEF HandStep
<1>. QED BY <1>1, <1>3, <1>5

(* What those steps leave of the tickets.                                  *)
LEMMA OtherTickets ==
  ASSUME GateInv, Setting, Owned, NEW d \in Drivers, Other(d)
  PROVE  /\ \A a \in Approvals :
              /\ appr'[a].status = appr[a].status /\ appr'[a].run = appr[a].run
              /\ appr'[a].pc = appr[a].pc
              /\ appr'[a].event = "queued" => appr[a].event = "queued"
              /\ appr[a].event = "queued" =>
                   \/ appr'[a].event = "queued"
                   \/ Ack(d) /\ drv[d].msg = a
         /\ \A a \in Approvals :
              InHand(d, a) /\ appr'[a].event = "queued" => InHand(d, a)' \/ Fail(d)
         /\ \A s \in Subs :
              /\ sub'[s].run = sub[s].run
              /\ sub'[s].status = "pending" => sub[s].status = "pending"
              /\ sub[s].status = "pending" =>
                   \/ sub'[s].status = "pending"
                   \/ Claim(d) /\ s \in drv'[d].subs /\ drv'[d].at = "wake"
              /\ (s \in drv'[d].subs /\ drv'[d].at # "claim") =>
                   s \in drv[d].subs /\ (drv[d].at # "claim" \/ sub[s].status = "pending")
<1>1. CASE Leaves(d)
  <2>1. Return(d) /\ UNCHANGED <<appr, sub>> /\ drv[d].at \in {"load", "insert", "promote"}
    BY <1>1, LeavesReturns
  <2>2. drv'[d].subs = drv[d].subs /\ drv'[d].msg = drv[d].msg /\ drv'[d].at \in {"ack", "wake"}
    BY <2>1, ReturnGives
  <2>. QED BY <2>1, <2>2 DEF InHand
<1>2. CASE Sees(d)
  <2>1. /\ UNCHANGED <<appr, sub>> /\ drv[d].msg = 0
        /\ drv'[d].at # "claim" => drv'[d].subs = {}
    BY <1>2, SeesMoves, IdleFacts
  <2>. QED BY <2>1, ProgramFacts DEF InHand
<1>3. CASE Ack(d)
  <2>1. /\ drv[d].at = "ack" /\ drv'[d] = Idle /\ UNCHANGED sub
        /\ IF drv[d].msg = 0 THEN UNCHANGED appr
           ELSE appr' = [appr EXCEPT ![drv[d].msg].event = "handled"]
    BY <1>3, Tables DEF Ack, At
  <2>2. \A a \in Approvals :
          /\ appr'[a].status = appr[a].status /\ appr'[a].run = appr[a].run
          /\ appr'[a].pc = appr[a].pc
          /\ \/ appr'[a].event = appr[a].event /\ drv[d].msg # a
             \/ appr'[a].event = "handled" /\ drv[d].msg = a
    <3>1. CASE drv[d].msg = 0
      BY <2>1, <3>1, ProgramFacts
    <3>2. CASE drv[d].msg # 0
      <4>1. PICK m \in Approvals : m = drv[d].msg
        BY <3>2, MsgFacts
      <4>2. appr' = [appr EXCEPT ![m] = [appr[m] EXCEPT !.event = "handled"]]
        BY <2>1, <3>2, <4>1, Tables
      <4>3. appr[m] \in ApprovalRows /\ \A a \in Approvals \ {m} : appr'[a] = appr[a]
        BY <4>2, Tables
      <4>4. appr'[m] = [appr[m] EXCEPT !.event = "handled"]
        BY <4>2, Tables
      <4>5. /\ appr'[m].status = appr[m].status /\ appr'[m].run = appr[m].run
            /\ appr'[m].pc = appr[m].pc /\ appr'[m].event = "handled"
        BY <4>3, <4>4 DEF ApprovalRows
      <4>. QED BY <4>1, <4>3, <4>5
    <3>. QED BY <3>1, <3>2
  <2>. QED BY <1>3, <2>1, <2>2 DEF InHand, Idle
<1>4. CASE Fail(d)
  <2>1. drv'[d] = Idle /\ UNCHANGED <<appr, sub>>
    BY <1>4, Tables DEF Fail
  <2>. QED BY <1>4, <2>1 DEF Idle
<1>5. CASE Claim(d) /\ drv[d].subs \subseteq Pending
  <2>1. drv[d].at = "claim" /\ UNCHANGED appr /\ Go(d, "wake")
    BY <1>5 DEF Claim, At
  <2>2. drv'[d].at = "wake" /\ drv'[d].subs = drv[d].subs /\ drv'[d].msg = drv[d].msg
    BY <2>1, GoGives
  <2>3. \A s \in Subs :
          /\ sub'[s].run = sub[s].run
          /\ s \in drv[d].subs => sub'[s].status \in {"matched", "expired"}
          /\ s \notin drv[d].subs => sub'[s] = sub[s]
    BY <1>5, Tables DEF Claim, SubscriptionRows
  <2>4. \A s \in drv[d].subs : sub[s].status = "pending"
    BY <1>5 DEF Pending
  <2>. QED BY <1>5, <2>1, <2>2, <2>3, <2>4 DEF InHand
<1>6. CASE LoadToWake(d)
  <2>1. /\ UNCHANGED <<appr, sub>> /\ drv[d].at = "wake" /\ drv[d].msg = 0
        /\ drv'[d].subs \subseteq drv[d].subs
    BY <1>6, WakeFinds
  <2>. QED BY <2>1, ProgramFacts DEF InHand
<1>7. CASE LoadToDecide(d)
  <2>1. drv[d].at = "decide" /\ UNCHANGED <<appr, sub>>
    BY <1>7 DEF LoadToDecide, At
  <2>2. drv'[d].subs = drv[d].subs
    <3>1. CASE Return(d)
      BY <3>1, ReturnGives
    <3>2. CASE ~ Return(d)
      <4>1. drv' = [drv EXCEPT ![d] = [drv[d] EXCEPT !.at = "deciding",
                                                     !.row = run[drv[d].run]]]
        BY <1>7, <3>2, Tables DEF LoadToDecide
      <4>. QED BY <4>1, Tables DEF DriverStates
    <3>. QED BY <3>1, <3>2
  <2>. QED BY <2>1, <2>2 DEF InHand
<1>8. ASSUME NEW a \in Approvals, TakeDecision(d, a)
      PROVE  /\ UNCHANGED <<appr, sub>> /\ drv[d].msg = 0
             /\ drv'[d].subs = drv[d].subs /\ drv[d].at = "idle"
  <2>1. drv[d].at = "idle" /\ UNCHANGED <<appr, sub>>
    BY <1>8 DEF TakeDecision, At
  <2>2. drv'[d].subs = drv[d].subs
    BY <1>8, Tables DEF TakeDecision, DriverStates
  <2>. QED BY <2>1, <2>2, IdleFacts
<1>9. CASE \E a \in Approvals : TakeDecision(d, a)
  BY <1>8, <1>9, ProgramFacts DEF InHand
<1>. QED BY <1>1, <1>2, <1>3, <1>4, <1>5, <1>6, <1>7, <1>9 DEF Other

LEMMA OtherOpens ==
  ASSUME GateInv, Setting, Owned, NEW d \in Drivers, Other(d)
  PROVE  /\ \A s \in Subs : OpenSub(s)' => OpenSub(s)
         /\ \A a \in Approvals : Awaits(a)' =>
              Awaits(a) \/ (Fail(d) /\ InHand(d, a) /\ Parked(a) /\ appr[a].event = "queued")
<1>1. UNCHANGED run /\ \A e \in Drivers \ {d} : drv'[e] = drv[e]
  BY OtherBeside
<1>2. \A s \in Subs : OpenSub(s)' => OpenSub(s)
  BY <1>1, OtherTickets DEF OpenSub
<1>3. ASSUME NEW a \in Approvals, Awaits(a)',
             ~ (Fail(d) /\ InHand(d, a) /\ Parked(a) /\ appr[a].event = "queued")
      PROVE  Awaits(a)
  <2>1. Parked(a)
    BY <1>1, <1>3, OtherTickets DEF Awaits, Parked, Waits
  <2>2. /\ appr'[a].status = appr[a].status
        /\ appr'[a].event = "queued" => appr[a].event = "queued"
        /\ InHand(d, a) /\ appr'[a].event = "queued" => InHand(d, a)'
    BY <1>3, <2>1, OtherTickets
  <2>3. \A e \in Drivers \ {d} : InHand(e, a) => InHand(e, a)'
    BY <1>1 DEF InHand
  <2>. QED BY <1>3, <2>1, <2>2, <2>3 DEF Awaits, OpenAppr
<1>. QED BY <1>2, <1>3

LEMMA OtherIntact ==
  ASSUME GateInv, GateInv', Setting, Owned, Intact, Orderly', [Next]_vars,
         NEW d \in Drivers, Other(d)
  PROVE  Intact'
<1>1. UNCHANGED <<run, undone>> /\ \A e \in Drivers \ {d} : drv'[e] = drv[e]
  BY OtherBeside
<1>2. Unbroken' => Unbroken
  BY MishapsGrow DEF Unbroken
<1>3. /\ \A a \in Approvals : appr'[a].status = appr[a].status /\ appr'[a].run = appr[a].run
      /\ \A s \in Subs : sub'[s].run = sub[s].run
  BY OtherTickets
<1>4. ASSUME NEW e \in Drivers \ {d} PROVE Whole(e)'
  <2>1. drv'[e] = drv[e] /\ (drv[e].msg # 0 => Decided(e)' = Decided(e))
    BY <1>1, <1>3, MsgFacts DEF Decided
  <2>2. drv[e].at = "deciding" => drv[e].msg # 0
    BY DecidingFacts
  <2>. QED BY <1>1, <1>2, <2>1, <2>2 DEF Intact, Whole
<1>5. Whole(d)'
  <2>1. CASE drv'[d].at = "waking"
    <3>1. \E s \in Subs : OpenSub(s) /\ drv'[d].run = sub[s].run
      BY <2>1, OtherBeside, WakeFinds
    <3>. QED BY <1>1, <2>1, <3>1 DEF Intact, Whole
  <2>2. CASE drv'[d].at = "deciding"
    <3>. PICK m \in Approvals : m = drv[d].msg /\ drv[d].run = appr[m].run
      BY <2>2, OtherBeside, Tables DEF LoadToDecide, At, DriverShaped
    <3>1. LoadToDecide(d) /\ drv[d].at = "decide" /\ UNCHANGED appr
      BY <2>2, OtherBeside DEF LoadToDecide, At
    <3>2. drv' = [drv EXCEPT ![d] = [drv[d] EXCEPT !.at = "deciding", !.row = run[drv[d].run]]]
      BY <2>2, <3>1, ReturnGives, Tables DEF LoadToDecide
    <3>3. drv'[d].msg = m /\ drv'[d].run = appr[m].run /\ run[appr[m].run].status = "waiting"
      BY <2>2, <3>1, <3>2, ReturnGives, Tables DEF DriverStates, LoadToDecide
    <3>4. run[appr[m].run].cursor = appr[m].pc
      <4>1. run[appr[m].run].cursor # appr[m].pc => mishaps' = mishaps \cup {"stray decision"}
        BY <3>1, <3>3 DEF LoadToDecide, Record
      <4>. QED BY <4>1 DEF Orderly, Handovers
    <3>5. OpenAppr(m)
      <4>1. appr[m].event = "queued" /\ \A e \in Drivers : drv[e].msg = m => e = d
        BY <3>1, ProgramFacts DEF Owned, Carries, Sole
      <4>. QED BY <3>1, <4>1 DEF OpenAppr, InHand
    <3>6. Unbroken \/ appr[m].status # "rejected" => undone[appr[m].run] = 0
      BY <3>3, <3>4, <3>5 DEF Intact, Awaits, Parked, Waits
    <3>. QED BY <1>1, <1>2, <2>2, <3>1, <3>3, <3>6 DEF Whole, Decided
  <2>3. CASE drv'[d].at \notin {"waking", "deciding"}
    BY <2>3, OtherBeside DEF Whole, HandPoints
  <2>. QED BY <2>1, <2>2, <2>3
<1>6. \A r \in Runs : run'[r].status = "absent" => undone'[r] = 0
  BY <1>1 DEF Intact
<1>7. \A s \in Subs : OpenSub(s)' => undone'[sub'[s].run] = 0
  BY <1>1, <1>3, OtherOpens DEF Intact
<1>8. ASSUME NEW a \in Approvals, Awaits(a)', Unbroken' \/ appr'[a].status # "rejected"
      PROVE  undone'[appr'[a].run] = 0
  <2>1. CASE Awaits(a)
    BY <1>1, <1>2, <1>3, <1>8, <2>1 DEF Intact
  <2>2. CASE Fail(d) /\ InHand(d, a) /\ Parked(a)
    <3>1. drv[d].msg = a /\ drv[d].at # "decide" /\ drv[d].msg # 0
      BY <2>2, ProgramFacts DEF InHand
    <3>2. drv[d].at \in Deciding /\ drv[d].run = appr[a].run
      BY <2>2, <3>1 DEF Owned, Carries, Deciding, HandPoints
    <3>3. Whole(d) /\ run[drv[d].run].status = "waiting" /\ Decided(d) = appr[a].status
      BY <2>2, <3>1, <3>2 DEF Intact, Parked, Waits, Decided
    <3>4. Unbroken' => drv[d].at # "undo"
      BY <2>2 DEF Fail, Unbroken, Mishaps, At
    <3>. QED BY <1>1, <1>2, <1>3, <1>8, <3>2, <3>3, <3>4 DEF Whole, Deciding
  <2>. QED BY <1>8, <2>1, <2>2, OtherOpens
<1>. QED BY <1>4, <1>5, <1>6, <1>7, <1>8 DEF Intact

LEMMA ParkIntact ==
  ASSUME GateInv, GateInv', Owned, Intact, NEW d \in Drivers, Parks(d)
  PROVE  Intact'
<1>. PICK r \in Runs : r = drv[d].run
  BY ParksBeside
<1>1. /\ run'[r].status = "waiting" /\ \A q \in Runs \ {r} : run'[q] = run[q]
      /\ UNCHANGED <<undone, mishaps>> /\ drv'[d].at \in {"ack", "wake", "load"}
      /\ drv'[d].at = "load" => drv'[d].run = r
      /\ \A e \in Drivers \ {d} :
           /\ drv'[e] = drv[e]
           /\ drv[e].at \in HandPoints \cup {"load"} => run'[drv[e].run] = run[drv[e].run]
  BY ParksBeside DEF Writes
<1>2. undone[r] = 0
  BY ParksBeside DEF Intact, Whole
<1>3. /\ \A e \in Drivers : drv'[e].msg = drv[e].msg /\ drv'[e].subs = drv[e].subs
      /\ \A e \in Drivers : drv'[e].at = "claim" <=> drv[e].at = "claim"
      /\ \A a \in Approvals, e \in Drivers : InHand(e, a)' <=> InHand(e, a)
  BY ParkFinds, HandedOver
<1>4. /\ \A a \in Approvals : appr'[a] = appr[a] \/ Added(a, r, run[r].cursor)
      /\ \A s \in Subs : sub'[s] = sub[s] \/ AddedSub(s, r, run[r].cursor)
  BY ParkAdds
<1>5. ASSUME NEW e \in Drivers \ {d} PROVE Whole(e)'
  <2>1. drv[e].msg # 0 => Decided(e)' = Decided(e)
    <3>1. drv[e].msg # 0 => appr'[drv[e].msg] = appr[drv[e].msg]
      BY <1>4, MsgFacts DEF Added
    <3>. QED BY <1>1, <3>1 DEF Decided
  <2>2. drv[e].at = "deciding" => drv[e].msg # 0
    BY DecidingFacts
  <2>3. /\ drv'[e] = drv[e] /\ Whole(e) /\ undone' = undone /\ (Unbroken' <=> Unbroken)
        /\ drv[e].at \in HandPoints \cup {"load"} => run'[drv[e].run] = run[drv[e].run]
    BY <1>1 DEF Intact, Unbroken
  <2>. QED BY <2>1, <2>2, <2>3, SMTT(30) DEF Whole, HandPoints
<1>6. Whole(d)'
  BY <1>1 DEF Whole
<1>7. ASSUME NEW s \in Subs, OpenSub(s)' PROVE undone'[sub'[s].run] = 0
  <2>1. CASE AddedSub(s, r, run[r].cursor)
    BY <1>1, <1>2, <2>1 DEF AddedSub
  <2>2. CASE sub'[s] = sub[s]
    <3>1. OpenSub(s)
      BY <1>3, <1>7, <2>2 DEF OpenSub
    <3>. QED BY <1>1, <2>2, <3>1 DEF Intact
  <2>. QED BY <1>4, <2>1, <2>2
<1>8. ASSUME NEW a \in Approvals, Awaits(a)', Unbroken' \/ appr'[a].status # "rejected"
      PROVE  undone'[appr'[a].run] = 0
  <2>1. CASE Added(a, r, run[r].cursor)
    BY <1>1, <1>2, <2>1 DEF Added
  <2>2. CASE appr'[a] = appr[a] /\ appr[a].run # r
    <3>1. OpenAppr(a)
      BY <1>3, <1>8, <2>2 DEF Awaits, OpenAppr
    <3>2. Parked(a)
      BY <1>1, <1>8, <2>2, <3>1, OpenApprExists DEF Awaits, Parked, Waits
    <3>. QED BY <1>1, <1>8, <2>2, <3>1, <3>2 DEF Intact, Awaits, Unbroken
  <2>. QED BY <1>1, <1>2, <1>4, <2>1, <2>2
<1>9. \A q \in Runs : run'[q].status = "absent" => undone'[q] = 0
  BY <1>1 DEF Intact
<1>. QED BY <1>5, <1>6, <1>7, <1>8, <1>9 DEF Intact

LEMMA InsertIntact ==
  ASSUME GateInv, GateInv', Setting, Owned, Intact, [Next]_vars,
         NEW d \in Drivers, InsertRun(d)
  PROVE  Intact'
<1>1. PICK new \in Runs :
        /\ run[new].status = "absent" /\ run'[new].status = "running"
        /\ drv'[d].run = new /\ \A q \in Runs \ {new} : run'[q] = run[q]
        /\ \A e \in Drivers : ~ Near(e, new)
        /\ \A a \in Approvals : appr[a].status # "absent" => appr[a].run # new
  BY InsertBeside
<1>2. /\ UNCHANGED <<appr, sub, undone>> /\ drv[d].at = "insert" /\ drv'[d].at = "load"
      /\ drv'[d].subs = drv[d].subs /\ drv'[d].msg = drv[d].msg /\ drv[d].msg = 0
      /\ \A e \in Drivers \ {d} : drv'[e] = drv[e]
  BY InsertBeside
<1>3. Unbroken' => Unbroken
  BY MishapsGrow DEF Unbroken
<1>4. undone[new] = 0 /\ \A q \in Runs : run'[q].status = "absent" => undone'[q] = 0
  BY <1>1, <1>2 DEF Intact
<1>5. ASSUME NEW e \in Drivers \ {d} PROVE Whole(e)'
  <2>1. drv[e].at \in HandPoints \cup {"load"} => run'[drv[e].run] = run[drv[e].run]
    BY <1>1, NearHasRun DEF Near
  <2>. QED BY <1>2, <1>3, <2>1 DEF Intact, Whole, HandPoints, Decided
<1>6. Whole(d)'
  BY <1>1, <1>2, <1>4 DEF Whole
<1>7. \A s \in Subs : OpenSub(s)' => OpenSub(s)
  BY <1>2 DEF OpenSub
<1>8. ASSUME NEW a \in Approvals, Awaits(a)', Unbroken' \/ appr'[a].status # "rejected"
      PROVE  undone'[appr'[a].run] = 0
  <2>1. OpenAppr(a)
    <3>1. ~ InHand(d, a)
      BY <1>2, ProgramFacts DEF InHand
    <3>2. \A e \in Drivers \ {d} : InHand(e, a) => InHand(e, a)'
      BY <1>2 DEF InHand
    <3>. QED BY <1>2, <1>8, <3>1, <3>2 DEF Awaits, OpenAppr
  <2>2. Parked(a)
    BY <1>1, <1>2, <1>8, <2>1, OpenApprExists DEF Awaits, Parked, Waits
  <2>. QED BY <1>2, <1>3, <1>8, <2>1, <2>2 DEF Intact, Awaits
<1>. QED BY <1>2, <1>4, <1>5, <1>6, <1>7, <1>8 DEF Intact

LEMMA DecideIntact ==
  ASSUME GateInv, Owned, Intact, NEW a \in Approvals, Resolve(a) \/ Expire(a)
  PROVE  Intact'
<1>1. /\ UNCHANGED <<run, sub, drv, undone, mishaps>> /\ appr[a].status = "pending"
      /\ \A b \in Approvals \ {a} : appr'[b] = appr[b]
      /\ appr'[a].run = appr[a].run /\ appr'[a].pc = appr[a].pc
  BY DecideChanges
<1>2. ASSUME NEW e \in Drivers PROVE Whole(e)'
  <2>1. drv[e].msg # 0 => drv[e].msg \in Approvals \ {a}
    BY <1>1, MsgFacts
  <2>2. drv[e].msg # 0 => Decided(e)' = Decided(e)
    BY <1>1, <2>1 DEF Decided
  <2>3. drv[e].at = "deciding" => drv[e].msg # 0
    BY DecidingFacts
  <2>. QED BY <1>1, <2>2, <2>3 DEF Intact, Whole, Unbroken
<1>3. \A s \in Subs : OpenSub(s)' => OpenSub(s)
  BY <1>1 DEF OpenSub
<1>4. ASSUME NEW b \in Approvals, Awaits(b)', Unbroken' \/ appr'[b].status # "rejected"
      PROVE  undone'[appr'[b].run] = 0
  <2>1. CASE b = a
    <3>1. Awaits(a)
      BY <1>1, <1>4, <2>1 DEF Awaits, OpenAppr, Parked, Waits
    <3>. QED BY <1>1, <2>1, <3>1 DEF Intact
  <2>2. CASE b # a
    <3>1. Awaits(b)
      BY <1>1, <1>4, <2>2 DEF Awaits, OpenAppr, InHand, Parked, Waits
    <3>. QED BY <1>1, <1>4, <2>2, <3>1 DEF Intact, Unbroken
  <2>. QED BY <2>1, <2>2
<1>. QED BY <1>1, <1>2, <1>3, <1>4 DEF Intact

LEMMA IntactStep ==
  ASSUME GateInv, GateInv', Setting, Orderly', Owned, Intact, [Next]_vars
  PROVE  Intact'
<1>1. ASSUME NEW d \in Drivers, HandStep(d) \/ Parks(d) \/ Other(d) \/ InsertRun(d)
      PROVE  Intact'
  BY <1>1, HandStepIntact, ParkIntact, OtherIntact, InsertIntact
<1>2. ASSUME NEW a \in Approvals, Resolve(a) \/ Expire(a) PROVE Intact'
  BY <1>2, DecideIntact
<1>3. CASE UNCHANGED vars
  BY <1>3 DEF vars, Intact, Whole, Unbroken, Decided, OpenSub, Awaits, OpenAppr, InHand,
     Parked, Waits
<1>. QED BY <1>1, <1>2, <1>3, StepKinds

LEMMA IntactInit == Init => Intact
BY ProgramFacts DEF Init, NewRow, Intact, Whole, Idle, OpenSub, Awaits, OpenAppr

-----------------------------------------------------------------------------
(* How many compensators ran                                               *)

LEMMA CountedApart ==
  ASSUME GateInv, GateInv', Owned, Counted, NEW d \in Drivers, Works(d),
         NEW r \in Runs, r = drv[d].run, Unbroken,
         \A q \in Runs \ {r} : undone'[q] = undone[q],
         undone'[r] <= Compensators,
         run'[r].status \in {"compensated", "compensated_partial"}
           => undone'[r] = Compensators,
         drv'[d].at # "undo" => drv'[d].count = 0,
         drv'[d].at = "undo" => undone'[r] = drv'[d].count
  PROVE  Counted'
<1>1. \A q \in Runs \ {r} : run'[q] = run[q] /\ undone'[q] = undone[q]
  BY WorksBeside
<1>2. \A e \in Drivers \ {d} :
        /\ drv'[e] = drv[e]
        /\ drv[e].at = "undo" => undone'[drv[e].run] = undone[drv[e].run]
  BY <1>1, WorksBeside DEF HandPoints
<1>3. drv'[d].at = "undo" => drv'[d].run = r
  BY WorksBeside DEF HandPoints
<1>. QED BY <1>1, <1>2, <1>3 DEF Counted

LEMMA HandStepCounted ==
  ASSUME GateInv, GateInv', Setting, Owned, Intact, Counted, Unbroken,
         NEW d \in Drivers, HandStep(d)
  PROVE  Counted'
<1>1. Works(d)
  BY HandStepWorks
<1>. PICK r \in Runs : r = drv[d].run
  BY <1>1, WorksBeside
<1>2. /\ undone[r] <= Compensators /\ run[r].status \in Live
      /\ drv[d].at # "undo" => drv[d].count = 0
      /\ drv[d].at = "undo" => undone[r] = drv[d].count
      /\ drv[d].at = "compensate" => undone[r] = 0
  BY <1>1, EngagedFacts DEF Counted, Works, Intact, Whole
<1>3. CASE RunCompensator(d)
  <2>1. /\ drv[d].at = "undo" /\ drv'[d].at = "undo" /\ UNCHANGED run
        /\ drv[d].count \in Nat /\ drv[d].count < Compensators
        /\ undone'[r] = undone[r] + 1 /\ drv'[d].count = drv[d].count + 1
        /\ \A q \in Runs \ {r} : undone'[q] = undone[q]
    BY <1>3, CompensatorUndoes, UndoWorks
  <2>2. undone'[r] <= Compensators /\ undone'[r] = drv'[d].count
    BY <1>2, <2>1, EngineAssumption
  <2>. QED BY <1>1, <1>2, <2>1, <2>2, CountedApart DEF Live
<1>4. ASSUME UNCHANGED undone, drv'[d].at # "undo", drv'[d].count = 0,
             run'[r].status \notin {"compensated", "compensated_partial"}
                \/ undone[r] = Compensators
      PROVE  Counted'
  BY <1>1, <1>2, <1>4, CountedApart
<1>5. CASE UNCHANGED undone /\ ~ RunCompensator(d)
  <2>1. CASE Load(d) /\ run[drv[d].run].status = "running"
    <3>1. UNCHANGED run /\ drv[d].at = "load"
      BY <2>1 DEF Load, At
    <3>. QED BY <1>2, <1>4, <1>5, <2>1, <3>1, LoadRunning DEF Live
  <2>2. CASE StartStep(d) \/ RunAgent(d) \/ RunTool(d)
    <3>1. drv[d].at # "undo"
      BY <2>2 DEF StartStep, RunAgent, RunTool, AtOp, At
    <3>. QED BY <1>2, <1>4, <1>5, <2>2, <3>1, EffectWorks DEF Live
  <2>3. CASE Complete(d)
    <3>1. drv[d].at # "undo"
      BY <2>3 DEF Complete, AtOp, At
    <3>. QED BY <1>2, <1>4, <1>5, <2>3, <3>1, CompleteWorks
  <2>4. CASE SetVars(d) \/ Emit(d) \/ Branch(d) \/ Jump(d) \/ SkipDone(d) \/ RecordStep(d)
    <3>1. Again(d)
      BY <2>4 DEF SetVars, Emit, Branch, Jump, SkipDone, RecordStep
    <3>2. drv'[d].at = "load" /\ drv'[d].count = 0
      BY <3>1, AdvanceGives DEF Again
    <3>. QED BY <1>4, <1>5, <2>4, <3>2, ForwardSteps
  <2>5. CASE WakeRun(d)
    BY <1>4, <1>5, <2>5, WakeWorks
  <2>6. CASE ResumeHuman(d) \/ ResumeTool(d)
    <3>1. drv[d].at = "deciding"
      BY <2>6, DecisionWorks
    <3>. QED BY <1>2, <1>4, <1>5, <2>6, <3>1, ResumeWorks DEF Writes
  <2>7. CASE FailRun(d)
    <3>1. run'[r].status = "failed"
      <4>1. MoveCursorAs(r, drv[d].row.cursor, "failed")
        BY <2>7 DEF FailRun
      <4>. QED BY <4>1, CursorWritesAs DEF Writes
    <3>. QED BY <1>4, <1>5, <2>7, <3>1, CompensateWorks
  <2>8. CASE EndCompensation(d)
    <3>1. undone[r] = Compensators
      BY <1>2, <2>8 DEF EndCompensation, At
    <3>. QED BY <1>4, <1>5, <2>8, <3>1, CompensateWorks
  <2>9. CASE LoadToFail(d)
    <3>1. drv' = [drv EXCEPT ![d] = [drv[d] EXCEPT !.at = "failing", !.row = run[drv[d].run]]]
      BY <2>9, Tables DEF LoadToFail
    <3>2. drv'[d].count = drv[d].count /\ drv'[d].at = "failing"
      BY <3>1, Tables DEF DriverStates
    <3>3. UNCHANGED run /\ drv[d].at = "compensate"
      BY <2>9 DEF LoadToFail, At
    <3>. QED BY <1>2, <1>4, <1>5, <3>2, <3>3 DEF Live
  <2>10. CASE BeginCompensation(d)
    <3>1. /\ drv[d].at = "compensate" /\ drv'[d].at = "undo" /\ UNCHANGED run
          /\ drv'[d].count = drv[d].count
      BY <2>10, GoGives DEF BeginCompensation, At
    <3>. QED BY <1>1, <1>2, <1>5, <3>1, CountedApart DEF Live
  <2>. QED BY <1>5, <2>1, <2>2, <2>3, <2>4, <2>5, <2>6, <2>7, <2>8, <2>9, <2>10 DEF HandStep
<1>. QED BY <1>3, <1>5, HandStepFires

LEMMA CountedStep ==
  ASSUME GateInv, GateInv', Setting, Orderly', Owned, Intact, Counted, [Next]_vars
  PROVE  Counted'
<1>1. Unbroken' => Unbroken
  BY MishapsGrow DEF Unbroken
<1>2. SUFFICES ASSUME Unbroken PROVE Counted'
  BY <1>1 DEF Counted
<1>3. ASSUME NEW d \in Drivers, HandStep(d) PROVE Counted'
  BY <1>2, <1>3, HandStepCounted
<1>4. ASSUME NEW d \in Drivers, Parks(d) PROVE Counted'
  BY <1>2, <1>4, ParksBeside DEF Counted, Writes
<1>5. ASSUME NEW d \in Drivers, Other(d) PROVE Counted'
  <2>1. /\ UNCHANGED <<run, undone>> /\ \A e \in Drivers \ {d} : drv'[e] = drv[e]
        /\ drv'[d].at # "undo"
        /\ drv'[d].count = 0 \/ (drv[d].at # "undo" /\ drv'[d].count = drv[d].count)
    BY <1>5, OtherBeside DEF HandPoints
  <2>2. drv'[d].count = 0
    BY <1>2, <2>1 DEF Counted
  <2>. QED BY <1>2, <2>1, <2>2 DEF Counted
<1>6. ASSUME NEW d \in Drivers, InsertRun(d) PROVE Counted'
  BY <1>2, <1>6, InsertBeside DEF Counted
<1>7. ASSUME NEW a \in Approvals, Resolve(a) \/ Expire(a) PROVE Counted'
  BY <1>7, DecideChanges DEF Counted, Unbroken
<1>8. CASE UNCHANGED vars
  BY <1>8 DEF vars, Counted, Unbroken
<1>. QED BY <1>3, <1>4, <1>5, <1>6, <1>7, <1>8, StepKinds

LEMMA CountedInit == Init => Counted
BY EngineAssumption DEF Init, NewRow, Idle, Counted

-----------------------------------------------------------------------------
(* Endings and the concurrency policy                                      *)

LEMMA EndsStep ==
  ASSUME GateInv, GateInv', Setting, Orderly', Owned, Intact, [Next]_vars
  PROVE  TerminalIsFinal /\ SagaOrder
<1>1. ASSUME NEW d \in Drivers, HandStep(d) PROVE TerminalIsFinal /\ SagaOrder
  <2>. PICK r \in Runs : r = drv[d].run
    BY <1>1, HandStepWorks, WorksBeside
  <2>1. run[r].status \in Live /\ \A q \in Runs \ {r} : run'[q] = run[q]
    BY <1>1, HandStepWorks, WorksBeside, EngagedFacts DEF Works
  <2>2. TerminalIsFinal
    BY <2>1 DEF TerminalIsFinal, Live, Terminal
  <2>3. CASE UNCHANGED fired
    BY <2>2, <2>3 DEF SagaOrder
  <2>4. CASE Emit(d) \/ RunAgent(d) \/ RunTool(d)
    <3>1. /\ drv[d].at \in {"exec", "effect"}
          /\ UNCHANGED fired \/ Fire(r, drv[d].row.cursor)
      BY <2>4 DEF Emit, RunAgent, RunTool, AtOp, At
    <3>2. run[r].status = "running" /\ undone[r] = 0
      BY <3>1, AtHand DEF Intact, Whole
    <3>3. \A q \in Runs \ {r} : fired'[q] = fired[q]
      BY <3>1 DEF Fire, GateInv, Shaped, TypeOK
    <3>. QED BY <2>2, <3>2, <3>3 DEF SagaOrder
  <2>. QED BY <1>1, <2>3, <2>4, HandStepFires
<1>2. ASSUME NEW d \in Drivers, Parks(d) PROVE TerminalIsFinal /\ SagaOrder
  BY <1>2, ParksBeside DEF Writes, Terminal, TerminalIsFinal, SagaOrder
<1>3. ASSUME NEW d \in Drivers, InsertRun(d) PROVE TerminalIsFinal /\ SagaOrder
  BY <1>3, InsertBeside DEF Terminal, TerminalIsFinal, SagaOrder
<1>4. ASSUME NEW d \in Drivers, Other(d) PROVE TerminalIsFinal /\ SagaOrder
  BY <1>4, OtherBeside DEF TerminalIsFinal, SagaOrder
<1>5. ASSUME NEW a \in Approvals, Resolve(a) \/ Expire(a) PROVE TerminalIsFinal /\ SagaOrder
  BY <1>5, DecideChanges DEF TerminalIsFinal, SagaOrder
<1>6. CASE UNCHANGED vars
  BY <1>6 DEF vars, TerminalIsFinal, SagaOrder
<1>. QED BY <1>1, <1>2, <1>3, <1>4, <1>5, <1>6, StepKinds

LEMMA OneLiveStep ==
  ASSUME GateInv, GateInv', Setting, Orderly', Owned, OneLive, [Next]_vars
  PROVE  OneLive'
<1>1. mishaps \subseteq mishaps'
  BY MishapsGrow
<1>2. SUFFICES ASSUME Policy = "drop", "overlapping start" \notin mishaps' PROVE OneLive'
  BY DEF OneLive
<1>3. /\ \A q, r \in Runs : (run[q].status \in Live /\ run[r].status \in Live) => q = r
      /\ \A d \in Drivers : (drv[d].at = "insert" /\ drv[d].live = {}) =>
           \A r \in Runs : run[r].status \notin Live
  BY <1>1, <1>2 DEF OneLive
<1>4. ASSUME NEW d \in Drivers, \A e \in Drivers \ {d} : drv'[e] = drv[e],
             drv'[d].at # "insert",
             \A q \in Runs : run'[q].status \in Live => run[q].status \in Live
      PROVE  OneLive'
  BY <1>3, <1>4 DEF OneLive
<1>5. ASSUME NEW d \in Drivers, HandStep(d) PROVE OneLive'
  <2>1. Works(d)
    BY <1>5, HandStepWorks
  <2>2. /\ run[drv[d].run].status \in Live /\ \A q \in Runs \ {drv[d].run} : run'[q] = run[q]
        /\ \A e \in Drivers \ {d} : drv'[e] = drv[e]
        /\ drv'[d].at # "insert"
    BY <2>1, WorksBeside, EngagedFacts DEF Works
  <2>. QED BY <1>4, <2>2
<1>6. ASSUME NEW d \in Drivers, Parks(d) PROVE OneLive'
  BY <1>4, <1>6, ParksBeside DEF Writes, Live
<1>7. ASSUME NEW d \in Drivers, InsertRun(d) PROVE OneLive'
  <2>1. /\ drv[d].at = "insert" /\ drv[d].live = {} /\ drv'[d].at = "load"
        /\ \A e \in Drivers \ {d} : drv'[e] = drv[e] /\ drv[e].at # "insert"
        /\ \E new \in Runs : \A q \in Runs \ {new} : run'[q] = run[q]
    BY <1>2, <1>7, InsertReads, InsertBeside DEF Record, At
  <2>2. \A q \in Runs : run[q].status \notin Live
    BY <1>3, <2>1
  <2>. QED BY <2>1, <2>2 DEF OneLive
<1>8. ASSUME NEW d \in Drivers, Other(d) PROVE OneLive'
  <2>1. /\ UNCHANGED run /\ \A e \in Drivers \ {d} : drv'[e] = drv[e]
        /\ drv'[d].at = "insert" => StartRun(d)
    BY <1>8, OtherBeside
  <2>2. CASE drv'[d].at # "insert"
    BY <1>4, <2>1, <2>2
  <2>3. CASE StartRun(d)
    <3>1. drv' = [drv EXCEPT ![d] = [drv[d] EXCEPT !.at = "insert",
                    !.live = {r \in Runs : run[r].status \in Live}]]
      BY <1>2, <2>3, Tables DEF StartRun
    <3>2. drv'[d].live = {r \in Runs : run[r].status \in Live}
      BY <3>1, Tables DEF DriverStates
    <3>. QED BY <1>3, <2>1, <3>2 DEF OneLive
  <2>. QED BY <2>1, <2>2, <2>3
<1>9. ASSUME NEW a \in Approvals, Resolve(a) \/ Expire(a) PROVE OneLive'
  BY <1>3, <1>9, DecideChanges DEF OneLive
<1>10. CASE UNCHANGED vars
  BY <1>3, <1>10 DEF vars, OneLive
<1>. QED BY <1>5, <1>6, <1>7, <1>8, <1>9, <1>10, StepKinds

LEMMA OneLiveInit == Init => OneLive
BY DEF Init, NewRow, Idle, OneLive, Live

-----------------------------------------------------------------------------
(* What will wake a parked run                                             *)

LEMMA EmptiedStep ==
  ASSUME GateInv, GateInv', Setting, Orderly', Owned, Emptied, [Next]_vars
  PROVE  Emptied'
<1>1. ASSUME NEW d \in Drivers, \A e \in Drivers \ {d} : drv'[e] = drv[e],
             drv'[d].at = "ack" => drv'[d].subs = {}
      PROVE  Emptied'
  BY <1>1 DEF Emptied
<1>2. ASSUME NEW d \in Drivers, Return(d) PROVE drv'[d].at = "ack" => drv'[d].subs = {}
  BY <1>2, ReturnGives
<1>3. ASSUME NEW d \in Drivers, Again(d) PROVE drv'[d].at = "load"
  BY <1>3, AdvanceGives DEF Again
<1>4. ASSUME NEW d \in Drivers, HandStep(d) PROVE Emptied'
  <2>1. \A e \in Drivers \ {d} : drv'[e] = drv[e]
    BY <1>4, HandStepWorks, WorksBeside
  <2>2. CASE \/ SetVars(d) \/ Emit(d) \/ Branch(d) \/ Jump(d) \/ SkipDone(d) \/ RecordStep(d)
             \/ FailRun(d) \/ EndCompensation(d)
    <3>1. Again(d) \/ Return(d)
      BY <2>2 DEF SetVars, Emit, Branch, Jump, SkipDone, RecordStep, FailRun,
         EndCompensation, Compensated
    <3>. QED BY <1>1, <1>2, <1>3, <2>1, <3>1
  <2>3. CASE ~ (\/ SetVars(d) \/ Emit(d) \/ Branch(d) \/ Jump(d) \/ SkipDone(d)
                \/ RecordStep(d) \/ FailRun(d) \/ EndCompensation(d))
    <3>1. drv'[d].at # "ack"
      BY <1>4, <2>3, LoadRunning, EffectWorks, CompleteWorks, UndoWorks, WakeWorks,
         ResumeWorks DEF HandStep
    <3>. QED BY <1>1, <2>1, <3>1
  <2>. QED BY <2>2, <2>3
<1>5. ASSUME NEW d \in Drivers, Parks(d) PROVE Emptied'
  <2>1. Again(d) \/ Return(d)
    BY <1>5 DEF Parks, ParkWait, ParkHuman, ParkTool
  <2>2. \A e \in Drivers \ {d} : drv'[e] = drv[e]
    BY <1>5, ParksBeside
  <2>. QED BY <1>1, <1>2, <1>3, <2>1, <2>2
<1>6. ASSUME NEW d \in Drivers, Other(d) PROVE Emptied'
  BY <1>1, <1>6, OtherBeside
<1>7. ASSUME NEW d \in Drivers, InsertRun(d) PROVE Emptied'
  BY <1>1, <1>7, InsertBeside
<1>8. ASSUME NEW a \in Approvals, Resolve(a) \/ Expire(a) PROVE Emptied'
  BY <1>8, DecideChanges DEF Emptied
<1>9. CASE UNCHANGED vars
  BY <1>9 DEF vars, Emptied
<1>. QED BY <1>4, <1>5, <1>6, <1>7, <1>8, <1>9, StepKinds

(* The approval that will move run r on, and the driver about to wake it. *)
Summons(a, r) ==
  /\ appr[a].run = r /\ Parked(a)
  /\ appr[a].status \in {"pending", "expired"} \/ appr[a].event = "queued"

Waking(d, r) == drv[d].at = "waking" /\ drv[d].run = r

LEMMA TicketMeans ==
  ASSUME NEW r
  PROVE  HasTicket(r) <=> \/ \E s \in Subs : OpenSub(s) /\ sub[s].run = r
                          \/ \E d \in Drivers : Waking(d, r)
                          \/ \E a \in Approvals : Summons(a, r)
BY DEF HasTicket, Summons, Waking

LEMMA SummonsExists ==
  ASSUME GateInv, NEW a \in Approvals, NEW r, Summons(a, r)
  PROVE  appr[a].status # "absent"
BY Tables DEF Summons, RowsShaped

(* What keeps the tickets of run r. *)
LEMMA TicketKept ==
  ASSUME NEW r \in Runs, HasTicket(r),
         \A s \in Subs : OpenSub(s) /\ sub[s].run = r =>
           OpenSub(s)' /\ sub'[s].run = r,
         \A e \in Drivers : Waking(e, r) => drv'[e].at = "waking" /\ drv'[e].run = r,
         \A a \in Approvals : Summons(a, r) =>
           /\ appr'[a].run = r /\ appr'[a].pc = appr[a].pc
           /\ appr'[a].status \in {"pending", "expired"} \/ appr'[a].event = "queued",
         run'[r].status = run[r].status, run'[r].cursor = run[r].cursor
  PROVE  HasTicket(r)'
<1>1. CASE \E s \in Subs : OpenSub(s) /\ sub[s].run = r
  BY <1>1 DEF HasTicket
<1>2. CASE \E d \in Drivers : Waking(d, r)
  BY <1>2 DEF HasTicket, Waking
<1>3. ASSUME NEW a \in Approvals, Summons(a, r) PROVE HasTicket(r)'
  <2>1. /\ appr'[a].run = r /\ appr'[a].pc = appr[a].pc
        /\ appr'[a].status \in {"pending", "expired"} \/ appr'[a].event = "queued"
    BY <1>3
  <2>2. Parked(a)'
    BY <1>3, <2>1 DEF Summons, Parked, Waits
  <2>. QED BY <2>1, <2>2 DEF HasTicket
<1>. QED BY <1>1, <1>2, <1>3, TicketMeans

LEMMA HandStepTickets ==
  ASSUME GateInv, GateInv', Setting, Owned, NEW d \in Drivers, HandStep(d),
         NEW r \in Runs, run'[r].status = "waiting",
         run[r].status = "waiting" => HasTicket(r)
  PROVE  HasTicket(r)'
<1>1. /\ Works(d) /\ UNCHANGED <<appr, sub>>
      /\ \A q \in Runs \ {drv[d].run} : run'[q] = run[q]
      /\ \A e \in Drivers \ {d} : drv'[e] = drv[e]
  BY HandStepWorks, WorksBeside
<1>2. /\ run[r].status = "waiting" /\ run'[r].cursor = run[r].cursor
  BY <1>1 DEF Works
<1>3. /\ drv'[d].subs = drv[d].subs /\ drv[d].at # "claim" /\ drv'[d].at # "claim"
  BY <1>1, EngagedFacts DEF Works
<1>4. \A s \in Subs : OpenSub(s) => OpenSub(s)'
  BY <1>1, <1>3 DEF OpenSub
<1>5. drv[d].at = "waking" => drv[d].run # r
  <2>1. drv[d].at = "waking" => WakeRun(d)
    BY DEF HandStep, Load, SetVars, Emit, Branch, Jump, SkipDone, RecordStep, StartStep,
       RunAgent, RunTool, Complete, FailRun, EndCompensation, LoadToFail, BeginCompensation,
       RunCompensator, WakeRun, ResumeHuman, ResumeTool, AtOp, At
  <2>2. WakeRun(d) => run'[drv[d].run].status = "running"
    BY WakeWorks
  <2>. QED BY <2>1, <2>2
<1>6. \A e \in Drivers : Waking(e, r) => drv'[e].at = "waking" /\ drv'[e].run = r
  BY <1>1, <1>5 DEF Waking
<1>7. \A a \in Approvals : Summons(a, r) =>
        /\ appr'[a].run = r /\ appr'[a].pc = appr[a].pc
        /\ appr'[a].status \in {"pending", "expired"} \/ appr'[a].event = "queued"
  BY <1>1 DEF Summons
<1>. QED BY <1>1, <1>2, <1>4, <1>6, <1>7, TicketKept

(* A park leaves what will wake its run. *)
LEMMA ParkLeaves ==
  ASSUME GateInv, Owned, NEW d \in Drivers, Parks(d), NEW r \in Runs, r = drv[d].run
  PROVE  HasTicket(r)'
<1>. DEFINE pc == run[r].cursor
<1>1. /\ ParkWait(d) => RegisterWait(r, pc)
      /\ ParkHuman(d) => CreateApproval(r, pc, "human")
      /\ ParkTool(d) => CreateApproval(r, pc, "tool")
      /\ run'[r].status = "waiting" /\ run'[r].cursor = pc
  BY ParkFinds DEF Writes
<1>2. CASE RegisterWait(r, pc)
  <2>1. PICK s \in First(Free(sub)) :
          sub' = [sub EXCEPT ![s] = [run |-> r, pc |-> pc, status |-> "pending"]]
    BY <1>2 DEF RegisterWait
  <2>2. s \in Subs
    BY Tables DEF First, Free
  <2>3. sub'[s].run = r /\ sub'[s].status = "pending"
    BY <2>1, <2>2, Tables
  <2>. QED BY <2>2, <2>3 DEF HasTicket, OpenSub
<1>3. ASSUME NEW kind, CreateApproval(r, pc, kind) PROVE HasTicket(r)'
  <2>1. PICK a \in First(Free(appr)) :
          appr' = [appr EXCEPT ![a] = [run |-> r, pc |-> pc, kind |-> kind,
                                       status |-> "pending", event |-> "none"]]
    BY <1>3 DEF CreateApproval
  <2>2. a \in Approvals
    BY Tables DEF First, Free
  <2>3. appr'[a].run = r /\ appr'[a].pc = pc /\ appr'[a].status = "pending"
    BY <2>1, <2>2, Tables
  <2>. QED BY <1>1, <2>2, <2>3 DEF HasTicket, Parked, Waits
<1>. QED BY <1>1, <1>2, <1>3 DEF Parks

LEMMA ParkTickets ==
  ASSUME GateInv, Owned, NEW d \in Drivers, Parks(d),
         NEW r \in Runs, run'[r].status = "waiting",
         run[r].status = "waiting" => HasTicket(r)
  PROVE  HasTicket(r)'
<1>1. /\ drv[d].run \in Runs /\ drv[d].at \in {"exec", "park"}
      /\ \A q \in Runs \ {drv[d].run} : run'[q] = run[q]
      /\ \A e \in Drivers \ {d} : drv'[e] = drv[e]
  BY ParksBeside DEF Writes
<1>2. CASE r = drv[d].run
  BY <1>2, ParkLeaves
<1>3. CASE r # drv[d].run
  <2>1. run'[r] = run[r] /\ HasTicket(r)
    BY <1>1, <1>3
  <2>2. /\ \A e \in Drivers : drv'[e].subs = drv[e].subs
        /\ \A e \in Drivers : drv'[e].at = "claim" <=> drv[e].at = "claim"
    BY ParkFinds, HandedOver
  <2>3. \A s \in Subs : OpenSub(s) => sub'[s] = sub[s]
    BY ParkAdds, OpenSubExists DEF AddedSub
  <2>4. \A s \in Subs : OpenSub(s) => OpenSub(s)'
    BY <2>2, <2>3 DEF OpenSub
  <2>5. \A a \in Approvals : Summons(a, r) => appr'[a] = appr[a]
    BY ParkAdds, SummonsExists DEF Added
  <2>6. \A a \in Approvals : Summons(a, r) =>
          /\ appr'[a].run = r /\ appr'[a].pc = appr[a].pc
          /\ appr'[a].status \in {"pending", "expired"} \/ appr'[a].event = "queued"
    BY <2>5 DEF Summons
  <2>7. \A e \in Drivers : Waking(e, r) => drv'[e].at = "waking" /\ drv'[e].run = r
    BY <1>1 DEF Waking
  <2>. QED BY <2>1, <2>3, <2>4, <2>6, <2>7, TicketKept
<1>. QED BY <1>2, <1>3

LEMMA InsertTickets ==
  ASSUME GateInv, Setting, Owned, NEW d \in Drivers, InsertRun(d),
         NEW r \in Runs, run'[r].status = "waiting",
         run[r].status = "waiting" => HasTicket(r)
  PROVE  HasTicket(r)'
<1>1. /\ UNCHANGED <<appr, sub>> /\ drv[d].at = "insert" /\ drv'[d].at = "load"
      /\ drv'[d].subs = drv[d].subs /\ \A e \in Drivers \ {d} : drv'[e] = drv[e]
  BY InsertBeside
<1>2. run'[r] = run[r] /\ HasTicket(r)
  BY InsertBeside
<1>3. \A s \in Subs : OpenSub(s) => OpenSub(s)'
  BY <1>1 DEF OpenSub
<1>4. \A e \in Drivers : Waking(e, r) => drv'[e].at = "waking" /\ drv'[e].run = r
  BY <1>1 DEF Waking
<1>5. \A a \in Approvals : Summons(a, r) =>
        /\ appr'[a].run = r /\ appr'[a].pc = appr[a].pc
        /\ appr'[a].status \in {"pending", "expired"} \/ appr'[a].event = "queued"
  BY <1>1 DEF Summons
<1>. QED BY <1>1, <1>2, <1>3, <1>4, <1>5, TicketKept

LEMMA DecideTickets ==
  ASSUME GateInv, Owned, NEW b \in Approvals, Resolve(b) \/ Expire(b),
         NEW r \in Runs, run[r].status = "waiting" => HasTicket(r),
         run'[r].status = "waiting"
  PROVE  HasTicket(r)'
<1>1. /\ UNCHANGED <<run, sub, drv>>
      /\ \A a \in Approvals \ {b} : appr'[a] = appr[a]
      /\ appr'[b].run = appr[b].run /\ appr'[b].pc = appr[b].pc
      /\ appr'[b].status = "expired" \/ appr'[b].event = "queued"
  BY DecideChanges
<1>2. \A s \in Subs : OpenSub(s) => OpenSub(s)'
  BY <1>1 DEF OpenSub
<1>3. \A a \in Approvals : Summons(a, r) =>
        /\ appr'[a].run = r /\ appr'[a].pc = appr[a].pc
        /\ appr'[a].status \in {"pending", "expired"} \/ appr'[a].event = "queued"
  BY <1>1 DEF Summons
<1>. QED BY <1>1, <1>2, <1>3, TicketKept DEF Waking

LEMMA OtherTicketsKept ==
  ASSUME GateInv, GateInv', Setting, Owned, Emptied, NEW d \in Drivers, Other(d),
         "wake lost" \notin mishaps',
         NEW r \in Runs, run'[r].status = "waiting",
         run[r].status = "waiting" => HasTicket(r)
  PROVE  HasTicket(r)'
<1>1. UNCHANGED run /\ \A e \in Drivers \ {d} : drv'[e] = drv[e]
  BY OtherBeside
<1>2. HasTicket(r)
  BY <1>1
<1>3. ASSUME NEW a \in Approvals, Summons(a, r)
      PROVE  /\ appr'[a].run = r /\ appr'[a].pc = appr[a].pc
             /\ appr'[a].status \in {"pending", "expired"} \/ appr'[a].event = "queued"
  <2>1. ~ (Ack(d) /\ drv[d].msg = a)
    <3>1. ASSUME Ack(d), drv[d].msg = a PROVE FALSE
      <4>1. drv[d].at = "ack" /\ drv[d].msg # 0
        BY <3>1, ProgramFacts DEF Ack, At
      <4>2. ~ Parked(drv[d].msg)
        BY <4>1 DEF Owned, Carries, Deciding
      <4>. QED BY <1>3, <3>1, <4>2 DEF Summons
    <3>. QED BY <3>1
  <2>2. /\ appr'[a].status = appr[a].status /\ appr'[a].run = appr[a].run
        /\ appr'[a].pc = appr[a].pc
        /\ appr[a].event = "queued" => appr'[a].event = "queued"
    BY <2>1, OtherTickets
  <2>. QED BY <1>3, <2>2 DEF Summons
<1>4. ASSUME NEW s \in Subs, OpenSub(s), sub[s].run = r,
             ~ (LoadToWake(d) /\ s \in drv[d].subs), ~ (Fail(d) /\ s \in drv[d].subs)
      PROVE  OpenSub(s)' /\ sub'[s].run = r
  <2>1. sub'[s].run = r
    BY <1>4, OtherTickets
  <2>2. CASE sub[s].status = "pending"
    BY <2>1, <2>2, OtherTickets DEF OpenSub
  <2>3. ASSUME NEW e \in Drivers, s \in drv[e].subs, drv[e].at # "claim" PROVE OpenSub(s)'
    <3>1. CASE e # d
      BY <1>1, <2>3, <3>1 DEF OpenSub
    <3>2. CASE e = d
      <4>1. s \in drv'[d].subs /\ drv'[d].at # "claim"
        <5>1. CASE Leaves(d)
          <6>1. Return(d)
            BY <5>1, LeavesReturns
          <6>. QED BY <2>3, <3>2, <6>1, ReturnGives
        <5>2. CASE Sees(d) \/ \E a \in Approvals : TakeDecision(d, a)
          <6>1. drv[d].at = "idle"
            BY <5>2 DEF Sees, StartRun, SeeReply, SeeDue, TakeDecision, At
          <6>. QED BY <2>3, <3>2, <6>1, IdleFacts
        <5>3. CASE Ack(d)
          BY <2>3, <3>2, <5>3 DEF Ack, At, Emptied
        <5>4. CASE Claim(d)
          BY <2>3, <3>2, <5>4 DEF Claim, At
        <5>5. CASE LoadToDecide(d)
          <6>1. CASE Return(d)
            BY <2>3, <3>2, <6>1, ReturnGives
          <6>2. CASE ~ Return(d)
            <7>1. drv' = [drv EXCEPT ![d] = [drv[d] EXCEPT !.at = "deciding",
                                                           !.row = run[drv[d].run]]]
              BY <5>5, <6>2, Tables DEF LoadToDecide
            <7>2. drv'[d].subs = drv[d].subs /\ drv'[d].at = "deciding"
              BY <7>1, Tables DEF DriverStates
            <7>. QED BY <2>3, <3>2, <7>2
          <6>. QED BY <6>1, <6>2
        <5>. QED BY <1>4, <2>3, <3>2, <5>1, <5>2, <5>3, <5>4, <5>5 DEF Other
      <4>. QED BY <4>1 DEF OpenSub
    <3>. QED BY <3>1, <3>2
  <2>. QED BY <1>4, <2>1, <2>2, <2>3 DEF OpenSub
<1>5. drv[d].at = "waking" => Fail(d)
  <2>1. ASSUME drv[d].at = "waking", ~ Fail(d) PROVE FALSE
    <3>1. ~ Leaves(d)
      BY <2>1, LeavesReturns
    <3>. QED BY <2>1, <3>1 DEF Other, Sees, StartRun, SeeReply, SeeDue, Ack, Claim, LoadToWake,
            LoadToDecide, TakeDecision, At
  <2>. QED BY <2>1
<1>6. Fail(d) => drv[d].at # "waking" /\ (drv[d].subs = {} \/ drv[d].at = "claim")
  BY DEF Fail, Mishaps, At
<1>7. \A e \in Drivers : Waking(e, r) => drv'[e].at = "waking" /\ drv'[e].run = r
  BY <1>1, <1>5, <1>6 DEF Waking
<1>8. CASE \E s \in Subs : OpenSub(s) /\ sub[s].run = r /\ LoadToWake(d) /\ s \in drv[d].subs
  <2>1. PICK s \in Subs : OpenSub(s) /\ sub[s].run = r /\ LoadToWake(d) /\ s \in drv[d].subs
    BY <1>8
  <2>2. PICK t \in Subs : /\ OpenSub(t) /\ drv'[d].at = "waking" /\ drv'[d].run = sub[t].run
                          /\ drv[d].at = "wake" /\ drv'[d].subs = drv[d].subs \ {t}
                          /\ UNCHANGED sub
    BY <2>1, WakeFinds
  <2>3. CASE s = t
    BY <2>1, <2>2, <2>3 DEF HasTicket
  <2>4. CASE s # t
    BY <2>1, <2>2, <2>4 DEF HasTicket, OpenSub
  <2>. QED BY <2>3, <2>4
<1>9. CASE \E s \in Subs : OpenSub(s) /\ sub[s].run = r /\ Fail(d) /\ s \in drv[d].subs
  <2>1. PICK s \in Subs : OpenSub(s) /\ sub[s].run = r /\ Fail(d) /\ s \in drv[d].subs
    BY <1>9
  <2>2. drv[d].at = "claim" /\ UNCHANGED sub
    BY <1>6, <2>1 DEF Fail
  <2>3. CASE sub[s].status = "pending"
    BY <2>1, <2>2, <2>3 DEF HasTicket, OpenSub
  <2>4. ASSUME NEW e \in Drivers, s \in drv[e].subs, drv[e].at # "claim" PROVE HasTicket(r)'
    BY <1>1, <2>1, <2>2, <2>4 DEF HasTicket, OpenSub
  <2>. QED BY <2>1, <2>3, <2>4 DEF OpenSub
<1>10. CASE /\ ~ \E s \in Subs : OpenSub(s) /\ sub[s].run = r /\ LoadToWake(d) /\ s \in drv[d].subs
            /\ ~ \E s \in Subs : OpenSub(s) /\ sub[s].run = r /\ Fail(d) /\ s \in drv[d].subs
  <2>1. \A s \in Subs : OpenSub(s) /\ sub[s].run = r => OpenSub(s)' /\ sub'[s].run = r
    BY <1>4, <1>10
  <2>. QED BY <1>1, <1>2, <1>3, <1>7, <2>1, TicketKept
<1>. QED BY <1>8, <1>9, <1>10

LEMMA TicketedStep ==
  ASSUME GateInv, GateInv', Setting, Orderly', Owned, Emptied, Ticketed, [Next]_vars
  PROVE  Ticketed'
<1>1. mishaps \subseteq mishaps'
  BY MishapsGrow
<1>2. SUFFICES ASSUME "wake lost" \notin mishaps', NEW r \in Runs, run'[r].status = "waiting"
               PROVE  HasTicket(r)'
  BY DEF Ticketed
<1>3. run[r].status = "waiting" => HasTicket(r)
  BY <1>1, <1>2 DEF Ticketed
<1>4. ASSUME NEW d \in Drivers, HandStep(d) \/ Parks(d) \/ Other(d) \/ InsertRun(d)
      PROVE  HasTicket(r)'
  BY <1>2, <1>3, <1>4, HandStepTickets, ParkTickets, OtherTicketsKept, InsertTickets
<1>5. ASSUME NEW a \in Approvals, Resolve(a) \/ Expire(a) PROVE HasTicket(r)'
  BY <1>2, <1>3, <1>5, DecideTickets
<1>6. CASE UNCHANGED vars
  BY <1>2, <1>3, <1>6 DEF vars, HasTicket, OpenSub, Parked, Waits
<1>. QED BY <1>4, <1>5, <1>6, StepKinds

LEMMA TicketedInit == Init => Ticketed /\ Emptied
BY DEF Init, NewRow, Idle, Ticketed, Emptied

-----------------------------------------------------------------------------
(* How a run moves on                                                      *)

(* A cursor moves forward because the driver of the running run goes on,   *)
(* because a wait is over, or because a reviewer approved the human task.  *)
MovesOn(r) ==
  \/ /\ run[r].status = "running"
     /\ \E d \in Drivers :
          /\ drv[d].run = r /\ drv[d].row = run[r]
          /\ \/ SetVars(d) \/ Emit(d) \/ Branch(d) \/ Jump(d)
             \/ SkipDone(d) \/ RecordStep(d)
  \/ Op(run[r].cursor) = "WAIT"
  \/ Op(run[r].cursor) = "HUMAN" /\ Approved(r, run[r].cursor, "human")

LEMMA HandStepMovesOn ==
  ASSUME GateInv, GateInv', Setting, Owned, NEW d \in Drivers, HandStep(d),
         NEW r \in Runs, run'[r].cursor > run[r].cursor
  PROVE  MovesOn(r)
<1>1. ~ UNCHANGED run /\ run'[r].cursor # run[r].cursor
  BY Tables
<1>2. r = drv[d].run
  BY <1>1, HandStepWorks, WorksBeside
<1>3. CASE \/ SetVars(d) \/ Emit(d) \/ Branch(d) \/ Jump(d) \/ SkipDone(d) \/ RecordStep(d)
  <2>1. drv[d].at \in {"exec", "record"}
    BY <1>3 DEF SetVars, Emit, Branch, Jump, SkipDone, RecordStep, AtOp, At
  <2>. QED BY <1>2, <1>3, <2>1, AtHand DEF MovesOn
<1>4. CASE WakeRun(d)
  BY <1>2, <1>4 DEF WakeRun, At, Owned, Agrees, MovesOn
<1>5. CASE ResumeHuman(d)
  <2>1. /\ drv[d].at = "deciding" /\ appr[drv[d].msg].kind = "human"
        /\ Decided(d) = "approved"
    BY <1>1, <1>2, <1>5, DecisionWorks DEF Writes, ResumeHuman, At
  <2>. PICK m \in Approvals : m = drv[d].msg
    BY <2>1, DecidingFacts
  <2>2. /\ appr[m].run = r /\ appr[m].pc = run[r].cursor /\ appr[m].status = "approved"
        /\ appr[m].kind = "human"
    BY <1>2, <2>1, DecidingFacts DEF Decided
  <2>3. Op(run[r].cursor) = "HUMAN"
    BY <2>2 DEF Owned, Placed
  <2>. QED BY <2>2, <2>3 DEF MovesOn, Approved
<1>6. CASE ResumeTool(d)
  BY <1>1, <1>2, <1>6, DecisionWorks DEF Writes
<1>7. CASE Complete(d)
  <2>1. run'[r].cursor = drv[d].row.cursor /\ drv[d].at = "exec"
    BY <1>2, <1>7, CursorWritesAs DEF Complete, AtOp, At, Writes
  <2>. QED BY <1>1, <1>2, <2>1, AtHand
<1>8. CASE FailRun(d) \/ EndCompensation(d)
  BY <1>1, <1>2, <1>8, CompensateWorks
<1>9. CASE \/ Load(d) /\ run[drv[d].run].status = "running"
           \/ StartStep(d) \/ RunAgent(d) \/ RunTool(d)
           \/ LoadToFail(d) \/ BeginCompensation(d) \/ RunCompensator(d)
  BY <1>1, <1>9, EffectWorks, UndoWorks DEF Load
<1>. QED BY <1>3, <1>4, <1>5, <1>6, <1>7, <1>8, <1>9 DEF HandStep

LEMMA CursorsMove ==
  ASSUME GateInv, GateInv', Setting, Orderly', Owned, [Next]_vars,
         NEW r \in Runs, run[r].status # "absent", run'[r].cursor > run[r].cursor
  PROVE  MovesOn(r)
<1>1. run'[r].cursor # run[r].cursor
  BY Tables
<1>2. ASSUME NEW d \in Drivers, HandStep(d) PROVE MovesOn(r)
  BY <1>2, HandStepMovesOn
<1>3. ASSUME NEW d \in Drivers, Parks(d) PROVE FALSE
  BY <1>1, <1>3, ParksBeside DEF Writes
<1>4. ASSUME NEW d \in Drivers, Other(d) PROVE FALSE
  BY <1>1, <1>4, OtherBeside
<1>5. ASSUME NEW d \in Drivers, InsertRun(d) PROVE FALSE
  BY <1>1, <1>5, InsertBeside
<1>6. ASSUME NEW a \in Approvals, Resolve(a) \/ Expire(a) PROVE FALSE
  BY <1>1, <1>6, DecideChanges
<1>7. CASE UNCHANGED vars
  BY <1>1, <1>7 DEF vars
<1>. QED BY <1>2, <1>3, <1>4, <1>5, <1>6, <1>7, StepKinds

(* A run that is not there yet starts at its first step. *)
LEMMA AbsentRunsStay ==
  ASSUME GateInv, GateInv', Setting, Orderly', Owned, [Next]_vars,
         NEW r \in Runs, run[r].status = "absent"
  PROVE  run'[r].cursor = run[r].cursor \/ run'[r].cursor = 1
<1>1. ASSUME NEW d \in Drivers, HandStep(d) PROVE run'[r] = run[r]
  BY <1>1, HandStepWorks, WorksBeside, EngagedFacts DEF Works, Live
<1>2. ASSUME NEW d \in Drivers, Parks(d) PROVE run'[r] = run[r]
  BY <1>2, ParksBeside DEF Writes
<1>3. ASSUME NEW d \in Drivers, Other(d) PROVE run'[r] = run[r]
  BY <1>3, OtherBeside
<1>4. ASSUME NEW d \in Drivers, InsertRun(d)
      PROVE  run'[r].cursor = run[r].cursor \/ run'[r].cursor = 1
  BY <1>4, InsertBeside
<1>5. ASSUME NEW a \in Approvals, Resolve(a) \/ Expire(a) PROVE run'[r] = run[r]
  BY <1>5, DecideChanges
<1>6. CASE UNCHANGED vars
  BY <1>6 DEF vars
<1>. QED BY <1>1, <1>2, <1>3, <1>4, <1>5, <1>6, StepKinds

-----------------------------------------------------------------------------
(* The theorems                                                            *)

LEMMA OwnInvInit == Init => OwnInv
BY OwnedInit, OnceInit, IntactInit, CountedInit, OneLiveInit, TicketedInit DEF OwnInv

LEMMA OrderlyBefore == ASSUME [Next]_vars, Orderly' PROVE Orderly
BY MishapsGrow DEF Orderly

LEMMA OwnInvStep ==
  ASSUME Setting PROVE GateInv /\ GateInv' /\ OwnInv /\ [Next]_vars => OwnInv'
<1>. SUFFICES ASSUME GateInv, GateInv', OwnInv, [Next]_vars, Orderly'
              PROVE  (Owned /\ Once /\ Intact /\ Counted /\ OneLive /\ Emptied /\ Ticketed)'
  BY DEF OwnInv
<1>1. Owned /\ Once /\ Intact /\ Counted /\ OneLive /\ Emptied /\ Ticketed
  BY OrderlyBefore DEF OwnInv
<1>. QED BY <1>1, OwnedStep, OnceStep, IntactStep, CountedStep, OneLiveStep, EmptiedStep,
         TicketedStep

LEMMA OwnInvAlways == ASSUME Setting PROVE Spec => [](GateInv /\ OwnInv)
<1>. QED BY GateInvInit, GateInvStep, OwnInvInit, OwnInvStep, PTL DEF Spec

(* Until a handover goes wrong at most one driver executes a run, whatever *)
(* claims, decisions and crashes interleave: a run is handed on only       *)
(* through its subscription or its approval, and of those it has one       *)
(* (_advance, wake_run, resume_human, _claim).                             *)
THEOREM OneDriver == ASSUME Setting PROVE Spec => []OneDriverPerRun
<1>1. GateInv /\ OwnInv => OneDriverPerRun
  BY Tables DEF OwnInv, OneDriverPerRun, Driving, DriverShaped, Engaged, Near, HandPoints,
     Owned, Sole
<1>. QED BY <1>1, OwnInvAlways, PTL

(* Until then no effect of a run is invoked twice, redelivery and crashes  *)
(* before the recording of a step included (step_started, step_completed   *)
(* and the cursor: _run_agent_step, _run_tool_step).                       *)
THEOREM EffectsFireOnce == ASSUME Setting PROVE Spec => []EffectOnce
<1>1. GateInv /\ OwnInv => EffectOnce
  BY DEF OwnInv, Once, EffectOnce
<1>. QED BY <1>1, OwnInvAlways, PTL

(* Until then, and until a driver dies among the compensators, a run that  *)
(* ends compensated ran each task of the block exactly once, however many  *)
(* handlers die elsewhere and rejections are delivered again               *)
(* (_run_compensation).                                                    *)
THEOREM CompensatedOnce == ASSUME Setting PROVE Spec => []CompensateOnce
<1>1. GateInv /\ OwnInv => CompensateOnce
  BY DEF OwnInv, Counted, Unbroken, CompensateOnce
<1>. QED BY <1>1, OwnInvAlways, PTL

(* Under the drop policy any number of starters leave a key with at most   *)
(* one live run, except two that were between the SELECT and the INSERT at *)
(* once (_apply_concurrency and start_run).                                *)
THEOREM OneLiveRunPerKey == ASSUME Setting PROVE Spec => []OneLiveRun
<1>1. GateInv /\ OwnInv => OneLiveRun
  BY DEF OwnInv, OneLive, OneLiveRun, Setting
<1>. QED BY <1>1, OwnInvAlways, PTL

(* Until a handover goes wrong no late driver revives a run that ended or  *)
(* overwrites its outcome, and no effect follows the first compensating    *)
(* task (_set_cursor and wake_run write without looking at the status;     *)
(* _compensate against _advance).                                          *)
THEOREM EndingsAreFinal == ASSUME Setting PROVE Spec => EndsInOrder
<1>1. GateInv /\ GateInv' /\ OwnInv /\ [Next]_vars
        => (Orderly' => TerminalIsFinal /\ SagaOrder)
  BY OrderlyBefore, EndsStep DEF OwnInv
<1>. QED BY <1>1, OwnInvAlways, GateInvStep, PTL DEF Spec, EndsInOrder

(* Until then no run passes a human_task that nobody approved: no wake, no *)
(* redelivered decision and no crash moves it on (resume_human, wake_run). *)
THEOREM HumanTasksHold == ASSUME Setting PROVE Spec => HumanGate
<1>. DEFINE Holding == \A r \in Runs :
              LET pc == run[r].cursor IN
                (Op(pc) = "HUMAN" /\ run[r].status = "waiting" /\ run'[r].cursor > pc)
                  => Approved(r, pc, "human")
<1>1. ASSUME GateInv, GateInv', OwnInv, [Next]_vars, Orderly' PROVE Holding
  <2>1. Owned
    BY <1>1, OrderlyBefore DEF OwnInv
  <2>2. ASSUME NEW r \in Runs, Op(run[r].cursor) = "HUMAN", run[r].status = "waiting",
               run'[r].cursor > run[r].cursor
        PROVE  Approved(r, run[r].cursor, "human")
    <3>1. MovesOn(r)
      BY <1>1, <2>1, <2>2, CursorsMove
    <3>. QED BY <2>2, <3>1 DEF MovesOn
  <2>. QED BY <2>2
<1>2. GateInv /\ GateInv' /\ OwnInv /\ [Next]_vars => (Orderly' => Holding)
  BY <1>1
<1>. HIDE DEF Holding
<1>3. Spec => [][Orderly' => Holding]_vars
  BY <1>2, OwnInvAlways, GateInvStep, PTL DEF Spec
<1>. QED BY <1>3 DEF HumanGate, Holding

(* Until then a run leaves an AGENT or TOOL step forward only with its     *)
(* step_completed in the log, even a gated TOOL step it was parked on      *)
(* (_run_agent_step, _run_tool_step, resume_tool).                         *)
THEOREM EffectsAreNotSkipped == ASSUME Setting PROVE Spec => NoSkippedEffect
<1>. DEFINE Logged == \A r \in Runs :
              LET pc == run[r].cursor IN
                (Op(pc) \in {"AGENT", "TOOL"} /\ run'[r].cursor > pc) => pc \in done'[r]
<1>1. ASSUME GateInv, GateInv', OwnInv, [Next]_vars, Orderly' PROVE Logged
  <2>1. Owned
    BY <1>1, OrderlyBefore DEF OwnInv
  <2>2. ASSUME NEW r \in Runs, Op(run[r].cursor) \in {"AGENT", "TOOL"},
               run'[r].cursor > run[r].cursor
        PROVE  run[r].cursor \in done'[r]
    <3>1. run[r].cursor \in Nat \ {0}
      BY <1>1, Tables
    <3>2. run[r].status # "absent"
      BY <1>1, <2>1, <2>2, <3>1, AbsentRunsStay
    <3>3. MovesOn(r)
      BY <1>1, <2>1, <2>2, <3>2, CursorsMove
    <3>4. PICK d \in Drivers : /\ drv[d].run = r /\ drv[d].row = run[r]
                               /\ \/ SetVars(d) \/ Emit(d) \/ Branch(d) \/ Jump(d)
                                  \/ SkipDone(d) \/ RecordStep(d)
      BY <2>2, <3>3 DEF MovesOn
    <3>5. ~ (SetVars(d) \/ Emit(d) \/ Branch(d) \/ Jump(d))
      BY <2>2, <3>4 DEF SetVars, Emit, Branch, Jump, AtOp
    <3>6. CASE SkipDone(d)
      BY <3>4, <3>6 DEF SkipDone
    <3>7. CASE RecordStep(d)
      <4>1. done' = [done EXCEPT ![r] = @ \cup {run[r].cursor}]
        BY <3>4, <3>7 DEF RecordStep
      <4>. QED BY <1>1, <4>1 DEF GateInv, Shaped, TypeOK
    <3>. QED BY <3>4, <3>5, <3>6, <3>7
  <2>. QED BY <2>2
<1>2. GateInv /\ GateInv' /\ OwnInv /\ [Next]_vars => (Orderly' => Logged)
  BY <1>1
<1>. HIDE DEF Logged
<1>3. Spec => [][Orderly' => Logged]_vars
  BY <1>2, OwnInvAlways, GateInvStep, PTL DEF Spec
<1>. QED BY <1>3 DEF NoSkippedEffect, Logged

(* Every wait is one that something ends. *)
WaitsEnd == \A pc \in PCs : Op(pc) = "WAIT" => Program[pc].for = "reply" \/ Program[pc].timed

(* Until a handover goes wrong or a claimant dies before its wakes, a      *)
(* parked run has something that will wake it or an approval that expired: *)
(* the subscription or the approval of the step it is parked on, or a      *)
(* driver that took it (_park, _claim and wake_run, resume_human,          *)
(* _compensate).  The waits are those that something ends.                 *)
THEOREM ParkedRunsCanBeWoken ==
  ASSUME Setting, WaitsEnd PROVE Spec => []ParkedRunIsWakeable
<1>1. ASSUME GateInv, Owned, Ticketed, "wake lost" \notin mishaps,
             NEW r \in Runs, run[r].status = "waiting"
      PROVE  Wakeable(r) \/ Undecided(r)
  <2>1. HasTicket(r)
    BY <1>1 DEF Ticketed
  <2>2. ASSUME NEW s \in Subs, OpenSub(s), sub[s].run = r PROVE Wakeable(r)
    <3>1. sub[s].pc = run[r].cursor /\ sub[s].status # "absent"
      BY <1>1, <2>2, OpenSubExists DEF Owned, Tickets, Waits
    <3>2. Op(sub[s].pc) = "WAIT" /\ sub[s].pc \in PCs
      BY <1>1, <3>1, ProgramFacts DEF Owned, Placed
    <3>3. CASE sub[s].status = "pending"
      BY <2>2, <3>1, <3>2, <3>3 DEF WaitsEnd, Wakeable, Pending, Timed, WaitsFor
    <3>. QED BY <2>2, <3>1, <3>3 DEF OpenSub, Wakeable
  <2>3. CASE \E d \in Drivers : Waking(d, r)
    BY <2>3 DEF Waking, Wakeable, At
  <2>4. ASSUME NEW a \in Approvals, Summons(a, r) PROVE Wakeable(r) \/ Undecided(r)
    BY <2>4 DEF Summons, Parked, Waits, Wakeable, Undecided
  <2>. QED BY <2>1, <2>2, <2>3, <2>4, TicketMeans
<1>2. GateInv /\ OwnInv => ParkedRunIsWakeable
  BY <1>1 DEF OwnInv, ParkedRunIsWakeable
<1>. QED BY <1>2, OwnInvAlways, PTL

(***************************************************************************)
(* Queued runs, for every policy and program.                              *)
(***************************************************************************)

-----------------------------------------------------------------------------
(* What the reading and claiming steps find                                *)

LEMMA WakeSelects ==
  ASSUME NEW d \in Drivers, LoadToWake(d)
  PROVE  \E s \in drv[d].subs :
        LET r == sub[s].run  rest == drv[d].subs \ {s} IN
          IF run[r].status = "waiting"
            THEN drv' = [drv EXCEPT ![d].at = "waking", ![d].run = r,
                           ![d].row = run[r], ![d].subs = rest,
                           ![d].signal = Signal(d, s)]
            ELSE drv' = [drv EXCEPT ![d].at = IF rest = {} THEN "ack" ELSE "wake",
                                    ![d].subs = rest]
BY DEF LoadToWake

LEMMA InsertWrites ==
  ASSUME NEW d \in Drivers, InsertRun(d)
  PROVE  /\ drv[d].at = "insert" /\ UNCHANGED <<appr, sub>>
         /\ \E new \in First(Free(run)) :
              LET queued  == Policy = "queue" /\ drv[d].live # {}
                  doomed  == IF Policy = "replace" THEN drv[d].live ELSE {}
              IN  /\ run' = [r \in Runs |->
                               IF r = new
                                 THEN [NewRow EXCEPT !.status =
                                         IF queued THEN "queued" ELSE "running"]
                               ELSE IF r \in doomed
                                 THEN [run[r] EXCEPT !.status = "superseded",
                                                     !.cursor = 1]
                               ELSE run[r]]
                  /\ IF queued THEN Return(d) ELSE Advance(d, new)
BY DEF InsertRun, At

LEMMA ClaimLeaves ==
  ASSUME GateInv, NEW d \in Drivers, Claim(d)
  PROVE  /\ drv[d].at = "claim" /\ UNCHANGED <<run, appr>> /\ Untouched(d)
         /\ drv'[d].at = "wake" /\ drv'[d].run = drv[d].run /\ drv'[d].msg = drv[d].msg
         /\ \A e \in Drivers : drv'[e].subs = drv[e].subs
         /\ \A s \in Subs :
              /\ sub'[s].run = sub[s].run /\ sub'[s].pc = sub[s].pc
              /\ \/ sub'[s].status = sub[s].status
                 \/ s \in drv[d].subs /\ sub'[s].status \in {"matched", "expired"}
<1>1. drv[d].at = "claim" /\ UNCHANGED <<run, appr>> /\ Go(d, "wake")
  BY DEF Claim, At
<1>2. /\ Untouched(d) /\ drv'[d].at = "wake" /\ drv'[d].run = drv[d].run
      /\ drv'[d].subs = drv[d].subs /\ drv'[d].msg = drv[d].msg
  BY <1>1, GoGives
<1>3. ASSUME NEW s \in Subs
      PROVE  /\ sub'[s].run = sub[s].run /\ sub'[s].pc = sub[s].pc
             /\ \/ sub'[s].status = sub[s].status
                \/ s \in drv[d].subs /\ sub'[s].status \in {"matched", "expired"}
  BY Tables DEF Claim, SubscriptionRows
<1>. QED BY <1>1, <1>2, <1>3 DEF Untouched

-----------------------------------------------------------------------------
(* Queued runs: who stands behind whom                                     *)

Begun(r) == run[r].status \notin {"absent", "queued"}

(* The points at which a driver has a run that began. *)
InRun == HandPoints \cup {"load", "decide"}

DriverInLine(d) ==
  /\ drv[d].at \in InRun => Begun(drv[d].run)
  /\ drv[d].at \in {"waking", "deciding"} => drv[d].row.status = "waiting"
  /\ drv[d].at \in {"insert", "promoting"} =>
       \A r \in drv[d].live : run[r].status # "absent"
  /\ drv[d].at = "promoting" =>
       \A r \in drv[d].live : \A q \in Runs : q < r => Begun(q)

(* A run is queued until it is promoted, and runs are inserted in order.   *)
InLine ==
  /\ \A d \in Drivers : DriverInLine(d)
  /\ \A a \in Approvals : appr[a].status # "absent" => Begun(appr[a].run)
  /\ \A s \in Subs : sub[s].status # "absent" => Begun(sub[s].run)
  /\ \A q, r \in Runs : (q < r /\ run[r].status # "absent") => run[q].status # "absent"
  /\ Policy # "queue" => \A r \in Runs : run[r].status # "queued"

(* No run goes back behind its beginning. *)
Onward ==
  \A q \in Runs : /\ Begun(q) => Begun(q)'
                  /\ run[q].status # "absent" => run'[q].status # "absent"

(* The wake tables speak of runs that began. *)
TablesInLine ==
  /\ \A a \in Approvals : appr'[a].status # "absent" =>
       \/ appr[a].status # "absent" /\ appr'[a].run = appr[a].run
       \/ run'[appr'[a].run].status \notin {"absent", "queued"}
  /\ \A s \in Subs : sub'[s].status # "absent" =>
       \/ sub[s].status # "absent" /\ sub'[s].run = sub[s].run
       \/ run'[sub'[s].run].status \notin {"absent", "queued"}

LEMMA StaysInLine ==
  ASSUME GateInv, InLine, Onward, NEW e \in Drivers, drv'[e] = drv[e]
  PROVE  DriverInLine(e)'
<1>1. drv[e].at \in InRun => drv[e].run \in Runs
  BY Tables DEF DriverShaped, InRun, HandPoints
<1>2. drv[e].live \subseteq Runs
  BY Tables DEF DriverStates
<1>. QED BY <1>1, <1>2 DEF InLine, DriverInLine, Onward, Begun

LEMMA LineIf ==
  ASSUME GateInv, InLine, Onward, TablesInLine,
         \A e \in Drivers : drv'[e] = drv[e] \/ DriverInLine(e)',
         \A q, r \in Runs :
           (q < r /\ run'[r].status # "absent") => run'[q].status # "absent",
         Policy # "queue" => \A r \in Runs : run'[r].status # "queued"
  PROVE  InLine'
<1>1. \A e \in Drivers : DriverInLine(e)'
  BY StaysInLine
<1>2. ASSUME NEW a \in Approvals, appr'[a].status # "absent" PROVE Begun(appr[a].run)'
  BY <1>2, Tables DEF RowsShaped, InLine, Onward, Begun, TablesInLine
<1>3. ASSUME NEW s \in Subs, sub'[s].status # "absent" PROVE Begun(sub[s].run)'
  BY <1>3, Tables DEF RowsShaped, InLine, Onward, Begun, TablesInLine
<1>. QED BY <1>1, <1>2, <1>3 DEF InLine

(* A step that writes only the run its driver has. *)
OwnWrite(d) ==
  LET r == drv[d].run IN
  /\ r \in Runs /\ Begun(r) /\ Untouched(d) /\ DriverInLine(d)' /\ TablesInLine
  /\ \A q \in Runs \ {r} : run'[q] = run[q]
  /\ run'[r].status \notin {"absent", "queued"}

LEMMA OwnWriteInLine ==
  ASSUME GateInv, InLine, NEW d \in Drivers, OwnWrite(d) PROVE InLine'
<1>. PICK r \in Runs : r = drv[d].run
  BY DEF OwnWrite
<1>1. /\ Begun(r) /\ run'[r].status \notin {"absent", "queued"}
      /\ \A q \in Runs \ {r} : run'[q] = run[q]
  BY DEF OwnWrite
<1>2. Onward
  BY <1>1 DEF Onward, Begun
<1>3. \A p, q \in Runs :
        (p < q /\ run'[q].status # "absent") => run'[p].status # "absent"
  BY <1>1 DEF InLine, Begun
<1>4. Policy # "queue" => \A q \in Runs : run'[q].status # "queued"
  BY <1>1 DEF InLine
<1>. QED BY <1>2, <1>3, <1>4, LineIf DEF OwnWrite, Untouched

(* Promotion takes the oldest. *)
Oldest ==
  \A q, r \in Runs :
    (run[r].status = "queued" /\ run'[r].status = "running" /\ q < r)
      => run[q].status # "queued"

LEMMA OwnWriteOldest ==
  ASSUME NEW d \in Drivers, OwnWrite(d) PROVE Oldest
BY DEF OwnWrite, Oldest, Begun

(* A step that writes no run. *)
LEMMA ReadInLine ==
  ASSUME GateInv, InLine, UNCHANGED run, TablesInLine,
         \A e \in Drivers : drv'[e] = drv[e] \/ DriverInLine(e)'
  PROVE  InLine' /\ Oldest
<1>1. Onward /\ Oldest
  BY DEF Onward, Begun, Oldest
<1>. QED BY <1>1, LineIf DEF InLine

LEMMA AdvanceInLine ==
  ASSUME GateInv, NEW d \in Drivers, NEW r \in Runs, Advance(d, r),
         run'[r].status \notin {"absent", "queued"}
  PROVE  Untouched(d) /\ DriverInLine(d)' /\ drv'[d].at = "load"
<1>1. Untouched(d) /\ drv'[d].at = "load" /\ drv'[d].run = r
  BY AdvanceGives
<1>. QED BY <1>1 DEF DriverInLine, Begun

LEMMA ReturnInLine ==
  ASSUME GateInv, NEW d \in Drivers, Return(d)
  PROVE  Untouched(d) /\ DriverInLine(d)' /\ drv'[d].at \in {"ack", "wake"}
<1>1. Untouched(d) /\ drv'[d].at \in {"ack", "wake"}
  BY ReturnGives
<1>. QED BY <1>1 DEF DriverInLine, InRun, HandPoints

LEMMA GoInLine ==
  ASSUME GateInv, NEW d \in Drivers,
         NEW point \in {"effect", "record", "park", "compensate", "undo", "promote"},
         Go(d, point), run'[drv[d].run].status \notin {"absent", "queued"}
  PROVE  Untouched(d) /\ DriverInLine(d)' /\ drv'[d].at = point
<1>1. Untouched(d) /\ drv'[d].at = point /\ drv'[d].run = drv[d].run
  BY GoGives
<1>. QED BY <1>1 DEF DriverInLine, Begun

LEMMA SameTables == ASSUME UNCHANGED <<appr, sub>> PROVE TablesInLine
BY DEF TablesInLine

LEMMA RunInHand ==
  ASSUME GateInv, InLine, NEW d \in Drivers, drv[d].at \in HandPoints \cup {"load"}
  PROVE  drv[d].run \in Runs /\ Begun(drv[d].run)
BY Tables DEF InLine, DriverInLine, InRun, HandPoints, DriverShaped

LEMMA MovesInLine ==
  ASSUME GateInv, InLine, NEW d \in Drivers,
         SetVars(d) \/ Emit(d) \/ Branch(d) \/ Jump(d) \/ SkipDone(d) \/ RecordStep(d)
  PROVE  OwnWrite(d)
<1>. DEFINE r == drv[d].run
<1>1. /\ drv[d].at \in {"exec", "record"} /\ Again(d) /\ UNCHANGED <<appr, sub>>
  BY DEF SetVars, Emit, Branch, Jump, SkipDone, RecordStep, AtOp, At
<1>2. r \in Runs /\ Begun(r)
  BY <1>1, RunInHand DEF HandPoints
<1>3. run'[r].status = run[r].status /\ \A q \in Runs \ {r} : run'[q] = run[q]
  <2>1. CASE SetVars(d)
    BY <1>2, <2>1, Tables DEF SetVars, Rows
  <2>2. CASE ~ SetVars(d)
    BY <1>2, <2>2, CursorWrites DEF Emit, Branch, Jump, SkipDone, RecordStep, Writes
  <2>. QED BY <2>1, <2>2
<1>. QED BY <1>1, <1>2, <1>3, AdvanceInLine, SameTables DEF Again, OwnWrite, Begun

LEMMA EndsInLine ==
  ASSUME GateInv, InLine, NEW d \in Drivers,
         Complete(d) \/ FailRun(d) \/ EndCompensation(d)
  PROVE  OwnWrite(d)
<1>. DEFINE r == drv[d].run
<1>1. drv[d].at \in {"exec", "failing", "undo"} /\ UNCHANGED <<appr, sub>>
  BY DEF Complete, FailRun, EndCompensation, AtOp, At
<1>2. r \in Runs /\ Begun(r)
  BY <1>1, RunInHand DEF HandPoints
<1>3. /\ run'[r].status \in Terminal
      /\ \A q \in Runs \ {r} : run'[q] = run[q]
  BY <1>2, CursorWritesAs, StatusWrites DEF Complete, Writes, Terminal, FailRun,
     EndCompensation
<1>4. run'[r].status \notin {"absent", "queued"}
  BY <1>3 DEF Terminal
<1>5. Untouched(d) /\ DriverInLine(d)'
  BY <1>2, <1>4, GoInLine, AdvanceInLine, ReturnInLine DEF Complete, FailRun, EndCompensation,
     Compensated, Again
<1>. QED BY <1>1, <1>2, <1>3, <1>4, <1>5, SameTables DEF OwnWrite

LEMMA ParksInLine ==
  ASSUME GateInv, InLine, NEW d \in Drivers, ParkWait(d) \/ ParkHuman(d) \/ ParkTool(d)
  PROVE  OwnWrite(d) /\ run'[drv[d].run].status = "waiting"
<1>. PICK r : r = drv[d].run
  OBVIOUS
<1>. PICK pc : pc = drv[d].row.cursor
  OBVIOUS
<1>1. drv[d].at \in {"exec", "park"}
  BY DEF ParkWait, ParkHuman, ParkTool, AtOp, At
<1>2. r \in Runs /\ Begun(r)
  BY <1>1, RunInHand DEF HandPoints
<1>3. MoveCursorAs(r, pc, "waiting") /\ (Again(d) \/ Return(d))
  BY DEF ParkWait, ParkHuman, ParkTool
<1>4. run'[r].status = "waiting" /\ \A q \in Runs \ {r} : run'[q] = run[q]
  BY <1>2, <1>3, CursorWritesAs DEF Writes
<1>5. Untouched(d) /\ DriverInLine(d)'
  BY <1>2, <1>3, <1>4, AdvanceInLine, ReturnInLine DEF Again
<1>6. TablesInLine
  BY <1>4, Tables DEF ParkWait, RegisterWait, First, Free, TablesInLine, ParkHuman, ParkTool,
     CreateApproval
<1>. QED BY <1>2, <1>4, <1>5, <1>6 DEF OwnWrite

(* The row a driver writes back is one of a parked run. *)
LEMMA ResumesInLine ==
  ASSUME GateInv, InLine, NEW d \in Drivers, WakeRun(d) \/ ResumeHuman(d) \/ ResumeTool(d)
  PROVE  OwnWrite(d)
<1>. DEFINE r == drv[d].run
<1>1. drv[d].at \in {"waking", "deciding"} /\ UNCHANGED <<appr, sub>>
  BY DEF WakeRun, ResumeHuman, ResumeTool, At
<1>2. /\ r \in Runs /\ Begun(r) /\ drv[d].row.status = "waiting" /\ drv[d].row \in Rows
  BY <1>1, RunInHand, Tables DEF InLine, DriverInLine, HandPoints, DriverStates
<1>3. /\ run'[r].status \in {"running", "waiting"}
      /\ \A q \in Runs \ {r} : run'[q] = run[q]
  <2>1. CASE WakeRun(d)  BY <1>2, <2>1, Tables DEF WakeRun, Rows
  <2>2. CASE ResumeHuman(d)  BY <1>2, <2>2, Tables DEF ResumeHuman, Rows
  <2>3. CASE ResumeTool(d)  BY <1>2, <2>3, Tables DEF ResumeTool, Rows
  <2>. QED BY <2>1, <2>2, <2>3
<1>4. Untouched(d) /\ DriverInLine(d)'
  BY <1>2, <1>3, GoInLine, AdvanceInLine DEF WakeRun, ResumeHuman, ResumeTool, Again
<1>. QED BY <1>1, <1>2, <1>3, <1>4, SameTables DEF OwnWrite

(* The reading steps of a driver that has a run. *)
LEMMA WorksInLine ==
  ASSUME GateInv, InLine, NEW d \in Drivers,
         \/ Load(d) \/ StartStep(d) \/ RunAgent(d) \/ RunTool(d)
         \/ LoadToFail(d) \/ BeginCompensation(d) \/ RunCompensator(d)
  PROVE  UNCHANGED <<run, appr, sub>> /\ Untouched(d) /\ DriverInLine(d)'
<1>1. UNCHANGED <<run, appr, sub>>
  BY DEF Load, StartStep, RunAgent, RunTool, LoadToFail, BeginCompensation, RunCompensator
<1>2. drv[d].at \in {"load", "exec", "effect", "compensate", "undo"}
  BY DEF Load, StartStep, RunAgent, RunTool, LoadToFail, BeginCompensation, RunCompensator,
     AtOp, At
<1>3. drv[d].run \in Runs /\ Begun(drv[d].run)
  BY <1>2, RunInHand DEF HandPoints
<1>4. run'[drv[d].run].status \notin {"absent", "queued"}
  BY <1>1, <1>3 DEF Begun
<1>5. ASSUME drv'[d].at \in {"exec", "compensate", "failing", "undo"}, drv'[d].run = drv[d].run
      PROVE  DriverInLine(d)'
  BY <1>4, <1>5 DEF DriverInLine, Begun
<1>6. CASE Load(d)
  BY <1>1, <1>5, <1>6, ReturnInLine, Tables DEF Untouched, DriverStates, Load
<1>7. CASE RunCompensator(d)
  BY ZenonT(60), <1>1, <1>5, <1>7, Tables DEF RunCompensator, At, Untouched, DriverStates
<1>8. CASE StartStep(d) \/ RunAgent(d) \/ RunTool(d) \/ BeginCompensation(d)
  <2>1. CASE StartStep(d)
    BY <1>1, <1>4, <1>5, <2>1, GoInLine, Tables DEF Untouched, DriverStates, StartStep
  <2>2. CASE RunAgent(d)
    BY <1>1, <1>4, <1>5, <2>2, GoInLine, Tables DEF Untouched, DriverStates, RunAgent
  <2>3. CASE RunTool(d)
    BY <1>1, <1>4, <1>5, <2>3, GoInLine, Tables DEF Untouched, DriverStates, RunTool
  <2>4. CASE BeginCompensation(d)
    BY <1>1, <1>4, <1>5, <2>4, GoInLine, Tables DEF Untouched, DriverStates, BeginCompensation
  <2>. QED BY <1>8, <2>1, <2>2, <2>3, <2>4
<1>9. CASE LoadToFail(d)
  BY <1>1, <1>5, <1>9, Tables DEF Untouched, DriverStates, LoadToFail
<1>. QED BY <1>6, <1>7, <1>8, <1>9

(* _promote_next SELECTs the oldest queued run: those before it began.     *)
LEMMA PickInLine ==
  ASSUME GateInv, InLine, NEW d \in Drivers, PickQueued(d)
  PROVE  UNCHANGED <<run, appr, sub>> /\ Untouched(d) /\ DriverInLine(d)'
<1>. DEFINE queued == {r \in Runs : run[r].status = "queued"}
<1>1. UNCHANGED <<run, appr, sub>>
  BY DEF PickQueued
<1>2. CASE Return(d)
  BY <1>1, <1>2, ReturnInLine
<1>3. CASE drv' = [drv EXCEPT ![d].at = "promoting", ![d].live = First(queued)]
  BY <1>1, <1>3, Tables DEF Untouched, DriverStates, First, InLine, Runs, Begun, DriverInLine,
     InRun, HandPoints
<1>. QED BY <1>2, <1>3 DEF PickQueued

LEMMA PickUpInLine ==
  ASSUME GateInv, InLine, NEW d \in Drivers,
         \/ Drop(d) \/ StartRun(d) \/ SeeReply(d) \/ SeeDue(d) \/ ResumeRun(d) \/ Fail(d)
         \/ \E a \in Approvals : TakeDecision(d, a)
  PROVE  UNCHANGED <<run, appr, sub>> /\ Untouched(d) /\ DriverInLine(d)'
<1>1. UNCHANGED <<run, appr, sub>>
  BY DEF Drop, StartRun, SeeReply, SeeDue, TakeDecision, ResumeRun, Fail
<1>2. CASE Drop(d)
  BY <1>1, <1>2, ReturnInLine DEF Drop
<1>3. CASE StartRun(d)
  BY <1>1, <1>3, Tables DEF StartRun, Untouched, DriverStates, DriverInLine, InRun,
     HandPoints, Live
<1>4. CASE SeeReply(d) \/ SeeDue(d)
  BY <1>1, <1>4, Tables DEF SeeReply, SeeDue, Untouched, DriverStates, DriverInLine, InRun,
     HandPoints
<1>5. CASE ResumeRun(d)
  BY ZenonT(60), <1>1, <1>5, Tables DEF ResumeRun, Untouched, DriverStates, DriverInLine, Begun
<1>6. CASE Fail(d)
  BY <1>1, <1>6, Tables DEF Fail, Untouched, Idle, DriverInLine, InRun, HandPoints
<1>7. ASSUME NEW a \in Approvals, TakeDecision(d, a)
      PROVE  UNCHANGED <<run, appr, sub>> /\ Untouched(d) /\ DriverInLine(d)'
  <2>1. Untouched(d) /\ drv'[d].at = "decide" /\ drv'[d].run = appr[a].run
    <3>1. drv' = [drv EXCEPT ![d].at = "decide", ![d].msg = a, ![d].run = appr[a].run]
      BY <1>7 DEF TakeDecision
    <3>. QED BY <3>1, Tables DEF Untouched, DriverStates
  <2>2. Begun(appr[a].run)
    BY <1>7, Tables DEF TakeDecision, RowsShaped, InLine
  <2>. QED BY <1>1, <2>1, <2>2 DEF DriverInLine, Begun
<1>. QED BY <1>2, <1>3, <1>4, <1>5, <1>6, <1>7

LEMMA ClaimInLine ==
  ASSUME GateInv, InLine, NEW d \in Drivers, Claim(d) PROVE InLine' /\ Oldest
<1>1. /\ UNCHANGED <<run, appr>> /\ Untouched(d) /\ drv'[d].at = "wake"
      /\ \A s \in Subs : /\ sub'[s].run = sub[s].run
                         /\ sub'[s].status = sub[s].status \/ s \in drv[d].subs
  BY ClaimLeaves
<1>2. \A s \in drv[d].subs : sub[s].status # "absent"
  BY Tables DEF DriverShaped
<1>3. TablesInLine
  BY <1>1, <1>2 DEF TablesInLine
<1>4. DriverInLine(d)'
  BY <1>1 DEF DriverInLine, InRun, HandPoints
<1>. QED BY <1>1, <1>3, <1>4, ReadInLine DEF Untouched

LEMMA SelectsInLine ==
  ASSUME GateInv, InLine, NEW d \in Drivers, LoadToWake(d) \/ LoadToDecide(d)
  PROVE  UNCHANGED <<run, appr, sub>> /\ Untouched(d) /\ DriverInLine(d)'
<1>1. UNCHANGED <<run, appr, sub>>
  BY DEF LoadToWake, LoadToDecide
<1>2. ASSUME NEW r, run[r].status = "waiting", drv'[d].run = r, drv'[d].row = run[r],
             drv'[d].at \in {"waking", "deciding"}
      PROVE  DriverInLine(d)'
  BY <1>1, <1>2 DEF DriverInLine, Begun
<1>3. CASE LoadToWake(d)
  <2>1. PICK s \in drv[d].subs :
          LET r == sub[s].run  rest == drv[d].subs \ {s} IN
            IF run[r].status = "waiting"
              THEN drv' = [drv EXCEPT ![d].at = "waking", ![d].run = r,
                             ![d].row = run[r], ![d].subs = rest,
                             ![d].signal = Signal(d, s)]
              ELSE drv' = [drv EXCEPT ![d].at = IF rest = {} THEN "ack" ELSE "wake",
                                      ![d].subs = rest]
    BY <1>3, WakeSelects
  <2>2. CASE run[sub[s].run].status = "waiting"
    BY <1>1, <1>2, <2>1, <2>2, Tables DEF Untouched, DriverStates
  <2>3. CASE run[sub[s].run].status # "waiting"
    BY <1>1, <2>1, <2>3, Tables DEF Untouched, DriverStates, DriverInLine, InRun, HandPoints
  <2>. QED BY <2>2, <2>3
<1>4. CASE LoadToDecide(d)
  <2>1. CASE Return(d)
    BY <1>1, <2>1, ReturnInLine
  <2>2. CASE ~ Return(d)
    <3>1. /\ run[drv[d].run].status = "waiting"
          /\ drv' = [drv EXCEPT ![d].at = "deciding", ![d].row = run[drv[d].run]]
      BY <1>4, <2>2, Zenon DEF LoadToDecide
    <3>. QED BY <1>1, <1>2, <3>1, Tables DEF Untouched, DriverStates
  <2>. QED BY <2>1, <2>2
<1>. QED BY <1>3, <1>4

LEMMA AckInLine ==
  ASSUME GateInv, InLine, NEW d \in Drivers, Ack(d) PROVE InLine' /\ Oldest
<1>1. UNCHANGED <<run, sub>> /\ drv' = [drv EXCEPT ![d] = Idle]
  BY DEF Ack
<1>2. Untouched(d) /\ drv'[d].at = "idle"
  BY <1>1, Tables DEF Untouched, Idle
<1>3. \A a \in Approvals : appr'[a].run = appr[a].run /\ appr'[a].status = appr[a].status
  BY Tables DEF Ack, ApprovalRows
<1>4. TablesInLine
  BY <1>1, <1>3 DEF TablesInLine
<1>5. DriverInLine(d)'
  BY <1>2 DEF DriverInLine, InRun, HandPoints
<1>. QED BY <1>1, <1>2, <1>4, <1>5, ReadInLine DEF Untouched

(* The INSERT goes behind every run there is. *)
LEMMA InsertInLine ==
  ASSUME GateInv, InLine, NEW d \in Drivers, InsertRun(d) PROVE InLine' /\ Oldest
<1>. DEFINE queued == Policy = "queue" /\ drv[d].live # {}
            doomed == IF Policy = "replace" THEN drv[d].live ELSE {}
<1>1. drv[d].at = "insert" /\ UNCHANGED <<appr, sub>>
  BY InsertWrites
<1>2. PICK new \in First(Free(run)) :
        /\ run' = [r \in Runs |->
                     IF r = new
                       THEN [NewRow EXCEPT !.status = IF queued THEN "queued" ELSE "running"]
                     ELSE IF r \in doomed
                       THEN [run[r] EXCEPT !.status = "superseded", !.cursor = 1]
                     ELSE run[r]]
        /\ IF queued THEN Return(d) ELSE Advance(d, new)
  BY InsertWrites
<1>3. /\ new \in Runs /\ run[new].status = "absent"
      /\ \A q \in Runs : run[q].status = "absent" => new <= q
  BY <1>2, Tables DEF First, Free
<1>4. run'[new].status = IF queued THEN "queued" ELSE "running"
  BY <1>2, <1>3 DEF NewRow
<1>5. \A q \in Runs \ {new} :
        \/ run'[q] = run[q]
        \/ q \in drv[d].live /\ run'[q].status = "superseded"  BY <1>2, Tables DEF Rows
<1>6. \A q \in drv[d].live : run[q].status # "absent"
  BY <1>1 DEF InLine, DriverInLine
<1>7. Onward
  BY <1>3, <1>4, <1>5 DEF Onward, Begun
<1>8. ASSUME NEW q \in Runs, NEW r \in Runs, q < r, run'[r].status # "absent"
      PROVE  run'[q].status # "absent"
  BY <1>3, <1>5, <1>6, <1>7, <1>8 DEF Runs, Onward, InLine
<1>9. Policy # "queue" => \A r \in Runs : run'[r].status # "queued"
  BY <1>4, <1>5 DEF InLine
<1>10. Untouched(d) /\ DriverInLine(d)'
  <2>1. CASE queued
    BY <1>2, <2>1, ReturnInLine
  <2>2. CASE ~ queued
    <3>1. run'[new].status = "running"
      BY <1>4, <2>2
    <3>2. Advance(d, new)
      BY <1>2, <2>2, Zenon
    <3>. QED BY <1>3, <3>1, <3>2, AdvanceInLine
  <2>. QED BY <2>1, <2>2
<1>11. Oldest
  BY <1>3, <1>5 DEF Oldest
<1>. QED BY <1>1, <1>7, <1>8, <1>9, <1>10, <1>11, SameTables, LineIf DEF Untouched

LEMMA PromoteInLine ==
  ASSUME GateInv, InLine, NEW d \in Drivers, Promote(d) PROVE InLine' /\ Oldest
<1>1. drv[d].at = "promoting" /\ drv[d].live \subseteq Runs /\ UNCHANGED <<appr, sub>>
  BY Tables DEF Promote, At, DriverStates
<1>2. PICK r \in drv[d].live : run' = [run EXCEPT ![r].status = "running"] /\ Advance(d, r)
  BY DEF Promote
<1>3. /\ r \in Runs /\ run[r].status # "absent" /\ \A q \in Runs : q < r => Begun(q)
  BY <1>1, <1>2 DEF InLine, DriverInLine
<1>4. run'[r].status = "running" /\ \A q \in Runs \ {r} : run'[q] = run[q]
  BY <1>2, <1>3, StatusWrites DEF Writes
<1>5. Onward
  BY <1>4 DEF Onward, Begun
<1>6. \A p, q \in Runs :
        (p < q /\ run'[q].status # "absent") => run'[p].status # "absent"
  BY <1>3, <1>4 DEF InLine
<1>7. Policy # "queue" => \A q \in Runs : run'[q].status # "queued"
  BY <1>4 DEF InLine
<1>8. Oldest
  BY <1>3, <1>4 DEF Oldest, Begun
<1>9. Untouched(d) /\ DriverInLine(d)'
  BY <1>2, <1>3, <1>4, AdvanceInLine
<1>. QED BY <1>1, <1>5, <1>6, <1>7, <1>8, <1>9, SameTables, LineIf DEF Untouched

LEMMA LineStep ==
  ASSUME GateInv, InLine, [Next]_vars PROVE InLine' /\ Oldest
<1>1. ASSUME NEW d \in Drivers, OwnWrite(d) PROVE InLine' /\ Oldest
  BY <1>1, OwnWriteInLine, OwnWriteOldest
<1>2. ASSUME NEW d \in Drivers, UNCHANGED <<run, appr, sub>>, Untouched(d), DriverInLine(d)'
      PROVE  InLine' /\ Oldest
  BY <1>2, SameTables, ReadInLine DEF Untouched
<1>3. ASSUME NEW d \in Drivers, HandlerStep(d) PROVE InLine' /\ Oldest
  <2>1. CASE \/ SetVars(d) \/ Emit(d) \/ Branch(d) \/ Jump(d) \/ SkipDone(d) \/ RecordStep(d)
             \/ Complete(d) \/ FailRun(d) \/ EndCompensation(d)
             \/ ParkWait(d) \/ ParkHuman(d) \/ ParkTool(d)
             \/ WakeRun(d) \/ ResumeHuman(d) \/ ResumeTool(d)
    BY <1>1, <2>1, MovesInLine, EndsInLine, ParksInLine, ResumesInLine
  <2>2. CASE \/ Load(d) \/ StartStep(d) \/ RunAgent(d) \/ RunTool(d)
             \/ LoadToFail(d) \/ BeginCompensation(d) \/ RunCompensator(d)
             \/ PickQueued(d) \/ Drop(d) \/ LoadToWake(d) \/ LoadToDecide(d)
    BY <1>2, <2>2, WorksInLine, PickInLine, PickUpInLine, SelectsInLine
  <2>3. CASE InsertRun(d) \/ Promote(d) \/ Claim(d) \/ Ack(d)
    BY <2>3, InsertInLine, PromoteInLine, ClaimInLine, AckInLine
  <2>. QED BY <1>3, <2>1, <2>2, <2>3 DEF HandlerStep, AdvanceStep, CompensateStep
<1>4. ASSUME NEW d \in Drivers, PickUp(d) \/ StartRun(d) \/ ResumeRun(d) \/ Fail(d)
      PROVE  InLine' /\ Oldest
  BY <1>2, <1>4, PickUpInLine DEF PickUp
<1>5. ASSUME NEW a \in Approvals, Resolve(a) \/ Expire(a) PROVE InLine' /\ Oldest
  BY <1>5, DecideChanges, ReadInLine DEF TablesInLine
<1>6. CASE UNCHANGED vars
  BY <1>6, SameTables, ReadInLine DEF vars
<1>. QED BY <1>3, <1>4, <1>5, <1>6 DEF Next

LEMMA LineInit == Init => InLine
<1>. SUFFICES ASSUME Init PROVE InLine
  OBVIOUS
<1>1. /\ \A r \in Runs : run[r].status = "absent"
      /\ \A s \in Subs : sub[s].status = "absent"
      /\ \A a \in Approvals : appr[a].status = "absent"
      /\ \A d \in Drivers : drv[d] = Idle
  BY DEF Init, NewRow
<1>2. \A d \in Drivers : DriverInLine(d)
  BY <1>1 DEF DriverInLine, InRun, HandPoints, Idle
<1>. QED BY <1>1, <1>2 DEF InLine

LEMMA LineAlways == Spec => [](GateInv /\ InLine)
<1>. QED BY GateInvInit, GateInvStep, LineInit, LineStep, PTL DEF Spec

(* A queued run is promoted before those that queued after it, for every   *)
(* policy, program and set of drivers, though _promote_next picks the run  *)
(* in a sub-select and two promoters may pick the same one.                *)
THEOREM QueueIsOrdered == Spec => PromotedOldestFirst
<1>1. Oldest => \A q, r \in Runs :
        (run[r].status = "queued" /\ run'[r].status = "running" /\ q < r)
          => run[q].status # "queued"
  BY DEF Oldest
<1>. QED BY <1>1, LineAlways, LineStep, PTL DEF Spec, PromotedOldestFirst

-----------------------------------------------------------------------------
(* Queued runs: who lets them go                                           *)

(* What a driver that leaves the loop finds or leaves behind. *)
Released ==
  \/ \E r \in Runs : run'[r].status \in Live
  \/ \A r \in Runs : run'[r].status # "queued"

LeavesLoop(d) == drv[d].at \in {"exec", "promote"} /\ drv'[d].at \in {"ack", "wake"}

LEMMA HandlerLeavesLoop ==
  ASSUME GateInv, InLine, NEW d \in Drivers, HandlerStep(d), LeavesLoop(d)
  PROVE  Released
<1>1. CASE ParkWait(d) \/ ParkHuman(d)  BY <1>1, ParksInLine DEF OwnWrite, Released, Live
<1>2. CASE PickQueued(d)
  BY <1>2, Tables DEF PickQueued, InLine, Released, LeavesLoop, DriverStates
<1>3. CASE SetVars(d) \/ Emit(d) \/ Branch(d) \/ Jump(d) \/ SkipDone(d)
  BY <1>3, AdvanceGives DEF SetVars, Emit, Branch, Jump, SkipDone, Again, LeavesLoop
<1>4. CASE StartStep(d) \/ Complete(d)  BY <1>4, GoGives DEF StartStep, Complete, LeavesLoop
<1>5. CASE AdvanceStep(d)
  BY <1>1, <1>2, <1>3, <1>4, <1>5 DEF LeavesLoop, Load, RunAgent, RunTool, RecordStep,
     ParkTool, Promote, At, AdvanceStep
<1>6. ~ CompensateStep(d)
  BY DEF LeavesLoop, CompensateStep, LoadToFail, FailRun, BeginCompensation, RunCompensator,
         EndCompensation, At
<1>7. ~ (\/ Drop(d) \/ InsertRun(d) \/ Claim(d) \/ LoadToWake(d) \/ WakeRun(d)
         \/ LoadToDecide(d) \/ ResumeHuman(d) \/ ResumeTool(d) \/ Ack(d))
  BY DEF LeavesLoop, Drop, InsertRun, Claim, LoadToWake, WakeRun, LoadToDecide,
         ResumeHuman, ResumeTool, Ack, At
<1>. QED BY <1>5, <1>6, <1>7 DEF HandlerStep

LEMMA HandlerTouchesOne ==
  ASSUME GateInv, InLine, NEW d \in Drivers, HandlerStep(d) PROVE Untouched(d)
<1>1. CASE \/ SetVars(d) \/ Emit(d) \/ Branch(d) \/ Jump(d) \/ SkipDone(d) \/ RecordStep(d)
           \/ Complete(d) \/ FailRun(d) \/ EndCompensation(d)
           \/ ParkWait(d) \/ ParkHuman(d) \/ ParkTool(d)
           \/ WakeRun(d) \/ ResumeHuman(d) \/ ResumeTool(d)
  BY <1>1, MovesInLine, EndsInLine, ParksInLine, ResumesInLine DEF OwnWrite
<1>2. CASE \/ Load(d) \/ StartStep(d) \/ RunAgent(d) \/ RunTool(d)
           \/ LoadToFail(d) \/ BeginCompensation(d) \/ RunCompensator(d)
           \/ PickQueued(d) \/ Drop(d) \/ LoadToWake(d) \/ LoadToDecide(d)
  BY <1>2, WorksInLine, PickInLine, PickUpInLine, SelectsInLine
<1>3. CASE Return(d) \/ \E r : Advance(d, r)
  BY <1>3, ReturnGives, AdvanceGives
<1>4. CASE InsertRun(d) \/ Promote(d)
  BY <1>3, <1>4, InsertWrites DEF Promote
<1>5. CASE Claim(d)
  BY <1>5, ClaimLeaves
<1>6. CASE Ack(d)
  BY <1>6, Tables DEF Ack, Untouched
<1>. QED BY <1>1, <1>2, <1>4, <1>5, <1>6 DEF HandlerStep, AdvanceStep, CompensateStep

LEMMA LeavesLoopStep ==
  ASSUME GateInv, InLine, [Next]_vars, NEW d \in Drivers, LeavesLoop(d) PROVE Released
<1>1. drv'[d] # drv[d]
  BY DEF LeavesLoop
<1>2. ASSUME NEW e \in Drivers, Untouched(e) PROVE e = d
  BY <1>1, <1>2 DEF Untouched
<1>3. ASSUME NEW e \in Drivers, HandlerStep(e) PROVE Untouched(e)
  BY <1>3, HandlerTouchesOne
<1>4. ASSUME NEW e \in Drivers, PickUp(e) \/ StartRun(e) \/ ResumeRun(e) \/ Fail(e)
      PROVE  FALSE
  <2>1. Untouched(e)
    BY <1>4, PickUpInLine DEF PickUp
  <2>2. CASE Fail(e)  BY <1>2, <2>1, <2>2, Tables DEF Fail, Idle, LeavesLoop
  <2>3. CASE PickUp(e) \/ StartRun(e) \/ ResumeRun(e)
    BY <1>2, <2>1, <2>3 DEF PickUp, SeeReply, SeeDue, TakeDecision, StartRun, ResumeRun, At,
       LeavesLoop
  <2>. QED BY <1>4, <2>2, <2>3
<1>5. ASSUME NEW a \in Approvals, Resolve(a) \/ Expire(a) PROVE FALSE
  BY <1>1, <1>5 DEF Resolve, Expire
<1>6. CASE UNCHANGED vars
  BY <1>1, <1>6 DEF vars
<1>. QED BY <1>2, <1>3, <1>4, <1>5, <1>6, HandlerLeavesLoop DEF Next

(* A driver that leaves a run at its END, or parks one, leaves no key with *)
(* queued runs and no live one: unless its policy queues nothing, the      *)
(* completing driver finds whoever stands in line (_advance and            *)
(* _promote_next).  The steps of _compensate are not among these: they end *)
(* a run without _promote_next.                                            *)
THEOREM LeavingReleases == Spec => EndPromotes
<1>1. GateInv /\ InLine /\ [Next]_vars =>
        (\A d \in Drivers :
           (/\ drv[d].at \in {"exec", "promote"}
            /\ drv'[d].at \in {"ack", "wake"})
             => \/ \E r \in Runs : run'[r].status \in Live
                \/ \A r \in Runs : run'[r].status # "queued")
  BY LeavesLoopStep DEF LeavesLoop, Released
<1>. QED BY <1>1, LineAlways, PTL DEF Spec, EndPromotes
=============================================================================
