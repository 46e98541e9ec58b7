--------------------------- MODULE OutreachProofs ---------------------------
(***************************************************************************)
(* Proofs about Outreach for any number of attempts, episodes, sweeps and  *)
(* faults and any cap: types, one dispatch of an episode, touches that are *)
(* remembered and opt-outs that are kept, for any number of senders; the   *)
(* touch cap, for the one sender a playbook run has at a time.             *)
(***************************************************************************)
EXTENDS Outreach, FiniteSetTheorems, TLAPS

-----------------------------------------------------------------------------
(* The inductive invariant                                                 *)

AttemptRows == [status : TouchStatuses \cup {"none", "proposed", "blocked", "failed"},
                episode : Episodes, sent : BOOLEAN]
PlaybookRows == [status : {"none", "parked", "send", "wait"},
                 attempt : Attempts \cup {Nobody}, episode : Episodes]
WireRows == [status : {"none", "dispatching", "sent", "failed", "delivered", "bounced"},
             accepted : Nat, lost : Nat]
SenderRecords == [at : {"idle", "gated", "calling", "record"},
                  attempt : Attempts \cup {Nobody}, episode : Episodes, tries : Nat,
                  result : {"none", "ok", "rejected", "unknown"}]

Types ==
  /\ lead \in [stage : {"qualified", "quoted"}, direction : {"none", "inbound", "outbound"},
               episode : Episodes, quiet : BOOLEAN, held : BOOLEAN, unanswered : BOOLEAN]
  /\ stopped \in [now : BOOLEAN, early : SUBSET Senders]
  /\ intake \in [at : {"idle", "opened", "cleared"}, attempt : Attempts \cup {Nobody},
                 episode : Episodes]
  /\ attempt \in [Attempts -> AttemptRows]
  /\ playbook \in PlaybookRows
  /\ wire \in [Episodes -> WireRows]
  /\ sender \in [Senders -> SenderRecords]
  /\ mishaps \in Nat

(* The attempt in the consumer's hands is in nobody else's; the run's and  *)
(* the senders' attempts are rows of their episodes.                       *)
Linked ==
  /\ intake.at # "idle" =>
       /\ intake.attempt \in Attempts
       /\ attempt[intake.attempt].status = "proposed"
       /\ attempt[intake.attempt].episode = intake.episode
       /\ playbook.attempt # intake.attempt
       /\ \A s \in Senders : sender[s].attempt # intake.attempt
  /\ playbook.status = "none" => playbook = NoRun
  /\ playbook.status # "none" =>
       /\ playbook.attempt \in Attempts
       /\ attempt[playbook.attempt].status # "none"
       /\ attempt[playbook.attempt].episode = playbook.episode
  /\ playbook.status = "parked" =>
       /\ attempt[playbook.attempt].status = "proposed"
       /\ \A s \in Senders : sender[s].attempt # playbook.attempt
  /\ \A s \in Senders :
       /\ sender[s].at = "idle" => sender[s] = Resting
       /\ sender[s].at # "idle" =>
            /\ sender[s].attempt \in Attempts
            /\ attempt[sender[s].attempt].status # "none"
            /\ attempt[sender[s].attempt].episode = sender[s].episode

Claims(s) == sender[s].at \in {"calling", "record"}

(* The claim of an episode is made once, and what the provider accepted    *)
(* under it is one copy more than the answers lost, at most.               *)
Dispatched ==
  /\ \A e \in Episodes :
       /\ wire[e].status = "none" => wire[e].accepted = 0 /\ wire[e].lost = 0
       /\ wire[e].accepted <= 1 + wire[e].lost
  /\ \A s \in Senders : Claims(s) =>
       /\ wire[sender[s].episode].status = "dispatching"
       /\ sender[s].result # "ok" =>
            wire[sender[s].episode].accepted <= wire[sender[s].episode].lost
       /\ \A t \in Senders :
            Claims(t) /\ sender[t].episode = sender[s].episode => t = s
  /\ \A s \in Senders : sender[s].at \in {"gated", "calling"} => sender[s].result = "none"

(* The episodes whose accepted message no attempt counts; the run that     *)
(* will execute the send of a counted attempt again.                       *)
Dropped == {e \in Episodes : /\ wire[e].accepted > 0 /\ wire[e].lost = 0
                             /\ \A s \in Senders : Claims(s) => sender[s].episode # e
                             /\ \A a \in Counted : attempt[a].episode # e}
Again == IF playbook.status = "send" /\ playbook.attempt \in Counted THEN 1 ELSE 0
Remembered == Cardinality(Dropped) + Again <= mishaps

Inv == Types /\ Linked /\ Dispatched /\ Remembered /\ StopStopsTouches

(* One worker at a time executes the send step of a playbook run           *)
(* (WorkflowEngine's OneDriverPerRun), and a lead has one run.             *)
OneSender == \A s, t \in Senders : s = t

(* The touches counted, the one that may still be sent and the one whose   *)
(* guards have been read stay within the cap and one more.                 *)
Sending == \A s \in Senders : sender[s].at # "idle" =>
             /\ playbook.status = "send" /\ playbook.attempt = sender[s].attempt
             /\ playbook.episode = sender[s].episode
Chance == IF \/ \E s \in Senders : Claims(s)
             \/ playbook.status # "none" /\ wire[playbook.episode].status = "none"
          THEN 1 ELSE 0
Cleared == IF intake.at = "cleared" THEN 1 ELSE 0
Within == IsFiniteSet(Counted) /\ Cardinality(Counted) + Chance + Cleared <= TouchCap + 1

-----------------------------------------------------------------------------
(* Types                                                                   *)

(* The resting records have their shapes. *)
LEMMA Shapes ==
  /\ 0 \in Episodes /\ IsFiniteSet(Episodes) /\ Resting \in SenderRecords
  /\ NoRun \in PlaybookRows
<1>1. 0 \in Episodes BY OutreachAssumption DEF Episodes
<1>2. IsFiniteSet(Episodes)  BY OutreachAssumption, FS_Interval DEF Episodes
<1> QED BY <1>1, <1>2 DEF Resting, SenderRecords, NoRun, PlaybookRows

(* Steps that move the lead or the sweep's counters only. *)
Aside == UNCHANGED <<stopped, intake, attempt, playbook, wire, sender, mishaps>>

(* The lead keeps its shape. *)
LEMMA LeadStep ==
  ASSUME Types, [OutreachNext]_outreachVars
  PROVE  lead' \in [stage : {"qualified", "quoted"}, direction : {"none", "inbound", "outbound"},
                    episode : Episodes, quiet : BOOLEAN, held : BOOLEAN, unanswered : BOOLEAN]
<1> DEFINE Leads == [stage : {"qualified", "quoted"}, direction : {"none", "inbound", "outbound"},
                     episode : Episodes, quiet : BOOLEAN, held : BOOLEAN, unanswered : BOOLEAN]
<1>0. lead \in Leads BY DEF Types
<1>1. CASE UNCHANGED lead BY <1>0, <1>1
<1>2. lead.episode < MaxEpisode => lead.episode + 1 \in Episodes
  BY <1>0, OutreachAssumption DEF Episodes
<1>3. CASE MarkQuoted  BY <1>0, <1>3 DEF MarkQuoted
<1>4. CASE CustomerWrites BY <1>0, <1>2, <1>4 DEF CustomerWrites, Touched
<1>5. CASE TimePasses BY <1>0, <1>5 DEF TimePasses
<1>6. CASE OwnerIntervenes  BY <1>0, <1>2, <1>6 DEF OwnerIntervenes
<1>7. ASSUME NEW s \in Senders, RecordOutcome(s)
      PROVE  lead' \in Leads
  BY <1>0, <1>7 DEF RecordOutcome
<1> QED
  BY <1>1, <1>3, <1>4, <1>5, <1>6, <1>7
     DEF OutreachNext, CustomerStops, Sweep, OpenAttempt, EvaluateGuards, StartPlaybook,
         OwnerDecides, WaitTimesOut, OutreachCrash, Gates, ClaimDispatch, CallProvider,
         TransportError, ApplyStatus, outreachVars

(* Every step keeps the types (recovery.py, send.py, consumers.py). *)
LEMMA TypesStep ==
  ASSUME Types, Linked, [OutreachNext]_outreachVars
  PROVE  Types'
<1> USE OutreachAssumption
<1> DEFINE Leads == [stage : {"qualified", "quoted"}, direction : {"none", "inbound", "outbound"},
                     episode : Episodes, quiet : BOOLEAN, held : BOOLEAN, unanswered : BOOLEAN]
           Stops == [now : BOOLEAN, early : SUBSET Senders]
           Intakes == [at : {"idle", "opened", "cleared"}, attempt : Attempts \cup {Nobody},
                       episode : Episodes]
<1>0. /\ lead \in Leads /\ lead' \in Leads /\ stopped \in Stops /\ intake \in Intakes
      /\ attempt \in [Attempts -> AttemptRows] /\ playbook \in PlaybookRows
      /\ wire \in [Episodes -> WireRows] /\ sender \in [Senders -> SenderRecords]
      /\ mishaps \in Nat
  BY LeadStep DEF Types
<1>1. CASE Aside BY <1>0, <1>1 DEF Aside, Types
<1>2. CASE CustomerWrites \/ WaitTimesOut \/ OwnerDecides
  BY <1>0, <1>2, Shapes DEF CustomerWrites, WaitTimesOut, OwnerDecides, PlaybookRows, Types
<1>3. CASE CustomerStops BY <1>0, <1>3 DEF CustomerStops, Types
<1>4. CASE OpenAttempt  BY <1>0, <1>4 DEF OpenAttempt, Anchor, Unused, AttemptRows, Types
<1>5. CASE EvaluateGuards \/ StartPlaybook
  BY <1>0, <1>5, Shapes DEF EvaluateGuards, StartPlaybook, Acknowledge, PlaybookRows, Types
<1>6. ASSUME NEW s \in Senders, Gates(s) PROVE Types'
  <2>1. playbook.attempt \in Attempts /\ playbook.episode \in Episodes
    BY <1>0, <1>6 DEF Gates, Linked, PlaybookRows
  <2>2. sender' \in [Senders -> SenderRecords]
    <3>1. CASE UNCHANGED sender BY <1>0, <3>1
    <3>2. CASE sender' = [sender EXCEPT ![s] = [Resting EXCEPT !.at = "gated",
                            !.attempt = playbook.attempt, !.episode = playbook.episode]]
      BY <1>0, <2>1, <3>2, Shapes DEF SenderRecords
    <3> QED BY <1>6, <3>1, <3>2 DEF Gates
  <2>3. attempt' \in [Attempts -> AttemptRows] BY <1>0, <1>6 DEF Gates, Blocked, AttemptRows
  <2>4. playbook' \in PlaybookRows BY <1>0, <1>6 DEF Gates, PlaybookRows
  <2> QED BY <1>0, <1>6, <2>2, <2>3, <2>4 DEF Gates, Types
<1>7. ASSUME NEW s \in Senders, ClaimDispatch(s) PROVE Types'
  <2>1. sender' \in [Senders -> SenderRecords]
    <3>1. CASE sender' = [sender EXCEPT ![s].at = "calling"]
      BY <1>0, <3>1 DEF SenderRecords
    <3>2. CASE Rest(s) BY <1>0, <3>2, Shapes DEF Rest
    <3> QED BY <1>7, <3>1, <3>2 DEF ClaimDispatch
  <2>2. stopped' \in Stops BY <1>0, <1>7 DEF ClaimDispatch, Rest, Released
  <2>3. wire' \in [Episodes -> WireRows] BY <1>0, <1>7 DEF ClaimDispatch, WireRows
  <2>4. playbook' \in PlaybookRows
    BY <1>0, <1>7 DEF ClaimDispatch, Waiting, PlaybookRows
  <2> QED BY <1>0, <1>7, <2>1, <2>2, <2>3, <2>4 DEF ClaimDispatch, Types
<1>8. ASSUME NEW s \in Senders, CallProvider(s) PROVE Types'
  <2>1. sender' \in [Senders -> SenderRecords]
    <3>1. ASSUME NEW result \in {"ok", "rejected", "unknown"}, Recording(s, result)
          PROVE  sender' \in [Senders -> SenderRecords]
      <4>1. [sender[s] EXCEPT !.at = "record", !.result = result] \in SenderRecords
        <5>1. sender[s] \in SenderRecords BY <1>0
        <5>2. result \in {"none", "ok", "rejected", "unknown"} BY <3>1
        <5> QED BY <5>1, <5>2 DEF SenderRecords
      <4>2. sender' = [sender EXCEPT ![s] = [sender[s] EXCEPT !.at = "record",
                                                              !.result = result]]
        BY <3>1 DEF Recording
      <4> QED BY <1>0, <4>1, <4>2
    <3>2. CASE sender' = [sender EXCEPT ![s].tries = @ + 1]
      BY <1>0, <3>2 DEF SenderRecords
    <3> QED BY <1>8, <3>1, <3>2 DEF CallProvider
  <2>2. wire' \in [Episodes -> WireRows]
    <3> DEFINE e == sender[s].episode
    <3>0. e \in Episodes  BY <1>0 DEF SenderRecords
    <3>1. CASE UNCHANGED wire  BY <1>0, <3>1
    <3>2. CASE wire' = [wire EXCEPT ![e].accepted = @ + 1]  BY <1>0, <3>0, <3>2 DEF WireRows
    <3>3. CASE wire' = [wire EXCEPT ![e].accepted = @ + 1, ![e].lost = @ + 1]
      BY <1>0, <3>0, <3>3 DEF WireRows
    <3> QED BY <1>8, <3>1, <3>2, <3>3, Zenon DEF CallProvider
  <2> QED BY <1>0, <1>8, <2>1, <2>2 DEF CallProvider, Types
<1>9. ASSUME NEW s \in Senders, TransportError(s) PROVE Types'
  <2>1. sender' \in [Senders -> SenderRecords] /\ stopped' \in Stops
    BY <1>0, <1>9, Shapes DEF TransportError, Rest, Released
  <2>2. wire' \in [Episodes -> WireRows]
    BY <1>0, <1>9 DEF SenderRecords, WireRows, TransportError
  <2>3. playbook' \in PlaybookRows /\ mishaps' \in Nat
    BY <1>0, <1>9, Shapes DEF TransportError
  <2> QED BY <1>0, <1>9, <2>1, <2>2, <2>3 DEF TransportError, Types
<1>10. ASSUME NEW s \in Senders, RecordOutcome(s) PROVE Types'
  <2> DEFINE e == sender[s].episode
             a == sender[s].attempt
             result == sender[s].result
  <2>1. sender' \in [Senders -> SenderRecords] /\ stopped' \in Stops
    BY <1>0, <1>10, Shapes DEF RecordOutcome, Rest, Released
  <2>2. wire' \in [Episodes -> WireRows]
    <3>1. PICK status \in {"sent", "failed"} : wire' = [wire EXCEPT ![e].status = status]
      BY <1>10 DEF RecordOutcome
    <3>2. e \in Episodes /\ wire[e] \in WireRows BY <1>0 DEF SenderRecords
    <3>3. [wire[e] EXCEPT !.status = status] \in WireRows BY <3>2 DEF WireRows
    <3>4. wire' = [wire EXCEPT ![e] = [wire[e] EXCEPT !.status = status]] BY <3>1
    <3> QED BY <1>0, <3>2, <3>3, <3>4
  <2>3. attempt' \in [Attempts -> AttemptRows]
    <3>1. OutcomeStatus(result) \in {"sent", "delivery_unknown", "failed"}
      BY DEF OutcomeStatus
    <3>2. attempt' = [attempt EXCEPT ![a].status = OutcomeStatus(result),
                                     ![a].sent = @ \/ result \in {"ok", "unknown"}]
      BY <1>10 DEF RecordOutcome
    <3>3. a \in Attempts BY <1>10 DEF RecordOutcome, Linked
    <3> DEFINE sent == attempt[a].sent \/ result \in {"ok", "unknown"}
               status == OutcomeStatus(result)
    <3>4. attempt' = [attempt EXCEPT ![a] = [attempt[a] EXCEPT !.status = status, !.sent = sent]]
      BY <3>2
    <3>5. sent \in BOOLEAN OBVIOUS
    <3>6. status \in {"sent", "delivery_unknown", "failed"} BY <3>1
    <3> HIDE DEF sent, status
    <3>7. [attempt[a] EXCEPT !.status = status, !.sent = sent] \in AttemptRows
      <4>1. attempt[a] \in AttemptRows BY <1>0, <3>3
      <4>2. status \in TouchStatuses \cup {"none", "proposed", "blocked", "failed"}
        BY <3>6 DEF TouchStatuses
      <4> QED BY <3>5, <4>1, <4>2 DEF AttemptRows
    <3> QED BY <1>0, <3>3, <3>4, <3>7
  <2>4. playbook' \in PlaybookRows BY <1>0, <1>10 DEF RecordOutcome, Waiting, PlaybookRows
  <2> QED BY <1>0, <1>10, <2>1, <2>2, <2>3, <2>4 DEF RecordOutcome, Types
<1>11. ASSUME NEW e \in Episodes, ApplyStatus(e) PROVE Types'
  <2>1. wire' \in [Episodes -> WireRows] BY <1>0, <1>11 DEF ApplyStatus, WireRows
  <2>2. attempt' \in [Attempts -> AttemptRows]
    BY <1>0, <1>11 DEF ApplyStatus, Delivered, AttemptRows, TouchStatuses
  <2> QED BY <1>0, <1>11, <2>1, <2>2 DEF ApplyStatus, Types
<1>12. CASE OutreachCrash
  BY <1>0, <1>12, Shapes DEF OutreachCrash, Rest, Released, PlaybookRows, Types
<1> QED
  BY <1>1, <1>2, <1>3, <1>4, <1>5, <1>6, <1>7, <1>8, <1>9, <1>10, <1>11, <1>12
     DEF OutreachNext, MarkQuoted, TimePasses, OwnerIntervenes, Sweep, outreachVars, Aside

-----------------------------------------------------------------------------
(* Attempts, the run and the senders                                       *)

(* What a step does to a row of the ledger: an attempt keeps its episode,  *)
(* and one that nobody is sending stays proposed (attempts.py).            *)
LEMMA AttemptsStay ==
  ASSUME Types, Linked, [OutreachNext]_outreachVars, NEW a \in Attempts
  PROVE  /\ attempt[a].status # "none" =>
              attempt'[a].status # "none" /\ attempt'[a].episode = attempt[a].episode
         /\ /\ attempt[a].status = "proposed"
            /\ playbook.status = "send" => playbook.attempt # a
            /\ \A s \in Senders : sender[s].attempt # a
            => attempt'[a].status = "proposed"
<1>0. attempt \in [Attempts -> AttemptRows] BY DEF Types
<1>1. CASE UNCHANGED attempt BY <1>1
<1>2. CASE OpenAttempt  BY <1>0, <1>2 DEF OpenAttempt, Unused
<1>3. ASSUME NEW s \in Senders, Gates(s), attempt' # attempt
      PROVE  attempt' = [attempt EXCEPT ![playbook.attempt].status = "blocked"]
             /\ playbook.status = "send"
  BY <1>3 DEF Gates, Blocked
<1>4. CASE attempt' = [attempt EXCEPT ![playbook.attempt].status = "blocked"]
           /\ playbook.status = "send"
  BY <1>0, <1>4 DEF AttemptRows
<1>5. ASSUME NEW s \in Senders, RecordOutcome(s)
      PROVE  /\ attempt[a].status # "none" =>
                  attempt'[a].status # "none" /\ attempt'[a].episode = attempt[a].episode
             /\ sender[s].attempt # a => attempt'[a] = attempt[a]
  <2> DEFINE status == OutcomeStatus(sender[s].result)
             sent == attempt[sender[s].attempt].sent \/ sender[s].result \in {"ok", "unknown"}
  <2>1. attempt' = [attempt EXCEPT ![sender[s].attempt].status = status,
                                   ![sender[s].attempt].sent = sent]
    BY <1>5 DEF RecordOutcome
  <2>2. status # "none" BY DEF OutcomeStatus
  <2> HIDE DEF status, sent
  <2> QED BY <1>0, <2>1, <2>2 DEF AttemptRows
<1>6. ASSUME NEW e \in Episodes, ApplyStatus(e)
      PROVE  /\ attempt[a].status # "none" =>
                  attempt'[a].status # "none" /\ attempt'[a].episode = attempt[a].episode
             /\ attempt[a].status = "proposed" => attempt'[a] = attempt[a]
  BY <1>0, <1>6 DEF ApplyStatus, Delivered, AttemptRows
<1> QED
  BY <1>1, <1>2, <1>3, <1>4, <1>5, <1>6
     DEF OutreachNext, MarkQuoted, CustomerWrites, CustomerStops, TimePasses, OwnerIntervenes,
         Sweep, EvaluateGuards, StartPlaybook, OwnerDecides, WaitTimesOut, OutreachCrash,
         ClaimDispatch, CallProvider, TransportError, outreachVars

(* What a step leaves of the run of the lead. *)
Kept == playbook' = playbook \/ playbook' = NoRun \/ (playbook' = [playbook EXCEPT !.status = "wait"]
          /\ playbook.status # "none" /\ playbook.status # "parked")

(* A record that a worker holds goes on, or rests. *)
Holds(s) == \/ sender'[s] = sender[s] \/ sender'[s] = Resting
            \/ /\ sender[s].at # "idle" /\ sender'[s].at # "idle"
               /\ sender'[s].attempt = sender[s].attempt
               /\ sender'[s].episode = sender[s].episode

(* The steps of a sender that has passed the gates. *)
LEMMA SenderStep ==
  ASSUME Types, Linked, NEW s \in Senders,
         ClaimDispatch(s) \/ CallProvider(s) \/ TransportError(s) \/ RecordOutcome(s)
  PROVE  Kept /\ (\A t \in Senders : Holds(t)) /\ (\A t \in Senders \ {s} : sender'[t] = sender[t])
         /\ UNCHANGED intake
<1>0. sender \in [Senders -> SenderRecords] /\ playbook \in PlaybookRows BY DEF Types
<1>1. CASE ClaimDispatch(s)
  BY <1>0, <1>1 DEF ClaimDispatch, Rest, Waiting, Kept, Holds, SenderRecords
<1>2. CASE CallProvider(s)
  BY <1>0, <1>2 DEF CallProvider, Recording, Kept, Holds, SenderRecords
<1>3. CASE TransportError(s) BY <1>0, <1>3 DEF TransportError, Rest, Kept, Holds
<1>4. CASE RecordOutcome(s) BY <1>0, <1>4 DEF RecordOutcome, Rest, Waiting, Kept, Holds
<1> QED BY <1>1, <1>2, <1>3, <1>4

(* Attempts, runs and senders stay linked. *)
LEMMA LinkedStep ==
  ASSUME Types, Linked, [OutreachNext]_outreachVars
  PROVE  Linked'
<1> USE OutreachAssumption
<1>0. /\ intake \in [at : {"idle", "opened", "cleared"}, attempt : Attempts \cup {Nobody},
                     episode : Episodes]
      /\ attempt \in [Attempts -> AttemptRows] /\ playbook \in PlaybookRows
      /\ sender \in [Senders -> SenderRecords]
      /\ \A s \in Senders : sender[s].at = "idle" => sender[s].attempt = Nobody
  BY DEF Linked, Resting, Types
(* the consumer, the run and the senders go on with what they have *)
<1>1. ASSUME Kept, \A s \in Senders : Holds(s), UNCHANGED intake PROVE Linked'
  BY <1>0, <1>1, AttemptsStay DEF Linked, Kept, NoRun, PlaybookRows, Holds, Resting
<1>2. ASSUME UNCHANGED <<playbook, sender, intake>> PROVE Linked'
  BY <1>1, <1>2 DEF Kept, Holds
<1>3. ASSUME NEW s \in Senders,
             ClaimDispatch(s) \/ CallProvider(s) \/ TransportError(s) \/ RecordOutcome(s)
      PROVE  Linked'
  BY <1>1, <1>3, SenderStep
<1>4. CASE CustomerWrites \/ WaitTimesOut
  BY <1>1, <1>4 DEF CustomerWrites, WaitTimesOut, Kept, Holds
<1>5. CASE OpenAttempt  BY <1>0, <1>5 DEF OpenAttempt, Anchor, Unused, Linked, NoRun
<1>6. CASE EvaluateGuards \/ StartPlaybook
  BY <1>0, <1>6 DEF EvaluateGuards, StartPlaybook, Acknowledge, Linked
<1>7. CASE OwnerDecides
  BY <1>0, <1>1, <1>7 DEF OwnerDecides, Kept, Holds, PlaybookRows, Linked
<1>8. ASSUME NEW s \in Senders, Gates(s) PROVE Linked'
  <2>1. CASE UNCHANGED sender BY <1>1, <1>8, <2>1 DEF Gates, Kept, Holds
  <2>2. CASE sender' = [sender EXCEPT ![s] = [Resting EXCEPT !.at = "gated",
                          !.attempt = playbook.attempt, !.episode = playbook.episode]]
    BY <1>0, <1>1, <1>8, <2>2 DEF Resting, Gates, Linked, Kept, Holds
  <2> QED BY <1>8, <2>1, <2>2 DEF Gates
<1>9. CASE OutreachCrash
  BY <1>0, <1>1, <1>9 DEF Rest, Kept, Holds, OutreachCrash, Linked, PlaybookRows
<1> QED
  BY <1>2, <1>3, <1>4, <1>5, <1>6, <1>7, <1>8, <1>9
     DEF OutreachNext, MarkQuoted, TimePasses, OwnerIntervenes, CustomerStops, Sweep,
         ApplyStatus, outreachVars

-----------------------------------------------------------------------------
(* One dispatch of an episode                                              *)

(* A call of the provider by a sender: what becomes of it and of its row.  *)
LEMMA Called ==
  ASSUME Types, NEW s \in Senders, CallProvider(s),
         NEW e, e = sender[s].episode
  PROVE  /\ e \in Episodes /\ sender[s].at = "calling"
         /\ UNCHANGED <<lead, stopped, silences, intake, attempt, playbook, mishaps>>
         /\ \A t \in Senders \ {s} : sender'[t] = sender[t]
         /\ \A f \in Episodes \ {e} : wire'[f] = wire[f]
         /\ sender'[s].episode = e /\ sender'[s].at \in {"calling", "record"}
         /\ sender'[s].at = "calling" => sender'[s].result = sender[s].result
         /\ wire'[e].status = wire[e].status
         /\ \/ wire'[e].accepted = wire[e].accepted /\ wire'[e].lost = wire[e].lost
            \/ /\ wire'[e].accepted = wire[e].accepted + 1 /\ wire'[e].lost = wire[e].lost
               /\ sender'[s].at = "record" /\ sender'[s].result = "ok"
            \/ wire'[e].accepted = wire[e].accepted + 1 /\ wire'[e].lost = wire[e].lost + 1
<1>1. sender \in [Senders -> SenderRecords] /\ wire \in [Episodes -> WireRows] /\ e \in Episodes
  BY DEF Types, SenderRecords
<1>3. /\ sender[s].at = "calling"
      /\ UNCHANGED <<lead, stopped, silences, intake, attempt, playbook, mishaps>>
      /\ \/ wire' = [wire EXCEPT ![e].accepted = @ + 1] /\ Recording(s, "ok")
         \/ /\ \/ UNCHANGED wire
               \/ wire' = [wire EXCEPT ![e].accepted = @ + 1, ![e].lost = @ + 1]
            /\ \/ sender' = [sender EXCEPT ![s].tries = @ + 1]
               \/ Recording(s, "unknown") \/ Recording(s, "rejected")
  BY Zenon DEF CallProvider
<1>4. ASSUME NEW x, Recording(s, x)
      PROVE  /\ \A t \in Senders \ {s} : sender'[t] = sender[t]
             /\ sender'[s].episode = e /\ sender'[s].at = "record" /\ sender'[s].result = x
  BY <1>1, <1>4 DEF Recording, SenderRecords
<1>5. ASSUME sender' = [sender EXCEPT ![s].tries = @ + 1]
      PROVE  /\ \A t \in Senders \ {s} : sender'[t] = sender[t]
             /\ sender'[s].episode = e /\ sender'[s].at = "calling"
             /\ sender'[s].result = sender[s].result
  BY <1>1, <1>3, <1>5 DEF SenderRecords
<1>6. ASSUME wire' = [wire EXCEPT ![e].accepted = @ + 1]
      PROVE  /\ \A f \in Episodes \ {e} : wire'[f] = wire[f]
             /\ wire'[e].status = wire[e].status /\ wire'[e].lost = wire[e].lost
             /\ wire'[e].accepted = wire[e].accepted + 1
  BY <1>1, <1>6 DEF WireRows
<1>7. ASSUME wire' = [wire EXCEPT ![e].accepted = @ + 1, ![e].lost = @ + 1]
      PROVE  /\ \A f \in Episodes \ {e} : wire'[f] = wire[f]
             /\ wire'[e].status = wire[e].status /\ wire'[e].lost = wire[e].lost + 1
             /\ wire'[e].accepted = wire[e].accepted + 1
  BY <1>1, <1>7 DEF WireRows
<1>8. CASE wire' = [wire EXCEPT ![e].accepted = @ + 1] /\ Recording(s, "ok")
  BY <1>1, <1>3, <1>4, <1>6, <1>8
<1>9. CASE /\ \/ UNCHANGED wire
              \/ wire' = [wire EXCEPT ![e].accepted = @ + 1, ![e].lost = @ + 1]
           /\ \/ sender' = [sender EXCEPT ![s].tries = @ + 1]
              \/ Recording(s, "unknown") \/ Recording(s, "rejected")
  <2>1. /\ \A t \in Senders \ {s} : sender'[t] = sender[t]
        /\ sender'[s].episode = e /\ sender'[s].at \in {"calling", "record"}
        /\ sender'[s].at = "calling" => sender'[s].result = sender[s].result
    BY <1>4, <1>5, <1>9
  <2> QED BY <1>1, <1>3, <1>7, <1>9, <2>1
<1> QED BY <1>3, <1>8, <1>9

(* The claim of an episode is made once (_claim_dispatch), and what the    *)
(* provider accepted is explained by it and by the answers lost.           *)
LEMMA DispatchedStep ==
  ASSUME Types, Linked, Dispatched, [OutreachNext]_outreachVars
  PROVE  Dispatched'
<1>0. /\ wire \in [Episodes -> WireRows] /\ sender \in [Senders -> SenderRecords]
      /\ \A s \in Senders : sender[s].episode \in Episodes
      /\ \A e \in Episodes : wire[e].accepted \in Nat /\ wire[e].lost \in Nat
  BY DEF Types, SenderRecords, WireRows
<1>1. ASSUME UNCHANGED wire,
             \A s \in Senders : sender'[s] = sender[s] \/ sender'[s].at \in {"idle", "gated"},
             \A s \in Senders : sender'[s] = sender[s] \/ sender'[s].result = "none"
      PROVE  Dispatched'
  BY <1>1 DEF Dispatched, Claims
(* a step of sender s that moves the row of its episode                    *)
<1>2. ASSUME NEW s \in Senders, sender[s].at # "idle",
             \A t \in Senders \ {s} : sender'[t] = sender[t],
             sender'[s].episode = sender[s].episode \/ sender'[s].at = "idle",
             \A e \in Episodes \ {sender[s].episode} : wire'[e] = wire[e],
             wire'[sender[s].episode].status # "none",
             wire'[sender[s].episode].accepted <= 1 + wire'[sender[s].episode].lost,
             \A t \in Senders \ {s} : Claims(t) => sender[t].episode # sender[s].episode,
             sender'[s].at \in {"calling", "record"} =>
               /\ wire'[sender[s].episode].status = "dispatching"
               /\ sender'[s].result # "ok" =>
                    wire'[sender[s].episode].accepted <= wire'[sender[s].episode].lost,
             sender'[s].at \in {"gated", "calling"} => sender'[s].result = "none"
      PROVE  Dispatched'  BY <1>0, <1>2 DEF Dispatched, Claims
<1>3. ASSUME NEW s \in Senders, Claims(s)
      PROVE  /\ wire[sender[s].episode].status = "dispatching"
             /\ wire[sender[s].episode].accepted <= 1 + wire[sender[s].episode].lost
             /\ sender[s].result # "ok" =>
                  wire[sender[s].episode].accepted <= wire[sender[s].episode].lost
             /\ \A t \in Senders \ {s} : Claims(t) => sender[t].episode # sender[s].episode
  BY <1>0, <1>3 DEF Dispatched
<1>4. ASSUME NEW s \in Senders, Gates(s) PROVE Dispatched'
  BY <1>0, <1>1, <1>4 DEF Gates, Resting
<1>5. ASSUME NEW s \in Senders, ClaimDispatch(s) PROVE Dispatched'
  BY <1>0, <1>1, <1>2, <1>3, <1>5 DEF Dispatched, WireRows, SenderRecords, ClaimDispatch,
     Rest, Resting
<1>6. ASSUME NEW s \in Senders, CallProvider(s) PROVE Dispatched'
  <2>1. sender[s].result = "none" /\ Claims(s)
    BY <1>6 DEF Dispatched, Claims, CallProvider
  <2> QED BY <1>0, <1>2, <1>3, <1>6, <2>1, Called DEF Claims
<1>7. ASSUME NEW s \in Senders, TransportError(s) PROVE Dispatched'
  BY <1>0, <1>2, <1>3, <1>7 DEF TransportError, Claims, Dispatched, WireRows, Rest, Resting
<1>8. ASSUME NEW s \in Senders, RecordOutcome(s) PROVE Dispatched'
  BY <1>0, <1>2, <1>3, <1>8 DEF RecordOutcome, Claims, WireRows, Rest, Resting
<1>9. ASSUME NEW e \in Episodes, ApplyStatus(e) PROVE Dispatched'
  BY SMTT(30), <1>0, <1>9 DEF ApplyStatus, WireRows, Dispatched, Claims
<1>10. CASE OutreachCrash  BY <1>0, <1>1, <1>10 DEF OutreachCrash, Rest, Resting
<1>11. CASE UNCHANGED <<wire, sender>> BY <1>1, <1>11
<1> QED
  BY <1>4, <1>5, <1>6, <1>7, <1>8, <1>9, <1>10, <1>11
     DEF OutreachNext, MarkQuoted, CustomerWrites, CustomerStops, TimePasses, OwnerIntervenes,
         Sweep, OpenAttempt, EvaluateGuards, StartPlaybook, OwnerDecides, WaitTimesOut,
         outreachVars

-----------------------------------------------------------------------------
(* Touches that are remembered                                             *)

(* What a step does to the episodes dropped, to the run that will send     *)
(* again, and to the mishaps that excuse them.                             *)
Tallied(D, D1, g, g1, n, n1) ==
  \/ D1 \subseteq D /\ g1 <= g /\ n <= n1
  \/ D1 \subseteq D /\ n + 1 <= n1
  \/ \E d : D1 \subseteq D \cup {d} /\ g1 <= g /\ n + 1 <= n1
  \/ \E d : D1 \subseteq D \cup {d} /\ g1 = 0 /\ g = 1 /\ n <= n1

(* Such a step keeps what is forgotten within the mishaps. *)
LEMMA Tally ==
  ASSUME NEW D, NEW D1, IsFiniteSet(D), NEW g \in {0, 1}, NEW g1 \in {0, 1},
         NEW n \in Nat, NEW n1 \in Nat, Cardinality(D) + g <= n,
         Tallied(D, D1, g, g1, n, n1)
  PROVE  Cardinality(D1) + g1 <= n1
<1>0. Cardinality(D) \in Nat BY FS_CardinalityType
<1>1. ASSUME D1 \subseteq D PROVE Cardinality(D1) \in Nat /\ Cardinality(D1) <= Cardinality(D)
  BY <1>1, FS_Subset, FS_CardinalityType
<1>2. ASSUME NEW d, D1 \subseteq D \cup {d}
      PROVE  Cardinality(D1) \in Nat /\ Cardinality(D1) <= Cardinality(D) + 1
  <2>1. /\ IsFiniteSet(D \cup {d})
        /\ Cardinality(D \cup {d}) = IF d \in D THEN Cardinality(D) ELSE Cardinality(D) + 1
    BY FS_AddElement
  <2>2. D1 \in SUBSET (D \cup {d}) BY <1>2
  <2>3. IsFiniteSet(D1) /\ Cardinality(D1) <= Cardinality(D \cup {d}) BY <2>1, <2>2, FS_Subset
  <2>4. Cardinality(D1) \in Nat BY <2>3, FS_CardinalityType
  <2> QED BY <1>0, <2>1, <2>3, <2>4
<1>3. CASE D1 \subseteq D /\ g1 <= g /\ n <= n1 BY <1>0, <1>1, <1>3
<1>4. CASE D1 \subseteq D /\ n + 1 <= n1  BY <1>0, <1>1, <1>4
<1>5. ASSUME NEW d, D1 \subseteq D \cup {d}, g1 <= g, n + 1 <= n1
      PROVE  Cardinality(D1) + g1 <= n1  BY <1>0, <1>2, <1>5
<1>6. ASSUME NEW d, D1 \subseteq D \cup {d}, g1 = 0, g = 1, n <= n1
      PROVE  Cardinality(D1) + g1 <= n1  BY <1>0, <1>2, <1>6
<1> QED BY <1>3, <1>4, <1>5, <1>6 DEF Tallied

(* The state's tally is of finite sets and small numbers. *)
LEMMA Finite == IsFiniteSet(Dropped) /\ Again \in {0, 1} /\ Again' \in {0, 1}
<1>1. Dropped \in SUBSET Episodes BY DEF Dropped
<1>2. IsFiniteSet(Dropped) BY <1>1, Shapes, FS_Subset
<1> QED BY <1>2 DEF Again

(* An episode is dropped only by a step that changes what the provider     *)
(* has, what a sender claims or what an attempt counts of that episode.    *)
LEMMA DroppedBut ==
  ASSUME NEW E,
         \A e \in Episodes \ E : wire'[e].accepted = wire[e].accepted
                                   /\ wire'[e].lost = wire[e].lost,
         \A s \in Senders : Claims(s) /\ sender[s].episode \notin E =>
           sender'[s].at \in {"calling", "record"} /\ sender'[s].episode = sender[s].episode,
         \A a \in Counted : attempt[a].episode \notin E =>
           a \in Counted' /\ attempt'[a].episode = attempt[a].episode
  PROVE  Dropped' \subseteq Dropped \cup E
<1>1. ASSUME NEW e \in Dropped', e \notin E PROVE e \in Dropped  BY <1>1 DEF Dropped, Claims
<1> QED BY <1>1

(* A run that does not come to its send step sends no counted attempt      *)
(* again.                                                                  *)
LEMMA AgainFalls ==
  ASSUME playbook' = playbook \/ playbook'.status # "send",
         playbook.status = "send" /\ playbook.attempt \in Counted' => playbook.attempt \in Counted
  PROVE  Again' <= Again
<1>1. CASE playbook' = playbook BY <1>1 DEF Again
<1>2. CASE playbook'.status # "send" BY <1>2 DEF Again
<1> QED BY <1>1, <1>2

Tallying == Tallied(Dropped, Dropped', Again, Again', mishaps, mishaps')

(* The steps of a sender that has passed the gates. *)
LEMMA SenderTally ==
  ASSUME Types, Linked, Dispatched, NEW s \in Senders,
         ClaimDispatch(s) \/ CallProvider(s) \/ TransportError(s) \/ RecordOutcome(s)
  PROVE  Tallying
<1> DEFINE e == sender[s].episode
<1>0. /\ wire \in [Episodes -> WireRows] /\ sender \in [Senders -> SenderRecords]
      /\ attempt \in [Attempts -> AttemptRows] /\ playbook \in PlaybookRows
      /\ e \in Episodes /\ mishaps \in Nat
      /\ wire[e].accepted \in Nat /\ wire[e].lost \in Nat
  BY DEF Types, SenderRecords, WireRows
<1>1. \A f : playbook' = Waiting(f) => playbook' = playbook \/ playbook'.status # "send"
  BY <1>0 DEF Waiting, PlaybookRows
<1>2. ASSUME UNCHANGED attempt, Dropped' \subseteq Dropped, UNCHANGED mishaps,
             playbook' = playbook \/ playbook'.status # "send"
      PROVE  Tallying  BY <1>0, <1>2, AgainFalls DEF Counted, Tallying, Tallied
<1>3. CASE ClaimDispatch(s)
  BY SMTT(30), <1>0, <1>1, <1>2, <1>3, DroppedBut DEF ClaimDispatch, Rest, WireRows, Claims, Counted
<1>4. CASE CallProvider(s)
  <2>1. e \notin Dropped'  BY <1>0, <1>4, Called DEF Claims, Dropped
  <2>2. Dropped' \subseteq Dropped \cup {e}
    <3>1. \A f \in Episodes \ {e} : wire'[f].accepted = wire[f].accepted
                                     /\ wire'[f].lost = wire[f].lost
      BY <1>0, <1>4, Called
    <3>2. \A t \in Senders : Claims(t) /\ sender[t].episode \notin {e} =>
            sender'[t].at \in {"calling", "record"} /\ sender'[t].episode = sender[t].episode
      BY <1>0, <1>4, Called DEF Claims
    <3>3. \A a \in Counted : attempt[a].episode \notin {e} =>
            a \in Counted' /\ attempt'[a].episode = attempt[a].episode
      BY <1>4, Called DEF Counted
    <3> HIDE DEF e
    <3> QED BY <3>1, <3>2, <3>3, DroppedBut
  <2> QED BY <1>0, <1>2, <1>4, <2>1, <2>2, Called
<1>5. CASE TransportError(s)
  <2>1. /\ UNCHANGED attempt /\ mishaps' = mishaps + 1
        /\ playbook' = playbook \/ playbook'.status # "send"
        /\ \A t \in Senders \ {s} : sender'[t] = sender[t]
        /\ \A f \in Episodes \ {e} : wire'[f] = wire[f]
    BY <1>0, <1>5 DEF TransportError, Rest, NoRun
  <2>2. Counted' = Counted BY <2>1 DEF Counted
  <2>3. \A t \in Senders : Claims(t) /\ sender[t].episode # e =>
          sender'[t].at \in {"calling", "record"} /\ sender'[t].episode = sender[t].episode
    BY <2>1 DEF Claims
  <2>4. Dropped' \subseteq Dropped \cup {e} BY <2>1, <2>2, <2>3, DroppedBut
  <2>5. Again' <= Again BY <2>1, <2>2, AgainFalls
  <2> QED BY <1>0, <2>1, <2>4, <2>5 DEF Tallying, Tallied
<1>6. CASE RecordOutcome(s)
  <2> DEFINE a == sender[s].attempt
             result == sender[s].result
             status == OutcomeStatus(result)
             sent == attempt[a].sent \/ result \in {"ok", "unknown"}
  <2>1. a \in Attempts /\ attempt[a].episode = e /\ sender[s].at = "record"
    BY <1>6 DEF RecordOutcome, Linked
  <2>2. attempt' = [attempt EXCEPT ![a].status = status, ![a].sent = sent]
    BY <1>6 DEF RecordOutcome
  <2>3. result = "ok" => sent /\ status \in TouchStatuses
    BY DEF OutcomeStatus, TouchStatuses
  <2> HIDE DEF status, sent
  <2>4. /\ attempt'[a].sent = sent /\ attempt'[a].status = status /\ attempt'[a].episode = e
        /\ \A b \in Attempts \ {a} : attempt'[b] = attempt[b]
    BY <1>0, <2>1, <2>2 DEF AttemptRows
  <2>5. \A b \in Attempts \ {a} : b \in Counted' <=> b \in Counted
    BY <2>4 DEF Counted
  <2>6. \A b \in Counted : attempt[b].episode # e =>
          b \in Counted' /\ attempt'[b].episode = attempt[b].episode
    BY <2>1, <2>4, <2>5 DEF Counted
  <2>7. /\ UNCHANGED mishaps
        /\ \A t \in Senders \ {s} : sender'[t] = sender[t]
        /\ \A f \in Episodes : wire'[f].accepted = wire[f].accepted /\ wire'[f].lost = wire[f].lost
    BY <1>0, <1>6 DEF RecordOutcome, Rest, WireRows
  <2>8. \A t \in Senders : Claims(t) /\ sender[t].episode # e =>
          sender'[t].at \in {"calling", "record"} /\ sender'[t].episode = sender[t].episode
    BY <2>7 DEF Claims
  <2>9. Dropped' \subseteq Dropped \cup {e} BY <2>6, <2>7, <2>8, DroppedBut
  <2>10. e \notin Dropped'
    BY <1>0, <2>1, <2>3, <2>4, <2>7 DEF Counted, Dropped, Dispatched, Claims
  <2>11. Dropped' \subseteq Dropped BY <2>9, <2>10
  <2>12. Again' <= Again
    BY <1>0, <1>6, <2>1, <2>5, AgainFalls DEF RecordOutcome, Waiting, PlaybookRows, Again,
       Linked
  <2> QED BY <1>0, <2>7, <2>11, <2>12 DEF Tallying, Tallied
<1> QED BY <1>3, <1>4, <1>5, <1>6

(* What is dropped stays within the crashes and the transport errors       *)
(* (mark_sent inside the proxy's transaction, mark_blocked).               *)
LEMMA RememberedStep ==
  ASSUME Types, Linked, Dispatched, Remembered, [OutreachNext]_outreachVars
  PROVE  Remembered' /\ mishaps' \in Nat
<1>0. /\ attempt \in [Attempts -> AttemptRows] /\ playbook \in PlaybookRows
      /\ sender \in [Senders -> SenderRecords] /\ mishaps \in Nat
  BY DEF Types
<1>1. mishaps' \in Nat BY TypesStep DEF Types
<1>2. SUFFICES Tallying
  BY <1>0, <1>1, <1>2, Finite, Tally DEF Tallying, Remembered
<1>3. ASSUME UNCHANGED <<attempt, wire, sender>> PROVE Dropped' = Dropped /\ Counted' = Counted
  BY <1>3 DEF Dropped, Counted, Claims
<1>4. ASSUME UNCHANGED <<attempt, wire, sender, mishaps>>,
             playbook' = playbook \/ playbook'.status # "send"
      PROVE  Tallying
  BY <1>0, <1>3, <1>4, AgainFalls DEF Tallying, Tallied
<1>5. CASE CustomerWrites \/ WaitTimesOut \/ StartPlaybook
  BY <1>4, <1>5 DEF CustomerWrites, WaitTimesOut, StartPlaybook, NoRun
<1>6. CASE OwnerDecides
  BY <1>0, <1>3, <1>4, <1>6, Finite DEF OwnerDecides, NoRun, PlaybookRows, Linked, Counted,
     TouchStatuses, Again, Tallying, Tallied
<1>7. CASE OpenAttempt
  BY <1>0, <1>7, DroppedBut, AgainFalls DEF OpenAttempt, Unused, Counted, TouchStatuses,
     Claims, Tallying, Tallied
<1>8. ASSUME NEW s \in Senders, Gates(s) PROVE Tallying
  <2>1. UNCHANGED <<wire, mishaps>> /\ playbook.status = "send" /\ sender[s] = Resting
    BY <1>8 DEF Gates
  <2>2. \A t \in Senders : Claims(t) =>
          sender'[t].at \in {"calling", "record"} /\ sender'[t].episode = sender[t].episode
    BY <1>0, <1>8 DEF Gates, Claims, Resting
  <2>3. CASE UNCHANGED <<attempt, playbook>>
    BY <1>0, <2>1, <2>2, <2>3, DroppedBut, AgainFalls DEF Counted, Tallying, Tallied
  <2>4. CASE attempt' = Blocked(playbook.attempt) /\ playbook' = [playbook EXCEPT !.status = "wait"]
    <3> DEFINE a == playbook.attempt
               f == attempt[a].episode
    <3>1. a \in Attempts BY <2>1 DEF Linked
    <3>2. attempt'[a].status = "blocked" /\ \A b \in Attempts \ {a} : attempt'[b] = attempt[b]
      BY <1>0, <2>4, <3>1 DEF Blocked, AttemptRows
    <3>3. \A b \in Attempts \ {a} : b \in Counted => b \in Counted' BY <3>2 DEF Counted
    <3>4. Counted \subseteq Attempts BY DEF Counted
    <3>5. Again' = 0  BY <1>0, <2>4 DEF PlaybookRows, Again
    <3>6. CASE a \in Counted
      <4>1. \A b \in Counted : attempt[b].episode # f =>
              b \in Counted' /\ attempt'[b].episode = attempt[b].episode
        BY <3>2, <3>3, <3>4
      <4>2. Dropped' \subseteq Dropped \cup {f} BY <2>1, <2>2, <4>1, DroppedBut
      <4>3. Again = 1 BY <2>1, <3>6 DEF Again
      <4> QED BY <1>0, <2>1, <3>5, <4>2, <4>3 DEF Tallying, Tallied
    <3>7. CASE a \notin Counted
      BY <1>0, <2>1, <2>2, <3>2, <3>3, <3>4, <3>5, <3>7, DroppedBut, Finite DEF Tallying,
         Tallied
    <3> QED BY <3>6, <3>7
  <2> QED BY <1>8, <2>3, <2>4 DEF Gates
<1>9. ASSUME NEW e \in Episodes, ApplyStatus(e) PROVE Tallying
  <2>1. UNCHANGED <<playbook, sender, mishaps>>
        /\ \A f \in Episodes : wire'[f].accepted = wire[f].accepted /\ wire'[f].lost = wire[f].lost
    BY <1>0, <1>9 DEF ApplyStatus, Types, WireRows
  <2>2. Counted' = Counted /\ \A b \in Counted : attempt'[b].episode = attempt[b].episode
    BY <1>0, <1>9 DEF ApplyStatus, Delivered, Counted, TouchStatuses, AttemptRows
  <2>3. Dropped' \subseteq Dropped \cup {} BY <2>1, <2>2, DroppedBut DEF Claims
  <2>4. Again' <= Again BY <2>1, <2>2, AgainFalls
  <2> QED BY <1>0, <2>1, <2>3, <2>4 DEF Tallying, Tallied
<1>10. CASE OutreachCrash
  <2>1. UNCHANGED <<attempt, wire>> /\ mishaps' = mishaps + 1 BY <1>10 DEF OutreachCrash
  <2>2. Counted' = Counted BY <2>1 DEF Counted
  <2>3. ASSUME NEW s \in Senders, Rest(s), UNCHANGED playbook PROVE Tallying
    <3>1. \A t \in Senders : Claims(t) /\ sender[t].episode # sender[s].episode =>
            sender'[t].at \in {"calling", "record"} /\ sender'[t].episode = sender[t].episode
      BY <1>0, <2>3 DEF Rest, Claims
    <3>2. Dropped' \subseteq Dropped \cup {sender[s].episode} BY <2>1, <2>2, <3>1, DroppedBut
    <3>3. Again' <= Again BY <2>2, <2>3, AgainFalls
    <3> QED BY <1>0, <2>1, <3>2, <3>3 DEF Tallying, Tallied
  <2>4. CASE UNCHANGED sender  BY <1>0, <1>3, <2>1, <2>4 DEF Tallying, Tallied
  <2> QED BY <1>10, <2>3, <2>4 DEF OutreachCrash
<1> QED
  BY <1>4, <1>5, <1>6, <1>7, <1>8, <1>9, <1>10, SenderTally
     DEF OutreachNext, MarkQuoted, CustomerStops, TimePasses, OwnerIntervenes, Sweep,
         EvaluateGuards, outreachVars

-----------------------------------------------------------------------------
(* Opt-outs                                                                *)

(* Once the customer has opted out, a sender under way is one that had     *)
(* passed the gate before (send's suppression gate).                       *)
LEMMA StopStep ==
  ASSUME Types, StopStopsTouches, [OutreachNext]_outreachVars
  PROVE  StopStopsTouches'
<1>0. stopped \in [now : BOOLEAN, early : SUBSET Senders] /\ sender \in [Senders -> SenderRecords]
  BY DEF Types
(* nobody sets out, and whoever is struck from the list has come to rest *)
<1>1. ASSUME stopped'.now = stopped.now,
             \A s \in Senders : sender'[s].at # "idle" =>
               sender[s].at # "idle" /\ (s \in stopped.early => s \in stopped'.early)
      PROVE  StopStopsTouches'
  BY <1>1 DEF StopStopsTouches
<1>2. ASSUME NEW s \in Senders, Rest(s) PROVE StopStopsTouches'
  BY <1>0, <1>1, <1>2 DEF Rest, Released, Resting
<1>3. ASSUME NEW s \in Senders, sender[s].at # "idle", UNCHANGED stopped,
             \A t \in Senders \ {s} : sender'[t] = sender[t]
      PROVE  StopStopsTouches'
  BY <1>1, <1>3
<1>4. CASE UNCHANGED <<stopped, sender>> BY <1>1, <1>4
<1>5. CASE CustomerStops BY <1>5 DEF CustomerStops, StopStopsTouches
<1>6. ASSUME NEW s \in Senders, Gates(s) PROVE StopStopsTouches'
  BY <1>4, <1>6 DEF Gates, StopStopsTouches
<1>7. ASSUME NEW s \in Senders, ClaimDispatch(s) PROVE StopStopsTouches'
  BY <1>0, <1>2, <1>3, <1>7 DEF ClaimDispatch
<1>8. ASSUME NEW s \in Senders, CallProvider(s) PROVE StopStopsTouches'
  BY <1>0, <1>3, <1>8 DEF CallProvider, Recording
<1>9. ASSUME NEW s \in Senders, TransportError(s) \/ RecordOutcome(s) PROVE StopStopsTouches'
  BY <1>2, <1>9 DEF TransportError, RecordOutcome
<1>10. CASE OutreachCrash BY <1>2, <1>4, <1>10 DEF OutreachCrash
<1> QED
  BY <1>4, <1>5, <1>6, <1>7, <1>8, <1>9, <1>10
     DEF OutreachNext, MarkQuoted, CustomerWrites, TimePasses, OwnerIntervenes, Sweep,
         OpenAttempt, EvaluateGuards, StartPlaybook, OwnerDecides, WaitTimesOut,
         ApplyStatus, outreachVars

-----------------------------------------------------------------------------
(* What holds for any number of senders                                    *)

(* The path starts at rest. *)
LEMMA Start ==
  ASSUME OutreachInit
  PROVE  Inv
<1> USE OutreachAssumption
<1>1. Types  BY Shapes DEF OutreachInit, WireRows, AttemptRows, NoAttempt, Types
<1>2. Linked BY DEF OutreachInit, Linked, NoRun, Resting
<1>3. Dispatched BY DEF OutreachInit, Dispatched, Claims, Resting
<1>4. Remembered
  <2>1. Dropped = {} BY DEF OutreachInit, Dropped
  <2>2. Again = 0 BY DEF OutreachInit, Again, NoRun
  <2>3. Cardinality({}) = 0 BY FS_EmptySet
  <2> QED BY <2>1, <2>2, <2>3 DEF OutreachInit, Remembered
<1>5. StopStopsTouches BY DEF OutreachInit, StopStopsTouches
<1> QED BY <1>1, <1>2, <1>3, <1>4, <1>5 DEF Inv

(* Every step keeps the invariant. *)
LEMMA Invariance ==
  ASSUME Inv, [OutreachNext]_outreachVars
  PROVE  Inv'
BY TypesStep, LinkedStep, DispatchedStep, RememberedStep, StopStep DEF Inv

(* The invariant of the recovery path holds of every behaviour. *)
LEMMA Always == OutreachSpec => []Inv
<1>1. OutreachInit => Inv BY Start
<1>2. Inv /\ [OutreachNext]_outreachVars => Inv' BY Invariance
<1> QED BY <1>1, <1>2, PTL DEF OutreachSpec

(* Every row and every sender of the recovery path keeps its shape.        *)
THEOREM OutreachTypes == OutreachSpec => []OutreachTypeOK
<1>1. Inv => OutreachTypeOK
  BY DEF Inv, Types, OutreachTypeOK, AttemptRows, PlaybookRows, WireRows
<1> QED BY <1>1, Always, PTL

(* A silence episode is dispatched once, whatever is re-swept, redelivered *)
(* or executed again, and what the provider accepted is counted as a touch *)
(* but for one episode per crash or transport error (_claim_dispatch,      *)
(* mark_sent, mark_blocked), with any number of workers on the send step.  *)
THEOREM SendsAlwaysAccounted == OutreachSpec => []SendsAccounted
<1>1. ASSUME Inv PROVE SendsAccounted
  <2>1. OneDispatchPerEpisode BY <1>1 DEF Inv, Dispatched, OneDispatchPerEpisode
  <2> DEFINE F == {e \in Forgotten : wire[e].lost = 0}
  <2>2. F \subseteq Dropped BY DEF Forgotten, InFlight, Dropped, Claims
  <2>3. IsFiniteSet(Dropped) /\ Again \in {0, 1} BY Finite
  <2>4. F \in SUBSET Dropped BY <2>2
  <2>5. IsFiniteSet(F) /\ Cardinality(F) <= Cardinality(Dropped) BY <2>3, <2>4, FS_Subset
  <2>6. Cardinality(F) \in Nat /\ Cardinality(Dropped) \in Nat BY <2>3, <2>5, FS_CardinalityType
  <2>7. Cardinality(F) <= mishaps
    <3>1. Cardinality(Dropped) + Again <= mishaps /\ mishaps \in Nat
      BY <1>1 DEF Inv, Remembered, Types
    <3> HIDE DEF F
    <3> QED BY <2>3, <2>5, <2>6, <3>1
  <2> QED BY <2>1, <2>7 DEF SendsAccounted, TouchesRemembered
<1> QED BY <1>1, Always, PTL

(* A customer who has opted out is written to only by a send that had      *)
(* passed the suppression gate before, with any number of workers on it.   *)
THEOREM OptOutHolds == OutreachSpec => []StopStopsTouches
<1>1. Inv => StopStopsTouches BY DEF Inv
<1> QED BY <1>1, Always, PTL

-----------------------------------------------------------------------------
(* The touch cap                                                           *)

(* With one sender, whoever is under way executes the send step of the     *)
(* lead's run, and no step takes the run away from under it.               *)
LEMMA SendingStep ==
  ASSUME OneSender, Types, Linked, Sending, [OutreachNext]_outreachVars
  PROVE  Sending'
<1>0. /\ playbook \in PlaybookRows /\ sender \in [Senders -> SenderRecords]
      /\ \A s, t \in Senders : s = t
  BY DEF Types, OneSender
<1>1. ASSUME NEW s \in Senders, sender'[s].at = "idle" PROVE Sending'
  BY <1>0, <1>1 DEF Sending
<1>2. ASSUME UNCHANGED playbook,
             \A s \in Senders : \/ sender'[s] = sender[s] \/ sender'[s].at = "idle"
                                \/ /\ sender[s].at # "idle" /\ sender'[s].attempt = sender[s].attempt
                                   /\ sender'[s].episode = sender[s].episode
      PROVE  Sending'
  BY <1>2 DEF Sending
<1>3. ASSUME UNCHANGED sender, playbook.status # "send" PROVE Sending'
  BY <1>3 DEF Sending
<1>4. CASE UNCHANGED <<playbook, sender>> BY <1>2, <1>4
<1>5. CASE CustomerWrites \/ WaitTimesOut \/ StartPlaybook \/ OwnerDecides
  BY <1>3, <1>4, <1>5 DEF CustomerWrites, WaitTimesOut, StartPlaybook, OwnerDecides, NoRun
<1>6. ASSUME NEW s \in Senders, Gates(s) PROVE Sending'
  <2>1. CASE UNCHANGED sender  BY <1>1, <1>6, <2>1 DEF Gates, Resting
  <2>2. CASE /\ sender' = [sender EXCEPT ![s] = [Resting EXCEPT !.at = "gated",
                             !.attempt = playbook.attempt, !.episode = playbook.episode]]
             /\ UNCHANGED <<attempt, playbook>>
    BY <1>0, <1>6, <2>2 DEF Gates, Resting, Sending
  <2> QED BY <1>6, <2>1, <2>2 DEF Gates
<1>7. ASSUME NEW s \in Senders, Rest(s) PROVE Sending'  BY <1>0, <1>1, <1>7 DEF Rest, Resting
<1>8. ASSUME NEW s \in Senders, ClaimDispatch(s) PROVE Sending'
  BY <1>0, <1>2, <1>7, <1>8 DEF ClaimDispatch, SenderRecords
<1>9. ASSUME NEW s \in Senders, CallProvider(s) PROVE Sending'
  BY <1>0, <1>2, <1>9 DEF CallProvider, Recording, SenderRecords
<1>10. ASSUME NEW s \in Senders, TransportError(s) \/ RecordOutcome(s) PROVE Sending'
  BY <1>7, <1>10 DEF TransportError, RecordOutcome
<1>11. CASE OutreachCrash BY <1>3, <1>4, <1>7, <1>11 DEF OutreachCrash
<1> QED
  BY <1>4, <1>5, <1>6, <1>8, <1>9, <1>10, <1>11
     DEF OutreachNext, MarkQuoted, CustomerStops, TimePasses, OwnerIntervenes, Sweep,
         OpenAttempt, EvaluateGuards, ApplyStatus, outreachVars

(* What a step does to the touches counted, C, and to what is still to     *)
(* come, h and k, of a cap of m and one more.                              *)
Capped(C, C1, h, h1, k, k1, m) ==
  \/ C1 \subseteq C /\ h1 + k1 <= h + k
  \/ C1 \subseteq C /\ Cardinality(C) < m
  \/ \E a : C1 \subseteq C \cup {a} /\ h = 1 /\ h1 = 0 /\ k1 <= k

(* Such a step keeps to the cap. *)
LEMMA CapTally ==
  ASSUME NEW C, NEW C1, IsFiniteSet(C), NEW h \in {0, 1}, NEW h1 \in {0, 1},
         NEW k \in {0, 1}, NEW k1 \in {0, 1}, NEW m \in Nat,
         Cardinality(C) + h + k <= m + 1, Capped(C, C1, h, h1, k, k1, m)
  PROVE  IsFiniteSet(C1) /\ Cardinality(C1) + h1 + k1 <= m + 1
<1>0. Cardinality(C) \in Nat BY FS_CardinalityType
<1>1. ASSUME C1 \subseteq C
      PROVE  IsFiniteSet(C1) /\ Cardinality(C1) \in Nat /\ Cardinality(C1) <= Cardinality(C)
  BY <1>1, FS_Subset, FS_CardinalityType
<1>2. CASE C1 \subseteq C /\ h1 + k1 <= h + k BY <1>0, <1>1, <1>2
<1>3. CASE C1 \subseteq C /\ Cardinality(C) < m BY <1>0, <1>1, <1>3
<1>4. ASSUME NEW a, C1 \subseteq C \cup {a}, h = 1, h1 = 0, k1 <= k
      PROVE  IsFiniteSet(C1) /\ Cardinality(C1) + h1 + k1 <= m + 1
  <2>1. /\ IsFiniteSet(C \cup {a})
        /\ Cardinality(C \cup {a}) = IF a \in C THEN Cardinality(C) ELSE Cardinality(C) + 1
    BY FS_AddElement
  <2>2. C1 \in SUBSET (C \cup {a}) BY <1>4
  <2>3. IsFiniteSet(C1) /\ Cardinality(C1) <= Cardinality(C \cup {a}) BY <2>1, <2>2, FS_Subset
  <2>4. Cardinality(C1) \in Nat BY <2>3, FS_CardinalityType
  <2>5. Cardinality(C1) <= Cardinality(C) + 1 BY <1>0, <2>1, <2>3, <2>4
  <2> QED BY <1>0, <1>4, <2>3, <2>4, <2>5
<1> QED BY <1>2, <1>3, <1>4 DEF Capped

(* Capping of the state and its successor. *)
Capping == Capped(Counted, Counted', Chance, Chance', Cleared, Cleared', TouchCap)

(* The guards of a new run are read before its touch is, and one sender    *)
(* has one touch to come (_touch_cap, match_and_start).                    *)
LEMMA WithinStep ==
  ASSUME OneSender, Types, Linked, Sending, Within, [OutreachNext]_outreachVars
  PROVE  Within'
<1>0. /\ playbook \in PlaybookRows /\ sender \in [Senders -> SenderRecords]
      /\ wire \in [Episodes -> WireRows] /\ attempt \in [Attempts -> AttemptRows]
      /\ \A s, t \in Senders : s = t
  BY DEF Types, OneSender
<1> DEFINE Intakes == [at : {"idle", "opened", "cleared"}, attempt : Attempts \cup {Nobody},
                       episode : Episodes]
<1>i. intake \in Intakes BY DEF Types
<1>1. /\ Chance \in {0, 1} /\ Chance' \in {0, 1} /\ Cleared \in {0, 1} /\ Cleared' \in {0, 1}
  BY DEF Chance, Cleared
<1>s. \A h, h1, k, k1 \in {0, 1} : (h1 <= h /\ k1 <= k) \/ (k = 1 /\ k1 = 0) => h1 + k1 <= h + k
  OBVIOUS
<1>2. SUFFICES Capping  BY <1>1, <1>2, OutreachAssumption, CapTally DEF Capping, Within
<1>3. ASSUME Counted' \subseteq Counted, Chance = 0 => Chance' = 0, Cleared = 0 => Cleared' = 0
      PROVE  Capping
  <2>1. Chance' <= Chance /\ Cleared' <= Cleared BY <1>1, <1>3
  <2>2. Chance' + Cleared' <= Chance + Cleared BY <1>1, <1>s, <2>1
  <2> QED BY <1>3, <2>2 DEF Capping, Capped
<1>4. UNCHANGED attempt => Counted' = Counted BY DEF Counted
<1>5. UNCHANGED intake => Cleared' = Cleared BY DEF Cleared
(* a chance goes on only where there was one *)
<1>6. ASSUME playbook'.status # "none" =>
               playbook.status # "none" /\ playbook'.episode = playbook.episode,
             \A s \in Senders : sender'[s].at \in {"calling", "record"} => Claims(s),
             \A e \in Episodes : wire'[e].status = "none" => wire[e].status = "none"
      PROVE  Chance = 0 => Chance' = 0
  BY <1>0, <1>6 DEF Chance, Claims, PlaybookRows
<1>7. CASE /\ UNCHANGED <<attempt, wire, sender, intake>>
           /\ \/ UNCHANGED playbook \/ playbook' = NoRun
              \/ playbook.status # "none" /\ \E x : playbook' = [playbook EXCEPT !.status = x]
  BY <1>0, <1>3, <1>4, <1>5, <1>6, <1>7 DEF NoRun, PlaybookRows, Claims
<1>8. CASE OpenAttempt
  BY <1>0, <1>3, <1>6, <1>8 DEF OpenAttempt, Unused, Counted, TouchStatuses, Cleared, Claims
<1>9. CASE EvaluateGuards
  BY <1>1, <1>3, <1>4, <1>9 DEF EvaluateGuards, UnderCap, Capping, Capped, Acknowledge,
     Cleared, Chance, Claims
<1>10. CASE StartPlaybook
  BY <1>1, <1>4, <1>10, <1>s DEF StartPlaybook, Acknowledge, Cleared, Capping, Capped
<1>11. ASSUME NEW s \in Senders, Gates(s) PROVE Capping
  <2>1. UNCHANGED <<wire, intake>> /\ playbook.status = "send" BY <1>11 DEF Gates
  <2>2. \A t \in Senders : sender'[t].at \in {"calling", "record"} => Claims(t)
    BY ZenonT(60), <1>0, <1>11 DEF Gates, Claims, Resting
  <2>3. playbook'.episode = playbook.episode BY <1>0, <1>11 DEF Gates, PlaybookRows
  <2>4. Chance = 0 => Chance' = 0 BY <1>6, <2>1, <2>2, <2>3
  <2>5. Counted' \subseteq Counted
    BY <1>0, <1>11 DEF Gates, Blocked, Counted, TouchStatuses, AttemptRows
  <2> QED BY <1>3, <1>5, <2>1, <2>4, <2>5
<1>12. ASSUME NEW s \in Senders, ClaimDispatch(s) PROVE Capping
  <2>1. UNCHANGED <<attempt, intake>> /\ sender[s].at = "gated" BY <1>12 DEF ClaimDispatch
  <2>2. playbook.status = "send" /\ playbook.episode = sender[s].episode
    BY <2>1 DEF Sending
  <2>3. CASE wire[sender[s].episode].status = "none"
    <3>1. Chance = 1 BY <2>2, <2>3 DEF Chance
    <3> QED BY <1>3, <1>4, <1>5, <2>1, <3>1
  <2>4. CASE Rest(s) /\ playbook' = Waiting(sender[s].episode) /\ UNCHANGED wire
    BY <1>0, <1>3, <1>4, <1>5, <1>6, <2>1, <2>2, <2>4 DEF Rest, Resting, Claims, Waiting,
       PlaybookRows
  <2> QED BY <1>12, <2>3, <2>4 DEF ClaimDispatch
<1>13. ASSUME NEW s \in Senders, CallProvider(s) \/ TransportError(s) PROVE Capping
  BY <1>3, <1>4, <1>5, <1>13 DEF CallProvider, TransportError, Claims, Chance
<1>14. ASSUME NEW s \in Senders, RecordOutcome(s) PROVE Capping
  <2> DEFINE e == sender[s].episode
             a == sender[s].attempt
  <2>1. Claims(s) /\ UNCHANGED intake /\ e \in Episodes
        /\ playbook.status = "send" /\ playbook.episode = e
    BY <1>0, <1>14 DEF RecordOutcome, Claims, Sending, SenderRecords
  <2>2. Chance = 1 BY <2>1 DEF Chance
  <2>3. \A t \in Senders : sender'[t].at = "idle" BY <1>0, <1>14 DEF RecordOutcome, Rest, Resting
  <2>4. playbook'.episode = e
    BY <1>0, <1>14, <2>1 DEF RecordOutcome, Waiting, PlaybookRows
  <2>5. wire'[e].status # "none" BY <1>0, <1>14, <2>1 DEF RecordOutcome, WireRows
  <2>6. Chance' = 0 BY <2>3, <2>4, <2>5 DEF Chance, Claims
  <2>7. Counted' \subseteq Counted \cup {a}
    <3> DEFINE status == OutcomeStatus(sender[s].result)
               sent == attempt[a].sent \/ sender[s].result \in {"ok", "unknown"}
    <3>1. attempt' = [attempt EXCEPT ![a].status = status, ![a].sent = sent]
      BY <1>14 DEF RecordOutcome
    <3> HIDE DEF status, sent
    <3>2. \A b \in Attempts : b # a => attempt'[b] = attempt[b] BY <1>0, <3>1
    <3> QED BY <3>2 DEF Counted
  <2>8. Cleared' = Cleared BY <1>5, <2>1
  <2> QED BY <1>1, <2>2, <2>6, <2>7, <2>8 DEF Capping, Capped
<1>15. ASSUME NEW e \in Episodes, ApplyStatus(e) PROVE Capping
  <2>1. UNCHANGED <<intake, playbook, sender>> BY <1>15 DEF ApplyStatus
  <2>2. \A f \in Episodes : wire'[f].status = "none" => wire[f].status = "none"
    BY <1>0, <1>15 DEF ApplyStatus, WireRows
  <2>3. Chance = 0 => Chance' = 0 BY <1>6, <2>1, <2>2 DEF Claims
  <2>4. Counted' \subseteq Counted
    BY <1>0, <1>15 DEF ApplyStatus, Delivered, Counted, TouchStatuses, AttemptRows
  <2> QED BY <1>3, <1>5, <2>1, <2>3, <2>4
<1>16. CASE OutreachCrash
  BY <1>0, <1>3, <1>4, <1>6, <1>16, <1>i DEF OutreachCrash, Rest, Resting, Claims,
     PlaybookRows, Cleared
<1> QED
  BY <1>7, <1>8, <1>9, <1>10, <1>11, <1>12, <1>13, <1>14, <1>15, <1>16
     DEF OutreachNext, MarkQuoted, CustomerWrites, CustomerStops, TimePasses, OwnerIntervenes,
         Sweep, OwnerDecides, WaitTimesOut, outreachVars

(* An opt-out and the cap bound what a customer receives: the touches on   *)
(* record exceed the cap by one at most (_touch_cap), when one worker at a *)
(* time executes the send step of the lead's run.                          *)
THEOREM CustomerAlwaysLeftAlone ==
  ASSUME OneSender
  PROVE  OutreachSpec => []CustomerLeftAlone
<1> DEFINE Capful == Sending /\ Within
<1>1. ASSUME OutreachInit PROVE Capful
  <2>1. Sending BY <1>1 DEF OutreachInit, Sending, Resting
  <2>2. Counted = {} BY <1>1 DEF OutreachInit, Counted, NoAttempt
  <2>3. Chance = 0 /\ Cleared = 0
    BY <1>1 DEF OutreachInit, Chance, Cleared, Claims, Resting, NoRun
  <2>4. IsFiniteSet({}) /\ Cardinality({}) = 0 BY FS_EmptySet
  <2>5. Within BY <2>2, <2>3, <2>4, OutreachAssumption DEF Within
  <2> QED BY <2>1, <2>5
<1>2. Inv /\ Capful /\ [OutreachNext]_outreachVars => Capful'
  BY OneSender, SendingStep, WithinStep DEF Inv
<1>3. ASSUME Capful PROVE CapHolds
  BY <1>3, FS_CardinalityType, OutreachAssumption DEF Within, Chance, Cleared, CapHolds
<1>4. OutreachSpec => []Capful
  <2> HIDE DEF Capful
  <2> QED BY <1>1, <1>2, Always, PTL DEF OutreachSpec
<1>5. OutreachTypeOK /\ StopStopsTouches /\ CapHolds => CustomerLeftAlone
  BY DEF CustomerLeftAlone
<1> HIDE DEF Capful
<1> QED BY <1>3, <1>4, <1>5, OutreachTypes, OptOutHolds, PTL

=============================================================================
