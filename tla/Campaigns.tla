------------------------------ MODULE Campaigns -----------------------------
(* One broadcast (src/core/campaigns): the typed recipient count, the tier-3  *)
(* approval, the consumer that queues a row per member of the audience, and   *)
(* the batches that fan out: one right after the approval, one more every     *)
(* hour, in different workers.  A batch reads its rows without a lock and     *)
(* sends each in a transaction of its own.                                    *)
EXTENDS Naturals, FiniteSets

CONSTANTS
  Members,        \* contacts, numbered in the order of created_at
  Batches,        \* workers that may run process_campaign_batch
  Requests,       \* approvals of action type campaign.send
  HourlyRate,     \* HOURLY_RATE
  HaltMin,        \* OPTOUT_HALT_MIN; more than a tenth of the sent halts
  MaxHours,       \* bound: hours that pass
  MaxLapses       \* bound: crashes

ASSUME CampaignAssumption == IsFiniteSet(Batches)

VARIABLES
  campaign,       \* campaigns.status, the hour, and campaign.executed emitted;
                  \* history: it ended once (ended), and a request's write came
                  \* late, when the broadcast was no longer to be sent (late)
  audience,       \* the members with marketing consent and no suppression
  ticket,         \* the requests and their approvals: status, members counted,
                  \* deliveries to come
  sends,          \* campaign_sends: status and the hour of sent_at
  copies,         \* how many copies each member was sent
  batch,          \* what each batch holds in memory
  lapses          \* crashes so far

campaignVars == <<campaign, audience, ticket, sends, copies, batch, lapses>>

NoSend == [status |-> "none", hour |-> 0]
NoBatch == [at |-> "idle", rows |-> {}]

CampaignInit ==
  /\ campaign = [status |-> "draft", hour |-> 1, announced |-> FALSE,
                 ended |-> FALSE, late |-> FALSE]
  /\ audience \in SUBSET Members
  /\ ticket = [q \in Requests |-> [status |-> "none", counted |-> 0, events |-> 0]]
  /\ sends = [m \in Members |-> NoSend]
  /\ copies = [m \in Members |-> 0]
  /\ batch = [b \in Batches |-> NoBatch]
  /\ lapses = 0

Ends == {"rejected", "executed", "halted"}
Status(status) == campaign' = [campaign EXCEPT !.status = status,
                                               !.ended = @ \/ status \in Ends]
Having(status) == {m \in Members : sends[m].status = status}

(* contacts withdraw or are suppressed all the while; newcomers are left out  *)
(* (a bound): they would be queued by a set-up that follows                   *)
AudienceMoves ==
  /\ \E m \in audience : audience' = audience \ {m}
  /\ UNCHANGED <<campaign, ticket, sends, copies, batch, lapses>>

(* request_campaign_send, its SELECT of the status, which locks nothing, and *)
(* the count of the audience the owner typed                                 *)
ReadDraft(q) ==
  /\ campaign.status = "draft" /\ ticket[q].status = "none"
  /\ ticket' = [ticket EXCEPT ![q] = [status |-> "read", events |-> 0,
                                      counted |-> Cardinality(audience)]]
  /\ UNCHANGED <<campaign, audience, sends, copies, batch, lapses>>

(* its approval and the UPDATE, whatever became of the draft in between      *)
RequestSend(q) ==
  /\ ticket[q].status = "read"
  /\ ticket' = [ticket EXCEPT ![q].status = "pending"]
  /\ campaign' = [campaign EXCEPT !.status = "pending_approval",
       !.late = @ \/ campaign.status \notin {"draft", "pending_approval"}]
  /\ UNCHANGED <<audience, sends, copies, batch, lapses>>

ResolveTicket(q) ==
  /\ ticket[q].status = "pending"
  /\ \E verdict \in {"approved", "rejected"} :
       ticket' = [ticket EXCEPT ![q].status = verdict, ![q].events = 1]
  /\ UNCHANGED <<campaign, audience, sends, copies, batch, lapses>>

(* Mutant: the status is not looked at before the rejection is written. *)
RejectCampaignAlways ==
  /\ Status("rejected") /\ UNCHANGED sends

(* mark_campaign_rejected                                                    *)
RejectCampaign ==
  /\ IF campaign.status \in {"pending_approval", "draft"}
     THEN Status("rejected") ELSE UNCHANGED campaign
  /\ UNCHANGED sends

(* Mutant: an approved broadcast is set up whatever became of it. *)
SetUpAlways ==
  /\ sends' = [m \in Members |->
       IF m \in audience /\ sends[m] = NoSend
       THEN [status |-> "queued", hour |-> 0] ELSE sends[m]]
  /\ Status("executing")

(* setup_campaign_execution: the audience is resolved again                  *)
SetUp ==
  IF campaign.status \in {"pending_approval", "executing"}
  THEN /\ sends' = [m \in Members |->
            IF m \in audience /\ sends[m] = NoSend
            THEN [status |-> "queued", hour |-> 0] ELSE sends[m]]
       /\ Status("executing")
  ELSE UNCHANGED <<campaign, sends>>

(* on_campaign_approval_resolved: set up or reject, then fan out             *)
HandleTicket(b, q) ==
  /\ batch[b] = NoBatch /\ ticket[q].events > 0
  /\ ticket' = [ticket EXCEPT ![q].events = @ - 1]
  /\ \/ ticket[q].status = "approved" /\ SetUp
        /\ batch' = [batch EXCEPT ![b].at = "start"]
     \/ ticket[q].status = "rejected" /\ RejectCampaign /\ UNCHANGED batch
  /\ UNCHANGED <<audience, copies, lapses>>

(* run_campaign_fanout                                                       *)
HourPasses ==
  /\ campaign.hour < MaxHours
  /\ campaign' = [campaign EXCEPT !.hour = @ + 1]
  /\ UNCHANGED <<audience, ticket, sends, copies, batch, lapses>>
FanOut(b) ==
  /\ batch[b] = NoBatch /\ campaign.status = "executing"
  /\ batch' = [batch EXCEPT ![b].at = "start"]
  /\ UNCHANGED <<campaign, audience, ticket, sends, copies, lapses>>

-----------------------------------------------------------------------------
(* A batch                                                                   *)

(* _halt_reason: an opt-out spike; the plan or the provider's rating may say *)
(* so at any time                                                            *)
Spike == /\ Cardinality(Having("sent")) >= HaltMin
         /\ 10 * Cardinality(Having("sent") \ audience) > Cardinality(Having("sent"))

(* _hourly_budget                                                            *)
HourlyBudget ==
  LET recent == Cardinality({m \in Members : /\ sends[m].status # "none"
                                             /\ sends[m].hour = campaign.hour})
  IN IF recent >= HourlyRate THEN 0 ELSE HourlyRate - recent

Oldest(rows, n) == {m \in rows : Cardinality({x \in rows : x < m}) < n}

(* process_campaign_batch, first transaction: halt, or read the queued rows  *)
StartBatch(b) ==
  /\ batch[b].at = "start"
  /\ \/ /\ Status("halted") /\ batch' = [batch EXCEPT ![b] = NoBatch]
     \/ /\ ~Spike /\ campaign.status # "executing"
        /\ batch' = [batch EXCEPT ![b] = NoBatch] /\ UNCHANGED campaign
     \/ /\ ~Spike /\ campaign.status = "executing"
        /\ batch' = [batch EXCEPT ![b] = [at |-> "sending",
                                          rows |-> Oldest(Having("queued"), HourlyBudget)]]
        /\ UNCHANGED campaign
  /\ UNCHANGED <<audience, ticket, sends, copies, lapses>>

(* Mutant: the row stays queued after the message left. *)
MarkRowUnsaved(b, m, status) ==
  /\ UNCHANGED sends
  /\ batch' = [batch EXCEPT ![b].rows = @ \ {m}]

MarkRow(b, m, status) ==
  /\ sends' = [sends EXCEPT ![m].status = status,
                            ![m].hour = IF status = "sent" THEN campaign.hour ELSE @]
  /\ batch' = [batch EXCEPT ![b].rows = @ \ {m}]

(* _send_one: the gates inside send are the re-check; the row is updated     *)
(* whatever it holds by now                                                  *)
SendOne(b, m) ==
  /\ batch[b].at = "sending" /\ {m} = Oldest(batch[b].rows, 1)
  /\ \/ m \in audience /\ MarkRow(b, m, "sent") /\ copies' = [copies EXCEPT ![m] = @ + 1]
     \/ m \notin audience /\ MarkRow(b, m, "skipped") /\ UNCHANGED copies
     \/ MarkRow(b, m, "failed") /\ UNCHANGED copies
  /\ UNCHANGED <<campaign, audience, ticket, lapses>>

(* the last transaction: count, and when nothing is queued record_execution, *)
(* whatever the status became in between                                     *)
CountBatch(b) ==
  /\ batch[b].at = "sending" /\ batch[b].rows = {}
  /\ batch' = [batch EXCEPT ![b] = IF Having("queued") = {}
                                  THEN [NoBatch EXCEPT !.at = "counted"] ELSE NoBatch]
  /\ UNCHANGED <<campaign, audience, ticket, sends, copies, lapses>>
RecordExecution(b) ==
  /\ batch[b].at = "counted"
  /\ campaign' = [campaign EXCEPT !.status = "executed", !.announced = TRUE, !.ended = TRUE]
  /\ batch' = [batch EXCEPT ![b] = NoBatch]
  /\ UNCHANGED <<audience, ticket, sends, copies, lapses>>

(* on_campaign_executed: the event records the execution once more           *)
CampaignExecuted ==
  /\ campaign.announced
  /\ campaign' = [campaign EXCEPT !.status = "executed", !.announced = FALSE, !.ended = TRUE]
  /\ UNCHANGED <<audience, ticket, sends, copies, batch, lapses>>

(* a worker dies: the copy it was sending may have left; a delivery it was   *)
(* handling comes back                                                       *)
CampaignCrash(b) ==
  /\ batch[b] # NoBatch /\ lapses < MaxLapses
  /\ lapses' = lapses + 1
  /\ batch' = [batch EXCEPT ![b] = NoBatch]
  /\ copies' \in {copies} \cup {[copies EXCEPT ![m] = @ + 1] :
                                 m \in Oldest(batch[b].rows, 1) \cap audience}
  /\ \E q \in Requests : /\ ticket[q].status = "approved"
                         /\ ticket' = [ticket EXCEPT ![q].events = 1]
  /\ UNCHANGED <<campaign, audience, sends>>

CampaignNext ==
  \/ AudienceMoves \/ HourPasses \/ CampaignExecuted
  \/ \E q \in Requests : ReadDraft(q) \/ RequestSend(q) \/ ResolveTicket(q)
  \/ \E b \in Batches :
       \/ \E q \in Requests : HandleTicket(b, q)
       \/ FanOut(b) \/ StartBatch(b) \/ CountBatch(b) \/ RecordExecution(b)
       \/ CampaignCrash(b)
       \/ \E m \in Members : SendOne(b, m)

CampaignSpec == CampaignInit /\ [][CampaignNext]_campaignVars

-----------------------------------------------------------------------------
(* Properties                                                                *)

(* Every row and every batch of the broadcast has its shape.                 *)
CampaignTypeOK ==
  /\ campaign.status \in {"draft", "pending_approval", "rejected", "executing",
                          "executed", "halted"}
  /\ audience \subseteq Members
  /\ \A m \in Members : sends[m].status \in {"none", "queued", "sent", "skipped", "failed"}
  /\ \A b \in Batches : batch[b].rows \subseteq Members

(* A member gets one copy; each further one is accounted for by a second     *)
(* batch at work or by a crash (process_campaign_batch reads the queued rows *)
(* without a lock, _send_one names no idempotency key).                      *)
CopiesBounded ==
  \A m \in Members : copies[m] <= Cardinality(Batches) + lapses

(* A rejected broadcast sent nothing, also when a racing second request of   *)
(* it is approved: unless the write of a request landed on the broadcast     *)
(* after it was decided, which makes it look undecided again                 *)
(* (request_campaign_send's UPDATE, mark_campaign_rejected,                  *)
(* setup_campaign_execution).                                                *)
RejectedSendsNothing ==
  (campaign.status = "rejected" /\ ~ campaign.late) => \A m \in Members : copies[m] = 0

(* A broadcast that ended or was halted, however long ago, is never set      *)
(* going again by a decision delivered late or twice: only by the decision   *)
(* of a request whose write came late (_halt_reason: resuming is manual;     *)
(* setup_campaign_execution's status check).                                 *)
EndedNeverRestarts ==
  (campaign.ended /\ campaign'.status = "executing") => campaign.late

=============================================================================
