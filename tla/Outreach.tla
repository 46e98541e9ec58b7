------------------------------ MODULE Outreach ------------------------------
(* Silent-lead recovery from the daily sweep to the customer's phone: the     *)
(* classifier (src/core/customers/recovery.py), the consumer that opens an    *)
(* attempt and starts the playbook, the owner's approval, the gated send with *)
(* its dispatch claim (src/core/channels/whatsapp/send.py), the attempt's     *)
(* lifecycle, and the provider's receipts.  One lead of one contact; a        *)
(* silence episode is named by the number of times the customer has written.  *)
EXTENDS Naturals, FiniteSets

CONSTANTS
  Senders,       \* workers that may execute the send step of the playbook
  Attempts,      \* recovery_attempts rows
  TouchCap,      \* touch_cap(n, 30d) of the playbook
  MaxRetries,    \* MAX_RETRIES of send.py
  MaxEpisode,    \* bound: how often the customer is heard from
  MaxSweeps,     \* bound: lead.went_silent events of the sweep
  MaxOutreachFaults  \* bound: crashes and transport errors together

VARIABLES
  lead,          \* the leads row, and whether the customer waits for the shop
  stopped,       \* whether a marketing suppression stands, who had passed the gate
  silences,      \* lead.went_silent deliveries not acknowledged, and events so far
  intake,        \* what the recovery consumer has in hand
  attempt,       \* recovery_attempts
  playbook,      \* the live workflow run of the lead
  wire,          \* per episode key: the messages row, what the provider accepted
  sender,        \* what each sender holds in memory
  mishaps        \* crashes and transport errors so far

outreachVars == <<lead, stopped, silences, intake, attempt, playbook, wire,
                  sender, mishaps>>

Episodes == 0..MaxEpisode
Nobody == "nobody"

(* The identifier of an attempt is not the empty value. *)
ASSUME OutreachAssumption ==
  /\ Nobody \notin Attempts
  /\ TouchCap \in Nat /\ MaxRetries \in Nat /\ MaxEpisode \in Nat /\ MaxSweeps \in Nat
  /\ MaxOutreachFaults \in Nat

TouchStatuses == {"sent", "delivered", "replied", "delivery_unknown"}
NoAttempt == [status |-> "none", episode |-> 0, sent |-> FALSE]
NoRun == [status |-> "none", attempt |-> Nobody, episode |-> 0]
Resting == [at |-> "idle", attempt |-> Nobody, episode |-> 0, tries |-> 0, result |-> "none"]

OutreachInit ==
  /\ lead = [stage |-> "qualified", direction |-> "none", episode |-> 0,
             quiet |-> FALSE, held |-> FALSE, unanswered |-> FALSE]
  /\ stopped = [now |-> FALSE, early |-> {}]
  /\ silences = [pending |-> 0, sweeps |-> 0]
  /\ intake = [at |-> "idle", attempt |-> Nobody, episode |-> 0]
  /\ attempt = [a \in Attempts |-> NoAttempt]
  /\ playbook = NoRun
  /\ wire = [e \in Episodes |-> [status |-> "none", accepted |-> 0, lost |-> 0]]
  /\ sender = [s \in Senders |-> Resting]
  /\ mishaps = 0

-----------------------------------------------------------------------------
(* The conversation                                                          *)

(* an outbound quote reached the customer: mark_quoted stamps the lead; the  *)
(* silence clock runs from the customer's last message when there is one     *)
MarkQuoted ==
  /\ lead' = [lead EXCEPT !.stage = "quoted", !.direction = "outbound",
                          !.quiet = @ /\ lead.episode # 0, !.unanswered = FALSE]
  /\ UNCHANGED <<stopped, silences, intake, attempt, playbook, wire, sender, mishaps>>

(* leads_touch_last_customer_msg: the insert trigger moves the customer's    *)
(* clock and nothing else, the lead's direction stays what it was            *)
Touched == [lead EXCEPT !.episode = @ + 1, !.quiet = FALSE, !.unanswered = TRUE]

(* An inbound message; a playbook that waits for a reply ends.  The payload  *)
(* of msg.received names no message, so on_customer_replied returns before   *)
(* mark_replied.                                                             *)
CustomerWrites ==
  /\ lead.episode < MaxEpisode
  /\ lead' = Touched
  /\ playbook' = IF playbook.status = "wait" THEN NoRun ELSE playbook
  /\ UNCHANGED <<stopped, silences, intake, attempt, wire, sender, mishaps>>

(* _auto_suppress, and the suppressions the owner records                    *)
CustomerStops ==
  /\ ~stopped.now
  /\ stopped' = [now |-> TRUE, early |-> {s \in Senders : sender[s].at # "idle"}]
  /\ UNCHANGED <<lead, silences, intake, attempt, playbook, wire, sender, mishaps>>

(* the threshold of silence_threshold_hours passes, or a snooze runs out     *)
TimePasses ==
  /\ \/ ~lead.quiet /\ lead' = [lead EXCEPT !.quiet = TRUE]
     \/ lead.held /\ lead' = [lead EXCEPT !.held = FALSE]
  /\ UNCHANGED <<stopped, silences, intake, attempt, playbook, wire, sender, mishaps>>

(* set_recovery: exclude and snooze hold the lead back, resume lets it go,   *)
(* contacted stamps the customer's clock                                     *)
OwnerIntervenes ==
  /\ \/ lead' = [lead EXCEPT !.held = ~@]
     \/ /\ lead.episode < MaxEpisode
        /\ lead' = [lead EXCEPT !.held = FALSE, !.direction = "inbound",
                                !.episode = @ + 1, !.quiet = FALSE, !.unanswered = FALSE]
  /\ UNCHANGED <<stopped, silences, intake, attempt, playbook, wire, sender, mishaps>>

-----------------------------------------------------------------------------
(* Detecting a ghost and starting the playbook                               *)

Classify(l) ==
  IF l.held THEN "excluded"
  ELSE IF l.stage # "quoted" \/ ~l.quiet \/ l.direction = "none" THEN "active"
  ELSE IF l.direction = "inbound" THEN "shop_stopped_replying"
  ELSE "ghost"

(* sweep_org: every sweep emits an event for every ghost                     *)
Sweep ==
  /\ silences.sweeps < MaxSweeps
  /\ Classify(lead) = "ghost"
  /\ silences' = [pending |-> silences.pending + 1, sweeps |-> silences.sweeps + 1]
  /\ UNCHANGED <<lead, stopped, intake, attempt, playbook, wire, sender, mishaps>>

Unused == {a \in Attempts : attempt[a].status = "none"}

(* build: the anchor of the episode is read when the event is handled        *)
Anchor == lead.episode

(* on_lead_went_silent: the attempt is committed before the guards are read  *)
OpenAttempt ==
  /\ intake.at = "idle" /\ silences.pending > 0 /\ Unused # {}
  /\ LET a == CHOOSE x \in Unused : TRUE IN
     /\ attempt' = [attempt EXCEPT ![a] = [status |-> "proposed", sent |-> FALSE,
                                           episode |-> Anchor]]
     /\ intake' = [at |-> "opened", attempt |-> a, episode |-> Anchor]
  /\ UNCHANGED <<lead, stopped, silences, playbook, wire, sender, mishaps>>

(* the touches of the rolling window                                         *)
Counted == {a \in Attempts : attempt[a].sent /\ attempt[a].status \in TouchStatuses}

(* Mutant: only a message still marked sent is counted. *)
UnderCapSentOnly == Cardinality({a \in Attempts : attempt[a].status = "sent"}) < TouchCap

(* _touch_cap                                                                *)
UnderCap == Cardinality(Counted) < TouchCap

Acknowledge == /\ intake' = [at |-> "idle", attempt |-> Nobody, episode |-> 0]
               /\ silences' = [silences EXCEPT !.pending = @ - 1]

(* match_and_start: the guards in one session, which is released before ...  *)
EvaluateGuards ==
  /\ intake.at = "opened"
  /\ \/ ~stopped.now /\ UnderCap
        /\ intake' = [intake EXCEPT !.at = "cleared"] /\ UNCHANGED silences
     \/ Acknowledge   \* a guard blocks: suppression, cap, consent, send window
  /\ UNCHANGED <<lead, stopped, attempt, playbook, wire, sender, mishaps>>

(* ... start_run, whose policy drops a run while one of the lead is live     *)
StartPlaybook ==
  /\ intake.at = "cleared"
  /\ playbook' = IF playbook = NoRun
                 THEN [status |-> "parked", attempt |-> intake.attempt,
                       episode |-> intake.episode]
                 ELSE playbook
  /\ Acknowledge
  /\ UNCHANGED <<lead, stopped, attempt, wire, sender, mishaps>>

(* the approval gate: the send, or the owner handles it                      *)
OwnerDecides ==
  /\ playbook.status = "parked"
  /\ playbook' \in {[playbook EXCEPT !.status = "send"], NoRun}
  /\ UNCHANGED <<lead, stopped, silences, intake, attempt, wire, sender, mishaps>>

(* the wait for a reply times out                                            *)
WaitTimesOut ==
  /\ playbook.status = "wait" /\ playbook' = NoRun
  /\ UNCHANGED <<lead, stopped, silences, intake, attempt, wire, sender, mishaps>>

-----------------------------------------------------------------------------
(* The gated send                                                            *)

Released(s) == [stopped EXCEPT !.early = @ \ {s}]
Rest(s) == sender' = [sender EXCEPT ![s] = Resting] /\ stopped' = Released(s)
Waiting(e) == IF playbook.status = "send" /\ playbook.episode = e
              THEN [playbook EXCEPT !.status = "wait"] ELSE playbook

(* Mutant: the suppression gate is left to the guards of the run. *)
GatesUnsuppressed(s) ==
  LET a == playbook.attempt IN
  /\ playbook.status = "send" /\ sender[s] = Resting
  /\ sender' = [sender EXCEPT ![s] = [Resting EXCEPT !.at = "gated", !.attempt = a,
                                                     !.episode = playbook.episode]]
  /\ UNCHANGED <<lead, stopped, silences, intake, attempt, playbook, wire, mishaps>>

(* mark_blocked, whatever the attempt was before                             *)
Blocked(a) == [attempt EXCEPT ![a].status = "blocked"]

(* send's gates, inside the proxy's transaction: a refusal is recorded on    *)
(* the attempt and the step goes on                                          *)
Gates(s) ==
  LET a == playbook.attempt IN
  /\ playbook.status = "send" /\ sender[s] = Resting
  /\ \/ /\ ~stopped.now
        /\ sender' = [sender EXCEPT ![s] = [Resting EXCEPT !.at = "gated", !.attempt = a,
                                                           !.episode = playbook.episode]]
        /\ UNCHANGED <<attempt, playbook>>
     \/ /\ attempt' = Blocked(a)
        /\ playbook' = [playbook EXCEPT !.status = "wait"]
        /\ UNCHANGED sender
  /\ UNCHANGED <<lead, stopped, silences, intake, wire, mishaps>>

(* Mutant: the key is looked up, and written with the outcome. *)
ClaimDispatchUnkept(s) ==
  LET e == sender[s].episode IN
  /\ sender[s].at = "gated"
  /\ \/ /\ wire[e].status = "none"
        /\ sender' = [sender EXCEPT ![s].at = "calling"]
        /\ UNCHANGED <<stopped, playbook, wire>>
     \/ wire[e].status # "none" /\ Rest(s) /\ playbook' = Waiting(e) /\ UNCHANGED wire
  /\ UNCHANGED <<lead, silences, intake, attempt, mishaps>>

(* _claim_dispatch, committed on its own: the loser of the unique index      *)
(* takes over the winner's outcome and touches nothing                       *)
ClaimDispatch(s) ==
  LET e == sender[s].episode IN
  /\ sender[s].at = "gated"
  /\ \/ /\ wire[e].status = "none"
        /\ wire' = [wire EXCEPT ![e].status = "dispatching"]
        /\ sender' = [sender EXCEPT ![s].at = "calling"]
        /\ UNCHANGED <<stopped, playbook>>
     \/ wire[e].status # "none" /\ Rest(s) /\ playbook' = Waiting(e) /\ UNCHANGED wire
  /\ UNCHANGED <<lead, silences, intake, attempt, mishaps>>

Recording(s, result) ==
  sender' = [sender EXCEPT ![s].at = "record", ![s].result = result]

(* _send_with_retries, one call: 200; 4xx; 429 or 5xx, after which the       *)
(* message may or may not have been accepted, tried again up to MaxRetries   *)
CallProvider(s) ==
  LET e == sender[s].episode IN
  /\ sender[s].at = "calling"
  /\ \/ wire' = [wire EXCEPT ![e].accepted = @ + 1] /\ Recording(s, "ok")
     \/ Recording(s, "rejected") /\ UNCHANGED wire
     \/ /\ \/ UNCHANGED wire
           \/ wire' = [wire EXCEPT ![e].accepted = @ + 1, ![e].lost = @ + 1]
        /\ IF sender[s].tries < MaxRetries
           THEN sender' = [sender EXCEPT ![s].tries = @ + 1]
           ELSE Recording(s, "unknown")
  /\ UNCHANGED <<lead, stopped, silences, intake, attempt, playbook, mishaps>>

(* a transport error leaves send by an exception: the step fails             *)
TransportError(s) ==
  LET e == sender[s].episode IN
  /\ sender[s].at = "calling" /\ mishaps < MaxOutreachFaults
  /\ mishaps' = mishaps + 1
  /\ \/ UNCHANGED wire
     \/ wire' = [wire EXCEPT ![e].accepted = @ + 1]
  /\ Rest(s)
  /\ playbook' = IF playbook.status = "send" /\ playbook.episode = e
                 THEN NoRun ELSE playbook
  /\ UNCHANGED <<lead, silences, intake, attempt>>

(* Mutant: the provider's answer is stored as it came. *)
OutcomeStatusRaw(result) == result

(* mark_sent and mark_failed                                                 *)
OutcomeStatus(result) ==
  CASE result = "ok"      -> "sent"
    [] result = "unknown" -> "delivery_unknown"
    [] OTHER              -> "failed"

(* the outcome on the message and the attempt, and the commit of the proxy's *)
(* transaction                                                               *)
RecordOutcome(s) ==
  LET e == sender[s].episode
      a == sender[s].attempt
      result == sender[s].result
  IN
  /\ sender[s].at = "record"
  /\ wire' = [wire EXCEPT ![e].status = IF result = "ok" THEN "sent" ELSE "failed"]
  /\ attempt' = [attempt EXCEPT ![a].status = OutcomeStatus(result),
                                 ![a].sent = @ \/ result \in {"ok", "unknown"}]
  /\ lead' = IF result = "ok" THEN [lead EXCEPT !.unanswered = FALSE] ELSE lead
  /\ playbook' = Waiting(e)
  /\ Rest(s)
  /\ UNCHANGED <<silences, intake, mishaps>>

(* mark_delivered                                                            *)
Delivered(e) ==
  [a \in Attempts |->
    IF /\ attempt[a].episode = e /\ attempt[a].sent
       /\ attempt[a].status \in {"sent", "delivery_unknown"}
    THEN [attempt[a] EXCEPT !.status = "delivered"] ELSE attempt[a]]

(* Mutant: a failed receipt fails the attempt, too. *)
ApplyStatusFailing(e) ==
  /\ wire[e].accepted > 0 /\ wire[e].status \in {"sent", "delivered", "bounced"}
  /\ \/ /\ wire[e].status # "delivered"
        /\ wire' = [wire EXCEPT ![e].status = "delivered"]
        /\ attempt' = Delivered(e)
     \/ /\ wire[e].status # "bounced"
        /\ wire' = [wire EXCEPT ![e].status = "bounced"]
        /\ attempt' = [a \in Attempts |->
             IF attempt[a].episode = e /\ attempt[a].status = "sent"
             THEN [attempt[a] EXCEPT !.status = "failed"] ELSE attempt[a]]
  /\ UNCHANGED <<lead, stopped, silences, intake, playbook, sender, mishaps>>

(* a status webhook: it moves a message the platform knows the provider's id *)
(* of, and mark_delivered the attempt behind it; before the send commits it  *)
(* matches no row and is marked processed all the same                       *)
ApplyStatus(e) ==
  /\ wire[e].accepted > 0 /\ wire[e].status \in {"sent", "delivered", "bounced"}
  /\ \/ /\ wire[e].status # "delivered"
        /\ wire' = [wire EXCEPT ![e].status = "delivered"]
        /\ attempt' = Delivered(e)
     \/ /\ wire[e].status # "bounced"
        /\ wire' = [wire EXCEPT ![e].status = "bounced"]
        /\ UNCHANGED attempt
  /\ UNCHANGED <<lead, stopped, silences, intake, playbook, sender, mishaps>>

(* a worker dies: the transaction is rolled back, the claim stays, the step  *)
(* is executed again; the consumer's delivery comes back                     *)
OutreachCrash ==
  /\ mishaps < MaxOutreachFaults /\ mishaps' = mishaps + 1
  /\ \/ /\ \E s \in Senders : sender[s] # Resting /\ Rest(s)
        /\ UNCHANGED <<intake, playbook>>
     \/ /\ intake.at # "idle" /\ intake' = [intake EXCEPT !.at = "idle"]
        /\ UNCHANGED <<sender, stopped, playbook>>
     \/ /\ playbook.status = "wait"    \* after the commit, before the step's record
        /\ playbook' = [playbook EXCEPT !.status = "send"]
        /\ UNCHANGED <<sender, stopped, intake>>
  /\ UNCHANGED <<lead, silences, attempt, wire>>

OutreachNext ==
  \/ MarkQuoted \/ CustomerWrites \/ CustomerStops \/ TimePasses \/ OwnerIntervenes
  \/ Sweep \/ OpenAttempt \/ EvaluateGuards \/ StartPlaybook \/ OwnerDecides
  \/ WaitTimesOut \/ OutreachCrash
  \/ \E s \in Senders : \/ Gates(s) \/ ClaimDispatch(s) \/ CallProvider(s)
                        \/ TransportError(s) \/ RecordOutcome(s)
  \/ \E e \in Episodes : ApplyStatus(e)

OutreachSpec == OutreachInit /\ [][OutreachNext]_outreachVars

-----------------------------------------------------------------------------
(* Properties                                                                *)

(* Every row and every sender of the recovery path has its shape.            *)
OutreachTypeOK ==
  /\ lead.episode \in Episodes
  /\ lead.stage \in {"qualified", "quoted"} /\ lead.held \in BOOLEAN
  /\ intake.at \in {"idle", "opened", "cleared"}
  /\ \A a \in Attempts : attempt[a].status \in
       TouchStatuses \cup {"none", "proposed", "blocked", "failed"}
  /\ playbook.status \in {"none", "parked", "send", "wait"}
  /\ \A e \in Episodes : wire[e].status \in
       {"none", "dispatching", "sent", "failed", "delivered", "bounced"}

(* A silence episode is dispatched once, whatever is re-swept, redelivered,  *)
(* re-executed after a crash or executed twice at the same time; the only    *)
(* extra copies are retries of a call whose answer was lost                  *)
(* (_claim_dispatch, episode_idempotency_key).                               *)
OneDispatchPerEpisode == \A e \in Episodes : wire[e].accepted <= 1 + wire[e].lost

(* ... and the key makes it one copy, retries included                       *)
AtMostOnce == \A e \in Episodes : wire[e].accepted <= 1

(* A customer who has opted out is written to only by a send that had passed *)
(* the suppression gate before the opt-out was recorded (send's gate 3).     *)
StopStopsTouches ==
  stopped.now => {s \in Senders : sender[s].at # "idle"} \subseteq stopped.early

InFlight(e) == \E s \in Senders : sender[s].episode = e /\ sender[s].at # "idle"
Forgotten == {e \in Episodes : /\ wire[e].accepted > 0 /\ ~InFlight(e)
                               /\ \A a \in Counted : attempt[a].episode # e}

(* A message the provider accepted is counted as a touch; each one that is   *)
(* not is accounted for by a crash, by a transport error, or by an answer    *)
(* lost before a retry was refused (mark_sent in the proxy's transaction,    *)
(* delivery_unknown).                                                        *)
TouchesRemembered ==
  Cardinality({e \in Forgotten : wire[e].lost = 0}) <= mishaps

(* The touches on record exceed the cap by one at most: the one of a run     *)
(* whose guards were read before the touch of the run before it was recorded *)
(* (_touch_cap, match_and_start).                                            *)
CapHolds == Cardinality(Counted) <= TouchCap + 1

(* What leaves for the provider is dispatched once and is remembered.        *)
SendsAccounted == OneDispatchPerEpisode /\ TouchesRemembered

(* An opt-out and the cap bound what a customer receives.                    *)
CustomerLeftAlone == OutreachTypeOK /\ StopStopsTouches /\ CapHolds

(* A customer who wrote last and waits for the shop is never chased          *)
(* (classify's shop_stopped_replying).                                       *)
NeverChaseWaiting == lead.unanswered => Classify(lead) # "ghost"

=============================================================================
