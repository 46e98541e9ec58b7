------------------------------- MODULE Ingress ------------------------------
(* WhatsApp ingress (src/core/channels/whatsapp): the webhook that is stored  *)
(* and answered 200, and the normalizer workers that turn it into contacts,   *)
(* conversations, messages and outbox rows in one transaction per webhook.    *)
(* An INSERT .. ON CONFLICT waits for another transaction's uncommitted row,  *)
(* so a worker holds the contacts it touched until it commits or aborts.      *)
EXTENDS Naturals, Sequences, FiniteSets

CONSTANTS
  Posts,        \* webhook bodies Meta sends, each perhaps more than once
  Wamids,       \* message ids
  Senders,      \* customers' phone numbers
  Content,      \* post -> its messages, in order: [wamid, from, kind]
  MaxStops,     \* the most customers one webhook opts out
  Workers,      \* worker processes running run_normalizer
  MaxIngressFaults  \* bound: transactions that raise and workers that die

Stoppers(p) == {Content[p][i].from : i \in {j \in DOMAIN Content[p] : Content[p][j].kind = "stop"}}

(* a message id stands for one message, which one customer wrote             *)
ASSUME IngressAssumption ==
  /\ Content \in [Posts -> Seq([wamid : Wamids, from : Senders, kind : STRING])]
  /\ \A p, q \in Posts : \A i \in DOMAIN Content[p], j \in DOMAIN Content[q] :
       Content[p][i].wamid = Content[q][j].wamid => Content[p][i].from = Content[q][j].from
  /\ MaxStops \in Nat
  /\ \A p \in Posts : IsFiniteSet(Stoppers(p)) /\ Cardinality(Stoppers(p)) <= MaxStops

VARIABLES
  webhooks,     \* webhook_events: unseen, stored, normalized or unrouted
  connected,    \* resolve_channel finds the number
  inbound,      \* what is committed about messages, conversations, opt-outs
  worker,       \* what each worker holds: its candidates and its transaction
  mishaps       \* faults so far

ingressVars == <<webhooks, connected, inbound, worker, mishaps>>

Nobody == [s \in Senders |-> 0]
NoTx == [post |-> {}, step |-> 1, held |-> {}, new |-> {}, opened |-> {},
         stopped |-> {}, sick |-> {}]
Idle0 == [at |-> "idle", candidates |-> {}, tx |-> NoTx, owed |-> {}]

IngressInit ==
  /\ webhooks = [p \in Posts |-> "unseen"]
  /\ connected = TRUE
  /\ inbound = [emitted |-> [w \in Wamids |-> 0], open |-> Nobody, stopped |-> {},
                confirmed |-> Nobody, sick |-> {}, alerts |-> 0]
  /\ worker = [w \in Workers |-> Idle0]
  /\ mishaps = 0

Ingested == {m \in Wamids : inbound.emitted[m] > 0}
Message(w) == Content[CHOOSE p \in Posts : worker[w].tx.post = {p}][worker[w].tx.step]
Length(w) == Len(Content[CHOOSE p \in Posts : worker[w].tx.post = {p}])

(* ingest and _persist: a retry of Meta meets the row that is there          *)
Post(p) ==
  /\ webhooks[p] = "unseen"
  /\ webhooks' = [webhooks EXCEPT ![p] = "stored"]
  /\ UNCHANGED <<connected, inbound, worker, mishaps>>

(* connect and disconnect_channel                                            *)
WireChannel ==
  /\ connected' = ~connected
  /\ UNCHANGED <<webhooks, inbound, worker, mishaps>>

(* normalize_pending: the scan takes no lock                                 *)
Scan(w) ==
  /\ worker[w] = Idle0
  /\ \E p \in Posts : webhooks[p] = "stored"
  /\ worker' = [worker EXCEPT ![w] =
       [Idle0 EXCEPT !.at = "batch", !.candidates = {p \in Posts : webhooks[p] = "stored"}]]
  /\ UNCHANGED <<webhooks, connected, inbound, mishaps>>

Locked(p) == \E w \in Workers : worker[w].tx.post = {p}

(* _claim: the row is locked and its eligibility looked at again; otherwise  *)
(* the candidate is skipped                                                  *)
ClaimPost(w, p) ==
  /\ worker[w].at = "batch" /\ p \in worker[w].candidates
  /\ worker' = [worker EXCEPT
       ![w].candidates = @ \ {p},
       ![w].at = IF webhooks[p] = "stored" /\ ~Locked(p) THEN "tx" ELSE @,
       ![w].tx = IF webhooks[p] = "stored" /\ ~Locked(p)
                 THEN [NoTx EXCEPT !.post = {p}] ELSE @]
  /\ UNCHANGED <<webhooks, connected, inbound, mishaps>>
EndBatch(w) ==
  /\ worker[w].at = "batch" /\ worker[w].candidates = {}
  /\ worker' = [worker EXCEPT ![w] = Idle0]
  /\ UNCHANGED <<webhooks, connected, inbound, mishaps>>

(* _normalize_one when no channel has the number                             *)
Unrouted(w) ==
  /\ worker[w].at = "tx" /\ worker[w].tx.step = 1 /\ ~connected /\ Length(w) > 0
  /\ webhooks' = [p \in Posts |-> IF worker[w].tx.post = {p} THEN "unrouted" ELSE webhooks[p]]
  /\ worker' = [worker EXCEPT ![w].at = "batch", ![w].tx = NoTx]
  /\ UNCHANGED <<connected, inbound, mishaps>>

(* Mutant: a sender another worker is busy with is not waited for. *)
SenderFreeAlways(w, s) == s \in Senders

(* _upsert_contact waits for a transaction that holds the contact's row      *)
SenderFree(w, s) == \A v \in Workers \ {w} : s \notin worker[v].tx.held

(* Mutant: whether the message row was inserted is not asked. *)
IsNewAlways(w, m) == m \in Wamids

(* INSERT INTO messages .. ON CONFLICT DO NOTHING RETURNING id               *)
IsNew(w, m) == m \notin Ingested /\ m \notin worker[w].tx.new

(* Mutant: every STOP counts as a new opt-out. *)
NewlyStoppedAlways(w, s) == s \in Senders

(* _auto_suppress returns whether the contact is newly suppressed            *)
NewlyStopped(w, s) == s \notin inbound.stopped /\ s \notin worker[w].tx.stopped

(* Mutant: the alert goes out in a session of its own. *)
AlertInTx(kept) == inbound' = [inbound EXCEPT !.alerts = @ + 1]

(* ingest_inbound_media: stored, rejected and infected leave no alert; a     *)
(* scanner that is away quarantines, and the alert joins the transaction     *)
Quarantined(kept) == UNCHANGED inbound

(* _normalize_one: one message                                               *)
NormalizeMessage(w) ==
  LET m == Message(w)
      tx == worker[w].tx
      new == IsNew(w, m.wamid)
  IN /\ worker[w].at = "tx" /\ tx.step <= Length(w)
     /\ connected \/ tx.step > 1
     /\ SenderFree(w, m.from)
     /\ \E away \in {m.kind = "media" /\ new, FALSE} :
          /\ worker' = [worker EXCEPT
               ![w].tx = [tx EXCEPT
                 !.step = tx.step + 1,
                 !.held = tx.held \cup {m.from},
                 !.opened = IF inbound.open[m.from] = 0 THEN tx.opened \cup {m.from} ELSE tx.opened,
                 !.new = IF new THEN tx.new \cup {m.wamid} ELSE tx.new,
                 !.stopped = IF new /\ m.kind = "stop" /\ NewlyStopped(w, m.from)
                             THEN tx.stopped \cup {m.from} ELSE tx.stopped,
                 !.sick = IF away THEN tx.sick \cup {m.wamid} ELSE tx.sick]]
          /\ IF away THEN Quarantined(m.wamid) ELSE UNCHANGED inbound
     /\ UNCHANGED <<webhooks, connected, mishaps>>

Plus(f, S) == [x \in DOMAIN f |-> IF x \in S THEN f[x] + 1 ELSE f[x]]

(* the commit: rows, outbox, suppressions and processed_at together          *)
CommitPost(w) ==
  LET tx == worker[w].tx
  IN /\ worker[w].at = "tx" /\ tx.step > Length(w)
     /\ webhooks' = [p \in Posts |-> IF tx.post = {p} THEN "normalized" ELSE webhooks[p]]
     /\ inbound' = [inbound EXCEPT !.emitted = Plus(@, tx.new), !.open = Plus(@, tx.opened),
                                   !.stopped = @ \cup tx.stopped, !.sick = @ \cup tx.sick,
                                   !.alerts = @ + Cardinality(tx.sick)]
     /\ worker' = [worker EXCEPT ![w].tx = NoTx, ![w].owed = tx.stopped,
                                 ![w].at = IF tx.stopped = {} THEN "batch" ELSE "confirming"]
     /\ UNCHANGED <<connected, mishaps>>

(* _send_stop_confirmation, out of band; send may refuse                     *)
ConfirmStop(w, s) ==
  /\ worker[w].at = "confirming" /\ s \in worker[w].owed
  /\ inbound' = [inbound EXCEPT !.confirmed[s] = @ + 1]
  /\ worker' = [worker EXCEPT ![w].owed = @ \ {s},
                              ![w].at = IF worker[w].owed = {s} THEN "batch" ELSE @]
  /\ UNCHANGED <<webhooks, connected, mishaps>>

(* SendRefused is logged and the batch goes on                               *)
RefuseConfirmation(w, s) ==
  /\ worker[w].at = "confirming" /\ s \in worker[w].owed /\ mishaps < MaxIngressFaults
  /\ mishaps' = mishaps + 1
  /\ worker' = [worker EXCEPT ![w].owed = @ \ {s},
                              ![w].at = IF worker[w].owed = {s} THEN "batch" ELSE @]
  /\ UNCHANGED <<webhooks, connected, inbound>>

(* a transaction raises (a media download, the database) and rolls back; the *)
(* webhook stays stored                                                      *)
AbortPost(w) ==
  /\ worker[w].at = "tx" /\ mishaps < MaxIngressFaults
  /\ mishaps' = mishaps + 1
  /\ worker' = [worker EXCEPT ![w].tx = NoTx, ![w].at = "batch"]
  /\ UNCHANGED <<webhooks, connected, inbound>>

(* two workers that hold what the other waits for: the database aborts one   *)
Waits(w, v) == /\ worker[w].at = "tx" /\ worker[w].tx.step <= Length(w)
               /\ Message(w).from \in worker[v].tx.held
DeadlockVictim(w) ==
  /\ \E v \in Workers \ {w} : Waits(w, v) /\ Waits(v, w)
  /\ worker' = [worker EXCEPT ![w].tx = NoTx, ![w].at = "batch"]
  /\ UNCHANGED <<webhooks, connected, inbound, mishaps>>

(* the worker process dies                                                   *)
WorkerDies(w) ==
  /\ worker[w] # Idle0 /\ mishaps < MaxIngressFaults
  /\ mishaps' = mishaps + 1
  /\ worker' = [worker EXCEPT ![w] = Idle0]
  /\ UNCHANGED <<webhooks, connected, inbound>>

IngressNext ==
  \/ WireChannel
  \/ \E p \in Posts : Post(p)
  \/ \E w \in Workers :
       \/ Scan(w) \/ EndBatch(w) \/ Unrouted(w) \/ NormalizeMessage(w) \/ CommitPost(w)
       \/ AbortPost(w) \/ DeadlockVictim(w) \/ WorkerDies(w)
       \/ \E p \in Posts : ClaimPost(w, p)
       \/ \E s \in Senders : ConfirmStop(w, s) \/ RefuseConfirmation(w, s)

IngressSpec == IngressInit /\ [][IngressNext]_ingressVars

-----------------------------------------------------------------------------
(* Properties                                                                *)

(* Every webhook, worker and committed fact has its shape.                   *)
IngressTypeOK ==
  /\ \A p \in Posts : webhooks[p] \in {"unseen", "stored", "normalized", "unrouted"}
  /\ \A w \in Workers : /\ worker[w].at \in {"idle", "batch", "tx", "confirming"}
                        /\ worker[w].tx.held \subseteq Senders
                        /\ worker[w].tx.new \subseteq Wamids
  /\ inbound.stopped \subseteq Senders

(* A message is announced once (msg.received), and a webhook marked          *)
(* processed has all its messages announced, whatever workers race, abort or *)
(* die and however Meta batches its retries (_normalize_one's commit).       *)
IngestedOnce ==
  /\ \A m \in Wamids : inbound.emitted[m] <= 1
  /\ \A p \in Posts : webhooks[p] = "normalized" =>
       \A i \in DOMAIN Content[p] : inbound.emitted[Content[p][i].wamid] = 1

(* Normalizers never open two conversations for one customer: the contact's  *)
(* row, upserted first, makes the second worker wait (_open_conversation     *)
(* itself reads and inserts without a lock).                                 *)
OneOpenConversation == \A s \in Senders : inbound.open[s] <= 1

(* An opt-out is confirmed at most once, only when the suppression is        *)
(* durable, and one that is not confirmed is still owed or explained by a    *)
(* refusal or by a worker that died in between, which loses those of the one *)
(* webhook it had committed (normalize_pending).                             *)
Unconfirmed == {s \in inbound.stopped :
                  inbound.confirmed[s] = 0 /\ \A w \in Workers : s \notin worker[w].owed}
ConfirmationsAccounted ==
  /\ \A s \in Senders : inbound.confirmed[s] <= IF s \in inbound.stopped THEN 1 ELSE 0
  /\ Cardinality(Unconfirmed) <= mishaps * MaxStops

(* Media the scanner could not look at and the alerts about it go together,  *)
(* also when the transaction is rolled back and tried again (_ingest_media). *)
QuarantineAlerted == inbound.alerts = Cardinality(inbound.sick)

=============================================================================
