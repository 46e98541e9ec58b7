----------------------------- MODULE EventPlane -----------------------------
(***************************************************************************)
(* The event plane: core/events/outbox.py (a transactional outbox and its  *)
(* publishers) and core/events/consumer.py (consumer groups over a Redis   *)
(* stream, with a dedupe row per event, bounded retries and a dead-letter  *)
(* queue).                                                                 *)
(*                                                                         *)
(* One stream, that of one event type.  A consumer is one run_consumer     *)
(* task: a worker process runs one for every registered group.  A database *)
(* transaction is atomic at its commit; a Redis command is atomic; a       *)
(* process can die between any two of them.  Idleness is not timed: an     *)
(* entry pending to a live but slow consumer can be reclaimed.             *)
(***************************************************************************)
EXTENDS Integers, FiniteSets, Sequences

CONSTANTS
  Events,         \* outbox rows, of one event type
  Groups,         \* consumer groups registered on its stream
  Consumers,      \* run_consumer tasks
  GroupOf,        \* [Consumers -> Groups]
  Publishers,     \* run_publisher loops
  DlqAfter,       \* DLQ_AFTER: failures an entry survives (5 in the code)
  MaxEntries,     \* bound: entries ever added to the stream
  MaxRaises,      \* bound: failures of a handler on one entry
  MaxCrashes,     \* bound: process deaths
  MaxReplays,     \* bound: dead letters an operator replays
  MaxPrunes       \* bound: dedupe rows that outlive the retention window

ASSUME PlaneAssumption ==
  /\ GroupOf \in [Consumers -> Groups]
  /\ DlqAfter \in Nat /\ MaxEntries \in Nat /\ MaxRaises \in Nat
  /\ MaxCrashes \in Nat /\ MaxReplays \in Nat /\ MaxPrunes \in Nat

Ids == 1..MaxEntries     \* stream entry ids, in XADD order

VARIABLES
  outbox,    \* event_outbox: "none", "unpublished", "published"
  pub,       \* each publisher's claimed rows, and those not yet added
  stream,    \* the event carried by each entry, a sequence
  last,      \* last-delivered id of each group
  pel,       \* pending entries of each group: delivered and not acked
  retries,   \* the retry hash of each group
  dedupe,    \* dedupe_consumer: events recorded, per group
  dlq,       \* dead-letter stream: how many entries carry each event
  con,       \* what each consumer is doing
  effects,   \* history: times the handler's own work was committed
  wasted,    \* history: of those, times the dedupe row then did not commit
  raised,    \* history: times a handler raised on each entry, per group
  settled,   \* history: events whose dedupe row ever committed, per group
  crashes, replays, prunes   \* how much of the bounds is used

queue == <<outbox, pub, stream>>
history == <<effects, wasted, raised, settled>>
bounds == <<crashes, replays, prunes>>
vars == <<outbox, pub, stream, last, pel, retries, dedupe, dlq, con,
          history, bounds>>

(* at: where _process is; batch: delivered entries it still has to take,   *)
(* in id order; id: the entry in hand.                                     *)
Waiting == [at |-> "idle", batch |-> {}, id |-> 0]

Points == {"idle", "next", "handling", "effected", "ack", "raise", "bury", "buried"}

Init ==
  /\ outbox = [e \in Events |-> "none"]
  /\ pub = [p \in Publishers |-> [rows |-> {}, left |-> {}]]
  /\ stream = <<>>
  /\ last = [g \in Groups |-> 0]
  /\ pel = [g \in Groups |-> {}]
  /\ retries = [g \in Groups |-> [i \in Ids |-> 0]]
  /\ dedupe = [g \in Groups |-> {}]
  /\ dlq = [e \in Events |-> 0]
  /\ con = [c \in Consumers |-> Waiting]
  /\ effects = [g \in Groups |-> [e \in Events |-> 0]]
  /\ wasted = [g \in Groups |-> [e \in Events |-> 0]]
  /\ raised = [g \in Groups |-> [i \in Ids |-> 0]]
  /\ settled = [g \in Groups |-> {}]
  /\ crashes = 0 /\ replays = 0 /\ prunes = 0

-----------------------------------------------------------------------------
(* The outbox                                                              *)

(* A transaction that emitted an event commits. *)
Emit(e) ==
  /\ outbox[e] = "none"
  /\ outbox' = [outbox EXCEPT ![e] = "unpublished"]
  /\ UNCHANGED <<pub, stream, last, pel, retries, dedupe, dlq, con, history, bounds>>

Locked == UNION {pub[p].rows : p \in Publishers}

(* SELECT ... FOR UPDATE SKIP LOCKED LIMIT n: rows of no other publisher.  *)
ClaimRows(p) ==
  /\ pub[p].rows = {}
  /\ \E rows \in (SUBSET ({e \in Events : outbox[e] = "unpublished"} \ Locked)) \ {{}} :
       pub' = [pub EXCEPT ![p] = [rows |-> rows, left |-> rows]]
  /\ UNCHANGED <<outbox, stream, last, pel, retries, dedupe, dlq, con, history, bounds>>

(* One XADD of the batch; created_at order is no part of what follows.     *)
Relay(p) ==
  /\ Len(stream) < MaxEntries
  /\ \E e \in pub[p].left :
       /\ stream' = Append(stream, e)
       /\ pub' = [pub EXCEPT ![p].left = @ \ {e}]
  /\ UNCHANGED <<outbox, last, pel, retries, dedupe, dlq, con, history, bounds>>

(* Mutant: the rows are marked before they are added. *)
MarkPublishedFirst(p) ==
  /\ pub[p].rows # {}
  /\ outbox' = [e \in Events |-> IF e \in pub[p].rows THEN "published" ELSE outbox[e]]
  /\ pub' = [pub EXCEPT ![p].rows = pub[p].left]
  /\ UNCHANGED <<stream, last, pel, retries, dedupe, dlq, con, history, bounds>>

(* The UPDATE and the commit that releases the rows. *)
MarkPublished(p) ==
  /\ pub[p].rows # {} /\ pub[p].left = {}
  /\ outbox' = [e \in Events |-> IF e \in pub[p].rows THEN "published" ELSE outbox[e]]
  /\ pub' = [pub EXCEPT ![p].rows = {}]
  /\ UNCHANGED <<stream, last, pel, retries, dedupe, dlq, con, history, bounds>>

(* The publisher dies, or Redis refuses an XADD: the rows stay unpublished *)
(* and what was added stays added.                                         *)
LosePublisher(p) ==
  /\ pub[p].rows # {} /\ crashes < MaxCrashes
  /\ pub' = [pub EXCEPT ![p] = [rows |-> {}, left |-> {}]]
  /\ crashes' = crashes + 1
  /\ UNCHANGED <<outbox, stream, last, pel, retries, dedupe, dlq, con, history,
                 replays, prunes>>

-----------------------------------------------------------------------------
(* drain_once                                                              *)

Event(c) == stream[con[c].id]
At(c, point) == con[c].at = point
Go(c, point) == con' = [con EXCEPT ![c].at = point]

(* The rest of the batch, or another round of the loop. *)
Done(c) ==
  con' = [con EXCEPT ![c] =
            [Waiting EXCEPT !.at = IF con[c].batch = {} THEN "idle" ELSE "next",
                            !.batch = con[c].batch]]

(* XREADGROUP ">": every entry not delivered to the group yet.             *)
ReadNew(c) ==
  /\ At(c, "idle")
  /\ LET g == GroupOf[c]  new == (last[g] + 1)..Len(stream) IN
       /\ new # {}
       /\ last' = [last EXCEPT ![g] = Len(stream)]
       /\ pel' = [pel EXCEPT ![g] = @ \cup new]
       /\ con' = [con EXCEPT ![c] = [at |-> "next", batch |-> new, id |-> 0]]
  /\ UNCHANGED <<queue, retries, dedupe, dlq, history, bounds>>

(* XAUTOCLAIM: pending entries that have been idle for long enough.        *)
Reclaim(c) ==
  /\ At(c, "idle")
  /\ \E idle \in (SUBSET pel[GroupOf[c]]) \ {{}} :
       con' = [con EXCEPT ![c] = [at |-> "next", batch |-> idle, id |-> 0]]
  /\ UNCHANGED <<queue, last, pel, retries, dedupe, dlq, history, bounds>>

-----------------------------------------------------------------------------
(* _process and _dedupe_and_handle                                         *)

InHand(c) == At(c, "handling") \/ At(c, "effected")

(* The INSERT of the dedupe row waits for an uncommitted one of the same   *)
(* key, and so for any other handler of the event in this group.           *)
KeyFree(g, e) ==
  \A c \in Consumers : ~ (GroupOf[c] = g /\ InHand(c) /\ Event(c) = e)

Begin(c, i, point) ==
  con' = [con EXCEPT ![c] = [at |-> point, batch |-> @.batch \ {i}, id |-> i]]

(* Mutants: no dedupe row; the row does not make a concurrent INSERT wait. *)
TakeNextUndeduped(c) ==
  /\ At(c, "next")
  /\ \E i \in con[c].batch :
       /\ \A j \in con[c].batch : i <= j
       /\ KeyFree(GroupOf[c], stream[i])
       /\ Begin(c, i, "handling")
  /\ UNCHANGED <<queue, last, pel, retries, dedupe, dlq, history, bounds>>

TakeNextUnserialised(c) ==
  /\ At(c, "next")
  /\ \E i \in con[c].batch :
       /\ \A j \in con[c].batch : i <= j
       /\ Begin(c, i, IF stream[i] \in dedupe[GroupOf[c]] THEN "ack" ELSE "handling")
  /\ UNCHANGED <<queue, last, pel, retries, dedupe, dlq, history, bounds>>

(* INSERT ... ON CONFLICT DO NOTHING: an event already recorded is acked   *)
(* without running the handler.                                            *)
TakeNext(c) ==
  /\ At(c, "next")
  /\ \E i \in con[c].batch :
       /\ \A j \in con[c].batch : i <= j
       /\ KeyFree(GroupOf[c], stream[i])
       /\ Begin(c, i, IF stream[i] \in dedupe[GroupOf[c]] THEN "ack" ELSE "handling")
  /\ UNCHANGED <<queue, last, pel, retries, dedupe, dlq, history, bounds>>

(* The handler's own session commits: every handler opens its own, apart   *)
(* from the dedupe transaction.                                            *)
Effect(c) ==
  /\ At(c, "handling")
  /\ effects' = [effects EXCEPT ![GroupOf[c]][Event(c)] = @ + 1]
  /\ Go(c, "effected")
  /\ UNCHANGED <<queue, last, pel, retries, dedupe, dlq, wasted, raised, settled,
                 bounds>>

(* The dedupe row commits. *)
Commit(c) ==
  /\ At(c, "effected")
  /\ dedupe' = [dedupe EXCEPT ![GroupOf[c]] = @ \cup {Event(c)}]
  /\ settled' = [settled EXCEPT ![GroupOf[c]] = @ \cup {Event(c)}]
  /\ Go(c, "ack")
  /\ UNCHANGED <<queue, last, pel, retries, dlq, effects, wasted, raised,
                 bounds>>

Forget(c) ==
  wasted' = IF At(c, "effected")
              THEN [wasted EXCEPT ![GroupOf[c]][Event(c)] = @ + 1] ELSE wasted

(* The handler raises, before or after its own commit; the dedupe row      *)
(* rolls back.                                                             *)
Raise(c) ==
  /\ InHand(c) /\ raised[GroupOf[c]][con[c].id] < MaxRaises
  /\ Forget(c)
  /\ raised' = [raised EXCEPT ![GroupOf[c]][con[c].id] = @ + 1]
  /\ Go(c, "raise")
  /\ UNCHANGED <<queue, last, pel, retries, dedupe, dlq, effects, settled,
                 bounds>>

(* Mutants: dead-lettered one failure early; acked after any failure. *)
CountFailureEarly(c) ==
  /\ At(c, "raise")
  /\ LET g == GroupOf[c]  attempts == retries[g][con[c].id] + 1 IN
       /\ retries' = [retries EXCEPT ![g][con[c].id] = attempts]
       /\ IF attempts >= DlqAfter THEN Go(c, "bury") ELSE Done(c)
  /\ UNCHANGED <<queue, last, pel, dedupe, dlq, history, bounds>>

CountFailureAcked(c) ==
  /\ At(c, "raise") /\ Go(c, "ack")
  /\ UNCHANGED <<queue, last, pel, retries, dedupe, dlq, history, bounds>>

(* HINCRBY; past the limit the entry is dead-lettered, else it is left     *)
(* pending.                                                                *)
CountFailure(c) ==
  /\ At(c, "raise")
  /\ LET g == GroupOf[c]  attempts == retries[g][con[c].id] + 1 IN
       /\ retries' = [retries EXCEPT ![g][con[c].id] = attempts]
       /\ IF attempts > DlqAfter THEN Go(c, "bury") ELSE Done(c)
  /\ UNCHANGED <<queue, last, pel, dedupe, dlq, history, bounds>>

(* XADD to the dead-letter stream, and the alert. *)
Bury(c) ==
  /\ At(c, "bury")
  /\ dlq' = [dlq EXCEPT ![Event(c)] = @ + 1]
  /\ Go(c, "buried")
  /\ UNCHANGED <<queue, last, pel, retries, dedupe, history, bounds>>

(* XACK, then HDEL of the retry count. *)
Ack(c) ==
  /\ At(c, "ack") \/ At(c, "buried")
  /\ LET g == GroupOf[c] IN
       /\ pel' = [pel EXCEPT ![g] = @ \ {con[c].id}]
       /\ retries' = [retries EXCEPT ![g][con[c].id] = 0]
  /\ Done(c)
  /\ UNCHANGED <<queue, last, dedupe, dlq, history, bounds>>

(* The consumer's process dies: its open transaction rolls back, what it   *)
(* was delivered stays pending.                                            *)
Crash(c) ==
  /\ ~ At(c, "idle") /\ crashes < MaxCrashes
  /\ Forget(c)
  /\ con' = [con EXCEPT ![c] = Waiting]
  /\ crashes' = crashes + 1
  /\ UNCHANGED <<queue, last, pel, retries, dedupe, dlq, effects, raised, settled,
                 replays, prunes>>

-----------------------------------------------------------------------------
(* The operator and the retention job                                      *)

(* Mutant: the queue is not looked at. *)
ReplayUnlisted(e) ==
  /\ replays < MaxReplays /\ Len(stream) < MaxEntries
  /\ stream' = Append(stream, e)
  /\ dlq' = [dlq EXCEPT ![e] = @ - 1]
  /\ replays' = replays + 1
  /\ UNCHANGED <<outbox, pub, last, pel, retries, dedupe, con, history, crashes, prunes>>

(* replay_dlq: XADD to the stream every group reads, then XDEL; the script *)
(* may die between the two.                                                *)
Replay(e) ==
  /\ dlq[e] > 0 /\ replays < MaxReplays /\ Len(stream) < MaxEntries
  /\ stream' = Append(stream, e)
  /\ \/ dlq' = [dlq EXCEPT ![e] = @ - 1] /\ UNCHANGED crashes
     \/ UNCHANGED dlq /\ crashes < MaxCrashes /\ crashes' = crashes + 1
  /\ replays' = replays + 1
  /\ UNCHANGED <<outbox, pub, last, pel, retries, dedupe, con, history, prunes>>

(* prune_dedupe: the row is older than thirty days. *)
Prune(g, e) ==
  /\ e \in dedupe[g] /\ prunes < MaxPrunes
  /\ dedupe' = [dedupe EXCEPT ![g] = @ \ {e}]
  /\ prunes' = prunes + 1
  /\ UNCHANGED <<queue, last, pel, retries, dlq, con, history, crashes, replays>>

-----------------------------------------------------------------------------
Publish(p) == ClaimRows(p) \/ Relay(p) \/ MarkPublished(p)

Process(c) ==
  \/ TakeNext(c) \/ Effect(c) \/ Commit(c) \/ Raise(c)
  \/ CountFailure(c) \/ Bury(c) \/ Ack(c)

Next ==
  \/ \E e \in Events : Emit(e) \/ Replay(e) \/ \E g \in Groups : Prune(g, e)
  \/ \E p \in Publishers : Publish(p) \/ LosePublisher(p)
  \/ \E c \in Consumers : ReadNew(c) \/ Reclaim(c) \/ Process(c) \/ Crash(c)

Spec == Init /\ [][Next]_vars

(* The loops of run_publisher and run_consumer come round again.  A stop   *)
(* or a death is followed by a restart.                                    *)
Fairness ==
  /\ \A p \in Publishers : WF_vars(Publish(p))
  /\ \A c \in Consumers : /\ WF_vars(Process(c)) /\ WF_vars(ReadNew(c))
                          /\ WF_vars(Reclaim(c))

FairSpec == Spec /\ Fairness
-----------------------------------------------------------------------------
(* Properties                                                              *)

(* Every variable keeps its type (outbox.py, consumer.py).                 *)
TypeOK ==
  /\ outbox \in [Events -> {"none", "unpublished", "published"}]
  /\ pub \in [Publishers -> [rows : SUBSET Events, left : SUBSET Events]]
  /\ stream \in Seq(Events) /\ Len(stream) <= MaxEntries
  /\ last \in [Groups -> 0..MaxEntries]
  /\ pel \in [Groups -> SUBSET Ids]
  /\ retries \in [Groups -> [Ids -> Nat]]
  /\ dedupe \in [Groups -> SUBSET Events]
  /\ dlq \in [Events -> Nat]
  /\ con \in [Consumers -> [at : Points, batch : SUBSET Ids, id : {0} \cup Ids]]
  /\ effects \in [Groups -> [Events -> Nat]]
  /\ wasted \in [Groups -> [Events -> Nat]]
  /\ raised \in [Groups -> [Ids -> Nat]]
  /\ settled \in [Groups -> SUBSET Events]
  /\ crashes \in 0..MaxCrashes /\ replays \in 0..MaxReplays
  /\ prunes \in 0..MaxPrunes

(* An emitted event is never lost to a group: until the group has settled  *)
(* it, it is in the outbox, in the stream and still due, or dead-lettered  *)
(* (publish_batch marks after XADD, _process acks last, replay_dlq deletes *)
(* last).                                                                  *)
Due(g, e) == \E i \in DOMAIN stream : stream[i] = e /\ (i > last[g] \/ i \in pel[g])

NothingLost ==
  \A e \in Events, g \in Groups :
    outbox[e] # "none" =>
      outbox[e] = "unpublished" \/ Due(g, e) \/ dlq[e] > 0 \/ e \in settled[g]

(* Republication, reclaiming from a slow consumer and replay never repeat  *)
(* a handler's work by themselves: each repetition is owed to an attempt   *)
(* whose dedupe row did not commit, or to a row pruned since               *)
(* (_dedupe_and_handle, prune_dedupe).                                     *)
RepeatsAccounted ==
  \A g \in Groups, e \in Events : effects[g][e] <= wasted[g][e] + 1 + prunes

(* Two consumers of a group are never inside the handler of one event.     *)
OneHandler ==
  \A c, d \in Consumers :
    (/\ InHand(c) /\ InHand(d) /\ GroupOf[c] = GroupOf[d] /\ Event(c) = Event(d))
      => c = d

(* An entry is dead-lettered only after its handler failed more than       *)
(* DLQ_AFTER times on it (_process).                                       *)
BuriedAfterLimit ==
  \A c \in Consumers : At(c, "bury") => raised[GroupOf[c]][con[c].id] > DlqAfter

(* The plane implements EventDelivery: publishers, streams, reclaiming,    *)
(* retries, dead letters and their replay are invisible to a group but for *)
(* the work its handlers commit (_dedupe_and_handle).                      *)
Emitted == {e \in Events : outbox[e] # "none"}
InWork == [g \in Groups |->
             {stream[con[c].id] : c \in {k \in Consumers : GroupOf[k] = g /\ At(k, "effected")}}]

Delivery == INSTANCE EventDelivery WITH
  committed <- Emitted, working <- InWork, recorded <- dedupe, works <- effects

ImplementsDelivery == Delivery!DeliverySpec

(* A committed event is in the end settled by every group or dead-lettered. *)
EventsLand ==
  \A e \in Events, g \in Groups :
    outbox[e] = "unpublished" ~> (e \in settled[g] \/ dlq[e] > 0)
=============================================================================
