-------------------------- MODULE EventPlaneProofs --------------------------
(***************************************************************************)
(* Proofs about EventPlane for every set of events, groups, workers and    *)
(* publishers: type correctness, one handler of an event per group, no     *)
(* event lost, repetitions accounted for, and that the plane implements    *)
(* EventDelivery.                                                          *)
(***************************************************************************)
EXTENDS EventPlane, FiniteSetTheorems, TLAPS

-----------------------------------------------------------------------------
(* The inductive invariant                                                 *)

(* Entries delivered, pending or in hand are entries of the stream. *)
EntriesKnown ==
  /\ \A g \in Groups : last[g] <= Len(stream) /\ pel[g] \subseteq 1..Len(stream)
  /\ \A c \in Consumers :
       /\ con[c].batch \subseteq 1..Len(stream)
       /\ ~(At(c, "idle") \/ At(c, "next")) => con[c].id \in 1..Len(stream)

(* What is claimed, streamed or dead-lettered was emitted. *)
EventsKnown ==
  /\ \A p \in Publishers : pub[p].left \subseteq pub[p].rows /\ pub[p].rows \subseteq Emitted
  /\ \A i \in 1..Len(stream) : stream[i] \in Emitted
  /\ \A e \in Events : dlq[e] > 0 => e \in Emitted

(* A handler is alone with its event, which is not recorded yet. *)
HandlersApart ==
  /\ OneHandler
  /\ \A c \in Consumers : InHand(c) => Event(c) \notin dedupe[GroupOf[c]]

Inv == TypeOK /\ EntriesKnown /\ EventsKnown /\ HandlersApart

-----------------------------------------------------------------------------
(* Type correctness                                                        *)

(* What adding an entry makes of the stream (XADD). *)
LEMMA Added ==
  ASSUME TypeOK, NEW e \in Events, stream' = Append(stream, e)
  PROVE  /\ stream' \in Seq(Events) /\ Len(stream) \in Nat
         /\ Len(stream') = Len(stream) + 1
         /\ stream'[Len(stream) + 1] = e
         /\ \A i \in 1..Len(stream) : stream'[i] = stream[i]
BY DEF TypeOK

(* Counters stay counters. *)
LEMMA CounterUp ==
  ASSUME NEW F, NEW f \in [F -> Nat], NEW x PROVE [f EXCEPT ![x] = @ + 1] \in [F -> Nat]
<1>1. x \in F => f[x] + 1 \in Nat OBVIOUS
<1> QED BY <1>1

(* Counting up some of several counters keeps them counters. *)
LEMMA CountersUp ==
  ASSUME NEW G, NEW F, NEW f \in [G -> [F -> Nat]], NEW g, NEW x, NEW n,
         g \in G /\ x \in F => n \in Nat
  PROVE  [f EXCEPT ![g][x] = n] \in [G -> [F -> Nat]]
<1>1. CASE g \in G  BY <1>1
<1>2. CASE g \notin G BY <1>2
<1> QED BY <1>1, <1>2

(* What a consumer may be doing. *)
ConsumerRecords == [at : Points, batch : SUBSET Ids, id : {0} \cup Ids]
(* A consumer keeps a record of its type when it moves within an entry. *)
LEMMA Moved ==
  ASSUME TypeOK, NEW c \in Consumers, NEW point \in Points
  PROVE  /\ [con EXCEPT ![c].at = point] \in [Consumers -> ConsumerRecords]
         /\ \A i \in Ids :
              [con EXCEPT ![c] = [at |-> point, batch |-> @.batch \ {i}, id |-> i]]
                \in [Consumers -> ConsumerRecords]
         /\ [con EXCEPT ![c] = [Waiting EXCEPT !.at = point, !.batch = con[c].batch]]
              \in [Consumers -> ConsumerRecords]
         /\ [con EXCEPT ![c] = Waiting] \in [Consumers -> ConsumerRecords]
<1>1. con \in [Consumers -> ConsumerRecords] /\ con[c] \in ConsumerRecords
  BY DEF TypeOK, ConsumerRecords
<1>2. [con[c] EXCEPT !.at = point] \in ConsumerRecords BY <1>1 DEF ConsumerRecords
<1>3. ASSUME NEW i \in Ids
      PROVE  [at |-> point, batch |-> con[c].batch \ {i}, id |-> i] \in ConsumerRecords
  BY <1>1 DEF ConsumerRecords
<1>4. [Waiting EXCEPT !.at = point, !.batch = con[c].batch] \in ConsumerRecords
  BY <1>1 DEF ConsumerRecords, Waiting
<1>5. Waiting \in ConsumerRecords BY DEF ConsumerRecords, Waiting, Points
<1> QED BY <1>1, <1>2, <1>3, <1>4, <1>5

(* Every step keeps the types (outbox.py, consumer.py). *)
LEMMA TypeStep ==
  ASSUME TypeOK, EntriesKnown, [Next]_vars
  PROVE  TypeOK'
<1> USE PlaneAssumption DEF Ids
<1>0. Len(stream) \in Nat /\ stream \in Seq(Events) /\ \A i \in 1..Len(stream) : stream[i] \in Events
  BY DEF TypeOK
<1>1. ASSUME NEW e \in Events, Emit(e) PROVE TypeOK'
  BY <1>1 DEF Emit, TypeOK, history, bounds
<1>2. ASSUME NEW e \in Events, Replay(e) PROVE TypeOK'
  <2>1. /\ stream' \in Seq(Events) /\ Len(stream') <= MaxEntries
    BY <1>2, <1>0, Added DEF Replay, TypeOK
  <2>2. dlq' \in [Events -> Nat]
    <3>1. dlq \in [Events -> Nat] /\ dlq[e] \in Nat /\ dlq[e] > 0
      BY <1>2 DEF Replay, TypeOK
    <3> QED BY <3>1, <1>2 DEF Replay
  <2>3. replays' \in 0..MaxReplays /\ crashes' \in 0..MaxCrashes
    BY <1>2 DEF Replay, TypeOK
  <2> QED BY <1>2, <2>1, <2>2, <2>3 DEF Replay, TypeOK, history
<1>3. ASSUME NEW e \in Events, NEW g \in Groups, Prune(g, e) PROVE TypeOK'
  BY SMTT(30), <1>3 DEF Prune, TypeOK, history, queue
<1>4. ASSUME NEW p \in Publishers, ClaimRows(p) PROVE TypeOK'
  <2>1. pub' \in [Publishers -> [rows : SUBSET Events, left : SUBSET Events]]
    BY <1>4 DEF ClaimRows, TypeOK
  <2> QED BY <1>4, <2>1 DEF ClaimRows, TypeOK, history, bounds
<1>5. ASSUME NEW p \in Publishers, Relay(p) PROVE TypeOK'
  <2>1. PICK e \in pub[p].left : /\ stream' = Append(stream, e)
                                 /\ pub' = [pub EXCEPT ![p].left = @ \ {e}]
    BY <1>5 DEF Relay
  <2>2. e \in Events /\ pub \in [Publishers -> [rows : SUBSET Events, left : SUBSET Events]]
    BY <2>1 DEF TypeOK
  <2>3. /\ stream' \in Seq(Events) /\ Len(stream') <= MaxEntries
    BY <1>5, <2>1, <2>2, Added, <1>0 DEF Relay, TypeOK
  <2>4. pub' \in [Publishers -> [rows : SUBSET Events, left : SUBSET Events]]
    BY <2>1, <2>2
  <2> QED BY <1>5, <2>3, <2>4 DEF Relay, TypeOK, history, bounds
<1>6. ASSUME NEW p \in Publishers, MarkPublished(p) PROVE TypeOK'
  <2>1. outbox' \in [Events -> {"none", "unpublished", "published"}]
    BY <1>6 DEF MarkPublished, TypeOK
  <2>2. pub' \in [Publishers -> [rows : SUBSET Events, left : SUBSET Events]]
    <3>1. pub \in [Publishers -> [rows : SUBSET Events, left : SUBSET Events]]
      BY DEF TypeOK
    <3> QED BY <3>1, <1>6 DEF MarkPublished
  <2> QED BY <1>6, <2>1, <2>2 DEF MarkPublished, TypeOK, history, bounds
<1>7. ASSUME NEW p \in Publishers, LosePublisher(p) PROVE TypeOK'
  <2>1. pub' \in [Publishers -> [rows : SUBSET Events, left : SUBSET Events]]
    BY <1>7 DEF TypeOK, LosePublisher
  <2>2. crashes' \in 0..MaxCrashes BY <1>7 DEF LosePublisher, TypeOK
  <2> QED BY <1>7, <2>1, <2>2 DEF LosePublisher, TypeOK, history
<1>8. ASSUME NEW c \in Consumers, ReadNew(c) PROVE TypeOK'
  <2>0. last[GroupOf[c]] \in Nat /\ Len(stream) <= MaxEntries BY DEF TypeOK
  <2>1. (last[GroupOf[c]] + 1)..Len(stream) \subseteq 1..MaxEntries
    BY <2>0, <1>0
  <2>2. last' \in [Groups -> 0..MaxEntries]
    BY <1>8, <1>0 DEF ReadNew, TypeOK
  <2>3. pel' \in [Groups -> SUBSET Ids]
    BY <1>8, <2>1 DEF ReadNew, TypeOK
  <2>4. con' \in [Consumers -> [at : Points, batch : SUBSET Ids, id : {0} \cup Ids]]
    BY <1>8, <2>1 DEF ReadNew, TypeOK, Points
  <2> QED BY <1>8, <2>2, <2>3, <2>4 DEF ReadNew, TypeOK, history, bounds, queue
<1>9. ASSUME NEW c \in Consumers, Reclaim(c) PROVE TypeOK'
  <2>1. con' \in [Consumers -> [at : Points, batch : SUBSET Ids, id : {0} \cup Ids]]
    BY SMTT(30), <1>9 DEF Reclaim, TypeOK, Points
  <2> QED BY <1>9, <2>1 DEF Reclaim, TypeOK, history, bounds, queue
<1>10. ASSUME NEW c \in Consumers, TakeNext(c) PROVE TypeOK'
  <2>1. con' \in [Consumers -> [at : Points, batch : SUBSET Ids, id : {0} \cup Ids]]
    <3>1. PICK i \in con[c].batch :
            Begin(c, i, IF stream[i] \in dedupe[GroupOf[c]] THEN "ack" ELSE "handling")
      BY <1>10 DEF TakeNext
    <3>2. i \in Ids BY DEF TypeOK
    <3> QED BY <3>1, <3>2, Moved DEF Begin, ConsumerRecords, Points
  <2> QED BY <1>10, <2>1 DEF TakeNext, TypeOK, history, bounds, queue
<1>11. ASSUME NEW c \in Consumers, Effect(c) PROVE TypeOK'
  <2>1. con' \in [Consumers -> [at : Points, batch : SUBSET Ids, id : {0} \cup Ids]]
    BY <1>11, Moved DEF Effect, Go, ConsumerRecords, Points
  <2>2. effects' \in [Groups -> [Events -> Nat]]
    <3>1. effects \in [Groups -> [Events -> Nat]] BY DEF TypeOK
    <3>2. [effects EXCEPT ![GroupOf[c]][Event(c)] = effects[GroupOf[c]][Event(c)] + 1] \in [Groups -> [Events -> Nat]]
      BY <3>1, CountersUp
    <3> QED BY <3>2, <1>11 DEF Effect
  <2> QED BY <1>11, <2>1, <2>2 DEF Effect, TypeOK, bounds, queue
<1>12. ASSUME NEW c \in Consumers, Commit(c) PROVE TypeOK'
  <2>0. Event(c) \in Events
    BY <1>12, <1>0 DEF Commit, At, Event, EntriesKnown, TypeOK
  <2>1. con' \in [Consumers -> [at : Points, batch : SUBSET Ids, id : {0} \cup Ids]]
    BY <1>12, Moved DEF Commit, Go, ConsumerRecords, Points
  <2>2. dedupe' \in [Groups -> SUBSET Events] /\ settled' \in [Groups -> SUBSET Events]
    BY <1>12, <2>0 DEF Commit, TypeOK
  <2> QED BY <1>12, <2>1, <2>2 DEF Commit, TypeOK, bounds, queue
<1>13. ASSUME NEW c \in Consumers, Raise(c) PROVE TypeOK'
  <2>1. con' \in [Consumers -> [at : Points, batch : SUBSET Ids, id : {0} \cup Ids]]
    BY <1>13, Moved DEF Raise, Go, ConsumerRecords, Points
  <2>2. raised' \in [Groups -> [Ids -> Nat]]
    <3>1. raised \in [Groups -> [Ids -> Nat]] BY DEF TypeOK, Ids
    <3> HIDE DEF Ids
    <3>0. GroupOf[c] \in Groups /\ con[c].id \in Ids => raised[GroupOf[c]][con[c].id] + 1 \in Nat
      BY <3>1
    <3>2. [raised EXCEPT ![GroupOf[c]][con[c].id] = raised[GroupOf[c]][con[c].id] + 1] \in [Groups -> [Ids -> Nat]]
      BY SMTT(30), <3>0, <3>1, CountersUp
    <3> QED BY <3>2, <1>13 DEF Raise
  <2>3. wasted' \in [Groups -> [Events -> Nat]]
    <3>1. wasted \in [Groups -> [Events -> Nat]] BY DEF TypeOK
    <3>2. [wasted EXCEPT ![GroupOf[c]][Event(c)] = wasted[GroupOf[c]][Event(c)] + 1]
            \in [Groups -> [Events -> Nat]]
      BY <3>1, CountersUp
    <3> QED BY <3>1, <3>2, <1>13 DEF Raise, Forget
  <2> QED BY <1>13, <2>1, <2>2, <2>3 DEF Raise, TypeOK, bounds, queue
<1>14. ASSUME NEW c \in Consumers, CountFailure(c) PROVE TypeOK'
  <2>1. con' \in [Consumers -> [at : Points, batch : SUBSET Ids, id : {0} \cup Ids]]
    <3>1. CASE Go(c, "bury") BY <3>1, Moved DEF Go, ConsumerRecords, Points
    <3>2. CASE Done(c) BY <3>2, Moved DEF Done, ConsumerRecords, Points
    <3> QED BY <1>14, <3>1, <3>2 DEF CountFailure
  <2>2. retries' \in [Groups -> [Ids -> Nat]]
    <3>1. retries \in [Groups -> [Ids -> Nat]] BY DEF TypeOK, Ids
    <3> HIDE DEF Ids
    <3>0. GroupOf[c] \in Groups /\ con[c].id \in Ids => retries[GroupOf[c]][con[c].id] + 1 \in Nat
      BY <3>1
    <3>2. [retries EXCEPT ![GroupOf[c]][con[c].id] = retries[GroupOf[c]][con[c].id] + 1] \in [Groups -> [Ids -> Nat]]
      BY SMTT(30), <3>0, <3>1, CountersUp
    <3> QED BY <3>2, <1>14 DEF CountFailure
  <2> QED BY <1>14, <2>1, <2>2 DEF CountFailure, TypeOK, history, bounds, queue
<1>15. ASSUME NEW c \in Consumers, Bury(c) PROVE TypeOK'
  BY <1>15, Moved, CounterUp DEF Bury, Go, ConsumerRecords, Points, TypeOK, history, bounds,
     queue
<1>16. ASSUME NEW c \in Consumers, Ack(c) PROVE TypeOK'
  BY <1>16, Moved DEF Ack, Done, ConsumerRecords, Points, TypeOK, history, bounds, queue
<1>17. ASSUME NEW c \in Consumers, Crash(c) PROVE TypeOK'
  <2>1. con' \in [Consumers -> [at : Points, batch : SUBSET Ids, id : {0} \cup Ids]]
    BY <1>17, Moved DEF Crash, ConsumerRecords, Points
  <2>2. wasted' \in [Groups -> [Events -> Nat]]
    <3>1. wasted \in [Groups -> [Events -> Nat]] BY DEF TypeOK
    <3>2. [wasted EXCEPT ![GroupOf[c]][Event(c)] = wasted[GroupOf[c]][Event(c)] + 1]
            \in [Groups -> [Events -> Nat]]
      BY <3>1, CountersUp
    <3> QED BY <3>1, <3>2, <1>17 DEF Crash, Forget
  <2>3. crashes' \in 0..MaxCrashes
    BY <1>17 DEF Crash, TypeOK
  <2> QED BY <1>17, <2>1, <2>2, <2>3 DEF Crash, TypeOK, queue
<1>18. CASE UNCHANGED vars
  BY <1>18 DEF TypeOK, vars, history, bounds
<1> QED
  BY <1>1, <1>2, <1>3, <1>4, <1>5, <1>6, <1>7, <1>8, <1>9, <1>10, <1>11, <1>12, <1>13,
     <1>14, <1>15, <1>16, <1>17, <1>18 DEF Next, Publish, Process

-----------------------------------------------------------------------------
(* Entries and events                                                      *)

(* A step of consumer c leaves the other consumers where they were. *)
LEMMA OthersStay ==
  ASSUME TypeOK, NEW c \in Consumers,
         ReadNew(c) \/ Reclaim(c) \/ Process(c) \/ Crash(c)
  PROVE  /\ \A d \in Consumers : d # c => con'[d] = con[d]
         /\ UNCHANGED <<outbox, pub, stream>>
  BY DEF TypeOK, ReadNew, Reclaim, Process, Crash, TakeNext, Begin, Effect, Commit, Raise,
         CountFailure, Bury, Ack, Go, Done, queue

(* Entries stay known: every id comes from the stream, which only grows.   *)
LEMMA EntriesStep ==
  ASSUME TypeOK, EntriesKnown, [Next]_vars
  PROVE  EntriesKnown'
<1> USE PlaneAssumption
<1>0. /\ Len(stream) \in Nat /\ con \in [Consumers -> ConsumerRecords]
      /\ last \in [Groups -> Nat] /\ pel \in [Groups -> SUBSET Ids]
  BY DEF TypeOK, ConsumerRecords
<1>1. ASSUME NEW e \in Events, stream' = Append(stream, e), UNCHANGED <<last, pel, con>>
      PROVE  EntriesKnown'  BY <1>0, <1>1, Added DEF EntriesKnown, At
<1>2. ASSUME UNCHANGED <<stream, last, pel, con>> PROVE EntriesKnown'
  BY <1>2 DEF EntriesKnown, At
<1>3. ASSUME NEW e \in Events, Emit(e) \/ Replay(e) \/ \E g \in Groups : Prune(g, e)
      PROVE  EntriesKnown'
  BY <1>1, <1>2, <1>3 DEF Emit, Replay, Prune, queue
<1>4. ASSUME NEW p \in Publishers, Publish(p) \/ LosePublisher(p) PROVE EntriesKnown'
  BY <1>1, <1>2, <1>4 DEF Relay, TypeOK, Publish, ClaimRows, MarkPublished, LosePublisher
<1>5. ASSUME NEW c \in Consumers, ReadNew(c) \/ Reclaim(c) \/ Process(c) \/ Crash(c)
      PROVE  EntriesKnown'
  <2>1. UNCHANGED stream /\ \A d \in Consumers : d # c => con'[d] = con[d]
    BY <1>5, OthersStay
  <2>2. \A g \in Groups : last'[g] <= Len(stream) /\ pel'[g] \subseteq 1..Len(stream)
    <3>1. CASE ReadNew(c)
      <4> DEFINE new == (last[GroupOf[c]] + 1)..Len(stream)
      <4>1. new \subseteq 1..Len(stream) BY <1>0
      <4>2. /\ last' = [last EXCEPT ![GroupOf[c]] = Len(stream)]
            /\ pel' = [pel EXCEPT ![GroupOf[c]] = @ \cup new]
        BY <3>1 DEF ReadNew
      <4> HIDE DEF new
      <4>3. /\ \A g \in Groups : last'[g] \in {last[g], Len(stream)}
            /\ \A g \in Groups : pel'[g] \subseteq pel[g] \cup new
        BY <4>2, <1>0
      <4>4. ASSUME NEW g \in Groups PROVE last'[g] <= Len(stream)
        BY <1>0, <4>3 DEF EntriesKnown
      <4>5. ASSUME NEW g \in Groups PROVE pel'[g] \subseteq 1..Len(stream)
        BY <4>1, <4>3 DEF EntriesKnown
      <4> QED BY <4>4, <4>5
    <3>2. CASE Ack(c) BY <3>2, <1>0 DEF Ack, EntriesKnown
    <3> QED BY <1>5, <3>1, <3>2
        DEF EntriesKnown, Reclaim, Process, Crash, TakeNext, Effect, Commit, Raise,
            CountFailure, Bury
  <2>3. /\ con'[c].batch \subseteq 1..Len(stream)
        /\ ~(con'[c].at = "idle" \/ con'[c].at = "next") => con'[c].id \in 1..Len(stream)
    <3>0. con[c] \in ConsumerRecords /\ GroupOf[c] \in Groups BY <1>0
    <3>1. CASE ReadNew(c)  BY <1>0, <3>1 DEF ReadNew
    <3>2. CASE Reclaim(c)  BY <1>0, <3>2 DEF Reclaim, EntriesKnown
    <3>3. CASE TakeNext(c)  BY <1>0, <3>3 DEF TakeNext, Begin, EntriesKnown
    <3>4. ASSUME NEW point \in {"effected", "ack", "raise", "bury", "buried"}, Go(c, point),
                 ~(At(c, "idle") \/ At(c, "next"))
          PROVE  con'[c].batch = con[c].batch /\ con'[c].id = con[c].id
      BY <3>0, <3>4, <1>0 DEF Go, ConsumerRecords
    <3>5. CASE Effect(c) \/ Commit(c) \/ Raise(c) \/ Bury(c)
      BY <3>4, <3>5 DEF Effect, Commit, Raise, Bury, InHand, At, EntriesKnown
    <3>6. ASSUME Done(c)
          PROVE  con'[c].batch = con[c].batch /\ con'[c].at \in {"idle", "next"}
      BY <3>6, <3>0, <1>0 DEF Done, Waiting, ConsumerRecords
    <3>7. CASE CountFailure(c)  BY <3>4, <3>6, <3>7 DEF CountFailure, At, EntriesKnown
    <3>8. CASE Ack(c) BY <3>6, <3>8 DEF Ack, EntriesKnown
    <3>9. CASE Crash(c) BY <3>9, <1>0 DEF Crash, Waiting
    <3> QED BY <1>5, <3>1, <3>2, <3>3, <3>5, <3>7, <3>8, <3>9 DEF Process
  <2> QED BY <2>1, <2>2, <2>3 DEF EntriesKnown, At
<1>6. CASE UNCHANGED vars BY <1>6, <1>2 DEF vars
<1> QED BY <1>3, <1>4, <1>5, <1>6 DEF Next

(* What is claimed, streamed or dead-lettered stays emitted: an outbox row *)
(* never goes back.                                                        *)
LEMMA EventsStep ==
  ASSUME TypeOK, EntriesKnown, EventsKnown, [Next]_vars
  PROVE  EventsKnown' /\ Emitted \subseteq Emitted'
<1>0. /\ Len(stream) \in Nat /\ outbox \in [Events -> {"none", "unpublished", "published"}]
      /\ pub \in [Publishers -> [rows : SUBSET Events, left : SUBSET Events]]
      /\ dlq \in [Events -> Nat]
  BY DEF TypeOK
<1>1. ASSUME UNCHANGED <<outbox, pub, stream, dlq>> PROVE EventsKnown' /\ Emitted' = Emitted
  BY <1>1 DEF EventsKnown, Emitted
<1>2. ASSUME NEW e \in Events, Emit(e) PROVE EventsKnown' /\ Emitted \subseteq Emitted'
  BY <1>0, <1>2 DEF Emit, Emitted, EventsKnown
<1>3. ASSUME NEW e \in Emitted, stream' = Append(stream, e), UNCHANGED outbox,
             \A p \in Publishers : pub'[p].left \subseteq pub[p].left /\ pub'[p].rows = pub[p].rows,
             \A x \in Events : dlq'[x] > 0 => dlq[x] > 0
      PROVE  EventsKnown' /\ Emitted \subseteq Emitted'
  BY <1>0, <1>3, Added DEF Emitted, EventsKnown
<1>4. ASSUME NEW e \in Events, Replay(e) PROVE EventsKnown' /\ Emitted \subseteq Emitted'
  BY <1>0, <1>3, <1>4 DEF Replay, EventsKnown
<1>5. ASSUME NEW p \in Publishers, ClaimRows(p) PROVE EventsKnown' /\ Emitted \subseteq Emitted'
  BY <1>0, <1>5 DEF ClaimRows, Emitted, EventsKnown
<1>6. ASSUME NEW p \in Publishers, Relay(p) PROVE EventsKnown' /\ Emitted \subseteq Emitted'
  BY <1>0, <1>3, <1>6 DEF Relay, EventsKnown
<1>7. ASSUME NEW p \in Publishers, MarkPublished(p)
      PROVE  EventsKnown' /\ Emitted \subseteq Emitted'
  BY <1>0, <1>7 DEF MarkPublished, Emitted, EventsKnown
<1>8. ASSUME NEW p \in Publishers, LosePublisher(p)
      PROVE  EventsKnown' /\ Emitted \subseteq Emitted'
  BY <1>0, <1>8 DEF LosePublisher, EventsKnown, Emitted
<1>9. ASSUME NEW c \in Consumers, Bury(c) PROVE EventsKnown' /\ Emitted \subseteq Emitted'
  BY <1>0, <1>9 DEF Bury, At, Event, EntriesKnown, EventsKnown, queue, Emitted
<1>10. ASSUME NEW c \in Consumers,
              ReadNew(c) \/ Reclaim(c) \/ Process(c) \/ Crash(c), ~ Bury(c)
       PROVE  EventsKnown' /\ Emitted \subseteq Emitted'
  BY <1>1, <1>10
  DEF ReadNew, Reclaim, Process, Crash, TakeNext, Effect, Commit, Raise, CountFailure, Ack,
      queue
<1>11. ASSUME NEW e \in Events, NEW g \in Groups, Prune(g, e)
       PROVE  EventsKnown' /\ Emitted \subseteq Emitted'
  BY <1>1, <1>11 DEF Prune, queue
<1>12. CASE UNCHANGED vars BY <1>12, <1>1 DEF vars
<1> QED
  BY <1>2, <1>4, <1>5, <1>6, <1>7, <1>8, <1>9, <1>10, <1>11, <1>12 DEF Next, Publish, Process

-----------------------------------------------------------------------------
(* One handler per event and group                                         *)

(* An entry of the stream keeps its event. *)
LEMMA StreamGrows ==
  ASSUME TypeOK, [Next]_vars
  PROVE  \A i \in 1..Len(stream) : stream'[i] = stream[i]
<1>1. ASSUME NEW e \in Events, Replay(e) PROVE \A i \in 1..Len(stream) : stream'[i] = stream[i]
  BY <1>1, Added DEF Replay
<1>2. ASSUME NEW p \in Publishers, Relay(p)
      PROVE  \A i \in 1..Len(stream) : stream'[i] = stream[i]
  BY <1>2, Added DEF Relay, TypeOK
<1>3. ASSUME UNCHANGED stream PROVE \A i \in 1..Len(stream) : stream'[i] = stream[i]
  BY <1>3
<1>4. ASSUME NEW c \in Consumers, ReadNew(c) \/ Reclaim(c) \/ Process(c) \/ Crash(c)
      PROVE  UNCHANGED stream
  BY <1>4, OthersStay
<1> QED
  BY <1>1, <1>2, <1>3, <1>4
  DEF Next, Publish, Emit, Prune, ClaimRows, MarkPublished, LosePublisher, queue, vars

(* Who holds an event, and that it does not change while he holds it. *)
LEMMA InHandKept ==
  ASSUME TypeOK, EntriesKnown, [Next]_vars, NEW c \in Consumers, con'[c] = con[c]
  PROVE  /\ InHand(c)' = InHand(c) /\ At(c, "effected")' = At(c, "effected")
         /\ InHand(c) => Event(c)' = Event(c)
BY StreamGrows DEF InHand, At, Event, EntriesKnown

(* Where the consumer that moved is then, and which event it holds. *)
LEMMA MoverStep ==
  ASSUME TypeOK, EntriesKnown, NEW c \in Consumers,
         ReadNew(c) \/ Reclaim(c) \/ Process(c) \/ Crash(c)
  PROVE  /\ InHand(c)' => \/ /\ Effect(c) /\ Event(c)' = Event(c)
                             /\ con'[c].at = "effected"
                          \/ /\ TakeNext(c) /\ con'[c].at = "handling"
                             /\ KeyFree(GroupOf[c], Event(c)')
                             /\ Event(c)' \notin dedupe[GroupOf[c]]
         /\ Commit(c) \/ UNCHANGED dedupe
<1>0. con \in [Consumers -> ConsumerRecords] /\ con[c] \in ConsumerRecords
  BY DEF TypeOK, ConsumerRecords
<1>1. UNCHANGED stream BY OthersStay
<1>2. CASE ReadNew(c) BY <1>0, <1>2 DEF ReadNew, InHand, At
<1>3. CASE Reclaim(c) BY <1>0, <1>3 DEF Reclaim, InHand, At
<1>4. CASE TakeNext(c)
  <2>1. PICK i \in con[c].batch :
          /\ KeyFree(GroupOf[c], stream[i])
          /\ Begin(c, i, IF stream[i] \in dedupe[GroupOf[c]] THEN "ack" ELSE "handling")
    BY <1>4 DEF TakeNext
  <2>2. /\ con'[c].at = IF stream[i] \in dedupe[GroupOf[c]] THEN "ack" ELSE "handling"
        /\ con'[c].id = i
    BY <2>1, <1>0 DEF Begin
  <2>3. Event(c)' = stream[i] BY <2>2, <1>1 DEF Event
  <2> QED BY <2>1, <2>2, <2>3, <1>4 DEF InHand, At, TakeNext
<1>5. CASE Effect(c)  BY <1>0, <1>1, <1>5 DEF Effect, Go, ConsumerRecords, Event
<1>6. ASSUME NEW point \in {"ack", "raise", "bury", "buried"}, Go(c, point) PROVE ~ InHand(c)'
  BY <1>0, <1>6 DEF Go, InHand, At, ConsumerRecords
<1>7. ASSUME Done(c) PROVE ~ InHand(c)'
  BY <1>0, <1>7 DEF Done, Waiting, ConsumerRecords, InHand, At
<1>8. CASE Commit(c) \/ Raise(c) \/ Bury(c)
  BY <1>6, <1>8 DEF Commit, Raise, Bury
<1>9. CASE CountFailure(c)  BY <1>6, <1>7, <1>9 DEF CountFailure
<1>10. CASE Ack(c) BY <1>7, <1>10 DEF Ack
<1>11. CASE Crash(c) BY <1>0, <1>11 DEF Crash, Waiting, InHand, At
<1> QED BY <1>2, <1>3, <1>4, <1>5, <1>8, <1>9, <1>10, <1>11 DEF Process

(* The unique key of dedupe_consumer keeps handlers apart: an INSERT waits *)
(* for the uncommitted row of another handler, and finds the committed one.*)
LEMMA HandlersStep ==
  ASSUME TypeOK, EntriesKnown, HandlersApart, [Next]_vars
  PROVE  HandlersApart'
<1>1. ASSUME UNCHANGED con, \A g \in Groups : dedupe'[g] \subseteq dedupe[g]
      PROVE  HandlersApart'
  BY <1>1, InHandKept, PlaneAssumption DEF HandlersApart, OneHandler
<1>2. ASSUME NEW c \in Consumers, ReadNew(c) \/ Reclaim(c) \/ Process(c) \/ Crash(c)
      PROVE  HandlersApart'
  <2>1. \A d \in Consumers : d # c =>
          InHand(d)' = InHand(d) /\ (InHand(d) => Event(d)' = Event(d))
    BY <1>2, OthersStay, InHandKept
  <2>2. \A d \in Consumers :
          InHand(c)' /\ InHand(d) /\ d # c /\ GroupOf[d] = GroupOf[c] => Event(d) # Event(c)'
    BY <1>2, MoverStep DEF Effect, InHand, HandlersApart, OneHandler, KeyFree
  <2>3. OneHandler' BY <2>1, <2>2 DEF HandlersApart, OneHandler
  <2>4. ASSUME NEW d \in Consumers, InHand(d)' PROVE Event(d)' \notin dedupe'[GroupOf[d]]
    <3>1. CASE Commit(c)
      <4>1. ~ InHand(c)' BY <3>1, <1>2, MoverStep DEF Commit, Effect, TakeNext, At
      <4>2. d # c /\ InHand(d) /\ InHand(c) /\ Event(d)' = Event(d)
        BY <2>4, <4>1, <2>1, <3>1 DEF Commit, InHand
      <4>3. Event(d) = Event(c) => GroupOf[d] # GroupOf[c]
        BY <4>2 DEF HandlersApart, OneHandler
      <4>4. dedupe' = [dedupe EXCEPT ![GroupOf[c]] = @ \cup {Event(c)}]
            /\ dedupe \in [Groups -> SUBSET Events]
        BY <3>1 DEF Commit, TypeOK
      <4> QED BY <4>2, <4>3, <4>4, PlaneAssumption DEF HandlersApart
    <3>2. CASE UNCHANGED dedupe
      BY <1>2, <2>1, <2>4, <3>2, MoverStep DEF Effect, InHand, HandlersApart
    <3> QED BY <3>1, <3>2, <1>2, MoverStep
  <2> QED BY <2>3, <2>4 DEF HandlersApart
<1>3. ASSUME NEW e \in Events, Emit(e) \/ Replay(e) \/ \E g \in Groups : Prune(g, e)
      PROVE  HandlersApart'
  BY <1>1, <1>3 DEF Emit, Replay, Prune, TypeOK
<1>4. ASSUME NEW p \in Publishers, Publish(p) \/ LosePublisher(p) PROVE HandlersApart'
  BY <1>1, <1>4 DEF Publish, ClaimRows, Relay, MarkPublished, LosePublisher
<1>5. CASE UNCHANGED vars BY <1>5, <1>1 DEF vars
<1> QED BY <1>2, <1>3, <1>4, <1>5 DEF Next

(* The initial state satisfies the invariant. *)
LEMMA InvInit == Init => Inv
<1> SUFFICES ASSUME Init PROVE Inv OBVIOUS
<1> USE PlaneAssumption DEF Init
<1>1. TypeOK  BY DEF Waiting, Points, TypeOK
<1>2. \A c \in Consumers : con[c].at = "idle" /\ con[c].batch = {} BY DEF Waiting
<1>3. EntriesKnown BY <1>2 DEF EntriesKnown, At
<1>4. EventsKnown BY DEF EventsKnown
<1>5. HandlersApart BY <1>2 DEF HandlersApart, OneHandler, InHand, At
<1> QED BY <1>1, <1>3, <1>4, <1>5 DEF Inv

(* Every step keeps the invariant. *)
LEMMA InvStep == Inv /\ [Next]_vars => Inv'
BY TypeStep, EntriesStep, EventsStep, HandlersStep DEF Inv

(* The inductive invariant holds in every state of every behaviour. *)
LEMMA InvAlways == Spec => []Inv
BY InvInit, InvStep, PTL DEF Spec

(* Every variable keeps its type (outbox.py, consumer.py). *)
THEOREM TypesHold == Spec => []TypeOK
<1>1. Inv => TypeOK BY DEF Inv
<1> QED BY <1>1, InvAlways, PTL

(* Two consumers of a group are never inside the handler of one event      *)
(* (_dedupe_and_handle).                                                   *)
THEOREM OneHandlerAlways == Spec => []OneHandler
<1>1. Inv => OneHandler BY DEF Inv, HandlersApart
<1> QED BY <1>1, InvAlways, PTL

-----------------------------------------------------------------------------
(* The plane implements EventDelivery                                      *)

(* An event is worked on when a consumer of the group has done the work    *)
(* and not yet committed its record.                                       *)
Works(c, g, e) == GroupOf[c] = g /\ At(c, "effected") /\ Event(c) = e

(* Who is at work in each group (the mapping of EventDelivery's working). *)
LEMMA InWorkIs ==
  \A g \in Groups : \A e : e \in InWork[g] <=> \E c \in Consumers : Works(c, g, e)
BY DEF InWork, Works, Event

(* Two functions on the groups that hold the same events are the same. *)
LEMMA SameWork ==
  ASSUME NEW S, \A g \in Groups : \A e : e \in S[g] <=> \E c \in Consumers : Works(c, g, e)',
         S = [g \in Groups |-> S[g]]
  PROVE  InWork' = S
<1>1. \A g \in Groups : InWork'[g] = {stream'[con'[c].id] : c \in {k \in Consumers : GroupOf[k] = g /\ At(k, "effected")'}}
  BY DEF InWork
<1>2. \A g \in Groups : \A e : e \in InWork'[g] <=> \E c \in Consumers : Works(c, g, e)'
  BY <1>1 DEF Works, Event
<1>3. \A g \in Groups : InWork'[g] = S[g] BY <1>2
<1>4. InWork' = [g \in Groups |-> InWork'[g]] BY DEF InWork
<1> QED BY <1>3, <1>4

(* What a step of a consumer does to the work of its group. *)
LEMMA WorkStep ==
  ASSUME TypeOK, EntriesKnown, HandlersApart, NEW c \in Consumers,
         ReadNew(c) \/ Reclaim(c) \/ Process(c) \/ Crash(c)
  PROVE  /\ ~ At(c, "effected") /\ ~ At(c, "effected")' => InWork' = InWork
         /\ ~ At(c, "effected") /\ At(c, "effected")' =>
              InWork' = [InWork EXCEPT ![GroupOf[c]] = @ \cup {Event(c)'}]
         /\ At(c, "effected") /\ ~ At(c, "effected")' =>
              InWork' = [InWork EXCEPT ![GroupOf[c]] = @ \ {Event(c)}]
<1>0. [Next]_vars BY DEF Next
<1>1. \A d \in Consumers : d # c => \A g, e : Works(d, g, e)' <=> Works(d, g, e)
  BY <1>0, OthersStay, InHandKept DEF Works, InHand
<1>2. \A g \in Groups : \A e : e \in InWork[g] <=> \E d \in Consumers : Works(d, g, e)
  BY InWorkIs
<1>3. DOMAIN InWork = Groups /\ InWork = [g \in Groups |-> InWork[g]] /\ GroupOf[c] \in Groups
  BY PlaneAssumption DEF InWork
<1>4. CASE ~ At(c, "effected") /\ ~ At(c, "effected")'
  BY <1>1, <1>2, <1>3, <1>4, SameWork DEF Works
<1>5. CASE ~ At(c, "effected") /\ At(c, "effected")'
  <2> DEFINE S == [InWork EXCEPT ![GroupOf[c]] = @ \cup {Event(c)'}]
  <2>1. \A g \in Groups : \A e : Works(c, g, e)' <=> g = GroupOf[c] /\ e = Event(c)'
    BY <1>5 DEF Works
  <2>2. \A g \in Groups : \A e : e \in S[g] <=> e \in InWork[g] \/ (g = GroupOf[c] /\ e = Event(c)')
    BY <1>3
  <2>3. S = [g \in Groups |-> S[g]] BY <1>3
  <2> HIDE DEF S
  <2>4. \A g \in Groups : \A e : e \in S[g] <=> \E d \in Consumers : Works(d, g, e)'
    BY <1>1, <1>2, <1>5, <2>1, <2>2 DEF Works
  <2>5. InWork' = S BY <2>3, <2>4, SameWork
  <2> QED BY <2>5, <1>5 DEF S
<1>6. CASE At(c, "effected") /\ ~ At(c, "effected")'
  <2> DEFINE S == [InWork EXCEPT ![GroupOf[c]] = @ \ {Event(c)}]
  <2>1. \A g \in Groups : \A e : Works(c, g, e) <=> g = GroupOf[c] /\ e = Event(c)
    BY <1>6 DEF Works
  <2>2. \A g \in Groups : \A e : e \in S[g] <=> e \in InWork[g] /\ ~ (g = GroupOf[c] /\ e = Event(c))
    BY <1>3
  <2>3. S = [g \in Groups |-> S[g]] BY <1>3
  <2> HIDE DEF S
  <2>4. \A g \in Groups : \A e : \A d \in Consumers :
          Works(c, g, e) /\ Works(d, g, e) => d = c
    BY DEF Works, HandlersApart, OneHandler, InHand
  <2>5. \A g \in Groups : \A e : e \in S[g] <=> \E d \in Consumers : Works(d, g, e)'
    BY <1>1, <1>2, <1>6, <2>1, <2>2, <2>4 DEF Works
  <2>6. InWork' = S BY <2>3, <2>5, SameWork
  <2> QED BY <2>6, <1>6 DEF S
<1> QED BY <1>4, <1>5, <1>6

(* A step that moves no consumer leaves the work as it was. *)
LEMMA WorkUnmoved ==
  ASSUME TypeOK, EntriesKnown, [Next]_vars, UNCHANGED con PROVE InWork' = InWork
<1>1. \A d \in Consumers : \A g, e : Works(d, g, e)' <=> Works(d, g, e)
  BY InHandKept DEF Works, InHand
<1>2. \A g \in Groups : \A e : e \in InWork[g] <=> \E d \in Consumers : Works(d, g, e)'
  BY <1>1, InWorkIs
<1>3. InWork = [g \in Groups |-> InWork[g]] BY DEF InWork
<1> QED BY <1>2, <1>3, SameWork

(* The initial states of the plane are initial states of EventDelivery. *)
LEMMA DeliveryInits == Init => Delivery!DeliveryInit
<1> SUFFICES ASSUME Init PROVE Delivery!DeliveryInit OBVIOUS
<1>1. \A c \in Consumers : ~ At(c, "effected") BY DEF Init, At, Waiting
<1>2. InWork = [g \in Groups |-> {}]  BY <1>1 DEF InWork
<1> QED BY <1>2 DEF Init, Emitted, Delivery!DeliveryInit

(* Every step of the plane is a step of EventDelivery or leaves what a     *)
(* group is promised unchanged.                                            *)
LEMMA DeliveryStep ==
  ASSUME Inv, [Next]_vars
  PROVE  [Delivery!DeliveryNext]_(Delivery!deliveryVars)
<1> USE DEF Inv
<1>0. /\ outbox \in [Events -> {"none", "unpublished", "published"}]
      /\ con \in [Consumers -> ConsumerRecords] /\ \A c \in Consumers : con[c] \in ConsumerRecords
  BY DEF TypeOK, ConsumerRecords
<1>1. ASSUME UNCHANGED <<Emitted, InWork, dedupe, effects>>
      PROVE  [Delivery!DeliveryNext]_(Delivery!deliveryVars)
  BY <1>1 DEF Delivery!deliveryVars
<1>2. ASSUME NEW e \in Events, Emit(e) PROVE Delivery!DeliveryNext
  BY <1>0, <1>2, WorkUnmoved DEF Emit, Emitted, Delivery!CommitEvent, history,
     Delivery!DeliveryNext
<1>3. ASSUME NEW e \in Events, Replay(e)
      PROVE  [Delivery!DeliveryNext]_(Delivery!deliveryVars)
  BY <1>1, <1>3, WorkUnmoved DEF Replay, Emitted, history
<1>4. ASSUME NEW e \in Events, NEW g \in Groups, Prune(g, e) PROVE Delivery!DeliveryNext
  BY <1>4, WorkUnmoved DEF Prune, Delivery!Expire, queue, history, Emitted,
     Delivery!DeliveryNext
<1>5. ASSUME NEW p \in Publishers, Publish(p) \/ LosePublisher(p)
      PROVE  [Delivery!DeliveryNext]_(Delivery!deliveryVars)
  BY <1>1, <1>5, WorkUnmoved DEF Publish, ClaimRows, Relay, MarkPublished, LosePublisher,
     EventsKnown, Emitted, history
<1>6. ASSUME NEW c \in Consumers, ReadNew(c) \/ Reclaim(c) \/ Process(c) \/ Crash(c)
      PROVE  [Delivery!DeliveryNext]_(Delivery!deliveryVars)
  <2>1. Emitted' = Emitted BY <1>6, OthersStay DEF Emitted
  <2>2. GroupOf[c] \in Groups BY PlaneAssumption
  <2>3. ASSUME InHand(c) PROVE Event(c) \in Events /\ Event(c) \in Emitted
    BY <2>3 DEF InHand, At, Event, EntriesKnown, EventsKnown, Emitted
  <2>4. CASE Effect(c)
    <3>1. At(c, "handling") /\ ~ At(c, "effected") /\ InHand(c) BY <2>4 DEF Effect, At, InHand
    <3>2. con'[c].at = "effected" /\ con'[c].id = con[c].id
      BY <2>4, <1>0 DEF Effect, Go, ConsumerRecords
    <3>3. At(c, "effected")' /\ Event(c)' = Event(c)
      BY <3>2, <2>4 DEF At, Event, Effect, queue
    <3>4. InWork' = [InWork EXCEPT ![GroupOf[c]] = @ \cup {Event(c)}]
      BY <3>1, <3>3, <1>6, WorkStep
    <3>5. Event(c) \notin InWork[GroupOf[c]]
      BY <2>2, <3>1, InWorkIs DEF Works, HandlersApart, OneHandler, InHand
    <3>6. Event(c) \notin dedupe[GroupOf[c]] BY <3>1 DEF HandlersApart
    <3>7. Delivery!Work(GroupOf[c], Event(c))
      BY <2>1, <2>3, <2>4, <3>1, <3>4, <3>5, <3>6 DEF Delivery!Work, Effect
    <3> QED BY <3>7, <3>1, <2>2, <2>3 DEF Delivery!DeliveryNext
  <2>5. ASSUME At(c, "effected"), ~ At(c, "effected")'
        PROVE  /\ Event(c) \in InWork[GroupOf[c]] /\ Event(c) \in Events
               /\ InWork' = [InWork EXCEPT ![GroupOf[c]] = @ \ {Event(c)}]
    BY <1>6, <2>2, <2>3, <2>5, InWorkIs, WorkStep DEF Works, InHand
  <2>6. CASE Commit(c)
    BY <1>0, <2>1, <2>2, <2>5, <2>6 DEF Commit, Go, At, ConsumerRecords, Delivery!Record,
       Delivery!DeliveryNext
  <2>7. CASE ~ Effect(c) /\ ~ Commit(c)
    <3>1. ~ At(c, "effected")' 
      BY <2>7, <1>6, MoverStep DEF InHand, At
    <3>2. UNCHANGED <<dedupe, effects>>
      BY <2>7, <1>6 DEF ReadNew, Reclaim, Process, Crash, TakeNext, Raise, CountFailure, Bury,
           Ack, history
    <3>3. CASE At(c, "effected")
      BY <2>1, <2>2, <2>5, <3>1, <3>2, <3>3 DEF Delivery!Forfeit, Delivery!DeliveryNext
    <3>4. CASE ~ At(c, "effected")  BY <1>1, <1>6, <2>1, <3>1, <3>2, <3>4, WorkStep
    <3> QED BY <3>3, <3>4
  <2> QED BY <2>4, <2>6, <2>7
<1>7. CASE UNCHANGED vars
  BY <1>1, <1>7 DEF vars, Emitted, InWork, At, history
<1> QED BY <1>2, <1>3, <1>4, <1>5, <1>6, <1>7 DEF Next

(* The plane implements EventDelivery: publishers, streams, reclaiming,    *)
(* retries, dead letters and their replay show a group only the work its   *)
(* handlers commit (_dedupe_and_handle).                                   *)
THEOREM DeliveryImplemented == Spec => ImplementsDelivery
BY DeliveryInits, DeliveryStep, InvAlways, PTL DEF Spec, ImplementsDelivery, Delivery!DeliverySpec

-----------------------------------------------------------------------------
(* Repetitions are accounted for                                           *)

(* Work that is neither recorded nor open is owed to a record that did not *)
(* commit or was pruned.                                                   *)
Accounted(g, e) ==
  /\ effects[g][e] <= wasted[g][e] + 1 + prunes
  /\ e \notin dedupe[g] /\ e \notin InWork[g] => effects[g][e] <= wasted[g][e] + prunes

AllAccounted == \A g \in Groups, e \in Events : Accounted(g, e)

(* Every step keeps the account of repeated handling (_dedupe_and_handle). *)
LEMMA AccountedStep ==
  ASSUME Inv, AllAccounted, [Next]_vars
  PROVE  AllAccounted'
<1> USE DEF Inv
<1>0. /\ effects \in [Groups -> [Events -> Nat]] /\ wasted \in [Groups -> [Events -> Nat]]
      /\ prunes \in Nat /\ con \in [Consumers -> ConsumerRecords]
      /\ dedupe \in [Groups -> SUBSET Events]
      /\ \A c \in Consumers : con[c] \in ConsumerRecords
  BY PlaneAssumption DEF TypeOK, ConsumerRecords
<1>1. ASSUME UNCHANGED <<InWork, dedupe, effects, wasted, prunes>> PROVE AllAccounted'
  BY <1>1 DEF AllAccounted, Accounted
<1>2. ASSUME NEW e \in Events, NEW g \in Groups, Prune(g, e) PROVE AllAccounted'
  BY <1>0, <1>2, WorkUnmoved DEF Prune, history, AllAccounted, Accounted
<1>3. ASSUME UNCHANGED <<con, dedupe, effects, wasted, prunes>> PROVE AllAccounted'
  BY <1>1, <1>3, WorkUnmoved
<1>4. ASSUME NEW c \in Consumers, ReadNew(c) \/ Reclaim(c) \/ Process(c) \/ Crash(c)
      PROVE  AllAccounted'
  <2> DEFINE g == GroupOf[c]  x == Event(c)
  <2>0. g \in Groups BY PlaneAssumption
  <2>1. prunes' = prunes
    BY <1>4 DEF ReadNew, Reclaim, Process, Crash, TakeNext, Effect, Commit, Raise,
         CountFailure, Bury, Ack, bounds
  <2>2. DOMAIN InWork = Groups BY DEF InWork
  <2>3. CASE Effect(c)
    <3>1. InHand(c) /\ ~ At(c, "effected") BY <2>3 DEF Effect, At, InHand
    <3>2. con'[c].at = "effected" /\ con'[c].id = con[c].id
      BY <2>3, <1>0 DEF Effect, Go, ConsumerRecords
    <3>3. At(c, "effected")' /\ Event(c)' = x BY <3>2, <2>3 DEF At, Event, Effect, queue
    <3>4. InWork' = [InWork EXCEPT ![g] = @ \cup {x}] BY <3>1, <3>3, <1>4, WorkStep
    <3>5. x \notin InWork[g]
      BY <2>0, <3>1, InWorkIs DEF Works, HandlersApart, OneHandler, InHand
    <3>6. x \notin dedupe[g] BY <3>1 DEF HandlersApart
    <3>7. UNCHANGED <<dedupe, wasted>> /\ effects' = [effects EXCEPT ![g][x] = @ + 1]
      BY <2>3 DEF Effect
    <3>8. ASSUME NEW h \in Groups, NEW e \in Events PROVE Accounted(h, e)'
      <4>1. effects[h][e] \in Nat /\ wasted[h][e] \in Nat BY <1>0
      <4>2. Accounted(h, e) BY DEF AllAccounted
      <4>3. CASE h = g /\ e = x
        <5>1. effects[h][e] <= wasted[h][e] + prunes BY <4>2, <4>3, <3>5, <3>6 DEF Accounted
        <5>2. effects'[h][e] = effects[h][e] + 1 BY <4>3, <3>7, <1>0
        <5>3. e \in InWork'[h] BY <4>3, <3>4, <2>0, <2>2
        <5> QED BY <5>1, <5>2, <5>3, <4>1, <2>1, <3>7, <1>0 DEF Accounted
      <4>4. CASE ~ (h = g /\ e = x)  BY <1>0, <2>1, <2>2, <3>4, <3>7, <4>2, <4>4 DEF Accounted
      <4> QED BY <4>3, <4>4
    <3> QED BY <3>8 DEF AllAccounted
  <2>4. CASE ~ Effect(c)
    <3>1. effects' = effects
      BY <2>4, <1>4 DEF ReadNew, Reclaim, Process, Crash, TakeNext, Commit, Raise,
           CountFailure, Bury, Ack, history
    <3>2. ~ At(c, "effected")' BY <2>4, <1>4, MoverStep DEF InHand, At
    <3>3. CASE At(c, "effected")
      <4>1. InWork' = [InWork EXCEPT ![g] = @ \ {x}] BY <3>2, <3>3, <1>4, WorkStep
      <4>2. \/ /\ dedupe' = [dedupe EXCEPT ![g] = @ \cup {x}] /\ wasted' = wasted
            \/ /\ dedupe' = dedupe /\ wasted' = [wasted EXCEPT ![g][x] = @ + 1]
        BY <3>3, <2>4, <1>4
        DEF ReadNew, Reclaim, Process, Crash, TakeNext, Commit, Raise, CountFailure, Bury,
            Ack, Forget, At
      <4>3. ASSUME NEW h \in Groups, NEW e \in Events PROVE Accounted(h, e)'
        BY <1>0, <2>1, <2>2, <3>1, <4>1, <4>2 DEF AllAccounted, Accounted
      <4> QED BY <4>3 DEF AllAccounted
    <3>4. CASE ~ At(c, "effected")
      BY <1>1, <1>4, <2>1, <2>4, <3>1, <3>2, <3>4, WorkStep DEF ReadNew, Reclaim, Process,
         Crash, TakeNext, Commit, Raise, CountFailure, Bury, Ack, Forget, history
    <3> QED BY <3>3, <3>4
  <2> QED BY <2>3, <2>4
<1>5. ASSUME NEW e \in Events, Emit(e) \/ Replay(e) PROVE AllAccounted'
  BY <1>3, <1>5 DEF Emit, Replay, history, bounds
<1>6. ASSUME NEW p \in Publishers, Publish(p) \/ LosePublisher(p) PROVE AllAccounted'
  BY <1>3, <1>6
  DEF Publish, ClaimRows, Relay, MarkPublished, LosePublisher, history, bounds
<1>7. CASE UNCHANGED vars BY <1>7, <1>3 DEF vars, history, bounds
<1> QED BY <1>2, <1>4, <1>5, <1>6, <1>7 DEF Next

(* Republication, reclaiming and replay never repeat a handler's work by   *)
(* themselves: each repetition is owed to an attempt whose record did not  *)
(* commit, or to a pruned record (_dedupe_and_handle, prune_dedupe).       *)
THEOREM RepeatsAlwaysAccounted == Spec => []RepeatsAccounted
<1>1. Init => AllAccounted BY DEF Init, AllAccounted, Accounted
<1>2. AllAccounted => RepeatsAccounted BY DEF AllAccounted, Accounted, RepeatsAccounted
<1> QED BY <1>1, <1>2, AccountedStep, InvAlways, PTL DEF Spec

-----------------------------------------------------------------------------
(* No event is lost to a group                                             *)

(* An entry is due to a group until it is acknowledged. *)
DueEntry(g, i) == i > last[g] \/ i \in pel[g]

(* The group settled the event, or can still come by it through the        *)
(* dead-letter queue or an entry later than k.                             *)
CarriedAfter(g, e, k) ==
  \/ \E i \in 1..Len(stream) : i > k /\ stream[i] = e /\ DueEntry(g, i)
  \/ dlq[e] > 0
  \/ e \in settled[g]

Carriage ==
  /\ \A e \in Events, g \in Groups : outbox[e] = "published" => CarriedAfter(g, e, 0)
  /\ \A p \in Publishers, e \in Events, g \in Groups :
       e \in pub[p].rows \ pub[p].left => CarriedAfter(g, e, 0)
  /\ \A g \in Groups : dedupe[g] \subseteq settled[g]
  /\ \A c \in Consumers :
       /\ At(c, "ack") => Event(c) \in settled[GroupOf[c]]
       /\ At(c, "buried") => CarriedAfter(GroupOf[c], Event(c), con[c].id)

(* A new entry carries its event to every group. *)
LEMMA NewEntryDue ==
  ASSUME Inv, NEW e \in Events, stream' = Append(stream, e), UNCHANGED last,
         NEW g \in Groups, NEW k \in 0..Len(stream)
  PROVE  CarriedAfter(g, e, k)'
<1>0. last[g] \in Nat /\ last[g] <= Len(stream) BY PlaneAssumption DEF Inv, TypeOK, EntriesKnown
<1>1. /\ Len(stream) \in Nat /\ Len(stream') = Len(stream) + 1 /\ stream'[Len(stream) + 1] = e
  BY Added DEF Inv
<1> DEFINE n == Len(stream) + 1
<1>2. n \in 1..Len(stream') /\ n > k /\ n > last'[g] BY <1>0, <1>1
<1>3. stream'[n] = e /\ (n > last'[g] \/ n \in pel'[g]) BY <1>1, <1>2
<1> HIDE DEF n
<1>4. \E i \in 1..Len(stream') : i > k /\ stream'[i] = e /\ (i > last'[g] \/ i \in pel'[g])
  BY <1>2, <1>3
<1> QED BY <1>4 DEF CarriedAfter, DueEntry

(* A step that keeps due entries, dead letters and settled events carries  *)
(* what was carried.                                                       *)
LEMMA CarriedAlong ==
  ASSUME Inv, [Next]_vars, NEW g \in Groups, NEW e \in Events, NEW k \in Nat,
         CarriedAfter(g, e, k), Len(stream') \in Nat, Len(stream) <= Len(stream'),
         dlq[e] > 0 => dlq'[e] > 0, settled[g] \subseteq settled'[g],
         \A i \in 1..Len(stream) : DueEntry(g, i) => DueEntry(g, i)'
  PROVE  CarriedAfter(g, e, k)'
<1>1. \A i \in 1..Len(stream) : stream'[i] = stream[i] BY StreamGrows DEF Inv
<1>2. Len(stream) \in Nat BY DEF Inv, TypeOK
<1>3. CASE \E i \in 1..Len(stream) : i > k /\ stream[i] = e /\ DueEntry(g, i)
  BY <1>1, <1>2, <1>3 DEF CarriedAfter
<1> QED BY <1>3 DEF CarriedAfter

(* What is carried stays carried: an entry is acknowledged only when its   *)
(* event is settled or dead-lettered, and a dead letter is removed only    *)
(* after its replay was added (_process, replay_dlq).                      *)
LEMMA CarriedKept ==
  ASSUME Inv, Carriage, [Next]_vars, NEW g \in Groups, NEW e \in Events,
         NEW k \in 0..Len(stream), CarriedAfter(g, e, k)
  PROVE  CarriedAfter(g, e, k)'
<1> USE DEF Inv
<1>0. /\ Len(stream) \in Nat /\ con \in [Consumers -> ConsumerRecords] /\ k \in Nat
      /\ last \in [Groups -> Nat] /\ pel \in [Groups -> SUBSET Ids]
      /\ dlq \in [Events -> Nat] /\ settled \in [Groups -> SUBSET Events]
      /\ \A c \in Consumers : GroupOf[c] \in Groups /\ con[c] \in ConsumerRecords
  BY PlaneAssumption DEF TypeOK, ConsumerRecords
<1>1. ASSUME UNCHANGED <<last, pel, dlq, settled>>, Len(stream') \in Nat,
             Len(stream) <= Len(stream')
      PROVE  CarriedAfter(g, e, k)'
  BY <1>0, <1>1, CarriedAlong DEF DueEntry
<1>2. ASSUME NEW x \in Events, Emit(x) \/ \E h \in Groups : Prune(h, x)
      PROVE  CarriedAfter(g, e, k)'
  BY <1>0, <1>1, <1>2 DEF Emit, Prune, queue, history
<1>3. ASSUME NEW x \in Events, Replay(x) PROVE CarriedAfter(g, e, k)'
  <2>1. stream' = Append(stream, x) /\ UNCHANGED <<last, pel, settled>>
    BY <1>3 DEF Replay, history
  <2>2. Len(stream') = Len(stream) + 1 BY <2>1, Added
  <2>3. CASE x = e BY <2>1, <2>3, NewEntryDue
  <2>4. CASE x # e  BY <1>0, <1>3, <2>1, <2>2, <2>4, CarriedAlong DEF Replay, DueEntry
  <2> QED BY <2>3, <2>4
<1>4. ASSUME NEW p \in Publishers, Publish(p) \/ LosePublisher(p)
      PROVE  CarriedAfter(g, e, k)'
  <2>1. CASE Relay(p)  BY <1>0, <1>1, <2>1, Added DEF Relay, TypeOK, history
  <2> QED BY <1>0, <1>1, <1>4, <2>1
      DEF Publish, ClaimRows, MarkPublished, LosePublisher, history
<1>5. ASSUME NEW c \in Consumers, ReadNew(c) \/ Reclaim(c) \/ Process(c) \/ Crash(c)
      PROVE  CarriedAfter(g, e, k)'
  <2>0. stream' = stream BY <1>5, OthersStay
  <2>1. CASE ReadNew(c)  BY <1>0, <2>0, <2>1, CarriedAlong DEF ReadNew, history, DueEntry
  <2>2. CASE Ack(c)
    <3>1. /\ pel' = [pel EXCEPT ![GroupOf[c]] = @ \ {con[c].id}]
          /\ UNCHANGED <<last, dlq, settled>>
      BY <2>2 DEF Ack, history
    <3>2. \A i \in 1..Len(stream) : i # con[c].id \/ g # GroupOf[c] =>
            (DueEntry(g, i) => DueEntry(g, i)')
      BY <3>1, <1>0 DEF DueEntry
    <3>3. CASE dlq[e] > 0 \/ e \in settled[g] BY <3>1, <3>3 DEF CarriedAfter
    <3>4. ASSUME NEW i \in 1..Len(stream), i > k, stream[i] = e, DueEntry(g, i)
          PROVE  CarriedAfter(g, e, k)'
      <4>1. CASE i # con[c].id \/ g # GroupOf[c]  BY <2>0, <3>2, <3>4, <4>1 DEF CarriedAfter
      <4>2. CASE i = con[c].id /\ g = GroupOf[c]
        <5>1. Event(c) = e BY <4>2, <3>4 DEF Event
        <5>2. CASE At(c, "ack")  BY <3>1, <4>2, <5>1, <5>2 DEF Carriage, CarriedAfter
        <5>3. CASE At(c, "buried")
          <6>1. CarriedAfter(g, e, i) BY <5>1, <5>3, <4>2 DEF Carriage
          <6>2. CASE dlq[e] > 0 \/ e \in settled[g] BY <3>1, <6>2 DEF CarriedAfter
          <6>3. ASSUME NEW j \in 1..Len(stream), j > i, stream[j] = e, DueEntry(g, j)
                PROVE  CarriedAfter(g, e, k)'
            <7>1. j # con[c].id /\ j > k BY <6>3, <4>2, <3>4, <1>0
            <7>2. DueEntry(g, j)' BY <3>2, <6>3, <7>1
            <7> QED BY <7>1, <7>2, <6>3, <2>0 DEF CarriedAfter
          <6> QED BY <6>1, <6>2, <6>3 DEF CarriedAfter
        <5> QED BY <2>2, <5>2, <5>3 DEF Ack
      <4> QED BY <4>1, <4>2
    <3> QED BY <3>3, <3>4 DEF CarriedAfter
  <2>3. CASE Bury(c)  BY <1>0, <2>0, <2>3, CarriedAlong DEF Bury, history, DueEntry
  <2>4. CASE Commit(c)  BY SMTT(30), <1>0, <2>0, <2>4, CarriedAlong DEF Commit, DueEntry
  <2>5. CASE Reclaim(c) \/ TakeNext(c) \/ Effect(c) \/ Raise(c) \/ CountFailure(c) \/ Crash(c)
    BY <1>0, <1>1, <2>0, <2>5 DEF Reclaim, TakeNext, Effect, Raise, CountFailure, Crash,
       history
  <2> QED BY <1>5, <2>1, <2>2, <2>3, <2>4, <2>5 DEF Process
<1>6. CASE UNCHANGED vars BY <1>0, <1>1, <1>6 DEF vars, history
<1> QED BY <1>2, <1>3, <1>4, <1>5, <1>6 DEF Next

(* Every step keeps what was marked, added, recorded or acknowledged       *)
(* within reach of its groups.                                             *)
LEMMA CarriageStep ==
  ASSUME Inv, Carriage, [Next]_vars
  PROVE  Carriage'
<1> USE DEF Inv
<1>0. /\ Len(stream) \in Nat /\ con \in [Consumers -> ConsumerRecords]
      /\ outbox \in [Events -> {"none", "unpublished", "published"}]
      /\ pub \in [Publishers -> [rows : SUBSET Events, left : SUBSET Events]]
      /\ settled \in [Groups -> SUBSET Events] /\ dedupe \in [Groups -> SUBSET Events]
      /\ dlq \in [Events -> Nat]
      /\ \A c \in Consumers : GroupOf[c] \in Groups /\ con[c] \in ConsumerRecords
  BY PlaneAssumption DEF TypeOK, ConsumerRecords
<1>1. \A g \in Groups, e \in Events, k \in 0..Len(stream) :
        CarriedAfter(g, e, k) => CarriedAfter(g, e, k)'
  BY CarriedKept
<1>2. \A g \in Groups, e \in Events : CarriedAfter(g, e, 0) => CarriedAfter(g, e, 0)'
  BY <1>0, <1>1
<1>3. ASSUME NEW g \in Groups
      PROVE  settled[g] \subseteq settled'[g] /\ dedupe'[g] \subseteq settled'[g]
  <2>1. dedupe[g] \subseteq settled[g] BY DEF Carriage
  <2>2. CASE \E c \in Consumers : Commit(c) BY <1>0, <2>1, <2>2 DEF Commit
  <2>3. CASE UNCHANGED <<dedupe, settled>> BY <2>1, <2>3
  <2>4. CASE \E e \in Events, h \in Groups : Prune(h, e)
    BY <1>0, <2>1, <2>4 DEF Prune, history
  <2> QED BY <2>2, <2>3, <2>4
      DEF Next, Emit, Replay, Publish, ClaimRows, Relay, MarkPublished, LosePublisher, ReadNew,
          Reclaim, Process, Crash, TakeNext, Effect, Raise, CountFailure, Bury, Ack, history, vars
<1>4. ASSUME NEW e \in Events, NEW g \in Groups, outbox'[e] = "published"
      PROVE  CarriedAfter(g, e, 0)'
  BY <1>0, <1>2, <1>4, OthersStay DEF Carriage, Next, Emit, Replay, Prune, Publish, ClaimRows,
     Relay, LosePublisher, queue, vars, MarkPublished
<1>5. ASSUME NEW p \in Publishers, NEW e \in Events, NEW g \in Groups,
             e \in pub'[p].rows \ pub'[p].left
      PROVE  CarriedAfter(g, e, 0)'
  <2>1. CASE e \in pub[p].rows \ pub[p].left BY <1>2, <2>1 DEF Carriage
  <2>2. CASE e \notin pub[p].rows \ pub[p].left
    <3>1. PICK q \in Publishers : Relay(q)
      BY <1>0, <1>5, <2>2, OthersStay DEF ClaimRows, MarkPublished, LosePublisher, Next,
         Publish, Emit, Replay, Prune, queue, vars
    <3>2. PICK x \in pub[q].left : /\ stream' = Append(stream, x)
                                   /\ pub' = [pub EXCEPT ![q].left = @ \ {x}]
      BY <3>1 DEF Relay
    <3>3. x = e BY <3>2, <1>5, <2>2, <1>0
    <3> QED BY <3>1, <3>2, <3>3, <1>0, NewEntryDue DEF Relay
  <2> QED BY <2>1, <2>2
<1>6. ASSUME NEW c \in Consumers, con'[c] = con[c]
      PROVE  /\ At(c, "ack")' => (Event(c) \in settled[GroupOf[c]])'
             /\ At(c, "buried")' => CarriedAfter(GroupOf[c], Event(c), con[c].id)'
  <2>1. CASE ~ (At(c, "idle") \/ At(c, "next"))
    <3>1. con[c].id \in 1..Len(stream) BY <2>1 DEF EntriesKnown
    <3>2. Event(c)' = Event(c) /\ Event(c) \in Events
      BY <3>1, <1>6, StreamGrows DEF Event, EventsKnown, Emitted
    <3>3. At(c, "ack") => Event(c) \in settled'[GroupOf[c]]
      BY <1>0, <1>3 DEF Carriage
    <3>4. At(c, "buried") => CarriedAfter(GroupOf[c], Event(c), con[c].id)
      BY DEF Carriage
    <3>5. At(c, "buried") => CarriedAfter(GroupOf[c], Event(c), con[c].id)'
      <4> DEFINE e == Event(c)  k == con[c].id
      <4>1. e \in Events /\ k \in 0..Len(stream) BY <3>1, <3>2
      <4> HIDE DEF e, k
      <4>2. At(c, "buried") => CarriedAfter(GroupOf[c], e, k) BY <3>4 DEF e, k
      <4>3. e' = e /\ k' = k BY <3>2, <1>6 DEF e, k
      <4>4. CarriedAfter(GroupOf[c], e, k) => CarriedAfter(GroupOf[c], e, k)'
        BY <1>0, <1>1, <4>1, <4>3 DEF CarriedAfter
      <4> QED BY <4>2, <4>4 DEF e, k
    <3> QED BY <3>2, <3>3, <3>5, <1>6 DEF At
  <2> QED BY <2>1, <1>6 DEF At
<1>7. ASSUME NEW c \in Consumers, ReadNew(c) \/ Reclaim(c) \/ Process(c) \/ Crash(c)
      PROVE  /\ At(c, "ack")' => (Event(c) \in settled[GroupOf[c]])'
             /\ At(c, "buried")' => CarriedAfter(GroupOf[c], Event(c), con[c].id)'
  <2>0. stream' = stream BY <1>7, OthersStay
  <2>1. CASE TakeNext(c)  BY <1>0, <1>3, <2>0, <2>1 DEF TakeNext, Begin, At, Event
  <2>2. CASE Commit(c)  BY <1>0, <2>0, <2>2 DEF Commit, Go, ConsumerRecords, At, Event
  <2>3. CASE Bury(c)
    <3>1. con'[c].at = "buried" /\ con'[c].id = con[c].id
      BY <2>3, <1>0 DEF Bury, Go, ConsumerRecords
    <3>2. Event(c) \in Events BY <2>3 DEF Bury, At, Event, EntriesKnown, EventsKnown, Emitted
    <3>3. dlq'[Event(c)] > 0 BY <2>3, <3>2, <1>0 DEF Bury
    <3>4. Event(c)' = Event(c) BY <3>1, <2>0 DEF Event
    <3> QED BY <3>1, <3>3, <3>4 DEF At, CarriedAfter
  <2>4. CASE Effect(c) \/ Raise(c)  BY <1>0, <2>4 DEF Effect, Raise, Go, ConsumerRecords, At
  <2>5. CASE CountFailure(c) \/ Ack(c)
    <3>1. CASE Go(c, "bury")  BY <1>0, <3>1 DEF Go, ConsumerRecords, At
    <3>2. CASE Done(c)  BY <1>0, <3>2 DEF Done, Waiting, ConsumerRecords, At
    <3> QED BY <3>1, <3>2, <2>5 DEF CountFailure, Ack
  <2>6. CASE ReadNew(c) \/ Reclaim(c) \/ Crash(c)
    BY <1>0, <2>6 DEF ReadNew, Reclaim, Crash, Waiting, At
  <2> QED BY <1>7, <2>1, <2>2, <2>3, <2>4, <2>5, <2>6 DEF Process
<1>8. ASSUME NEW c \in Consumers
      PROVE  /\ At(c, "ack")' => (Event(c) \in settled[GroupOf[c]])'
             /\ At(c, "buried")' => CarriedAfter(GroupOf[c], Event(c), con[c].id)'
  BY <1>6, <1>7, OthersStay DEF Next, Emit, Replay, Prune, Publish, ClaimRows, Relay,
     MarkPublished, LosePublisher, vars
<1> QED BY <1>3, <1>4, <1>5, <1>8 DEF Carriage

(* An emitted event is never lost to a group: until the group has settled  *)
(* it, it is in the outbox, in the stream and due, or dead-lettered        *)
(* (publish_batch, _process, replay_dlq).                                  *)
THEOREM NothingIsLost == Spec => []NothingLost
<1>1. Init => Carriage  BY DEF Init, Waiting, Carriage, At
<1>2. Inv /\ Carriage => NothingLost
  <2> SUFFICES ASSUME Inv, Carriage, NEW e \in Events, NEW g \in Groups,
                      outbox[e] \notin {"none", "unpublished"}
               PROVE  Due(g, e) \/ dlq[e] > 0 \/ e \in settled[g]
    BY DEF NothingLost
  <2>1. outbox[e] = "published" /\ DOMAIN stream = 1..Len(stream) BY DEF Inv, TypeOK
  <2> QED BY <2>1 DEF Carriage, CarriedAfter, DueEntry, Due
<1> QED BY <1>1, <1>2, CarriageStep, InvAlways, PTL DEF Spec

-----------------------------------------------------------------------------
(* Dead letters                                                            *)

(* The consumers of a group whose handler has just raised on an entry, the *)
(* failure not counted yet.  A slow consumer's entry can be reclaimed, so  *)
(* there may be several.                                                   *)
Failing(g, i) == {c \in Consumers : GroupOf[c] = g /\ con[c].at = "raise" /\ con[c].id = i}

(* Every failure counted, and every one about to be, is the handler's.     *)
FailuresCounted ==
  \A g \in Groups, i \in Ids :
    /\ IsFiniteSet(Failing(g, i))
    /\ retries[g][i] + Cardinality(Failing(g, i)) <= raised[g][i]

(* What a step does to the failing consumers, the count and the failures.  *)
Charged(F, F1, r, r1, n, n1) ==
  \/ F1 \subseteq F /\ r1 <= r /\ n <= n1
  \/ \E c : F1 \subseteq F \cup {c} /\ r1 <= r /\ n + 1 <= n1
  \/ \E c \in F : F1 \subseteq F \ {c} /\ r1 = r + 1 /\ n <= n1

(* Such a step counts no failure twice. *)
LEMMA Charge ==
  ASSUME NEW F, NEW F1, IsFiniteSet(F), NEW r \in Nat, NEW r1 \in Nat, NEW n \in Nat,
         NEW n1 \in Nat, r + Cardinality(F) <= n, Charged(F, F1, r, r1, n, n1)
  PROVE  IsFiniteSet(F1) /\ r1 + Cardinality(F1) <= n1
<1>0. Cardinality(F) \in Nat BY FS_CardinalityType
<1>1. ASSUME NEW S, IsFiniteSet(S), F1 \subseteq S
      PROVE  /\ IsFiniteSet(F1) /\ Cardinality(F1) \in Nat
             /\ Cardinality(F1) <= Cardinality(S) /\ Cardinality(S) \in Nat
  BY <1>1, FS_Subset, FS_CardinalityType
<1>2. CASE F1 \subseteq F /\ r1 <= r /\ n <= n1 BY <1>0, <1>1, <1>2
<1>3. ASSUME NEW c, F1 \subseteq F \cup {c}, r1 <= r, n + 1 <= n1
      PROVE  IsFiniteSet(F1) /\ r1 + Cardinality(F1) <= n1
  <2>1. /\ IsFiniteSet(F \cup {c})
        /\ Cardinality(F \cup {c}) = IF c \in F THEN Cardinality(F) ELSE Cardinality(F) + 1
    BY FS_AddElement
  <2>2. /\ IsFiniteSet(F1) /\ Cardinality(F1) \in Nat
        /\ Cardinality(F1) <= Cardinality(F \cup {c}) /\ Cardinality(F \cup {c}) \in Nat
    BY <1>1, <1>3, <2>1
  <2>3. Cardinality(F1) <= Cardinality(F) + 1 BY <1>0, <2>1, <2>2
  <2> QED BY <1>0, <1>3, <2>2, <2>3
<1>4. ASSUME NEW c \in F, F1 \subseteq F \ {c}, r1 = r + 1, n <= n1
      PROVE  IsFiniteSet(F1) /\ r1 + Cardinality(F1) <= n1
  <2>1. IsFiniteSet(F \ {c}) /\ Cardinality(F \ {c}) = Cardinality(F) - 1
    BY FS_RemoveElement
  <2>2. /\ IsFiniteSet(F1) /\ Cardinality(F1) \in Nat
        /\ Cardinality(F1) <= Cardinality(F \ {c}) /\ Cardinality(F \ {c}) \in Nat
    BY <1>1, <1>4, <2>1
  <2> QED BY <1>0, <1>4, <2>1, <2>2
<1> QED BY <1>2, <1>3, <1>4 DEF Charged

(* Every step keeps the count of failures honest (_process).               *)
LEMMA FailuresStep ==
  ASSUME Inv, FailuresCounted, BuriedAfterLimit, [Next]_vars
  PROVE  FailuresCounted' /\ BuriedAfterLimit'
<1>0. /\ con \in [Consumers -> ConsumerRecords] /\ GroupOf \in [Consumers -> Groups]
      /\ retries \in [Groups -> [Ids -> Nat]] /\ raised \in [Groups -> [Ids -> Nat]]
      /\ retries' \in [Groups -> [Ids -> Nat]] /\ raised' \in [Groups -> [Ids -> Nat]]
      /\ \A c \in Consumers : ~ (At(c, "idle") \/ At(c, "next")) => con[c].id \in Ids
  <2>1. TypeOK' BY TypeStep DEF Inv
  <2>2. raised \in [Groups -> [Ids -> Nat]] /\ raised' \in [Groups -> [Ids -> Nat]]
    BY <2>1, PlaneAssumption DEF Inv, TypeOK
  <2>3. Len(stream) \in Nat /\ Len(stream) <= MaxEntries BY DEF Inv, TypeOK
  <2>4. 1..Len(stream) \subseteq Ids BY <2>3, PlaneAssumption DEF Ids
  <2>5. \A c \in Consumers : ~ (At(c, "idle") \/ At(c, "next")) => con[c].id \in Ids
    BY <2>4 DEF Inv, EntriesKnown
  <2> QED BY <2>1, <2>2, <2>5, PlaneAssumption DEF Inv, TypeOK, ConsumerRecords
<1>1. ASSUME \A g \in Groups, i \in Ids :
               Charged(Failing(g, i), Failing(g, i)', retries[g][i], retries'[g][i],
                       raised[g][i], raised'[g][i])
      PROVE  FailuresCounted'
  <2>1. ASSUME NEW g \in Groups, NEW i \in Ids
        PROVE  /\ IsFiniteSet(Failing(g, i)')
               /\ retries'[g][i] + Cardinality(Failing(g, i)') <= raised'[g][i]
    <3>1. /\ retries[g][i] \in Nat /\ retries'[g][i] \in Nat
          /\ raised[g][i] \in Nat /\ raised'[g][i] \in Nat
      BY <1>0
    <3>2. /\ IsFiniteSet(Failing(g, i))
          /\ retries[g][i] + Cardinality(Failing(g, i)) <= raised[g][i]
      BY DEF FailuresCounted
    <3> QED BY <1>1, <3>1, <3>2, Charge
  <2> QED BY <2>1 DEF FailuresCounted
<1>2. ASSUME \A c \in Consumers :
               con'[c].at = "bury" => con[c].at = "bury" /\ con'[c].id = con[c].id,
             \A g \in Groups, i \in Ids : raised[g][i] <= raised'[g][i]
      PROVE  BuriedAfterLimit'
  <2>1. ASSUME NEW c \in Consumers, con'[c].at = "bury"
        PROVE  raised'[GroupOf[c]][con'[c].id] > DlqAfter
    <3>1. /\ con[c].at = "bury" /\ con'[c].id = con[c].id /\ GroupOf[c] \in Groups
          /\ con[c].id \in Ids
      BY <1>0, <1>2, <2>1 DEF At
    <3>2. raised[GroupOf[c]][con[c].id] > DlqAfter BY <3>1 DEF BuriedAfterLimit, At
    <3>3. /\ raised[GroupOf[c]][con[c].id] \in Nat /\ raised'[GroupOf[c]][con[c].id] \in Nat
          /\ raised[GroupOf[c]][con[c].id] <= raised'[GroupOf[c]][con[c].id]
          /\ DlqAfter \in Nat
      BY <1>0, <1>2, <3>1, PlaneAssumption
    <3> QED BY <3>1, <3>2, <3>3
  <2> QED BY <2>1 DEF BuriedAfterLimit, At
(* a step that neither raises nor counts *)
<1>3. ASSUME \A c \in Consumers : con'[c].at \in {"raise", "bury"} => con'[c] = con[c],
             \A g \in Groups, i \in Ids : retries'[g][i] <= retries[g][i],
             UNCHANGED raised
      PROVE  FailuresCounted' /\ BuriedAfterLimit'
  BY <1>0, <1>1, <1>2, <1>3 DEF Failing, Charged
<1>4. \A g \in Groups, i \in Ids : retries[g][i] <= retries[g][i] BY <1>0
<1>5. CASE UNCHANGED <<con, retries, raised>> BY <1>3, <1>4, <1>5
<1>6. ASSUME NEW c \in Consumers,
             \/ ReadNew(c) \/ Reclaim(c) \/ TakeNext(c) \/ Effect(c) \/ Commit(c)
             \/ Bury(c) \/ Crash(c)
      PROVE  FailuresCounted' /\ BuriedAfterLimit'
  <2>1. UNCHANGED <<retries, raised>>
    BY <1>6 DEF ReadNew, Reclaim, TakeNext, Effect, Commit, Bury, Crash, history
  <2>2. con'[c].at \notin {"raise", "bury"}
    <3>1. ASSUME NEW i, NEW point \in {"ack", "handling"}, Begin(c, i, point)
          PROVE  con'[c].at \notin {"raise", "bury"}
      BY <1>0, <3>1 DEF Begin
    <3>2. ASSUME TakeNext(c) PROVE con'[c].at \notin {"raise", "bury"}
      BY <3>1, <3>2 DEF TakeNext
    <3>3. ASSUME ReadNew(c) \/ Reclaim(c) \/ Crash(c) PROVE con'[c].at \notin {"raise", "bury"}
      BY <1>0, <3>3 DEF ReadNew, Reclaim, Crash, Waiting
    <3>4. ASSUME Effect(c) \/ Commit(c) \/ Bury(c) PROVE con'[c].at \notin {"raise", "bury"}
      BY <1>0, <3>4 DEF Effect, Commit, Bury, Go, ConsumerRecords
    <3> QED BY <1>6, <3>2, <3>3, <3>4
  <2>3. \A d \in Consumers : d # c => con'[d] = con[d]
    BY <1>6, OthersStay DEF Process, Inv
  <2> QED BY <1>3, <1>4, <2>1, <2>2, <2>3
<1>7. ASSUME NEW c \in Consumers, Ack(c) PROVE FailuresCounted' /\ BuriedAfterLimit'
  <2>1. con'[c].at \in {"idle", "next"} BY <1>0, <1>7 DEF Ack, Done, Waiting
  <2>2. \A d \in Consumers : d # c => con'[d] = con[d]
    BY <1>7, OthersStay DEF Process, Inv
  <2>3. \A g \in Groups, i \in Ids : retries'[g][i] <= retries[g][i]
    BY <1>0, <1>7 DEF Ack
  <2>4. UNCHANGED raised BY <1>7 DEF Ack, history
  <2> QED BY <1>3, <2>1, <2>2, <2>3, <2>4
<1>8. ASSUME NEW c \in Consumers, Raise(c) PROVE FailuresCounted' /\ BuriedAfterLimit'
  <2> DEFINE h == GroupOf[c]
             k == con[c].id
  <2>1. h \in Groups /\ k \in Ids BY <1>0, <1>8 DEF Raise, InHand, At
  <2>2. /\ con'[c].at = "raise" /\ con'[c].id = k
        /\ \A d \in Consumers : d # c => con'[d] = con[d]
    BY <1>0, <1>8 DEF Raise, Go, ConsumerRecords
  <2>3. /\ UNCHANGED retries /\ raised'[h][k] = raised[h][k] + 1
        /\ \A g \in Groups, i \in Ids : ~ (g = h /\ i = k) => raised'[g][i] = raised[g][i]
    BY <1>0, <1>8, <2>1 DEF Raise
  <2>4. \A g \in Groups, i \in Ids : raised[g][i] <= raised'[g][i] BY SMTT(30), <1>0, <2>3
  <2>5. ASSUME NEW g \in Groups, NEW i \in Ids
        PROVE  Charged(Failing(g, i), Failing(g, i)', retries[g][i], retries'[g][i],
                       raised[g][i], raised'[g][i])
    <3>1. CASE g = h /\ i = k
      <4>1. Failing(g, i)' \subseteq Failing(g, i) \cup {c} BY <2>2 DEF Failing
      <4>2. retries'[g][i] <= retries[g][i] /\ raised[g][i] + 1 <= raised'[g][i]
        BY <1>0, <2>3, <3>1
      <4> QED BY <4>1, <4>2 DEF Charged
    <3>2. CASE ~ (g = h /\ i = k)  BY <1>4, <2>2, <2>3, <2>4, <3>2 DEF Failing, Charged
    <3> QED BY <3>1, <3>2
  <2>6. BuriedAfterLimit' BY <1>2, <2>2, <2>4
  <2> QED BY <1>1, <2>5, <2>6
<1>9. ASSUME NEW c \in Consumers, CountFailure(c) PROVE FailuresCounted' /\ BuriedAfterLimit'
  <2> DEFINE h == GroupOf[c]
             k == con[c].id
             attempts == retries[h][k] + 1
  <2>1. h \in Groups /\ k \in Ids /\ con[c].at = "raise"
    BY <1>0, <1>9 DEF CountFailure, At
  <2>2. /\ con'[c].at \in {"bury", "idle", "next"}
        /\ con'[c].at = "bury" => con'[c].id = k /\ attempts > DlqAfter
        /\ \A d \in Consumers : d # c => con'[d] = con[d]
    <3>1. \A d \in Consumers : d # c => con'[d] = con[d]
      BY <1>9, OthersStay DEF Process, Inv
    <3>2. CASE attempts > DlqAfter /\ Go(c, "bury")
      BY <1>0, <3>1, <3>2 DEF Go, ConsumerRecords
    <3>3. CASE Done(c) BY <1>0, <3>1, <3>3 DEF Done, Waiting
    <3> QED BY <1>9, <3>2, <3>3 DEF CountFailure
  <2>3. /\ UNCHANGED raised /\ retries'[h][k] = attempts
        /\ \A g \in Groups, i \in Ids : ~ (g = h /\ i = k) => retries'[g][i] = retries[g][i]
    BY <1>0, <1>9, <2>1 DEF CountFailure, history
  <2>4. c \in Failing(h, k) BY <2>1 DEF Failing
  <2>5. \A g \in Groups, i \in Ids : raised[g][i] <= raised'[g][i] BY <1>0, <2>3
  <2>6. ASSUME NEW g \in Groups, NEW i \in Ids
        PROVE  Charged(Failing(g, i), Failing(g, i)', retries[g][i], retries'[g][i],
                       raised[g][i], raised'[g][i])
    BY <1>4, <2>2, <2>3, <2>4, <2>5 DEF Failing, Charged
  <2>7. attempts <= raised[h][k]
    <3>1. /\ IsFiniteSet(Failing(h, k))
          /\ retries[h][k] + Cardinality(Failing(h, k)) <= raised[h][k]
      BY <2>1 DEF FailuresCounted
    <3>2. Cardinality(Failing(h, k)) \in Nat /\ Cardinality(Failing(h, k)) # 0
      BY <2>4, <3>1, FS_CardinalityType, FS_EmptySet
    <3>3. retries[h][k] \in Nat /\ raised[h][k] \in Nat BY <1>0, <2>1
    <3> HIDE DEF h, k
    <3> QED BY <3>1, <3>2, <3>3
  <2>8. BuriedAfterLimit'
    <3>1. ASSUME NEW d \in Consumers, con'[d].at = "bury"
          PROVE  raised'[GroupOf[d]][con'[d].id] > DlqAfter
      <4>1. CASE d = c  BY <1>0, <2>1, <2>2, <2>3, <2>7, <3>1, <4>1, PlaneAssumption
      <4>2. CASE d # c BY <2>2, <2>3, <3>1, <4>2 DEF BuriedAfterLimit, At
      <4> QED BY <4>1, <4>2
    <3> QED BY <3>1 DEF BuriedAfterLimit, At
  <2> QED BY <1>1, <2>6, <2>8
<1> QED
  BY <1>5, <1>6, <1>7, <1>8, <1>9
     DEF Next, Process, Emit, Replay, Prune, Publish, ClaimRows, Relay, MarkPublished,
         LosePublisher, history, vars

(* An entry is dead-lettered only after its handler failed more than       *)
(* DLQ_AFTER times on it, whoever else of the group was handed the entry   *)
(* in between (_process).                                                  *)
THEOREM BuriedOnlyAfterLimit == Spec => []BuriedAfterLimit
<1>1. Init => FailuresCounted /\ BuriedAfterLimit
  <2> SUFFICES ASSUME Init PROVE FailuresCounted /\ BuriedAfterLimit OBVIOUS
  <2>1. \A c \in Consumers : con[c].at = "idle" BY DEF Init, Waiting
  <2>2. \A g, i : Failing(g, i) = {} BY <2>1 DEF Failing
  <2>3. IsFiniteSet({}) /\ Cardinality({}) = 0 BY FS_EmptySet
  <2>4. \A g \in Groups, i \in Ids : retries[g][i] = 0 /\ raised[g][i] = 0 BY DEF Init
  <2>5. \A g, i : IsFiniteSet(Failing(g, i)) /\ Cardinality(Failing(g, i)) = 0
    BY <2>2, <2>3
  <2>6. FailuresCounted BY <2>4, <2>5 DEF FailuresCounted
  <2> QED BY <2>1, <2>6 DEF BuriedAfterLimit, At
<1> QED BY <1>1, FailuresStep, InvAlways, PTL DEF Spec

=============================================================================
