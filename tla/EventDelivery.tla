--------------------------- MODULE EventDelivery ---------------------------
(***************************************************************************)
(* What the event plane promises a consumer group, without streams,        *)
(* workers or retries: a handler works on an event that was committed,     *)
(* never beside another handler of the group, and never again once its     *)
(* work is recorded, unless the record outlived the retention window.      *)
(***************************************************************************)
EXTENDS Naturals

CONSTANTS Events, Groups

VARIABLES
  committed,   \* the events whose transaction committed
  working,     \* per group, the events worked on whose record is not yet decided
  recorded,    \* per group, the events recorded as handled
  works        \* per group and event, how often its handler's work was committed

deliveryVars == <<committed, working, recorded, works>>

DeliveryInit ==
  /\ committed = {}
  /\ working = [g \in Groups |-> {}] /\ recorded = [g \in Groups |-> {}]
  /\ works = [g \in Groups |-> [e \in Events |-> 0]]

CommitEvent(e) ==
  /\ e \notin committed
  /\ committed' = committed \cup {e} /\ UNCHANGED <<working, recorded, works>>

Work(g, e) ==
  /\ e \in committed /\ e \notin working[g] /\ e \notin recorded[g]
  /\ works' = [works EXCEPT ![g][e] = @ + 1]
  /\ working' = [working EXCEPT ![g] = @ \cup {e}]
  /\ UNCHANGED <<committed, recorded>>

Record(g, e) ==
  /\ e \in working[g]
  /\ working' = [working EXCEPT ![g] = @ \ {e}]
  /\ recorded' = [recorded EXCEPT ![g] = @ \cup {e}]
  /\ UNCHANGED <<committed, works>>

(* the handler failed, or its worker died, after the work: it may be redone *)
Forfeit(g, e) ==
  /\ e \in working[g]
  /\ working' = [working EXCEPT ![g] = @ \ {e}]
  /\ UNCHANGED <<committed, recorded, works>>

Expire(g, e) ==
  /\ e \in recorded[g]
  /\ recorded' = [recorded EXCEPT ![g] = @ \ {e}]
  /\ UNCHANGED <<committed, working, works>>

DeliveryNext ==
  \E e \in Events :
    \/ CommitEvent(e)
    \/ \E g \in Groups : Work(g, e) \/ Record(g, e) \/ Forfeit(g, e) \/ Expire(g, e)

DeliverySpec == DeliveryInit /\ [][DeliveryNext]_deliveryVars
=============================================================================
