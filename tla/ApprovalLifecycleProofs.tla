---------------------- MODULE ApprovalLifecycleProofs ----------------------
(***************************************************************************)
(* Proofs about ApprovalLifecycle for every set of approvals, requests and *)
(* scheduler processes: type correctness, one decision per approval, no    *)
(* edit above the tier the approval was raised at, and, with one scheduler *)
(* process, notices that are repeated only for a failed pass.              *)
(***************************************************************************)
EXTENDS ApprovalLifecycle, TLAPS

-----------------------------------------------------------------------------
(* The inductive invariant                                                 *)

(* What a ladder pass holds: the clock it took, the rows it read and has   *)
(* not walked, the updates it made.                                        *)
PartialTo(R) == UNION {[D -> R] : D \in SUBSET Approvals}
PassType == [at : {"idle", "read", "walk"}, ages : [Approvals -> Fresh..Over],
             todo : PartialTo(RowType), writes : PartialTo(Moves)]
Outcomes == (Statuses \cup {"gone"}) \ {"absent", "pending"}

Types ==
  /\ TypeOK
  /\ events \in [Approvals -> Seq(Decided)]
  /\ answers \in [Approvals -> Seq(Outcomes)]
  /\ lad \in [Ladders -> PassType]
  /\ notices \in [Approvals -> [remind : Nat, escalate : Nat]]

(* The row a request holds is pending and nobody else holds it. *)
HolderAlone ==
  \A a \in Approvals, q \in Requests : a \in req[q] =>
    /\ appr[a].status = "pending" /\ ~ LockedByLadder(a)
    /\ \A r \in Requests : a \in req[r] => r = q

(* The outbox tells what the row tells, until the ladder expires the row. *)
EventsTell ==
  \A a \in Approvals :
    /\ appr[a].status \in {"absent", "pending"} => events[a] = <<>>
    /\ appr[a].status \in Decided => events[a] = <<appr[a].status>>

Decisions == EventsTell /\ OneDecision /\ AuthorityHolds

(* One scheduler process runs the ladder. *)
OneScheduler == \A k, l \in Ladders : k = l

Notice == {"remind", "escalate"}
Stamps(a) == (IF appr[a].reminded THEN 1 ELSE 0) + (IF appr[a].escalated THEN 1 ELSE 0)
Unstamped(a) ==
  IF \E l \in Ladders : a \in DOMAIN lad[l].writes /\ lad[l].writes[a] \in Notice THEN 1 ELSE 0

(* A pass has read the stamps as they are and stamps each row once. *)
PassFresh ==
  \A l \in Ladders :
    /\ lad[l].at # "walk" => DOMAIN lad[l].writes = {} /\ DOMAIN lad[l].todo = {}
    /\ \A a \in DOMAIN lad[l].todo :
         /\ a \notin DOMAIN lad[l].writes
         /\ lad[l].todo[a].reminded = appr[a].reminded
         /\ lad[l].todo[a].escalated = appr[a].escalated
    /\ \A a \in DOMAIN lad[l].writes :
         /\ lad[l].writes[a] = "remind" => ~ appr[a].reminded
         /\ lad[l].writes[a] = "escalate" => ~ appr[a].escalated

(* Every notice has its stamp, or the stamp is on its way, or it was lost. *)
NoticesStamped ==
  \A a \in Approvals :
    notices[a].remind + notices[a].escalate <= Stamps(a) + Unstamped(a) + failures

Accounts == PassFresh /\ NoticesStamped

Inv == Types /\ HolderAlone /\ Decisions

-----------------------------------------------------------------------------
(* Type correctness                                                        *)

(* A partial function is one on some of the approvals. *)
LEMMA Partial ==
  ASSUME NEW R, NEW f \in PartialTo(R)
  PROVE  /\ DOMAIN f \subseteq Approvals
         /\ f \in [DOMAIN f -> R]
         /\ \A a : Rest(f, a) \in PartialTo(R) /\ DOMAIN Rest(f, a) = DOMAIN f \ {a}
         /\ \A a \in Approvals, r \in R :
              [x \in DOMAIN f \cup {a} |-> IF x = a THEN r ELSE f[x]] \in PartialTo(R)
<1>1. PICK D \in SUBSET Approvals : f \in [D -> R] BY DEF PartialTo
<1>2. DOMAIN f = D BY <1>1
<1>3. ASSUME NEW a PROVE Rest(f, a) \in [D \ {a} -> R] /\ D \ {a} \in SUBSET Approvals
  BY <1>1, <1>2 DEF Rest
<1>4. ASSUME NEW a \in Approvals, NEW r \in R
      PROVE  /\ [x \in DOMAIN f \cup {a} |-> IF x = a THEN r ELSE f[x]] \in [D \cup {a} -> R]
             /\ D \cup {a} \in SUBSET Approvals
  BY <1>1, <1>2
<1>5. \A a : Rest(f, a) \in PartialTo(R) /\ DOMAIN Rest(f, a) = DOMAIN f \ {a}
  <2>1. SUFFICES ASSUME NEW a
                 PROVE  Rest(f, a) \in PartialTo(R) /\ DOMAIN Rest(f, a) = DOMAIN f \ {a}
    OBVIOUS
  <2>2. Rest(f, a) \in PartialTo(R) BY <1>3 DEF PartialTo
  <2> QED BY <2>2 DEF Rest
<1>6. ASSUME NEW a \in Approvals, NEW r \in R
      PROVE  [x \in DOMAIN f \cup {a} |-> IF x = a THEN r ELSE f[x]] \in PartialTo(R)
  <2>1. [D \cup {a} -> R] \in {[E -> R] : E \in SUBSET Approvals} BY <1>4
  <2> DEFINE g == [x \in DOMAIN f \cup {a} |-> IF x = a THEN r ELSE f[x]]
  <2>2. g \in [D \cup {a} -> R] BY <1>4
  <2> HIDE DEF g
  <2>3. g \in PartialTo(R) BY <2>1, <2>2 DEF PartialTo
  <2> QED BY <2>3 DEF g
<1>7. DOMAIN f \subseteq Approvals /\ f \in [DOMAIN f -> R] BY <1>1, <1>2
<1> QED BY ONLY <1>5, <1>6, <1>7

(* The function without rows is a partial function. *)
LEMMA NothingPartial ==
  ASSUME NEW R PROVE Nothing \in PartialTo(R) /\ DOMAIN Nothing = {}
<1>1. Nothing \in [{} -> R] BY DEF Nothing
<1>2. {} \in SUBSET Approvals OBVIOUS
<1> QED BY <1>1, <1>2 DEF PartialTo, Nothing

(* A scheduler at rest has the shape of a pass. *)
LEMMA NoPassType == NoPass \in PassType
<1>1. Nothing \in PartialTo(RowType) /\ Nothing \in PartialTo(Moves) BY NothingPartial
<1> QED BY <1>1 DEF NoPass, PassType, Fresh, Over

(* What the proof reads off the types. *)
LEMMA Shapes ==
  ASSUME Types
  PROVE  /\ appr \in [Approvals -> RowType] /\ age \in [Approvals -> Fresh..Over]
         /\ req \in [Requests -> SUBSET Approvals]
         /\ \A l \in Ladders : /\ lad[l] \in PassType /\ lad[l].todo \in PartialTo(RowType)
                               /\ lad[l].writes \in PartialTo(Moves)
                               /\ lad[l].ages \in [Approvals -> Fresh..Over]
         /\ failures \in 0..MaxFailures
BY DEF Types, TypeOK, PassType

(* What walking row a does to the pass and to the notices. *)
Walked(l, a) ==
  /\ Transition(l, a) # "none" => Lockable(a)
  /\ lad' = [lad EXCEPT
               ![l].todo = Rest(@, a),
               ![l].writes = IF Transition(l, a) = "none" THEN @
                             ELSE [x \in DOMAIN @ \cup {a} |->
                                     IF x = a THEN Transition(l, a) ELSE @[x]]]
  /\ notices' = IF Transition(l, a) \in {"remind", "escalate"}
                  THEN [notices EXCEPT ![a][Transition(l, a)] = @ + 1] ELSE notices

(* WalkRow walks some row of its list. *)
LEMMA Walks ==
  ASSUME NEW l \in Ladders, WalkRow(l)
  PROVE  \E a \in DOMAIN lad[l].todo : Walked(l, a)
BY DEF WalkRow, Walked

(* Walking a row keeps the pass and the notices in shape. *)
LEMMA WalkTypes ==
  ASSUME Types, NEW l \in Ladders, NEW a \in DOMAIN lad[l].todo, Walked(l, a)
  PROVE  /\ a \in Approvals /\ Transition(l, a) \in Moves \cup {"none"}
         /\ lad' \in [Ladders -> PassType]
         /\ notices' \in [Approvals -> [remind : Nat, escalate : Nat]]
<1>1. a \in Approvals BY Shapes, Partial
<1>2. Transition(l, a) \in Moves \cup {"none"} BY DEF Transition, Moves
<1> DEFINE move == Transition(l, a)
           writes == IF move = "none" THEN lad[l].writes
                     ELSE [x \in DOMAIN lad[l].writes \cup {a} |->
                             IF x = a THEN move ELSE lad[l].writes[x]]
<1>3. Rest(lad[l].todo, a) \in PartialTo(RowType) BY Shapes, Partial
<1>4. writes \in PartialTo(Moves)
  <2>1. CASE move = "none" BY <2>1, Shapes
  <2>2. CASE move # "none"
    <3>1. lad[l].writes \in PartialTo(Moves) /\ move \in Moves BY <2>2, <1>2, Shapes
    <3>2. \A r \in Moves :
            [x \in DOMAIN lad[l].writes \cup {a} |-> IF x = a THEN r ELSE lad[l].writes[x]]
              \in PartialTo(Moves)
      BY ZenonT(60), <3>1, <1>1, Partial
    <3> QED BY <2>2, <3>1, <3>2
  <2> QED BY <2>1, <2>2
<1>5. lad' = [lad EXCEPT ![l].todo = Rest(lad[l].todo, a), ![l].writes = writes]
  BY DEF Walked
<1> HIDE DEF writes
<1>6. [lad[l] EXCEPT !.todo = Rest(lad[l].todo, a), !.writes = writes] \in PassType
  BY <1>3, <1>4, Shapes DEF PassType
<1>7. lad' \in [Ladders -> PassType] BY <1>5, <1>6 DEF Types
<1>8. notices' \in [Approvals -> [remind : Nat, escalate : Nat]]
  <2>1. notices[a] \in [remind : Nat, escalate : Nat] BY <1>1 DEF Types
  <2>2. /\ [notices[a] EXCEPT !.remind = @ + 1] \in [remind : Nat, escalate : Nat]
        /\ [notices[a] EXCEPT !.escalate = @ + 1] \in [remind : Nat, escalate : Nat]
    BY <2>1
  <2>3. CASE move = "remind"
    BY <2>2, <2>3, <1>1 DEF Walked, Types
  <2>4. CASE move = "escalate"
    BY <2>2, <2>4, <1>1 DEF Walked, Types
  <2>5. CASE move \notin {"remind", "escalate"} BY <2>5 DEF Walked, Types
  <2> QED BY <2>3, <2>4, <2>5
<1> QED BY <1>1, <1>2, <1>7, <1>8

(* Walking a row locks that row at most. *)
LEMMA WalkWrites ==
  ASSUME Types, NEW l \in Ladders, NEW a \in DOMAIN lad[l].todo, Walked(l, a)
  PROVE  /\ Transition(l, a) = "none" => lad'[l].writes = lad[l].writes
         /\ Transition(l, a) # "none" =>
              lad'[l].writes = [x \in DOMAIN lad[l].writes \cup {a} |->
                                  IF x = a THEN Transition(l, a) ELSE lad[l].writes[x]]
         /\ DOMAIN lad'[l].writes = IF Transition(l, a) = "none" THEN DOMAIN lad[l].writes
                                    ELSE DOMAIN lad[l].writes \cup {a}
         /\ lad'[l].todo = Rest(lad[l].todo, a)
<1>1. lad \in [Ladders -> PassType] /\ lad[l] \in PassType BY DEF Types
<1> DEFINE writes == IF Transition(l, a) = "none" THEN lad[l].writes
                     ELSE [x \in DOMAIN lad[l].writes \cup {a} |->
                             IF x = a THEN Transition(l, a) ELSE lad[l].writes[x]]
<1>2. lad' = [lad EXCEPT ![l].todo = Rest(lad[l].todo, a), ![l].writes = writes]
  BY DEF Walked
<1> HIDE DEF writes
<1>3. lad'[l].writes = writes /\ lad'[l].todo = Rest(lad[l].todo, a)
  BY <1>1, <1>2 DEF PassType
<1> QED BY <1>3 DEF writes

(* Every step keeps the types (service.py, notify.py). *)
LEMMA TypeStep ==
  ASSUME Types, [Next]_vars
  PROVE  Types'
<1> USE LifecycleAssumption
<1>0. /\ appr \in [Approvals -> RowType] /\ age \in [Approvals -> Fresh..Over]
      /\ req \in [Requests -> SUBSET Approvals] /\ lad \in [Ladders -> PassType]
      /\ events \in [Approvals -> Seq(Decided)] /\ answers \in [Approvals -> Seq(Outcomes)]
      /\ failures \in 0..MaxFailures
      /\ notices \in [Approvals -> [remind : Nat, escalate : Nat]]
  BY Shapes DEF Types
<1> DEFINE Kept == /\ appr' \in [Approvals -> RowType] /\ age' \in [Approvals -> Fresh..Over]
                   /\ req' \in [Requests -> SUBSET Approvals] /\ lad' \in [Ladders -> PassType]
                   /\ events' \in [Approvals -> Seq(Decided)]
                   /\ answers' \in [Approvals -> Seq(Outcomes)]
                   /\ failures' \in 0..MaxFailures
                   /\ notices' \in [Approvals -> [remind : Nat, escalate : Nat]]
<1>1. ASSUME NEW a \in Approvals, CreateApproval(a) PROVE Kept
  <2>1. PICK tier \in Tiers :
          appr' = [appr EXCEPT ![a] = [@ EXCEPT !.status = "pending", !.tier = tier]]
    BY <1>1 DEF CreateApproval
  <2>2. [appr[a] EXCEPT !.status = "pending", !.tier = tier] \in RowType
    BY ZenonT(60), <1>0 DEF RowType, Statuses
  <2> QED BY <1>0, <1>1, <2>1, <2>2 DEF CreateApproval
<1>2. ASSUME NEW a \in Approvals, Tick(a) PROVE Kept
  <2>0. age[a] \in 0..3 /\ age[a] < 3 BY <1>0, <1>2 DEF Tick, Fresh, Over
  <2>1. age[a] + 1 \in Fresh..Over BY <2>0 DEF Fresh, Over
  <2> QED BY <1>0, <1>2, <2>1 DEF Tick
<1>3. ASSUME NEW a \in Approvals, NEW q \in Requests, Handle(q, a) PROVE Kept
  <2>1. CASE TakeRow(q, a) BY <1>0, <2>1 DEF TakeRow
  <2>2. CASE AnswerReplay(q, a)
    <3>1. appr[a].status \in Outcomes BY <1>0, <2>2 DEF AnswerReplay, Outcomes, RowType
    <3>2. Append(answers[a], appr[a].status) \in Seq(Outcomes) BY <1>0, <3>1
    <3> QED BY <1>0, <2>2, <3>2 DEF AnswerReplay, Answer
  <2>3. CASE AnswerGone(q, a)  BY SMTT(30), <1>0, <2>3 DEF Outcomes, AnswerGone, Answer
  <2> QED BY <1>3, <2>1, <2>2, <2>3 DEF Handle
<1>4. ASSUME NEW q \in Requests, NEW a \in Approvals, NEW status \in Decided,
             NEW edit \in SUBSET Nat, Write(q, a, status, edit)
      PROVE  Kept
  <2>1. appr' = [appr EXCEPT ![a] = [@ EXCEPT !.status = status, !.edit = edit]]
    BY <1>4 DEF Write
  <2>2. [appr[a] EXCEPT !.status = status, !.edit = edit] \in RowType
    BY ZenonT(60), <1>0 DEF RowType, Statuses
  <2>3. Append(events[a], status) \in Seq(Decided) /\ status \in Outcomes
    BY <1>0 DEF Outcomes, Statuses, Decided
  <2>4. Append(answers[a], status) \in Seq(Outcomes) BY <1>0, <2>3
  <2> QED BY <1>0, <1>4, <2>1, <2>2, <2>3, <2>4 DEF Write, Answer
<1>5. ASSUME NEW q \in Requests, Decide(q) PROVE Kept
  <2>1. PICK a \in req[q], status \in Decided : Write(q, a, status, {})
    BY <1>5 DEF Decide
  <2>2. a \in Approvals /\ {} \in SUBSET Nat BY <1>0
  <2> QED BY <1>4, <2>1, <2>2
<1>6. ASSUME NEW q \in Requests, ApproveWithEdit(q) PROVE Kept
  <2>1. PICK a \in req[q], newTier \in Tiers :
          Write(q, a, IF newTier > appr[a].tier THEN "rejected" ELSE "approved", {newTier})
    BY <1>6 DEF ApproveWithEdit
  <2> DEFINE status == IF newTier > appr[a].tier THEN "rejected" ELSE "approved"
  <2>2. status \in Decided /\ {newTier} \in SUBSET Nat BY DEF Decided
  <2>3. a \in Approvals BY <1>0
  <2> QED BY <1>4, <2>1, <2>2, <2>3
<1>7. ASSUME NEW q \in Requests, AbortRequest(q) PROVE Kept
  BY <1>0, <1>7 DEF AbortRequest
<1>8. ASSUME NEW l \in Ladders, StartPass(l) PROVE Kept
  BY <1>0, <1>8, NoPassType DEF PassType, StartPass
<1>9. ASSUME NEW l \in Ladders, ReadPending(l) PROVE Kept
  <2> DEFINE rows == [a \in {x \in Approvals : appr[x].status = "pending"} |-> appr[a]]
  <2>1. rows \in PartialTo(RowType)
    <3>1. rows \in [{x \in Approvals : appr[x].status = "pending"} -> RowType] BY <1>0
    <3>2. [{x \in Approvals : appr[x].status = "pending"} -> RowType]
            \in {[D -> RowType] : D \in SUBSET Approvals}
      OBVIOUS
    <3> HIDE DEF rows
    <3> QED BY <3>1, <3>2 DEF PartialTo
  <2>2. lad' = [lad EXCEPT ![l] = [@ EXCEPT !.at = "walk", !.todo = rows]]
    BY <1>9 DEF ReadPending
  <2> HIDE DEF rows
  <2>3. [lad[l] EXCEPT !.at = "walk", !.todo = rows] \in PassType
    BY <1>0, <2>1 DEF PassType
  <2> QED BY <1>0, <1>9, <2>2, <2>3 DEF ReadPending
<1>10. ASSUME NEW l \in Ladders, WalkRow(l) PROVE Kept
  BY <1>0, <1>10, Walks, WalkTypes DEF WalkRow
<1>11. ASSUME NEW l \in Ladders, CommitPass(l) PROVE Kept
  <2>1. appr' \in [Approvals -> RowType]
    <3>1. ASSUME NEW a \in Approvals, a \in DOMAIN lad[l].writes
          PROVE  Written(appr[a], lad[l].writes[a]) \in RowType
      <4>1. lad[l].writes[a] \in Moves /\ appr[a] \in RowType
        BY <3>1, <1>0, Shapes, Partial
      <4> QED BY <4>1 DEF Written, Moves, RowType, Statuses
    <3> QED BY <1>0, <1>11, <3>1 DEF CommitPass
  <2> QED BY <1>0, <1>11, <2>1, NoPassType DEF CommitPass
<1>12. ASSUME NEW l \in Ladders, AbortPass(l) PROVE Kept
  BY <1>0, <1>12, NoPassType DEF AbortPass
<1>13. ASSUME UNCHANGED vars PROVE Kept  BY <1>0, <1>13 DEF vars
<1> HIDE DEF Kept
<1>14. Kept
  <2>1. CASE \E a \in Approvals : CreateApproval(a) \/ Tick(a)
                                 \/ \E q \in Requests : Handle(q, a)
    BY <2>1, <1>1, <1>2, <1>3
  <2>2. CASE \E q \in Requests : Finish(q) \/ AbortRequest(q)
    BY <2>2, <1>5, <1>6, <1>7 DEF Finish
  <2>3. CASE \E l \in Ladders : Pass(l) \/ AbortPass(l)
    BY <2>3, <1>8, <1>9, <1>10, <1>11, <1>12 DEF Pass
  <2>4. CASE UNCHANGED vars BY <2>4, <1>13
  <2> QED BY <2>1, <2>2, <2>3, <2>4 DEF Next
<1>15. /\ appr' \in [Approvals -> RowType] /\ age' \in [Approvals -> Fresh..Over]
       /\ req' \in [Requests -> SUBSET Approvals] /\ lad' \in [Ladders -> PassType]
       /\ events' \in [Approvals -> Seq(Decided)] /\ answers' \in [Approvals -> Seq(Outcomes)]
       /\ failures' \in 0..MaxFailures
       /\ notices' \in [Approvals -> [remind : Nat, escalate : Nat]]
  BY <1>14 DEF Kept
<1>16. ASSUME NEW l \in Ladders
       PROVE  /\ lad'[l].at \in {"idle", "read", "walk"}
              /\ DOMAIN lad'[l].todo \subseteq Approvals
              /\ DOMAIN lad'[l].writes \subseteq Approvals
              /\ \A a \in DOMAIN lad'[l].writes : lad'[l].writes[a] \in Moves
  BY <1>15, Partial DEF PassType
<1> QED BY <1>15, <1>16 DEF Types, TypeOK, Outcomes

-----------------------------------------------------------------------------
(* One decision, and its authority                                         *)

(* What a decision does: the row was pending and nobody else had it.       *)
LEMMA Finished ==
  ASSUME Types, HolderAlone, NEW q \in Requests, Finish(q)
  PROVE  \E a \in Approvals, status \in Decided, edit \in SUBSET Nat :
           /\ a \in req[q] /\ appr[a].status = "pending"
           /\ Write(q, a, status, edit)
           /\ status = "approved" => \A e \in edit : e <= appr[a].tier
<1> USE LifecycleAssumption
<1>0. appr \in [Approvals -> RowType] /\ req \in [Requests -> SUBSET Approvals] BY Shapes
<1>1. CASE Decide(q)  BY <1>0, <1>1 DEF Decide, HolderAlone
<1>2. CASE ApproveWithEdit(q)
  BY <1>0, <1>2 DEF ApproveWithEdit, HolderAlone, RowType, Decided
<1> QED BY <1>1, <1>2 DEF Finish

(* What Write does, row by row. *)
LEMMA WriteEffect ==
  ASSUME Types, NEW q \in Requests, NEW a \in Approvals, NEW status \in Decided,
         NEW edit \in SUBSET Nat, Write(q, a, status, edit)
  PROVE  /\ \A b \in Approvals \ {a} : appr'[b] = appr[b] /\ events'[b] = events[b]
                                        /\ answers'[b] = answers[b]
         /\ appr'[a].status = status /\ appr'[a].edit = edit /\ appr'[a].tier = appr[a].tier
         /\ events'[a] = Append(events[a], status)
         /\ answers'[a] = Append(answers[a], status)
         /\ req'[q] = {} /\ \A r \in Requests \ {q} : req'[r] = req[r]
         /\ UNCHANGED lad
<1>1. /\ appr \in [Approvals -> RowType] /\ req \in [Requests -> SUBSET Approvals]
      /\ events \in [Approvals -> Seq(Decided)] /\ answers \in [Approvals -> Seq(Outcomes)]
  BY Shapes DEF Types
<1>2. appr' = [appr EXCEPT ![a] = [@ EXCEPT !.status = status, !.edit = edit]] BY DEF Write
<1>3. appr[a] \in RowType BY <1>1
<1>4. LET row == [appr[a] EXCEPT !.status = status, !.edit = edit] IN
        row.status = status /\ row.edit = edit /\ row.tier = appr[a].tier
  BY <1>3 DEF RowType
<1>5. appr'[a].status = status /\ appr'[a].edit = edit /\ appr'[a].tier = appr[a].tier
  BY <1>1, <1>2, <1>4
<1>6. \A b \in Approvals \ {a} : appr'[b] = appr[b] BY <1>1, <1>2
<1> QED BY <1>1, <1>5, <1>6 DEF Write, Answer

(* What a commit of the ladder does to a row: its status is kept or becomes *)
(* expired, its tier and its edit stay.                                     *)
LEMMA CommitEffect ==
  ASSUME Types, NEW l \in Ladders, CommitPass(l), NEW a \in Approvals
  PROVE  /\ appr'[a].status \in {appr[a].status, "expired"}
         /\ appr'[a].edit = appr[a].edit /\ appr'[a].tier = appr[a].tier
         /\ a \notin DOMAIN lad[l].writes => appr'[a] = appr[a]
<1>1. appr[a] \in RowType BY Shapes
<1>2. a \in DOMAIN lad[l].writes => lad[l].writes[a] \in Moves BY Shapes, Partial
<1>3. appr'[a] = IF a \in DOMAIN lad[l].writes
                   THEN Written(appr[a], lad[l].writes[a]) ELSE appr[a]
  BY DEF CommitPass
<1>4. CASE a \in DOMAIN lad[l].writes  BY <1>1, <1>2, <1>3, <1>4 DEF Written, Moves, RowType
<1> QED BY <1>3, <1>4

(* A held row stays pending and its holder alone (SELECT ... FOR UPDATE).  *)
LEMMA HolderStep ==
  ASSUME Types, HolderAlone, [Next]_vars
  PROVE  HolderAlone'
<1>0. /\ appr \in [Approvals -> RowType] /\ req \in [Requests -> SUBSET Approvals]
      /\ lad \in [Ladders -> PassType]
  BY Shapes DEF Types
<1>1. ASSUME NEW a \in Approvals, CreateApproval(a) PROVE HolderAlone'
  BY <1>0, <1>1 DEF CreateApproval, HolderAlone, LockedByLadder
<1>2. ASSUME NEW a \in Approvals, Tick(a) PROVE HolderAlone'
  BY <1>2 DEF Tick, HolderAlone, LockedByLadder
<1>3. ASSUME NEW a \in Approvals, NEW q \in Requests, Handle(q, a) PROVE HolderAlone'
  BY <1>0, <1>3 DEF TakeRow, Lockable, LockedByRequest, HolderAlone, LockedByLadder,
     AnswerReplay, AnswerGone, Handle
<1>4. ASSUME NEW q \in Requests, Finish(q) PROVE HolderAlone'
  BY <1>4, Finished, WriteEffect DEF HolderAlone, LockedByLadder
<1>5. ASSUME NEW q \in Requests, AbortRequest(q) PROVE HolderAlone'
  BY <1>0, <1>5 DEF AbortRequest, HolderAlone, LockedByLadder
<1>6. ASSUME NEW l \in Ladders, UNCHANGED <<appr, req>>,
             \A m \in Ladders \ {l} : lad'[m] = lad[m],
             DOMAIN lad'[l].writes \subseteq DOMAIN lad[l].writes
      PROVE  HolderAlone'
  BY <1>6 DEF HolderAlone, LockedByLadder
<1>7. ASSUME NEW l \in Ladders, StartPass(l) \/ ReadPending(l) \/ AbortPass(l)
      PROVE  HolderAlone'
  <2>1. UNCHANGED <<appr, req>> /\ \A m \in Ladders \ {l} : lad'[m] = lad[m]
    BY <1>0, <1>7 DEF StartPass, ReadPending, AbortPass
  <2>2. DOMAIN lad'[l].writes \subseteq DOMAIN lad[l].writes
    <3>1. CASE StartPass(l)  BY <1>0, <3>1, NothingPartial DEF StartPass, NoPass
    <3>2. CASE ReadPending(l)  BY <1>0, <3>2 DEF ReadPending, PassType
    <3>3. CASE AbortPass(l)  BY <1>0, <3>3, NothingPartial DEF AbortPass, NoPass
    <3> QED BY <1>7, <3>1, <3>2, <3>3
  <2> QED BY <1>6, <2>1, <2>2
<1>8. ASSUME NEW l \in Ladders, WalkRow(l) PROVE HolderAlone'
  <2>1. PICK a \in DOMAIN lad[l].todo : Walked(l, a) BY <1>8, Walks
  <2>2. UNCHANGED <<appr, req>> /\ \A m \in Ladders \ {l} : lad'[m] = lad[m]
    BY <1>0, <1>8, <2>1 DEF WalkRow, Walked
  <2>3. DOMAIN lad'[l].writes \subseteq IF Transition(l, a) = "none" THEN DOMAIN lad[l].writes
                                        ELSE DOMAIN lad[l].writes \cup {a}
    BY <1>0, <2>1, WalkWrites
  <2>4. CASE Transition(l, a) = "none" BY <1>6, <2>2, <2>3, <2>4
  <2>5. CASE Transition(l, a) # "none"
    <3>1. \A q \in Requests : a \notin req[q]
      BY <2>1, <2>5 DEF Walked, Lockable, LockedByRequest
    <3>2. \A b \in Approvals \ {a} : LockedByLadder(b)' => LockedByLadder(b)
      BY <2>2, <2>3, <2>5 DEF LockedByLadder
    <3> QED BY <2>2, <3>1, <3>2 DEF HolderAlone
  <2> QED BY <2>4, <2>5
<1>9. ASSUME NEW l \in Ladders, CommitPass(l) PROVE HolderAlone'
  <2>1. UNCHANGED req /\ \A m \in Ladders \ {l} : lad'[m] = lad[m]
    BY <1>0, <1>9 DEF CommitPass
  <2>2. DOMAIN lad'[l].writes = {}  BY <1>0, <1>9, NothingPartial DEF CommitPass, NoPass
  <2>3. \A a \in Approvals, q \in Requests : a \in req[q] => appr'[a] = appr[a]
    BY <1>9, CommitEffect DEF HolderAlone, LockedByLadder
  <2>4. \A a \in Approvals : LockedByLadder(a)' => LockedByLadder(a)
    BY <2>1, <2>2 DEF LockedByLadder
  <2> QED BY <2>1, <2>3, <2>4 DEF HolderAlone
<1>10. CASE UNCHANGED vars BY <1>10 DEF vars, HolderAlone, LockedByLadder
<1> QED
  BY <1>1, <1>2, <1>3, <1>4, <1>5, <1>7, <1>8, <1>9, <1>10 DEF Next, Pass

(* Steps that neither decide nor answer leave the outbox as it tells.      *)
LEMMA Undecided ==
  ASSUME Types, Decisions, UNCHANGED <<events, answers>>,
         \A a \in Approvals :
           /\ appr'[a].status \in {appr[a].status, "expired"}
              \/ (appr[a].status = "absent" /\ appr'[a].status = "pending")
           /\ appr'[a].status = "approved" => /\ appr'[a].edit = appr[a].edit
                                              /\ appr'[a].tier = appr[a].tier
  PROVE  Decisions'
<1>1. EventsTell' BY DEF Decisions, EventsTell, Decided
<1>2. OneDecision' BY DEF Decisions, OneDecision
<1>3. AuthorityHolds'  BY DEF Decisions, AuthorityHolds
<1> QED BY <1>1, <1>2, <1>3 DEF Decisions

(* A tap decides once and every later tap is told that decision (resolve). *)
LEMMA DecisionStep ==
  ASSUME Types, HolderAlone, Decisions, [Next]_vars
  PROVE  Decisions'
<1>0. /\ appr \in [Approvals -> RowType]
      /\ events \in [Approvals -> Seq(Decided)] /\ answers \in [Approvals -> Seq(Outcomes)]
  BY Shapes DEF Types
<1>1. ASSUME NEW a \in Approvals, CreateApproval(a) PROVE Decisions'
  BY <1>0, <1>1, Undecided DEF CreateApproval, RowType
<1>2. ASSUME NEW a \in Approvals, Tick(a) PROVE Decisions'
  BY <1>2, Undecided DEF Tick
<1>3. ASSUME NEW a \in Approvals, NEW q \in Requests, Handle(q, a) PROVE Decisions'
  <2>1. CASE TakeRow(q, a) BY <2>1, Undecided DEF TakeRow
  <2>2. ASSUME NEW outcome \in Outcomes, Answer(a, outcome), UNCHANGED <<appr, events>>,
               outcome \in Decided => appr[a].status = outcome
        PROVE  Decisions'
    BY <1>0, <2>2 DEF Decisions, EventsTell, AuthorityHolds, Answer, OneDecision
  <2>3. CASE AnswerReplay(q, a)  BY <1>0, <2>2, <2>3 DEF AnswerReplay, Outcomes, RowType
  <2>4. CASE AnswerGone(q, a)  BY <2>2, <2>4 DEF Outcomes, Decided, AnswerGone
  <2> QED BY <1>3, <2>1, <2>3, <2>4 DEF Handle
<1>4. ASSUME NEW q \in Requests, Finish(q) PROVE Decisions'
  <2>1. PICK a \in Approvals, status \in Decided, edit \in SUBSET Nat :
          /\ a \in req[q] /\ appr[a].status = "pending" /\ Write(q, a, status, edit)
          /\ status = "approved" => \A e \in edit : e <= appr[a].tier
    BY <1>4, Finished
  <2>2. /\ \A b \in Approvals \ {a} : appr'[b] = appr[b] /\ events'[b] = events[b]
                                       /\ answers'[b] = answers[b]
        /\ appr'[a].status = status /\ appr'[a].edit = edit /\ appr'[a].tier = appr[a].tier
        /\ events'[a] = Append(events[a], status)
        /\ answers'[a] = Append(answers[a], status)
    BY <2>1, WriteEffect
  <2>3. events[a] = <<>> BY <2>1 DEF Decisions, EventsTell
  <2>4. events'[a] = <<status>> BY <2>2, <2>3
  <2>5. \A i \in DOMAIN answers[a] : answers[a][i] \notin Decided
    BY <2>3 DEF Decisions, OneDecision
  <2>6. \A i \in DOMAIN answers'[a] : answers'[a][i] \in Decided => answers'[a][i] = status
    BY <1>0, <2>2, <2>5
  <2>7. EventsTell'  BY <2>2, <2>4 DEF Decided, Decisions, EventsTell
  <2>8. OneDecision'
    <3>1. Len(events'[a]) <= 1 BY <2>4
    <3>2. ASSUME NEW i \in DOMAIN answers'[a], answers'[a][i] \in Decided
          PROVE  events'[a] = <<answers'[a][i]>>
      BY <2>4, <2>6, <3>2
    <3>3. \A b \in Approvals \ {a} :
            /\ Len(events'[b]) <= 1
            /\ \A i \in DOMAIN answers'[b] :
                 answers'[b][i] \in Decided => events'[b] = <<answers'[b][i]>>
      BY <2>2 DEF Decisions, OneDecision
    <3> QED BY <3>1, <3>2, <3>3 DEF OneDecision
  <2>9. AuthorityHolds' BY <2>1, <2>2 DEF Decisions, AuthorityHolds
  <2> QED BY <2>7, <2>8, <2>9 DEF Decisions
<1>5. ASSUME NEW q \in Requests, AbortRequest(q) PROVE Decisions'
  BY <1>5, Undecided DEF AbortRequest
<1>6. ASSUME NEW l \in Ladders, StartPass(l) \/ ReadPending(l) \/ WalkRow(l) \/ AbortPass(l)
      PROVE  Decisions'  BY <1>6, Undecided DEF StartPass, ReadPending, WalkRow, AbortPass
<1>7. ASSUME NEW l \in Ladders, CommitPass(l) PROVE Decisions'
  BY <1>7, CommitEffect, Undecided DEF CommitPass
<1>8. CASE UNCHANGED vars BY <1>8, Undecided DEF vars
<1> QED
  BY <1>1, <1>2, <1>3, <1>4, <1>5, <1>6, <1>7, <1>8 DEF Next, Pass

-----------------------------------------------------------------------------
(* Notices and their stamps                                                *)

(* A step that keeps stamps, notices and passes keeps the account. *)
LEMMA Unnoticed ==
  ASSUME Types, Accounts, notices' = notices, lad' = lad,
         failures' \in Nat, failures <= failures',
         \A a \in Approvals : /\ appr'[a].reminded = appr[a].reminded
                              /\ appr'[a].escalated = appr[a].escalated
  PROVE  Accounts'
<1>1. \A l \in Ladders : DOMAIN lad[l].todo \subseteq Approvals
                        /\ DOMAIN lad[l].writes \subseteq Approvals
  BY DEF Types, TypeOK
<1>2. PassFresh' BY <1>1 DEF Accounts, PassFresh
<1>3. ASSUME NEW a \in Approvals
      PROVE  notices'[a].remind + notices'[a].escalate
               <= Stamps(a)' + Unstamped(a)' + failures'
  <2>1. Stamps(a)' = Stamps(a) /\ Unstamped(a)' = Unstamped(a) /\ notices'[a] = notices[a]
    BY DEF Stamps, Unstamped
  <2>2. /\ Stamps(a) \in Nat /\ Unstamped(a) \in Nat /\ failures \in Nat
        /\ notices[a].remind \in Nat /\ notices[a].escalate \in Nat
    BY LifecycleAssumption DEF Stamps, Unstamped, Types, TypeOK
  <2>3. notices[a].remind + notices[a].escalate <= Stamps(a) + Unstamped(a) + failures
    BY DEF Accounts, NoticesStamped
  <2> QED BY <2>1, <2>2, <2>3
<1> QED BY <1>2, <1>3 DEF Accounts, NoticesStamped

(* With one scheduler, a row's update on its way is the one of that pass. *)
LEMMA OnePass ==
  ASSUME OneScheduler, NEW l \in Ladders, NEW a
  PROVE  Unstamped(a) = IF a \in DOMAIN lad[l].writes /\ lad[l].writes[a] \in Notice
                          THEN 1 ELSE 0
<1>1. \A m \in Ladders : m = l BY DEF OneScheduler
<1> QED BY <1>1 DEF Unstamped

(* The same of the next state. *)
LEMMA OnePassNext ==
  ASSUME OneScheduler, NEW l \in Ladders, NEW a
  PROVE  Unstamped(a)' = IF a \in DOMAIN lad'[l].writes /\ lad'[l].writes[a] \in Notice
                           THEN 1 ELSE 0
<1>1. \A m \in Ladders : m = l BY DEF OneScheduler
<1> QED BY <1>1 DEF Unstamped

(* The counts of the account are numbers. *)
LEMMA Counts ==
  ASSUME Types, NEW a \in Approvals
  PROVE  /\ Stamps(a) \in 0..2 /\ Unstamped(a) \in 0..1 /\ failures \in Nat
         /\ notices[a].remind \in Nat /\ notices[a].escalate \in Nat
BY LifecycleAssumption DEF Stamps, Unstamped, Types, TypeOK

(* A pass that walks a row notifies and writes the stamp, or does neither. *)
LEMMA WalkAccounted ==
  ASSUME Types, Accounts, OneScheduler, NEW l \in Ladders, WalkRow(l)
  PROVE  Accounts'
<1>0. /\ lad \in [Ladders -> PassType] /\ lad[l] \in PassType
      /\ \A k \in Ladders : k = l
  BY DEF Types, OneScheduler
<1>1. PICK a \in DOMAIN lad[l].todo : Walked(l, a) BY Walks
<1>2. /\ a \in Approvals /\ Transition(l, a) \in Moves \cup {"none"}
  BY <1>1, WalkTypes
<1>3. /\ lad'[l].todo = Rest(lad[l].todo, a)
      /\ Transition(l, a) = "none" => lad'[l].writes = lad[l].writes
      /\ Transition(l, a) # "none" =>
           lad'[l].writes = [x \in DOMAIN lad[l].writes \cup {a} |->
                               IF x = a THEN Transition(l, a) ELSE lad[l].writes[x]]
  BY <1>1, WalkWrites
<1>4. /\ UNCHANGED <<appr, failures>> /\ lad[l].at = "walk" BY DEF WalkRow
<1>5. lad'[l].at = "walk" BY <1>0, <1>1, <1>4 DEF Walked, PassType
<1>6. /\ Transition(l, a) = "remind" => ~ appr[a].reminded
      /\ Transition(l, a) = "escalate" => ~ appr[a].escalated
      /\ a \notin DOMAIN lad[l].writes
  BY DEF Accounts, PassFresh, Transition
<1>7. PassFresh'  BY <1>0, <1>3, <1>4, <1>5, <1>6 DEF Rest, Accounts, PassFresh
<1>8. ASSUME NEW b \in Approvals
      PROVE  notices'[b].remind + notices'[b].escalate
               <= Stamps(b)' + Unstamped(b)' + failures'
  <2>1. Stamps(b)' = Stamps(b) /\ failures' = failures BY <1>4 DEF Stamps
  <2>2. notices[b].remind + notices[b].escalate <= Stamps(b) + Unstamped(b) + failures
    BY DEF Accounts, NoticesStamped
  <2>3. CASE b = a /\ Transition(l, a) \in Notice
    <3>1. Unstamped(b) = 0 BY <1>6, <2>3, OnePass
    <3>2. Unstamped(b)' = 1  BY <1>3, <2>3, OnePassNext DEF Notice
    <3>3. notices'[b].remind + notices'[b].escalate
            = notices[b].remind + notices[b].escalate + 1
      BY <1>1, <1>2, <2>3 DEF Types, Walked, Notice
    <3> QED BY <2>1, <2>2, <3>1, <3>2, <3>3, Counts
  <2>4. CASE ~ (b = a /\ Transition(l, a) \in Notice)
    <3>1. notices'[b] = notices[b] BY <1>1, <2>4 DEF Walked, Types, Notice
    <3>2. Unstamped(b)' = Unstamped(b)  BY <1>3, <1>6, <2>4, OnePass, OnePassNext
    <3> QED BY <2>1, <2>2, <3>1, <3>2
  <2> QED BY <2>3, <2>4
<1> QED BY <1>7, <1>8 DEF Accounts, NoticesStamped

(* A commit turns the updates of the pass into stamps. *)
LEMMA CommitAccounted ==
  ASSUME Types, Accounts, OneScheduler, NEW l \in Ladders, CommitPass(l)
  PROVE  Accounts'
<1>0. \A k \in Ladders : k = l BY DEF OneScheduler
<1>1. /\ DOMAIN lad'[l].writes = {} /\ DOMAIN lad'[l].todo = {}
      /\ UNCHANGED <<notices, failures>>  BY NothingPartial DEF CommitPass, NoPass, Types
<1>2. PassFresh' BY <1>0, <1>1 DEF PassFresh
<1>3. ASSUME NEW a \in Approvals
      PROVE  notices'[a].remind + notices'[a].escalate
               <= Stamps(a)' + Unstamped(a)' + failures'
  <2>1. notices[a].remind + notices[a].escalate <= Stamps(a) + Unstamped(a) + failures
    BY DEF Accounts, NoticesStamped
  <2>2. Unstamped(a)' = 0 BY <1>1, OnePassNext
  <2>3. appr[a] \in RowType BY Shapes
  <2>4. Stamps(a)' = Stamps(a) + Unstamped(a)
    BY <2>3, OnePass, Counts DEF CommitPass, Stamps, Types, TypeOK, Written, RowType, Notice,
       Accounts, PassFresh, Moves
  <2> QED BY <1>1, <2>1, <2>2, <2>4, Counts
<1> QED BY <1>2, <1>3 DEF Accounts, NoticesStamped

(* Every notice keeps its stamp, its pass or its failure                   *)
(* (_ladder_for_org).                                                      *)
LEMMA AccountsStep ==
  ASSUME Types, HolderAlone, Accounts, OneScheduler, [Next]_vars
  PROVE  Accounts'
<1> USE LifecycleAssumption
<1>0. /\ appr \in [Approvals -> RowType] /\ failures \in Nat
      /\ lad \in [Ladders -> PassType]
  BY Shapes DEF Types
<1>1. ASSUME NEW a \in Approvals, CreateApproval(a) PROVE Accounts'
  BY <1>0, <1>1, Unnoticed DEF CreateApproval, RowType
<1>2. ASSUME UNCHANGED <<appr, lad, notices, failures>> PROVE Accounts'
  BY <1>0, <1>2, Unnoticed
<1>3. ASSUME NEW q \in Requests, Finish(q) PROVE Accounts'
  <2>1. PICK a \in Approvals, status \in Decided, edit \in SUBSET Nat : Write(q, a, status, edit)
    BY <1>3, Finished
  <2>2. appr' = [appr EXCEPT ![a] = [@ EXCEPT !.status = status, !.edit = edit]]
    BY <2>1 DEF Write
  <2>3. \A b \in Approvals : /\ appr'[b].reminded = appr[b].reminded
                             /\ appr'[b].escalated = appr[b].escalated
    BY <1>0, <2>2 DEF RowType
  <2> QED BY <1>0, <2>1, <2>3, Unnoticed DEF Write
<1>4. ASSUME NEW q \in Requests, AbortRequest(q) PROVE Accounts'
  BY <1>0, <1>4, Unnoticed DEF AbortRequest
<1>5. ASSUME NEW l \in Ladders, UNCHANGED <<appr, notices>>,
             failures' \in Nat, failures' = failures \/ failures' = failures + 1,
             DOMAIN lad'[l].writes = {}, lad'[l].at # "walk" => DOMAIN lad'[l].todo = {},
             \A a \in DOMAIN lad'[l].todo : lad'[l].todo[a] = appr[a],
             failures' = failures => DOMAIN lad[l].writes = {}
      PROVE  Accounts'
  BY <1>5, OnePassNext, OnePass, Counts DEF PassFresh, OneScheduler, Accounts, NoticesStamped,
     Stamps
<1>6. ASSUME NEW l \in Ladders, StartPass(l) PROVE Accounts'
  BY <1>0, <1>5, <1>6, NothingPartial DEF StartPass, NoPass, Accounts, PassFresh
<1>7. ASSUME NEW l \in Ladders, ReadPending(l) PROVE Accounts'
  <2>1. lad[l] \in PassType BY <1>0
  <2>2. /\ lad'[l].writes = lad[l].writes /\ lad'[l].at = "walk"
        /\ lad'[l].todo = [a \in {x \in Approvals : appr[x].status = "pending"} |-> appr[a]]
    BY <1>0, <1>7, <2>1 DEF ReadPending, PassType
  <2>3. DOMAIN lad[l].writes = {} BY <1>7 DEF ReadPending, Accounts, PassFresh
  <2> QED BY <1>0, <1>5, <1>7, <2>2, <2>3 DEF ReadPending
<1>8. ASSUME NEW l \in Ladders, AbortPass(l) PROVE Accounts'
  <2>1. lad'[l].writes = Nothing /\ lad'[l].todo = Nothing
    BY <1>0, <1>8 DEF AbortPass, NoPass
  <2>2. failures' = failures + 1 /\ UNCHANGED <<appr, notices>> BY <1>8 DEF AbortPass
  <2> QED BY <1>0, <1>5, <2>1, <2>2, NothingPartial
<1>9. ASSUME NEW a \in Approvals, Tick(a) \/ \E q \in Requests : Handle(q, a) PROVE Accounts'
  BY <1>2, <1>9 DEF Tick, Handle, TakeRow, AnswerReplay, AnswerGone
<1>10. CASE UNCHANGED vars BY <1>2, <1>10 DEF vars
<1> QED
  BY <1>1, <1>3, <1>4, <1>6, <1>7, <1>8, <1>9, <1>10, WalkAccounted, CommitAccounted
     DEF Next, Pass

-----------------------------------------------------------------------------
(* The theorems                                                            *)

(* Nothing is open, held or written before the first step. *)
LEMMA Start == Init => Inv
<1> SUFFICES ASSUME Init PROVE Inv OBVIOUS
<1> USE LifecycleAssumption
<1>1. Types
  <2>1. NoRow \in RowType BY DEF NoRow, RowType, Statuses
  <2>2. DOMAIN NoPass.todo = {} /\ DOMAIN NoPass.writes = {} /\ NoPass.at = "idle"
    BY NothingPartial DEF NoPass
  <2>3. \A l \in Ladders :
          /\ lad[l].at \in {"idle", "read", "walk"}
          /\ DOMAIN lad[l].todo \subseteq Approvals /\ DOMAIN lad[l].writes \subseteq Approvals
          /\ \A a \in DOMAIN lad[l].writes : lad[l].writes[a] \in Moves
    BY <2>2 DEF Init
  <2>4. lad \in [Ladders -> PassType] BY NoPassType DEF Init
  <2>5. /\ appr \in [Approvals -> RowType] /\ age \in [Approvals -> Fresh..Over]
        /\ req \in [Requests -> SUBSET Approvals] /\ failures \in 0..MaxFailures
    BY <2>1 DEF Init, Fresh, Over
  <2>6. /\ events \in [Approvals -> Seq(Decided)] /\ answers \in [Approvals -> Seq(Outcomes)]
        /\ notices \in [Approvals -> [remind : Nat, escalate : Nat]]
    BY DEF Init
  <2> QED BY <2>3, <2>4, <2>5, <2>6 DEF Types, TypeOK, Outcomes
<1>2. HolderAlone BY DEF Init, HolderAlone
<1>3. EventsTell /\ AuthorityHolds
  BY DEF Init, EventsTell, AuthorityHolds, NoRow, Decided
<1>4. OneDecision BY DEF Init, OneDecision
<1> QED BY <1>1, <1>2, <1>3, <1>4 DEF Inv, Decisions

(* The invariant holds throughout. *)
LEMMA Invariance == Spec => []Inv
<1>1. Inv /\ [Next]_vars => Inv'  BY TypeStep, HolderStep, DecisionStep DEF Inv
<1> QED BY Start, <1>1, PTL DEF Spec

(* The approval rows, the requests and the ladder keep their types         *)
(* (service.py, notify.py).                                                *)
THEOREM LifecycleTypes == Spec => []TypeOK
<1>1. Inv => TypeOK BY DEF Inv, Types
<1> QED BY <1>1, Invariance, PTL

(* Any number of concurrent taps, aborted requests and ladder passes leave *)
(* an approval with one decision, and every tap that is told a decision is *)
(* told that one (resolve's row lock, service.py).                         *)
THEOREM OneDecisionAlways == Spec => []OneDecision
<1>1. Inv => OneDecision BY DEF Inv, Decisions
<1> QED BY <1>1, Invariance, PTL

(* No approved row carries an edit above the tier the row was raised at    *)
(* (approve-with-edit, service.py).                                        *)
THEOREM AuthorityAlwaysHolds == Spec => []AuthorityHolds
<1>1. Inv => AuthorityHolds BY DEF Inv, Decisions
<1> QED BY <1>1, Invariance, PTL

(* With one scheduler process, as it is deployed, an approval's reminders  *)
(* and escalations are repeated only for a pass that died between a notice *)
(* and its stamp (_ladder_for_org, notify_approval).                       *)
THEOREM NoticesAlwaysAccounted ==
  ASSUME OneScheduler
  PROVE  Spec => []NoticesAccounted
<1>1. Init => Accounts
  <2> SUFFICES ASSUME Init PROVE Accounts OBVIOUS
  <2>1. NoPass.todo = Nothing /\ NoPass.writes = Nothing BY DEF NoPass
  <2>2. PassFresh BY <2>1, NothingPartial DEF Init, PassFresh
  <2>3. ASSUME NEW a \in Approvals
        PROVE  notices[a].remind + notices[a].escalate <= Stamps(a) + Unstamped(a) + failures
    BY <2>1, NothingPartial DEF Init, NoRow, Stamps, Unstamped
  <2> QED BY <2>2, <2>3 DEF Accounts, NoticesStamped
<1>2. Inv /\ Accounts /\ [Next]_vars => Accounts'
  BY AccountsStep DEF Inv
<1>3. Inv /\ Accounts => NoticesAccounted
  BY Counts DEF NoticesAccounted, Accounts, NoticesStamped, Inv, PassFresh, Notice, Stamps,
     Unstamped
<1> QED BY <1>1, <1>2, <1>3, Invariance, PTL DEF Spec

=============================================================================
