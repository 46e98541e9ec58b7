------------------------- MODULE ApprovalLifecycle -------------------------
(***************************************************************************)
(* The life of an approval: core/approvals/service.py (create_approval and *)
(* resolve), the request that wraps resolve (api.py and get_db, one        *)
(* transaction per request, rolled back when the handler raises) and the   *)
(* escalation ladder of notify.py, which a scheduler process runs once a   *)
(* minute.                                                                 *)
(*                                                                         *)
(* Sessions run at READ COMMITTED.  resolve holds the row's lock from its  *)
(* SELECT ... FOR UPDATE to its commit.  The ladder's SELECT locks         *)
(* nothing, its UPDATEs name the row by id alone, and each holds the row's *)
(* lock until the pass over the organisation commits.                      *)
(*                                                                         *)
(* Time is the part of an approval's window that has passed: 0, Remind     *)
(* (half), Escalate (three quarters) and Over.                             *)
(***************************************************************************)
EXTENDS Integers, Sequences, FiniteSets

CONSTANTS
  Approvals,      \* approvals of one organisation
  Requests,       \* resolve requests that may be in flight at once
  Ladders,        \* scheduler processes
  Tiers,          \* tiers the policy engine can give an edited payload
  MaxAnswers,     \* bound: requests answered per approval
  MaxFailures     \* bound: requests or ladder passes that die midway

ASSUME LifecycleAssumption ==
  /\ Tiers \subseteq Nat
  /\ MaxAnswers \in Nat /\ MaxFailures \in Nat

Fresh    == 0
Remind   == 1
Escalate == 2
Over     == 3
Decided == {"approved", "rejected"}

VARIABLES
  appr,      \* approvals: status, tier, edit (the tier of the edited payload,
             \* if any), and the two ladder stamps
  age,       \* how much of each approval's window has passed
  events,    \* approval.resolved.v1 decisions in the outbox, per approval
  req,       \* the approval whose row each request holds, if any
  lad,       \* what each ladder pass has read, written and locked
  answers,   \* history: outcomes answered, per approval: a status or "gone"
  notices,   \* history: reminders and escalations delivered, per approval
  failures   \* how much of the bound is used

vars == <<appr, age, events, req, lad, answers, notices, failures>>

NoRow == [status |-> "absent", tier |-> 0, edit |-> {},
          reminded |-> FALSE, escalated |-> FALSE]
Nothing == [a \in {} |-> "none"]
NoPass == [at |-> "idle", ages |-> [a \in Approvals |-> Fresh], todo |-> Nothing,
           writes |-> Nothing]

Init ==
  /\ appr = [a \in Approvals |-> NoRow]
  /\ age = [a \in Approvals |-> Fresh]
  /\ events = [a \in Approvals |-> <<>>]
  /\ req = [q \in Requests |-> {}]
  /\ lad = [l \in Ladders |-> NoPass]
  /\ answers = [a \in Approvals |-> <<>>]
  /\ notices = [a \in Approvals |-> [remind |-> 0, escalate |-> 0]]
  /\ failures = 0

-----------------------------------------------------------------------------
(* create_approval: a pending row at the tier the engine gave the action.  *)
CreateApproval(a) ==
  /\ appr[a].status = "absent"
  /\ \E tier \in Tiers :
       appr' = [appr EXCEPT ![a].status = "pending", ![a].tier = tier]
  /\ UNCHANGED <<age, events, req, lad, answers, notices, failures>>

(* Time passes for an undecided approval. *)
Tick(a) ==
  /\ appr[a].status = "pending" /\ age[a] < Over
  /\ age' = [age EXCEPT ![a] = @ + 1]
  /\ UNCHANGED <<appr, events, req, lad, answers, notices, failures>>

-----------------------------------------------------------------------------
(* resolve                                                                 *)

LockedByRequest(a) == \E q \in Requests : a \in req[q]
LockedByLadder(a)  == \E l \in Ladders : a \in DOMAIN lad[l].writes
Lockable(a)        == ~ LockedByRequest(a) /\ ~ LockedByLadder(a)

Answer(a, outcome) == answers' = [answers EXCEPT ![a] = Append(@, outcome)]

(* Mutant: a plain SELECT. *)
TakeRowUnlocked(q, a) ==
  /\ req[q] = {} /\ appr[a].status = "pending"
  /\ age[a] < Over /\ Len(answers[a]) < MaxAnswers
  /\ req' = [req EXCEPT ![q] = {a}]
  /\ UNCHANGED <<appr, age, events, lad, answers, notices, failures>>

(* SELECT ... FOR UPDATE, and the clock: the row is pending and its window *)
(* is still open.                                                          *)
TakeRow(q, a) ==
  /\ req[q] = {} /\ Lockable(a) /\ appr[a].status = "pending"
  /\ age[a] < Over /\ Len(answers[a]) < MaxAnswers
  /\ req' = [req EXCEPT ![q] = {a}]
  /\ UNCHANGED <<appr, age, events, lad, answers, notices, failures>>

(* A row that is not pending any more is answered with its status. *)
AnswerReplay(q, a) ==
  /\ req[q] = {} /\ Lockable(a)
  /\ appr[a].status \notin {"absent", "pending"} /\ Len(answers[a]) < MaxAnswers
  /\ Answer(a, appr[a].status)
  /\ UNCHANGED <<appr, age, events, req, lad, notices, failures>>

(* The window has passed: the row is marked expired and ApprovalExpired is *)
(* raised; the request answers 410 and get_db rolls the mark back.         *)
AnswerGone(q, a) ==
  /\ req[q] = {} /\ Lockable(a) /\ appr[a].status = "pending"
  /\ age[a] = Over /\ Len(answers[a]) < MaxAnswers
  /\ Answer(a, "gone")
  /\ UNCHANGED <<appr, age, events, req, lad, notices, failures>>

(* The decision, its event and its answer commit together. *)
Write(q, a, status, edit) ==
  /\ appr' = [appr EXCEPT ![a].status = status, ![a].edit = edit]
  /\ events' = [events EXCEPT ![a] = Append(@, status)]
  /\ Answer(a, status)
  /\ req' = [req EXCEPT ![q] = {}]
  /\ UNCHANGED <<age, lad, notices, failures>>

Decide(q) ==
  \E a \in req[q], status \in Decided : Write(q, a, status, {})

(* Mutant: the edited payload keeps the decision. *)
ApproveAnyEdit(q) ==
  \E a \in req[q], newTier \in Tiers :
    Write(q, a, "approved", {newTier})

(* An approve-with-edit re-runs the engine on the edited payload.  An edit *)
(* that raises the tier becomes a rejection; the row keeps its tier.        *)
ApproveWithEdit(q) ==
  \E a \in req[q], newTier \in Tiers :
    Write(q, a, IF newTier > appr[a].tier THEN "rejected" ELSE "approved", {newTier})

(* The request dies or raises before its commit. *)
AbortRequest(q) ==
  /\ req[q] # {} /\ failures < MaxFailures
  /\ req' = [req EXCEPT ![q] = {}]
  /\ failures' = failures + 1
  /\ UNCHANGED <<appr, age, events, lad, answers, notices>>

-----------------------------------------------------------------------------
(* run_approval_ladder                                                     *)

(* The clock is read once, before the SELECT of any organisation. *)
StartPass(l) ==
  /\ lad[l].at = "idle"
  /\ lad' = [lad EXCEPT ![l] = [NoPass EXCEPT !.at = "read", !.ages = age]]
  /\ UNCHANGED <<appr, age, events, req, answers, notices, failures>>

(* The SELECT of the pending rows; ages of rows created since are 0. *)
ReadPending(l) ==
  /\ lad[l].at = "read"
  /\ lad' = [lad EXCEPT ![l].at = "walk",
               ![l].todo = [a \in {x \in Approvals : appr[x].status = "pending"} |-> appr[a]]]
  /\ UNCHANGED <<appr, age, events, req, answers, notices, failures>>

(* Mutant: nothing expires. *)
TransitionUnexpired(l, a) ==
  LET seen == lad[l].todo[a] IN
    IF ~ seen.escalated THEN "escalate" ELSE IF ~ seen.reminded THEN "remind" ELSE "none"

(* What the pass does to a row it read, by the clock it took: one of the   *)
(* three transitions, the most advanced first.                             *)
Transition(l, a) ==
  LET seen == lad[l].todo[a]  elapsed == lad[l].ages[a] IN
    IF elapsed = Over THEN "expire"
    ELSE IF elapsed >= Escalate /\ ~ seen.escalated THEN "escalate"
    ELSE IF elapsed >= Remind /\ ~ seen.reminded THEN "remind"
    ELSE "none"

Rest(f, a) == [x \in DOMAIN f \ {a} |-> f[x]]

(* One row of the pass.  A notice leaves before its stamp is committed;    *)
(* the UPDATE waits for the row's lock and keeps it.                       *)
WalkRow(l) ==
  /\ lad[l].at = "walk"
  /\ \E a \in DOMAIN lad[l].todo :
       LET move == Transition(l, a) IN
         /\ move # "none" => Lockable(a)
         /\ lad' = [lad EXCEPT
                      ![l].todo = Rest(@, a),
                      ![l].writes = IF move = "none" THEN @
                                    ELSE [x \in DOMAIN @ \cup {a} |->
                                            IF x = a THEN move ELSE @[x]]]
         /\ notices' = IF move \in {"remind", "escalate"}
                         THEN [notices EXCEPT ![a][move] = @ + 1] ELSE notices
  /\ UNCHANGED <<appr, age, events, req, answers, failures>>

(* Mutants: a status the table's CHECK refuses; a stamp is forgotten. *)
WrittenLapsed(row, move) ==
  IF move = "expire" THEN [row EXCEPT !.status = "lapsed"] ELSE row

WrittenUnstamped(row, move) ==
  IF move = "expire" THEN [row EXCEPT !.status = "expired"] ELSE row

Written(row, move) ==
  CASE move = "expire"   -> [row EXCEPT !.status = "expired"]
    [] move = "escalate" -> [row EXCEPT !.escalated = TRUE]
    [] move = "remind"   -> [row EXCEPT !.reminded = TRUE]

CommitPass(l) ==
  /\ lad[l].at = "walk" /\ DOMAIN lad[l].todo = {}
  /\ appr' = [a \in Approvals |->
                IF a \in DOMAIN lad[l].writes
                  THEN Written(appr[a], lad[l].writes[a]) ELSE appr[a]]
  /\ lad' = [lad EXCEPT ![l] = NoPass]
  /\ UNCHANGED <<age, events, req, answers, notices, failures>>

(* The pass raises or its process dies: its stamps roll back. *)
AbortPass(l) ==
  /\ lad[l].at = "walk" /\ failures < MaxFailures
  /\ lad' = [lad EXCEPT ![l] = NoPass]
  /\ failures' = failures + 1
  /\ UNCHANGED <<appr, age, events, req, answers, notices>>

-----------------------------------------------------------------------------
Handle(q, a) == TakeRow(q, a) \/ AnswerReplay(q, a) \/ AnswerGone(q, a)
Finish(q)    == Decide(q) \/ ApproveWithEdit(q)
Pass(l)      == StartPass(l) \/ ReadPending(l) \/ WalkRow(l) \/ CommitPass(l)

Next ==
  \/ \E a \in Approvals : CreateApproval(a) \/ Tick(a)
                          \/ \E q \in Requests : Handle(q, a)
  \/ \E q \in Requests : Finish(q) \/ AbortRequest(q)
  \/ \E l \in Ladders : Pass(l) \/ AbortPass(l)

Spec == Init /\ [][Next]_vars

(* Time passes, a request that holds a row ends, and the scheduler runs    *)
(* the ladder every minute.  Nobody has to decide.                         *)
Fairness ==
  /\ \A a \in Approvals : WF_vars(Tick(a))
  /\ \A q \in Requests : WF_vars(Finish(q))
  /\ \A l \in Ladders : WF_vars(Pass(l))

FairSpec == Spec /\ Fairness
-----------------------------------------------------------------------------
(* Properties                                                              *)

Statuses == {"absent", "pending", "expired"} \cup Decided
Moves    == {"expire", "escalate", "remind"}

RowType == [status : Statuses, tier : Nat, edit : SUBSET Nat,
            reminded : BOOLEAN, escalated : BOOLEAN]

(* Every variable keeps its type (service.py, notify.py).                  *)
TypeOK ==
  /\ appr \in [Approvals -> RowType]
  /\ age \in [Approvals -> Fresh..Over]
  /\ \A a \in Approvals : events[a] \in Seq(Decided)
  /\ req \in [Requests -> SUBSET Approvals]
  /\ \A l \in Ladders :
       /\ lad[l].at \in {"idle", "read", "walk"}
       /\ DOMAIN lad[l].todo \subseteq Approvals
       /\ DOMAIN lad[l].writes \subseteq Approvals
       /\ \A a \in DOMAIN lad[l].writes : lad[l].writes[a] \in Moves
  /\ \A a \in Approvals : answers[a] \in Seq((Statuses \cup {"gone"}) \ {"absent", "pending"})
  /\ failures \in 0..MaxFailures

(* Concurrent taps resolve an approval once: one event, and every tap that *)
(* is told a decision is told the one the event carries (resolve's row     *)
(* lock).                                                                  *)
OneDecision ==
  \A a \in Approvals :
    /\ Len(events[a]) <= 1
    /\ \A i \in DOMAIN answers[a] :
         answers[a][i] \in Decided => events[a] = <<answers[a][i]>>

(* No approval carries an edit above the tier it was raised at, whichever  *)
(* of several taps carried the edit (approve-with-edit).                   *)
AuthorityHolds ==
  \A a \in Approvals :
    appr[a].status = "approved" => \A edited \in appr[a].edit : edited <= appr[a].tier

(* A reminder or escalation is repeated only for a pass that died between  *)
(* the notice and its stamp (_ladder_for_org, notify_approval).            *)
NoticesAccounted ==
  \A a \in Approvals : notices[a].remind + notices[a].escalate <= 2 + failures

(* A tap that is answered after a decision is told that decision.          *)
FirstOutcomeAnswered ==
  \A a \in Approvals : \A i, j \in DOMAIN answers[a] :
    (i < j /\ answers[a][i] \in Decided) => answers[a][j] = answers[a][i]

(* Nobody has to answer: a pending approval is decided or expires.         *)
ApprovalsEnd ==
  \A a \in Approvals : appr[a].status = "pending" ~> appr[a].status # "pending"
=============================================================================
