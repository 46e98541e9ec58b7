----------------------------- MODULE Templates ------------------------------
(* One message template of one store (channels/whatsapp/templates.py): edits,  *)
(* submissions around the call of Meta, the reviews that come back as webhooks *)
(* of the WABA, and the passes that drain them without claiming them.  Texts   *)
(* are numbered in the order they were written; 0 is no template.              *)
EXTENDS Channels, Sequences

CONSTANTS
  Shop,         \* the store of the template
  Submitters,   \* calls of submit_template
  Drainers,     \* passes of process_template_status_pending
  MaxTexts,     \* bound on edits
  MaxReviews    \* bound on webhooks of reviews

ASSUME TemplatesAssumption == MaxTexts \in Nat /\ MaxReviews \in Nat

VARIABLES
  template,     \* the row: its text and provider_status
  review,       \* Meta: the text it holds and what it thinks of it
  notices,      \* webhook_events, in the order received
  submission,   \* what each call has read, and how many notices there were
  drain,        \* the events each pass has scanned and not yet handled
  late,         \* history: the status is the review of another text
  disturbed     \* history: how the status may have missed the last word

templateVars == <<template, review, notices, submission, drain, late, disturbed>>

Quiet == [at |-> "none"]

TemplatesInit ==
  /\ template = [text |-> 0, status |-> "draft"]
  /\ review = [text |-> 0, status |-> "none"]
  /\ notices = << >>
  /\ submission = [q \in Submitters |-> Quiet]
  /\ drain = [d \in Drainers |-> {}]
  /\ late = FALSE
  /\ disturbed = {}

KeptStatus == template.status

StatusOfEdit == "draft"

(* upsert_template, or a pack's seed: the text must be submitted again.        *)
UpsertTemplate ==
  /\ template.text < MaxTexts
  /\ template' = [text |-> template.text + 1, status |-> StatusOfEdit]
  /\ late' = FALSE
  /\ UNCHANGED <<review, notices, submission, drain, disturbed>>

(* submit_template reads the text, and calls Meta with no lock held.           *)
ReadTemplate(q) ==
  /\ submission[q] = Quiet /\ template.text > 0
  /\ \E r \in Wired :
       /\ channel[r].store = Shop
       /\ submission' = [submission EXCEPT ![q] =
            [at |-> "called", text |-> template.text, waba |-> credential[r].waba]]
  /\ UNCHANGED <<template, review, notices, drain, late, disturbed>>

(* Meta holds one text under the name, and refuses the one it has.             *)
MetaTakes(q) ==
  /\ submission[q].at = "called" /\ submission[q].text # review.text
  /\ review' = [text |-> submission[q].text, status |-> "PENDING", waba |-> submission[q].waba]
  /\ submission' = [submission EXCEPT ![q] = [at |-> "taken", text |-> submission[q].text,
                                              since |-> Len(notices)]]
  /\ UNCHANGED <<template, notices, drain, late, disturbed>>

(* Meta refuses, and nothing is written; or its answer is lost.                *)
SubmissionFails(q) ==
  /\ submission[q].at \in {"called", "taken"}
  /\ submission' = [submission EXCEPT ![q] = Quiet]
  /\ disturbed' = disturbed \cup IF submission[q].at = "taken" THEN {"lost"} ELSE {}
  /\ UNCHANGED <<template, review, notices, drain, late>>

RecordPending(q) ==
  /\ submission[q].at = "taken"
  /\ template' = [template EXCEPT !.status = "pending"]
  /\ submission' = [submission EXCEPT ![q] = Quiet]
  /\ disturbed' = disturbed \cup
       IF \E k \in DOMAIN notices : k > submission[q].since /\ notices[k].done
       THEN {"overtaken"} ELSE {}
  /\ late' = FALSE
  /\ UNCHANGED <<review, notices, drain>>

(* Meta's word, and what _META_STATUS makes of it; one event it does not know. *)
Verdicts == [PENDING |-> {"APPROVED", "REJECTED"}, APPROVED |-> {"PAUSED"},
             PAUSED |-> {"APPROVED"}, REJECTED |-> {}]
StatusOf == [PENDING |-> "pending", APPROVED |-> "approved", REJECTED |-> "rejected",
             PAUSED |-> "paused"]

MetaReviews ==
  /\ review.text > 0 /\ Len(notices) < MaxReviews
  /\ \E event \in Verdicts[review.status] \cup {"OTHER"} :
       /\ review' = IF event = "OTHER" THEN review ELSE [review EXCEPT !.status = event]
       /\ notices' = Append(notices, [event |-> event, text |-> review.text,
                                      waba |-> review.waba, done |-> FALSE])
  /\ UNCHANGED <<template, submission, drain, late, disturbed>>

Unread == {k \in DOMAIN notices : ~notices[k].done}

(* process_template_status_pending: the scan; what it found is then handled    *)
(* in the order received.                                                      *)
ScanNotices(d) ==
  /\ drain[d] = {} /\ Unread # {} /\ drain' = [drain EXCEPT ![d] = Unread]
  /\ UNCHANGED <<template, review, notices, submission, late, disturbed>>

Oldest(events) == CHOOSE k \in events : \A j \in events : k <= j

(* resolve_channel_by_waba: the first of the rows that name the WABA, if any.  *)
FirstIsShop(waba) ==
  LET rows == {r \in Wired : channel[r].waba = waba}
  IN IF rows = {} THEN {FALSE} ELSE {channel[r].store = Shop : r \in rows}

(* apply_status_update: an unknown event, or one for another store, changes    *)
(* nothing here.                                                               *)
Speaks(note, found) == found /\ note.event \in DOMAIN StatusOf
Reflected(note) == [template EXCEPT !.status = StatusOf[note.event]]

(* _process_one_status in its own transaction; the scanned event is not looked *)
(* at again.                                                                   *)
ApplyNotice(d) ==
  /\ drain[d] # {}
  /\ LET k == Oldest(drain[d])
         note == notices[k]
     IN \E found \in FirstIsShop(note.waba) :
        /\ template' = IF Speaks(note, found) THEN Reflected(note) ELSE template
        /\ late' = IF Speaks(note, found) THEN note.text # template.text ELSE late
        /\ notices' = [notices EXCEPT ![k].done = TRUE]
        /\ disturbed' = disturbed
             \cup (IF found THEN {} ELSE {"unrouted"})
             \cup (IF Speaks(note, found) /\ \E j \in DOMAIN notices : j > k /\ notices[j].done
                   THEN {"misordered"} ELSE {})
  /\ drain' = [drain EXCEPT ![d] = @ \ {Oldest(@)}]
  /\ UNCHANGED <<review, submission>>

MarkedAlthoughFailed(k) == [notices EXCEPT ![k].done = TRUE]

AfterFailure(k) == notices

(* The transaction raises and is rolled back, and the pass goes on; or the     *)
(* pass dies.                                                                  *)
FailNotice(d) ==
  /\ drain[d] # {}
  /\ notices' = AfterFailure(Oldest(drain[d]))
  /\ drain' \in {[drain EXCEPT ![d] = @ \ {Oldest(@)}], [drain EXCEPT ![d] = {}]}
  /\ UNCHANGED <<template, review, submission, late, disturbed>>

TemplatesNext ==
  \/ /\ \/ UpsertTemplate
        \/ \E q \in Submitters :
             ReadTemplate(q) \/ MetaTakes(q) \/ SubmissionFails(q) \/ RecordPending(q)
        \/ MetaReviews
        \/ \E d \in Drainers : ScanNotices(d) \/ ApplyNotice(d) \/ FailNotice(d)
     /\ UNCHANGED channelVars
  \/ (\E r \in Wired : Disconnect(r)) /\ UNCHANGED templateVars

(* assert_template_sendable, at the gate of a send.                            *)
Sendable == template.status = "approved"

--------------------------------------------------------------------------
TemplatesTypeOK ==
  /\ template.text \in 0 .. MaxTexts
  /\ template.status \in {"draft", "pending", "approved", "rejected", "paused"}
  /\ \A d \in Drainers : drain[d] \subseteq DOMAIN notices
  /\ disturbed \subseteq {"lost", "overtaken", "unrouted", "misordered"}

(* assert_template_sendable lets a text go only if Meta approved that text,    *)
(* unless the review of an earlier text came in after the edit (the status is  *)
(* written by name, whatever text it speaks of).                               *)
SentTextWasApproved ==
  Sendable /\ ~late =>
    \E k \in DOMAIN notices : notices[k].event = "APPROVED" /\ notices[k].text = template.text

(* Once all is read, the status is Meta's last word on the current text,       *)
(* whatever submissions and passes are still under way, unless an answer was   *)
(* lost, the submission was recorded after its review, two passes or a failure *)
(* put two reviews out of order, or the WABA found no channel.                 *)
LastWordStands ==
  /\ Unread = {} /\ disturbed = {}
  /\ review.text = template.text /\ review.status \in {"APPROVED", "REJECTED", "PAUSED"}
  => template.status = StatusOf[review.status]

=============================================================================
