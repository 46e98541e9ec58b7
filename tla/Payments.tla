------------------------------ MODULE Payments ------------------------------
(* Charges of one store (src/core/payments): numbering, the payment link, the *)
(* capture webhooks and the sweep that confirms them, the operator's manual   *)
(* confirmation, the receipt.send approval and the delivery of the receipt.   *)
(* Each handler reads the charge in its transaction without a lock and writes *)
(* at the end of it: a clerk is one such handler at work.                     *)
EXTENDS Naturals, FiniteSets

CONSTANTS
  Charges,      \* transactions
  Captures,     \* capture events the provider may post
  CaptureOf,    \* capture event -> the charge its signed notes name
  Drafts,       \* receipt.send approvals
  Clerks,       \* sessions of the API, the sweep and the consumer
  MaxPaymentFaults  \* bound: clerks that die

ASSUME PaymentsAssumption ==
  /\ IsFiniteSet(Charges) /\ IsFiniteSet(Drafts)
  /\ CaptureOf \in [Captures -> Charges] /\ MaxPaymentFaults \in Nat

VARIABLES
  charges,      \* transactions.status and seq, and whether a link exists
  captures,     \* webhook_events of the provider
  drafts,       \* approvals: the charge, the status, deliveries outstanding
  receipts,     \* receipts that left, per charge
  clerk,        \* what each handler read
  slips         \* clerks that died so far

paymentVars == <<charges, captures, drafts, receipts, clerk, slips>>

NoCharge == [status |-> "none", seq |-> 0, linked |-> FALSE]
NoDraft == [status |-> "none", charge |-> {}, events |-> 0]
Resting == [doing |-> "nothing", charge |-> {}, read |-> "none", seq |-> 0,
            capture |-> {}, draft |-> {}]

PaymentsInit ==
  /\ charges = [c \in Charges |-> NoCharge]
  /\ captures = [e \in Captures |-> "unseen"]
  /\ drafts = [d \in Drafts |-> NoDraft]
  /\ receipts = [c \in Charges |-> 0]
  /\ clerk = [k \in Clerks |-> Resting]
  /\ slips = 0

Recorded == {c \in Charges : charges[c].status # "none"}
Put(k, what) == clerk' = [clerk EXCEPT ![k] = what]

-----------------------------------------------------------------------------
(* Numbering and links                                                       *)

(* Mutant: nothing backs the number that was read. *)
FreshNumberAny(n) == n \in Nat

(* UNIQUE (org_id, period_ym, seq), the backstop                             *)
FreshNumber(n) == \A c \in Recorded : charges[c].seq # n

NextNumber == CHOOSE n \in 1..Cardinality(Charges) + 1 :
  /\ \A c \in Charges : charges[c].seq < n
  /\ n = 1 \/ \E c \in Charges : charges[c].seq = n - 1

(* create_transaction: MAX(seq) + 1 is read, and the insert may be refused   *)
ReadNumber(k, c) ==
  /\ clerk[k] = Resting /\ charges[c] = NoCharge
  /\ Put(k, [Resting EXCEPT !.doing = "create", !.charge = {c},
                            !.seq = NextNumber])
  /\ UNCHANGED <<charges, captures, drafts, receipts, slips>>
InsertCharge(k, c) ==
  /\ clerk[k].doing = "create" /\ clerk[k].charge = {c}
  /\ charges' = IF charges[c] = NoCharge /\ FreshNumber(clerk[k].seq)
                THEN [charges EXCEPT ![c] = [status |-> "created", linked |-> FALSE,
                                             seq |-> clerk[k].seq]]
                ELSE charges
  /\ Put(k, Resting)
  /\ UNCHANGED <<captures, drafts, receipts, slips>>

(* create_payment_link: the status is read before the provider is asked; a   *)
(* bound: only where a capture may follow                                    *)
AskForLink(k, c) ==
  /\ \E e \in Captures : CaptureOf[e] = c
  /\ clerk[k] = Resting /\ charges[c].status = "created" /\ ~charges[c].linked
  /\ Put(k, [Resting EXCEPT !.doing = "link", !.charge = {c}])
  /\ UNCHANGED <<charges, captures, drafts, receipts, slips>>
KeepLink(k, c) ==
  /\ clerk[k].doing = "link" /\ clerk[k].charge = {c}
  /\ charges' = [charges EXCEPT ![c].linked = TRUE]
  /\ Put(k, Resting)
  /\ UNCHANGED <<captures, drafts, receipts, slips>>

-----------------------------------------------------------------------------
(* Confirmation: the webhook, the sweep, the operator                        *)

(* ingest: one row per event id                                              *)
PostCapture(e) ==
  /\ captures[e] = "unseen" /\ charges[CaptureOf[e]].linked
  /\ captures' = [captures EXCEPT ![e] = "stored"]
  /\ UNCHANGED <<charges, drafts, receipts, clerk, slips>>

(* _confirm_one reads the charge; two sweeps may hold the same event         *)
ReadCapture(k, e) ==
  /\ clerk[k] = Resting /\ captures[e] = "stored"
  /\ Put(k, [Resting EXCEPT !.doing = "confirm", !.charge = {CaptureOf[e]}, !.capture = {e},
                            !.read = charges[CaptureOf[e]].status])
  /\ UNCHANGED <<charges, captures, drafts, receipts, slips>>

(* request_receipt reads the charge                                          *)
ReadForReceipt(k, c) ==
  /\ clerk[k] = Resting /\ charges[c].status \in {"created", "paid"}
  /\ Put(k, [Resting EXCEPT !.doing = "request", !.charge = {c}, !.read = charges[c].status])
  /\ UNCHANGED <<charges, captures, drafts, receipts, slips>>

(* Mutant: the update does not spare a charge that was receipted meanwhile. *)
MarkPaidAlways(c) == charges' = [charges EXCEPT ![c].status = "paid"]

(* mark_paid_and_request_receipt, its update                                 *)
MarkPaid(c) ==
  charges' = [charges EXCEPT ![c].status = IF @ = "receipted" THEN @ ELSE "paid"]

Draft(c) ==
  \E d \in Drafts :
    /\ drafts[d] = NoDraft
    /\ drafts' = [drafts EXCEPT ![d] = [status |-> "pending", charge |-> {c}, events |-> 0]]

RequestReceipt(k, c) ==
  /\ clerk[k].doing = "request" /\ clerk[k].charge = {c}
  /\ MarkPaid(c) /\ Draft(c) /\ Put(k, Resting)
  /\ UNCHANGED <<captures, receipts, slips>>

(* Mutant: only a charge that is already paid is confirmed. *)
UnpaidWrong(k) == clerk[k].read = "paid"

(* the sweep drafts for a charge it read as created                          *)
Unpaid(k) == clerk[k].read = "created"

ConfirmCapture(k, c) ==
  /\ clerk[k].doing = "confirm" /\ clerk[k].charge = {c}
  /\ IF Unpaid(k) THEN MarkPaid(c) /\ Draft(c) ELSE UNCHANGED <<charges, drafts>>
  /\ captures' = [e \in Captures |-> IF clerk[k].capture = {e} THEN "processed"
                                     ELSE captures[e]]
  /\ Put(k, Resting)
  /\ UNCHANGED <<receipts, slips>>

-----------------------------------------------------------------------------
(* Approval and delivery                                                     *)

ResolveDraft(d) ==
  /\ drafts[d].status = "pending"
  /\ \E verdict \in {"approved", "rejected"} :
       drafts' = [drafts EXCEPT ![d].status = verdict, ![d].events = 1]
  /\ UNCHANGED <<charges, captures, receipts, clerk, slips>>

(* Mutant: what was decided is not looked at. *)
ReleasedAlways(d) == drafts[d].events > 0

(* on_receipt_approval_resolved                                              *)
Released(d) == drafts[d].events > 0 /\ drafts[d].status = "approved"

(* one worker handles a delivery of the event at a time                      *)
ReadForDelivery(k, d) ==
  /\ clerk[k] = Resting /\ Released(d)
  /\ \A other \in Clerks : clerk[other].draft # {d}
  /\ Put(k, [Resting EXCEPT !.doing = "deliver", !.charge = drafts[d].charge, !.draft = {d},
       !.read = (CHOOSE s \in {charges[c].status : c \in drafts[d].charge} : TRUE)])
  /\ UNCHANGED <<charges, captures, drafts, receipts, slips>>

(* deliver_receipt: the copy leaves, then the charge is receipted            *)
SendReceipt(k, c) ==
  /\ clerk[k].doing = "deliver" /\ clerk[k].charge = {c} /\ clerk[k].read # "receipted"
  /\ receipts' = [receipts EXCEPT ![c] = @ + 1]
  /\ clerk' = [clerk EXCEPT ![k].doing = "sent"]
  /\ UNCHANGED <<charges, captures, drafts, slips>>
MarkReceipted(k, c) ==
  /\ clerk[k].charge = {c}
  /\ \/ clerk[k].doing = "sent" /\ charges' = [charges EXCEPT ![c].status = "receipted"]
     \/ clerk[k].doing = "deliver" /\ clerk[k].read = "receipted" /\ UNCHANGED charges
  /\ drafts' = [d \in Drafts |-> IF clerk[k].draft = {d} THEN [drafts[d] EXCEPT !.events = 0]
                                 ELSE drafts[d]]
  /\ Put(k, Resting)
  /\ UNCHANGED <<captures, receipts, slips>>

(* a handler dies or raises: its transaction rolls back, an event comes back *)
ClerkDies(k) ==
  /\ clerk[k] # Resting /\ slips < MaxPaymentFaults
  /\ slips' = slips + 1
  /\ Put(k, Resting)
  /\ UNCHANGED <<charges, captures, drafts, receipts>>

PaymentsNext ==
  \/ \E e \in Captures : PostCapture(e)
  \/ \E d \in Drafts : ResolveDraft(d)
  \/ \E k \in Clerks :
       \/ \E e \in Captures : ReadCapture(k, e)
       \/ \E d \in Drafts : ReadForDelivery(k, d)
       \/ ClerkDies(k)
       \/ \E c \in Charges :
            \/ ReadNumber(k, c) \/ InsertCharge(k, c) \/ AskForLink(k, c) \/ KeepLink(k, c)
            \/ ReadForReceipt(k, c) \/ RequestReceipt(k, c) \/ ConfirmCapture(k, c)
            \/ SendReceipt(k, c) \/ MarkReceipted(k, c)

PaymentsSpec == PaymentsInit /\ [][PaymentsNext]_paymentVars

-----------------------------------------------------------------------------
(* Properties                                                                *)

(* Every charge, event, approval and handler has its shape.                  *)
PaymentsTypeOK ==
  /\ \A c \in Charges : charges[c].status \in {"none", "created", "paid", "receipted"}
  /\ \A e \in Captures : captures[e] \in {"unseen", "stored", "processed"}
  /\ \A d \in Drafts : drafts[d].status \in {"none", "pending", "approved", "rejected"}
  /\ \A k \in Clerks : clerk[k].charge \subseteq Charges

(* A store's numbers of a month are 1, 2, 3, .. with no gap and none twice,  *)
(* whatever creations run side by side (create_transaction's MAX(seq) + 1).  *)
NumbersGapFree ==
  {charges[c].seq : c \in Recorded} = 1..Cardinality(Recorded)

(* A capture that was processed has its charge paid or receipted: no death   *)
(* and no second sweep makes the money unseen (_confirm_one).                *)
CaptureNotLost ==
  \A e \in Captures :
    captures[e] = "processed" => charges[CaptureOf[e]].status \in {"paid", "receipted"}

(* A receipt leaves only for an approval a person approved, once for each    *)
(* of them and once more for each delivery cut short after it left           *)
(* (on_receipt_approval_resolved, deliver_receipt).                          *)
ReceiptsAccounted ==
  \A c \in Charges :
    LET approved == {d \in Drafts : drafts[d].status = "approved" /\ c \in drafts[d].charge}
    IN receipts[c] <= IF approved = {} THEN 0 ELSE Cardinality(approved) + slips

(* A receipted charge stays receipted, whatever confirmation read it before  *)
(* (mark_paid_and_request_receipt).                                          *)
ReceiptedIsFinal ==
  \A c \in Charges :
    charges[c].status = "receipted" => charges'[c].status = "receipted"

=============================================================================
