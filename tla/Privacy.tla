------------------------------ MODULE Privacy ------------------------------
(* A customer's erasure, beside everything that writes about him: inbound      *)
(* messages and lead forms, replies, notes and tags (customers/dpdp.py,        *)
(* annotations.py, api.py, tenancy/platform_router.py).  One contact; what is  *)
(* stored about him is a set of items.                                         *)
EXTENDS Naturals, Sequences, FiniteSets

CONSTANTS
  Erasers,        \* requests of the owner to erase the contact
  Incoming,       \* webhook or form transactions of the customer
  Annotators,     \* requests of the staff that write notes and tags
  MaxStored,      \* bound on items ever stored
  Nobody          \* no transaction

ASSUME PrivacyAssumption ==
  IsFiniteSet(Erasers) /\ Nobody \notin Incoming /\ MaxStored \in Nat \ {0}

VARIABLES
  contact,        \* whether the row names him, and whether it is tombstoned
  rowLock,        \* the transaction that holds the row of the contact
  stored,         \* messages, notes and tags the store can see
  nextItem,
  archive,        \* erased_customer_archive, in commit order
  eraser, inflow, annotator,
  overlapped,     \* history: items of transactions that met an erasure half-way
  unseen          \* history: items written after an export and deleted with it

privacyVars == <<contact, rowLock, stored, nextItem, archive, eraser, inflow, annotator,
                 overlapped, unseen>>

Kinds == {"inbound", "outbound", "note", "tag"}
Item(kind) == [kind |-> kind, n |-> nextItem]
NotAsked == [at |-> "none"]

PrivacyInit ==
  /\ contact = [named |-> TRUE, erased |-> FALSE]
  /\ rowLock = Nobody
  /\ stored = {[kind |-> "inbound", n |-> 0]}
  /\ nextItem = 1
  /\ archive = << >>
  /\ eraser = [e \in Erasers |-> NotAsked]
  /\ inflow = [v \in Incoming |-> "none"]
  /\ annotator = [a \in Annotators |-> "none"]
  /\ overlapped = {}
  /\ unseen = {}

Exported == {e \in Erasers : eraser[e].at \in {"exported", "deleted"}}
Deleted == {e \in Erasers : eraser[e].at = "deleted"}

Store(item) ==
  /\ nextItem < MaxStored
  /\ stored' = stored \cup {item}
  /\ nextItem' = nextItem + 1
  /\ overlapped' = IF Deleted # {} THEN overlapped \cup {item} ELSE overlapped
  /\ unseen' = IF Exported # {} THEN unseen \cup {item} ELSE unseen

(* _upsert_contact: the phone finds the row and locks it, unless it is gone    *)
(* from the row; then the customer becomes another contact.                    *)
FindsTombstone == TRUE

FindsRow == contact.named

MatchContact(v) ==
  /\ inflow[v] = "none"
  /\ rowLock = Nobody
  /\ FindsRow
  /\ inflow' = [inflow EXCEPT ![v] = "matched"]
  /\ rowLock' = v
  /\ UNCHANGED <<contact, stored, nextItem, archive, eraser, annotator, overlapped, unseen>>

(* The message, or the form's answers, which fill blanks of the row; commit.   *)
StoreInbound(v) ==
  /\ inflow[v] = "matched"
  /\ Store(Item("inbound"))
  /\ contact' = [contact EXCEPT !.named = TRUE]
  /\ inflow' = [inflow EXCEPT ![v] = "none"]
  /\ rowLock' = Nobody
  /\ UNCHANGED <<archive, eraser, annotator>>

(* A reply goes to the conversation, which outlives the erasure.               *)
StoreReply ==
  /\ Store(Item("outbound"))
  /\ UNCHANGED <<contact, rowLock, archive, eraser, inflow, annotator>>

(* add_note, add_tag: the contact is the store's, then the row is inserted.    *)
CheckOwned(a) ==
  /\ annotator[a] = "none"
  /\ annotator' = [annotator EXCEPT ![a] = "owned"]
  /\ UNCHANGED <<contact, rowLock, stored, nextItem, archive, eraser, inflow, overlapped, unseen>>

Annotate(a) ==
  /\ annotator[a] = "owned"
  /\ \E kind \in {"note", "tag"} : Store(Item(kind))
  /\ annotator' = [annotator EXCEPT ![a] = "none"]
  /\ UNCHANGED <<contact, rowLock, archive, eraser, inflow>>

RemoveTag(item) ==
  /\ item.kind = "tag"
  /\ stored' = stored \ {item}
  /\ UNCHANGED <<contact, rowLock, nextItem, archive, eraser, inflow, annotator, overlapped, unseen>>

(* erase_customer reads the whole record before it takes the audit lock.       *)
ExportRecord(e) ==
  /\ eraser[e] = NotAsked
  /\ eraser' = [eraser EXCEPT ![e] = [at |-> "exported", named |-> contact.named, items |-> stored,
                                      since |-> Cardinality({x \in Erasers : eraser[x] # NotAsked})]]
  /\ UNCHANGED <<contact, rowLock, stored, nextItem, archive, inflow, annotator, overlapped, unseen>>

(* The audit entry (one eraser of the organisation at a time), the archive and *)
(* the deletes of what is committed then.                                      *)
DeleteItems(e) ==
  /\ eraser[e].at = "exported"
  /\ Deleted = {}
  /\ eraser' = [eraser EXCEPT ![e] = [at |-> "deleted", named |-> eraser[e].named,
                                      items |-> eraser[e].items, since |-> eraser[e].since,
                                      gone |-> stored]]
  /\ UNCHANGED <<contact, rowLock, stored, nextItem, archive, inflow, annotator, overlapped, unseen>>

RowIsTaken == TRUE

RowIsFree == rowLock = Nobody

Keeps(e) == [named |-> eraser[e].named, items |-> eraser[e].items, since |-> eraser[e].since]

(* the archive written after the wipe                                          *)
KeepsWhatIsLeft(e) == [named |-> FALSE, items |-> stored \ eraser[e].gone, since |-> eraser[e].since]

KeepsRecord(e) == Keeps(e)

Anonymised == [named |-> FALSE, erased |-> TRUE]

AnonymisedKeepingPhone == [named |-> TRUE, erased |-> TRUE]

Wiped == Anonymised

(* The anonymising UPDATE waits for whoever holds the row; commit.             *)
CommitErasure(e) ==
  /\ eraser[e].at = "deleted"
  /\ RowIsFree
  /\ contact' = Wiped
  /\ stored' = stored \ eraser[e].gone
  /\ archive' = Append(archive, KeepsRecord(e))
  /\ eraser' = [eraser EXCEPT ![e] = [at |-> "done", gone |-> eraser[e].gone]]
  /\ UNCHANGED <<rowLock, nextItem, inflow, annotator, overlapped, unseen>>

(* The process dies before the commit, and the owner may ask again.            *)
AbortErasure(e) ==
  /\ eraser[e].at \in {"exported", "deleted"}
  /\ eraser' = [eraser EXCEPT ![e] = NotAsked]
  /\ UNCHANGED <<contact, rowLock, stored, nextItem, archive, inflow, annotator, overlapped, unseen>>

(* get_erased_archive hands out the archive whose transaction began last.      *)
HandedOut == CHOOSE i \in DOMAIN archive : \A k \in DOMAIN archive : archive[k].since <= archive[i].since

PrivacyNext ==
  \/ \E v \in Incoming : MatchContact(v) \/ StoreInbound(v)
  \/ StoreReply
  \/ \E a \in Annotators : CheckOwned(a) \/ Annotate(a)
  \/ \E item \in stored : RemoveTag(item)
  \/ \E e \in Erasers : ExportRecord(e) \/ DeleteItems(e) \/ CommitErasure(e) \/ AbortErasure(e)

PrivacySpec == PrivacyInit /\ [][PrivacyNext]_privacyVars

--------------------------------------------------------------------------
PrivacyTypeOK ==
  /\ contact \in [named : BOOLEAN, erased : BOOLEAN]
  /\ rowLock \in Incoming \cup {Nobody}
  /\ \A i \in stored : i.kind \in Kinds /\ i.n < nextItem
  /\ nextItem \in 1 .. MaxStored
  /\ \A e \in Erasers : eraser[e].at \in {"none", "exported", "deleted", "done"}

(* After an erasure the store sees no message of the customer, but those of a  *)
(* transaction that committed between the erasure's delete and its own commit  *)
(* (erase_customer takes no lock before it deletes).                           *)
MessagesGone ==
  contact.erased => \A i \in stored : i.kind = "inbound" => i \in overlapped

(* What an erasure deleted can still be handed over: it is in an archive,      *)
(* unless it was written after that erasure had read the record.               *)
ErasedIsArchived ==
  \A e \in Erasers : eraser[e].at = "done" =>
    \A i \in eraser[e].gone : i \in unseen \/ \E k \in DOMAIN archive : i \in archive[k].items

(* The operator is handed a record that names the customer, unless he was      *)
(* erased twice: the second archive, of the blank row, is the latest.          *)
OriginalHandedOut ==
  Len(archive) = 1 => archive[HandedOut].named

(* Nothing that comes in names an erased contact again.                        *)
ErasedStaysBlank == contact.erased => ~contact'.named

=============================================================================
