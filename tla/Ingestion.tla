------------------------------- MODULE Ingestion -------------------------------
(* One import batch (src/core/ingestion) loading into the catalog: the batch   *)
(* state machine, the rows under review, load, revert and the reaper. A        *)
(* transition is a SELECT, `advance` and an UPDATE that names the id alone;    *)
(* the UPDATE holds the batch's row lock until its transaction ends. The row   *)
(* actions take no lock and look at no batch state.                            *)
EXTENDS Catalog

CONSTANTS
  Sheet,      \* the uploaded rows: [sku, titled]
  Handlers    \* requests on the batch in flight

ASSUME IngestionAssumption == Sheet \in Seq([sku : Skus \cup {Blank}, titled : BOOLEAN])

VARIABLES
  import,     \* import_batches.state, committed
  staged,     \* import_rows: state, sku, titled, flagged (missing_title)
  handler,    \* what each request has read, and of it what was edited since
  blob,       \* the process that holds the uploaded bytes is alive
  overwrote,  \* some UPDATE replaced a state its SELECT had not returned
  slipped     \* rows written by a request that had not read their last edit

importVars == <<import, staged, handler, blob, overwrote, slipped>>
ingestionVars == <<catalogVars, importVars>>

Resting_ == [doing |-> "nothing", from |-> "created", rows |-> {}, skips |-> {},
             stale |-> {}, saw |-> 0]

IngestionInit ==
  /\ CatalogInit
  /\ import = "created" /\ staged = <<>> /\ handler = [h \in Handlers |-> Resting_]
  /\ blob = TRUE /\ overwrote = FALSE /\ slipped = {}

(* Mutant: a loaded batch can be loaded again. *)
AfterReloads(state) ==
  CASE state = "created"   -> {"extracting"}
    [] state = "extracted" -> {"validating"}
    [] state \in {"review", "loaded"} -> {"loading"}
    [] state = "failed"    -> {"extracting", "validating", "loading"}
    [] OTHER               -> {}

(* state._TRANSITIONS, of the states a transaction leaves behind             *)
After(state) ==
  CASE state = "created"   -> {"extracting"}
    [] state = "extracted" -> {"validating"}
    [] state = "review"    -> {"loading"}
    [] state = "failed"    -> {"extracting", "validating", "loading"}
    [] OTHER               -> {}

(* The state a stage's transaction ends in                                   *)
Ends == [extracting |-> "extracted", validating |-> "review", loading |-> "loaded"]

Serve_(h, what) == handler' = [handler EXCEPT ![h] = what]
Held == \E h \in Handlers : handler[h].doing \in {"extracted", "review", "loaded"}

ReadState(h, stage) ==
  /\ handler[h] = Resting_ /\ stage \in After(import)
  /\ Serve_(h, [Resting_ EXCEPT !.doing = stage, !.from = import])
  /\ UNCHANGED <<catalogVars, import, staged, blob, overwrote, slipped>>

(* load_batch skips a row whose sku is in the catalog or came before it      *)
Loads(i) ==
  /\ staged[i].state = "confirmed" /\ SameSku(items, staged[i].sku) = {}
  /\ ~\E j \in 1..(i - 1) : /\ staged[j].state = "confirmed"
                            /\ staged[j].sku = staged[i].sku /\ staged[i].sku # Blank

(* The stage's UPDATE, which waits for another's transaction, and its reads   *)
Begin(h) ==
  LET stage == handler[h].doing
  IN  /\ stage \in DOMAIN Ends /\ ~Held
      /\ overwrote' = (overwrote \/ import # handler[h].from)
      /\ Serve_(h, [Resting_ EXCEPT !.doing = Ends[stage], !.saw = Len(items),
                      !.rows = {i \in DOMAIN staged :
                                  IF stage = "loading" THEN Loads(i)
                                  ELSE stage = "validating" /\ staged[i].flagged},
                      !.skips = {i \in DOMAIN staged : /\ stage = "loading" /\ ~Loads(i)
                                                       /\ staged[i].state = "confirmed"}])
      /\ UNCHANGED <<catalogVars, import, staged, blob, slipped>>

(* extract_batch: rows are replaced, whoever has read them, or the batch fails *)
CommitExtract(h) ==
  /\ handler[h].doing = "extracted"
  /\ IF blob
     THEN /\ import' = "extracted" /\ slipped' = {}
          /\ staged' = [i \in DOMAIN Sheet |->
                          [state |-> "extracted", sku |-> Sheet[i].sku,
                           titled |-> Sheet[i].titled, flagged |-> ~Sheet[i].titled]]
          /\ handler' = [g \in Handlers |->
                           IF g = h THEN Resting_
                           ELSE [handler[g] EXCEPT !.stale = handler[g].rows]]
     ELSE import' = "failed" /\ Serve_(h, Resting_) /\ UNCHANGED <<staged, slipped>>
  /\ UNCHANGED <<catalogVars, blob, overwrote>>

(* validate_batch writes back, with duplicate_sku, the flags it read          *)
CommitValidate(h) ==
  /\ handler[h].doing = "review" /\ import' = "review"
  /\ staged' = [i \in DOMAIN staged |->
                  [staged[i] EXCEPT !.flagged = i \in handler[h].rows]]
  /\ slipped' = slipped \cup handler[h].stale
  /\ Serve_(h, Resting_) /\ UNCHANGED <<catalogVars, blob, overwrote>>

InOrder(rows) ==
  CHOOSE taken \in [1..Cardinality(rows) -> rows] :
    \A m, n \in 1..Cardinality(rows) : m < n => taken[m] < taken[n]

(* load_batch: the items and the rows' outcomes commit together               *)
CommitLoad(h) ==
  LET taken == InOrder(handler[h].rows)
  IN  /\ handler[h].doing = "loaded" /\ Len(items) + Len(taken) <= MaxItems
      /\ items' = items \o [n \in DOMAIN taken |->
                              NewItem(Blank, staged[taken[n]].sku, handler[h].saw, taken[n])]
      /\ staged' = [i \in DOMAIN staged |->
                      IF i \in handler[h].rows THEN [staged[i] EXCEPT !.state = "loaded"]
                      ELSE IF i \in handler[h].skips
                           THEN [staged[i] EXCEPT !.state = "skipped_duplicate"]
                      ELSE staged[i]]
      /\ import' = "loaded" /\ Serve_(h, Resting_)
      /\ UNCHANGED <<request, blob, overwrote, slipped>>

-----------------------------------------------------------------------------
(* review                                                                    *)

(* Mutant: rows with blocking flags are confirmed too. *)
ConfirmableAny(row) == row.state # "rejected"

(* confirm_row asks for no blocking flag, confirm_all also for no rejection   *)
Confirmable(row) == row.state # "rejected" /\ ~row.flagged

ConfirmRead(h, rows) ==
  /\ handler[h] = Resting_ /\ rows # {}
  /\ Serve_(h, [Resting_ EXCEPT !.doing = "confirm", !.rows = rows])
  /\ UNCHANGED <<catalogVars, import, staged, blob, overwrote, slipped>>
ConfirmWrite(h) ==
  /\ handler[h].doing = "confirm"
  /\ staged' = [i \in DOMAIN staged |->
                  IF i \in handler[h].rows THEN [staged[i] EXCEPT !.state = "confirmed"]
                  ELSE staged[i]]
  /\ slipped' = slipped \cup handler[h].stale
  /\ Serve_(h, Resting_) /\ UNCHANGED <<catalogVars, import, blob, overwrote>>

(* edit_row; the readers of the row now hold an old one                      *)
Edit(i, titled) ==
  /\ staged' = [staged EXCEPT ![i].titled = titled, ![i].flagged = ~titled,
                              ![i].state = IF titled THEN "confirmed" ELSE "extracted"]
  /\ handler' = [h \in Handlers |->
                   IF handler[h].doing \in {"confirm", "review", "loaded"}
                   THEN [handler[h] EXCEPT !.stale = @ \cup {i}] ELSE handler[h]]
  /\ slipped' = slipped \ {i} /\ UNCHANGED <<catalogVars, import, blob, overwrote>>
Reject(i) ==
  /\ staged' = [staged EXCEPT ![i].state = "rejected"]
  /\ UNCHANGED <<catalogVars, import, handler, blob, overwrote, slipped>>

-----------------------------------------------------------------------------
(* revert_batch                                                              *)

(* Mutant: items edited since the import are reverted with the rest. *)
UntouchedAny(rows) == {i \in DOMAIN rows : rows[i].row # 0 /\ rows[i].live}

(* its NOT (updated_at > created_at)                                          *)
Untouched(rows) == {i \in DOMAIN rows : rows[i].row # 0 /\ rows[i].live /\ ~rows[i].stamped}

RevertRead(h) ==
  /\ handler[h] = Resting_ /\ import = "loaded"
  /\ Serve_(h, [Resting_ EXCEPT !.doing = "reverted", !.rows = Untouched(items)])
  /\ UNCHANGED <<catalogVars, import, staged, blob, overwrote, slipped>>

(* Its transition, last, fails on a batch no longer loaded, and with it all   *)
RevertCommit(h) ==
  /\ handler[h].doing = "reverted" /\ import = "loaded" /\ ~Held /\ import' = "reverted"
  /\ items' = [i \in DOMAIN items |->
                 IF i \in handler[h].rows
                 THEN [items[i] EXCEPT !.live = FALSE, !.stamped = TRUE] ELSE items[i]]
  /\ Serve_(h, Resting_) /\ UNCHANGED <<request, staged, blob, overwrote, slipped>>

(* The request fails or its process dies, whatever it was doing              *)
DropHandler(h) ==
  /\ handler[h] # Resting_ /\ Serve_(h, Resting_)
  /\ UNCHANGED <<catalogVars, import, staged, blob, overwrote, slipped>>

(* reap_old_batches: staging rows of a batch past the revert window           *)
Reap ==
  /\ import \in {"loaded", "reverted", "failed"} /\ ~Held /\ blob
  /\ staged' = <<>> /\ blob' = FALSE /\ slipped' = {}
  /\ handler' = [h \in Handlers |->
                   IF handler[h].doing = "confirm" THEN Resting_ ELSE handler[h]]
  /\ UNCHANGED <<catalogVars, import, overwrote>>

(* The blobs are kept in one process's memory                                *)
LoseBlob ==
  /\ blob /\ import \in {"created", "failed"} /\ blob' = FALSE
  /\ UNCHANGED <<catalogVars, import, staged, handler, overwrote, slipped>>

IngestionNext ==
  \/ /\ UNCHANGED importVars
     /\ CatalogNext(\E h \in Handlers : handler[h].doing = "reverted")
  \/ \E h \in Handlers :
       \/ \E stage \in DOMAIN Ends : ReadState(h, stage)
       \/ Begin(h) \/ CommitExtract(h) \/ CommitValidate(h) \/ CommitLoad(h)
       \/ RevertRead(h) \/ RevertCommit(h) \/ DropHandler(h)
       \/ ConfirmRead(h, {i \in DOMAIN staged : Confirmable(staged[i])})
       \/ \E i \in DOMAIN staged : ~staged[i].flagged /\ ConfirmRead(h, {i})
       \/ ConfirmWrite(h)
  \/ \E i \in DOMAIN staged : Reject(i) \/ \E titled \in BOOLEAN : Edit(i, titled)
  \/ Reap \/ LoseBlob

IngestionSpec == IngestionInit /\ [][IngestionNext]_ingestionVars

-----------------------------------------------------------------------------
IngestionTypeOK ==
  /\ Len(items) <= MaxItems
  /\ import \in {"created", "extracted", "review", "loaded", "reverted", "failed"}
  /\ \A i \in DOMAIN staged :
       staged[i].state \in {"extracted", "confirmed", "rejected", "loaded", "skipped_duplicate"}
  /\ slipped \subseteq DOMAIN staged

(* Through retries, bulk confirmations after the load, and re-extraction, a   *)
(* row of the sheet becomes at most one item, as long as no transition was    *)
(* written over a state it had not read.                                      *)
RowsLoadOnce ==
  ~overwrote =>
    \A i, j \in DOMAIN items : items[i].row = items[j].row /\ items[i].row # 0 => i = j

(* A row without a title is confirmed for loading only when the confirmation, *)
(* or the validation before it, overlapped the edit that took the title away. *)
UntitledSlippedIn ==
  \A i \in DOMAIN staged : staged[i].state = "confirmed" /\ ~staged[i].titled => i \in slipped

(* Reverting a batch archives no item somebody wrote since the import, unless *)
(* the write came while the revert was running. Pictures are the exception:   *)
(* attaching or removing one does not move updated_at, so an item of which    *)
(* only the pictures were edited goes with the batch.                         *)
RevertSparesEdits ==
  import' = "reverted" /\ import = "loaded" =>
    \A i \in DOMAIN items :
      items[i].live /\ ~items'[i].live =>
        items[i].raced \/ items[i].written = items[i].pictured
=============================================================================
