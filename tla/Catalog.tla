-------------------------------- MODULE Catalog --------------------------------
(* Catalog items of one organisation (src/core/catalog/crud.py): created by    *)
(* API calls and by import batches, deduplicated by Idempotency-Key and by the *)
(* pack's identity key, patched and archived. Every call is one READ COMMITTED *)
(* transaction: what it read may be out of date when it writes.                *)
EXTENDS Naturals, Sequences, FiniteSets

CONSTANTS
  Callers_,   \* API calls in flight
  IdemKeys,   \* Idempotency-Key values
  Skus,       \* values of the identity key
  MaxItems,   \* bound: catalog_items rows
  MaxEdits    \* bound: writes of one row

Blank == "none"   \* no Idempotency-Key, or no sku
ASSUME CatalogAssumption ==
  Blank \notin IdemKeys \cup Skus /\ MaxItems \in Nat \ {0} /\ MaxEdits \in Nat

VARIABLES
  items,      \* catalog_items with its catalog_idempotency key
  request     \* what each call has read and will write

catalogVars == <<items, request>>

NoRequest == [doing |-> FALSE, key |-> Blank, sku |-> Blank, read |-> 0]

CatalogInit == items = <<>> /\ request = [c \in Callers_ |-> NoRequest]

Ask(c, what) == request' = [request EXCEPT ![c] = what]

-----------------------------------------------------------------------------
(* create_item                                                               *)

(* Mutant: the lookup finds nothing. *)
SameSkuNever(rows, sku) == {}

(* _find_duplicate over committed rows                                       *)
SameSku(rows, sku) ==
  {i \in DOMAIN rows : sku # Blank /\ rows[i].live /\ rows[i].sku = sku}

(* Mutant: catalog_idempotency without its primary key. *)
KeyTakenNever(key) == FALSE

KeyTaken(key) == key # Blank /\ \E i \in DOMAIN items : items[i].key = key

(* saw: the rows committed when its identity was checked; row: the import row; *)
(* stamped: updated_at > created_at                                           *)
NewItem(key, sku, saw, row) ==
  [key |-> key, sku |-> sku, saw |-> saw, row |-> row, live |-> TRUE,
   written |-> 0, pictured |-> 0, stamped |-> FALSE, patched |-> FALSE, raced |-> FALSE]

ReadCreate(c, key, sku) ==
  /\ request[c] = NoRequest
  /\ ~\E i \in DOMAIN items : key # Blank /\ items[i].key = key
  /\ SameSku(items, sku) = {}
  /\ Ask(c, [doing |-> TRUE, key |-> key, sku |-> sku, read |-> Len(items)])
  /\ UNCHANGED items

(* The item, its history, its search text and the key row commit together;   *)
(* a key taken meanwhile fails the whole transaction                         *)
InsertItem(c) ==
  LET r == request[c]
  IN  /\ r.doing /\ Len(items) < MaxItems
      /\ Ask(c, NoRequest)
      /\ items' = IF KeyTaken(r.key) THEN items
                  ELSE Append(items, NewItem(r.key, r.sku, r.read, 0))

-----------------------------------------------------------------------------
(* update_item, delete_item, availability.transition: an UPDATE by id alone,  *)
(* whatever If-Match was compared with. A patched sku or status is compared   *)
(* with no other item. racing: a revert has read the items.                   *)

Touch(i, racing) ==
  [items[i] EXCEPT !.written = @ + 1, !.stamped = TRUE, !.raced = @ \/ racing]

Patch(i, sku, live, racing) ==
  /\ items[i].written < MaxEdits
  /\ items' = [items EXCEPT ![i] =
                 [Touch(i, racing) EXCEPT !.sku = sku, !.live = live,
                    !.patched = @ \/ sku # items[i].sku \/ (live /\ ~items[i].live)]]
  /\ UNCHANGED request

Archive(i, racing) ==
  /\ items[i].live /\ items[i].written < MaxEdits
  /\ items' = [items EXCEPT ![i] = [Touch(i, racing) EXCEPT !.live = FALSE]]
  /\ UNCHANGED request

(* media.attach and media.remove write the pictures and leave updated_at alone *)
Picture(i, racing) ==
  /\ items[i].written < MaxEdits
  /\ items' = [items EXCEPT ![i].written = @ + 1, ![i].pictured = @ + 1,
                            ![i].raced = @ \/ racing]
  /\ UNCHANGED request

DropRequest(c) == request[c] # NoRequest /\ Ask(c, NoRequest) /\ UNCHANGED items

CatalogNext(racing) ==
  \/ \E c \in Callers_ :
       \/ \E key \in IdemKeys \cup {Blank}, sku \in Skus \cup {Blank} : ReadCreate(c, key, sku)
       \/ InsertItem(c) \/ DropRequest(c)
  \/ \E i \in DOMAIN items :
       \/ \E sku \in Skus \cup {Blank}, live \in BOOLEAN : Patch(i, sku, live, racing)
       \/ Archive(i, racing) \/ Picture(i, racing)

-----------------------------------------------------------------------------
(* However a client retries a create with one Idempotency-Key, from however   *)
(* many connections, at most one item carries it.                             *)
OneItemPerKey ==
  \A i, j \in DOMAIN items : items[i].key = items[j].key /\ items[i].key # Blank => i = j

(* Two live items created with one identity key came from creates that        *)
(* overlapped, unless a patch gave one its sku or brought it back: the later   *)
(* one was checked before the earlier one committed.                          *)
DuplicatesOverlapped ==
  \A i, j \in DOMAIN items :
    /\ i < j /\ items[i].live /\ items[j].live
    /\ items[i].sku = items[j].sku /\ items[i].sku # Blank
    /\ ~items[i].patched /\ ~items[j].patched
    => items[j].saw < i
=============================================================================
