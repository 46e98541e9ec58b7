------------------------------ MODULE AuditTrail ------------------------------
(* The per-organisation audit chain (src/core/audit), the settings versioned   *)
(* beside it and the daily anchor. An entry is written inside the transaction  *)
(* of the work it records. A hash stands for what it was computed over: the    *)
(* contents of the chain up to and including its own entry.                    *)
EXTENDS Naturals, Sequences, FiniteSets

CONSTANTS
  Writers,      \* transactions that append
  Values,       \* values of the organisation's one setting
  DefaultValue, \* its PLATFORM_DEFAULTS entry
  MaxEntries,   \* bound: entries of the chain
  MaxAnchors    \* bound: lines of the anchor file

ASSUME AuditAssumption == MaxEntries \in Nat /\ MaxAnchors \in Nat

VARIABLES
  chain,        \* committed audit_log rows by seq: content, prev_hash, hash
  versions,     \* committed tenant_settings rows, with the old value audited
  tx,           \* what each transaction has read and not committed
  collided,     \* transactions UNIQUE (org_id, seq) failed
  anchors       \* the anchor file: seq and hash of the head

auditVars == <<chain, versions, tx, collided, anchors>>

NoWork == [doing |-> "nothing", locked |-> FALSE, seq |-> 0, prev |-> <<>>, own |-> <<>>,
           row |-> {}]

AuditInit ==
  /\ chain = <<>> /\ versions = {} /\ collided = {} /\ anchors = {}
  /\ tx = [w \in Writers |-> NoWork]

Become(w, what) == tx' = [tx EXCEPT ![w] = what]
Committed(rows) == [i \in DOMAIN rows |-> rows[i].what]

-----------------------------------------------------------------------------
(* settings.write_setting                                                    *)

Latest == Cardinality(versions)
InForce == IF versions = {} THEN DefaultValue
           ELSE (CHOOSE r \in versions : \A q \in versions : r.version >= q.version).value

(* The previous version is read, unlocked                                    *)
ReadSetting(w, x) ==
  /\ tx[w] = NoWork
  /\ Become(w, [NoWork EXCEPT !.doing = "insert",
                              !.row = {[version |-> Latest + 1, value |-> x, old |-> InForce]}])
  /\ UNCHANGED <<chain, versions, collided, anchors>>

(* Mutant: no unique constraint on the table. *)
ClashesNever(rows, r) == FALSE

Clashes(rows, r) == \E q \in rows : q.version = r.version

(* UNIQUE (org_id, key, version): a writer of the same version is waited for, *)
(* and if it commits this transaction fails                                  *)
InsertSetting(w) ==
  /\ tx[w].doing = "insert"
  /\ \A r \in tx[w].row, v \in Writers \ {w} :
       tx[v].doing \in {"append", "write"} => ~Clashes(tx[v].row, r)
  /\ IF \E r \in tx[w].row : Clashes(versions, r) THEN Become(w, NoWork)
     ELSE Become(w, [tx[w] EXCEPT !.doing = "append"])
  /\ UNCHANGED <<chain, versions, collided, anchors>>

-----------------------------------------------------------------------------
(* writer.write                                                              *)

OtherWork(w) ==
  /\ tx[w] = NoWork
  /\ Become(w, [NoWork EXCEPT !.doing = "append"])
  /\ UNCHANGED <<chain, versions, collided, anchors>>

(* Mutant: no advisory lock. *)
LockFreeAlways(w) == TRUE

LockFree(w) == \A v \in Writers \ {w} : ~tx[v].locked

(* Mutant: the head's hash is the last committed one. *)
HeadHashCommitted(w) == Committed(chain)

HeadHash(w) == Committed(chain \o tx[w].own)

(* pg_advisory_xact_lock, then the head: its own rows are visible to it      *)
ReadHead(w) ==
  /\ tx[w].doing = "append" /\ LockFree(w)
  /\ Len(chain \o tx[w].own) < MaxEntries
  /\ Become(w, [tx[w] EXCEPT !.doing = "write", !.locked = TRUE,
                             !.seq = Len(chain \o tx[w].own) + 1, !.prev = HeadHash(w)])
  /\ UNCHANGED <<chain, versions, collided, anchors>>
InsertEntry(w) ==
  /\ tx[w].doing = "write"
  /\ \A v \in Writers \ {w} : tx[v].own # <<>> => Len(chain) + Len(tx[v].own) < tx[w].seq
  /\ IF tx[w].seq <= Len(chain) THEN Become(w, NoWork) /\ collided' = collided \cup {w}
     ELSE /\ Become(w, [tx[w] EXCEPT !.doing = "append",
                          !.own = Append(@, [what |-> w, prev |-> tx[w].prev,
                                             hash |-> Append(tx[w].prev, w)])])
          /\ UNCHANGED collided
  /\ UNCHANGED <<chain, versions, anchors>>

(* With its entry written a transaction commits, or appends the next one;    *)
(* it may abort or die at any moment                                         *)
Commit(w) ==
  /\ tx[w].doing = "append" /\ tx[w].own # <<>>
  /\ chain' = chain \o tx[w].own /\ versions' = versions \cup tx[w].row
  /\ Become(w, NoWork)
  /\ UNCHANGED <<collided, anchors>>
Abort(w) ==
  /\ tx[w] # NoWork /\ Become(w, NoWork)
  /\ UNCHANGED <<chain, versions, collided, anchors>>

-----------------------------------------------------------------------------
(* anchor.run_audit_anchor: the head of the committed chain                  *)
Anchor ==
  /\ chain # <<>> /\ Cardinality(anchors) < MaxAnchors
  /\ anchors' = anchors \cup {[seq |-> Len(chain), hash |-> chain[Len(chain)].hash]}
  /\ UNCHANGED <<chain, versions, tx, collided>>

AuditNext ==
  \/ \E w \in Writers :
       \/ \E x \in Values : ReadSetting(w, x)
       \/ InsertSetting(w) \/ OtherWork(w) \/ ReadHead(w) \/ InsertEntry(w)
       \/ Commit(w) \/ Abort(w)
  \/ Anchor

AuditSpec == AuditInit /\ [][AuditNext]_auditVars

-----------------------------------------------------------------------------
(* verify_chain on rows that start at genesis: where the walk would stop     *)
Breaks(rows) ==
  {i \in DOMAIN rows :
     \/ rows[i].prev # IF i = 1 THEN <<>> ELSE rows[i - 1].hash
     \/ rows[i].hash # Append(rows[i].prev, rows[i].what)}

AuditTypeOK ==
  /\ \A i \in DOMAIN chain : chain[i].what \in Writers
  /\ Len(chain) <= MaxEntries
  /\ versions \subseteq [version : 1..MaxEntries, value : Values,
                         old : Values \cup {DefaultValue}]
  /\ \A w \in Writers : tx[w].doing \in {"nothing", "insert", "append", "write"}
  /\ collided \subseteq Writers /\ Cardinality(anchors) <= MaxAnchors

(* The committed chain verifies and every anchor taken of it still matches,   *)
(* whatever transactions overlapped, wrote several entries or aborted.        *)
ChainIntact ==
  /\ Breaks(chain) = {}
  /\ \A a \in anchors : a.seq <= Len(chain) /\ chain[a.seq].hash = a.hash

(* The unique constraint on seq is a backstop only: under the advisory lock   *)
(* no work is ever lost to a number another transaction took.                 *)
AppendsNeverCollide == collided = {}

(* Versions of a setting are numbered without a gap or a repeat, and the      *)
(* audited old value of each is the value of the version before it, though    *)
(* the writer read it before it held any lock.                                *)
DiffsAreTrue ==
  \A r \in versions :
    /\ \A q \in versions : q.version = r.version => q = r
    /\ IF r.version = 1 THEN r.old = DefaultValue
       ELSE \E q \in versions : q.version = r.version - 1 /\ q.value = r.old
=============================================================================
