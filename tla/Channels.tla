------------------------------ MODULE Channels ------------------------------
(* The WhatsApp numbers of the stores (channels/whatsapp/connect.py, admin.py, *)
(* credentials.py): the owner connects one, the operator pastes or removes     *)
(* one.  Each request looks the row up without a lock and writes it in the     *)
(* same transaction; the row's UPDATE is the only lock.  A gate of Meta that   *)
(* fails, and a type or field the registry refuses, change nothing.            *)
EXTENDS Naturals, FiniteSets

CONSTANTS
  Stores, Numbers, Wabas,
  Rows,             \* ids of channels rows, each used once
  OwnerRequests,    \* calls of connect
  OperatorRequests, \* calls of connect_channel
  Wirings,          \* what may be connected at the start: row -> [store, number, waba]
  NoWaba            \* the waba_id an operator leaves NULL

ASSUME ChannelsAssumption ==
  /\ OwnerRequests \cap OperatorRequests = {}
  /\ \A w \in Wirings :
       /\ DOMAIN w \subseteq Rows
       /\ \A r \in DOMAIN w : w[r] \in [store : Stores, number : Numbers, waba : Wabas]
       /\ \A r, x \in DOMAIN w : w[r].number = w[x].number => r = x

VARIABLES
  channel,          \* rows that exist: id -> [store, number, waba]
  usedRows,            \* ids of rows that exist or were deleted
  credential,       \* channel_credentials: id -> what the secret names
  wiring,           \* what each request looked up, and whether it has ended
  crossed           \* history: owners' requests whose row an operator re-pasted meanwhile

channelVars == <<channel, usedRows, credential, wiring, crossed>>

Requests == OwnerRequests \cup OperatorRequests
Wired == DOMAIN channel
NotAsked_ == [at |-> "none", row |-> {}]

ChannelsInit ==
  /\ channel \in Wirings
  /\ usedRows = DOMAIN channel
  /\ credential = [r \in DOMAIN channel |-> [number |-> channel[r].number, waba |-> channel[r].waba]]
  /\ wiring = [q \in Requests |-> NotAsked_]
  /\ crossed = {}

Holders(number) == {r \in Wired : channel[r].number = number}

Looked(store, number, waba, row) ==
  [at |-> "looked", store |-> store, number |-> number, waba |-> waba, row |-> row]

(* connect, behind its three gates: another store's number is refused.         *)
LookUpNumber(q) ==
  /\ wiring[q] = NotAsked_
  /\ \E store \in Stores, number \in Numbers, waba \in Wabas :
       /\ \A r \in Holders(number) : channel[r].store = store
       /\ wiring' = [wiring EXCEPT ![q] = Looked(store, number, waba, Holders(number))]
  /\ UNCHANGED <<channel, usedRows, credential, crossed>>

(* connect_channel: some row of the store, if it has one.                      *)
LookUpStore(q) ==
  /\ wiring[q] = NotAsked_
  /\ \E store \in Stores, number \in Numbers, waba \in Wabas :
       LET own == {r \in Wired : channel[r].store = store}
       IN \E row \in IF own = {} THEN {{}} ELSE {{r} : r \in own} :
            wiring' = [wiring EXCEPT ![q] = Looked(store, number, waba, row)]
  /\ UNCHANGED <<channel, usedRows, credential, crossed>>

PutAt(f, r, v) == [x \in DOMAIN f \cup {r} |-> IF x = r THEN v ELSE f[x]]
Secret(q) == [number |-> wiring[q].number, waba |-> wiring[q].waba]
Ended(q, row) == [wiring EXCEPT ![q].at = "done", ![q].row = row]
InFlight(q) == wiring[q].at = "looked"

(* Reconnecting names the WABA; the number is taken to be the row's.           *)
Reconnected(q, r) == [channel[r] EXCEPT !.waba = wiring[q].waba]

SaveReconnected(q) ==
  /\ InFlight(q)
  /\ \E r \in wiring[q].row \cap Wired :
       /\ channel' = PutAt(channel, r, Reconnected(q, r))
       /\ credential' = PutAt(credential, r, Secret(q))
       /\ wiring' = Ended(q, {r})
  /\ UNCHANGED <<usedRows, crossed>>

RowWaba(q) == IF q \in OwnerRequests THEN wiring[q].waba ELSE NoWaba

(* UNIQUE (type, external_id) over all stores.                                 *)
SaveNew(q) ==
  /\ InFlight(q)
  /\ wiring[q].row = {} /\ Holders(wiring[q].number) = {}
  /\ Rows \ usedRows # {}
  /\ LET r == CHOOSE x \in Rows \ usedRows : TRUE
     IN /\ channel' = PutAt(channel, r, [store |-> wiring[q].store, number |-> wiring[q].number,
                                       waba |-> RowWaba(q)])
        /\ credential' = PutAt(credential, r, Secret(q))
        /\ usedRows' = usedRows \cup {r}
        /\ wiring' = Ended(q, {r})
  /\ UNCHANGED crossed

RepastedSecretOnly(q, r) == channel[r]

(* The operator names the number and leaves the WABA as it was.                *)
Repasted(q, r) == [channel[r] EXCEPT !.number = wiring[q].number]

SaveRepasted(q) ==
  /\ InFlight(q)
  /\ \E r \in wiring[q].row \cap Wired :
       /\ Holders(wiring[q].number) \subseteq {r}
       /\ channel' = PutAt(channel, r, Repasted(q, r))
       /\ credential' = PutAt(credential, r, Secret(q))
       /\ wiring' = Ended(q, {r})
       /\ crossed' = crossed \cup {o \in OwnerRequests : InFlight(o) /\ wiring[o].row = {r}}
  /\ UNCHANGED usedRows

(* The row is gone (the secret has nothing to refer to), or the number is      *)
(* another row's: IntegrityError, and the whole request is rolled back.        *)
RollBackWiring(q) ==
  /\ InFlight(q)
  /\ \/ wiring[q].row # {} /\ wiring[q].row \cap Wired = {}
     \/ Holders(wiring[q].number) \ wiring[q].row # {}
  /\ wiring' = Ended(q, {})
  /\ UNCHANGED <<channel, usedRows, credential, crossed>>

(* disconnect_channel: the credentials cascade away.                           *)
Without(f, r) == [x \in DOMAIN f \ {r} |-> f[x]]
Disconnect(r) ==
  /\ channel' = Without(channel, r)
  /\ credential' = Without(credential, r)
  /\ UNCHANGED <<usedRows, wiring, crossed>>

ChannelsNext ==
  \/ \E q \in OwnerRequests : LookUpNumber(q) \/ SaveReconnected(q) \/ SaveNew(q)
  \/ \E q \in OperatorRequests : LookUpStore(q) \/ SaveRepasted(q) \/ SaveNew(q)
  \/ \E q \in Requests : RollBackWiring(q)
  \/ \E r \in Wired : Disconnect(r)

--------------------------------------------------------------------------
ChannelsTypeOK ==
  /\ usedRows \subseteq Rows /\ Wired \subseteq usedRows
  /\ \A r \in Wired : channel[r] \in [store : Stores, number : Numbers, waba : Wabas \cup {NoWaba}]
  /\ \A q \in Requests : wiring[q].at \in {"none", "looked", "done"} /\ wiring[q].row \subseteq Rows

(* Requests that have written this row.                                        *)
WroteTo(r) == {q \in Requests : wiring[q].at = "done" /\ wiring[q].row = {r}}

(* A store sends from the number it receives on: every row has a credential,   *)
(* and it names the row's number, unless an owner reconnected while the        *)
(* operator pasted another number into that very row (connect updates by the   *)
(* id it read before).                                                         *)
SendsFromItsNumber ==
  /\ DOMAIN credential = Wired
  /\ \A r \in Wired : credential[r].number = channel[r].number \/ WroteTo(r) \cap crossed # {}

(* The review of a template finds the store by the WABA of its row.  The row   *)
(* names the credential's WABA unless an operator wrote the row                *)
(* (connect_channel never sets waba_id).                                       *)
ReviewsFindTheStore ==
  \A r \in Wired : channel[r].waba = credential[r].waba \/ WroteTo(r) \cap OperatorRequests # {}

=============================================================================
