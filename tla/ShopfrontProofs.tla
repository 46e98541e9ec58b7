-------------------------- MODULE ShopfrontProofs --------------------------
(* What the store shows, proved for every value of the constants: pictures,    *)
(* numbers and templates, prompt layers, landing pages, quotes and tickets,    *)
(* laid out as CommerceProofs is, and the whole shopfront at the end.          *)
EXTENDS CommerceProofs, SequenceTheorems

(*************************************************************************)
(* The photograph of an item                                             *)
(*************************************************************************)

Upload_ == [doing : {"waiting", "putting", "removing", "discarding", "done"},
            previous : Uploads \cup {NoImage},
            written : SUBSET ((Uploads \cup {NoImage}) \X Parts)]
MediaTypes ==
  /\ pictured \in Uploads \cup {NoImage} /\ objects \subseteq Uploads \X Parts
  /\ upload \in [Uploads -> Upload_]

(* An image whose request has committed or failed never comes (back) to the row. *)
Past(x) == x = NoImage \/ upload[x].doing \in {"discarding", "done"}
UploadOK(u) ==
  /\ Past(upload[u].previous)
  /\ upload[u].doing \in {"waiting", "removing", "done"} => upload[u].written = {}
  /\ upload[u].doing = "putting" =>
       upload[u].written \subseteq ObjectsOf(u) /\ upload[u].written \subseteq objects
  /\ upload[u].doing = "discarding" =>
       \A o \in upload[u].written :
         /\ o[1] \in {u, upload[u].previous}
         /\ o[1] = pictured => o[1] = NoImage \/ o[1] \in disowned

(* An object is the picture's, adrift, or in some request's hands.            *)
ObjectsHeld ==
  \A o \in objects :
    o[1] = pictured \/ o[1] \in adrift \/ \E u \in Uploads : o \in upload[u].written

MediaInv ==
  /\ MediaTypes /\ \A u \in Uploads : UploadOK(u)
  /\ Past(pictured) /\ PictureIntact /\ ObjectsHeld

LEMMA MediaStarts == MediaInit => MediaInv
<1> SUFFICES ASSUME MediaInit PROVE MediaInv  OBVIOUS
<1>1. NewUpload \in Upload_ /\ NewUpload.previous = NoImage /\ NewUpload.written = {}
        /\ NewUpload.doing = "waiting"
  BY DEF NewUpload, Upload_
<1>2. \A u \in Uploads : upload[u] = NewUpload  BY DEF MediaInit
<1>3. MediaTypes  BY <1>1 DEF MediaInit, MediaTypes
<1>4. \A u \in Uploads : UploadOK(u)  BY <1>1, <1>2 DEF UploadOK, Past
<1> QED  BY <1>3, <1>4 DEF MediaInv, MediaInit, Past, PictureIntact, ObjectsHeld

LEMMA MediaKeeps ==
  ASSUME MediaInv, NEW u \in Uploads, NEW w \in Upload_, upload' = [upload EXCEPT ![u] = w],
         objects' \subseteq Uploads \X Parts,
         \A o \in objects : o \notin objects' =>
           upload[u].doing = "discarding" /\ o \in upload[u].written,
         \/ pictured' \in {pictured, NoImage}
         \/ /\ pictured' = u /\ upload[u].doing = "putting" /\ upload[u].written = ObjectsOf(u)
            /\ w.doing = "discarding",
         disowned \subseteq disowned',
         upload[u].doing \in {"discarding", "done"} => w.doing \in {"discarding", "done"},
         UploadOK(u)', ObjectsHeld'
  PROVE  MediaInv'
<1> USE DEF MediaInv
<1>1. \A v \in Uploads : upload'[v] = IF v = u THEN w ELSE upload[v]  BY DEF MediaTypes
<1>2. MediaTypes'  BY DEF MediaTypes
<1>3. \A x \in Uploads \cup {NoImage} : Past(x) => Past(x)'  BY <1>1 DEF Past
<1>4. \A o \in objects : o \notin objects' => Past(o[1]) /\ (o[1] = pictured => o[1] = NoImage \/ o[1] \in disowned)
  BY DEF UploadOK, Past
<1>5. upload[u].doing = "putting" => ~Past(u)  BY MediaAssumption DEF Past
<1>6. ASSUME NEW v \in Uploads, v # u  PROVE UploadOK(v)'
  BY <1>1, <1>3, <1>4, <1>5, <1>6, MediaAssumption DEF MediaTypes, Upload_, UploadOK, Past,
     ObjectsOf
<1>7. Past(pictured)'  BY <1>1 DEF Past, MediaTypes
<1>8. PictureIntact'  BY <1>4 DEF PictureIntact, ObjectsOf, UploadOK
<1> QED  BY <1>2, <1>6, <1>7, <1>8

(* Request u goes on to hold w; the objects are those it had in hand or not.  *)
LEMMA HeldStill ==
  ASSUME MediaInv, NEW u \in Uploads, NEW w \in Upload_, upload' = [upload EXCEPT ![u] = w],
         \A o \in objects' : \/ o \in objects /\ (o \in upload[u].written => o \in w.written)
                             \/ o[1] = pictured' \/ o[1] \in adrift' \/ o \in w.written,
         pictured' = pictured \/ pictured \in adrift'
           \/ \A o \in objects : o[1] = pictured => o \in w.written,
         adrift \subseteq adrift'
  PROVE  ObjectsHeld'
<1>1. \A v \in Uploads : upload'[v] = IF v = u THEN w ELSE upload[v]  BY DEF MediaInv, MediaTypes
<1> SUFFICES ASSUME NEW o \in objects',
                    ~(o[1] = pictured' \/ o[1] \in adrift' \/ o \in w.written)
             PROVE  \E v \in Uploads : o \in upload'[v].written
  BY <1>1 DEF ObjectsHeld
<1>2. o \in objects /\ o \notin upload[u].written  OBVIOUS
<1>3. \E v \in Uploads : o \in upload[v].written  BY <1>2 DEF MediaInv, ObjectsHeld
<1> QED  BY <1>1, <1>2, <1>3

(* What request u reads or gives up: nothing of the store or the row changes. *)
LEMMA RequestMoves ==
  ASSUME MediaInv, NEW u \in Uploads, NEW w \in Upload_, upload' = [upload EXCEPT ![u] = w],
         UNCHANGED <<pictured, objects, disowned>>, adrift \subseteq adrift',
         \A o \in upload[u].written : o \in w.written \/ o[1] \in adrift',
         Past(w.previous),
         upload[u].doing \in {"discarding", "done"} => w.doing \in {"discarding", "done"},
         w.doing \in {"waiting", "removing", "done", "putting"} => w.written = {},
         w.doing = "discarding" =>
           \A o \in w.written : /\ o[1] \in {u, w.previous}
                                /\ o[1] = pictured => o[1] = NoImage \/ o[1] \in disowned
  PROVE  MediaInv'
<1>1. \A v \in Uploads : upload'[v] = IF v = u THEN w ELSE upload[v]  BY DEF MediaInv, MediaTypes
<1>2. Past(w.previous)'  BY <1>1 DEF Upload_, Past
<1>3. UploadOK(u)'  BY <1>1, <1>2 DEF UploadOK
<1>4. ObjectsHeld'  BY HeldStill
<1>5. objects' \subseteq Uploads \X Parts  BY DEF MediaInv, MediaTypes
<1> QED  BY <1>3, <1>4, <1>5, MediaKeeps

LEMMA MediaSteps == MediaInv /\ [MediaNext]_mediaVars => MediaInv'
<1> SUFFICES ASSUME MediaInv, [MediaNext]_mediaVars PROVE MediaInv'  OBVIOUS
<1> USE DEF MediaInv
<1>1. CASE UNCHANGED mediaVars
  BY <1>1 DEF mediaVars, MediaTypes, UploadOK, Past, PictureIntact, ObjectsHeld, ObjectsOf
<1>2. SUFFICES ASSUME NEW u \in Uploads,
                      \/ StartUpload(u) \/ PutPart(u) \/ CommitAttach(u) \/ FailAttach(u)
                      \/ LoseAnswer(u) \/ StartRemove(u) \/ CommitRemove(u) \/ DiscardPart(u)
                      \/ FinishUpload(u) \/ DieUploading(u)
               PROVE  MediaInv'
  BY <1>1 DEF MediaNext
<1>3. upload[u] \in Upload_ /\ UploadOK(u)  BY DEF MediaTypes
<1>4. /\ upload[u].previous \in Uploads \cup {NoImage}
      /\ upload[u].written \subseteq (Uploads \cup {NoImage}) \X Parts
  BY <1>3 DEF Upload_
<1>5. pictured \in Uploads \cup {NoImage}  BY DEF MediaTypes
<1>6. CASE StartUpload(u) \/ StartRemove(u)
  <2>1. PICK what \in {"putting", "removing"} :
          /\ upload' = [upload EXCEPT ![u] = [NewUpload EXCEPT !.doing = what, !.previous = pictured]]
          /\ UNCHANGED <<pictured, objects, adrift, disowned>> /\ upload[u].doing = "waiting"
    BY <1>6 DEF StartUpload, StartRemove, Become_
  <2>2. PICK w : w = [NewUpload EXCEPT !.doing = what, !.previous = pictured]  OBVIOUS
  <2>3. /\ w \in Upload_ /\ w.doing = what /\ w.previous = pictured /\ w.written = {}
        /\ upload' = [upload EXCEPT ![u] = w]
    BY <1>5, <2>1, <2>2 DEF NewUpload, Upload_
  <2>4. upload[u].written = {}  BY <1>3, <2>1 DEF UploadOK
  <2> QED  BY <2>1, <2>3, <2>4, RequestMoves
<1>7. CASE PutPart(u)
  <2>1. PICK n : n = Cardinality(upload[u].written) + 1  OBVIOUS
  <2>2. /\ upload[u].doing = "putting" /\ n \in Parts /\ objects' = objects \cup {<<u, n>>}
        /\ upload' = [upload EXCEPT ![u] = [upload[u] EXCEPT !.written = upload[u].written \cup {<<u, n>>}]]
        /\ UNCHANGED <<pictured, adrift, disowned>>
    BY <1>7, <2>1 DEF PutPart, Become_
  <2>3. PICK S : S = upload[u].written \cup {<<u, n>>}  OBVIOUS
  <2>4. PICK w : w = [upload[u] EXCEPT !.written = S]  OBVIOUS
  <2>5. S \in SUBSET ((Uploads \cup {NoImage}) \X Parts)  BY <1>4, <2>2, <2>3
  <2>6. /\ w \in Upload_ /\ w.doing = "putting" /\ w.previous = upload[u].previous /\ w.written = S
        /\ upload' = [upload EXCEPT ![u] = w]
    BY <1>3, <2>2, <2>3, <2>4, <2>5 DEF Upload_
  <2>7. \A v \in Uploads : upload'[v] = IF v = u THEN w ELSE upload[v]  BY <2>6 DEF MediaTypes
  <2>8. S \subseteq objects' /\ S \subseteq ObjectsOf(u)
    BY <1>3, <2>2, <2>3 DEF UploadOK, ObjectsOf
  <2>9. Past(w.previous)'  BY <1>3, <1>4, <2>2, <2>6, <2>7 DEF UploadOK, Past
  <2>10. UploadOK(u)'  BY <2>6, <2>7, <2>8, <2>9 DEF UploadOK, ObjectsOf
  <2>11. objects' \subseteq Uploads \X Parts  BY <2>2 DEF MediaTypes
  <2>12. ObjectsHeld'  BY <2>2, <2>3, <2>6, HeldStill
  <2> QED  BY <2>2, <2>6, <2>10, <2>11, <2>12, MediaKeeps
<1>8. CASE CommitAttach(u) \/ LoseAnswer(u) \/ CommitRemove(u)
  <2>1. PICK S : S = IF LoseAnswer(u) THEN upload[u].written ELSE ObjectsOf(upload[u].previous)
    OBVIOUS
  <2>2. PICK w : w = [upload[u] EXCEPT !.doing = "discarding", !.written = S]  OBVIOUS
  <2>3. /\ upload' = [upload EXCEPT ![u] = w]
        /\ objects' = objects /\ adrift \subseteq adrift' /\ disowned \subseteq disowned'
        /\ \/ CommitRemove(u) /\ upload[u].doing = "removing" /\ pictured' = NoImage
           \/ upload[u].doing = "putting" /\ upload[u].written = ObjectsOf(u) /\ pictured' = u
        /\ LoseAnswer(u) => pictured \in adrift' /\ u \in disowned' /\ upload[u].doing = "putting"
        /\ ~LoseAnswer(u) => adrift' = adrift \cup Superseded(u)
    BY <1>8, <2>1, <2>2 DEF LoseAnswer, Become_, Cleanup, CommitAttach, CommitRemove, Replaced
  <2>4. S \in SUBSET ((Uploads \cup {NoImage}) \X Parts)  BY <1>4, <2>1 DEF ObjectsOf
  <2>5. w \in Upload_ /\ w.doing = "discarding" /\ w.previous = upload[u].previous /\ w.written = S
    BY <1>3, <2>2, <2>4 DEF Upload_
  <2>6. \A v \in Uploads : upload'[v] = IF v = u THEN w ELSE upload[v]  BY <2>3 DEF MediaTypes
  <2>7. Past(w.previous)'  BY <1>3, <1>4, <2>5, <2>6 DEF UploadOK, Past
  <2>8. ~Past(u)  BY <2>3, MediaAssumption DEF Past
  <2>9. \A o \in S : /\ o[1] \in {u, w.previous}
                     /\ o[1] = pictured' => o[1] = NoImage \/ o[1] \in disowned'
    BY <1>3, <2>1, <2>3, <2>5, <2>8 DEF ObjectsOf, UploadOK
  <2>10. UploadOK(u)'  BY <2>5, <2>6, <2>7, <2>9 DEF UploadOK
  <2>11. ObjectsHeld'
    <3>1. \A o \in objects : o \in upload[u].written => o[1] = pictured' \/ o \in w.written
      BY <1>3, <2>3 DEF UploadOK, ObjectsOf
    <3>2. pictured \in adrift' \/ \A o \in objects : o[1] = pictured => o \in w.written
      BY <2>1, <2>3, <2>5 DEF Superseded, MediaTypes, ObjectsOf
    <3> QED  BY <2>3, <2>5, <3>1, <3>2, HeldStill
  <2>12. objects' \subseteq Uploads \X Parts  BY <2>3 DEF MediaTypes
  <2> QED  BY <2>3, <2>5, <2>10, <2>11, <2>12, MediaKeeps
<1>9. CASE FailAttach(u)
  BY <1>3, <1>9, MediaAssumption, RequestMoves DEF FailAttach, Become_, Cleanup, Upload_,
     Past, UploadOK, ObjectsOf
<1>10. CASE DiscardPart(u)
  <2>1. PICK o \in upload[u].written :
          /\ upload[u].doing = "discarding"
          /\ upload' = [upload EXCEPT ![u] = [upload[u] EXCEPT !.written = upload[u].written \ {o}]]
          /\ \/ objects' = objects \ {o} /\ adrift' = adrift
             \/ adrift' = adrift \cup {o[1]} /\ objects' = objects
          /\ UNCHANGED <<pictured, disowned>>
    BY <1>10 DEF DiscardPart, Become_
  <2>2. PICK S : S = upload[u].written \ {o}  OBVIOUS
  <2>3. PICK w : w = [upload[u] EXCEPT !.written = S]  OBVIOUS
  <2>4. S \in SUBSET ((Uploads \cup {NoImage}) \X Parts)  BY <1>4, <2>2
  <2>5. /\ w \in Upload_ /\ w.doing = "discarding" /\ w.previous = upload[u].previous /\ w.written = S
        /\ upload' = [upload EXCEPT ![u] = w]
    BY <1>3, <2>1, <2>2, <2>3, <2>4 DEF Upload_
  <2>6. \A v \in Uploads : upload'[v] = IF v = u THEN w ELSE upload[v]  BY <2>5 DEF MediaTypes
  <2>7. Past(w.previous)'  BY <1>3, <1>4, <2>5, <2>6 DEF UploadOK, Past
  <2>8. UploadOK(u)'  BY <1>3, <2>1, <2>2, <2>5, <2>6, <2>7 DEF UploadOK
  <2>9. ObjectsHeld'  BY <2>1, <2>2, <2>5, HeldStill
  <2>10. objects' \subseteq Uploads \X Parts  BY <2>1 DEF MediaTypes
  <2>11. \A x \in objects : x \notin objects' => x \in upload[u].written  BY <2>1
  <2> QED  BY <2>1, <2>5, <2>8, <2>9, <2>10, <2>11, MediaKeeps
<1>11. CASE FinishUpload(u) \/ DieUploading(u)
  BY <1>3, <1>11, RequestMoves DEF NewUpload, Upload_, FinishUpload, DieUploading, Become_,
     UploadOK, ObjectsOf, Past
<1> QED  BY <1>2, <1>6, <1>7, <1>8, <1>9, <1>10, <1>11

LEMMA MediaInvShows == MediaInv => MediaTypeOK /\ PictureIntact /\ OrphansAccounted
<1> SUFFICES ASSUME MediaInv PROVE MediaTypeOK /\ OrphansAccounted  BY DEF MediaInv
<1>1. \A u \in Uploads : upload[u] \in Upload_  BY DEF MediaInv, MediaTypes
<1>2. MediaTypeOK  BY <1>1 DEF MediaInv, MediaTypes, MediaTypeOK, Upload_
<1>3. OrphansAccounted  BY DEF MediaInv, OrphansAccounted, ObjectsHeld, UploadOK
<1> QED  BY <1>2, <1>3

(*************************************************************************)
(* The numbers stores send from                                          *)
(*************************************************************************)

ChannelRow == [store : Stores, number : Numbers, waba : Wabas \cup {NoWaba}]
Secret_ == [number : Numbers, waba : Wabas]
Wire_ == [at : {"looked", "done"}, store : Stores, number : Numbers, waba : Wabas, row : SUBSET Rows]

ChannelShapes ==
  /\ usedRows \subseteq Rows /\ Wired \subseteq usedRows /\ DOMAIN credential = Wired
  /\ \A r \in Wired : channel[r] \in ChannelRow /\ credential[r] \in Secret_
  /\ wiring \in [Requests -> {NotAsked_} \cup Wire_]
NumbersApart == \A r, x \in Wired : channel[r].number = channel[x].number => r = x

(* What a request read is one row at most, and the owner's is the number's row, *)
(* unless an operator has re-pasted it since.                                *)
WireTrue(q) ==
  InFlight(q) =>
    /\ wiring[q].row = {} \/ \E r \in usedRows : wiring[q].row = {r}
    /\ q \in OwnerRequests =>
         \A r \in wiring[q].row \cap Wired : channel[r].number = wiring[q].number \/ q \in crossed

ChannelsInv ==
  /\ ChannelShapes /\ NumbersApart /\ \A q \in Requests : WireTrue(q)
  /\ SendsFromItsNumber /\ ReviewsFindTheStore

LEMMA ChannelsStarts == ChannelsInit => ChannelsInv
<1> SUFFICES ASSUME ChannelsInit PROVE ChannelsInv  OBVIOUS
<1>1. channel \in Wirings /\ usedRows = Wired /\ DOMAIN credential = Wired
        /\ \A r \in Wired : credential[r] = [number |-> channel[r].number, waba |-> channel[r].waba]
  BY DEF ChannelsInit, Wired
<1>2. \A q \in Requests : wiring[q] = NotAsked_  BY DEF ChannelsInit
<1>3. wiring \in [Requests -> {NotAsked_} \cup Wire_]  BY DEF ChannelsInit
<1>4. Wired \subseteq Rows /\ \A r \in Wired : channel[r] \in [store : Stores, number : Numbers, waba : Wabas]
  BY <1>1, ChannelsAssumption DEF Wired
<1>5. \A r \in Wired : /\ channel[r] \in ChannelRow /\ credential[r] \in Secret_
                       /\ credential[r].number = channel[r].number
                       /\ credential[r].waba = channel[r].waba
  BY <1>1, <1>4 DEF ChannelRow, Secret_
<1>6. NumbersApart  BY <1>1, ChannelsAssumption DEF NumbersApart, Wired
<1>7. \A q \in Requests : ~InFlight(q)  BY <1>2 DEF InFlight, NotAsked_
<1> QED  BY <1>1, <1>3, <1>4, <1>5, <1>6, <1>7
         DEF ChannelsInv, ChannelShapes, WireTrue, SendsFromItsNumber, ReviewsFindTheStore

(* A request looks rows up, or ends having written none.                     *)
LEMMA WireKeeps ==
  ASSUME ChannelsInv, NEW q \in Requests, NEW w \in Wire_, wiring' = [wiring EXCEPT ![q] = w],
         wiring[q].at # "done", UNCHANGED <<channel, usedRows, credential, crossed>>,
         w.at = "looked" =>
           /\ w.row = {} \/ \E r \in usedRows : w.row = {r}
           /\ q \in OwnerRequests => \A r \in w.row : channel[r].number = w.number
  PROVE  ChannelsInv'
<1> USE DEF ChannelsInv
<1>1. \A p \in Requests : wiring'[p] = IF p = q THEN w ELSE wiring[p]  BY DEF ChannelShapes
<1>2. Wired' = Wired  BY DEF Wired
<1>3. ChannelShapes'  BY <1>2 DEF ChannelShapes
<1>4. NumbersApart'  BY <1>2 DEF NumbersApart
<1>5. \A p \in Requests : WireTrue(p)'  BY <1>1, <1>2 DEF WireTrue, InFlight
<1>6. \A r \in Wired : WroteTo(r) \subseteq WroteTo(r)'  BY <1>1 DEF WroteTo
<1>7. SendsFromItsNumber'  BY <1>2, <1>6 DEF SendsFromItsNumber
<1>8. ReviewsFindTheStore'  BY <1>2, <1>6 DEF ReviewsFindTheStore
<1> QED  BY <1>3, <1>4, <1>5, <1>7, <1>8

(* Request q writes row r and its secret, and ends.                           *)
LEMMA SaveKeeps ==
  ASSUME ChannelsInv, NEW q \in Requests, InFlight(q), NEW r \in Rows, NEW row \in ChannelRow,
         channel' = PutAt(channel, r, row), credential' = PutAt(credential, r, Secret(q)),
         wiring' = Ended(q, {r}), usedRows' = usedRows \cup {r},
         crossed \subseteq crossed', r \in Wired \/ r \notin usedRows,
         \A x \in Wired : channel[x].number = row.number => x = r,
         row.number = wiring[q].number \/ q \in crossed,
         row.waba = wiring[q].waba \/ q \in OperatorRequests,
         r \in Wired => \/ row.number = channel[r].number
                        \/ \A p \in OwnerRequests : InFlight(p) /\ wiring[p].row = {r} => p \in crossed'
  PROVE  ChannelsInv'
<1> USE DEF ChannelsInv
<1>1. wiring[q] \in Wire_  BY DEF ChannelShapes, InFlight, NotAsked_
<1>2. PICK w : w = [wiring[q] EXCEPT !.at = "done", !.row = {r}]  OBVIOUS
<1>3. w \in Wire_ /\ w.at = "done" /\ w.row = {r}  BY <1>1, <1>2 DEF Wire_
<1>4. wiring' = [wiring EXCEPT ![q] = w]  BY <1>1, <1>2 DEF Ended, Wire_, ChannelShapes
<1>5. \A p \in Requests : wiring'[p] = IF p = q THEN w ELSE wiring[p]  BY <1>4 DEF ChannelShapes
<1>6. /\ Wired' = Wired \cup {r} /\ DOMAIN credential' = Wired \cup {r}
      /\ \A x \in Wired : x # r => channel'[x] = channel[x] /\ credential'[x] = credential[x]
      /\ channel'[r] = row /\ credential'[r] = Secret(q)
  BY DEF PutAt, Wired, ChannelShapes
<1>7. Secret(q) \in Secret_ /\ Secret(q).number = wiring[q].number /\ Secret(q).waba = wiring[q].waba
  BY <1>1 DEF Secret, Secret_, Wire_
<1>8. ChannelShapes'  BY <1>3, <1>4, <1>6, <1>7 DEF ChannelShapes
<1>9. NumbersApart'  BY <1>6 DEF NumbersApart
<1>10. ASSUME NEW p \in Requests  PROVE WireTrue(p)'
  <2> SUFFICES ASSUME wiring'[p].at = "looked" PROVE WireTrue(p)'  BY DEF WireTrue, InFlight
  <2>1. p # q /\ wiring'[p] = wiring[p] /\ InFlight(p) /\ WireTrue(p)  BY <1>3, <1>5 DEF InFlight
  <2>2. wiring[p].row = {} \/ \E x \in usedRows : wiring[p].row = {x}  BY <2>1 DEF WireTrue
  <2>3. ASSUME p \in OwnerRequests, NEW x \in wiring[p].row, x \in Wired'
        PROVE  channel'[x].number = wiring[p].number \/ p \in crossed'
    BY <1>6, <2>1, <2>2, <2>3 DEF WireTrue
  <2> QED  BY <2>1, <2>2, <2>3 DEF WireTrue
<1>11. /\ \A x : WroteTo(x) \subseteq WroteTo(x)' /\ q \in WroteTo(r)'
  BY <1>3, <1>5 DEF WroteTo, InFlight
<1>12. SendsFromItsNumber'  BY <1>6, <1>7, <1>11 DEF SendsFromItsNumber
<1>13. ReviewsFindTheStore'  BY <1>6, <1>7, <1>11 DEF ReviewsFindTheStore
<1> QED  BY <1>8, <1>9, <1>10, <1>12, <1>13

LEMMA DisconnectKeeps ==
  ASSUME ChannelsInv, NEW r \in Wired, Disconnect(r)
  PROVE  ChannelsInv'
<1> USE DEF ChannelsInv
<1>1. /\ Wired' = Wired \ {r} /\ DOMAIN credential' = Wired \ {r}
      /\ \A x \in Wired \ {r} : channel'[x] = channel[x] /\ credential'[x] = credential[x]
      /\ UNCHANGED <<usedRows, wiring, crossed>>
  BY DEF Disconnect, Without, Wired, ChannelShapes
<1>2. ChannelShapes'  BY <1>1 DEF ChannelShapes
<1>3. NumbersApart' /\ \A q \in Requests : WireTrue(q)'
  BY <1>1 DEF NumbersApart, WireTrue, InFlight
<1>4. SendsFromItsNumber' /\ ReviewsFindTheStore'
  BY SMTT(30), <1>1 DEF SendsFromItsNumber, ReviewsFindTheStore, WroteTo
<1> QED  BY <1>2, <1>3, <1>4

LEMMA ChannelsSteps == ChannelsInv /\ [ChannelsNext]_channelVars => ChannelsInv'
<1> SUFFICES ASSUME ChannelsInv, [ChannelsNext]_channelVars PROVE ChannelsInv'  OBVIOUS
<1> USE DEF ChannelsInv
<1>1. CASE UNCHANGED channelVars
  <2>1. UNCHANGED <<channel, usedRows, credential, wiring, crossed, Wired>>
    BY <1>1 DEF channelVars, Wired
  <2>2. ChannelShapes' /\ NumbersApart'  BY <2>1 DEF ChannelShapes, NumbersApart
  <2>3. \A q \in Requests : WireTrue(q)'  BY <2>1 DEF WireTrue, InFlight
  <2>4. SendsFromItsNumber' /\ ReviewsFindTheStore'
    BY <2>1 DEF SendsFromItsNumber, ReviewsFindTheStore, WroteTo
  <2> QED  BY <2>2, <2>3, <2>4
<1>2. ASSUME NEW q \in OwnerRequests, LookUpNumber(q)  PROVE ChannelsInv'
  BY <1>2, WireKeeps DEF LookUpNumber, Holders, ChannelShapes, Looked, Wire_, NumbersApart,
     Requests, NotAsked_
<1>3. ASSUME NEW q \in OperatorRequests, LookUpStore(q)  PROVE ChannelsInv'
  <2>1. PICK store, number, waba, row :
          /\ store \in Stores /\ number \in Numbers /\ waba \in Wabas
          /\ row = {} \/ \E r \in Wired : row = {r}
          /\ wiring' = [wiring EXCEPT ![q] = Looked(store, number, waba, row)]
    BY <1>3 DEF LookUpStore
  <2>2. PICK w : w = Looked(store, number, waba, row)  OBVIOUS
  <2>3. Wired \subseteq usedRows /\ usedRows \subseteq Rows  BY DEF ChannelShapes
  <2>4. w \in Wire_ /\ w.row = row  BY <2>1, <2>2, <2>3 DEF Looked, Wire_
  <2>5. w.row = {} \/ \E r \in usedRows : w.row = {r}  BY <2>1, <2>3, <2>4
  <2>6. q \in Requests /\ q \notin OwnerRequests /\ wiring[q].at # "done"
    BY <1>3, ChannelsAssumption DEF LookUpStore, Requests, NotAsked_
  <2>7. wiring' = [wiring EXCEPT ![q] = w]  BY <2>1, <2>2
  <2> QED  BY <1>3, <2>4, <2>5, <2>6, <2>7, WireKeeps DEF LookUpStore
<1>4. ASSUME NEW q \in Requests, RollBackWiring(q)  PROVE ChannelsInv'
  <2>1. wiring[q] \in Wire_ /\ wiring[q].at = "looked"
    BY <1>4 DEF RollBackWiring, InFlight, ChannelShapes, NotAsked_
  <2>2. PICK w : w = [wiring[q] EXCEPT !.at = "done", !.row = {}]  OBVIOUS
  <2>3. w \in Wire_ /\ w.at = "done"  BY <2>1, <2>2 DEF Wire_
  <2>4. wiring' = [wiring EXCEPT ![q] = w]
    BY <1>4, <2>1, <2>2 DEF RollBackWiring, Ended, Wire_, ChannelShapes
  <2> QED  BY <1>4, <2>1, <2>3, <2>4, WireKeeps DEF RollBackWiring
<1>5. ASSUME NEW q \in OwnerRequests, SaveReconnected(q)  PROVE ChannelsInv'
  <2>1. PICK r \in wiring[q].row \cap Wired :
          /\ channel' = PutAt(channel, r, Reconnected(q, r))
          /\ credential' = PutAt(credential, r, Secret(q)) /\ wiring' = Ended(q, {r})
          /\ UNCHANGED <<usedRows, crossed>>
    BY <1>5 DEF SaveReconnected
  <2>2. PICK row : row = Reconnected(q, r)  OBVIOUS
  <2>3. q \in Requests /\ InFlight(q)  BY <1>5 DEF SaveReconnected, Requests
  <2>4. wiring[q] \in Wire_ /\ channel[r] \in ChannelRow /\ r \in usedRows /\ r \in Rows
    BY <2>3 DEF InFlight, ChannelShapes, NotAsked_
  <2>5. row \in ChannelRow /\ row.number = channel[r].number /\ row.waba = wiring[q].waba
    BY <2>2, <2>4 DEF Reconnected, ChannelRow, Wire_
  <2>6. row.number = wiring[q].number \/ q \in crossed  BY <2>3, <2>5 DEF WireTrue
  <2>7. \A x \in Wired : channel[x].number = row.number => x = r  BY <2>5 DEF NumbersApart
  <2>8. usedRows' = usedRows \cup {r}  BY <2>1, <2>4
  <2>9. channel' = PutAt(channel, r, row)  BY <2>1, <2>2
  <2> QED  BY <2>1, <2>3, <2>4, <2>5, <2>6, <2>7, <2>8, <2>9, SaveKeeps
<1>6. ASSUME NEW q \in Requests, SaveNew(q)  PROVE ChannelsInv'
  <2>1. PICK r : r = CHOOSE x \in Rows \ usedRows : TRUE  OBVIOUS
  <2>2. PICK row : row = [store |-> wiring[q].store, number |-> wiring[q].number, waba |-> RowWaba(q)]
    OBVIOUS
  <2>3. /\ InFlight(q) /\ Holders(wiring[q].number) = {} /\ r \in Rows \ usedRows
        /\ channel' = PutAt(channel, r, row)
        /\ credential' = PutAt(credential, r, Secret(q)) /\ wiring' = Ended(q, {r})
        /\ usedRows' = usedRows \cup {r} /\ UNCHANGED crossed
    BY <1>6, <2>1, <2>2 DEF SaveNew
  <2>4. wiring[q] \in Wire_  BY <2>3 DEF InFlight, ChannelShapes, NotAsked_
  <2>5. /\ row \in ChannelRow /\ row.number = wiring[q].number
        /\ row.waba = wiring[q].waba \/ q \in OperatorRequests
    BY <2>2, <2>4 DEF RowWaba, ChannelRow, Wire_, Requests
  <2>6. \A x \in Wired : channel[x].number # row.number  BY <2>3, <2>5 DEF Holders
  <2>7. r \notin Wired  BY <2>3 DEF ChannelShapes
  <2> QED  BY <2>3, <2>5, <2>6, <2>7, SaveKeeps
<1>7. ASSUME NEW q \in OperatorRequests, SaveRepasted(q)  PROVE ChannelsInv'
  <2>1. PICK r \in wiring[q].row \cap Wired :
          /\ Holders(wiring[q].number) \subseteq {r}
          /\ channel' = PutAt(channel, r, Repasted(q, r))
          /\ credential' = PutAt(credential, r, Secret(q)) /\ wiring' = Ended(q, {r})
          /\ crossed' = crossed \cup {o \in OwnerRequests : InFlight(o) /\ wiring[o].row = {r}}
          /\ UNCHANGED usedRows
    BY <1>7 DEF SaveRepasted
  <2>2. PICK row : row = Repasted(q, r)  OBVIOUS
  <2>3. q \in Requests /\ InFlight(q)  BY <1>7 DEF SaveRepasted, Requests
  <2>4. wiring[q] \in Wire_ /\ channel[r] \in ChannelRow /\ r \in usedRows /\ r \in Rows
    BY <2>3 DEF InFlight, ChannelShapes, NotAsked_
  <2>5. row \in ChannelRow /\ row.number = wiring[q].number
    BY <2>2, <2>4 DEF Repasted, ChannelRow, Wire_
  <2>6. \A x \in Wired : channel[x].number = row.number => x = r  BY <2>1, <2>5 DEF Holders
  <2>7. usedRows' = usedRows \cup {r}  BY <2>1, <2>4
  <2>8. channel' = PutAt(channel, r, row) /\ crossed \subseteq crossed'  BY <2>1, <2>2
  <2>9. \A p \in OwnerRequests : InFlight(p) /\ wiring[p].row = {r} => p \in crossed'  BY <2>1
  <2> QED  BY <1>7, <2>1, <2>3, <2>4, <2>5, <2>6, <2>7, <2>8, <2>9, SaveKeeps
<1> QED  BY <1>1, <1>2, <1>3, <1>4, <1>5, <1>6, <1>7, DisconnectKeeps DEF ChannelsNext, Requests

LEMMA ChannelsInvShows == ChannelsInv => ChannelsTypeOK /\ SendsFromItsNumber /\ ReviewsFindTheStore
<1> SUFFICES ASSUME ChannelsInv PROVE ChannelsTypeOK  BY DEF ChannelsInv
<1>1. \A q \in Requests : wiring[q].at \in {"none", "looked", "done"} /\ wiring[q].row \subseteq Rows
  BY DEF ChannelsInv, ChannelShapes, NotAsked_, Wire_
<1> QED  BY <1>1 DEF ChannelsInv, ChannelShapes, ChannelsTypeOK, ChannelRow

(*************************************************************************)
(* The layers of a prompt                                                *)
(*************************************************************************)

Version_ == Nat \X Nat
Base_ == [version : Version_, by : Installs]
Bound_ == [base : Version_, vertical : BOOLEAN, tenant : {"plain", "braced"}, active : BOOLEAN]
Install_ ==
  [at : {"idle", "done", "failed", "tooMany"}] \cup [at : {"loaded"}, version : BundleVersions]
  \cup [at : {"seeded"}, version : BundleVersions, schema : BOOLEAN, own : BOOLEAN]
  \cup [at : {"chosen"}, version : BundleVersions, schema : BOOLEAN, own : BOOLEAN,
        base : Version_, ownBase : BOOLEAN, pins : BOOLEAN, tenant : {"plain", "braced"}]
Swap_ ==
  [at : {"idle", "over"}]
  \cup [at : {"pin"}, on : Installs, seen : SUBSET Nat, target : Nat, new : Bound_]
  \cup [at : {"revert"}, on : Installs, seen : SUBSET Nat, target : Nat]
Prompted_ ==
  [at : {"idle"}] \cup [at : {"found", "skeleton", "grounded"}, on : Installs, binding : SUBSET Nat]

PromptsTypes ==
  /\ baseFile \in Files /\ changes \in 0..MaxChanges
  /\ bundle \in [DOMAIN Requires -> BundleVersions] /\ catalogued \subseteq DOMAIN Requires
  /\ baseRows \in Seq(Base_)
  /\ verticalRows \in [DOMAIN Requires -> [BundleVersions -> Nat]]
  /\ facts \in [Installs -> {"plain", "braced"}]
  /\ install \in [Installs -> Install_] /\ binding \in [Installs -> Seq(Bound_)]
  /\ swap \in [Swaps -> Swap_] /\ prompted \in [PromptRuns -> Prompted_]

(* A pack whose text was never reworded has one vertical layer, with its schema. *)
VerticalsTrue ==
  \A p \in DOMAIN Requires :
    bundle[p] = 1 => /\ verticalRows[p][2] = 0
                     /\ verticalRows[p][1] = IF p \in catalogued THEN 1 ELSE 0

Under(i) == install[i].at \in Uncommitted
FreshBase(i) ==
  \A k \in DOMAIN baseRows :
    baseRows[k].version = install[i].base => PackOf[baseRows[k].by] # PackOf[i]
TwoBases ==
  \E k, l \in DOMAIN baseRows : k # l /\ baseRows[k].version = baseRows[l].version

(* What an install holds is true of what is committed.                       *)
InstallOK(i) ==
  /\ install[i].at \in {"loaded"} \cup Uncommitted /\ bundle[PackOf[i]] = 1 => install[i].version = 1
  /\ Under(i) => (install[i].schema <=> PackOf[i] \notin catalogued)
  /\ Under(i) /\ bundle[PackOf[i]] = 1 => (install[i].own <=> PackOf[i] \notin catalogued)
  /\ install[i].at = "chosen" =>
       /\ install[i].pins => Compatible(i, install[i].base, TRUE)
       /\ install[i].ownBase => FreshBase(i)
  /\ install[i].at # "done" => binding[i] = << >>
  /\ install[i].at = "tooMany" => bundle[PackOf[i]] = 2 \/ TwoBases

(* The schema's row lets one install of a new pack through at a time, the      *)
(* agent binding one install of a pack between its choice and its commit.      *)
InstallsApart ==
  \A i, j \in Installs :
    i # j /\ PackOf[i] = PackOf[j] =>
      /\ Under(i) /\ Under(j) => PackOf[i] \in catalogued
      /\ ~(install[i].at = "chosen" /\ install[j].at = "chosen")
BasesOnce ==
  \A k, l \in DOMAIN baseRows :
    k # l /\ baseRows[k].version = baseRows[l].version
    => PackOf[baseRows[k].by] # PackOf[baseRows[l].by]

BindingOK(i) ==
  /\ binding[i] # << >> => \E k \in DOMAIN binding[i] : ActiveOf(i) = {k}
  /\ \A k \in DOMAIN binding[i] : Compatible(i, binding[i][k].base, binding[i][k].vertical)
SwapOK(s) ==
  /\ swap[s].at \in {"pin", "revert"} => install[swap[s].on].at = "done"
  /\ swap[s].at = "pin" =>
       swap[s].new.active /\ Compatible(swap[s].on, swap[s].new.base, swap[s].new.vertical)
  /\ swap[s].at = "revert" => swap[s].target \in DOMAIN binding[swap[s].on]
RunOK(r) ==
  /\ prompted[r].at \in {"found", "skeleton"} =>
       /\ install[prompted[r].on].at = "done"
       /\ prompted[r].binding \subseteq DOMAIN binding[prompted[r].on]
  /\ prompted[r].at = "skeleton" =>
       \A k \in prompted[r].binding : binding[prompted[r].on][k].tenant = "braced"

PromptsInv ==
  /\ PromptsTypes /\ VerticalsTrue /\ InstallsApart /\ BasesOnce
  /\ \A i \in Installs : InstallOK(i) /\ BindingOK(i)
  /\ \A s \in Swaps : SwapOK(s)
  /\ \A r \in PromptRuns : RunOK(r)

LEMMA PromptsStarts == PromptsInit => PromptsInv
<1> SUFFICES ASSUME PromptsInit PROVE PromptsInv  OBVIOUS
<1>1. Idle.at = "idle" /\ Idle \in Install_ /\ Idle \in Swap_ /\ Idle \in Prompted_
  BY DEF Idle, Install_, Swap_, Prompted_
<1>2. /\ \A i \in Installs : install[i] = Idle /\ binding[i] = << >>
      /\ \A s \in Swaps : swap[s] = Idle
      /\ \A r \in PromptRuns : prompted[r] = Idle
      /\ baseRows = << >> /\ catalogued = {}
  BY DEF PromptsInit
<1>3. PromptsTypes
  BY <1>1, <1>2, PromptsAssumption DEF PromptsInit, BundleVersions, PromptsTypes
<1>4. VerticalsTrue  BY DEF VerticalsTrue, PromptsInit, BundleVersions
<1>5. \A i \in Installs : InstallOK(i) /\ BindingOK(i)
  <2> SUFFICES ASSUME NEW i \in Installs PROVE InstallOK(i) /\ BindingOK(i)  OBVIOUS
  <2>1. install[i].at = "idle" /\ ~Under(i)  BY <1>1, <1>2 DEF Under, Uncommitted
  <2>2. InstallOK(i)  BY <1>2, <2>1 DEF InstallOK, Uncommitted
  <2>3. DOMAIN binding[i] = {}  BY <1>2
  <2>4. BindingOK(i)  BY <1>2, <2>3 DEF BindingOK
  <2> QED  BY <2>2, <2>4
<1>6. InstallsApart /\ BasesOnce  BY <1>1, <1>2 DEF InstallsApart, BasesOnce, Under, Uncommitted
<1>7. (\A s \in Swaps : SwapOK(s)) /\ (\A r \in PromptRuns : RunOK(r))
  BY <1>1, <1>2 DEF SwapOK, RunOK
<1> QED  BY <1>3, <1>4, <1>5, <1>6, <1>7 DEF PromptsInv

(* A release, a reworded pack, new settings.                                 *)
LEMMA DeployKeeps ==
  ASSUME PromptsInv,
         UNCHANGED <<catalogued, baseRows, verticalRows, install, binding, swap, prompted>>,
         PromptsTypes', \A p \in DOMAIN Requires : bundle[p] = 2 => bundle'[p] = 2
  PROVE  PromptsInv'
<1> USE DEF PromptsInv
<1>1. \A p \in DOMAIN Requires : bundle'[p] = 1 => bundle[p] = 1
  BY DEF PromptsTypes, BundleVersions
<1>2. VerticalsTrue'  BY <1>1 DEF VerticalsTrue
<1>3. InstallsApart' /\ BasesOnce'  BY DEF InstallsApart, BasesOnce, Under
<1>4. \A i \in Installs : PackOf[i] \in DOMAIN Requires  BY PromptsAssumption
<1>5. \A i \in Installs : InstallOK(i)'
  BY ZenonT(60), <1>1, <1>4 DEF InstallOK, Under, FreshBase, TwoBases
<1>6. \A i \in Installs : BindingOK(i)'  BY DEF BindingOK, ActiveOf
<1>7. (\A s \in Swaps : SwapOK(s)') /\ (\A r \in PromptRuns : RunOK(r)')
  BY DEF SwapOK, RunOK
<1> QED  BY <1>2, <1>3, <1>5, <1>6, <1>7

(* An install goes on, committing nothing.                                   *)
LEMMA InstallKeeps ==
  ASSUME PromptsInv, NEW i \in Installs, NEW t \in Install_, install' = [install EXCEPT ![i] = t],
         UNCHANGED <<deployVars, catalogued, baseRows, verticalRows, binding, swap, prompted>>,
         install[i].at # "done", t.at # "done", InstallOK(i)',
         t.at \in Uncommitted /\ PackOf[i] \notin catalogued => \A j \in Others(i) : ~Under(j),
         t.at = "chosen" => \A j \in Others(i) : install[j].at # "chosen"
  PROVE  PromptsInv'
<1> USE DEF PromptsInv
<1>1. UNCHANGED <<baseFile, bundle, facts, changes>>  BY DEF deployVars
<1>2. \A j \in Installs : install'[j] = IF j = i THEN t ELSE install[j]  BY DEF PromptsTypes
<1>3. PromptsTypes'  BY <1>1 DEF PromptsTypes
<1>4. VerticalsTrue' /\ BasesOnce'  BY <1>1 DEF VerticalsTrue, BasesOnce
<1>5. InstallsApart'  BY <1>2 DEF InstallsApart, Under, Others
<1>6. ASSUME NEW j \in Installs  PROVE InstallOK(j)' /\ BindingOK(j)'
  BY <1>1, <1>2 DEF BindingOK, ActiveOf, Under, TwoBases, FreshBase, Compatible, InstallOK
<1>7. \A j \in Installs : install[j].at = "done" => install'[j].at = "done"  BY <1>2
<1>8. \A s \in Swaps : swap[s].at \in {"pin", "revert"} => swap[s].on \in Installs
  BY DEF PromptsTypes, Swap_
<1>9. \A r \in PromptRuns : prompted[r].at \in {"found", "skeleton"} => prompted[r].on \in Installs
  BY DEF PromptsTypes, Prompted_
<1>10. (\A s \in Swaps : SwapOK(s)') /\ (\A r \in PromptRuns : RunOK(r)')
  BY <1>7, <1>8, <1>9 DEF SwapOK, RunOK
<1> QED  BY <1>3, <1>4, <1>5, <1>6, <1>10

LEMMA InstallBegins ==
  ASSUME PromptsInv, NEW i \in Installs, LoadBundle(i) \/ AbortInstall(i)
  PROVE  PromptsInv'
<1> USE DEF PromptsInv
<1>1. PackOf[i] \in DOMAIN Requires  BY PromptsAssumption
<1>2. CASE LoadBundle(i)
  <2>1. PICK t : t = [at |-> "loaded", version |-> bundle[PackOf[i]]]  OBVIOUS
  <2>2. /\ install' = [install EXCEPT ![i] = t] /\ install[i] = Idle
        /\ UNCHANGED <<deployVars, catalogued, baseRows, verticalRows, binding, swap, prompted>>
    BY <1>2, <2>1 DEF LoadBundle
  <2>3. t \in Install_ /\ t.at = "loaded" /\ t.version = bundle[PackOf[i]]
    BY <1>1, <2>1 DEF PromptsTypes, Install_
  <2>4. install[i].at = "idle"  BY <2>2 DEF Idle
  <2>5. install'[i] = t /\ bundle' = bundle  BY <2>2 DEF PromptsTypes, deployVars
  <2>6. InstallOK(i)'  BY <2>2, <2>3, <2>4, <2>5 DEF InstallOK, Under, Uncommitted
  <2> QED  BY <2>2, <2>3, <2>4, <2>6, InstallKeeps DEF Uncommitted
<1>3. CASE AbortInstall(i)
  <2>1. PICK t : t = [at |-> "failed"]  OBVIOUS
  <2>2. /\ install' = [install EXCEPT ![i] = t] /\ install[i].at \in Uncommitted
        /\ UNCHANGED <<deployVars, catalogued, baseRows, verticalRows, binding, swap, prompted>>
    BY <1>3, <2>1 DEF AbortInstall
  <2>3. t \in Install_ /\ t.at = "failed"  BY <2>1 DEF Install_
  <2>4. install[i].at # "done"  BY <2>2 DEF Uncommitted
  <2>5. install'[i] = t  BY <2>2 DEF PromptsTypes
  <2>6. InstallOK(i)'  BY <2>2, <2>3, <2>4, <2>5 DEF InstallOK, Under, Uncommitted
  <2> QED  BY <2>2, <2>3, <2>4, <2>6, InstallKeeps DEF Uncommitted
<1> QED  BY <1>2, <1>3

LEMMA SeedKeeps ==
  ASSUME PromptsInv, NEW i \in Installs, Seed(i)
  PROVE  PromptsInv'
<1> USE DEF PromptsInv
<1>1. PICK p, v : p = PackOf[i] /\ v = install[i].version  OBVIOUS
<1>2. PICK schema, own : schema = (p \notin catalogued) /\ own = (verticalRows[p][v] = 0)  OBVIOUS
<1>3. PICK t : t = [at |-> "seeded", version |-> v, schema |-> schema, own |-> own]  OBVIOUS
<1>4. /\ install' = [install EXCEPT ![i] = t] /\ install[i].at = "loaded" /\ SchemaFree(i)
      /\ UNCHANGED <<deployVars, catalogued, baseRows, verticalRows, binding, swap, prompted>>
  BY <1>1, <1>2, <1>3 DEF Seed
<1>5. p \in DOMAIN Requires /\ v \in BundleVersions
  BY <1>1, <1>4, PromptsAssumption DEF PromptsTypes, Install_
<1>6. schema \in BOOLEAN /\ own \in BOOLEAN  BY <1>2
<1>7. t \in Install_ /\ t.at = "seeded" /\ t.version = v /\ t.schema = schema /\ t.own = own
  BY <1>3, <1>5, <1>6 DEF Install_
<1>8. install'[i] = t /\ bundle' = bundle  BY <1>4 DEF PromptsTypes, deployVars
<1>9. bundle[p] = 1 => v = 1 /\ (own <=> p \notin catalogued)
  <2> SUFFICES ASSUME bundle[p] = 1 PROVE v = 1 /\ (own <=> p \notin catalogued)  OBVIOUS
  <2>1. InstallOK(i) /\ VerticalsTrue  OBVIOUS
  <2>2. v = 1  BY <1>1, <1>4, <2>1 DEF InstallOK
  <2>3. verticalRows[p][1] = IF p \in catalogued THEN 1 ELSE 0  BY <1>5, <2>1 DEF VerticalsTrue
  <2>4. verticalRows[p][v] = IF p \in catalogued THEN 1 ELSE 0  BY <2>2, <2>3
  <2>5. (verticalRows[p][v] = 0) <=> p \notin catalogued  BY <2>4
  <2> QED  BY <1>2, <2>2, <2>5
<1>10. InstallOK(i)'
  BY <1>1, <1>2, <1>4, <1>7, <1>8, <1>9 DEF InstallOK, Under, Uncommitted
<1>11. p \notin catalogued => \A j \in Others(i) : ~Under(j)
  BY <1>1, <1>4 DEF SchemaFree, Under, Others, InstallOK
<1> QED  BY <1>1, <1>4, <1>7, <1>10, <1>11, InstallKeeps

LEMMA BasesSeenTwice == Cardinality(BasesSeen) > 1 /\ PromptsTypes => TwoBases
<1> SUFFICES ASSUME PromptsTypes, ~TwoBases PROVE ~(Cardinality(BasesSeen) > 1)  OBVIOUS
<1>1. \A k, l \in BasesSeen : k = l  BY DEF BasesSeen, TwoBases
<1>2. CASE BasesSeen = {}  BY <1>2, FS_EmptySet
<1>3. CASE BasesSeen # {}
  <2>1. PICK k : BasesSeen = {k}  BY <1>1, <1>3
  <2>2. Cardinality(BasesSeen) = 1  BY <2>1, FS_Singleton
  <2> QED  BY <2>2
<1> QED  BY <1>2, <1>3

LEMMA ChooseKeeps ==
  ASSUME PromptsInv, NEW i \in Installs, Choose(i)
  PROVE  PromptsInv'
<1> USE DEF PromptsInv
<1>1. /\ install[i].at = "seeded" /\ \A j \in Others(i) : install[j].at # "chosen"
      /\ UNCHANGED <<deployVars, catalogued, baseRows, verticalRows, binding, swap, prompted>>
  BY DEF Choose
<1>2. install[i] \in [at : {"seeded"}, version : BundleVersions, schema : BOOLEAN, own : BOOLEAN]
  BY <1>1 DEF PromptsTypes, Install_
<1>3. PICK p : p = PackOf[i] /\ p \in DOMAIN Requires  BY PromptsAssumption
<1>4. UNCHANGED <<baseFile, bundle, facts>>  BY <1>1 DEF deployVars
<1>5. p \notin catalogued => \A j \in Others(i) : ~Under(j)
  BY <1>1, <1>3 DEF InstallsApart, Under, Uncommitted, Others
<1>6. CASE Cardinality(BasesSeen) > 1 \/ VerticalsSeen(i) > 1
  <2>1. PICK t : t = [at |-> "tooMany"]  OBVIOUS
  <2>2. install' = [install EXCEPT ![i] = t]  BY <1>6, <2>1 DEF Choose
  <2>3. t \in Install_ /\ t.at = "tooMany" /\ install'[i] = t  BY <2>1, <2>2 DEF Install_, PromptsTypes
  <2>4. bundle[p] = 2 \/ TwoBases
    <3>1. CASE Cardinality(BasesSeen) > 1  BY <3>1, BasesSeenTwice
    <3>2. CASE VerticalsSeen(i) > 1 /\ bundle[p] = 1
      <4>1. /\ verticalRows[p][2] = 0 /\ verticalRows[p][1] = IF p \in catalogued THEN 1 ELSE 0
            /\ install[i].own <=> p \notin catalogued
        BY <1>1, <1>3, <3>2 DEF VerticalsTrue, InstallOK, Under, Uncommitted
      <4> QED  BY <1>3, <3>2, <4>1 DEF VerticalsSeen
    <3>3. bundle[p] \in {1, 2}  BY <1>3 DEF PromptsTypes, BundleVersions
    <3> QED  BY <1>6, <3>1, <3>2, <3>3
  <2>5. TwoBases => TwoBases'  BY <1>1 DEF TwoBases
  <2>6. InstallOK(i)'
    BY <1>1, <1>3, <1>4, <2>3, <2>4, <2>5 DEF InstallOK, Under, Uncommitted
  <2> QED  BY <1>1, <2>2, <2>3, <2>6, InstallKeeps DEF Uncommitted
<1>7. CASE ~(Cardinality(BasesSeen) > 1 \/ VerticalsSeen(i) > 1)
  <2>1. PICK ownBase, pins : ownBase = (BasesSeen = {}) /\ pins = Pins(i)  OBVIOUS
  <2>2. PICK c : c = install[i]  OBVIOUS
  <2>3. PICK t : t = [at |-> "chosen", version |-> c.version, schema |-> c.schema, own |-> c.own,
                      base |-> baseFile, ownBase |-> ownBase, pins |-> pins, tenant |-> facts[i]]
    OBVIOUS
  <2>4. install' = [install EXCEPT ![i] = t]
    BY <1>7, <2>1, <2>2, <2>3 DEF Choose, PromptsTypes
  <2>5. ownBase \in BOOLEAN /\ pins \in BOOLEAN
    BY <2>1 DEF Pins, Compatible
  <2>6. baseFile \in Version_ /\ facts[i] \in {"plain", "braced"}
    BY PromptsAssumption DEF PromptsTypes, Version_
  <2>7. /\ c.version \in BundleVersions /\ c.schema \in BOOLEAN /\ c.own \in BOOLEAN  BY <1>2, <2>2
  <2>8. /\ t \in Install_ /\ t.at = "chosen" /\ t.version = c.version /\ t.schema = c.schema
        /\ t.own = c.own /\ t.base = baseFile /\ t.ownBase = ownBase /\ t.pins = pins
    BY <2>3, <2>5, <2>6, <2>7 DEF Install_
  <2>9. install'[i] = t  BY <2>4 DEF PromptsTypes
  <2>10. pins => Compatible(i, t.base, TRUE)  BY <2>1, <2>8 DEF Pins
  <2>11. ownBase => \A k \in DOMAIN baseRows : baseRows[k].version # t.base
    BY <2>1, <2>8 DEF BasesSeen
  <2>12. FreshBase(i)' <=> \A k \in DOMAIN baseRows :
                             baseRows[k].version = t.base => PackOf[baseRows[k].by] # PackOf[i]
    BY <1>1, <2>9 DEF FreshBase
  <2>13. InstallOK(i)'
    BY <1>1, <1>3, <1>4, <2>2, <2>8, <2>9, <2>10, <2>11, <2>12 DEF Compatible, InstallOK,
       Under, Uncommitted
  <2> QED  BY <1>1, <1>3, <1>5, <2>4, <2>8, <2>13, InstallKeeps
<1> QED  BY <1>6, <1>7

LEMMA CommitKeeps ==
  ASSUME PromptsInv, NEW i \in Installs, CommitInstall(i)
  PROVE  PromptsInv'
<1> USE DEF PromptsInv
<1>1. PICK p, t : p = PackOf[i] /\ t = install[i]  OBVIOUS
<1>2. PICK row : row = [version |-> t.base, by |-> i]  OBVIOUS
<1>3. PICK b : b = Binding(t.base, TRUE, t.tenant)  OBVIOUS
<1>4. /\ t.at = "chosen" /\ install' = [install EXCEPT ![i] = [at |-> "done"]]
      /\ catalogued' = catalogued \cup {p}
      /\ baseRows' = IF t.ownBase THEN Append(baseRows, row) ELSE baseRows
      /\ verticalRows' = [verticalRows EXCEPT ![p][t.version] = IF t.own THEN @ + 1 ELSE @]
      /\ binding' = IF t.pins THEN [binding EXCEPT ![i] = << b >>] ELSE binding
      /\ UNCHANGED <<baseFile, bundle, facts, changes, swap, prompted>>
  BY <1>1, <1>2, <1>3 DEF CommitInstall, deployVars
<1>5. p \in DOMAIN Requires /\ \A j \in Installs : PackOf[j] \in DOMAIN Requires
  BY <1>1, PromptsAssumption
<1>6. /\ t.version \in BundleVersions /\ t.own \in BOOLEAN /\ t.base \in Version_
      /\ t.tenant \in {"plain", "braced"} /\ t.ownBase \in BOOLEAN /\ t.pins \in BOOLEAN
  BY <1>1, <1>4 DEF PromptsTypes, Install_
<1>7. row \in Base_ /\ row.version = t.base /\ row.by = i
  BY <1>2, <1>6 DEF Base_
<1>8. /\ b \in Bound_ /\ b.active = TRUE /\ b.base = t.base /\ b.vertical = TRUE
  BY <1>3, <1>6 DEF Binding, Bound_
<1>9. InstallOK(i) /\ Under(i)  BY <1>1, <1>4 DEF Under, Uncommitted
<1>10. /\ \A j \in Installs : install'[j] = IF j = i THEN [at |-> "done"] ELSE install[j]
       /\ \A j \in Installs : binding'[j] = IF j = i /\ t.pins THEN << b >> ELSE binding[j]
  BY <1>4 DEF PromptsTypes
<1>11. PromptsTypes'
  <2>1. [at |-> "done"] \in Install_  BY DEF Install_
  <2>2. install' \in [Installs -> Install_]  BY <1>4, <2>1 DEF PromptsTypes
  <2>3. << b >> \in Seq(Bound_)  BY <1>8
  <2>4. binding' \in [Installs -> Seq(Bound_)]  BY <1>4, <2>3 DEF PromptsTypes
  <2>5. baseRows' \in Seq(Base_)  BY <1>4, <1>7 DEF PromptsTypes
  <2>6. verticalRows' \in [DOMAIN Requires -> [BundleVersions -> Nat]]
    <3>1. PICK n : n = IF t.own THEN verticalRows[p][t.version] + 1 ELSE verticalRows[p][t.version]
      OBVIOUS
    <3>2. verticalRows[p][t.version] \in Nat  BY <1>5, <1>6 DEF PromptsTypes
    <3>3. n \in Nat  BY <1>6, <3>1, <3>2
    <3>4. verticalRows' = [verticalRows EXCEPT ![p][t.version] = n]  BY <1>4, <3>1
    <3> QED  BY <1>5, <1>6, <3>3, <3>4 DEF PromptsTypes
  <2>7. catalogued' \subseteq DOMAIN Requires  BY <1>4, <1>5 DEF PromptsTypes
  <2> QED  BY <1>4, <2>2, <2>4, <2>5, <2>6, <2>7 DEF PromptsTypes
<1>12. VerticalsTrue'
  BY <1>1, <1>4, <1>5, <1>9 DEF VerticalsTrue, PromptsTypes, InstallOK, Uncommitted,
     BundleVersions
<1>13. /\ \A k \in DOMAIN baseRows : k \in DOMAIN baseRows' /\ baseRows'[k] = baseRows[k]
       /\ \A k \in DOMAIN baseRows' :
            k \in DOMAIN baseRows \/ (t.ownBase /\ k = Len(baseRows) + 1 /\ baseRows'[k] = row)
  <2>1. CASE ~t.ownBase  BY <1>4, <2>1
  <2>2. CASE t.ownBase
    <3>1. baseRows' = Append(baseRows, row) /\ baseRows \in Seq(Base_)
      BY <1>4, <2>2 DEF PromptsTypes
    <3> HIDE DEF PromptsInv
    <3>2. Len(baseRows) \in Nat /\ DOMAIN baseRows = 1 .. Len(baseRows)  BY <3>1
    <3>3. DOMAIN baseRows' = 1 .. (Len(baseRows) + 1)  BY <3>1
    <3>4. baseRows'[Len(baseRows) + 1] = row /\ \A k \in DOMAIN baseRows : baseRows'[k] = baseRows[k]
      BY <3>1
    <3> QED  BY <2>2, <3>2, <3>3, <3>4
  <2> QED  BY <2>1, <2>2
<1>14. TwoBases => TwoBases'  BY <1>13 DEF TwoBases
<1>15. \A j \in Installs : j # i /\ PackOf[j] = p /\ Under(j) =>
         p \in catalogued /\ install[j].at # "chosen"
  BY <1>1, <1>4, <1>9 DEF InstallsApart
<1>16. ASSUME NEW j \in Installs  PROVE InstallOK(j)'
  <2>1. CASE j = i
    <3>1. install'[i].at = "done"  BY <1>10
    <3>2. ~Under(i)' /\ install'[i].at \notin Uncommitted  BY <3>1 DEF Under, Uncommitted
    <3> QED  BY <2>1, <3>1, <3>2 DEF InstallOK
  <2>2. CASE j # i
    <3>1. install'[j] = install[j] /\ binding'[j] = binding[j] /\ (Under(j)' <=> Under(j))
      BY <1>10, <2>2 DEF Under
    <3>2. Under(j) => (PackOf[j] \in catalogued' <=> PackOf[j] \in catalogued)
      BY <1>4, <1>15, <2>2
    <3>3. install[j].at = "chosen" => (FreshBase(j) => FreshBase(j)')
      BY <1>1, <1>7, <1>13, <1>15, <2>2, <3>1 DEF FreshBase, Under, Uncommitted
    <3>4. (Compatible(j, install[j].base, TRUE))' <=> Compatible(j, install[j].base, TRUE)
      BY <3>1 DEF Compatible
    <3>5. InstallOK(j) /\ bundle' = bundle  BY <1>4
    <3> QED  BY <1>14, <3>1, <3>2, <3>3, <3>4, <3>5 DEF InstallOK
  <2> QED  BY <2>1, <2>2
<1>17. InstallsApart'  BY <1>4, <1>10 DEF Under, Uncommitted, InstallsApart
<1>18. BasesOnce'  BY <1>1, <1>4, <1>7, <1>9, <1>13 DEF BasesOnce, InstallOK, FreshBase
<1>19. ASSUME NEW j \in Installs  PROVE BindingOK(j)'
  BY SMTT(30), <1>1, <1>4, <1>8, <1>9, <1>10 DEF ActiveOf, InstallOK, BindingOK, Compatible
<1>20. \A j \in Installs : install[j].at = "done" =>
         install'[j].at = "done" /\ binding'[j] = binding[j]
  BY <1>1, <1>4, <1>10
<1>21. \A s \in Swaps : swap[s].at \in {"pin", "revert"} => swap[s].on \in Installs
  BY DEF PromptsTypes, Swap_
<1>22. \A r \in PromptRuns : prompted[r].at \in {"found", "skeleton"} => prompted[r].on \in Installs
  BY DEF PromptsTypes, Prompted_
<1>23. \A s \in Swaps : SwapOK(s)'  BY <1>4, <1>20, <1>21 DEF SwapOK, Compatible
<1>24. \A r \in PromptRuns : RunOK(r)'  BY <1>4, <1>20, <1>22 DEF RunOK
<1> QED  BY <1>11, <1>12, <1>16, <1>17, <1>18, <1>19, <1>23, <1>24

(* A pin or a revert goes on; it may add a binding or choose the active one. *)
LEMMA SwapKeeps ==
  ASSUME PromptsInv, NEW s \in Swaps, NEW c \in Swap_, swap' = [swap EXCEPT ![s] = c],
         UNCHANGED <<deployVars, catalogued, baseRows, verticalRows, install, prompted>>,
         binding' \in [Installs -> Seq(Bound_)],
         \A j \in Installs :
           /\ install[j].at # "done" => binding'[j] = binding[j]
           /\ \A k \in DOMAIN binding[j] :
                k \in DOMAIN binding'[j] /\ binding'[j][k].tenant = binding[j][k].tenant
           /\ BindingOK(j)',
         SwapOK(s)'
  PROVE  PromptsInv'
<1> USE DEF PromptsInv
<1>1. UNCHANGED <<baseFile, bundle, facts, changes>>  BY DEF deployVars
<1>2. PromptsTypes'  BY <1>1 DEF PromptsTypes
<1>3. VerticalsTrue' /\ BasesOnce' /\ InstallsApart'
  BY <1>1 DEF VerticalsTrue, BasesOnce, InstallsApart, Under
<1>4. ASSUME NEW j \in Installs  PROVE InstallOK(j)'
  BY <1>1 DEF InstallOK, Under, FreshBase, TwoBases, Compatible
<1>5. \A r \in PromptRuns : prompted[r].at \in {"found", "skeleton"} => prompted[r].on \in Installs
  BY DEF PromptsTypes, Prompted_
<1>6. \A r \in PromptRuns : RunOK(r)'  BY SMTT(30), <1>5 DEF RunOK
<1>7. \A q \in Swaps : SwapOK(q)'  BY DEF PromptsTypes, Swap_, SwapOK, Compatible
<1> QED  BY <1>2, <1>3, <1>4, <1>6, <1>7

LEMMA SwapBegins ==
  ASSUME PromptsInv, NEW s \in Swaps, NEW i \in Installs,
         \/ \E k \in DOMAIN baseRows, vertical \in BOOLEAN : BeginPin(s, i, k, vertical)
         \/ \E k \in DOMAIN binding[i] : BeginRevert(s, i, k)
  PROVE  PromptsInv'
<1> USE DEF PromptsInv
<1>1. PICK seen : seen = ActiveOf(i)  OBVIOUS
<1>2. seen \subseteq DOMAIN binding[i] /\ DOMAIN binding[i] \subseteq Nat /\ Len(binding[i]) + 1 \in Nat
  <2>1. binding[i] \in Seq(Bound_)  BY DEF PromptsTypes
  <2>2. DOMAIN binding[i] = 1 .. Len(binding[i]) /\ Len(binding[i]) \in Nat  BY <2>1
  <2> HIDE DEF PromptsInv
  <2> QED  BY <1>1, <2>2 DEF ActiveOf
<1>3. binding' = binding => \A j \in Installs : BindingOK(j)'
  BY DEF BindingOK, ActiveOf, Compatible
<1>4. CASE \E k \in DOMAIN baseRows, vertical \in BOOLEAN : BeginPin(s, i, k, vertical)
  <2>1. PICK k \in DOMAIN baseRows, vertical \in BOOLEAN : BeginPin(s, i, k, vertical)  BY <1>4
  <2>2. PICK v, tenant : v = baseRows[k].version /\ tenant = facts[i]  OBVIOUS
  <2>3. PICK b : b = Binding(v, vertical, tenant)  OBVIOUS
  <2>4. v \in Version_ /\ tenant \in {"plain", "braced"}
    <3>1. baseRows[k] \in Base_  BY DEF PromptsTypes
    <3> QED  BY <2>2, <3>1 DEF PromptsTypes, Base_
  <2>5. b \in Bound_ /\ b.active = TRUE /\ b.base = v /\ b.vertical = vertical
    BY <2>3, <2>4 DEF Binding, Bound_
  <2>6. PICK n : n = Len(binding[i]) + 1  OBVIOUS
  <2>7. PICK c : c = [at |-> "pin", on |-> i, seen |-> seen, target |-> n, new |-> b]  OBVIOUS
  <2>8. /\ swap' = [swap EXCEPT ![s] = c] /\ install[i].at = "done" /\ Compatible(i, v, vertical)
        /\ UNCHANGED <<deployVars, catalogued, baseRows, verticalRows, install, binding, prompted>>
    BY <1>1, <2>1, <2>2, <2>3, <2>6, <2>7 DEF BeginPin
  <2>9. c \in Swap_ /\ c.at = "pin" /\ c.on = i /\ c.new = b
    BY <1>2, <2>5, <2>6, <2>7 DEF Swap_
  <2>10. swap'[s] = c  BY <2>8 DEF PromptsTypes
  <2>11. SwapOK(s)'  BY <2>5, <2>8, <2>9, <2>10 DEF SwapOK, Compatible
  <2>12. binding' \in [Installs -> Seq(Bound_)]  BY <2>8 DEF PromptsTypes
  <2> QED  BY <1>3, <2>8, <2>9, <2>11, <2>12, SwapKeeps
<1>5. CASE \E k \in DOMAIN binding[i] : BeginRevert(s, i, k)
  <2>1. PICK k \in DOMAIN binding[i] : BeginRevert(s, i, k)  BY <1>5
  <2>2. PICK c : c = [at |-> "revert", on |-> i, seen |-> seen, target |-> k]  OBVIOUS
  <2>3. /\ swap' = [swap EXCEPT ![s] = c]
        /\ UNCHANGED <<deployVars, catalogued, baseRows, verticalRows, install, binding, prompted>>
    BY <1>1, <2>1, <2>2 DEF BeginRevert
  <2>4. c \in Swap_ /\ c.at = "revert" /\ c.on = i /\ c.target = k
    BY <1>2, <2>2 DEF Swap_
  <2>5. install[i].at = "done"
    <3>1. binding[i] # << >>  OBVIOUS
    <3> QED  BY <3>1 DEF InstallOK
  <2>6. swap'[s] = c  BY <2>3 DEF PromptsTypes
  <2>7. SwapOK(s)'  BY <2>3, <2>4, <2>5, <2>6 DEF SwapOK
  <2>8. binding' \in [Installs -> Seq(Bound_)]  BY <2>3 DEF PromptsTypes
  <2> QED  BY <1>3, <2>3, <2>4, <2>7, <2>8, SwapKeeps
<1> QED  BY <1>4, <1>5

LEMMA SwapEnds ==
  ASSUME PromptsInv, NEW s \in Swaps, FinishSwap(s)
  PROVE  PromptsInv'
<1> USE DEF PromptsInv
<1>1. PICK over : over = [at |-> "over"]  OBVIOUS
<1>2. PICK c : c = swap[s]  OBVIOUS
<1>3. PICK i : i = c.on  OBVIOUS
<1>4. PICK bs : bs = binding[i]  OBVIOUS
<1>5. PICK left : left = Deactivated(bs, c.seen)  OBVIOUS
<1>6. /\ c.at \in {"pin", "revert"} /\ swap' = [swap EXCEPT ![s] = over]
      /\ UNCHANGED <<deployVars, catalogued, baseRows, verticalRows, install, prompted>>
      /\ binding' =
           IF c.at = "pin"
           THEN IF Standing(s) = {} THEN [binding EXCEPT ![i] = Append(left, c.new)] ELSE binding
           ELSE IF Standing(s) \subseteq {c.target}
                THEN [binding EXCEPT ![i] = [left EXCEPT ![c.target].active = TRUE]] ELSE binding
  BY <1>1, <1>2, <1>3, <1>4, <1>5 DEF FinishSwap
<1>7. /\ i \in Installs /\ install[i].at = "done"
      /\ c.at = "revert" => c.target \in DOMAIN bs
      /\ c.at = "pin" => /\ c.new \in Bound_ /\ c.new.active = TRUE
                         /\ Compatible(i, c.new.base, c.new.vertical)
  BY <1>2, <1>3, <1>4, <1>6 DEF PromptsTypes, Swap_, SwapOK, Bound_
<1>8. /\ over \in Swap_ /\ over.at = "over" /\ swap'[s] = over  BY <1>1, <1>6 DEF Swap_, PromptsTypes
<1>9. SwapOK(s)'  BY <1>8 DEF SwapOK
<1>10. bs \in Seq(Bound_) /\ DOMAIN bs = 1 .. Len(bs) /\ Len(bs) \in Nat
  <2>1. bs \in Seq(Bound_)  BY <1>4, <1>7 DEF PromptsTypes
  <2> HIDE DEF PromptsInv
  <2> QED  BY <2>1
<1>11. /\ left \in [1 .. Len(bs) -> Bound_]
       /\ \A k \in DOMAIN bs :
            /\ left[k].active = (bs[k].active /\ k \notin c.seen) /\ left[k].tenant = bs[k].tenant
            /\ left[k].base = bs[k].base /\ left[k].vertical = bs[k].vertical
  <2>1. left = [k \in DOMAIN bs |-> [bs[k] EXCEPT !.active = @ /\ k \notin c.seen]]
    BY <1>5 DEF Deactivated
  <2>2. ASSUME NEW k \in DOMAIN bs
        PROVE  /\ left[k] \in Bound_
               /\ left[k].active = (bs[k].active /\ k \notin c.seen) /\ left[k].tenant = bs[k].tenant
               /\ left[k].base = bs[k].base /\ left[k].vertical = bs[k].vertical
    <3>1. bs[k] \in Bound_  BY <1>10
    <3>2. PICK a : a = (bs[k].active /\ k \notin c.seen)  OBVIOUS
    <3>3. a \in BOOLEAN  BY <3>2
    <3>4. left[k] = [bs[k] EXCEPT !.active = a]  BY <2>1, <3>2
    <3> QED  BY <3>1, <3>2, <3>3, <3>4 DEF Bound_
  <2> QED  BY <1>10, <2>1, <2>2
<1>12. Standing(s) = {k \in DOMAIN bs : bs[k].active} \ c.seen
  BY <1>2, <1>3, <1>4 DEF Standing, ActiveOf
<1>13. \A k \in DOMAIN bs : left[k].active <=> k \in Standing(s)  BY <1>11, <1>12
<1>14. \A k \in DOMAIN bs : Compatible(i, bs[k].base, bs[k].vertical)
  BY <1>4, <1>7 DEF BindingOK
<1>15. ASSUME NEW new \in Seq(Bound_), binding' = [binding EXCEPT ![i] = new],
              NEW one \in DOMAIN new, new[one].active, DOMAIN bs \subseteq DOMAIN new,
              \A k \in DOMAIN new : k # one => k \in DOMAIN bs /\ ~new[k].active,
              \A k \in DOMAIN bs :
                /\ new[k].tenant = bs[k].tenant /\ new[k].base = bs[k].base
                /\ new[k].vertical = bs[k].vertical,
              one \notin DOMAIN bs => Compatible(i, new[one].base, new[one].vertical)
       PROVE  PromptsInv'
  <2>1. \A j \in Installs : binding'[j] = IF j = i THEN new ELSE binding[j]
    BY <1>15 DEF PromptsTypes
  <2>2. binding' \in [Installs -> Seq(Bound_)]  BY <1>15 DEF PromptsTypes
  <2>3. ActiveOf(i)' = {one}  BY <1>7, <1>15, <2>1 DEF ActiveOf
  <2>4. \A k \in DOMAIN new : Compatible(i, new[k].base, new[k].vertical)
    BY <1>14, <1>15 DEF Compatible
  <2>5. ASSUME NEW j \in Installs  PROVE BindingOK(j)'
    BY <1>15, <2>1, <2>3, <2>4 DEF BindingOK, Compatible, ActiveOf
  <2>6. \A j \in Installs :
          /\ install[j].at # "done" => binding'[j] = binding[j]
          /\ \A k \in DOMAIN binding[j] :
               k \in DOMAIN binding'[j] /\ binding'[j][k].tenant = binding[j][k].tenant
    BY <1>4, <1>7, <1>15, <2>1
  <2> QED  BY <1>6, <1>8, <1>9, <2>2, <2>5, <2>6, SwapKeeps
<1>16. CASE binding' = binding
  <2>1. \A j \in Installs : BindingOK(j)'  BY <1>16 DEF BindingOK, ActiveOf, Compatible
  <2>2. binding' \in [Installs -> Seq(Bound_)]  BY <1>16 DEF PromptsTypes
  <2> QED  BY <1>6, <1>8, <1>9, <1>16, <2>1, <2>2, SwapKeeps
<1>17. CASE c.at = "pin" /\ Standing(s) = {}
  <2>1. PICK new : new = Append(left, c.new)  OBVIOUS
  <2>2. PICK one : one = Len(bs) + 1  OBVIOUS
  <2> HIDE DEF PromptsInv
  <2>3. left \in Seq(Bound_) /\ Len(left) = Len(bs)  BY <1>10, <1>11
  <2>4. /\ new \in Seq(Bound_) /\ DOMAIN new = 1 .. (Len(bs) + 1) /\ new[one] = c.new
        /\ \A k \in DOMAIN bs : new[k] = left[k]
    BY <1>7, <1>10, <1>17, <2>1, <2>2, <2>3
  <2>5. one \in DOMAIN new /\ one \notin DOMAIN bs /\ DOMAIN bs \subseteq DOMAIN new
        /\ \A k \in DOMAIN new : k # one => k \in DOMAIN bs
    BY <1>10, <2>2, <2>4
  <2>6. binding' = [binding EXCEPT ![i] = new]  BY <1>6, <1>17, <2>1
  <2>7. \A k \in DOMAIN bs : ~new[k].active  BY <1>13, <1>17, <2>4
  <2>8. \A k \in DOMAIN bs : /\ new[k].tenant = bs[k].tenant /\ new[k].base = bs[k].base
                             /\ new[k].vertical = bs[k].vertical
    BY <1>11, <2>4
  <2> QED  BY <1>7, <1>15, <1>17, <2>4, <2>5, <2>6, <2>7, <2>8
<1>18. CASE c.at = "revert" /\ Standing(s) \subseteq {c.target}
  <2>1. PICK one : one = c.target  OBVIOUS
  <2>2. PICK new : new = [left EXCEPT ![one].active = TRUE]  OBVIOUS
  <2>3. binding' = [binding EXCEPT ![i] = new]  BY <1>6, <1>18, <2>1, <2>2
  <2>4. one \in DOMAIN bs  BY <1>7, <1>18, <2>1
  <2> HIDE DEF PromptsInv
  <2>5. left[one] \in Bound_ /\ DOMAIN left = 1 .. Len(bs)  BY <1>10, <1>11, <2>4
  <2>6. PICK b : b = [left[one] EXCEPT !.active = TRUE]  OBVIOUS
  <2>7. /\ b \in Bound_ /\ b.active = TRUE /\ b.tenant = left[one].tenant
        /\ b.base = left[one].base /\ b.vertical = left[one].vertical
    BY <2>5, <2>6 DEF Bound_
  <2>8. new = [left EXCEPT ![one] = b]  BY <2>2, <2>6
  <2>9. new \in [1 .. Len(bs) -> Bound_] /\ new[one] = b /\ \A k \in DOMAIN bs : k # one => new[k] = left[k]
    BY <1>10, <1>11, <2>4, <2>7, <2>8
  <2>10. new \in Seq(Bound_) /\ DOMAIN new = DOMAIN bs  BY <1>10, <2>9
  <2>11. \A k \in DOMAIN new : k # one => k \in DOMAIN bs /\ ~new[k].active
    BY <1>13, <1>18, <2>1, <2>9, <2>10
  <2>12. \A k \in DOMAIN bs : /\ new[k].tenant = bs[k].tenant /\ new[k].base = bs[k].base
                              /\ new[k].vertical = bs[k].vertical
    BY <1>11, <2>7, <2>9
  <2> QED  BY <1>15, <2>3, <2>4, <2>7, <2>9, <2>10, <2>11, <2>12
<1>19. binding' = binding \/ (c.at = "pin" /\ Standing(s) = {})
       \/ (c.at = "revert" /\ Standing(s) \subseteq {c.target})
  BY <1>6
<1> QED  BY <1>16, <1>17, <1>18, <1>19

(* A run looks for the binding, and its prompt is rendered.                  *)
LEMMA RunKeeps ==
  ASSUME PromptsInv, NEW r \in PromptRuns, NEW f \in Prompted_,
         prompted' = [prompted EXCEPT ![r] = f],
         UNCHANGED <<deployVars, catalogued, baseRows, verticalRows, install, binding, swap>>,
         RunOK(r)'
  PROVE  PromptsInv'
<1> USE DEF PromptsInv
<1>1. UNCHANGED <<baseFile, bundle, facts, changes>>  BY DEF deployVars
<1>2. PromptsTypes'  BY <1>1 DEF PromptsTypes
<1>3. VerticalsTrue' /\ BasesOnce' /\ InstallsApart'
  BY <1>1 DEF VerticalsTrue, BasesOnce, InstallsApart, Under
<1>4. ASSUME NEW j \in Installs  PROVE InstallOK(j)' /\ BindingOK(j)'
  BY <1>1 DEF InstallOK, BindingOK, ActiveOf, Under, FreshBase, TwoBases, Compatible
<1>5. \A q \in Swaps : SwapOK(q)'  BY DEF SwapOK, Compatible
<1>6. ASSUME NEW q \in PromptRuns, q # r  PROVE RunOK(q)'  BY <1>6 DEF RunOK
<1> QED  BY <1>2, <1>3, <1>4, <1>5, <1>6

LEMMA PromptKeeps ==
  ASSUME PromptsInv, NEW r \in PromptRuns, Render(r) \/ \E i \in Installs : FindBinding(r, i)
  PROVE  PromptsInv'
<1> USE DEF PromptsInv
<1>1. CASE \E i \in Installs : FindBinding(r, i)
  <2>1. PICK i \in Installs : FindBinding(r, i)  BY <1>1
  <2>2. PICK f : f = IF ActiveOf(i) = {} THEN [at |-> "skeleton", on |-> i, binding |-> {}]
                     ELSE [at |-> "found", on |-> i, binding |-> ActiveOf(i)]
    OBVIOUS
  <2>3. /\ install[i].at = "done" /\ prompted' = [prompted EXCEPT ![r] = f]
        /\ UNCHANGED <<deployVars, catalogued, baseRows, verticalRows, install, binding, swap>>
    BY <2>1, <2>2 DEF FindBinding
  <2>4. ActiveOf(i) \subseteq DOMAIN binding[i] /\ ActiveOf(i) \subseteq Nat
    BY DEF PromptsTypes, ActiveOf
  <2>5. /\ f \in Prompted_ /\ f.on = i /\ f.binding \subseteq DOMAIN binding[i]
        /\ f.at = "skeleton" => f.binding = {}
    BY <2>2, <2>4 DEF Prompted_
  <2>6. prompted'[r] = f  BY <2>3 DEF PromptsTypes
  <2>7. RunOK(r)'  BY <2>3, <2>5, <2>6 DEF RunOK
  <2> QED  BY <2>3, <2>5, <2>7, RunKeeps
<1>2. CASE Render(r)
  <2>1. PICK g : g = prompted[r]  OBVIOUS
  <2>2. PICK i : i = g.on  OBVIOUS
  <2>3. PICK k \in g.binding :
          prompted' = [prompted EXCEPT ![r] =
            [at |-> IF Compatible(i, binding[i][k].base, binding[i][k].vertical)
                       /\ binding[i][k].tenant = "plain"
                    THEN "grounded" ELSE "skeleton",
             on |-> i, binding |-> {k}]]
    BY <1>2, <2>1, <2>2 DEF Render
  <2>4. PICK a : a = IF Compatible(i, binding[i][k].base, binding[i][k].vertical)
                        /\ binding[i][k].tenant = "plain"
                     THEN "grounded" ELSE "skeleton"
    OBVIOUS
  <2>5. PICK f : f = [at |-> a, on |-> i, binding |-> {k}]  OBVIOUS
  <2>6. /\ g.at = "found" /\ prompted' = [prompted EXCEPT ![r] = f]
        /\ UNCHANGED <<deployVars, catalogued, baseRows, verticalRows, install, binding, swap>>
    BY <1>2, <2>1, <2>3, <2>4, <2>5 DEF Render
  <2>7. g \in Prompted_ /\ i \in Installs  BY <2>1, <2>2, <2>6 DEF PromptsTypes, Prompted_
  <2>8. install[i].at = "done" /\ k \in DOMAIN binding[i]  BY <2>1, <2>2, <2>3, <2>6 DEF RunOK
  <2>9. k \in Nat /\ binding[i][k].tenant \in {"plain", "braced"}
    <3>1. binding[i] \in Seq(Bound_)  BY <2>7 DEF PromptsTypes
    <3>2. binding[i][k] \in Bound_ /\ k \in Nat  BY <2>8, <3>1
    <3> QED  BY <3>2 DEF Bound_
  <2>10. Compatible(i, binding[i][k].base, binding[i][k].vertical)
    BY <2>7, <2>8 DEF BindingOK
  <2>11. /\ a \in {"grounded", "skeleton"}
         /\ a = "skeleton" => binding[i][k].tenant = "braced"
    BY <2>4, <2>9, <2>10
  <2>12. /\ f \in Prompted_ /\ f.at = a /\ f.on = i /\ f.binding = {k}
    BY <2>5, <2>7, <2>9, <2>11 DEF Prompted_
  <2>13. prompted'[r] = f  BY <2>6 DEF PromptsTypes
  <2>14. RunOK(r)'  BY <2>6, <2>8, <2>11, <2>12, <2>13 DEF RunOK
  <2> QED  BY <2>6, <2>12, <2>14, RunKeeps
<1> QED  BY <1>1, <1>2

LEMMA PromptsSteps == PromptsInv /\ [PromptsNext]_promptVars => PromptsInv'
<1> SUFFICES ASSUME PromptsInv, [PromptsNext]_promptVars PROVE PromptsInv'  OBVIOUS
<1>1. CASE UNCHANGED promptVars  BY <1>1, DeployKeeps DEF promptVars, PromptsInv, PromptsTypes
<1>2. ASSUME NEW v \in Files, ReleaseBase(v)  PROVE PromptsInv'
  BY <1>2, PromptsAssumption, DeployKeeps DEF ReleaseBase, Changes, PromptsInv, PromptsTypes
<1>3. ASSUME NEW p \in DOMAIN Requires, EditBundle(p)  PROVE PromptsInv'
  BY SMTT(30), <1>3, PromptsAssumption, DeployKeeps DEF EditBundle, Changes, PromptsInv, PromptsTypes,
     BundleVersions
<1>4. ASSUME NEW i \in Installs, ChangeSettings(i)  PROVE PromptsInv'
  <2>1. PromptsTypes'  BY <1>4, PromptsAssumption DEF ChangeSettings, Changes, PromptsInv, PromptsTypes
  <2> QED  BY <1>4, <2>1, DeployKeeps DEF ChangeSettings
<1>5. ASSUME NEW i \in Installs,
             LoadBundle(i) \/ Seed(i) \/ Choose(i) \/ CommitInstall(i) \/ AbortInstall(i)
      PROVE  PromptsInv'
  BY <1>5, InstallBegins, SeedKeeps, ChooseKeeps, CommitKeeps
<1>6. ASSUME NEW i \in Installs, NEW s \in Swaps,
             \/ \E k \in DOMAIN baseRows, vertical \in BOOLEAN : BeginPin(s, i, k, vertical)
             \/ \E k \in DOMAIN binding[i] : BeginRevert(s, i, k)
      PROVE  PromptsInv'
  BY <1>6, SwapBegins
<1>7. ASSUME NEW s \in Swaps, FinishSwap(s)  PROVE PromptsInv'  BY <1>7, SwapEnds
<1>8. ASSUME NEW r \in PromptRuns, Render(r) \/ \E i \in Installs : FindBinding(r, i)  PROVE PromptsInv'
  BY <1>8, PromptKeeps
<1> QED  BY Zenon, <1>1, <1>2, <1>3, <1>4, <1>5, <1>6, <1>7, <1>8 DEF PromptsNext

LEMMA DottedText ==
  ASSUME NEW x \in Nat, NEW y \in Nat
  PROVE  \A t : t = << x >> \o << 0 >> \o << y >> =>
                t \in Seq(Nat) /\ Len(t) = 3 /\ t[1] = x /\ t[2] = 0 /\ t[3] = y
<1> SUFFICES ASSUME NEW t, t = << x >> \o << 0 >> \o << y >>
             PROVE  t \in Seq(Nat) /\ Len(t) = 3 /\ t[1] = x /\ t[2] = 0 /\ t[3] = y
  OBVIOUS
<1>1. PICK p, q, r : p = << x >> /\ q = << 0 >> /\ r = << y >>  OBVIOUS
<1>2. /\ p \in Seq(Nat) /\ q \in Seq(Nat) /\ r \in Seq(Nat)
      /\ Len(p) = 1 /\ Len(q) = 1 /\ Len(r) = 1 /\ p[1] = x /\ q[1] = 0 /\ r[1] = y
  BY <1>1
<1>3. PICK u : u = p \o q  OBVIOUS
<1>4. u \in Seq(Nat) /\ Len(u) = 2 /\ u[1] = x /\ u[2] = 0
  <2>1. u \in Seq(Nat)  BY <1>2, <1>3
  <2>2. /\ Len(u) = Len(p) + Len(q)
        /\ \A i \in 1 .. Len(p) + Len(q) : u[i] = IF i <= Len(p) THEN p[i] ELSE q[i - Len(p)]
    BY Zenon, <1>2, <1>3, ConcatProperties
  <2>3. Len(u) = 2  BY <1>2, <2>2
  <2>4. u[1] = p[1] /\ u[2] = q[1]  BY <1>2, <2>2
  <2> QED  BY <1>2, <2>1, <2>2, <2>3, <2>4
<1>5. t = u \o r  BY <1>1, <1>3
<1>6. /\ t \in Seq(Nat) /\ Len(t) = Len(u) + Len(r)
      /\ \A i \in 1 .. Len(u) + Len(r) : t[i] = IF i <= Len(u) THEN u[i] ELSE r[i - Len(u)]
  BY <1>2, <1>4, <1>5, ConcatProperties
<1> QED  BY <1>2, <1>4, <1>6

(* The dot sorts before every digit, so one-digit parts compare as numbers.  *)
LEMMA OneDigitText ==
  ASSUME NEW v \in Version_, NEW w \in Version_, OneDigit(v), OneDigit(w),
         StringAtLeast(AsText(v), AsText(w))
  PROVE  Newer(v, w)
<1>1. v[1] \in Nat /\ v[2] \in Nat /\ w[1] \in Nat /\ w[2] \in Nat  BY DEF Version_
<1>2. PICK a, b, c, d : a = v[1] + 1 /\ b = v[2] + 1 /\ c = w[1] + 1 /\ d = w[2] + 1  OBVIOUS
<1>3. a \in Nat /\ b \in Nat /\ c \in Nat /\ d \in Nat  BY <1>1, <1>2
<1>4. PICK s, t : s = AsText(v) /\ t = AsText(w)  OBVIOUS
<1>5. s = << a >> \o << 0 >> \o << b >> /\ t = << c >> \o << 0 >> \o << d >>
  BY <1>2, <1>4 DEF Chars, OneDigit, AsText
<1>6. /\ s \in Seq(Nat) /\ t \in Seq(Nat) /\ Len(s) = 3 /\ Len(t) = 3
      /\ s[1] = a /\ s[2] = 0 /\ s[3] = b /\ t[1] = c /\ t[2] = 0 /\ t[3] = d
  <2>1. \A q : q = << a >> \o << 0 >> \o << b >> =>
                q \in Seq(Nat) /\ Len(q) = 3 /\ q[1] = a /\ q[2] = 0 /\ q[3] = b
    BY <1>3, DottedText
  <2>2. \A q : q = << c >> \o << 0 >> \o << d >> =>
                q \in Seq(Nat) /\ Len(q) = 3 /\ q[1] = c /\ q[2] = 0 /\ q[3] = d
    BY <1>3, DottedText
  <2> QED  BY Zenon, <1>5, <2>1, <2>2
<1>7. PICK k \in 0 .. 3 : /\ SubSeq(s, 1, k) = SubSeq(t, 1, k)
                          /\ k = 3 \/ (k < 3 /\ s[k + 1] > t[k + 1])
  BY <1>4, <1>6 DEF StringAtLeast
<1>8. \A j \in 1 .. k : s[j] = t[j]  BY <1>6, <1>7
<1>9. k = 0 \/ k = 1 \/ k = 2 \/ k = 3  OBVIOUS
<1>10. CASE k = 0  BY SMTT(30), <1>1, <1>2, <1>6, <1>7, <1>10 DEF Newer
<1>11. CASE k = 1  BY <1>6, <1>7, <1>11
<1>12. CASE k = 2  BY SMTT(30), <1>1, <1>2, <1>6, <1>7, <1>8, <1>12 DEF Newer
<1>13. CASE k = 3
  <2>1. a = c /\ b = d  BY <1>6, <1>8, <1>13
  <2> QED  BY <1>1, <1>2, <2>1 DEF Newer
<1> QED  BY <1>9, <1>10, <1>11, <1>12, <1>13

LEMMA PromptsInvShows ==
  ASSUME PromptsInv
  PROVE  /\ PromptsTypeOK /\ OneActiveBinding /\ SharedLayersOnce
         /\ TooManyAccounted /\ PinnedMeetsBound /\ SkeletonAccounted
<1> USE DEF PromptsInv
<1>1. \A i \in Installs : \A k \in DOMAIN binding[i] : binding[i][k] \in Bound_
  BY DEF PromptsTypes
<1>2. PromptsTypeOK
  BY <1>1 DEF PromptsTypes, Install_, Uncommitted, Bound_, Swap_, Prompted_, PromptsTypeOK
<1>3. OneActiveBinding  BY FS_Singleton DEF OneActiveBinding, BindingOK
<1>4. SharedLayersOnce  BY DEF VerticalsTrue, SharedLayersOnce, BasesOnce
<1>5. TooManyAccounted  BY DEF TooManyAccounted, InstallOK, TwoBases
<1>6. PinnedMeetsBound
  BY <1>1, PromptsAssumption, OneDigitText DEF PinnedMeetsBound, Bound_, Version_, BindingOK,
     Compatible, Satisfies
<1>7. SkeletonAccounted  BY DEF SkeletonAccounted, RunOK
<1> QED  BY <1>2, <1>3, <1>4, <1>5, <1>6, <1>7

(*************************************************************************)
(* A template and its reviews                                            *)
(*************************************************************************)

Judged == {"APPROVED", "REJECTED", "PAUSED"}
Template_ == [text : 0..MaxTexts, status : {"draft", "pending", "approved", "rejected", "paused"}]
Review_ ==
  [text : {0}, status : {"none"}]
  \cup [text : 0..MaxTexts, status : {"PENDING"} \cup Judged, waba : Wabas]
Note_ == [event : Judged \cup {"OTHER"}, text : 0..MaxTexts, waba : Wabas, done : BOOLEAN]
Submission_ ==
  [at : {"none"}] \cup [at : {"called"}, text : 0..MaxTexts, waba : Wabas]
  \cup [at : {"taken"}, text : 0..MaxTexts, since : Nat]

TemplateShapes ==
  /\ template \in Template_ /\ review \in Review_ /\ notices \in Seq(Note_)
  /\ submission \in [Submitters -> Submission_]
  /\ drain \in [Drainers -> SUBSET (DOMAIN notices)]
  /\ disturbed \subseteq {"lost", "overtaken", "unrouted", "misordered"}

(* Nothing submitted or reviewed is newer than the row's text.               *)
TextsPast ==
  /\ review.text <= template.text
  /\ \A q \in Submitters :
       /\ submission[q].at # "none" => submission[q].text <= template.text
       /\ submission[q].at = "taken" => submission[q].since <= Len(notices)

(* The notice of Meta's verdict, after every submission that Meta took; once *)
(* it is handled nothing overwrites what it wrote, unless `disturbed` tells.  *)
Heard(k) ==
  /\ notices[k].event = review.status
  /\ \A j \in DOMAIN notices : j > k => notices[j].event = "OTHER"
  /\ \A q \in Submitters : submission[q].at = "taken" => submission[q].since < k
  /\ notices[k].done /\ disturbed = {} /\ review.text = template.text
       => template.status = StatusOf[review.status]
VerdictHeard == review.status \in Judged => \E k \in DOMAIN notices : Heard(k) /\ notices[k].text = review.text

TemplatesInv == TemplateShapes /\ TextsPast /\ VerdictHeard /\ SentTextWasApproved

LEMMA TemplatesStarts == TemplatesInit => TemplatesInv
<1> SUFFICES ASSUME TemplatesInit PROVE TemplatesInv  OBVIOUS
<1>1. /\ template.text = 0 /\ template.status = "draft" /\ review.text = 0 /\ review.status = "none"
      /\ \A q \in Submitters : submission[q].at = "none"
  BY DEF TemplatesInit, Quiet
<1>2. TemplateShapes
  BY TemplatesAssumption DEF TemplatesInit, Template_, Review_, Quiet, Submission_,
     TemplateShapes
<1>3. TextsPast /\ VerdictHeard /\ SentTextWasApproved
  BY <1>1 DEF TextsPast, VerdictHeard, Judged, SentTextWasApproved, Sendable
<1> QED  BY <1>2, <1>3 DEF TemplatesInv

(* What every step keeps of the notices: they are only added to and handled.   *)
LEMMA NoticesKnown ==
  ASSUME TemplatesInv
  PROVE  /\ DOMAIN notices = 1 .. Len(notices) /\ Len(notices) \in Nat
         /\ \A k \in DOMAIN notices : notices[k] \in Note_
         /\ template.text \in Nat /\ review.text \in 0 .. MaxTexts
         /\ review.status \in {"none", "PENDING"} \cup Judged
<1>1. notices \in Seq(Note_)  BY DEF TemplatesInv, TemplateShapes
<1>2. review.text \in 0 .. MaxTexts /\ review.status \in {"none", "PENDING"} \cup Judged
  BY TemplatesAssumption DEF TemplatesInv, TemplateShapes, Review_
<1>3. template.text \in Nat  BY DEF TemplatesInv, TemplateShapes, Template_
<1> QED  BY <1>1, <1>2, <1>3

LEMMA UpsertKeeps ==
  ASSUME TemplatesInv, UpsertTemplate
  PROVE  TemplatesInv'
<1>1. PICK t : t = [text |-> template.text + 1, status |-> "draft"]  OBVIOUS
<1>2. /\ template' = t /\ template.text < MaxTexts
      /\ UNCHANGED <<review, notices, submission, drain, disturbed>>
  BY <1>1 DEF UpsertTemplate, StatusOfEdit
<1>3. t \in Template_ /\ t.text = template.text + 1 /\ t.status = "draft"
  BY <1>1, <1>2, NoticesKnown, TemplatesAssumption DEF Template_
<1>4. TemplateShapes'  BY <1>2, <1>3 DEF TemplatesInv, TemplateShapes
<1>5. review.text <= template.text /\ review.text \in Nat /\ template.text \in Nat
  BY NoticesKnown DEF TemplatesInv, TextsPast
<1>6. \A q \in Submitters :
        /\ submission[q].at # "none" =>
             submission[q].text <= template.text /\ submission[q].text \in Nat
        /\ submission[q].at = "taken" => submission[q].since <= Len(notices)
  BY DEF TemplatesInv, TextsPast, TemplateShapes, Submission_
<1>7. TextsPast'  BY <1>2, <1>3, <1>5, <1>6 DEF TextsPast
<1>8. VerdictHeard'  BY <1>2, <1>3, <1>5 DEF TemplatesInv, VerdictHeard, Heard
<1>9. SentTextWasApproved'  BY <1>2, <1>3 DEF SentTextWasApproved, Sendable
<1> QED  BY <1>4, <1>7, <1>8, <1>9 DEF TemplatesInv

(* A submission goes on, and `disturbed` may say more.                       *)
LEMMA SubmissionKeeps ==
  ASSUME TemplatesInv, NEW q \in Submitters, NEW c \in Submission_,
         submission' = [submission EXCEPT ![q] = c],
         c.at # "none" => c.text <= template.text,
         c.at = "taken" => submission[q].at = "taken" /\ c = submission[q],
         NEW t \in Template_, template' = t, t.text = template.text,
         t = template \/ (t.status = "pending"
           /\ \A k \in DOMAIN notices :
                notices[k].done /\ k > submission[q].since => disturbed' # {}),
         t # template => submission[q].at = "taken",
         disturbed \subseteq disturbed',
         disturbed' \subseteq {"lost", "overtaken", "unrouted", "misordered"},
         t = template => late' = late,
         UNCHANGED <<review, notices, drain>>
  PROVE  TemplatesInv'
<1>1. \A p \in Submitters : submission'[p] = IF p = q THEN c ELSE submission[p]
  BY DEF TemplatesInv, TemplateShapes
<1>2. TemplateShapes'  BY DEF TemplatesInv, TemplateShapes
<1>3. TextsPast'  BY <1>1 DEF TemplatesInv, TextsPast
<1>4. VerdictHeard'
  BY <1>1, NoticesKnown DEF VerdictHeard, TemplatesInv, Heard, TemplateShapes, Submission_
<1>5. SentTextWasApproved'  BY DEF TemplatesInv, SentTextWasApproved, Sendable
<1> QED  BY <1>2, <1>3, <1>4, <1>5 DEF TemplatesInv

LEMMA SubmitSteps ==
  ASSUME TemplatesInv, ChannelShapes, NEW q \in Submitters,
         ReadTemplate(q) \/ MetaTakes(q) \/ SubmissionFails(q) \/ RecordPending(q)
  PROVE  TemplatesInv'
<1>1. submission[q] \in Submission_ /\ template \in Template_  BY DEF TemplatesInv, TemplateShapes
<1>2. Quiet \in Submission_ /\ Quiet.at = "none"  BY DEF Quiet, Submission_
<1>3. CASE ReadTemplate(q)
  <2>1. PICK r \in Wired : submission' = [submission EXCEPT ![q] =
            [at |-> "called", text |-> template.text, waba |-> credential[r].waba]]
    BY <1>3 DEF ReadTemplate
  <2>2. PICK c : c = [at |-> "called", text |-> template.text, waba |-> credential[r].waba]  OBVIOUS
  <2>3. credential[r].waba \in Wabas /\ template.text \in 0..MaxTexts
    BY <1>1 DEF ChannelShapes, Secret_, Template_
  <2>4. c \in Submission_ /\ c.at = "called" /\ c.text = template.text
    BY <2>2, <2>3 DEF Submission_
  <2>5. submission' = [submission EXCEPT ![q] = c]  BY <2>1, <2>2
  <2>6. template.text <= template.text  BY <2>3
  <2>7. /\ UNCHANGED <<template, review, notices, drain, late, disturbed>>
    BY <1>3 DEF ReadTemplate
  <2>8. disturbed \subseteq {"lost", "overtaken", "unrouted", "misordered"}
    BY DEF TemplatesInv, TemplateShapes
  <2> QED  BY <1>1, <2>4, <2>5, <2>6, <2>7, <2>8, SubmissionKeeps
<1>4. CASE SubmissionFails(q)
  BY <1>1, <1>2, <1>4, SubmissionKeeps DEF SubmissionFails, TemplatesInv, TemplateShapes
<1>5. CASE RecordPending(q)
  BY <1>1, <1>2, <1>5, SubmissionKeeps DEF Template_, RecordPending, TemplatesInv,
     TemplateShapes, TextsPast, VerdictHeard, Heard, SentTextWasApproved, Sendable
<1>6. CASE MetaTakes(q)
  BY <1>1, <1>6, NoticesKnown DEF MetaTakes, Submission_, TemplatesInv, TextsPast, Review_,
     TemplateShapes, VerdictHeard, Judged, SentTextWasApproved, Sendable
<1> QED  BY <1>3, <1>4, <1>5, <1>6

LEMMA ReviewKeeps ==
  ASSUME TemplatesInv, MetaReviews
  PROVE  TemplatesInv'
<1>1. PICK event \in Verdicts[review.status] \cup {"OTHER"} :
        /\ review' = IF event = "OTHER" THEN review ELSE [review EXCEPT !.status = event]
        /\ notices' = Append(notices, [event |-> event, text |-> review.text,
                                       waba |-> review.waba, done |-> FALSE])
  BY DEF MetaReviews
<1>2. review.text > 0 /\ UNCHANGED <<template, submission, drain, late, disturbed>>  BY DEF MetaReviews
<1>3. review \in [text : 0..MaxTexts, status : {"PENDING"} \cup Judged, waba : Wabas]
  BY <1>2 DEF TemplatesInv, TemplateShapes, Review_
<1>4. Verdicts[review.status] \subseteq Judged  BY <1>3 DEF Verdicts, Judged
<1>5. PICK note : note = [event |-> event, text |-> review.text, waba |-> review.waba, done |-> FALSE]
  OBVIOUS
<1>6. /\ note \in Note_ /\ note.event = event /\ note.text = review.text /\ note.done = FALSE
  BY <1>3, <1>4, <1>5 DEF Note_
<1>7. PICK n : n = Len(notices) + 1  OBVIOUS
<1>8. notices \in Seq(Note_) /\ notices' = Append(notices, note)
  BY <1>1, <1>5 DEF TemplatesInv, TemplateShapes
<1>9. /\ notices' \in Seq(Note_) /\ DOMAIN notices' = DOMAIN notices \cup {n}
      /\ DOMAIN notices = 1 .. Len(notices) /\ Len(notices) \in Nat
      /\ notices'[n] = note /\ \A k \in DOMAIN notices : notices'[k] = notices[k]
  BY <1>6, <1>7, <1>8
<1>10. n \in Nat /\ \A k \in DOMAIN notices : k < n /\ k \in Nat  BY <1>7, <1>9
<1>11. /\ review' \in Review_ /\ review'.text = review.text
       /\ event = "OTHER" => review' = review
       /\ event # "OTHER" => review'.status = event
  BY <1>1, <1>3, <1>4 DEF Review_
<1>12. TemplateShapes'  BY <1>2, <1>9, <1>11 DEF TemplatesInv, TemplateShapes
<1>13. TextsPast'
  BY <1>2, <1>6, <1>7, <1>8, <1>9, <1>11 DEF TemplatesInv, TextsPast, TemplateShapes,
     Submission_
<1>14. VerdictHeard'
  <2>1. CASE event # "OTHER"
    BY SMTT(30), <1>2, <1>6, <1>7, <1>9, <1>10, <1>11, <2>1 DEF TemplatesInv, TextsPast, TemplateShapes,
       Submission_, Heard, VerdictHeard
  <2>2. CASE event = "OTHER"
    BY <1>2, <1>6, <1>9, <1>11, <2>2 DEF VerdictHeard, TemplatesInv, Heard
  <2> QED  BY <2>1, <2>2
<1>15. SentTextWasApproved'
  BY <1>2, <1>9 DEF TemplatesInv, SentTextWasApproved, Sendable
<1> QED  BY <1>12, <1>13, <1>14, <1>15 DEF TemplatesInv

(* A pass scans, handles or drops the oldest of the events it scanned.       *)
LEMMA OldestIsOne ==
  ASSUME TemplatesInv, NEW d \in Drainers, drain[d] # {}
  PROVE  Oldest(drain[d]) \in drain[d] /\ Oldest(drain[d]) \in DOMAIN notices
<1>1. drain[d] \subseteq DOMAIN notices  BY DEF TemplatesInv, TemplateShapes
<1>2. drain[d] \subseteq Nat  BY <1>1, NoticesKnown
<1>3. \E k \in drain[d] : \A j \in drain[d] : k <= j  BY <1>2, NatMinimum
<1>4. Oldest(drain[d]) \in drain[d]  BY <1>3 DEF Oldest
<1> QED  BY <1>1, <1>4

LEMMA DrainKeeps ==
  ASSUME TemplatesInv, UNCHANGED <<template, review, notices, submission, late, disturbed>>,
         drain' \in [Drainers -> SUBSET (DOMAIN notices)]
  PROVE  TemplatesInv'
<1>1. TemplateShapes'  BY DEF TemplatesInv, TemplateShapes
<1>2. TextsPast'  BY DEF TemplatesInv, TextsPast
<1>3. VerdictHeard'  BY DEF TemplatesInv, VerdictHeard, Heard
<1>4. SentTextWasApproved'  BY DEF TemplatesInv, SentTextWasApproved, Sendable
<1> QED  BY <1>1, <1>2, <1>3, <1>4 DEF TemplatesInv

LEMMA ApplyKeeps ==
  ASSUME TemplatesInv, NEW d \in Drainers, ApplyNotice(d)
  PROVE  TemplatesInv'
<1>1. PICK k : k = Oldest(drain[d])  OBVIOUS
<1>2. PICK note : note = notices[k]  OBVIOUS
<1>3. PICK found \in FirstIsShop(note.waba) :
        /\ template' = IF Speaks(note, found) THEN Reflected(note) ELSE template
        /\ late' = IF Speaks(note, found) THEN note.text # template.text ELSE late
        /\ notices' = [notices EXCEPT ![k].done = TRUE]
        /\ disturbed' = disturbed
             \cup (IF found THEN {} ELSE {"unrouted"})
             \cup (IF Speaks(note, found) /\ \E j \in DOMAIN notices : j > k /\ notices[j].done
                   THEN {"misordered"} ELSE {})
  BY <1>1, <1>2 DEF ApplyNotice
<1>4. /\ drain[d] # {} /\ drain' = [drain EXCEPT ![d] = @ \ {k}]
      /\ UNCHANGED <<review, submission>>
  BY <1>1 DEF ApplyNotice
<1>5. k \in DOMAIN notices  BY <1>1, <1>4, OldestIsOne
<1>6. note \in Note_  BY <1>2, <1>5, NoticesKnown
<1>7. PICK after : after = [note EXCEPT !.done = TRUE]  OBVIOUS
<1>8. after \in Note_ /\ after.event = note.event /\ after.text = note.text /\ after.done = TRUE
  BY <1>6, <1>7 DEF Note_
<1>9. notices \in Seq(Note_) /\ notices' = [notices EXCEPT ![k] = after]
  BY <1>2, <1>3, <1>7 DEF TemplatesInv, TemplateShapes
<1>10. /\ notices' \in Seq(Note_) /\ DOMAIN notices' = DOMAIN notices /\ Len(notices') = Len(notices)
       /\ \A j \in DOMAIN notices : notices'[j] = IF j = k THEN after ELSE notices[j]
  BY <1>5, <1>8, <1>9
<1>11. \A j \in DOMAIN notices : /\ notices'[j].event = notices[j].event
                                 /\ notices'[j].text = notices[j].text
  BY <1>2, <1>8, <1>10
<1>12. PICK t : t = IF Speaks(note, found) THEN Reflected(note) ELSE template  OBVIOUS
<1>13. /\ t \in Template_ /\ t.text = template.text
       /\ Speaks(note, found) => t.status = StatusOf[note.event]
       /\ ~Speaks(note, found) => t = template
  BY <1>6, <1>12 DEF TemplatesInv, TemplateShapes, Speaks, StatusOf, Note_, Judged, Reflected,
     Template_
<1>14. template' = t  BY <1>3, <1>12
<1>15. TemplateShapes'  BY <1>3, <1>4, <1>10, <1>13, <1>14 DEF TemplatesInv, TemplateShapes
<1>16. TextsPast'  BY <1>4, <1>10, <1>13, <1>14 DEF TemplatesInv, TextsPast
<1>17. VerdictHeard'
  <2> SUFFICES ASSUME review.status \in Judged
               PROVE  \E j \in DOMAIN notices' : Heard(j)' /\ notices'[j].text = review'.text
    BY <1>4 DEF VerdictHeard
  <2>1. PICK m \in DOMAIN notices : Heard(m) /\ notices[m].text = review.text
    BY DEF TemplatesInv, VerdictHeard
  <2>2. /\ notices'[m].event = review'.status /\ notices'[m].text = review'.text
        /\ \A j \in DOMAIN notices' : j > m => notices'[j].event = "OTHER"
        /\ \A q \in Submitters : submission'[q].at = "taken" => submission'[q].since < m
    BY <1>4, <1>10, <1>11, <2>1 DEF Heard
  <2>3. ASSUME notices'[m].done, disturbed' = {}, review'.text = template'.text
        PROVE  template'.status = StatusOf[review'.status]
    <3>1. found /\ disturbed = {} /\ review.text = template.text  BY <1>3, <1>4, <1>13, <1>14, <2>3
    <3>2. Speaks(note, found) <=> note.event \in DOMAIN StatusOf  BY <3>1 DEF Speaks
    <3>3. CASE k = m
      BY <1>2, <1>4, <1>13, <1>14, <2>1, <3>2, <3>3 DEF Heard, StatusOf, Judged
    <3>4. CASE k # m
      <4>1. notices[m].done  BY <1>10, <2>3, <3>4
      <4>2. template.status = StatusOf[review.status]  BY <2>1, <3>1, <4>1 DEF Heard
      <4>3. ~Speaks(note, found)
        <5> SUFFICES ASSUME Speaks(note, found) PROVE FALSE  OBVIOUS
        <5>1. note.event # "OTHER"  BY <3>2 DEF StatusOf
        <5>2. ~(k > m)  BY <1>2, <1>5, <2>1, <5>1 DEF Heard
        <5>3. m > k  BY <1>5, <2>1, <3>4, <5>2, NoticesKnown
        <5> QED  BY <1>3, <2>3, <4>1, <5>3
      <4> QED  BY <1>4, <1>13, <1>14, <4>2, <4>3
    <3> QED  BY <3>3, <3>4
  <2>4. Heard(m)'  BY <2>2, <2>3 DEF Heard
  <2> QED  BY <1>10, <2>2, <2>4
<1>18. SentTextWasApproved'
  BY <1>2, <1>3, <1>5, <1>6, <1>10, <1>11, <1>13, <1>14 DEF SentTextWasApproved, Sendable,
     Note_, Judged, Speaks, StatusOf, TemplatesInv
<1> QED  BY <1>15, <1>16, <1>17, <1>18 DEF TemplatesInv

LEMMA TemplatesSteps ==
  ASSUME TemplatesInv, ChannelShapes, TemplatesNext \/ UNCHANGED templateVars
  PROVE  TemplatesInv'
<1>1. drain \in [Drainers -> SUBSET (DOMAIN notices)]  BY DEF TemplatesInv, TemplateShapes
<1>2. CASE UNCHANGED templateVars  BY <1>1, <1>2, DrainKeeps DEF templateVars
<1>3. CASE UpsertTemplate  BY <1>3, UpsertKeeps
<1>4. ASSUME NEW q \in Submitters,
             ReadTemplate(q) \/ MetaTakes(q) \/ SubmissionFails(q) \/ RecordPending(q)
      PROVE  TemplatesInv'
  BY <1>4, SubmitSteps
<1>5. CASE MetaReviews  BY <1>5, ReviewKeeps
<1>6. ASSUME NEW d \in Drainers, ScanNotices(d)  PROVE TemplatesInv'
  BY <1>1, <1>6, DrainKeeps DEF ScanNotices, Unread
<1>7. ASSUME NEW d \in Drainers, ApplyNotice(d)  PROVE TemplatesInv'  BY <1>7, ApplyKeeps
<1>8. ASSUME NEW d \in Drainers, FailNotice(d)  PROVE TemplatesInv'
  BY <1>1, <1>8, DrainKeeps DEF FailNotice, AfterFailure
<1> QED  BY Zenon, <1>2, <1>3, <1>4, <1>5, <1>6, <1>7, <1>8 DEF TemplatesNext

LEMMA TemplatesInvShows ==
  ASSUME TemplatesInv
  PROVE  TemplatesTypeOK /\ SentTextWasApproved /\ LastWordStands
<1>1. TemplatesTypeOK
  BY DEF TemplatesInv, TemplateShapes, Template_, TemplatesTypeOK
<1>2. LastWordStands  BY DEF LastWordStands, Judged, TemplatesInv, VerdictHeard, Heard, Unread
<1> QED  BY <1>1, <1>2 DEF TemplatesInv

(*************************************************************************)
(* A page, its candidates and its form                                   *)
(*************************************************************************)

(* What is taken of a sequence is in it, in its order.                       *)
LEMMA AtGives ==
  ASSUME NEW T, NEW s \in Seq(T), NEW I \in SUBSET (DOMAIN s)
  PROVE  /\ At(s, I) \in Seq(T) /\ ToSet(At(s, I)) = {s[i] : i \in I}
         /\ (\A i, j \in I : s[i] = s[j] => i = j) => OnceEach(At(s, I))
         /\ 1 \in I => At(s, I) # << >> /\ At(s, I)[1] = s[1]
<1>1. DOMAIN s = 1..Len(s) /\ Len(s) \in Nat  OBVIOUS
<1>2. IsFiniteSet(I) /\ I \subseteq Nat
  <2>1. IsFiniteSet(1..Len(s))  BY <1>1, FS_Interval
  <2> QED  BY <1>1, <2>1, FS_Subset
<1>3. PICK c : c = Cardinality(I)  OBVIOUS
<1>4. c \in Nat  BY <1>2, <1>3, FS_CardinalityType
<1>5. PICK f : f = CHOOSE g \in [1..c -> I] : \A m, n \in 1..c : m < n => g[m] < g[n]  OBVIOUS
<1>6. f \in [1..c -> I] /\ \A m, n \in 1..c : m < n => f[m] < f[n]
  BY <1>2, <1>3, <1>5, ListExists DEF Lists
<1>7. Lists(f, I)  BY <1>3, <1>6 DEF Lists
<1>8. /\ \A m, n \in 1..c : f[m] = f[n] => m = n
      /\ \A i \in I : \E n \in 1..c : f[n] = i
  BY <1>2, <1>3, <1>7, ListIsAll
<1>9. PICK a : a = At(s, I)  OBVIOUS
<1>10. a = [n \in 1..c |-> s[f[n]]]  BY <1>3, <1>5, <1>9 DEF At
<1>11. \A n \in 1..c : f[n] \in I /\ f[n] \in DOMAIN s /\ s[f[n]] \in T
  BY <1>6
<1>12. a \in [1..c -> T]  BY <1>10, <1>11
<1>13. a \in Seq(T) /\ DOMAIN a = 1..c  BY <1>4, <1>12
<1>14. ToSet(a) = {s[i] : i \in I}  BY <1>8, <1>10, <1>11, <1>13 DEF ToSet
<1>15. (\A i, j \in I : s[i] = s[j] => i = j) => OnceEach(a)
  BY <1>8, <1>10, <1>11, <1>13 DEF OnceEach
<1>16. ASSUME 1 \in I  PROVE a # << >> /\ a[1] = s[1]
  BY <1>1, <1>4, <1>6, <1>8, <1>10, <1>11, <1>13, <1>16
<1> QED  BY <1>9, <1>13, <1>14, <1>15, <1>16

Version1 == [plan : Seq(STRING), planner : {"deterministic", "llm"}, published : BOOLEAN]
PlanSound(c) ==
  /\ ToSet(c.plan) \subseteq ToSet(PackPlan) /\ c.plan # << >> /\ OnceEach(c.plan)
  /\ c.planner = "llm" => c.plan[1] = "hero"

(* An order with the hero keeps it when the sections without content go.      *)
LEMMA CandidateSound ==
  ASSUME NEW order \in Seq(STRING), NEW planner \in {"deterministic", "llm"},
         OnceEach(order), ToSet(order) \subseteq ToSet(PackPlan), "hero" \in ToSet(order),
         planner = "llm" => order[1] = "hero"
  PROVE  /\ Candidate(order, planner) \in Version1 /\ PlanSound(Candidate(order, planner))
         /\ ~Candidate(order, planner).published
<1>1. PICK I : I = {i \in DOMAIN order : order[i] \in Written}  OBVIOUS
<1>2. I \in SUBSET (DOMAIN order) /\ DOMAIN order = 1..Len(order) /\ Len(order) \in Nat  BY <1>1
<1>3. PICK p : p = Filled(order)  OBVIOUS
<1>4. p = At(order, I)  BY <1>1, <1>3 DEF Filled
<1>5. /\ p \in Seq(STRING) /\ ToSet(p) = {order[i] : i \in I}
      /\ (\A i, j \in I : order[i] = order[j] => i = j) => OnceEach(p)
      /\ 1 \in I => p # << >> /\ p[1] = order[1]
  BY <1>2, <1>4, AtGives
<1>6. OnceEach(p)  BY <1>2, <1>5 DEF OnceEach
<1>7. ToSet(p) \subseteq ToSet(PackPlan)  BY <1>2, <1>5 DEF ToSet
<1>8. PICK i \in DOMAIN order : order[i] = "hero"  BY DEF ToSet
<1>9. i \in I /\ "hero" \in ToSet(p)  BY <1>1, <1>5, <1>8, LandingAssumption
<1>10. p # << >>  BY <1>9 DEF ToSet
<1>11. ASSUME planner = "llm" PROVE p[1] = "hero"
  BY <1>1, <1>2, <1>5, <1>8, <1>11, LandingAssumption
<1>12. PICK c : c = Candidate(order, planner)  OBVIOUS
<1>13. c = [plan |-> p, planner |-> planner, published |-> FALSE]  BY <1>3, <1>12 DEF Candidate
<1>14. c \in Version1 /\ c.plan = p /\ c.planner = planner /\ c.published = FALSE
  BY <1>5, <1>13 DEF Version1
<1> QED  BY <1>6, <1>7, <1>10, <1>11, <1>12, <1>14 DEF PlanSound

LEMMA CoercedSound ==
  ASSUME NEW order \in Seq(STRING)
  PROVE  /\ Coerced(order) \in Seq(STRING) /\ OnceEach(Coerced(order))
         /\ ToSet(Coerced(order)) \subseteq ToSet(PackPlan)
<1>1. PICK I : I = {i \in DOMAIN order :
                     order[i] \in ToSet(PackPlan) /\ \A j \in 1..(i - 1) : order[j] # order[i]}
  OBVIOUS
<1>2. I \in SUBSET (DOMAIN order) /\ DOMAIN order = 1..Len(order) /\ Len(order) \in Nat  BY <1>1
<1>3. \A i, j \in I : order[i] = order[j] => i = j  BY <1>1, <1>2
<1>4. Coerced(order) = At(order, I)  BY <1>1 DEF Coerced
<1>5. /\ At(order, I) \in Seq(STRING) /\ ToSet(At(order, I)) = {order[i] : i \in I}
      /\ OnceEach(At(order, I))
  BY <1>2, <1>3, AtGives
<1>6. \A i \in I : order[i] \in ToSet(PackPlan)  BY <1>1
<1> QED  BY <1>4, <1>5, <1>6

LEMMA RearrangedSound ==
  ASSUME NEW shape \in [drop : SUBSET (STRING \ {"hero"}), lead : Seq(STRING)], OnceEach(shape.lead)
  PROVE  LET order == Rearranged(PackPlan, shape) IN
         /\ order \in Seq(STRING) /\ OnceEach(order) /\ ToSet(order) \subseteq ToSet(PackPlan)
         /\ "hero" \in ToSet(order)
<1>1. PICK I : I = {i \in DOMAIN PackPlan : PackPlan[i] \notin shape.drop}  OBVIOUS
<1>2. PICK kept : kept = At(PackPlan, I)  OBVIOUS
<1>3. PICK J : J = {i \in DOMAIN shape.lead : shape.lead[i] \in ToSet(kept)}  OBVIOUS
<1>4. PICK lead : lead = At(shape.lead, J)  OBVIOUS
<1>5. PICK K : K = {i \in DOMAIN kept : kept[i] \notin ToSet(lead)}  OBVIOUS
<1>6. PICK rest : rest = At(kept, K)  OBVIOUS
<1>7. Rearranged(PackPlan, shape) = lead \o rest
  BY Zenon, <1>1, <1>2, <1>3, <1>4, <1>5, <1>6 DEF Rearranged
<1>8. PackPlan \in Seq(STRING) /\ OnceEach(PackPlan) /\ shape.lead \in Seq(STRING)
  BY LandingAssumption
<1>9. /\ kept \in Seq(STRING) /\ ToSet(kept) = {PackPlan[i] : i \in I} /\ OnceEach(kept)
  <2>1. I \in SUBSET (DOMAIN PackPlan)  BY <1>1
  <2>2. \A i, j \in I : PackPlan[i] = PackPlan[j] => i = j  BY <1>8, <2>1 DEF OnceEach
  <2> QED  BY <1>2, <1>8, <2>1, <2>2, AtGives
<1>10. /\ lead \in Seq(STRING) /\ ToSet(lead) = {shape.lead[i] : i \in J} /\ OnceEach(lead)
  <2>1. J \in SUBSET (DOMAIN shape.lead)  BY <1>3
  <2>2. \A i, j \in J : shape.lead[i] = shape.lead[j] => i = j  BY <2>1 DEF OnceEach
  <2> QED  BY <1>4, <1>8, <2>1, <2>2, AtGives
<1>11. /\ rest \in Seq(STRING) /\ ToSet(rest) = {kept[i] : i \in K} /\ OnceEach(rest)
  <2>1. K \in SUBSET (DOMAIN kept)  BY <1>5
  <2>2. \A i, j \in K : kept[i] = kept[j] => i = j  BY <1>9, <2>1 DEF OnceEach
  <2> QED  BY <1>6, <1>9, <2>1, <2>2, AtGives
<1>12. ToSet(kept) \subseteq ToSet(PackPlan) /\ "hero" \in ToSet(kept)
  BY <1>1, <1>9, LandingAssumption DEF ToSet
<1>13. /\ ToSet(lead) \subseteq ToSet(kept) /\ ToSet(rest) \subseteq ToSet(kept)
       /\ \A x \in ToSet(rest) : x \notin ToSet(lead)
       /\ \A x \in ToSet(kept) : x \in ToSet(lead) \/ x \in ToSet(rest)
  BY <1>3, <1>5, <1>10, <1>11 DEF ToSet
<1>14. PICK q : q = lead \o rest  OBVIOUS
<1>15. /\ q \in Seq(STRING) /\ Len(q) = Len(lead) + Len(rest)
       /\ \A i \in 1..(Len(lead) + Len(rest)) :
            q[i] = IF i <= Len(lead) THEN lead[i] ELSE rest[i - Len(lead)]
  BY <1>10, <1>11, <1>14, ConcatProperties
<1>16. /\ DOMAIN q = 1..(Len(lead) + Len(rest)) /\ Len(lead) \in Nat /\ Len(rest) \in Nat
       /\ DOMAIN lead = 1..Len(lead) /\ DOMAIN rest = 1..Len(rest)
  BY <1>10, <1>11, <1>15
<1>17. \A i \in DOMAIN q : \/ i \in DOMAIN lead /\ q[i] = lead[i]
                           \/ i - Len(lead) \in DOMAIN rest /\ q[i] = rest[i - Len(lead)]
                              /\ ~(i <= Len(lead))
  BY <1>15, <1>16
<1>18. /\ \A i \in DOMAIN lead : i \in DOMAIN q /\ q[i] = lead[i]
       /\ \A i \in DOMAIN rest : Len(lead) + i \in DOMAIN q /\ q[Len(lead) + i] = rest[i]
  BY <1>15, <1>16
<1>19. OnceEach(q)
  <2> SUFFICES ASSUME NEW i \in DOMAIN q, NEW j \in DOMAIN q, q[i] = q[j] PROVE i = j
    BY DEF OnceEach
  <2>1. CASE i \in DOMAIN lead /\ j \in DOMAIN lead  BY <1>10, <1>18, <2>1 DEF OnceEach
  <2>2. CASE i \notin DOMAIN lead /\ j \notin DOMAIN lead
    BY <1>11, <1>16, <1>17, <2>2 DEF OnceEach
  <2>3. \A x, y \in DOMAIN q : x \in DOMAIN lead /\ y \notin DOMAIN lead => q[x] # q[y]
    BY <1>13, <1>17, <1>18 DEF ToSet
  <2> QED  BY <2>1, <2>2, <2>3
<1>20. ToSet(q) \subseteq ToSet(kept) /\ "hero" \in ToSet(q)
  <2>1. ToSet(q) \subseteq ToSet(kept)  BY <1>13, <1>17 DEF ToSet
  <2>2. ToSet(lead) \subseteq ToSet(q) /\ ToSet(rest) \subseteq ToSet(q)  BY <1>18 DEF ToSet
  <2> QED  BY Zenon, <1>12, <1>13, <2>1, <2>2
<1> QED  BY <1>7, <1>12, <1>14, <1>15, <1>19, <1>20

LEMMA SmallerOf ==
  ASSUME NEW a \in Nat, NEW b \in Nat, NEW k, k = IF a < b THEN a ELSE b
  PROVE  k \in Nat /\ k <= a /\ k <= b /\ (a >= 1 /\ b >= 1 => k >= 1)
  OBVIOUS

LEMMA GeneratedSound ==
  ASSUME NEW n \in 1..Len(Archetypes), NEW answer \in Answers,
         NEW vs, vs = IF n = 1 THEN << Candidate(PackPlan, "deterministic") >> ELSE Planned(n, answer)
  PROVE  /\ vs \in Seq(Version1) /\ 1 \in DOMAIN vs
         /\ \A k \in DOMAIN vs : PlanSound(vs[k]) /\ ~vs[k].published
<1>1. answer \in Seq(Seq(STRING)) /\ PackPlan \in Seq(STRING) /\ OnceEach(PackPlan)
      /\ "hero" \in ToSet(PackPlan)
  BY LandingAssumption
<1>2. Archetypes \in Seq([drop : SUBSET (STRING \ {"hero"}), lead : Seq(STRING)])
      /\ \A i \in DOMAIN Archetypes : OnceEach(Archetypes[i].lead)
  BY LandingAssumption
<1>3. Len(Archetypes) \in Nat /\ DOMAIN Archetypes = 1..Len(Archetypes) /\ n \in Nat /\ n >= 1  BY <1>2
<1>4. ASSUME NEW k \in Nat, k >= 1, NEW c, DOMAIN c = 1..k, c = [i \in 1..k |-> c[i]],
             \A i \in 1..k : c[i] \in Version1 /\ PlanSound(c[i]) /\ ~c[i].published
      PROVE  /\ c \in Seq(Version1) /\ 1 \in DOMAIN c
             /\ \A i \in DOMAIN c : PlanSound(c[i]) /\ ~c[i].published  BY <1>4
<1>5. CASE n = 1  BY <1>1, <1>4, <1>5, CandidateSound
<1>6. CASE n # 1 /\ Usable(AtMost(n, answer))
  <2>1. PICK a : a = AtMost(n, answer)  OBVIOUS
  <2>2. PICK k : k = IF n < Len(answer) THEN n ELSE Len(answer)  OBVIOUS
  <2>3. k \in Nat /\ k <= Len(answer) /\ Len(answer) \in Nat /\ DOMAIN answer = 1..Len(answer)
    BY <1>1, <1>3, <2>2, SmallerOf
  <2>4. a = SubSeq(answer, 1, k)  BY <2>1, <2>2 DEF AtMost
  <2>5. Len(a) = k /\ DOMAIN a = 1..k /\ \A i \in 1..k : a[i] = answer[i] /\ i \in DOMAIN answer
    BY <1>1, <2>3, <2>4
  <2>6. k >= 1  BY <1>1, <1>6, <2>1, <2>3, <2>4, <2>5 DEF Usable
  <2>7. vs = [i \in 1..k |-> Candidate(Coerced(answer[i]), "llm")]
    BY <1>6, <2>1, <2>5 DEF Planned
  <2>8. ASSUME NEW i \in 1..k
        PROVE  vs[i] \in Version1 /\ PlanSound(vs[i]) /\ ~vs[i].published
    <3>1. answer[i] \in Seq(STRING)  BY <1>1, <2>5
    <3>2. PICK p : p = Coerced(answer[i])  OBVIOUS
    <3>3. p \in Seq(STRING) /\ OnceEach(p) /\ ToSet(p) \subseteq ToSet(PackPlan)
      BY <3>1, <3>2, CoercedSound
    <3>4. p # << >> /\ p[1] = "hero"  BY <1>6, <2>1, <2>5, <3>2 DEF Usable
    <3>5. "hero" \in ToSet(p)  BY <3>3, <3>4 DEF ToSet
    <3>6. Candidate(p, "llm") \in Version1 /\ PlanSound(Candidate(p, "llm")) /\ ~Candidate(p, "llm").published
      BY <3>3, <3>4, <3>5, CandidateSound
    <3> QED  BY <2>7, <3>2, <3>6
  <2>9. DOMAIN vs = 1..k /\ vs = [i \in 1..k |-> vs[i]]  BY <2>7
  <2> QED  BY <1>4, <2>3, <2>6, <2>8, <2>9
<1>7. CASE n # 1 /\ ~Usable(AtMost(n, answer))
  <2>1. PICK k : k = IF n < Len(Archetypes) THEN n ELSE Len(Archetypes)  OBVIOUS
  <2>2. k \in Nat /\ k >= 1 /\ k <= Len(Archetypes)
    <3>1. n <= Len(Archetypes) /\ Len(Archetypes) >= 1  BY <1>3
    <3> QED  BY <1>3, <2>1, <3>1, SmallerOf
  <2>3. Len(AtMost(n, Archetypes)) = k
    <3>1. AtMost(n, Archetypes) = SubSeq(Archetypes, 1, k)  BY <2>1 DEF AtMost
    <3>2. PICK A : A = Archetypes  OBVIOUS
    <3>3. \A i \in 1..k : i \in DOMAIN A  BY <1>3, <2>2, <3>2
    <3>4. Len(SubSeq(A, 1, k)) = IF 1 <= k THEN k - 1 + 1 ELSE 0
      <4>1. PICK S : S = {A[i] : i \in 1..k}  OBVIOUS
      <4>2. \A i \in 1..k : A[i] \in S  BY <4>1
      <4>3. 1 \in Int /\ k \in Int  BY <2>2
      <4> QED  BY <4>2, <4>3, SubSeqProperties
    <3> QED  BY <2>2, <3>1, <3>2, <3>4
  <2>4. vs = [i \in 1..k |-> Candidate(Rearranged(PackPlan, Archetypes[i]), "deterministic")]
    BY <1>7, <2>3 DEF Planned
  <2>5. ASSUME NEW i \in 1..k
        PROVE  vs[i] \in Version1 /\ PlanSound(vs[i]) /\ ~vs[i].published
    <3>1. i \in DOMAIN Archetypes  BY <1>3, <2>2
    <3>2. PICK shape : shape = Archetypes[i]  OBVIOUS
    <3>3. shape \in [drop : SUBSET (STRING \ {"hero"}), lead : Seq(STRING)] /\ OnceEach(shape.lead)
      <4>1. PICK S, A : S = [drop : SUBSET (STRING \ {"hero"}), lead : Seq(STRING)] /\ A = Archetypes
        OBVIOUS
      <4>2. A \in Seq(S)  BY Zenon, <1>2, <4>1
      <4>3. i \in DOMAIN A /\ DOMAIN A = 1..Len(A)  BY <3>1, <4>1, <4>2
      <4>4. A[i] \in S  BY <4>2, <4>3
      <4> QED  BY Zenon, <1>2, <3>1, <3>2, <4>1, <4>4
    <3>4. PICK p : p = Rearranged(PackPlan, shape)  OBVIOUS
    <3>5. p \in Seq(STRING) /\ OnceEach(p) /\ ToSet(p) \subseteq ToSet(PackPlan) /\ "hero" \in ToSet(p)
      BY <3>3, <3>4, RearrangedSound
    <3>6. /\ Candidate(p, "deterministic") \in Version1 /\ PlanSound(Candidate(p, "deterministic"))
          /\ ~Candidate(p, "deterministic").published
      BY <3>5, CandidateSound
    <3> QED  BY <2>4, <3>2, <3>4, <3>6
  <2>6. DOMAIN vs = 1..k /\ vs = [i \in 1..k |-> vs[i]]  BY <2>4
  <2> QED  BY <1>4, <2>2, <2>5, <2>6
<1> QED  BY <1>5, <1>6, <1>7

Statuses == {"generated", "awaiting_approval", "approved", "published", "paused", "archived"}
PageRequest == [to : {"approved", "awaiting_approval", "published", "paused", "archived"}, version : Nat]
LivePage == {"approved", "published", "paused"}
PageShapes ==
  /\ page \in [status : Statuses \cup {"absent"}, current : Nat]
  /\ versions_ \in Seq(Version1) /\ leads \in Seq(Nat)
  /\ owner \in [Owners -> {Unasked} \cup PageRequest]
  /\ form \in [Visitors -> [at : {"blank", "limited", "allowed", "neutral", "reading", "captured"},
                            version : Nat]]
  /\ chosen \subseteq DOMAIN versions_

(* What an owner has read and will write.                                    *)
OwnerTrue(w) ==
  owner[w] # Unasked =>
    /\ page.status # "absent" /\ owner[w].to # "generated"
    /\ owner[w].to = "approved" => owner[w].version \in DOMAIN versions_
    /\ owner[w].to \in {"published", "paused"} => page.current \in chosen
Shown(n) == n \in DOMAIN versions_ /\ versions_[n].published
PageInv ==
  /\ PageShapes
  /\ page.status = "absent" => versions_ = << >> /\ page.current = 0
  /\ page.status # "absent" => page.current \in DOMAIN versions_
  /\ page.status \in LivePage => page.current \in chosen
  /\ page.status = "published" => Shown(page.current)
  /\ \A n \in DOMAIN versions_ : PlanSound(versions_[n])
  /\ \A w \in Owners : OwnerTrue(w)
  /\ \A v \in Visitors : form[v].at = "reading" => Shown(form[v].version)
  /\ \A i \in DOMAIN leads : Shown(leads[i])

(* The deque is the end of what was let through, and the rest is too old.    *)
FloodInv ==
  /\ clock_ \in 0..LastMinute /\ passed \in Seq(Nat) /\ bucket \in Seq(Nat) /\ Len(bucket) <= PerMin
  /\ \A i \in DOMAIN passed : passed[i] <= clock_
  /\ \A i, j \in DOMAIN passed : i <= j => passed[i] <= passed[j]
  /\ \E n \in 0..Len(passed) :
       /\ Len(bucket) = Len(passed) - n /\ \A i \in DOMAIN bucket : bucket[i] = passed[n + i]
       /\ \A i \in 1..n : passed[i] + FloodWindow < clock_
  /\ FloodCapped
LandingInv == PageInv /\ FloodInv

LEMMA LandingStarts == LandingInit => LandingInv
<1> SUFFICES ASSUME LandingInit PROVE LandingInv  OBVIOUS
<1>1. /\ page.status = "absent" /\ page.current = 0 /\ versions_ = << >> /\ leads = << >> /\ chosen = {}
      /\ passed = << >> /\ bucket = << >> /\ clock_ = 0
      /\ \A w \in Owners : owner[w] = Unasked
      /\ \A v \in Visitors : form[v].at = "blank"
  BY DEF LandingInit
<1>2. PageShapes  BY <1>1 DEF LandingInit, PageShapes
<1>3. PageInv  BY <1>1, <1>2 DEF PageInv, OwnerTrue, LivePage
<1>4. FloodInv  BY <1>1, LandingAssumption DEF FloodCapped, FloodInv
<1> QED  BY <1>3, <1>4 DEF LandingInv

(* The limiter                                                               *)
LEMMA PoppedIsEnd ==
  ASSUME NEW hits \in Seq(Nat), NEW moment \in Nat
  PROVE  \E n \in 0..Len(hits) :
           /\ Popped(hits, moment) = SubSeq(hits, n + 1, Len(hits))
           /\ \A i \in 1..n : hits[i] + FloodWindow < moment
<1>1. Len(hits) \in Nat /\ DOMAIN hits = 1..Len(hits) /\ FloodWindow \in Nat  BY LandingAssumption
<1>2. \A i \in 1..Len(hits) : hits[i] \in Nat  BY <1>1
<1>3. PICK T : T = {n \in 0..Len(hits) : n < Len(hits) => hits[n + 1] + FloodWindow >= moment}  OBVIOUS
<1>4. T \subseteq Nat /\ Len(hits) \in T  BY <1>1, <1>3
<1>5. PICK n \in T : \A m \in T : n <= m  BY <1>4, NatMinimum
<1>6. n \in 0..Len(hits) /\ (n < Len(hits) => hits[n + 1] + FloodWindow >= moment)  BY <1>3, <1>5
<1>7. \A i \in 1..n : hits[i] + FloodWindow < moment
  <2> SUFFICES ASSUME NEW i \in 1..n PROVE hits[i] + FloodWindow < moment  OBVIOUS
  <2>1. i - 1 \in 0..Len(hits) /\ i - 1 < Len(hits) /\ ~(n <= i - 1) /\ (i - 1) + 1 = i /\ i \in 1..Len(hits)
    BY <1>1, <1>6
  <2>2. i - 1 \notin T  BY <1>5, <2>1
  <2>3. ~(hits[i] + FloodWindow >= moment)  BY <1>3, <2>1, <2>2
  <2>4. hits[i] \in Nat  BY <1>2, <2>1
  <2> QED  BY <1>1, <2>3, <2>4
<1>8. PICK left : left = CHOOSE m \in 0..Len(hits) :
                           /\ \A i \in 1..m : hits[i] + FloodWindow < moment
                           /\ m < Len(hits) => hits[m + 1] + FloodWindow >= moment
  OBVIOUS
<1>9. left \in 0..Len(hits) /\ \A i \in 1..left : hits[i] + FloodWindow < moment
  BY <1>6, <1>7, <1>8
<1>10. Popped(hits, moment) = SubSeq(hits, left + 1, Len(hits))  BY <1>8 DEF Popped
<1> QED  BY <1>9, <1>10

LEMMA SubmitFloods ==
  ASSUME FloodInv, NEW v \in Visitors, Submit(v)
  PROVE  FloodInv'
<1> USE DEF FloodInv
<1>1. /\ clock_ \in Nat /\ FloodWindow \in Nat /\ PerMin \in Nat /\ PerMin >= 1 /\ clock_' = clock_
  BY LandingAssumption DEF Submit
<1>2. PICK n \in 0..Len(passed) :
        /\ Len(bucket) = Len(passed) - n /\ \A i \in DOMAIN bucket : bucket[i] = passed[n + i]
        /\ \A i \in 1..n : passed[i] + FloodWindow < clock_
  OBVIOUS
<1>3. PICK m \in 0..Len(bucket) :
        /\ Recent(bucket) = SubSeq(bucket, m + 1, Len(bucket))
        /\ \A i \in 1..m : bucket[i] + FloodWindow < clock_
  BY <1>1, PoppedIsEnd DEF Recent
<1>4. PICK b : b = Recent(bucket)  OBVIOUS
<1>5. PICK k, L : k = n + m /\ L = Len(passed)  OBVIOUS
<1>6. /\ L \in Nat /\ Len(bucket) \in Nat /\ n \in Nat /\ m \in Nat /\ k \in 0..L
      /\ DOMAIN passed = 1..L /\ DOMAIN bucket = 1..Len(bucket)
  BY <1>2, <1>3, <1>5
<1> HIDE DEF FloodInv
<1>7. /\ b \in Seq(Nat) /\ Len(b) = Len(bucket) - m
      /\ \A i \in 1..Len(b) : b[i] = bucket[m + i]
  <2>1. bucket \in Seq(Nat)  BY DEF FloodInv
  <2>2. m + 1 \in Nat /\ m <= Len(bucket)  BY <1>3, <1>6
  <2>3. b = SubSeq(bucket, m + 1, Len(bucket))  BY <1>3, <1>4
  <2>10. PICK lo, hi, h : lo = m + 1 /\ hi = Len(bucket) /\ h = bucket  OBVIOUS
  <2>14. hi \in Nat /\ m <= hi  BY <1>6, <2>2, <2>10
  <2>11. lo \in Int /\ hi \in Int /\ \A i \in lo..hi : h[i] \in Nat  BY <1>6, <2>1, <2>10
  <2>12. b = SubSeq(h, lo, hi)  BY <2>3, <2>10
  <2>13. /\ b \in Seq(Nat) /\ Len(b) = IF lo <= hi THEN hi - lo + 1 ELSE 0
        /\ \A i \in 1..(hi - lo + 1) : b[i] = h[lo + i - 1]
    BY <2>11, <2>12, SubSeqProperties
  <2>4. b \in Seq(Nat) /\ Len(b) = Len(bucket) - m
    <3>1. Len(b) = IF lo <= hi THEN hi - lo + 1 ELSE 0  BY <2>13
    <3>2. (IF lo <= hi THEN hi - lo + 1 ELSE 0) = hi - m
      <4>1. lo \in Nat /\ lo = m + 1 /\ m \in Nat  BY <1>6, <2>2, <2>10
      <4> QED  BY <2>14, <4>1
    <3> QED  BY <2>10, <2>13, <3>1, <3>2
  <2>5. \A i \in 1..Len(b) : b[i] = bucket[m + i]
    <3> SUFFICES ASSUME NEW i \in 1..Len(b) PROVE b[i] = bucket[m + i]  OBVIOUS
    <3>1. i \in 1..(hi - lo + 1) /\ lo + i - 1 = m + i  BY <1>6, <2>2, <2>4, <2>10
    <3> QED  BY <2>10, <2>13, <3>1
  <2> QED  BY <2>4, <2>5
<1>8. Len(b) = L - k /\ \A i \in 1..Len(b) : b[i] = passed[k + i]
  <2>1. Len(b) = L - k  BY <1>2, <1>5, <1>6, <1>7
  <2>2. \A i \in 1..Len(b) : m + i \in DOMAIN bucket /\ n + (m + i) = k + i  BY <1>5, <1>6, <1>7, <2>1
  <2> QED  BY <1>2, <1>7, <2>1, <2>2
<1>9. \A i \in 1..k : passed[i] + FloodWindow < clock_
  <2> SUFFICES ASSUME NEW i \in 1..k PROVE passed[i] + FloodWindow < clock_  OBVIOUS
  <2>1. CASE i \in 1..n  BY <1>2, <2>1
  <2>2. CASE i \notin 1..n
    <3>1. i - n \in 1..m /\ i - n \in DOMAIN bucket /\ n + (i - n) = i  BY <1>3, <1>5, <1>6, <2>2
    <3>2. bucket[i - n] = passed[i]  BY <1>2, <3>1
    <3> QED  BY <1>3, <3>1, <3>2
  <2> QED  BY <2>1, <2>2
<1>10. CASE Len(b) >= PerMin
  <2>1. bucket' = b /\ passed' = passed  BY <1>4, <1>10 DEF Submit
  <2>2. Len(b) <= PerMin  BY <1>1, <1>3, <1>6, <1>7 DEF FloodInv
  <2>3. FloodCapped'  BY <2>1 DEF FloodInv, FloodCapped
  <2>4. DOMAIN b = 1..Len(b)  BY <1>7
  <2> QED  BY <1>1, <1>5, <1>6, <1>7, <1>8, <1>9, <2>1, <2>2, <2>3, <2>4 DEF FloodInv
<1>11. CASE ~(Len(b) >= PerMin)
  <2>1. bucket' = Append(b, clock_) /\ passed' = Append(passed, clock_)
    BY <1>4, <1>11 DEF Submit
  <2>2. passed \in Seq(Nat)  BY DEF FloodInv
  <2>3. /\ passed' \in Seq(Nat) /\ Len(passed') = L + 1 /\ DOMAIN passed' = 1..(L + 1)
        /\ passed'[L + 1] = clock_ /\ \A i \in 1..L : passed'[i] = passed[i]
    BY <1>1, <1>5, <1>6, <2>1, <2>2
  <2>4. PICK B : B = Len(b)  OBVIOUS
  <2>5. B \in Nat  BY <1>7, <2>4
  <2>6. /\ bucket' \in Seq(Nat) /\ Len(bucket') = B + 1 /\ DOMAIN bucket' = 1..(B + 1)
        /\ bucket'[B + 1] = clock_ /\ \A i \in 1..B : bucket'[i] = b[i]
    BY <1>1, <1>7, <2>1, <2>4, <2>5
  <2>7. B + 1 <= PerMin /\ B = L - k  BY <1>1, <1>8, <1>11, <2>4, <2>5
  <2>8. \A i \in DOMAIN passed' : passed'[i] <= clock_
    <3>1. \A i \in 1..L : passed[i] <= clock_  BY <1>6 DEF FloodInv
    <3>2. \A i \in 1..(L + 1) : i = L + 1 \/ i \in 1..L  BY <1>6
    <3> QED  BY <1>1, <2>3, <3>1, <3>2
  <2>9. \A i, j \in DOMAIN passed' : i <= j => passed'[i] <= passed'[j]
    <3> SUFFICES ASSUME NEW i \in 1..(L + 1), NEW j \in 1..(L + 1), i <= j
                 PROVE  passed'[i] <= passed'[j]
      BY <2>3
    <3>1. CASE j = L + 1  BY <2>3, <2>8, <3>1
    <3>2. CASE j # L + 1
      <4>1. i \in 1..L /\ j \in 1..L  BY <1>6, <3>2
      <4>2. passed[i] <= passed[j]  BY <1>6, <4>1 DEF FloodInv
      <4> QED  BY <2>3, <4>1, <4>2
    <3> QED  BY <3>1, <3>2
  <2>10. \A i \in DOMAIN bucket' : bucket'[i] = passed'[k + i]
    <3> SUFFICES ASSUME NEW i \in 1..(B + 1) PROVE bucket'[i] = passed'[k + i]  BY <2>6
    <3>1. CASE i = B + 1  BY <1>6, <2>3, <2>6, <2>7, <3>1
    <3>2. CASE i # B + 1  BY <1>6, <1>8, <2>3, <2>4, <2>5, <2>6, <2>7, <3>2
    <3> QED  BY <3>1, <3>2
  <2>11. \A i \in 1..k : passed'[i] + FloodWindow < clock_  BY <1>6, <1>9, <2>3
  <2>12. FloodCapped'
    <3> SUFFICES ASSUME NEW i \in 1..(L + 1)
                 PROVE  Cardinality({j \in DOMAIN passed' :
                          passed'[j] \in passed'[i]..(passed'[i] + FloodWindow)}) <= PerMin
      BY <2>3 DEF FloodCapped
    <3>1. PICK W : W = {j \in DOMAIN passed' : passed'[j] \in passed'[i]..(passed'[i] + FloodWindow)}
      OBVIOUS
    <3>2. \A j \in 1..(L + 1) : passed'[j] \in Nat  BY <2>3
    <3>3. CASE passed'[i] + FloodWindow < clock_
      <4>1. i \in 1..L  BY <1>1, <1>6, <2>3, <3>3
      <4>2. \A j \in W : j # L + 1  BY <1>1, <2>3, <3>1, <3>2, <3>3
      <4>3. W = {j \in DOMAIN passed : passed[j] \in passed[i]..(passed[i] + FloodWindow)}
        <5>1. \A j \in 1..(L + 1) : j # L + 1 => j \in 1..L  BY <1>6
        <5>2. \A j \in 1..L : j \in 1..(L + 1)  BY <1>6
        <5> QED  BY <1>6, <2>3, <3>1, <4>1, <4>2, <5>1, <5>2
      <4>4. FloodCapped  BY DEF FloodInv
      <4> QED  BY <1>6, <3>1, <4>1, <4>3, <4>4 DEF FloodCapped
    <3>4. CASE ~(passed'[i] + FloodWindow < clock_)
      <4>1. W \subseteq (k + 1)..(L + 1)
        <5> SUFFICES ASSUME NEW j \in W PROVE j \in (k + 1)..(L + 1)  OBVIOUS
        <5>1. j \in 1..(L + 1) /\ passed'[j] >= passed'[i]  BY <2>3, <3>1, <3>2
        <5>2. ~(passed'[j] + FloodWindow < clock_)  BY <1>1, <3>2, <3>4, <5>1
        <5>3. j \notin 1..k  BY <2>11, <5>2
        <5> QED  BY <1>6, <5>1, <5>3
      <4>2. PICK lo, hi : lo = k + 1 /\ hi = L + 1  OBVIOUS
      <4>3. lo \in Int /\ hi \in Int /\ lo <= hi /\ hi - lo + 1 = B + 1  BY <1>6, <2>7, <4>2
      <4>4. IsFiniteSet(lo..hi) /\ Cardinality(lo..hi) = B + 1  BY <4>3, FS_Interval
      <4>5. Cardinality(W) <= Cardinality(lo..hi) /\ Cardinality(W) \in Nat
        BY <4>1, <4>2, <4>4, FS_Subset, FS_CardinalityType
      <4>6. Cardinality(W) <= PerMin  BY <1>1, <2>5, <2>7, <4>4, <4>5
      <4> QED  BY <3>1, <4>6
    <3> QED  BY <3>3, <3>4
  <2>13. k \in 0..Len(passed') /\ Len(bucket') = Len(passed') - k  BY <1>6, <2>3, <2>6, <2>7
  <2>14. clock_' \in 0..LastMinute /\ Len(bucket') <= PerMin  BY <1>1, <2>6, <2>7 DEF FloodInv
  <2> QED  BY <1>1, <2>3, <2>6, <2>8, <2>9, <2>10, <2>11, <2>12, <2>13, <2>14 DEF FloodInv
<1> QED  BY <1>10, <1>11

LEMMA FloodUndisturbed ==
  ASSUME FloodInv, passed' = passed, bucket' = bucket, clock_' \in Nat, clock_ <= clock_',
         clock_' <= LastMinute
  PROVE  FloodInv'
<1>1. clock_ \in Nat /\ FloodWindow \in Nat /\ LastMinute \in Nat  BY LandingAssumption DEF FloodInv
<1>2. passed \in Seq(Nat) /\ bucket \in Seq(Nat)  BY DEF FloodInv
<1>3. PICK n \in 0..Len(passed) :
        /\ Len(bucket) = Len(passed) - n /\ \A i \in DOMAIN bucket : bucket[i] = passed[n + i]
        /\ \A i \in 1..n : passed[i] + FloodWindow < clock_
  BY DEF FloodInv
<1>4. \A i \in 1..Len(passed) : passed[i] \in Nat  BY <1>2
<1>5. Len(passed) \in Nat /\ DOMAIN passed = 1..Len(passed)  BY <1>2
<1>6. \A i \in 1..n : passed[i] + FloodWindow < clock_'  BY SMTT(30), <1>1, <1>3, <1>4, <1>5
<1>7. \A i \in DOMAIN passed : passed[i] <= clock_'  BY <1>1, <1>4, <1>5 DEF FloodInv
<1>8. FloodCapped'  BY DEF FloodInv, FloodCapped
<1>9. clock_' \in 0..LastMinute  BY <1>1
<1> QED  BY <1>2, <1>3, <1>6, <1>7, <1>8, <1>9 DEF FloodInv

(* If the newest hit is stale so are all.                                    *)
LEMMA SweepFloods ==
  ASSUME FloodInv, Sweep
  PROVE  FloodInv'
<1>1. clock_ \in Nat /\ FloodWindow \in Nat /\ PerMin \in Nat /\ clock_' = clock_ /\ passed' = passed
      /\ bucket' = << >> /\ bucket # << >> /\ bucket[Len(bucket)] + FloodWindow < clock_
  BY LandingAssumption DEF FloodInv, Sweep
<1>2. passed \in Seq(Nat) /\ bucket \in Seq(Nat)  BY DEF FloodInv
<1>3. PICK n \in 0..Len(passed) :
        /\ Len(bucket) = Len(passed) - n /\ \A i \in DOMAIN bucket : bucket[i] = passed[n + i]
        /\ \A i \in 1..n : passed[i] + FloodWindow < clock_
  BY DEF FloodInv
<1>4. \A i \in 1..Len(passed) : passed[i] \in Nat  BY <1>2
<1>5. PICK L, B : L = Len(passed) /\ B = Len(bucket)  OBVIOUS
<1>6. L \in Nat /\ DOMAIN passed = 1..L /\ B \in Nat /\ DOMAIN bucket = 1..B /\ B # 0  BY <1>1, <1>2, <1>5
<1>7. passed[L] + FloodWindow < clock_ /\ L \in 1..L  BY <1>1, <1>3, <1>5, <1>6
<1>8. \A i \in 1..L : passed[i] + FloodWindow < clock_
  <2> SUFFICES ASSUME NEW i \in 1..L PROVE passed[i] + FloodWindow < clock_  OBVIOUS
  <2>1. i <= L  OBVIOUS
  <2>2. passed[i] <= passed[L]  BY <1>6, <1>7, <2>1 DEF FloodInv
  <2>3. passed[i] \in Nat /\ passed[L] \in Nat  BY <1>4, <1>5, <1>7
  <2> QED  BY <1>1, <1>7, <2>2, <2>3
<1>9. Len(bucket') = 0 /\ DOMAIN bucket' = {} /\ bucket' \in Seq(Nat)  BY <1>1
<1>10. FloodCapped'  BY <1>1 DEF FloodInv, FloodCapped
<1>11. L \in 0..Len(passed') /\ Len(bucket') = Len(passed') - L /\ Len(bucket') <= PerMin
  BY <1>1, <1>5, <1>6, <1>9
<1> QED  BY <1>1, <1>5, <1>8, <1>9, <1>10, <1>11 DEF FloodInv

(* The page                                                                  *)
LEMMA MovesAre ==
  /\ DOMAIN Moves = Statuses
  /\ \A s \in Statuses : Moves[s] \subseteq Statuses
  /\ \A s \in Statuses : {"published", "paused"} \cap Moves[s] # {} => s \in LivePage
  /\ LivePage \subseteq Statuses
<1>1. DOMAIN Moves = Statuses  BY DEF Moves, Statuses
<1>2. /\ Moves["generated"] = {"awaiting_approval", "approved", "archived"}
      /\ Moves["awaiting_approval"] = {"approved", "generated", "archived"}
      /\ Moves["approved"] = {"published", "generated", "archived"}
      /\ Moves["published"] = {"paused", "approved", "archived"}
      /\ Moves["paused"] = {"published", "approved", "archived"}
      /\ Moves["archived"] = {}
  BY DEF Moves
<1>3. LivePage \subseteq Statuses  BY DEF LivePage, Statuses
<1>4. \A s \in Statuses : Moves[s] \subseteq Statuses  BY <1>2 DEF Statuses
<1>5. \A s \in Statuses : {"published", "paused"} \cap Moves[s] # {} => s \in LivePage
  BY <1>2 DEF Statuses, LivePage
<1> QED  BY <1>1, <1>3, <1>4, <1>5

LEMMA GenerateKeeps ==
  ASSUME PageInv, NEW n \in 1..Len(Archetypes), NEW answer \in Answers, Generate(n, answer)
  PROVE  PageInv'
<1>1. /\ page.status = "absent" /\ page' = [status |-> "generated", current |-> 1]
      /\ owner' = owner /\ chosen' = chosen /\ form' = form /\ leads' = leads
  BY DEF Generate
<1>2. versions_ = << >> /\ DOMAIN versions_ = {} /\ chosen = {}
  BY <1>1 DEF PageInv, PageShapes
<1>3. PICK vs : vs = versions_'  OBVIOUS
<1>4. vs = IF n = 1 THEN << Candidate(PackPlan, "deterministic") >> ELSE Planned(n, answer)
  BY <1>3 DEF Generate
<1>5. /\ vs \in Seq(Version1) /\ 1 \in DOMAIN vs
      /\ \A k \in DOMAIN vs : PlanSound(vs[k]) /\ ~vs[k].published
  BY <1>4, GeneratedSound
<1>6. \A w \in Owners : owner[w] = Unasked  BY <1>1 DEF PageInv, OwnerTrue
<1>7. \A v \in Visitors : form[v].at # "reading"  BY <1>2 DEF PageInv, Shown
<1>8. DOMAIN leads = {}  BY <1>2 DEF PageInv, Shown
<1>9. /\ page' \in [status : Statuses \cup {"absent"}, current : Nat] /\ page'.status = "generated"
      /\ page'.current = 1
  BY <1>1 DEF Statuses
<1>10. PageShapes'  BY <1>1, <1>2, <1>3, <1>5, <1>9 DEF PageInv, PageShapes
<1> QED  BY <1>1, <1>3, <1>5, <1>6, <1>7, <1>8, <1>9, <1>10 DEF PageInv, OwnerTrue, Shown, LivePage

(* The owner's step leaves the page.                                         *)
LEMMA OwnerKeeps ==
  ASSUME PageInv, NEW w \in Owners, NEW o, owner' = [owner EXCEPT ![w] = o],
         o \in {Unasked} \cup PageRequest,
         o # Unasked => /\ page.status # "absent" /\ o.to # "generated"
                        /\ (o.to = "approved" => o.version \in DOMAIN versions_)
                        /\ (o.to \in {"published", "paused"} => page.current \in chosen),
         UNCHANGED <<page, versions_, chosen, form, leads>>
  PROVE  PageInv'
<1>1. owner \in [Owners -> {Unasked} \cup PageRequest]  BY DEF PageInv, PageShapes
<1>2. owner' \in [Owners -> {Unasked} \cup PageRequest]
      /\ \A x \in Owners : owner'[x] = IF x = w THEN o ELSE owner[x]
  BY <1>1
<1>3. PageShapes'  BY <1>2 DEF PageInv, PageShapes
<1>4. \A x \in Owners : OwnerTrue(x)'  BY <1>2 DEF PageInv, OwnerTrue
<1> QED  BY <1>3, <1>4 DEF PageInv, Shown

LEMMA ReadStatusKeeps ==
  ASSUME PageInv, NEW w \in Owners, NEW q \in Requests_, ReadStatus(w, q)
  PROVE  PageInv'
<1>1. /\ page.status # "absent" /\ q.to \in Moves[page.status] /\ owner' = [owner EXCEPT ![w] = q]
      /\ UNCHANGED <<page, versions_, chosen, form, leads>>
  BY DEF ReadStatus
<1>2. page.status \in Statuses  BY <1>1 DEF PageInv, PageShapes
<1>3. \/ \E n \in DOMAIN versions_ : q = [to |-> "approved", version |-> n]
      \/ \E s \in {"awaiting_approval", "published", "paused", "archived"} : q = [to |-> s, version |-> 0]
  BY DEF Requests_
<1>4. DOMAIN versions_ \subseteq Nat  BY DEF PageInv, PageShapes
<1>5. q \in PageRequest /\ q.to # "generated" /\ (q.to = "approved" => q.version \in DOMAIN versions_)
  BY <1>3, <1>4 DEF PageRequest
<1>6. q.to \in {"published", "paused"} => page.current \in chosen
  BY <1>1, <1>2, MovesAre DEF PageInv
<1> QED  BY <1>1, <1>5, <1>6, OwnerKeeps

LEMMA WriteStatusKeeps ==
  ASSUME PageInv, NEW w \in Owners, WriteStatus(w)
  PROVE  PageInv'
<1>1. PICK q, v : q = owner[w] /\ v = Target(q)  OBVIOUS
<1>2. /\ q # Unasked /\ page' = [status |-> q.to, current |-> v]
      /\ versions_' = [versions_ EXCEPT ![v].published = @ \/ q.to = "published"]
      /\ chosen' = (IF q.to = "approved" THEN chosen \cup {q.version} ELSE chosen)
      /\ owner' = [owner EXCEPT ![w] = Unasked] /\ form' = form /\ leads' = leads
  BY <1>1 DEF WriteStatus
<1>3. q \in PageRequest /\ OwnerTrue(w)  BY <1>1, <1>2 DEF PageInv, PageShapes
<1>4. /\ page.status # "absent" /\ (q.to = "approved" => q.version \in DOMAIN versions_)
      /\ (q.to \in {"published", "paused"} => page.current \in chosen)
  BY <1>1, <1>2, <1>3 DEF OwnerTrue
<1>5. v = (IF q.to = "approved" THEN q.version ELSE page.current)  BY <1>1 DEF Target
<1>6. v \in DOMAIN versions_  BY <1>4, <1>5 DEF PageInv
<1>7. versions_ \in Seq(Version1) /\ DOMAIN versions_ = 1..Len(versions_) /\ Len(versions_) \in Nat
  BY DEF PageInv, PageShapes
<1>8. PICK c : c = [versions_[v] EXCEPT !.published = @ \/ q.to = "published"]  OBVIOUS
<1>9. versions_[v] \in Version1  BY <1>6, <1>7
<1>10. PICK flag : flag = (versions_[v].published \/ q.to = "published")  OBVIOUS
<1>11. flag \in BOOLEAN  BY <1>10
<1>12. /\ c \in Version1 /\ c.published = flag /\ c.plan = versions_[v].plan
       /\ c.planner = versions_[v].planner  BY <1>8, <1>9, <1>10, <1>11 DEF Version1
<1>13. versions_' = [versions_ EXCEPT ![v] = c]  BY <1>2, <1>8
<1>14. /\ versions_' \in Seq(Version1) /\ DOMAIN versions_' = DOMAIN versions_
       /\ \A n \in DOMAIN versions_ : versions_'[n] = IF n = v THEN c ELSE versions_[n]
  BY <1>6, <1>7, <1>12, <1>13
<1>15. \A n : Shown(n) => Shown(n)'  BY <1>10, <1>12, <1>14 DEF Shown
<1>16. \A n \in DOMAIN versions_' : PlanSound(versions_'[n])  BY <1>12, <1>14 DEF PageInv, PlanSound
<1>17. chosen \subseteq chosen' /\ chosen' \subseteq DOMAIN versions_'
       /\ (q.to \in LivePage => v \in chosen')
  BY <1>2, <1>4, <1>5, <1>14 DEF PageInv, PageShapes, LivePage
<1>18. q.to = "published" => Shown(v)'  BY <1>6, <1>10, <1>12, <1>14 DEF Shown
<1>19. /\ page'.status = q.to /\ page'.current = v /\ q.to # "absent"
       /\ page' \in [status : Statuses \cup {"absent"}, current : Nat]
  BY <1>2, <1>3, <1>6, <1>7 DEF PageRequest, Statuses
<1>20. /\ owner' \in [Owners -> {Unasked} \cup PageRequest]
       /\ \A x \in Owners : owner'[x] = IF x = w THEN Unasked ELSE owner[x]
  BY <1>2 DEF PageInv, PageShapes
<1>21. PageShapes'  BY <1>2, <1>14, <1>17, <1>19, <1>20 DEF PageInv, PageShapes
<1>22. \A x \in Owners : OwnerTrue(x)'
  BY <1>5, <1>14, <1>17, <1>19, <1>20 DEF OwnerTrue, PageInv, LivePage
<1>25. PICK S : S = {n \in DOMAIN versions_' : versions_'[n].published}  OBVIOUS
<1>23. /\ \A x \in Visitors : form'[x].at = "reading" => form'[x].version \in S
       /\ \A i \in DOMAIN leads' : leads'[i] \in S  BY <1>2, <1>15, <1>25 DEF PageInv, Shown
<1>24. page'.status = "published" => page'.current \in S  BY <1>18, <1>19, <1>25 DEF Shown
<1>26. /\ page'.status # "absent" /\ page'.current \in DOMAIN versions_'
       /\ (page'.status \in LivePage => page'.current \in chosen')
  BY <1>6, <1>14, <1>17, <1>19
<1> QED  BY <1>16, <1>21, <1>22, <1>23, <1>24, <1>25, <1>26 DEF PageInv, Shown

(* A submission moves.                                                       *)
LEMMA FormKeeps ==
  ASSUME PageInv, NEW v \in Visitors, NEW f, form' = [form EXCEPT ![v] = f],
         f \in [at : {"blank", "limited", "allowed", "neutral", "reading", "captured"}, version : Nat],
         f.at = "reading" => Shown(f.version),
         UNCHANGED <<page, versions_, chosen, owner>>,
         \/ leads' = leads
         \/ \E n \in Nat : leads' = Append(leads, n) /\ Shown(n)
  PROVE  PageInv'
<1>1. /\ form' \in [Visitors -> [at : {"blank", "limited", "allowed", "neutral", "reading", "captured"},
                                 version : Nat]]
      /\ \A x \in Visitors : form'[x] = IF x = v THEN f ELSE form[x]
  BY DEF PageInv, PageShapes
<1>2. leads \in Seq(Nat)  BY DEF PageInv, PageShapes
<1>3. leads' \in Seq(Nat) /\ \A i \in DOMAIN leads' : Shown(leads'[i])
  <2>1. CASE leads' = leads  BY <1>2, <2>1 DEF PageInv
  <2>2. CASE \E n \in Nat : leads' = Append(leads, n) /\ Shown(n)  BY <1>2, <2>2 DEF PageInv
  <2> QED  BY <2>1, <2>2
<1>4. PageShapes'  BY <1>1, <1>3 DEF PageInv, PageShapes
<1>5. \A x \in Owners : OwnerTrue(x)'  BY DEF PageInv, OwnerTrue
<1>6. \A x \in Visitors : form'[x].at = "reading" => Shown(form'[x].version)  BY <1>1 DEF PageInv
<1> QED  BY <1>3, <1>4, <1>5, <1>6 DEF PageInv, Shown

Form1 == [at : {"blank", "limited", "allowed", "neutral", "reading", "captured"}, version : Nat]

LEMMA SubmitKeeps ==
  ASSUME PageInv, NEW v \in Visitors, Submit(v)
  PROVE  PageInv'
<1>1. form[v] \in Form1  BY DEF PageInv, PageShapes, Form1
<1>2. PICK s \in {"limited", "allowed"} : form' = [form EXCEPT ![v].at = s]  BY DEF Submit
<1>3. PICK f : f = [form[v] EXCEPT !.at = s]  OBVIOUS
<1>4. f \in Form1 /\ f.at # "reading"  BY <1>1, <1>2, <1>3 DEF Form1
<1>5. form' = [form EXCEPT ![v] = f]  BY <1>2, <1>3
<1>6. UNCHANGED <<page, versions_, chosen, owner>> /\ leads' = leads  BY DEF Submit
<1> QED  BY <1>4, <1>5, <1>6, FormKeeps DEF Form1

LEMMA ReadPageKeeps ==
  ASSUME PageInv, NEW v \in Visitors, ReadPage(v)
  PROVE  PageInv'
<1>1. PICK f : f = IF Served THEN [at |-> "reading", version |-> page.current]
                   ELSE [at |-> "neutral", version |-> 0]
  OBVIOUS
<1>2. form' = [form EXCEPT ![v] = f] /\ UNCHANGED <<page, versions_, chosen, owner>> /\ leads' = leads
  BY <1>1 DEF ReadPage
<1>3. page.current \in Nat  BY DEF PageInv, PageShapes
<1>4. f \in Form1 /\ (f.at = "reading" => Shown(f.version))
  BY <1>1, <1>3 DEF Served, PageInv, Form1
<1> QED  BY <1>2, <1>4, FormKeeps DEF Form1

LEMMA CaptureLeadKeeps ==
  ASSUME PageInv, NEW v \in Visitors, CaptureLead(v)
  PROVE  PageInv'
<1>1. form[v] \in Form1  BY DEF PageInv, PageShapes, Form1
<1>2. PICK f : f = [form[v] EXCEPT !.at = "captured"]  OBVIOUS
<1>3. f \in Form1 /\ f.at # "reading"  BY <1>1, <1>2 DEF Form1
<1>4. form' = [form EXCEPT ![v] = f] /\ UNCHANGED <<page, versions_, chosen, owner>>
      /\ leads' = Append(leads, form[v].version)
  BY <1>2 DEF CaptureLead
<1>5. form[v].version \in Nat /\ Shown(form[v].version)  BY <1>1 DEF CaptureLead, PageInv, Form1
<1> QED  BY <1>3, <1>4, <1>5, FormKeeps DEF Form1

LEMMA LandingSteps == LandingInv /\ [LandingNext]_landingVars => LandingInv'
<1> SUFFICES ASSUME LandingInv, [LandingNext]_landingVars PROVE LandingInv'  OBVIOUS
<1> USE DEF LandingInv
<1>0. PageInv /\ FloodInv /\ clock_ \in Nat /\ clock_ <= LastMinute /\ LastMinute \in Nat
  <2>1. PageInv /\ FloodInv  OBVIOUS
  <2>2. clock_ \in 0..LastMinute /\ LastMinute \in Nat  BY <2>1, LandingAssumption DEF FloodInv
  <2> QED  BY <2>1, <2>2
<1>1. ASSUME UNCHANGED <<page, versions_, owner, chosen, form, leads>> PROVE PageInv'
  BY <1>0, <1>1 DEF PageInv, PageShapes, OwnerTrue, Shown
<1>2. ASSUME UNCHANGED <<bucket, passed, clock_>> PROVE FloodInv'
  BY <1>0, <1>2, FloodUndisturbed
<1>3. CASE UNCHANGED landingVars  BY <1>1, <1>2, <1>3 DEF landingVars
<1>4. CASE \E n \in 1..Len(Archetypes), answer \in Answers : Generate(n, answer)
  BY <1>2, <1>4, GenerateKeeps DEF Generate
<1>5. ASSUME NEW w \in Owners, \/ \E q \in Requests_ : ReadStatus(w, q)
                               \/ WriteStatus(w) \/ DropTransition(w)
      PROVE  LandingInv'
  BY <1>2, <1>5, ReadStatusKeeps, WriteStatusKeeps, OwnerKeeps DEF ReadStatus, WriteStatus,
     DropTransition
<1>6. CASE SetHosted  BY <1>1, <1>2, <1>6 DEF SetHosted
<1>7. CASE Sweep  BY <1>1, <1>7, SweepFloods DEF Sweep
<1>8. CASE Later  BY <1>0, <1>1, <1>8, FloodUndisturbed DEF Later
<1>9. ASSUME NEW v \in Visitors, Submit(v) \/ ReadPage(v) \/ CaptureLead(v) PROVE LandingInv'
  BY <1>2, <1>9, SubmitKeeps, SubmitFloods, ReadPageKeeps, CaptureLeadKeeps DEF ReadPage,
     CaptureLead
<1>10. LandingNext \/ UNCHANGED landingVars  OBVIOUS
<1> HIDE DEF LandingInv
<1>11. LandingNext => \/ \E n \in 1..Len(Archetypes), answer \in Answers : Generate(n, answer)
                      \/ \E w \in Owners : \/ \E q \in Requests_ : ReadStatus(w, q)
                                           \/ WriteStatus(w) \/ DropTransition(w)
                      \/ SetHosted \/ Sweep \/ Later
                      \/ \E v \in Visitors : Submit(v) \/ ReadPage(v) \/ CaptureLead(v)
  BY DEF LandingNext
<1> QED  BY <1>3, <1>4, <1>5, <1>6, <1>7, <1>8, <1>9, <1>10, <1>11

LEMMA LandingInvShows ==
  ASSUME LandingInv
  PROVE  /\ LandingTypeOK /\ LiveVersionWasChosen /\ LeadsNameAPublishedVersion
         /\ CandidatesFromPack /\ FloodCapped
<1>1. PageInv /\ FloodInv  BY DEF LandingInv
<1>2. page \in [status : Statuses \cup {"absent"}, current : Nat]  BY <1>1 DEF PageInv, PageShapes
<1>3. page.current \in DOMAIN versions_ \cup {0}  BY <1>1 DEF PageInv
<1>4. ToSet(leads) \subseteq DOMAIN versions_  BY <1>1 DEF PageInv, Shown, ToSet
<1>5. LandingTypeOK
  BY <1>1, <1>2, <1>3, <1>4, MovesAre DEF LandingTypeOK, PageInv, PageShapes, FloodInv
<1>6. LiveVersionWasChosen  BY <1>1 DEF LiveVersionWasChosen, PageInv, LivePage
<1>7. LeadsNameAPublishedVersion  BY <1>1 DEF LeadsNameAPublishedVersion, PageInv, Shown
<1>8. CandidatesFromPack  BY <1>1 DEF CandidatesFromPack, PageInv, PlanSound
<1> QED  BY <1>1, <1>5, <1>6, <1>7, <1>8 DEF FloodInv

(*************************************************************************)
(* Quotes and the rates they pin                                         *)
(*************************************************************************)

(* The engine's figures                                                      *)
LEMMA HalfEvenIsNat ==
  ASSUME NEW n \in Nat, NEW d \in {10, 100, 1000}
  PROVE  HalfEven(n, d) \in Nat
<1>1. CASE d = 10  BY <1>1 DEF HalfEven
<1>2. CASE d = 100  BY <1>2 DEF HalfEven
<1>3. CASE d = 1000  BY <1>3 DEF HalfEven
<1> QED  BY <1>1, <1>2, <1>3

(* A thousandth is rounded by half of one at most.                           *)
LEMMA HalfEvenNear ==
  ASSUME NEW n \in Nat
  PROVE  n - 500 <= HalfEven(n, 1000) * 1000 /\ HalfEven(n, 1000) * 1000 <= n + 500
  BY DEF HalfEven

LEMMA NatTimes ==
  ASSUME NEW a \in Nat, NEW b \in Nat
  PROVE  a * b \in Nat
  OBVIOUS

(* The discount stays within the ceiling, which the rounding is down to, and  *)
(* so within the subtotal.                                                    *)
LEMMA DiscountBounded ==
  ASSUME NEW asked \in Nat, NEW subtotal \in Nat
  PROVE  /\ Discount(asked, subtotal) \in Nat
         /\ Discount(asked, subtotal) * 100 <= subtotal * CeilingPct
         /\ Discount(asked, subtotal) <= subtotal
<1>1. CeilingPct \in Nat /\ CeilingPct <= 100  BY PricingAssumption
<1>2. PICK p : p = subtotal * CeilingPct  OBVIOUS
<1>3. p \in Nat  BY <1>1, <1>2, NatTimes
<1>4. p <= subtotal * 100  BY <1>1, <1>2, NatTimes
<1>5. PICK q, x : q = p \div 100 /\ x = Discount(asked, subtotal)  OBVIOUS
<1>6. q \in Nat /\ q * 100 <= p  BY <1>3, <1>5
<1>7. x = IF asked <= q THEN asked ELSE q  BY <1>2, <1>5 DEF Discount
<1>8. x \in Nat /\ x <= q  BY <1>6, <1>7
<1>9. x * 100 <= p  BY <1>3, <1>6, <1>8
<1>10. x <= subtotal  BY <1>3, <1>4, <1>8, <1>9
<1> QED  BY <1>2, <1>5, <1>8, <1>9, <1>10

Lines == [metal : Nat, making : Nat, subtotal : Nat, discount : Nat, cgst : Nat, sgst : Nat,
          total : Nat]

(* The figures of one quote, as BreakdownAddsUp asks for them.                *)
AddsUp(l) ==
  LET taxed == l.subtotal - l.discount
  IN  /\ l.discount * 100 <= l.subtotal * CeilingPct
      /\ taxed * 15 - 500 <= l.cgst * 1000 /\ l.cgst * 1000 <= taxed * 15 + 500
      /\ l.metal + l.making = l.subtotal /\ taxed + l.cgst + l.sgst = l.total

LEMMA ComputedSound ==
  ASSUME NEW w \in Nat, NEW rate \in Nat, NEW asked \in Nat, NEW l, l = Computed(w, rate, asked)
  PROVE  l \in Lines /\ AddsUp(l)
<1> DEFINE metal == HalfEven(w * rate, 10)
<1> DEFINE making == Larger(HalfEven(metal * MakingPct, 100), MakingMin)
<1> DEFINE subtotal == metal + making
<1> DEFINE discount == Discount(asked, subtotal)
<1> DEFINE tax == HalfEven((subtotal - discount) * 15, 1000)
<1>5. l = [metal |-> metal, making |-> making, subtotal |-> subtotal, discount |-> discount,
           cgst |-> tax, sgst |-> tax, total |-> subtotal - discount + tax + tax]
  BY DEF Computed
<1>6. MakingPct \in Nat /\ MakingMin \in Nat  BY PricingAssumption
<1>7. metal \in Nat  BY NatTimes, HalfEvenIsNat
<1> HIDE DEF metal
<1>8. making \in Nat  BY <1>6, <1>7, NatTimes, HalfEvenIsNat DEF Larger
<1> HIDE DEF making
<1>10. subtotal \in Nat /\ metal + making = subtotal  BY <1>7, <1>8
<1> HIDE DEF subtotal
<1>11. discount \in Nat /\ discount * 100 <= subtotal * CeilingPct /\ discount <= subtotal
  BY <1>10, DiscountBounded
<1> HIDE DEF discount
<1>12. (subtotal - discount) * 15 \in Nat  BY <1>10, <1>11
<1>13. tax \in Nat /\ (subtotal - discount) * 15 - 500 <= tax * 1000
       /\ tax * 1000 <= (subtotal - discount) * 15 + 500
  <2>1. PICK x : x = (subtotal - discount) * 15  OBVIOUS
  <2>2. x \in Nat /\ tax = HalfEven(x, 1000)  BY <1>12, <2>1
  <2>3. HalfEven(x, 1000) \in Nat  BY <2>2, HalfEvenIsNat
  <2>4. x - 500 <= HalfEven(x, 1000) * 1000 /\ HalfEven(x, 1000) * 1000 <= x + 500
    BY <2>2, HalfEvenNear
  <2> HIDE DEF tax
  <2> QED  BY <2>1, <2>2, <2>3, <2>4
<1> HIDE DEF tax
<1>14. subtotal - discount + tax + tax \in Nat  BY <1>10, <1>11, <1>13
<1>15. l \in Lines  BY <1>5, <1>7, <1>8, <1>10, <1>11, <1>13, <1>14 DEF Lines
<1>16. AddsUp(l)  BY <1>5, <1>10, <1>11, <1>13 DEF AddsUp
<1> QED  BY <1>15, <1>16

(* The gate finds each figure the customer is shown.                          *)
LEMMA LedgerHolds ==
  ASSUME NEW l \in Lines, NEW w
  PROVE  ({l[f] : f \in DOMAIN l} \ {0}) \cup {(((l.metal * 10) \div w) \div 100) * 100}
           \subseteq Ledgered(l, w)
<1>1. \A f \in DOMAIN l : l[f] \in Nat  BY DEF Lines
<1>2. \A f \in DOMAIN l : l[f] # 0 => l[f] > 0  BY <1>1
<1>3. PICK A : A = {f \in DOMAIN l : l[f] > 0}  OBVIOUS
<1>4. {l[f] : f \in DOMAIN l} \ {0} \subseteq {l[f] : f \in A}  BY <1>2, <1>3
<1>5. Ledgered(l, w) = {l[f] : f \in A} \cup {l.total, ShownRate(l, w)}  BY <1>3 DEF Ledgered
<1>6. ShownRate(l, w) = (((l.metal * 10) \div w) \div 100) * 100  BY DEF ShownRate
<1> QED  BY <1>4, <1>5, <1>6

Rate1 == [rate : RateSet, at : Nat, saw : Int]
Asking1 == [stage : {"idle", "inputs", "priced"}, weight : Nat, discount : Nat, snap : Nat, at : Nat,
            dirty : BOOLEAN]
Quote1 == [weight : Weights, discount : Nat, snap : Nat, lines : Lines, until : Nat,
           ledger : SUBSET Nat, stale : BOOLEAN, excused : BOOLEAN]
PriceShapes ==
  /\ weight \in Weights /\ hour \in 0..LastHour /\ snapshots \in Seq(Rate1)
  /\ quotes \in Seq(Quote1) /\ asking \in Asking1
  /\ editing \in [Editors -> Weights \cup {NotEditing}]
  /\ fetched \in [rate : Nat, saw : Nat]
  /\ Len(quotes) <= MaxQuotes /\ Len(snapshots) <= MaxSnapshots

(* A quote's figures are those of what it pinned, and if its weight is not    *)
(* the item's somebody has marked it.                                        *)
QuoteTrue(q) ==
  /\ q.snap \in DOMAIN snapshots
  /\ q.lines = Computed(q.weight, snapshots[q.snap].rate, q.discount)
  /\ q.ledger = Ledgered(q.lines, q.weight)
QuoteMarked(q) == OpenQuote(q) /\ q.weight # weight => q.stale \/ q.excused

PricingInv ==
  /\ PriceShapes
  /\ \A i \in DOMAIN quotes : QuoteTrue(quotes[i]) /\ QuoteMarked(quotes[i])
  /\ asking.stage # "idle" =>
       /\ asking.weight \in Weights /\ Len(quotes) < MaxQuotes
       /\ asking.weight = weight \/ asking.dirty
  /\ asking.stage = "priced" => asking.snap \in DOMAIN snapshots
  /\ (fetched = NotFetching \/ fetched.rate \in RateSet) /\ fetched.saw <= Len(snapshots)
  /\ fetched.saw \in DOMAIN snapshots => InBounds(snapshots[fetched.saw].rate, fetched.rate)
  /\ \A i \in 2..Len(snapshots) :
       snapshots[i].saw = i - 1 => InBounds(snapshots[i - 1].rate, snapshots[i].rate)

LEMMA PricingStarts == PricingInit => PricingInv
<1> SUFFICES ASSUME PricingInit PROVE PricingInv  OBVIOUS
<1>1. /\ snapshots = << >> /\ quotes = << >> /\ hour = 0 /\ weight \in Weights
      /\ asking = NotAsking /\ fetched = NotFetching /\ editing = [e \in Editors |-> NotEditing]
  BY DEF PricingInit
<1>2. /\ Len(snapshots) = 0 /\ DOMAIN snapshots = {} /\ Len(quotes) = 0 /\ DOMAIN quotes = {}
      /\ snapshots \in Seq(Rate1) /\ quotes \in Seq(Quote1)
  BY <1>1
<1>3. MaxQuotes \in Nat /\ MaxSnapshots \in Nat /\ LastHour \in Nat  BY PricingAssumption
<1>4. asking \in Asking1 /\ asking.stage = "idle"  BY <1>1 DEF NotAsking, Asking1
<1>5. fetched \in [rate : Nat, saw : Nat] /\ fetched.saw = 0  BY <1>1 DEF NotFetching
<1>6. editing \in [Editors -> Weights \cup {NotEditing}]  BY <1>1
<1>7. 0 \in 0..LastHour /\ 0 <= MaxQuotes /\ 0 <= MaxSnapshots /\ 2..0 = {}  BY <1>3
<1> QED  BY <1>1, <1>2, <1>4, <1>5, <1>6, <1>7 DEF PricingInv, PriceShapes

(* A rate is stored behind the others.                                       *)
LEMMA SnapshotKeeps ==
  ASSUME PricingInv, NEW rate \in RateSet, NEW saw \in Int, NEW f \in [rate : Nat, saw : Nat],
         snapshots' = Append(snapshots, Snapshot(rate, saw)), fetched' = f, Latest_ < MaxSnapshots,
         saw = Latest_ /\ saw \in DOMAIN snapshots => InBounds(snapshots[Latest_].rate, rate),
         f = NotFetching \/ f = fetched,
         UNCHANGED <<weight, quotes, asking, editing, hour>>
  PROVE  PricingInv'
<1>1. PriceShapes  BY DEF PricingInv
<1>2. PICK L : L = Len(snapshots)  OBVIOUS
<1>3. PICK x : x = Snapshot(rate, saw)  OBVIOUS
<1>4. hour \in Nat /\ MaxSnapshots \in Nat /\ L < MaxSnapshots
  BY <1>1, <1>2, PricingAssumption DEF PriceShapes, Latest_
<1>5. x \in Rate1 /\ x.rate = rate /\ x.saw = saw  BY <1>3, <1>4 DEF Snapshot, Rate1
<1>6. snapshots \in Seq(Rate1)  BY <1>1 DEF PriceShapes
<1>7. PICK R : R = Rate1  OBVIOUS
<1>8. L \in Nat /\ DOMAIN snapshots = 1..L /\ snapshots' = Append(snapshots, x)  BY <1>2, <1>3, <1>6
<1>9. /\ snapshots' \in Seq(R) /\ Len(snapshots') = L + 1 /\ DOMAIN snapshots' = 1..(L + 1)
      /\ snapshots'[L + 1] = x /\ \A i \in 1..L : snapshots'[i] = snapshots[i]
  BY <1>2, <1>5, <1>6, <1>7, <1>8
<1>10. \A i \in 1..L : i \in DOMAIN snapshots'  BY <1>8, <1>9
<1>11. PriceShapes'  BY <1>1, <1>4, <1>7, <1>8, <1>9 DEF PriceShapes
<1>12. \A q : QuoteTrue(q) => QuoteTrue(q)'  BY <1>8, <1>9, <1>10 DEF QuoteTrue
<1>13. \A q : QuoteMarked(q) => QuoteMarked(q)'  BY DEF QuoteMarked, OpenQuote
<1>14. \A i \in DOMAIN quotes' : \E q : q = quotes'[i] /\ QuoteTrue(q)' /\ QuoteMarked(q)'
  BY <1>12, <1>13 DEF PricingInv
<1>15. \A i \in DOMAIN quotes' : (QuoteTrue(quotes[i]) /\ QuoteMarked(quotes[i]))'
  BY <1>14 DEF QuoteTrue, QuoteMarked, OpenQuote
<1>16. /\ (fetched' = NotFetching \/ fetched'.rate \in RateSet) /\ fetched'.saw <= Len(snapshots')
       /\ fetched'.saw \in DOMAIN snapshots'
            => InBounds(snapshots'[fetched'.saw].rate, fetched'.rate)
  BY <1>2, <1>8, <1>9 DEF NotFetching, PricingInv
<1>17. \A i \in 2..Len(snapshots') :
         snapshots'[i].saw = i - 1 => InBounds(snapshots'[i - 1].rate, snapshots'[i].rate)
  BY <1>2, <1>5, <1>8, <1>9 DEF Latest_, PricingInv
<1>18. /\ asking'.stage # "idle" =>
             /\ asking'.weight \in Weights /\ Len(quotes') < MaxQuotes
             /\ asking'.weight = weight' \/ asking'.dirty
       /\ asking'.stage = "priced" => asking'.snap \in DOMAIN snapshots'
  BY <1>8, <1>10 DEF PricingInv
<1> QED  BY <1>11, <1>15, <1>16, <1>17, <1>18 DEF PricingInv

(* The quotes and the rates stay.                                            *)
LEMMA PricingUndisturbed ==
  ASSUME PricingInv, PriceShapes', hour <= hour',
         UNCHANGED <<weight, quotes, snapshots>>,
         asking'.stage # "idle" =>
           /\ asking'.weight \in Weights /\ Len(quotes) < MaxQuotes
           /\ (asking'.weight = weight \/ asking'.dirty),
         asking'.stage = "priced" => asking'.snap \in DOMAIN snapshots,
         fetched' = NotFetching \/ fetched'.rate \in RateSet,
         fetched'.saw <= Len(snapshots),
         fetched'.saw \in DOMAIN snapshots => InBounds(snapshots[fetched'.saw].rate, fetched'.rate)
  PROVE  PricingInv'
<1>1. hour \in Nat /\ hour' \in Nat /\ \A i \in DOMAIN quotes : quotes[i].until \in Nat
  <2>1. LastHour \in Nat  BY PricingAssumption
  <2>2. quotes \in Seq(Quote1) /\ hour \in 0..LastHour  BY DEF PricingInv, PriceShapes
  <2>3. hour' \in 0..LastHour  BY DEF PriceShapes
  <2>4. \A i \in DOMAIN quotes : quotes[i] \in Quote1  BY <2>2
  <2> QED  BY <2>1, <2>2, <2>3, <2>4 DEF Quote1
<1>2. \A i \in DOMAIN quotes' : (QuoteTrue(quotes[i]) /\ QuoteMarked(quotes[i]))'
  BY <1>1 DEF PricingInv, QuoteTrue, QuoteMarked, OpenQuote
<1>3. \A i \in 2..Len(snapshots') :
         snapshots'[i].saw = i - 1 => InBounds(snapshots'[i - 1].rate, snapshots'[i].rate)
  BY DEF PricingInv
<1> QED  BY <1>2, <1>3 DEF PricingInv

LEMMA FetchRateKeeps ==
  ASSUME PricingInv, NEW rate \in RateSet, FetchRate(rate)
  PROVE  PricingInv'
<1>1. PICK L : L = Len(snapshots)  OBVIOUS
<1>2. L \in Nat /\ DOMAIN snapshots = 1..L  BY <1>1 DEF PricingInv, PriceShapes
<1>3. /\ fetched' = [rate |-> rate, saw |-> L] /\ UNCHANGED <<weight, snapshots, quotes, asking, editing, hour>>
      /\ (L > 0 => InBounds(snapshots[L].rate, rate))
  BY <1>1 DEF FetchRate, Latest_
<1>4. rate \in Nat  BY PricingAssumption
<1>5. fetched' \in [rate : Nat, saw : Nat] /\ fetched'.rate = rate /\ fetched'.saw = L  BY <1>2, <1>3, <1>4
<1>6. PriceShapes'  BY <1>3, <1>5 DEF PricingInv, PriceShapes
<1>7. hour <= hour'  BY <1>3, PricingAssumption DEF PricingInv, PriceShapes
<1>8. fetched'.saw \in DOMAIN snapshots => InBounds(snapshots[fetched'.saw].rate, fetched'.rate)
  BY <1>2, <1>3, <1>5
<1>9. fetched'.saw <= Len(snapshots)  BY <1>1, <1>2, <1>5
<1>10. /\ asking'.stage # "idle" =>
             /\ asking'.weight \in Weights /\ Len(quotes) < MaxQuotes
             /\ (asking'.weight = weight \/ asking'.dirty)
       /\ asking'.stage = "priced" => asking'.snap \in DOMAIN snapshots
  BY <1>3 DEF PricingInv
<1>11. UNCHANGED <<weight, quotes, snapshots>> /\ fetched'.rate \in RateSet  BY <1>3, <1>5
<1> QED  BY <1>6, <1>7, <1>8, <1>9, <1>10, <1>11, PricingUndisturbed

LEMMA StoreRateKeeps ==
  ASSUME PricingInv, StoreRate
  PROVE  PricingInv'
<1>1. /\ fetched # NotFetching /\ Latest_ < MaxSnapshots /\ fetched' = NotFetching
      /\ snapshots' = Append(snapshots, Snapshot(fetched.rate, fetched.saw))
      /\ UNCHANGED <<weight, quotes, asking, editing, hour>>
  BY DEF StoreRate
<1>2. PICK rate, saw : rate = fetched.rate /\ saw = fetched.saw  OBVIOUS
<1>3. rate \in RateSet /\ saw \in Int  BY <1>1, <1>2 DEF PricingInv, PriceShapes
<1>4. NotFetching \in [rate : Nat, saw : Nat]  BY DEF NotFetching
<1>5. saw = Latest_ /\ saw \in DOMAIN snapshots => InBounds(snapshots[Latest_].rate, rate)
  BY <1>2 DEF PricingInv
<1> QED  BY <1>1, <1>2, <1>3, <1>4, <1>5, SnapshotKeeps

LEMMA ManualRateKeeps ==
  ASSUME PricingInv, NEW rate \in RateSet, ManualRate(rate)
  PROVE  PricingInv'
<1>1. PICK saw : saw = -1  OBVIOUS
<1>2. /\ Latest_ < MaxSnapshots /\ fetched' = fetched
      /\ snapshots' = Append(snapshots, Snapshot(rate, saw))
      /\ UNCHANGED <<weight, quotes, asking, editing, hour>>
  BY <1>1 DEF ManualRate
<1>3. saw \in Int /\ saw \notin DOMAIN snapshots  BY <1>1 DEF PricingInv, PriceShapes
<1>4. fetched \in [rate : Nat, saw : Nat]  BY DEF PricingInv, PriceShapes
<1> QED  BY <1>2, <1>3, <1>4, SnapshotKeeps

(* A step of the quote being computed                                        *)
LEMMA AskingKeeps ==
  ASSUME PricingInv, asking' \in Asking1, UNCHANGED <<weight, snapshots, quotes, editing, fetched, hour>>,
         asking'.stage # "idle" =>
           /\ asking'.weight \in Weights /\ Len(quotes) < MaxQuotes
           /\ (asking'.weight = weight \/ asking'.dirty),
         asking'.stage = "priced" => asking'.snap \in DOMAIN snapshots
  PROVE  PricingInv'
<1>1. PriceShapes'  BY DEF PricingInv, PriceShapes
<1>2. hour <= hour'  BY PricingAssumption DEF PricingInv, PriceShapes
<1>3. /\ fetched' = NotFetching \/ fetched'.rate \in RateSet
      /\ fetched'.saw <= Len(snapshots)
      /\ fetched'.saw \in DOMAIN snapshots => InBounds(snapshots[fetched'.saw].rate, fetched'.rate)
  BY DEF PricingInv
<1> QED  BY <1>1, <1>2, <1>3, PricingUndisturbed

LEMMA LookUpKeeps ==
  ASSUME PricingInv, NEW d \in Discounts, LookUp(d)
  PROVE  PricingInv'
<1>1. /\ Len(quotes) < MaxQuotes /\ UNCHANGED <<weight, snapshots, quotes, editing, fetched, hour>>
      /\ asking' = [NotAsking EXCEPT !.stage = "inputs", !.weight = weight, !.discount = d]
  BY DEF LookUp
<1>2. weight \in Weights /\ weight \in Nat /\ d \in Nat
  BY PricingAssumption DEF PricingInv, PriceShapes
<1>3. asking' \in Asking1 /\ asking'.stage = "inputs" /\ asking'.weight = weight
  BY <1>1, <1>2 DEF NotAsking, Asking1
<1> QED  BY <1>1, <1>2, <1>3, AskingKeeps

LEMMA PriceKeeps ==
  ASSUME PricingInv, Price
  PROVE  PricingInv'
<1>1. PICK L, h : L = Latest_ /\ h = hour  OBVIOUS
<1>2. /\ L > 0 /\ asking.stage = "inputs" /\ UNCHANGED <<weight, snapshots, quotes, editing, fetched, hour>>
      /\ asking' = [asking EXCEPT !.stage = "priced", !.snap = L, !.at = h]
  BY <1>1 DEF Price
<1>3. L \in Nat /\ L \in DOMAIN snapshots /\ h \in Nat
  BY SMTT(30), <1>1, <1>2, PricingAssumption DEF PricingInv, PriceShapes, Latest_
<1>4. asking \in Asking1  BY DEF PricingInv, PriceShapes
<1>5. /\ asking' \in Asking1 /\ asking'.stage = "priced" /\ asking'.weight = asking.weight
      /\ asking'.dirty = asking.dirty /\ asking'.snap = L
  BY <1>2, <1>3, <1>4 DEF Asking1
<1>6. /\ asking.weight \in Weights /\ Len(quotes) < MaxQuotes
      /\ (asking.weight = weight \/ asking.dirty)
  BY <1>2 DEF PricingInv
<1> QED  BY <1>2, <1>3, <1>5, <1>6, AskingKeeps

LEMMA NoAskingIdle == NotAsking \in Asking1 /\ NotAsking.stage = "idle"
  BY DEF NotAsking, Asking1

LEMMA RefuseQuoteKeeps ==
  ASSUME PricingInv, RefuseQuote
  PROVE  PricingInv'
  BY NoAskingIdle, AskingKeeps DEF RefuseQuote

LEMMA StoreQuoteKeeps ==
  ASSUME PricingInv, NEW hours \in Validities, StoreQuote(hours)
  PROVE  PricingInv'
<1>1. PICK rate, w, o : rate = snapshots[asking.snap].rate /\ w = asking.weight /\ o = asking.discount
  OBVIOUS
<1>2. PICK l : l = Computed(w, rate, o)  OBVIOUS
<1>3. PICK g : g = Ledgered(l, w)  OBVIOUS
<1>4. PICK t, n, b : t = asking.at + hours /\ n = asking.snap /\ b = asking.dirty  OBVIOUS
<1>5. PICK q : q = [weight |-> w, discount |-> o, snap |-> n, lines |-> l, until |-> t, ledger |-> g,
                    stale |-> FALSE, excused |-> b]
  OBVIOUS
<1>6. /\ asking.stage = "priced" /\ asking' = NotAsking /\ quotes' = Append(quotes, q)
      /\ UNCHANGED <<weight, snapshots, editing, fetched, hour>>
  BY <1>1, <1>2, <1>3, <1>4, <1>5 DEF StoreQuote
<1>7. /\ w \in Weights /\ Len(quotes) < MaxQuotes /\ (w = weight \/ b) /\ n \in DOMAIN snapshots
  BY <1>1, <1>4, <1>6 DEF PricingInv
<1>8. asking \in Asking1  BY DEF PricingInv, PriceShapes
<1>9. w \in Nat /\ o \in Nat /\ n \in Nat /\ b \in BOOLEAN /\ asking.at \in Nat
  BY <1>1, <1>4, <1>8 DEF Asking1
<1>10. t \in Nat  BY <1>4, <1>9, PricingAssumption
<1>11. rate \in RateSet /\ rate \in Nat
  <2>1. snapshots \in Seq(Rate1) /\ n \in DOMAIN snapshots  BY <1>7 DEF PricingInv, PriceShapes
  <2>2. snapshots[n] \in Rate1  BY <2>1
  <2>3. rate \in RateSet  BY <1>1, <1>4, <2>2 DEF Rate1
  <2> QED  BY <2>3, PricingAssumption
<1>12. l \in Lines  BY <1>2, <1>9, <1>11, ComputedSound
<1>13. g \in SUBSET Nat
  <2>1. DOMAIN l = {"metal", "making", "subtotal", "discount", "cgst", "sgst", "total"}
        /\ l.total \in Nat /\ l.subtotal \in Nat
        /\ l.metal \in Nat /\ l.making \in Nat /\ l.discount \in Nat /\ l.cgst \in Nat /\ l.sgst \in Nat
    BY <1>12 DEF Lines
  <2>2. \A f \in DOMAIN l : l[f] \in Nat  BY <2>1
  <2>3. ShownRate(l, w) \in Nat
    <3>1. w \in Nat \ {0}  BY <1>7, PricingAssumption
    <3>2. l.metal * 10 \in Nat  BY <2>1
    <3>3. PICK a : a = l.metal * 10  OBVIOUS
    <3>4. a \div w \in Nat  BY <3>1, <3>2, <3>3
    <3>5. PICK c : c = a \div w  OBVIOUS
    <3>6. (c \div 100) * 100 \in Nat  BY <3>4, <3>5
    <3> QED  BY <3>3, <3>5, <3>6 DEF ShownRate
  <2> QED  BY <1>3, <2>1, <2>2, <2>3 DEF Ledgered
<1>14. /\ q \in Quote1 /\ q.weight = w /\ q.snap = n /\ q.lines = l /\ q.discount = o /\ q.ledger = g
       /\ q.excused = b
  BY <1>5, <1>7, <1>9, <1>10, <1>12, <1>13 DEF Quote1
<1>15. PICK L, S : L = Len(quotes) /\ S = Quote1  OBVIOUS
<1>16. quotes \in Seq(S) /\ L \in Nat /\ DOMAIN quotes = 1..L  BY <1>15 DEF PricingInv, PriceShapes
<1>17. /\ quotes' \in Seq(S) /\ Len(quotes') = L + 1 /\ DOMAIN quotes' = 1..(L + 1)
       /\ quotes'[L + 1] = q /\ \A i \in 1..L : quotes'[i] = quotes[i]
  BY <1>6, <1>14, <1>15, <1>16
<1>18. Len(quotes') <= MaxQuotes  BY <1>7, <1>15, <1>16, <1>17, PricingAssumption
<1>19. PriceShapes'
  BY <1>6, <1>15, <1>17, <1>18, NoAskingIdle DEF PricingInv, PriceShapes
<1>20. QuoteTrue(q)' /\ QuoteMarked(q)'
  BY <1>1, <1>2, <1>3, <1>4, <1>6, <1>7, <1>14 DEF QuoteTrue, QuoteMarked, OpenQuote
<1>21. \A i \in 1..(L + 1) : i = L + 1 \/ i \in 1..L  BY <1>16
<1>22. \A i \in 1..L : (QuoteTrue(quotes[i]) /\ QuoteMarked(quotes[i]))'
  BY <1>6, <1>16, <1>17 DEF PricingInv, QuoteTrue, QuoteMarked, OpenQuote
<1>23. (QuoteTrue(quotes[L + 1]) /\ QuoteMarked(quotes[L + 1]))'
  BY <1>17, <1>20 DEF QuoteTrue, QuoteMarked, OpenQuote
<1>24. \A i \in DOMAIN quotes' : (QuoteTrue(quotes[i]) /\ QuoteMarked(quotes[i]))'
  BY <1>17, <1>21, <1>22, <1>23
<1> QED  BY <1>6, <1>19, <1>24, NoAskingIdle DEF PricingInv

LEMMA ReadInputKeeps ==
  ASSUME PricingInv, NEW e \in Editors, ReadInput(e)
  PROVE  PricingInv'
<1>1. PICK r : r = weight  OBVIOUS
<1>2. editing' = [editing EXCEPT ![e] = r] /\ UNCHANGED <<weight, snapshots, quotes, asking, fetched, hour>>
  BY <1>1 DEF ReadInput
<1>3. r \in Weights  BY <1>1 DEF PricingInv, PriceShapes
<1>4. PriceShapes'  BY <1>2, <1>3 DEF PricingInv, PriceShapes
<1>5. hour \in Nat  BY PricingAssumption DEF PricingInv, PriceShapes
<1> QED  BY <1>2, <1>4, <1>5, PricingUndisturbed DEF PricingInv

LEMMA HourKeeps ==
  ASSUME PricingInv, Hour
  PROVE  PricingInv'
<1>1. hour < LastHour /\ hour' = hour + 1 /\ UNCHANGED <<weight, snapshots, quotes, asking, editing, fetched>>
  BY DEF Hour
<1>2. hour \in 0..LastHour /\ LastHour \in Nat  BY PricingAssumption DEF PricingInv, PriceShapes
<1>3. hour' \in 0..LastHour /\ hour <= hour'  BY <1>1, <1>2
<1>4. PriceShapes'  BY <1>1, <1>3 DEF PricingInv, PriceShapes
<1> QED  BY <1>1, <1>3, <1>4, PricingUndisturbed DEF PricingInv

(* A patch marks every open quote whose weight it makes another.             *)
LEMMA PatchInputKeeps ==
  ASSUME PricingInv, NEW e \in Editors, NEW new \in Weights, PatchInput(e, new)
  PROVE  PricingInv'
<1>1. PICK read, was : read = editing[e] /\ was = weight  OBVIOUS
<1>2. /\ weight' = new /\ UNCHANGED <<snapshots, fetched, hour>>
      /\ quotes' = [i \in DOMAIN quotes |->
                      [quotes[i] EXCEPT !.stale = @ \/ ToFlag(read, new, quotes[i]),
                                        !.excused = @ \/ read # was]]
      /\ asking' = [asking EXCEPT !.dirty = @ \/ (asking.stage # "idle" /\ new # was)]
      /\ editing' = [editing EXCEPT ![e] = NotEditing]
  BY <1>1 DEF PatchInput
<1>3. quotes \in Seq(Quote1) /\ DOMAIN quotes = 1..Len(quotes) /\ Len(quotes) \in Nat
  BY DEF PricingInv, PriceShapes
<1>4. ASSUME NEW i \in DOMAIN quotes
      PROVE  /\ quotes'[i] \in Quote1
             /\ quotes'[i].weight = quotes[i].weight /\ quotes'[i].snap = quotes[i].snap
             /\ quotes'[i].lines = quotes[i].lines /\ quotes'[i].discount = quotes[i].discount
             /\ quotes'[i].ledger = quotes[i].ledger /\ quotes'[i].until = quotes[i].until
             /\ (quotes'[i].stale <=> quotes[i].stale \/ ToFlag(read, new, quotes[i]))
             /\ (quotes'[i].excused <=> quotes[i].excused \/ read # was)
  <2>1. PICK q : q = quotes[i]  OBVIOUS
  <2>2. q \in Quote1  BY <1>3, <2>1
  <2>3. PICK s, x : s = (q.stale \/ ToFlag(read, new, q)) /\ x = (q.excused \/ read # was)  OBVIOUS
  <2>4. s \in BOOLEAN /\ x \in BOOLEAN  BY <2>3
  <2>5. quotes'[i] = [q EXCEPT !.stale = s, !.excused = x]  BY <1>2, <2>1, <2>3
  <2>6. PICK p : p = [q EXCEPT !.stale = s, !.excused = x]  OBVIOUS
  <2>7. /\ p \in Quote1 /\ p.weight = q.weight /\ p.snap = q.snap /\ p.lines = q.lines
        /\ p.discount = q.discount /\ p.ledger = q.ledger /\ p.until = q.until
        /\ p.stale = s /\ p.excused = x
    BY <2>2, <2>4, <2>6 DEF Quote1
  <2> QED  BY Zenon, <2>1, <2>3, <2>5, <2>6, <2>7
<1>5. quotes' \in Seq(Quote1) /\ DOMAIN quotes' = DOMAIN quotes /\ Len(quotes') = Len(quotes)
  <2>1. PICK S, L : S = Quote1 /\ L = Len(quotes)  OBVIOUS
  <2>2. \A i \in 1..L : quotes'[i] \in S  BY <1>3, <1>4, <2>1
  <2>3. DOMAIN quotes' = 1..L /\ quotes' = [i \in 1..L |-> quotes'[i]]  BY <1>2, <1>3, <2>1
  <2>4. quotes' \in [1..L -> S]  BY <2>2, <2>3
  <2>5. L \in Nat  BY <1>3, <2>1
  <2> QED  BY <1>3, <2>1, <2>3, <2>4, <2>5
<1>6. asking \in Asking1  BY DEF PricingInv, PriceShapes
<1>7. PICK b : b = (asking.dirty \/ (asking.stage # "idle" /\ new # was))  OBVIOUS
<1>8. b \in BOOLEAN  BY <1>6, <1>7 DEF Asking1
<1>9. /\ asking' \in Asking1 /\ asking'.stage = asking.stage /\ asking'.weight = asking.weight
      /\ asking'.snap = asking.snap /\ asking'.dirty = b
  BY <1>2, <1>6, <1>7, <1>8 DEF Asking1
<1>10. editing' \in [Editors -> Weights \cup {NotEditing}]  BY <1>2 DEF PricingInv, PriceShapes
<1>11. PriceShapes'  BY <1>2, <1>5, <1>9, <1>10 DEF PricingInv, PriceShapes
<1>12. ASSUME NEW i \in DOMAIN quotes PROVE (QuoteTrue(quotes[i]) /\ QuoteMarked(quotes[i]))'
  <2>1. QuoteTrue(quotes[i]) /\ QuoteMarked(quotes[i])  BY DEF PricingInv
  <2>2. QuoteTrue(quotes[i])'  BY <1>2, <1>4, <2>1 DEF QuoteTrue
  <2>3. QuoteMarked(quotes[i])'  BY <1>1, <1>2, <1>4, <2>1 DEF QuoteMarked, OpenQuote, ToFlag
  <2> QED  BY <2>2, <2>3
<1>13. asking'.stage # "idle" =>
         /\ asking'.weight \in Weights /\ Len(quotes') < MaxQuotes
         /\ asking'.weight = weight' \/ asking'.dirty
  BY <1>1, <1>2, <1>5, <1>7, <1>9 DEF PricingInv
<1>14. asking'.stage = "priced" => asking'.snap \in DOMAIN snapshots'  BY <1>2, <1>9 DEF PricingInv
<1>15. \A i \in DOMAIN quotes' : (QuoteTrue(quotes[i]) /\ QuoteMarked(quotes[i]))'
  BY <1>5, <1>12
<1>16. /\ (fetched' = NotFetching \/ fetched'.rate \in RateSet) /\ fetched'.saw <= Len(snapshots')
       /\ (fetched'.saw \in DOMAIN snapshots'
             => InBounds(snapshots'[fetched'.saw].rate, fetched'.rate))
       /\ \A i \in 2..Len(snapshots') :
            snapshots'[i].saw = i - 1 => InBounds(snapshots'[i - 1].rate, snapshots'[i].rate)
  BY <1>2 DEF PricingInv
<1> QED  BY <1>11, <1>13, <1>14, <1>15, <1>16 DEF PricingInv

LEMMA PricingSteps == PricingInv /\ [PricingNext]_pricingVars => PricingInv'
<1> SUFFICES ASSUME PricingInv, [PricingNext]_pricingVars PROVE PricingInv'  OBVIOUS
<1>1. CASE UNCHANGED pricingVars
  BY <1>1 DEF pricingVars, PricingInv, PriceShapes, QuoteTrue, QuoteMarked, OpenQuote
<1>2. ASSUME NEW rate \in RateSet, FetchRate(rate) \/ ManualRate(rate) PROVE PricingInv'
  BY <1>2, FetchRateKeeps, ManualRateKeeps
<1>3. ASSUME NEW e \in Editors, ReadInput(e) \/ \E new \in Weights : PatchInput(e, new) PROVE PricingInv'
  BY <1>3, ReadInputKeeps, PatchInputKeeps
<1> QED  BY <1>1, <1>2, <1>3, StoreRateKeeps, PriceKeeps, RefuseQuoteKeeps, HourKeeps, LookUpKeeps,
            StoreQuoteKeeps
         DEF PricingNext

LEMMA PricingInvShows ==
  ASSUME PricingInv
  PROVE  /\ PricingTypeOK /\ StaleQuotesFlagged /\ BreakdownPassesGate /\ BreakdownAddsUp
         /\ ReplayMatches /\ JumpsAccounted
<1>1. PriceShapes /\ \A i \in DOMAIN quotes : QuoteTrue(quotes[i]) /\ QuoteMarked(quotes[i])
  BY DEF PricingInv
<1>2. PricingTypeOK  BY <1>1 DEF PricingTypeOK, PriceShapes, Asking1
<1>3. StaleQuotesFlagged  BY <1>1 DEF StaleQuotesFlagged, QuoteMarked
<1>4. ReplayMatches  BY <1>1 DEF ReplayMatches, Replayed, Pinned, QuoteTrue
<1>5. BreakdownPassesGate
  <2> SUFFICES ASSUME NEW i \in DOMAIN quotes
               PROVE  ({quotes[i].lines[l] : l \in DOMAIN quotes[i].lines} \ {0})
                        \cup {(((quotes[i].lines.metal * 10) \div quotes[i].weight) \div 100) * 100}
                        \subseteq quotes[i].ledger
    BY DEF BreakdownPassesGate
  <2>1. quotes[i] \in Quote1  BY <1>1 DEF PriceShapes
  <2>2. PICK l, w : l = quotes[i].lines /\ w = quotes[i].weight  OBVIOUS
  <2>3. l \in Lines  BY <2>1, <2>2 DEF Quote1
  <2>4. quotes[i].ledger = Ledgered(l, w)  BY <1>1, <2>2 DEF QuoteTrue
  <2>5. ({l[f] : f \in DOMAIN l} \ {0}) \cup {(((l.metal * 10) \div w) \div 100) * 100}
          \subseteq Ledgered(l, w)
    BY <2>3, LedgerHolds
  <2> QED  BY <2>2, <2>4, <2>5
<1>6. BreakdownAddsUp
  <2> SUFFICES ASSUME NEW i \in DOMAIN quotes, NEW l, l = quotes[i].lines
               PROVE  AddsUp(l)
    BY DEF BreakdownAddsUp, AddsUp
  <2>1. quotes[i] \in Quote1 /\ QuoteTrue(quotes[i])  BY <1>1 DEF PriceShapes
  <2>2. PICK w, o, rate : w = quotes[i].weight /\ o = quotes[i].discount
                          /\ rate = snapshots[quotes[i].snap].rate
    OBVIOUS
  <2>3. w \in Nat /\ o \in Nat  BY <2>1, <2>2, PricingAssumption DEF Quote1
  <2>4. rate \in Nat
    <3>1. snapshots \in Seq(Rate1) /\ quotes[i].snap \in DOMAIN snapshots
      BY <1>1, <2>1 DEF PriceShapes, QuoteTrue
    <3>2. snapshots[quotes[i].snap] \in Rate1  BY <3>1
    <3> QED  BY <2>2, <3>2, PricingAssumption DEF Rate1
  <2>5. l = Computed(w, rate, o)  BY <2>1, <2>2 DEF QuoteTrue
  <2> QED  BY <2>3, <2>4, <2>5, ComputedSound
<1>7. JumpsAccounted
  <2> SUFFICES ASSUME NEW i \in 2..Len(snapshots), snapshots[i].saw = i - 1,
                      NEW a, a = snapshots[i - 1].rate, NEW b, b = snapshots[i].rate
               PROVE  100 * (IF a > b THEN a - b ELSE b - a) <= MaxStepPct * a
    BY DEF JumpsAccounted
  <2>1. InBounds(a, b)  BY DEF PricingInv
  <2>2. a \in Nat /\ b \in Nat
    <3>1. snapshots \in Seq(Rate1) /\ Len(snapshots) \in Nat  BY <1>1 DEF PriceShapes
    <3>2. i \in 1..Len(snapshots) /\ i - 1 \in 1..Len(snapshots)  BY <3>1
    <3>3. snapshots[i] \in Rate1 /\ snapshots[i - 1] \in Rate1  BY <3>1, <3>2
    <3> QED  BY <3>3, PricingAssumption DEF Rate1
  <2>3. PICK m : m = MaxStepPct * a  OBVIOUS
  <2>4. m \in Nat  BY <2>2, <2>3, PricingAssumption, NatTimes
  <2>5. (b - a) * 100 <= m /\ (a - b) * 100 <= m  BY <2>1, <2>3 DEF InBounds
  <2>6. 100 * (IF a > b THEN a - b ELSE b - a) <= m
    <3>1. 100 * (a - b) = (a - b) * 100 /\ 100 * (b - a) = (b - a) * 100  BY <2>2
    <3>2. CASE a > b  BY <2>5, <3>1, <3>2
    <3>3. CASE ~(a > b)  BY <2>5, <3>1, <3>3
    <3> QED  BY <3>2, <3>3
  <2> QED  BY <2>3, <2>6
<1> QED  BY <1>2, <1>3, <1>4, <1>5, <1>6, <1>7

(*************************************************************************)
(* Tickets, the store's chain and the operators' log                     *)
(*************************************************************************)

Values_ == {"open", "normal", "none"} \cup UNION {{patch[f] : f \in DOMAIN patch} : patch \in Patches}
Row1 == [org : Tenants, status : Values_, priority : Values_, note : Values_, by : SUBSET Operators]
Entry1 == [ticket : Nat, by : Operators, changes : Patches]
NewRow(s) == [org |-> s, status |-> "open", priority |-> "normal", note |-> "none", by |-> {}]

(* What each entry of a chain makes of a ticket's row                        *)
Replay(rows, new, log, t) ==
  /\ rows[0] = new
  /\ \A n \in 1..Len(log) : rows[n] = ToldBy(rows[n - 1], log[n], t)
Tells(row, log, t) == \E rows : Replay(rows, NewRow(row.org), log, t) /\ row = rows[Len(log)]
Closing(log, t) == {k \in DOMAIN log : log[k].ticket = t /\ "status" \in DOMAIN log[k].changes}
Resolved(row, log, t) ==
  row.by = {log[k].by : k \in {k \in Closing(log, t) : /\ row.status \in ClosedStates
                                                     /\ \A l \in Closing(log, t) : l <= k}}

LEMMA PatchedRow ==
  ASSUME NEW row \in Row1, NEW patch \in Patches, NEW o \in Operators, NEW p, p = Patched(row, patch, o)
  PROVE  /\ p \in Row1 /\ p.org = row.org
         /\ p.by = Resolver(row, patch, o)
         /\ p.status = IF "status" \in DOMAIN patch THEN patch.status ELSE row.status
<1>1. /\ DOMAIN patch \subseteq {"status", "priority", "note"}
      /\ \A f \in DOMAIN patch : patch[f] \in Values_
  BY SupportAssumption DEF Values_
<1>2. DOMAIN row = {"org", "status", "priority", "note", "by"}  BY DEF Row1
<1>3. p = [f \in {"org", "status", "priority", "note", "by"} |->
             IF f = "by" THEN Resolver(row, patch, o)
             ELSE IF f \in DOMAIN patch THEN patch[f] ELSE row[f]]
  BY <1>2 DEF Patched
<1>4. Resolver(row, patch, o) \in SUBSET Operators  BY DEF Row1, Resolver
<1>5. /\ p.org = row.org /\ p.by = Resolver(row, patch, o)
      /\ p.status = IF "status" \in DOMAIN patch THEN patch.status ELSE row.status
      /\ p.priority = IF "priority" \in DOMAIN patch THEN patch.priority ELSE row.priority
      /\ p.note = IF "note" \in DOMAIN patch THEN patch.note ELSE row.note
  BY <1>1, <1>3
<1>6. p.org \in Tenants /\ p.status \in Values_ /\ p.priority \in Values_ /\ p.note \in Values_
      /\ p.by \in SUBSET Operators  BY <1>1, <1>4, <1>5 DEF Row1
<1>7. p = [org |-> p.org, status |-> p.status, priority |-> p.priority, note |-> p.note, by |-> p.by]
  BY <1>3
<1> QED  BY <1>5, <1>6, <1>7 DEF Row1

LEMMA ToldRow ==
  ASSUME NEW row \in Row1, NEW e \in Entry1, NEW t, NEW p, p = ToldBy(row, e, t)
  PROVE  p \in Row1 /\ p.org = row.org
<1>1. e.changes \in Patches /\ e.by \in Operators  BY DEF Entry1
<1> QED  BY <1>1, PatchedRow DEF ToldBy

(* An entry more at the end of the chain                                     *)
LEMMA TellsMore ==
  ASSUME NEW row \in Row1, NEW log \in Seq(Entry1), NEW t, NEW e \in Entry1, Tells(row, log, t)
  PROVE  Tells(ToldBy(row, e, t), Append(log, e), t)
<1>1. PICK L, more, p : L = Len(log) /\ more = Append(log, e) /\ p = ToldBy(row, e, t)  OBVIOUS
<1>2. L \in Nat /\ DOMAIN log = 1..L  BY <1>1
<1>3. Len(more) = L + 1 /\ more[L + 1] = e /\ \A n \in 1..L : more[n] = log[n]  BY <1>1, <1>2
<1>4. p.org = row.org  BY <1>1, ToldRow
<1>5. PICK rows : Replay(rows, NewRow(row.org), log, t) /\ row = rows[L]  BY <1>1 DEF Tells
<1>6. PICK all : all = [n \in 0..(L + 1) |-> IF n = L + 1 THEN p ELSE rows[n]]  OBVIOUS
<1>7. all[L + 1] = p /\ \A n \in 0..L : all[n] = rows[n]  BY <1>2, <1>6
<1>8. all[0] = NewRow(row.org)  BY <1>2, <1>5, <1>7 DEF Replay
<1>9. ASSUME NEW n \in 1..(L + 1) PROVE all[n] = ToldBy(all[n - 1], more[n], t)
  BY <1>1, <1>2, <1>3, <1>5, <1>7 DEF Replay
<1>10. Replay(all, NewRow(p.org), more, t)  BY <1>3, <1>4, <1>8, <1>9 DEF Replay
<1>11. Tells(p, more, t)  BY <1>3, <1>7, <1>10 DEF Tells
<1> QED  BY <1>1, <1>11

LEMMA ResolvedMore ==
  ASSUME NEW row \in Row1, NEW log \in Seq(Entry1), NEW t, NEW e \in Entry1, Resolved(row, log, t)
  PROVE  Resolved(ToldBy(row, e, t), Append(log, e), t)
<1>1. PICK L, more, p : L = Len(log) /\ more = Append(log, e) /\ p = ToldBy(row, e, t)  OBVIOUS
<1>2. L \in Nat /\ DOMAIN log = 1..L  BY <1>1
<1>3. /\ DOMAIN more = 1..(L + 1) /\ more[L + 1] = e /\ \A n \in 1..L : more[n] = log[n]
  BY <1>1, <1>2
<1>4. e.changes \in Patches /\ e.by \in Operators  BY DEF Entry1
<1>5. PICK C, M : C = Closing(log, t) /\ M = Closing(more, t)  OBVIOUS
<1>6. C \subseteq 1..L /\ \A n \in 1..(L + 1) : n = L + 1 \/ n \in 1..L  BY <1>2, <1>5 DEF Closing
<1>7. CASE e.ticket = t /\ "status" \in DOMAIN e.changes
  <2>1. M = C \cup {L + 1}  BY <1>2, <1>3, <1>5, <1>6, <1>7 DEF Closing
  <2>2. {k \in M : \A l \in M : l <= k} = {L + 1}
    <3>1. \A l \in M : l <= L + 1  BY <1>2, <1>6, <2>1
    <3>2. \A k \in C : ~(L + 1 <= k)  BY <1>2, <1>6
    <3> QED  BY <2>1, <3>1, <3>2
  <2>3. p.status = e.changes.status /\ p.by = IF p.status \in ClosedStates THEN {e.by} ELSE {}
    <3>1. p = Patched(row, e.changes, e.by)  BY <1>1, <1>7 DEF ToldBy
    <3>2. p.by = Resolver(row, e.changes, e.by) /\ p.status = e.changes.status
      BY <1>4, <1>7, <3>1, PatchedRow
    <3> QED  BY <1>7, <3>2 DEF Resolver
  <2>4. CASE p.status \in ClosedStates  BY <1>1, <1>3, <1>5, <2>2, <2>3, <2>4 DEF Resolved
  <2>5. CASE p.status \notin ClosedStates  BY <1>1, <1>5, <2>3, <2>5 DEF Resolved
  <2> QED  BY <2>4, <2>5
<1>8. CASE ~(e.ticket = t /\ "status" \in DOMAIN e.changes)
  <2>1. M = C  BY <1>2, <1>3, <1>5, <1>6, <1>8 DEF Closing
  <2>2. p.status = row.status /\ p.by = row.by
    <3>1. CASE e.ticket # t  BY <1>1, <3>1 DEF ToldBy
    <3>2. CASE e.ticket = t
      <4>1. p = Patched(row, e.changes, e.by)  BY <1>1, <3>2 DEF ToldBy
      <4>2. p.by = Resolver(row, e.changes, e.by) /\ p.status = row.status
        BY <1>4, <1>8, <3>2, <4>1, PatchedRow
      <4> QED  BY <1>8, <3>2, <4>2 DEF Resolver
    <3> QED  BY <3>1, <3>2
  <2>3. PICK K : K = {k \in C : row.status \in ClosedStates /\ \A l \in C : l <= k}  OBVIOUS
  <2>4. row.by = {log[k].by : k \in K}  BY <1>5, <2>3 DEF Resolved
  <2>5. {log[k].by : k \in K} = {more[k].by : k \in K}  BY <1>3, <1>6, <2>3
  <2>6. K = {k \in M : p.status \in ClosedStates /\ \A l \in M : l <= k}  BY <2>1, <2>2, <2>3
  <2>7. p.by = {more[k].by : k \in {k \in M : p.status \in ClosedStates /\ \A l \in M : l <= k}}
    BY Zenon, <2>2, <2>4, <2>5, <2>6
  <2> QED  BY <1>1, <1>5, <2>7 DEF Resolved
<1> QED  BY <1>7, <1>8

(* A new ticket: nothing in the chain is about it.                           *)
LEMMA NewIsTold ==
  ASSUME NEW s, NEW log \in Seq(Entry1), NEW t, \A k \in DOMAIN log : log[k].ticket # t
  PROVE  Tells(NewRow(s), log, t) /\ Resolved(NewRow(s), log, t)
<1>1. PICK L, new : L = Len(log) /\ new = NewRow(s)  OBVIOUS
<1>2. L \in Nat /\ DOMAIN log = 1..L  BY <1>1
<1>3. new.org = s /\ new.by = {}  BY <1>1 DEF NewRow
<1>4. PICK rows : rows = [n \in 0..L |-> new]  OBVIOUS
<1>5. \A n \in 0..L : rows[n] = new  BY <1>4
<1>6. 0 \in 0..L /\ L \in 0..L /\ \A n \in 1..L : n - 1 \in 0..L /\ n \in 0..L /\ log[n].ticket # t
  BY <1>2
<1>7. Replay(rows, new, log, t) /\ new = rows[L]  BY <1>1, <1>5, <1>6 DEF ToldBy, Replay
<1>8. Closing(log, t) = {}  BY DEF Closing
<1> QED  BY <1>1, <1>3, <1>7, <1>8 DEF Tells, Resolved

(* Two replays are the same, so it is the one the property names.            *)
LEMMA ReplayUnique ==
  ASSUME NEW log, Len(log) \in Nat, NEW new, NEW t, NEW a, NEW b,
         Replay(a, new, log, t), Replay(b, new, log, t)
  PROVE  a[Len(log)] = b[Len(log)]
<1>1. PICK L : L = Len(log)  OBVIOUS
<1>2. PICK D : D = {n \in 0..L : a[n] # b[n]}  OBVIOUS
<1>3. L \in Nat /\ D \subseteq Nat  BY <1>1, <1>2
<1>4. D = {}
  <2> SUFFICES ASSUME D # {} PROVE FALSE  OBVIOUS
  <2>1. PICK n \in D : \A m \in D : n <= m  BY <1>3, NatMinimum
  <2>2. n \in 0..L /\ a[n] # b[n]  BY <1>2, <2>1
  <2>3. n # 0  BY <2>2 DEF Replay
  <2>4. n \in 1..L /\ n - 1 \in 0..L /\ ~(n <= n - 1)  BY <1>3, <2>2, <2>3
  <2>5. n - 1 \notin D  BY <2>1, <2>4
  <2>6. a[n - 1] = b[n - 1]  BY <1>2, <2>4, <2>5
  <2>7. a[n] = ToldBy(a[n - 1], log[n], t) /\ b[n] = ToldBy(b[n - 1], log[n], t)
    BY <1>1, <2>4 DEF Replay
  <2> QED  BY <2>2, <2>6, <2>7
<1>5. L \in 0..L  BY <1>3
<1> QED  BY <1>1, <1>2, <1>4, <1>5

Replayed_(rows, new, log, t) ==
  rows = [n \in 0 .. Len(log) |-> IF n = 0 THEN new ELSE ToldBy(rows[n - 1], log[n], t)]

LEMMA ReplayChosen ==
  ASSUME NEW log, Len(log) \in Nat, NEW new, NEW t, NEW a, Replay(a, new, log, t)
  PROVE  /\ \E g : Replayed_(g, new, log, t)
         /\ \A c : Replayed_(c, new, log, t) => a[Len(log)] = c[Len(log)]
<1>1. PICK L : L = Len(log)  OBVIOUS
<1>2. PICK g : g = [n \in 0..L |-> a[n]]  OBVIOUS
<1>3. L \in Nat /\ \A n \in 0..L : g[n] = a[n]  BY <1>1, <1>2
<1>4. \A n \in 0..L : g[n] = IF n = 0 THEN new ELSE ToldBy(g[n - 1], log[n], t)
  BY <1>1, <1>3 DEF Replay
<1>5. g = [n \in 0..L |-> IF n = 0 THEN new ELSE ToldBy(g[n - 1], log[n], t)]  BY <1>2, <1>4
<1>6. Replayed_(g, new, log, t)  BY <1>1, <1>5 DEF Replayed_
<1> SUFFICES ASSUME NEW c, Replayed_(c, new, log, t) PROVE a[Len(log)] = c[Len(log)]
  BY <1>6
<1>8. c = [n \in 0..L |-> IF n = 0 THEN new ELSE ToldBy(c[n - 1], log[n], t)]
  BY <1>1 DEF Replayed_
<1>9. \A n \in 0..L : c[n] = IF n = 0 THEN new ELSE ToldBy(c[n - 1], log[n], t)  BY <1>8
<1>10. c[0] = new /\ \A n \in 1..L : c[n] = ToldBy(c[n - 1], log[n], t)  BY <1>3, <1>9
<1>11. Replay(c, new, log, t)  BY <1>1, <1>10 DEF Replay
<1> QED  BY <1>11, ReplayUnique

(* The chain and the operators' log                                          *)
Agrees(acc, log, mine) ==
  /\ Cardinality(mine) = Len(log)
  /\ \A k \in mine : log[Cardinality({j \in mine : j <= k})] =
                       [ticket |-> acc[k].ticket, by |-> acc[k].by, changes |-> acc[k].changes]

LEMMA AgreesMore ==
  ASSUME NEW K \in Nat, NEW mine \in SUBSET (1..K), NEW acc, NEW acc2, NEW log \in Seq(Entry1),
         Agrees(acc, log, mine), \A k \in 1..K : acc2[k] = acc[k],
         NEW e \in Entry1,
         e = [ticket |-> acc2[K + 1].ticket, by |-> acc2[K + 1].by, changes |-> acc2[K + 1].changes]
  PROVE  Agrees(acc2, Append(log, e), mine \cup {K + 1})
<1>1. PICK L, more, ours : L = Len(log) /\ more = Append(log, e) /\ ours = mine \cup {K + 1}  OBVIOUS
<1>2. L \in Nat /\ DOMAIN log = 1..L  BY <1>1
<1>3. Len(more) = L + 1 /\ more[L + 1] = e /\ \A n \in 1..L : more[n] = log[n]  BY <1>1, <1>2
<1>4. IsFiniteSet(1..K)  BY FS_Interval
<1>5. IsFiniteSet(mine)  BY <1>4, FS_Subset
<1>6. K + 1 \notin mine /\ \A k \in mine : k \in Nat /\ k <= K /\ k # K + 1  OBVIOUS
<1>7. Cardinality(ours) = L + 1 /\ IsFiniteSet(ours)
  BY <1>1, <1>5, <1>6, FS_AddElement DEF Agrees
<1>8. {j \in ours : j <= K + 1} = ours
  <2>1. \A k \in Nat : k <= K => k <= K + 1  OBVIOUS
  <2>2. K + 1 <= K + 1  OBVIOUS
  <2>3. \A j \in ours : j <= K + 1  BY Zenon, <1>1, <1>6, <2>1, <2>2
  <2> QED  BY <2>3
<1>9. ASSUME NEW k \in mine
      PROVE  more[Cardinality({j \in ours : j <= k})] =
               [ticket |-> acc2[k].ticket, by |-> acc2[k].by, changes |-> acc2[k].changes]
  <2>1. PICK B : B = {j \in mine : j <= k}  OBVIOUS
  <2>2. {j \in ours : j <= k} = B  BY <1>1, <1>6, <2>1
  <2>3. B \subseteq mine /\ k \in B
    <3>1. \A n \in Nat : n <= n  OBVIOUS
    <3>2. k <= k  BY Zenon, <1>6, <3>1
    <3> QED  BY Zenon, <2>1, <3>2
  <2>4. IsFiniteSet(B) /\ Cardinality(B) <= Cardinality(mine)  BY <1>5, <2>3, FS_Subset
  <2>5. Cardinality(B) \in Nat /\ Cardinality(B) # 0  BY <2>3, <2>4, FS_CardinalityType, FS_EmptySet
  <2>6. Cardinality(B) \in 1..L  BY <1>1, <1>2, <2>4, <2>5 DEF Agrees
  <2>7. log[Cardinality(B)] = [ticket |-> acc[k].ticket, by |-> acc[k].by, changes |-> acc[k].changes]
    BY <2>1 DEF Agrees
  <2>8. acc2[k] = acc[k]  OBVIOUS
  <2> QED  BY <1>3, <2>2, <2>6, <2>7, <2>8
<1>10. more[Cardinality({j \in ours : j <= K + 1})] =
         [ticket |-> acc2[K + 1].ticket, by |-> acc2[K + 1].by, changes |-> acc2[K + 1].changes]
  BY <1>3, <1>7, <1>8
<1>11. Len(more) = Cardinality(ours)  BY <1>3, <1>7
<1>12. Agrees(acc2, more, ours)  BY <1>1, <1>9, <1>10, <1>11 DEF Agrees
<1> QED  BY <1>1, <1>12

(* The operators and the scripts                                             *)
Permitted == {"read", "resolve", "updated", "audited"}
Answered == [at |-> "answered"]
AdmittedCall == [at : {"read", "resolve"}, by : Operators]
LockedCall == [at : {"updated", "audited"}, by : Operators, ticket : Nat, patch : Patches, row : Row1]
ScriptLog == [by : Operators, what : {"granted", "revoked", "viewed"}]
UpdateLog == [by : Operators, what : {"updated"}, ticket : Nat, changes : Patches]

SupportShapes ==
  /\ ticket \in Seq(Row1) /\ announced = DOMAIN ticket
  /\ allowlist \in [Operators -> PlatformRoles \cup {"none"}]
  /\ \/ script = {}
     \/ \E o \in Operators, x \in {"granted", "revoked"} : script = {[by |-> o, what |-> x]}
  /\ opCall \in [OperatorCalls -> {Asleep, Answered} \cup AdmittedCall \cup LockedCall]
  /\ chain \in [Tenants -> Seq(Entry1)] /\ access \in Seq(ScriptLog \cup UpdateLog)
  /\ grants_ \in 0 .. MaxGrants

(* A script put the operator on the list, and has logged it, is about to or   *)
(* died before.                                                              *)
Vouched(o) ==
  \/ o \in unlogged \/ [by |-> o, what |-> "granted"] \in script
  \/ \E l \in DOMAIN access : access[l].what = "granted" /\ access[l].by = o
VouchInv ==
  /\ \A o \in Operators : allowlist[o] # "none" => Vouched(o)
  /\ \A r \in OperatorCalls : opCall[r].at \in Permitted => Vouched(opCall[r].by)
  /\ \A k \in DOMAIN access : access[k].what \in {"viewed", "updated"} => Vouched(access[k].by)

(* A request with the row's lock has read the row that is committed, and      *)
(* nobody else has the lock.                                                  *)
LockInv ==
  /\ \A r \in OperatorCalls : opCall[r].at \in {"updated", "audited"} =>
       /\ opCall[r].ticket \in DOMAIN ticket
       /\ opCall[r].row = Patched(ticket[opCall[r].ticket], opCall[r].patch, opCall[r].by)
  /\ \A q, r \in OperatorCalls :
       /\ opCall[q].at \in {"updated", "audited"} /\ opCall[r].at \in {"updated", "audited"}
       /\ opCall[q].ticket = opCall[r].ticket
       => q = r

MineOf(s) == {k \in DOMAIN access : access[k].what = "updated" /\ ticket[access[k].ticket].org = s}
ToldInv ==
  /\ \A s \in Tenants : \A k \in DOMAIN chain[s] :
       chain[s][k].ticket \in DOMAIN ticket /\ ticket[chain[s][k].ticket].org = s
  /\ \A k \in DOMAIN access : access[k].what = "updated" => access[k].ticket \in DOMAIN ticket
  /\ \A t \in DOMAIN ticket : /\ Tells(ticket[t], chain[ticket[t].org], t)
                              /\ Resolved(ticket[t], chain[ticket[t].org], t)
  /\ \A s \in Tenants : Agrees(access, chain[s], MineOf(s))
SupportInv == SupportShapes /\ VouchInv /\ LockInv /\ ToldInv

LEMMA SupportStarts == SupportInit => SupportInv
<1> SUFFICES ASSUME SupportInit PROVE SupportInv  OBVIOUS
<1>1. /\ ticket = << >> /\ announced = {} /\ script = {} /\ access = << >> /\ unlogged = {} /\ grants_ = 0
      /\ allowlist = [o \in Operators |-> "none"] /\ opCall = [r \in OperatorCalls |-> Asleep]
      /\ chain = [s \in Tenants |-> << >>]
  BY DEF SupportInit
<1>2. DOMAIN ticket = {} /\ DOMAIN access = {} /\ ticket \in Seq(Row1)
      /\ access \in Seq(ScriptLog \cup UpdateLog)
  BY <1>1
<1>3. \A s \in Tenants : chain[s] = << >> /\ chain[s] \in Seq(Entry1) /\ DOMAIN chain[s] = {}
                         /\ Len(chain[s]) = 0
  BY <1>1
<1>4. 0 \in 0 .. MaxGrants  BY SupportAssumption
<1>5. \A r \in OperatorCalls : opCall[r] = Asleep /\ opCall[r].at = "none"  BY <1>1 DEF Asleep
<1>6. SupportShapes  BY <1>1, <1>2, <1>3, <1>4 DEF SupportShapes
<1>7. VouchInv  BY <1>1, <1>2, <1>5 DEF VouchInv, Permitted
<1>8. LockInv  BY <1>5 DEF LockInv
<1>9. \A s \in Tenants : MineOf(s) = {}  BY <1>2 DEF MineOf
<1>10. \A s \in Tenants : Agrees(access, chain[s], MineOf(s))
  BY <1>3, <1>9, FS_EmptySet DEF Agrees
<1>11. ToldInv  BY <1>2, <1>3, <1>10 DEF ToldInv
<1> QED  BY <1>6, <1>7, <1>8, <1>11 DEF SupportInv

LEMMA VouchedStays ==
  ASSUME unlogged \subseteq unlogged', DOMAIN access \subseteq DOMAIN access',
         \A k \in DOMAIN access : access'[k] = access[k],
         \A o : [by |-> o, what |-> "granted"] \in script => Vouched(o)'
  PROVE  \A o : Vouched(o) => Vouched(o)'
<1> SUFFICES ASSUME NEW o, Vouched(o) PROVE Vouched(o)'  OBVIOUS
<1>1. CASE [by |-> o, what |-> "granted"] \in script  BY <1>1
<1>2. CASE o \in unlogged  BY <1>2 DEF Vouched
<1>3. CASE \E l \in DOMAIN access : access[l].what = "granted" /\ access[l].by = o  BY <1>3 DEF Vouched
<1> QED  BY <1>1, <1>2, <1>3 DEF Vouched

(* Everybody the list, a request or the log names is vouched for.            *)
LEMMA VouchKept ==
  ASSUME NEW V, \A o \in V : Vouched(o)',
         \A o \in Operators : allowlist'[o] # "none" => o \in V,
         \A r \in OperatorCalls : opCall'[r].at \in Permitted => opCall'[r].by \in V,
         \A k \in DOMAIN access' : access'[k].what \in {"viewed", "updated"} => access'[k].by \in V
  PROVE  VouchInv'
<1>1. \A o \in Operators : allowlist'[o] # "none" => Vouched(o)'  OBVIOUS
<1>2. \A r \in OperatorCalls : opCall'[r].at \in Permitted => Vouched(opCall[r].by)'
  BY DEF Vouched
<1>3. \A k \in DOMAIN access' : access'[k].what \in {"viewed", "updated"} => Vouched(access[k].by)'
  BY DEF Vouched
<1> QED  BY <1>1, <1>2, <1>3 DEF VouchInv

(* Entries that are no updates tell nothing of a ticket.                     *)
LEMMA ToldKept ==
  ASSUME ToldInv, SupportShapes, UNCHANGED <<ticket, chain>>,
         access' = access \/ \E e \in ScriptLog : access' = Append(access, e)
  PROVE  ToldInv'
<1>1. PICK K, S : K = Len(access) /\ S = ScriptLog \cup UpdateLog  OBVIOUS
<1>2. K \in Nat /\ DOMAIN access = 1..K /\ access \in Seq(S)  BY <1>1 DEF SupportShapes
<1>3. /\ DOMAIN access \subseteq DOMAIN access' /\ \A k \in DOMAIN access : access'[k] = access[k]
      /\ \A k \in DOMAIN access' : k \notin DOMAIN access => access'[k].what # "updated"
  BY <1>1, <1>2 DEF ScriptLog
<1>4. ASSUME NEW s \in Tenants PROVE Agrees(access, chain[s], MineOf(s))'
  <2>1. PICK mine : mine = MineOf(s)  OBVIOUS
  <2>2. MineOf(s)' = mine  BY <1>3, <2>1 DEF MineOf
  <2>3. mine \subseteq DOMAIN access /\ Agrees(access, chain[s], mine)  BY <2>1 DEF MineOf, ToldInv
  <2>4. PICK log, acc : log = chain[s] /\ acc = access'  OBVIOUS
  <2>5. Agrees(acc, log, mine)  BY <1>3, <2>3, <2>4 DEF Agrees
  <2> QED  BY <2>2, <2>4, <2>5 DEF Agrees
<1>5. \A k \in DOMAIN access' : access'[k].what = "updated" => access'[k].ticket \in DOMAIN ticket'
  BY <1>3 DEF ToldInv
<1>6. \A s \in Tenants : \A k \in DOMAIN chain'[s] :
        chain'[s][k].ticket \in DOMAIN ticket' /\ ticket'[chain'[s][k].ticket].org = s
  BY DEF ToldInv
<1>7. \A t \in DOMAIN ticket' : /\ Tells(ticket'[t], chain'[ticket'[t].org], t)
                                /\ Resolved(ticket'[t], chain'[ticket'[t].org], t)
  BY DEF ToldInv
<1> QED  BY <1>4, <1>5, <1>6, <1>7 DEF ToldInv

(* A step of the allowlist and its scripts                                   *)
LEMMA ListKeeps ==
  ASSUME SupportInv, UNCHANGED <<ticket, announced, opCall, chain, access>>,
         allowlist' \in [Operators -> PlatformRoles \cup {"none"}], grants_' \in 0 .. MaxGrants,
         \/ script' = {}
         \/ \E o \in Operators, x \in {"granted", "revoked"} : script' = {[by |-> o, what |-> x]},
         unlogged \subseteq unlogged',
         \A o : [by |-> o, what |-> "granted"] \in script => Vouched(o)',
         \A o \in Operators : allowlist'[o] # "none" => allowlist[o] # "none" \/ Vouched(o)'
  PROVE  SupportInv'
<1>1. SupportShapes /\ VouchInv /\ LockInv /\ ToldInv  BY DEF SupportInv
<1>2. SupportShapes'  BY <1>1 DEF SupportShapes
<1>3. \A o : Vouched(o) => Vouched(o)'  BY VouchedStays
<1>4. PICK V : V = {o \in Operators : Vouched(o)'}  OBVIOUS
<1>5. \A o \in Operators : Vouched(o) => o \in V  BY <1>3, <1>4
<1>6. ASSUME NEW r \in OperatorCalls, opCall[r].at \in Permitted PROVE opCall[r].by \in V
  BY <1>1, <1>5, <1>6 DEF SupportShapes, Asleep, Answered, AdmittedCall, LockedCall,
     Permitted, VouchInv
<1>7. ASSUME NEW k \in DOMAIN access, access[k].what \in {"viewed", "updated"} PROVE access[k].by \in V
  BY SMTT(30), <1>1, <1>5, <1>7 DEF SupportShapes, ScriptLog, UpdateLog, VouchInv
<1>8. \A o \in Operators : allowlist'[o] # "none" => o \in V  BY <1>1, <1>4, <1>5 DEF VouchInv
<1>9. VouchInv'  BY <1>4, <1>6, <1>7, <1>8, VouchKept
<1>10. LockInv'  BY <1>1 DEF LockInv
<1>11. ToldInv'  BY <1>1, ToldKept
<1> QED  BY <1>2, <1>9, <1>10, <1>11 DEF SupportInv

(* A step of one request before it commits                                   *)
LEMMA CallKeeps ==
  ASSUME SupportInv, NEW r \in OperatorCalls, NEW c, opCall' = [opCall EXCEPT ![r] = c],
         c \in {Asleep, Answered} \cup AdmittedCall \cup LockedCall,
         UNCHANGED <<ticket, announced, allowlist, script, chain, unlogged, grants_>>,
         \/ access' = access
         \/ \E e \in ScriptLog : access' = Append(access, e) /\ (e.what = "viewed" => Vouched(e.by)),
         c.at \in Permitted => Vouched(c.by),
         c.at \in {"updated", "audited"} =>
           /\ c.ticket \in DOMAIN ticket /\ c.row = Patched(ticket[c.ticket], c.patch, c.by)
           /\ \A q \in OperatorCalls \ {r} :
                opCall[q].at \in {"updated", "audited"} => opCall[q].ticket # c.ticket
  PROVE  SupportInv'
<1>1. SupportShapes /\ VouchInv /\ LockInv /\ ToldInv  BY DEF SupportInv
<1>2. /\ opCall' \in [OperatorCalls -> {Asleep, Answered} \cup AdmittedCall \cup LockedCall]
      /\ \A q \in OperatorCalls : opCall'[q] = IF q = r THEN c ELSE opCall[q]
  BY <1>1 DEF SupportShapes
<1>3. PICK K, S : K = Len(access) /\ S = ScriptLog \cup UpdateLog  OBVIOUS
<1>4. K \in Nat /\ DOMAIN access = 1..K /\ access \in Seq(S)  BY <1>1, <1>3 DEF SupportShapes
<1>5. /\ access' \in Seq(S) /\ DOMAIN access \subseteq DOMAIN access'
      /\ \A k \in DOMAIN access : access'[k] = access[k]
      /\ \A k \in DOMAIN access' : k \notin DOMAIN access =>
           /\ access'[k].what # "updated" /\ access'[k].by \in Operators
           /\ access'[k].what = "viewed" => Vouched(access'[k].by)
  BY SMTT(30), <1>3, <1>4 DEF ScriptLog
<1>6. SupportShapes'  BY <1>1, <1>2, <1>3, <1>5 DEF SupportShapes
<1>7. \A o : Vouched(o) => Vouched(o)'  BY <1>5, VouchedStays DEF Vouched
<1>8. PICK V : V = {o \in Operators : Vouched(o)'}  OBVIOUS
<1>9. \A o \in Operators : Vouched(o) => o \in V  BY <1>7, <1>8
<1>10. ASSUME NEW q \in OperatorCalls, opCall'[q].at \in Permitted PROVE opCall'[q].by \in V
  BY <1>1, <1>2, <1>9, <1>10 DEF Asleep, Answered, AdmittedCall, LockedCall, Permitted,
     VouchInv
<1>11. ASSUME NEW k \in DOMAIN access', access'[k].what \in {"viewed", "updated"}
       PROVE  access'[k].by \in V
  BY <1>1, <1>3, <1>4, <1>5, <1>9, <1>11 DEF ScriptLog, UpdateLog, VouchInv
<1>12. VouchInv'  BY <1>1, <1>8, <1>9, <1>10, <1>11, VouchKept DEF VouchInv
<1>13. LockInv'
  <2>1. ASSUME NEW q \in OperatorCalls, opCall'[q].at \in {"updated", "audited"}
        PROVE  /\ opCall'[q].ticket \in DOMAIN ticket
               /\ opCall'[q].row = Patched(ticket[opCall'[q].ticket], opCall'[q].patch, opCall'[q].by)
    BY <1>1, <1>2, <2>1 DEF LockInv
  <2>2. ASSUME NEW p \in OperatorCalls, NEW q \in OperatorCalls,
               opCall'[p].at \in {"updated", "audited"}, opCall'[q].at \in {"updated", "audited"},
               opCall'[p].ticket = opCall'[q].ticket
        PROVE  p = q  BY <1>1, <1>2, <2>2 DEF LockInv
  <2>3. \A q \in OperatorCalls : opCall'[q].at \in {"updated", "audited"} =>
          /\ opCall'[q].ticket \in DOMAIN ticket'
          /\ opCall'[q].row = Patched(ticket'[opCall'[q].ticket], opCall'[q].patch, opCall'[q].by)
    BY <2>1
  <2> QED  BY <2>2, <2>3 DEF LockInv, Patched, Resolver
<1>14. ToldInv'  BY <1>1, ToldKept
<1> QED  BY <1>6, <1>12, <1>13, <1>14 DEF SupportInv

LEMMA GrantKeeps ==
  ASSUME SupportInv, NEW o \in Operators, NEW role \in PlatformRoles, Grant(o, role)
  PROVE  SupportInv'
<1>1. /\ script = {} /\ grants_ < MaxGrants /\ allowlist' = [allowlist EXCEPT ![o] = role]
      /\ script' = {[by |-> o, what |-> "granted"]} /\ grants_' = grants_ + 1
      /\ UNCHANGED <<ticket, announced, opCall, chain, access, unlogged>>
  BY DEF Grant
<1>2. grants_ \in 0 .. MaxGrants /\ MaxGrants \in Nat
      /\ allowlist \in [Operators -> PlatformRoles \cup {"none"}]
  BY SupportAssumption DEF SupportInv, SupportShapes
<1>3. grants_' \in 0 .. MaxGrants  BY <1>1, <1>2
<1>4. /\ allowlist' \in [Operators -> PlatformRoles \cup {"none"}]
      /\ \A x \in Operators : allowlist'[x] = IF x = o THEN role ELSE allowlist[x]
  BY <1>1, <1>2
<1>5. Vouched(o)'  BY <1>1 DEF Vouched
<1>6. \A x \in Operators : allowlist'[x] # "none" => allowlist[x] # "none" \/ Vouched(x)'
  BY <1>4, <1>5
<1>7. \E x \in Operators, w \in {"granted", "revoked"} : script' = {[by |-> x, what |-> w]}  BY <1>1
<1>8. \A x : [by |-> x, what |-> "granted"] \in script => Vouched(x)'  BY <1>1
<1> QED  BY <1>1, <1>3, <1>4, <1>6, <1>7, <1>8, ListKeeps

LEMMA RevokeKeeps ==
  ASSUME SupportInv, NEW o \in Operators, Revoke(o) \/ GrantExpires(o)
  PROVE  SupportInv'
<1>1. /\ grants_ < MaxGrants /\ allowlist' = [allowlist EXCEPT ![o] = "none"] /\ grants_' = grants_ + 1
      /\ (script' = script \/ (script = {} /\ script' = {[by |-> o, what |-> "revoked"]}))
      /\ UNCHANGED <<ticket, announced, opCall, chain, access, unlogged>>
  BY DEF Revoke, GrantExpires
<1>2. grants_ \in 0 .. MaxGrants /\ MaxGrants \in Nat
      /\ allowlist \in [Operators -> PlatformRoles \cup {"none"}]
  BY SupportAssumption DEF SupportInv, SupportShapes
<1>3. grants_' \in 0 .. MaxGrants  BY <1>1, <1>2
<1>4. /\ allowlist' \in [Operators -> PlatformRoles \cup {"none"}]
      /\ \A x \in Operators : allowlist'[x] # "none" => allowlist[x] # "none"
  BY <1>1, <1>2
<1>5. \/ script' = {}
      \/ \E x \in Operators, w \in {"granted", "revoked"} : script' = {[by |-> x, what |-> w]}
  BY <1>1 DEF SupportInv, SupportShapes
<1>6. \A x : [by |-> x, what |-> "granted"] \in script => Vouched(x)'  BY <1>1 DEF Vouched
<1> QED  BY <1>1, <1>3, <1>4, <1>5, <1>6, ListKeeps

LEMMA ScriptDiesKeeps ==
  ASSUME SupportInv, ScriptDies
  PROVE  SupportInv'
<1>1. /\ script' = {} /\ unlogged' = unlogged \cup {e.by : e \in script}
      /\ UNCHANGED <<ticket, announced, allowlist, opCall, chain, access, grants_>>
  BY DEF ScriptDies
<1>2. \A x : [by |-> x, what |-> "granted"] \in script => Vouched(x)'  BY <1>1 DEF Vouched
<1>3. allowlist' \in [Operators -> PlatformRoles \cup {"none"}] /\ grants_' \in 0 .. MaxGrants
  BY <1>1 DEF SupportInv, SupportShapes
<1> QED  BY <1>1, <1>2, <1>3, ListKeeps

LEMMA LogScriptKeeps ==
  ASSUME SupportInv, LogScript
  PROVE  SupportInv'
<1>1. PICK e \in script : access' = Append(access, e)  BY DEF LogScript, LogAccess
<1>2. /\ script' = {} /\ UNCHANGED <<ticket, announced, allowlist, opCall, chain, unlogged, grants_>>
  BY DEF LogScript
<1>3. SupportShapes /\ VouchInv /\ LockInv /\ ToldInv  BY DEF SupportInv
<1>4. PICK o \in Operators, x \in {"granted", "revoked"} : script = {[by |-> o, what |-> x]}
  BY <1>1, <1>3 DEF SupportShapes
<1>5. e = [by |-> o, what |-> x] /\ e.by = o /\ e.what = x /\ e \in ScriptLog
  BY <1>1, <1>4 DEF ScriptLog
<1>6. PICK K, S : K = Len(access) /\ S = ScriptLog \cup UpdateLog  OBVIOUS
<1>7. K \in Nat /\ DOMAIN access = 1..K /\ access \in Seq(S) /\ e \in S
  BY <1>3, <1>5, <1>6 DEF SupportShapes
<1>8. /\ access' \in Seq(S) /\ DOMAIN access' = 1..(K + 1) /\ access'[K + 1] = e
      /\ \A k \in 1..K : access'[k] = access[k]
  BY <1>1, <1>6, <1>7
<1>9. (\A k \in 1..(K + 1) : k = K + 1 \/ k \in 1..K) /\ (\A k \in 1..K : k \in 1..(K + 1))
      /\ K + 1 \in 1..(K + 1)
  BY <1>7
<1>10. SupportShapes'  BY <1>2, <1>3, <1>6, <1>8 DEF SupportShapes
<1>11. \A z : Vouched(z) => Vouched(z)'
  BY <1>2, <1>4, <1>5, <1>7, <1>8, <1>9, VouchedStays DEF Vouched
<1>12. PICK V : V = {z : z \in {w \in Operators : Vouched(w)'}}  OBVIOUS
<1>13. \A z \in Operators : Vouched(z) => z \in V  BY <1>11, <1>12
<1>14. ASSUME NEW r \in OperatorCalls, opCall[r].at \in Permitted PROVE opCall[r].by \in V
  BY <1>3, <1>13, <1>14 DEF SupportShapes, Asleep, Answered, AdmittedCall, LockedCall,
     Permitted, VouchInv
<1>15. ASSUME NEW k \in DOMAIN access', access'[k].what \in {"viewed", "updated"} PROVE access'[k].by \in V
  BY <1>3, <1>5, <1>6, <1>7, <1>8, <1>9, <1>13, <1>15 DEF ScriptLog, UpdateLog, VouchInv
<1>16. VouchInv'  BY <1>2, <1>3, <1>12, <1>13, <1>14, <1>15, VouchKept DEF VouchInv
<1>17. LockInv'  BY <1>2, <1>3 DEF LockInv
<1>18. ToldInv'  BY <1>1, <1>2, <1>3, <1>5, ToldKept
<1> QED  BY <1>10, <1>16, <1>17, <1>18 DEF SupportInv

LEMMA AdmitKeeps ==
  ASSUME SupportInv, NEW r \in OperatorCalls, NEW o \in Operators, NEW permission \in {"read", "resolve"},
         Admit(r, o, permission)
  PROVE  SupportInv'
<1>1. PICK c : c = [at |-> permission, by |-> o]  OBVIOUS
<1>2. /\ permission \in PermissionsOf(allowlist[o]) /\ opCall' = [opCall EXCEPT ![r] = c]
      /\ UNCHANGED <<ticket, announced, allowlist, script, chain, unlogged, grants_>> /\ access' = access
  BY <1>1 DEF Admit
<1>3. c \in AdmittedCall /\ c.by = o /\ c.at \notin {"updated", "audited"}  BY <1>1 DEF AdmittedCall
<1>4. allowlist[o] # "none"  BY <1>2 DEF PermissionsOf
<1>5. Vouched(c.by)  BY <1>3, <1>4 DEF SupportInv, VouchInv
<1> QED  BY <1>2, <1>3, <1>5, CallKeeps

LEMMA AnsweredIs == Answered.at \notin Permitted /\ Answered.at \notin {"updated", "audited"}
  BY DEF Answered, Permitted

LEMMA RollBackKeeps ==
  ASSUME SupportInv, NEW r \in OperatorCalls, RollBackRequest(r)
  PROVE  SupportInv'
<1>1. /\ opCall' = [opCall EXCEPT ![r] = Answered] /\ access' = access
      /\ UNCHANGED <<ticket, announced, allowlist, script, chain, unlogged, grants_>>
  BY DEF RollBackRequest, Answered
<1> QED  BY <1>1, AnsweredIs, CallKeeps

LEMMA ViewQueueKeeps ==
  ASSUME SupportInv, NEW r \in OperatorCalls, ViewQueue(r)
  PROVE  SupportInv'
<1>1. PICK e : e = [by |-> opCall[r].by, what |-> "viewed"]  OBVIOUS
<1>2. /\ opCall[r].at = "read" /\ access' = Append(access, e) /\ opCall' = [opCall EXCEPT ![r] = Answered]
      /\ UNCHANGED <<ticket, announced, allowlist, script, chain, unlogged, grants_>>
  BY <1>1 DEF ViewQueue, LogAccess, Answered
<1>3. opCall[r] \in {Asleep, Answered} \cup AdmittedCall \cup LockedCall
  BY DEF SupportInv, SupportShapes
<1>4. opCall[r].by \in Operators
  BY <1>2, <1>3 DEF Asleep, Answered, AdmittedCall, LockedCall
<1>5. e \in ScriptLog /\ e.by = opCall[r].by  BY <1>1, <1>4 DEF ScriptLog
<1>6. Vouched(e.by)  BY <1>2, <1>5 DEF SupportInv, VouchInv, Permitted
<1>7. \E x \in ScriptLog : access' = Append(access, x) /\ (x.what = "viewed" => Vouched(x.by))
  BY <1>2, <1>5, <1>6
<1> QED  BY <1>2, <1>7, AnsweredIs, CallKeeps

LEMMA UpdateRowKeeps ==
  ASSUME SupportInv, NEW r \in OperatorCalls, NEW t \in DOMAIN ticket, NEW patch \in Patches,
         UpdateRow(r, t, patch)
  PROVE  SupportInv'
<1>1. PICK o, row : o = opCall[r].by /\ row = Patched(ticket[t], patch, opCall[r].by)  OBVIOUS
<1>2. PICK c : c = [at |-> "updated", by |-> o, ticket |-> t, patch |-> patch, row |-> row]  OBVIOUS
<1>3. /\ opCall[r].at = "resolve" /\ RowFree(t) /\ opCall' = [opCall EXCEPT ![r] = c]
      /\ UNCHANGED <<ticket, announced, allowlist, script, chain, unlogged, grants_>> /\ access' = access
  BY <1>1, <1>2 DEF UpdateRow
<1>4. opCall[r] \in {Asleep, Answered} \cup AdmittedCall \cup LockedCall
  BY DEF SupportInv, SupportShapes
<1>5. o \in Operators  BY <1>1, <1>3, <1>4 DEF Asleep, Answered, AdmittedCall, LockedCall
<1>6. ticket \in Seq(Row1)  BY DEF SupportInv, SupportShapes
<1>7. ticket[t] \in Row1 /\ t \in Nat  BY <1>6
<1>8. row \in Row1  BY <1>1, <1>5, <1>7, PatchedRow
<1>9. c \in LockedCall /\ c.by = o /\ c.ticket = t /\ c.patch = patch /\ c.row = row
  BY <1>2, <1>5, <1>7, <1>8 DEF LockedCall
<1>10. Vouched(c.by)  BY <1>1, <1>3, <1>9 DEF SupportInv, VouchInv, Permitted
<1>11. c.row = Patched(ticket[c.ticket], c.patch, c.by)  BY <1>1, <1>9
<1>12. \A q \in OperatorCalls \ {r} :
         opCall[q].at \in {"updated", "audited"} => opCall[q].ticket # c.ticket
  BY <1>3, <1>9 DEF RowFree
<1> QED  BY <1>3, <1>9, <1>10, <1>11, <1>12, CallKeeps

LEMMA WriteAuditKeeps ==
  ASSUME SupportInv, NEW r \in OperatorCalls, WriteAudit(r)
  PROVE  SupportInv'
<1>1. PICK b : b = opCall[r]  OBVIOUS
<1>2. PICK c : c = [b EXCEPT !.at = "audited"]  OBVIOUS
<1>3. /\ b.at = "updated" /\ opCall' = [opCall EXCEPT ![r] = c]
      /\ UNCHANGED <<ticket, announced, allowlist, script, chain, unlogged, grants_>> /\ access' = access
  BY <1>1, <1>2 DEF WriteAudit
<1>4. b \in {Asleep, Answered} \cup AdmittedCall \cup LockedCall
  BY <1>1 DEF SupportInv, SupportShapes
<1>5. b \in LockedCall  BY <1>3, <1>4 DEF Asleep, Answered, AdmittedCall
<1>6. /\ c \in LockedCall /\ c.at = "audited" /\ c.by = b.by /\ c.ticket = b.ticket /\ c.patch = b.patch
      /\ c.row = b.row
  BY <1>2, <1>5 DEF LockedCall
<1>7. /\ b.ticket \in DOMAIN ticket /\ b.row = Patched(ticket[b.ticket], b.patch, b.by)
      /\ \A q \in OperatorCalls \ {r} :
           opCall[q].at \in {"updated", "audited"} => opCall[q].ticket # b.ticket
  BY <1>1, <1>3 DEF SupportInv, LockInv
<1>8. Vouched(b.by)  BY <1>1, <1>3 DEF SupportInv, VouchInv, Permitted
<1> QED  BY <1>3, <1>6, <1>7, <1>8, CallKeeps

LEMMA RaiseTicketKeeps ==
  ASSUME SupportInv, NEW s \in Tenants, RaiseTicket(s)
  PROVE  SupportInv'
<1>1. PICK new, L, S : new = NewRow(s) /\ L = Len(ticket) /\ S = Row1  OBVIOUS
<1>2. /\ ticket' = Append(ticket, new) /\ announced' = announced \cup {L + 1}
      /\ UNCHANGED <<allowlist, script, opCall, chain, access, unlogged, grants_>>
  BY <1>1 DEF RaiseTicket, NewRow
<1>3. SupportShapes /\ VouchInv /\ LockInv /\ ToldInv  BY DEF SupportInv
<1>4. new \in S /\ new.org = s  BY <1>1 DEF NewRow, Values_, Row1
<1>5. ticket \in Seq(S) /\ L \in Nat /\ DOMAIN ticket = 1..L  BY <1>1, <1>3 DEF SupportShapes
<1>6. /\ ticket' \in Seq(S) /\ DOMAIN ticket' = 1..(L + 1) /\ ticket'[L + 1] = new
      /\ \A t \in 1..L : ticket'[t] = ticket[t]
  BY <1>1, <1>2, <1>4, <1>5
<1>7. (\A t \in 1..(L + 1) : t = L + 1 \/ t \in 1..L) /\ (\A t \in 1..L : t \in 1..(L + 1))
      /\ L + 1 \notin 1..L /\ 1..(L + 1) = (1..L) \cup {L + 1}
  BY <1>5
<1>8. announced' = DOMAIN ticket'  BY <1>2, <1>3, <1>5, <1>6, <1>7 DEF SupportShapes
<1>9. SupportShapes'  BY <1>1, <1>2, <1>3, <1>6, <1>8 DEF SupportShapes
<1>10. VouchInv'  BY <1>2, <1>3 DEF VouchInv, Vouched
<1>11. LockInv'
  <2>1. ASSUME NEW r \in OperatorCalls, opCall[r].at \in {"updated", "audited"}
        PROVE  /\ opCall[r].ticket \in DOMAIN ticket'
               /\ opCall[r].row = Patched(ticket'[opCall[r].ticket], opCall[r].patch, opCall[r].by)
    BY <1>3, <1>5, <1>6, <1>7, <2>1 DEF LockInv
  <2>2. ASSUME NEW p \in OperatorCalls, NEW q \in OperatorCalls,
               opCall'[p].at \in {"updated", "audited"}, opCall'[q].at \in {"updated", "audited"},
               opCall'[p].ticket = opCall'[q].ticket
        PROVE  p = q
    BY <1>2, <1>3, <2>2 DEF LockInv
  <2>3. \A q \in OperatorCalls : opCall'[q].at \in {"updated", "audited"} =>
          /\ opCall'[q].ticket \in DOMAIN ticket'
          /\ opCall'[q].row = Patched(ticket'[opCall'[q].ticket], opCall'[q].patch, opCall'[q].by)
    BY <1>2, <2>1
  <2> QED  BY <2>2, <2>3 DEF LockInv, Patched, Resolver
<1>12. \A z \in Tenants : \A k \in DOMAIN chain[z] :
         /\ chain[z][k].ticket \in DOMAIN ticket /\ ticket[chain[z][k].ticket].org = z
         /\ chain[z][k].ticket \in DOMAIN ticket' /\ ticket'[chain[z][k].ticket].org = z
  BY <1>3, <1>5, <1>6, <1>7 DEF ToldInv
<1>13. \A k \in DOMAIN access : access[k].what = "updated" =>
         /\ access[k].ticket \in DOMAIN ticket'
         /\ ticket'[access[k].ticket] = ticket[access[k].ticket]
  BY <1>3, <1>5, <1>6, <1>7 DEF ToldInv
<1>14. PICK log : log = chain  OBVIOUS
<1>15. \A z \in Tenants : log[z] \in Seq(Entry1)  BY <1>3, <1>14 DEF SupportShapes
<1>16. ASSUME NEW t \in DOMAIN ticket'
       PROVE  Tells(ticket'[t], log[ticket'[t].org], t) /\ Resolved(ticket'[t], log[ticket'[t].org], t)
  BY <1>1, <1>3, <1>4, <1>5, <1>6, <1>7, <1>12, <1>14, <1>15, NewIsTold DEF ToldInv
<1>17. ASSUME NEW z \in Tenants PROVE Agrees(access, chain[z], MineOf(z))'
  <2>1. PICK mine : mine = MineOf(z)  OBVIOUS
  <2>2. MineOf(z)' = mine  BY <1>2, <1>13, <2>1 DEF MineOf
  <2>3. Agrees(access, chain[z], mine)  BY <1>3, <2>1 DEF ToldInv
  <2> QED  BY <1>2, <2>2, <2>3 DEF Agrees
<1>18. ToldInv'  BY <1>2, <1>12, <1>13, <1>14, <1>16, <1>17 DEF ToldInv
<1> QED  BY <1>9, <1>10, <1>11, <1>18 DEF SupportInv

(* The row, the chain and the log get the same change in one commit.          *)
LEMMA CommitRequestKeeps ==
  ASSUME SupportInv, NEW r \in OperatorCalls, CommitRequest(r)
  PROVE  SupportInv'
<1>1. PICK b, t, s : b = opCall[r] /\ t = opCall[r].ticket /\ s = ticket[opCall[r].ticket].org  OBVIOUS
<1>2. PICK e : e = [ticket |-> t, by |-> b.by, changes |-> b.patch]  OBVIOUS
<1>3. PICK a : a = [by |-> b.by, what |-> "updated", ticket |-> t, changes |-> b.patch]  OBVIOUS
<1>4. /\ b.at = "audited" /\ ticket' = [ticket EXCEPT ![t] = b.row]
      /\ chain' = [chain EXCEPT ![s] = Append(chain[s], e)] /\ access' = Append(access, a)
      /\ opCall' = [opCall EXCEPT ![r] = Answered]
      /\ UNCHANGED <<announced, allowlist, script, unlogged, grants_>>
  BY <1>1, <1>2, <1>3 DEF CommitRequest, LogAccess, Answered
<1>5. SupportShapes /\ VouchInv /\ LockInv /\ ToldInv  BY DEF SupportInv
<1>6. b \in LockedCall
  <2>1. b \in {Asleep, Answered} \cup AdmittedCall \cup LockedCall  BY <1>1, <1>5 DEF SupportShapes
  <2> QED  BY <1>4, <2>1 DEF Asleep, Answered, AdmittedCall
<1>7. b.by \in Operators /\ b.patch \in Patches /\ b.row \in Row1 /\ t \in Nat
  BY <1>1, <1>6 DEF LockedCall
<1>8. /\ e \in Entry1 /\ e.ticket = t /\ e.by = b.by /\ e.changes = b.patch
      /\ a \in UpdateLog /\ a.what = "updated" /\ a.ticket = t /\ a.by = b.by /\ a.changes = b.patch
  BY <1>2, <1>3, <1>7 DEF Entry1, UpdateLog
<1>9. t \in DOMAIN ticket /\ b.row = Patched(ticket[t], b.patch, b.by)
  BY <1>1, <1>4, <1>5 DEF LockInv
<1>10. ticket \in Seq(Row1) /\ chain \in [Tenants -> Seq(Entry1)]  BY <1>5 DEF SupportShapes
<1>11. ticket[t] \in Row1 /\ \A u \in DOMAIN ticket : ticket[u] \in Row1 /\ ticket[u].org \in Tenants
  <2>1. \A u \in DOMAIN ticket : ticket[u] \in Row1  BY <1>10
  <2> QED  BY <1>9, <2>1 DEF Row1
<1>12. s \in Tenants /\ b.row.org = s  BY <1>1, <1>7, <1>9, <1>11, PatchedRow
<1>13. /\ ticket' \in Seq(Row1) /\ DOMAIN ticket' = DOMAIN ticket
       /\ \A u \in DOMAIN ticket : /\ ticket'[u] = IF u = t THEN b.row ELSE ticket[u]
                                   /\ ticket'[u].org = ticket[u].org
  BY <1>1, <1>4, <1>7, <1>9, <1>10, <1>12
<1>14. PICK more : more = Append(chain[s], e)  OBVIOUS
<1>15. more \in Seq(Entry1)  BY <1>8, <1>10, <1>12, <1>14
<1>16. /\ chain' \in [Tenants -> Seq(Entry1)]
       /\ \A z \in Tenants : chain'[z] = IF z = s THEN more ELSE chain[z]
  BY <1>4, <1>10, <1>14, <1>15
<1>17. PICK K, S : K = Len(access) /\ S = ScriptLog \cup UpdateLog  OBVIOUS
<1>18. K \in Nat /\ DOMAIN access = 1..K /\ access \in Seq(S) /\ a \in S
  BY <1>5, <1>8, <1>17 DEF SupportShapes
<1>19. /\ access' \in Seq(S) /\ DOMAIN access' = 1..(K + 1) /\ access'[K + 1] = a
       /\ \A k \in 1..K : access'[k] = access[k]
  BY <1>4, <1>17, <1>18
<1>20. (\A k \in 1..(K + 1) : k = K + 1 \/ k \in 1..K) /\ (\A k \in 1..K : k \in 1..(K + 1))
       /\ K + 1 \in 1..(K + 1) /\ K + 1 \notin 1..K
  BY <1>18
<1>21. /\ opCall' \in [OperatorCalls -> {Asleep, Answered} \cup AdmittedCall \cup LockedCall]
       /\ \A q \in OperatorCalls : opCall'[q] = IF q = r THEN Answered ELSE opCall[q]
  BY <1>4, <1>5 DEF SupportShapes
<1>22. SupportShapes'
  BY <1>4, <1>5, <1>13, <1>16, <1>17, <1>19, <1>21 DEF SupportShapes
<1>23. VouchInv'
  <2>1. \A o : Vouched(o) => Vouched(o)'
    BY <1>4, <1>18, <1>19, <1>20, VouchedStays DEF Vouched
  <2>2. PICK V : V = {z : z \in {w \in Operators : Vouched(w)'}}  OBVIOUS
  <2>3. \A z \in Operators : Vouched(z) => z \in V  BY <2>1, <2>2
  <2>4. ASSUME NEW q \in OperatorCalls, opCall'[q].at \in Permitted PROVE opCall'[q].by \in V
    BY <1>5, <1>21, <2>3, <2>4, AnsweredIs DEF SupportShapes, Asleep, Answered, AdmittedCall,
       LockedCall, Permitted, VouchInv
  <2>5. ASSUME NEW k \in DOMAIN access', access'[k].what \in {"viewed", "updated"}
        PROVE  access'[k].by \in V
    <3>1. CASE k = K + 1
      BY <1>1, <1>4, <1>5, <1>7, <1>8, <1>19, <2>3, <3>1 DEF VouchInv, Permitted
    <3>2. CASE k # K + 1
      BY <1>5, <1>17, <1>18, <1>19, <1>20, <2>3, <2>5, <3>2 DEF ScriptLog, UpdateLog, VouchInv
    <3> QED  BY <3>1, <3>2
  <2>6. (\A z \in V : Vouched(z)') /\ (\A z \in Operators : allowlist'[z] # "none" => z \in V)
    BY <1>4, <1>5, <2>2, <2>3 DEF VouchInv
  <2> QED  BY <2>4, <2>5, <2>6, VouchKept
<1>24. LockInv'
  <2>1. ASSUME NEW q \in OperatorCalls, opCall'[q].at \in {"updated", "audited"}
        PROVE  /\ q # r /\ opCall'[q] = opCall[q] /\ opCall[q].ticket \in DOMAIN ticket
               /\ opCall[q].ticket # t
               /\ opCall[q].row = Patched(ticket[opCall[q].ticket], opCall[q].patch, opCall[q].by)
    BY <1>1, <1>4, <1>5, <1>21, <2>1, AnsweredIs DEF LockInv
  <2>2. ASSUME NEW q \in OperatorCalls, opCall'[q].at \in {"updated", "audited"}
        PROVE  /\ opCall'[q].ticket \in DOMAIN ticket'
               /\ opCall'[q].row = Patched(ticket'[opCall'[q].ticket], opCall'[q].patch, opCall'[q].by)
    BY <1>13, <2>1, <2>2
  <2>3. ASSUME NEW p \in OperatorCalls, NEW q \in OperatorCalls,
               opCall'[p].at \in {"updated", "audited"}, opCall'[q].at \in {"updated", "audited"},
               opCall'[p].ticket = opCall'[q].ticket
        PROVE  p = q
    BY <1>5, <2>1, <2>3 DEF LockInv
  <2> QED  BY <2>2, <2>3 DEF LockInv, Patched, Resolver
<1>25. PICK log, acc, row : log = chain' /\ acc = access' /\ row = ticket'  OBVIOUS
<1>26. ASSUME NEW u \in DOMAIN ticket
       PROVE  Tells(row[u], log[row[u].org], u) /\ Resolved(row[u], log[row[u].org], u)
  <2>1. Tells(ticket[u], chain[ticket[u].org], u) /\ Resolved(ticket[u], chain[ticket[u].org], u)
    BY <1>5 DEF ToldInv
  <2>2. CASE ticket[u].org # s  BY <1>1, <1>11, <1>13, <1>16, <1>25, <2>1, <2>2
  <2>3. CASE ticket[u].org = s
    <3>1. row[u] = ToldBy(ticket[u], e, u)
      BY <1>8, <1>9, <1>13, <1>25 DEF ToldBy
    <3>2. log[row[u].org] = Append(chain[s], e)
      BY <1>12, <1>13, <1>14, <1>16, <1>25, <2>3
    <3>3. ticket[u] \in Row1 /\ chain[s] \in Seq(Entry1)  BY <1>10, <1>11, <1>12
    <3>4. Tells(ToldBy(ticket[u], e, u), Append(chain[s], e), u)
      BY <1>8, <2>1, <2>3, <3>3, TellsMore
    <3>5. Resolved(ToldBy(ticket[u], e, u), Append(chain[s], e), u)
      BY <1>8, <2>1, <2>3, <3>3, ResolvedMore
    <3> QED  BY <3>1, <3>2, <3>4, <3>5
  <2> QED  BY <2>2, <2>3
<1>27. ASSUME NEW z \in Tenants, NEW k \in DOMAIN chain'[z]
       PROVE  chain'[z][k].ticket \in DOMAIN ticket' /\ ticket'[chain'[z][k].ticket].org = z
  <2>1. \A y \in Tenants : \A j \in DOMAIN chain[y] :
          chain[y][j].ticket \in DOMAIN ticket /\ ticket[chain[y][j].ticket].org = y
    BY <1>5 DEF ToldInv
  <2>2. CASE z # s
    <3>1. PICK x : x = chain'[z][k].ticket  OBVIOUS
    <3>2. chain'[z] = chain[z]  BY <1>16, <2>2
    <3>3. x \in DOMAIN ticket /\ ticket[x].org = z  BY <2>1, <3>1, <3>2
    <3> QED  BY <1>13, <3>1, <3>3
  <2>3. CASE z = s
    <3>1. PICK L, old : L = Len(chain[s]) /\ old = chain[s]  OBVIOUS
    <3>2. old \in Seq(Entry1)  BY <1>10, <1>12, <3>1
    <3>3. L \in Nat /\ DOMAIN old = 1..L /\ more = Append(old, e)  BY <1>14, <3>1, <3>2
    <3>4. /\ DOMAIN more = 1..(L + 1) /\ more[L + 1] = e /\ \A j \in 1..L : more[j] = old[j]
      BY <3>1, <3>2, <3>3
    <3>5. k \in DOMAIN more /\ chain'[z] = more  BY <1>16, <2>3
    <3>6. CASE k = L + 1  BY <1>1, <1>8, <1>9, <1>13, <2>3, <3>4, <3>5, <3>6
    <3>7. CASE k # L + 1
      <4>1. k \in 1..L  BY <3>3, <3>4, <3>5, <3>7
      <4>2. PICK x : x = chain'[z][k].ticket  OBVIOUS
      <4>3. x = chain[s][k].ticket /\ k \in DOMAIN chain[s]  BY <3>1, <3>3, <3>4, <3>5, <4>1, <4>2
      <4>4. x \in DOMAIN ticket /\ ticket[x].org = z  BY <1>12, <2>1, <2>3, <4>3
      <4> QED  BY <1>13, <4>2, <4>4
    <3> QED  BY <3>6, <3>7
  <2> QED  BY <2>2, <2>3
<1>28. \A k \in DOMAIN access' : access'[k].what = "updated" => access'[k].ticket \in DOMAIN ticket'
  BY <1>5, <1>8, <1>9, <1>13, <1>18, <1>19, <1>20 DEF ToldInv
<1>29. ASSUME NEW z \in Tenants PROVE Agrees(access, chain[z], MineOf(z))'
  <2>1. PICK mine : mine = MineOf(z)  OBVIOUS
  <2>2. mine \subseteq 1..K /\ Agrees(access, chain[z], mine) /\ chain[z] \in Seq(Entry1)
    BY <1>5, <1>10, <1>18, <2>1 DEF ToldInv, MineOf
  <2>3. \A k \in 1..K : /\ access'[k] = access[k]
                        /\ (access[k].what = "updated" =>
                              ticket'[access[k].ticket].org = ticket[access[k].ticket].org)
    BY <1>5, <1>13, <1>18, <1>19 DEF ToldInv
  <2>4. CASE z # s
    <3>1. MineOf(z)' = mine
      BY <1>1, <1>8, <1>9, <1>13, <1>18, <1>19, <1>20, <2>1, <2>3, <2>4 DEF MineOf
    <3>2. Agrees(acc, log[z], mine)  BY <1>16, <1>25, <2>2, <2>3, <2>4 DEF Agrees
    <3> QED  BY <1>25, <3>1, <3>2 DEF Agrees
  <2>5. CASE z = s
    <3>1. MineOf(z)' = mine \cup {K + 1}
      BY <1>1, <1>8, <1>9, <1>13, <1>18, <1>19, <1>20, <2>1, <2>3, <2>5 DEF MineOf
    <3>2. Agrees(acc, Append(chain[z], e), mine \cup {K + 1})
      BY <1>2, <1>8, <1>18, <1>19, <1>25, <2>2, AgreesMore
    <3>3. log[z] = Append(chain[z], e)  BY <1>14, <1>16, <1>25, <2>5
    <3> QED  BY <1>25, <3>1, <3>2, <3>3 DEF Agrees
  <2> QED  BY <2>4, <2>5
<1>30. ToldInv'  BY <1>13, <1>25, <1>26, <1>27, <1>28, <1>29 DEF ToldInv
<1> QED  BY <1>22, <1>23, <1>24, <1>30 DEF SupportInv

LEMMA SupportSteps == SupportInv /\ [SupportNext]_supportVars => SupportInv'
<1> SUFFICES ASSUME SupportInv, [SupportNext]_supportVars PROVE SupportInv'  OBVIOUS
<1>1. CASE UNCHANGED supportVars
  BY <1>1, ListKeeps DEF supportVars, Vouched, SupportInv, SupportShapes
<1>2. ASSUME NEW o \in Operators,
             \/ \E role \in PlatformRoles : Grant(o, role)
             \/ Revoke(o) \/ GrantExpires(o)
             \/ \E r \in OperatorCalls, permission \in {"read", "resolve"} : Admit(r, o, permission)
      PROVE  SupportInv'
  BY <1>2, GrantKeeps, RevokeKeeps, AdmitKeeps
<1>3. ASSUME NEW r \in OperatorCalls,
             \/ ViewQueue(r) \/ WriteAudit(r) \/ CommitRequest(r) \/ RollBackRequest(r)
             \/ \E t \in DOMAIN ticket, patch \in Patches : UpdateRow(r, t, patch)
      PROVE  SupportInv'
  BY <1>3, ViewQueueKeeps, WriteAuditKeeps, CommitRequestKeeps, RollBackKeeps, UpdateRowKeeps
<1> QED  BY <1>1, <1>2, <1>3, RaiseTicketKeeps, LogScriptKeeps, ScriptDiesKeeps DEF SupportNext

LEMMA SupportInvShows ==
  ASSUME SupportInv
  PROVE  SupportTypeOK /\ ChainTellsTicket /\ ResolverStands /\ AccessLogged
<1>1. SupportShapes /\ VouchInv /\ LockInv /\ ToldInv  BY DEF SupportInv
<1>2. \A t \in DOMAIN ticket : ticket[t] \in Row1  BY <1>1 DEF SupportShapes
<1>3. SupportTypeOK  BY <1>1, <1>2 DEF SupportTypeOK, SupportShapes, Row1
<1>4. ResolverStands  BY <1>1 DEF ResolverStands, ToldInv, Resolved, Closing
<1>5. ChainTellsTicket
  <2> SUFFICES ASSUME NEW t \in DOMAIN ticket, NEW log, log = chain[ticket[t].org]
               PROVE  ticket[t] =
                        (CHOOSE rows : Replayed_(rows, NewTicket(t), log, t))[Len(log)]
    BY DEF ChainTellsTicket, Replayed_
  <2>1. PICK row : row = ticket[t]  OBVIOUS
  <2>2. row \in Row1 /\ row.org \in Tenants  BY <1>2, <2>1 DEF Row1
  <2>3. NewTicket(t) = NewRow(row.org)
    <3>1. row = [org |-> row.org, status |-> row.status, priority |-> row.priority,
                 note |-> row.note, by |-> row.by]
      BY <2>2 DEF Row1
    <3>2. PICK a, b, c, d, e : a = row.org /\ b = row.status /\ c = row.priority /\ d = row.note
                               /\ e = row.by
      OBVIOUS
    <3>3. row = [org |-> a, status |-> b, priority |-> c, note |-> d, by |-> e]
      BY Zenon, <3>1, <3>2
    <3>4. [row EXCEPT !.status = "open", !.priority = "normal", !.note = "none", !.by = {}]
            = [org |-> a, status |-> "open", priority |-> "normal", note |-> "none", by |-> {}]
      <4>1. PICK x : x = [row EXCEPT !.status = "open", !.priority = "normal", !.note = "none", !.by = {}]
        OBVIOUS
      <4>2. PICK D : D = {"org", "status", "priority", "note", "by"}  OBVIOUS
      <4>3. DOMAIN row = D /\ row.org = a  BY <3>3, <4>2
      <4>4. DOMAIN x = D /\ x = [f \in D |-> x[f]]  BY <4>1, <4>3
      <4>5. x.org = a /\ x.status = "open" /\ x.priority = "normal" /\ x.note = "none" /\ x.by = {}
        BY <4>1, <4>2, <4>3
      <4>6. x = [org |-> a, status |-> "open", priority |-> "normal", note |-> "none", by |-> {}]
        BY <4>2, <4>4, <4>5
      <4> QED  BY Zenon, <4>1, <4>6
    <3> QED  BY Zenon, <2>1, <3>2, <3>4 DEF NewTicket, NewRow
  <2>4. log \in Seq(Entry1)  BY <1>1, <2>1, <2>2 DEF SupportShapes
  <2>5. Len(log) \in Nat  BY <2>4
  <2>6. PICK rows : Replay(rows, NewRow(row.org), log, t) /\ row = rows[Len(log)]
    BY <1>1, <2>1 DEF ToldInv, Tells
  <2>7. PICK new : new = NewRow(row.org)  OBVIOUS
  <2>8. PICK c : c = CHOOSE x : Replayed_(x, new, log, t)  OBVIOUS
  <2>9. Replay(rows, new, log, t)  BY <2>6, <2>7
  <2>11. \E g : Replayed_(g, new, log, t)  BY <2>5, <2>9, ReplayChosen
  <2>12. Replayed_(c, new, log, t)  BY Zenon, <2>8, <2>11
  <2>10. rows[Len(log)] = c[Len(log)]  BY <2>5, <2>9, <2>12, ReplayChosen
  <2> QED  BY Zenon, <2>1, <2>3, <2>6, <2>7, <2>8, <2>10
<1>6. AccessLogged
  <2>1. \A k \in DOMAIN access :
          access[k].what \in {"viewed", "updated", "revoked", "granted"}
    BY <1>1 DEF SupportShapes, ScriptLog, UpdateLog
  <2>2. ASSUME NEW k \in DOMAIN access
        PROVE  \/ access[k].by \in unlogged \/ \E e \in script : e.by = access[k].by
               \/ access[k].what = "revoked"
               \/ \E l \in DOMAIN access : access[l].what = "granted" /\ access[l].by = access[k].by
    BY <1>1, <2>1 DEF VouchInv, Vouched
  <2>3. \A s \in Tenants : Agrees(access, chain[s], MineOf(s))  BY <1>1 DEF ToldInv
  <2> QED  BY <2>2, <2>3 DEF AccessLogged, Agrees, MineOf
<1> QED  BY <1>3, <1>4, <1>5, <1>6

(*************************************************************************)
(* The theorems                                                          *)
(*************************************************************************)

(* A page that is live shows a version somebody chose, which the pack's plan    *)
(* and the store's content make; a lead names a published version; and an       *)
(* address is let in no more often than the limit (src/core/landing), whatever  *)
(* owners, visitors and the model do at once.                                   *)
THEOREM PagesAreChosen ==
  LandingSpec => [](/\ LandingTypeOK /\ LiveVersionWasChosen /\ LeadsNameAPublishedVersion
                    /\ CandidatesFromPack /\ FloodCapped)
<1>1. LandingInv => /\ LandingTypeOK /\ LiveVersionWasChosen /\ LeadsNameAPublishedVersion
                    /\ CandidatesFromPack /\ FloodCapped
  BY LandingInvShows
<1> QED  BY LandingStarts, LandingSteps, <1>1, PTL DEF LandingSpec

(* A quote adds up, passes its gate and replays to what it stored, an open one  *)
(* is flagged when its inputs change, and neighbouring rates differ by more     *)
(* than the bound only where an owner's rate or a crossed fetch came between    *)
(* (src/core/pricing), for any rates and any number of edits.                   *)
THEOREM QuotesAreTrue ==
  PricingSpec => [](/\ PricingTypeOK /\ StaleQuotesFlagged /\ BreakdownPassesGate
                    /\ BreakdownAddsUp /\ ReplayMatches /\ JumpsAccounted)
<1>1. PricingInv => /\ PricingTypeOK /\ StaleQuotesFlagged /\ BreakdownPassesGate
                    /\ BreakdownAddsUp /\ ReplayMatches /\ JumpsAccounted
  BY PricingInvShows
<1> QED  BY PricingStarts, PricingSteps, <1>1, PTL DEF PricingSpec

(* The pictured image has all its objects unless its commit's answer was lost,  *)
(* and at rest an object of no image is one a death, a failed delete, a lost    *)
(* answer or an older read left (src/core/catalog/media.py), for any number of  *)
(* uploads and removals at once.                                                *)
THEOREM PicturesAreWhole == MediaSpec => [](MediaTypeOK /\ PictureIntact /\ OrphansAccounted)
<1>1. MediaInv => MediaTypeOK /\ PictureIntact /\ OrphansAccounted  BY MediaInvShows
<1> QED  BY MediaStarts, MediaSteps, <1>1, PTL DEF MediaSpec

(* An install has one active binding, shared layers are there once unless two   *)
(* packs bring them, a pinned base meets its pack's bound where versions        *)
(* compare, and a run falls back to the skeleton for braces only                *)
(* (src/core/prompts), for any installs, swaps and runs.                        *)
THEOREM LayersAreAccepted ==
  PromptsSpec => [](/\ PromptsTypeOK /\ OneActiveBinding /\ SharedLayersOnce
                    /\ TooManyAccounted /\ PinnedMeetsBound /\ SkeletonAccounted)
<1>1. PromptsInv => /\ PromptsTypeOK /\ OneActiveBinding /\ SharedLayersOnce
                    /\ TooManyAccounted /\ PinnedMeetsBound /\ SkeletonAccounted
  BY PromptsInvShows
<1> QED  BY PromptsStarts, PromptsSteps, <1>1, PTL DEF PromptsSpec

(* A store's audit chain, replayed, tells each ticket, its resolver is the last *)
(* closer's, and the chain is entry for entry in the platform's own log, where  *)
(* nobody is who was not granted access (src/core/support,                      *)
(* src/core/tenancy/platform_admin.py), for any number of operators and calls.  *)
THEOREM TicketsAreTold ==
  SupportSpec => [](SupportTypeOK /\ ChainTellsTicket /\ ResolverStands /\ AccessLogged)
<1>1. SupportInv => SupportTypeOK /\ ChainTellsTicket /\ ResolverStands /\ AccessLogged
  BY SupportInvShows
<1> QED  BY SupportStarts, SupportSteps, <1>1, PTL DEF SupportSpec

(* What the nine components behind the shopfront keep.                        *)
ShopInv ==
  /\ TermsInv /\ LandingInv /\ PricingInv /\ MediaInv /\ ChannelsInv /\ TemplatesInv
  /\ PromptsInv /\ SupportInv

LEMMA ShopSteps == ShopInv /\ [CommerceNext]_CommerceVars => ShopInv'
<1> SUFFICES ASSUME ShopInv, [CommerceNext]_CommerceVars PROVE ShopInv'  OBVIOUS
<1>1. /\ TermsInv /\ LandingInv /\ PricingInv /\ MediaInv /\ ChannelsInv /\ TemplatesInv
      /\ PromptsInv /\ SupportInv /\ ChannelShapes
  BY DEF ShopInv, ChannelsInv
<1>2. TermsInv'  BY <1>1, TermsSteps
<1>3. LandingInv'
  <2>1. [LandingNext]_landingVars  BY Zenon DEF CommerceNext, CommerceVars, shopVars
  <2> QED  BY <1>1, <2>1, LandingSteps
<1>4. PricingInv'
  <2>1. [PricingNext]_pricingVars  BY Zenon DEF CommerceNext, CommerceVars, shopVars
  <2> QED  BY <1>1, <2>1, PricingSteps
<1>5. MediaInv'
  <2>1. [MediaNext]_mediaVars  BY Zenon DEF CommerceNext, CommerceVars, shopVars
  <2> QED  BY <1>1, <2>1, MediaSteps
<1>6. PromptsInv'
  <2>1. [PromptsNext]_promptVars  BY Zenon DEF CommerceNext, CommerceVars, contactVars
  <2> QED  BY <1>1, <2>1, PromptsSteps
<1>7. SupportInv'
  <2>1. [SupportNext]_supportVars  BY Zenon DEF CommerceNext, CommerceVars, contactVars
  <2> QED  BY <1>1, <2>1, SupportSteps
<1>8. TemplatesInv'
  <2>1. TemplatesNext \/ UNCHANGED templateVars
    BY Zenon DEF CommerceNext, CommerceVars, contactVars
  <2> QED  BY <1>1, <2>1, TemplatesSteps
<1>9. ChannelsInv'
  <2>1. \/ [ChannelsNext]_channelVars \/ TemplatesNext
    BY Zenon DEF CommerceNext, CommerceVars, contactVars
  <2>2. [ChannelsNext]_channelVars \/ \E r \in Wired : Disconnect(r)
    BY Zenon, <2>1 DEF TemplatesNext
  <2> QED  BY <1>1, <2>2, ChannelsSteps, DisconnectKeeps
<1> QED  BY <1>2, <1>3, <1>4, <1>5, <1>6, <1>7, <1>8, <1>9 DEF ShopInv

(* What the store shows is true, whichever component behind it moves.         *)
THEOREM ShopfrontAlwaysTrue == CommerceSpec => []ShopfrontTrue
<1>1. CommerceInit => ShopInv
  <2> SUFFICES ASSUME CommerceInit PROVE ShopInv  OBVIOUS
  <2>1. /\ PaymentsInit /\ BillingInit /\ EntInit /\ LandingInit /\ IngestionInit /\ PricingInit
        /\ MediaInit /\ PrivacyInit /\ ChannelsInit /\ TemplatesInit /\ PromptsInit /\ SupportInit
    BY Zenon DEF CommerceInit
  <2>2. TermsInv
    BY <2>1, PaymentsStarts, BillingStarts, EntStarts, IngestionStarts, PrivacyStarts
    DEF MoneyInv, TermsInv, IngestionInit
  <2> QED
    BY <2>1, <2>2, LandingStarts, PricingStarts, MediaStarts, ChannelsStarts, TemplatesStarts,
       PromptsStarts, SupportStarts
    DEF ShopInv
<1>2. ShopInv => ShopfrontTrue
  <2> SUFFICES ASSUME ShopInv PROVE ShopfrontTrue  OBVIOUS
  <2>1. /\ IngestionInv /\ PrivacyInv /\ LandingInv /\ PricingInv /\ MediaInv /\ ChannelsInv
        /\ TemplatesInv /\ PromptsInv /\ SupportInv
    BY DEF ShopInv, TermsInv
  <2>2. /\ LandingTypeOK /\ LiveVersionWasChosen /\ LeadsNameAPublishedVersion
        /\ CandidatesFromPack /\ FloodCapped
    BY <2>1, LandingInvShows
  <2>3. /\ IngestionTypeOK /\ OneItemPerKey /\ DuplicatesOverlapped /\ RowsLoadOnce
        /\ UntitledSlippedIn
    BY <2>1, IngestionInvShows
  <2>4. /\ PricingTypeOK /\ StaleQuotesFlagged /\ BreakdownPassesGate /\ BreakdownAddsUp
        /\ ReplayMatches /\ JumpsAccounted
    BY <2>1, PricingInvShows
  <2>5. /\ MediaTypeOK /\ PictureIntact /\ OrphansAccounted
        /\ PrivacyTypeOK /\ MessagesGone /\ ErasedIsArchived /\ OriginalHandedOut
    BY <2>1, MediaInvShows, PrivacyInvShows
  <2>6. ChannelsTypeOK /\ SendsFromItsNumber /\ ReviewsFindTheStore
    BY <2>1, ChannelsInvShows
  <2>7. TemplatesTypeOK /\ SentTextWasApproved /\ LastWordStands  BY <2>1, TemplatesInvShows
  <2>8. /\ PromptsTypeOK /\ OneActiveBinding /\ SharedLayersOnce
        /\ TooManyAccounted /\ PinnedMeetsBound /\ SkeletonAccounted
    BY <2>1, PromptsInvShows
  <2>9. SupportTypeOK /\ ChainTellsTicket /\ ResolverStands /\ AccessLogged
    BY <2>1, SupportInvShows
  <2> QED  BY Zenon, <2>2, <2>3, <2>4, <2>5, <2>6, <2>7, <2>8, <2>9 DEF ShopfrontTrue
<1> QED  BY <1>1, <1>2, ShopSteps, PTL DEF CommerceSpec
=============================================================================
