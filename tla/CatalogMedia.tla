------------------------------ MODULE CatalogMedia ------------------------------
(* The photograph of one catalog item (src/core/catalog/media.py): three        *)
(* objects in a store, named by the item's row. Store and database share no     *)
(* transaction, so the code orders its steps: put the new objects, commit the   *)
(* association, delete the old ones. Calls overlap, die at any step, and may    *)
(* lose the answer of a commit that took effect.                                *)
EXTENDS Naturals, FiniteSets

CONSTANTS Uploads,    \* requests, each attaching its own image or removing one
          MaxLapses   \* bound: store failures, deaths and lost commit answers

NoImage == "no_image"
ASSUME MediaAssumption == NoImage \notin Uploads /\ MaxLapses \in Nat

VARIABLES
  pictured,   \* the image the row names, or NoImage
  objects,    \* <<image, part>> in the object store
  upload,     \* what each request is doing
  lapses_,    \* failures so far
  adrift,     \* images whose objects a failure or an overlap may leave behind
  disowned    \* images committed by a request that was told the commit failed

mediaVars == <<pictured, objects, upload, lapses_, adrift, disowned>>

Parts == 1..3   \* primary, thumbnail, original
ObjectsOf(image) == {image} \X Parts
NewUpload == [doing |-> "waiting", previous |-> NoImage, written |-> {}]

MediaInit ==
  /\ pictured = NoImage /\ objects = {} /\ upload = [u \in Uploads |-> NewUpload]
  /\ lapses_ = 0 /\ adrift = {} /\ disowned = {}

Become_(u, what) == upload' = [upload EXCEPT ![u] = what]
Lapse == lapses_ < MaxLapses /\ lapses_' = lapses_ + 1

(* attach, after `process` accepted the bytes; the row's keys are read now     *)
StartUpload(u) ==
  /\ upload[u].doing = "waiting"
  /\ Become_(u, [NewUpload EXCEPT !.doing = "putting", !.previous = pictured])
  /\ UNCHANGED <<pictured, objects, lapses_, adrift, disowned>>

(* store.put of the next part                                                *)
PutPart(u) ==
  LET next == <<u, Cardinality(upload[u].written) + 1>>
  IN  /\ upload[u].doing = "putting" /\ next[2] \in Parts
      /\ objects' = objects \cup {next}
      /\ Become_(u, [upload[u] EXCEPT !.written = @ \cup {next}])
      /\ UNCHANGED <<pictured, lapses_, adrift, disowned>>

(* Mutant: the replaced image's objects stay. *)
ReplacedNone(u) == {}

(* What is deleted once the new association is durable                       *)
Replaced(u) == ObjectsOf(upload[u].previous)

(* Mutant: the old objects are gone too when the commit fails. *)
CleanupOld(u) == upload[u].written \cup ObjectsOf(upload[u].previous)

(* What is deleted when it is not                                            *)
Cleanup(u) == upload[u].written

(* The request that took `image` off the row will delete it if it had read it  *)
Superseded(u) == IF upload[u].previous = pictured THEN {} ELSE {pictured}

CommitAttach(u) ==
  /\ upload[u].doing = "putting" /\ upload[u].written = ObjectsOf(u)
  /\ pictured' = u /\ adrift' = adrift \cup Superseded(u)
  /\ Become_(u, [upload[u] EXCEPT !.doing = "discarding",
                                  !.written = Replaced(u)])
  /\ UNCHANGED <<objects, lapses_, disowned>>

(* A put, the UPDATE or the commit fails: roll back, delete what was written   *)
FailAttach(u) ==
  /\ upload[u].doing = "putting" /\ Lapse
  /\ Become_(u, [upload[u] EXCEPT !.doing = "discarding", !.written = Cleanup(u)])
  /\ UNCHANGED <<pictured, objects, adrift, disowned>>

(* The commit took effect and its answer was lost: the same clean-up          *)
LoseAnswer(u) ==
  /\ upload[u].doing = "putting" /\ upload[u].written = ObjectsOf(u) /\ Lapse
  /\ pictured' = u /\ disowned' = disowned \cup {u}
  /\ adrift' = adrift \cup {pictured}
  /\ Become_(u, [upload[u] EXCEPT !.doing = "discarding", !.written = Cleanup(u)])
  /\ UNCHANGED objects

(* remove reads the keys, clears and commits, then deletes                    *)
StartRemove(u) ==
  /\ upload[u].doing = "waiting" /\ pictured # NoImage
  /\ Become_(u, [NewUpload EXCEPT !.doing = "removing", !.previous = pictured])
  /\ UNCHANGED <<pictured, objects, lapses_, adrift, disowned>>
CommitRemove(u) ==
  /\ upload[u].doing = "removing"
  /\ pictured' = NoImage /\ adrift' = adrift \cup Superseded(u)
  /\ Become_(u, [upload[u] EXCEPT !.doing = "discarding",
                                  !.written = Replaced(u)])
  /\ UNCHANGED <<objects, lapses_, disowned>>

(* _discard_keys: each delete is tried, and a failure logged                  *)
DiscardPart(u) ==
  /\ upload[u].doing = "discarding"
  /\ \E o \in upload[u].written :
       /\ Become_(u, [upload[u] EXCEPT !.written = @ \ {o}])
       /\ \/ objects' = objects \ {o} /\ UNCHANGED <<lapses_, adrift>>
          \/ Lapse /\ adrift' = adrift \cup {o[1]} /\ UNCHANGED objects
  /\ UNCHANGED <<pictured, disowned>>
FinishUpload(u) ==
  /\ upload[u].doing = "discarding" /\ upload[u].written = {}
  /\ Become_(u, [NewUpload EXCEPT !.doing = "done"])
  /\ UNCHANGED <<pictured, objects, lapses_, adrift, disowned>>

(* The process dies                                                          *)
DieUploading(u) ==
  /\ upload[u].doing \in {"putting", "removing", "discarding"} /\ Lapse
  /\ adrift' = adrift \cup {u, upload[u].previous}
  /\ Become_(u, [NewUpload EXCEPT !.doing = "done"]) /\ UNCHANGED <<pictured, objects, disowned>>

MediaNext ==
  \E u \in Uploads :
    \/ StartUpload(u) \/ PutPart(u) \/ CommitAttach(u) \/ FailAttach(u) \/ LoseAnswer(u)
    \/ StartRemove(u) \/ CommitRemove(u) \/ DiscardPart(u) \/ FinishUpload(u) \/ DieUploading(u)

MediaSpec == MediaInit /\ [][MediaNext]_mediaVars

-----------------------------------------------------------------------------
MediaTypeOK ==
  /\ pictured \in Uploads \cup {NoImage} /\ objects \subseteq Uploads \X Parts
  /\ \A u \in Uploads :
       upload[u].doing \in {"waiting", "putting", "removing", "discarding", "done"}

(* The row never names bytes that have been deleted: through overlapping       *)
(* uploads and removals, failures and deaths, all three objects of the pictured *)
(* image exist, unless its commit's answer was lost.                           *)
PictureIntact ==
  pictured # NoImage /\ pictured \notin disowned => ObjectsOf(pictured) \subseteq objects

(* When nothing runs, every object belongs to the pictured image, or a death, a *)
(* failed delete, a lost answer or a call that had read an older row left it.   *)
OrphansAccounted ==
  (\A u \in Uploads : upload[u].doing \in {"waiting", "done"}) =>
    \A o \in objects : o[1] = pictured \/ o[1] \in adrift
=============================================================================
