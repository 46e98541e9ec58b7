----------------------------- MODULE Authoring -----------------------------
(* Workflow definitions and who may make one active: owners create and edit    *)
(* drafts, activation is simulated and approved, and the pack installer seeds  *)
(* its own rows under the same key (workflows/authoring.py, activation.py,     *)
(* store.py, consumer.py, packs/installer.py).  A definition's key stands for  *)
(* (workflow_key, version).  Texts are read by WorkflowDsl.                    *)
EXTENDS WorkflowDsl

CONSTANTS
  Submissions,    \* what owners submit: a key and a text
  PackTexts,      \* a function: the text of a key that the pack ships
  Authors,        \* requests of the builder API
  OwnerLimit,     \* MAX_OWNER_DEFINITIONS
  MaxActivations, \* bound on activation approvals
  MaxApplied,     \* bound on deliveries of a decision
  MaxWrites       \* bound on creates and edits

VARIABLES
  stored,          \* workflow_definitions by key
  author,         \* what each request of the API is at
  activations,    \* the workflow.activate approvals, oldest first
  slipped,        \* history: texts written when the report they escape was made
  writes

authoringVars == <<stored, author, activations, slipped, writes>>

DefKeys == {s.key : s \in Submissions} \cup DOMAIN PackTexts
NoRow == [status |-> "none"]
NotAsking == [at |-> "free"]

OwnerRows == {k \in DefKeys : stored[k] # NoRow /\ stored[k].origin = "owner_built"}

AuthoringInit ==
  /\ stored = [k \in DefKeys |-> NoRow]
  /\ author = [a \in Authors |-> NotAsking]
  /\ activations = << >>
  /\ slipped = {}
  /\ writes = 0

(* seed_definition: an upsert that keeps the origin of the row it overwrites.  *)
SeededKeepingGuards(key, text, guards, from, status) ==
  IF stored[key] = NoRow
  THEN [status |-> status, origin |-> from, text |-> text, guards |-> guards, by |-> from]
  ELSE [stored[key] EXCEPT !.text = text, !.status = status, !.by = from]

(* an upsert that never re-activates what it overwrites                        *)
SeededWithoutActivating(key, text, guards, from, status) ==
  [status |-> IF stored[key] = NoRow \/ status = "draft" THEN status ELSE stored[key].status,
   text |-> text, guards |-> guards, by |-> from,
   origin |-> IF stored[key] = NoRow THEN from ELSE stored[key].origin]

Seeded(key, text, guards, from, status) ==
  [status |-> status, text |-> text, guards |-> guards, by |-> from,
   origin |-> IF stored[key] = NoRow THEN from ELSE stored[key].origin]

(* A text put in place once a report of the key is out, or while the row is    *)
(* active, is one nobody simulated.                                            *)
ReportIsOut(key) ==
  \/ stored[key].status = "active"
  \/ \E a \in Authors : author[a].at = "simulated" /\ author[a].key = key
  \/ \E i \in DOMAIN activations : activations[i].key = key /\ activations[i].decision # "rejected"

Slip(key, text) ==
  slipped' = IF ReportIsOut(key) THEN slipped \cup {<<key, text>>} ELSE slipped

(* create_owner_definition: validate and count, then insert.                   *)
BelowLimitOrAt == Cardinality(OwnerRows) <= OwnerLimit

BelowLimit == Cardinality(OwnerRows) < OwnerLimit

StartCreate(a, sub) ==
  /\ author[a] = NotAsking
  /\ writes < MaxWrites
  /\ ValidateOwnerDsl(sub.text).ok
  /\ BelowLimit
  /\ author' = [author EXCEPT ![a] = [at |-> "counted", key |-> sub.key, text |-> sub.text]]
  /\ writes' = writes + 1
  /\ UNCHANGED <<stored, activations, slipped>>

InsertDraft(a) ==
  LET key == author[a].key
      text == author[a].text
  IN  /\ author[a].at = "counted"
      /\ stored' = [stored EXCEPT ![key] =
                     Seeded(key, text, ValidateOwnerDsl(text).guards, "owner_built", "draft")]
      /\ Slip(key, text)
      /\ author' = [author EXCEPT ![a] = NotAsking]
      /\ UNCHANGED <<activations, writes>>

(* update_owner_definition: the same row, whatever its status.                 *)
UpdateDefinition(sub) ==
  /\ writes < MaxWrites
  /\ sub.key \in OwnerRows
  /\ LET p == ValidateOwnerDsl(sub.text)
     IN  /\ p.ok
         /\ stored' = [stored EXCEPT ![sub.key] = [@ EXCEPT !.text = sub.text, !.guards = p.guards,
                                                           !.by = "owner_built"]]
  /\ Slip(sub.key, sub.text)
  /\ writes' = writes + 1
  /\ UNCHANGED <<author, activations>>

(* request_activation: read the status, simulate what is stored then, and      *)
(* raise the approval with the report.                                         *)
CheckRequest(a, key) ==
  /\ author[a] = NotAsking
  /\ Len(activations) < MaxActivations
  /\ key \in OwnerRows
  /\ stored[key].status # "active"
  /\ author' = [author EXCEPT ![a] = [at |-> "checked", key |-> key]]
  /\ UNCHANGED <<stored, activations, slipped, writes>>

Simulate(a) ==
  /\ author[a].at = "checked"
  /\ author' = [author EXCEPT ![a] = [at |-> "simulated", key |-> author[a].key,
                                      text |-> stored[author[a].key].text]]
  /\ UNCHANGED <<stored, activations, slipped, writes>>

RaiseActivation(a) ==
  /\ author[a].at = "simulated"
  /\ Len(activations) < MaxActivations
  /\ activations' = Append(activations, [key |-> author[a].key, report |-> author[a].text,
                                         decision |-> "pending", applied |-> 0])
  /\ author' = [author EXCEPT ![a] = NotAsking]
  /\ UNCHANGED <<stored, slipped, writes>>

DecideActivation(i) ==
  /\ activations[i].decision = "pending"
  /\ \E d \in {"approved", "rejected"} : activations' = [activations EXCEPT ![i].decision = d]
  /\ UNCHANGED <<stored, author, slipped, writes>>

(* on_activation_resolved: the event is delivered at least once, and activates *)
(* the row as it is then.                                                      *)
ResolvedActivates(i) == activations[i].decision # "pending"

DecisionActivates(i) == activations[i].decision = "approved"

ApplyDecision(i) ==
  /\ activations[i].decision # "pending"
  /\ activations[i].applied < MaxApplied
  /\ stored' = IF DecisionActivates(i)
              THEN [stored EXCEPT ![activations[i].key] = [@ EXCEPT !.status = "active"]]
              ELSE stored
  /\ activations' = [activations EXCEPT ![i].applied = @ + 1]
  /\ UNCHANGED <<author, slipped, writes>>

(* _seed_workflows: every workflow of the pack that parses, active.            *)
InstallWorkflows(key) ==
  /\ key \in DOMAIN PackTexts
  /\ writes < MaxWrites
  /\ LET p == ParseDsl(PackTexts[key], {})
     IN  /\ p.ok
         /\ stored' = [stored EXCEPT ![key] = Seeded(key, PackTexts[key], p.guards, "pack", "active")]
  /\ writes' = writes + 1
  /\ UNCHANGED <<author, activations, slipped>>

AuthoringNext ==
  \/ \E a \in Authors :
       \/ \E sub \in Submissions : StartCreate(a, sub)
       \/ InsertDraft(a)
       \/ \E key \in DefKeys : CheckRequest(a, key)
       \/ Simulate(a)
       \/ RaiseActivation(a)
  \/ \E sub \in Submissions : UpdateDefinition(sub)
  \/ \E i \in DOMAIN activations : DecideActivation(i) \/ ApplyDecision(i)
  \/ \E key \in DefKeys : InstallWorkflows(key)

AuthoringSpec == AuthoringInit /\ [][AuthoringNext]_authoringVars

--------------------------------------------------------------------------
AuthoringTypeOK ==
  /\ \A k \in DefKeys : stored[k].status \in {"none", "draft", "active"}
  /\ \A a \in Authors : author[a].at \in {"free", "counted", "checked", "simulated"}
  /\ Len(activations) <= MaxActivations
  /\ writes \in 0 .. MaxWrites

(* An owner's text is active only if its simulation was approved, or if it was *)
(* written once a report of its key was out (an edit in place, or a create of  *)
(* the same key): an approval speaks of a row, not of the text it simulated.   *)
ActiveIsVouched ==
  \A k \in DefKeys :
     stored[k].status = "active" /\ stored[k].by = "owner_built" =>
       \/ \E i \in DOMAIN activations :
            /\ activations[i].key = k
            /\ activations[i].decision = "approved"
            /\ activations[i].report = stored[k].text
       \/ <<k, stored[k].text>> \in slipped

(* The budget of owner-built definitions is exceeded by creates that counted   *)
(* together only.                                                              *)
DefinitionsOverrunBounded ==
  Cardinality(OwnerRows) <= OwnerLimit + Cardinality(Authors) - 1

(* What an owner wrote carries the mandated guards, also where it overwrote a  *)
(* row of the pack.                                                            *)
OwnerTextIsGuarded ==
  \A k \in DefKeys :
     stored[k] # NoRow /\ stored[k].by = "owner_built" => MandatedGuards \subseteq stored[k].guards

(* A workflow of the pack stops being active only under an owner's text.       *)
PackStaysUnlessOverwritten ==
  \A k \in DefKeys :
     stored[k] # NoRow /\ stored[k].origin = "pack" /\ stored[k].status # "active" =>
       stored[k].by = "owner_built"

=============================================================================
