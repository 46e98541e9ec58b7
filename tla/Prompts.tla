------------------------------ MODULE Prompts -------------------------------
(* The layers of an agent's prompt and the binding that pins them              *)
(* (prompts/registry.py, composer.py, base_layers.py, tenant_layer.py, and     *)
(* packs/installer.py, whose transaction seeds and pins them).  One archetype  *)
(* and one task; the base layer is shared by every pack and the vertical layer *)
(* by every store that installs the pack.                                      *)
EXTENDS Naturals, Sequences, FiniteSets

CONSTANTS
  Installs,   \* installs of a pack in a store, one attempt each
  PackOf,     \* install -> pack
  Requires,   \* pack -> [least |-> the base its vertical needs, spaced |-> how it is written]
  Files,      \* versions of the base file that may be deployed: <<major, minor>>
  Swaps,      \* calls of pin_binding and revert_to after the install
  PromptRuns, \* runs of the task
  MaxChanges  \* bound: releases, edits and changes of settings beside the installs

ASSUME PromptsAssumption ==
  /\ PackOf \in [Installs -> DOMAIN Requires] /\ Files \subseteq Nat \X Nat /\ MaxChanges \in Nat
  /\ \A p \in DOMAIN Requires : Requires[p].least \in Nat \X Nat

VARIABLES
  baseFile,     \* the version of the base file on disk
  bundle,       \* pack -> version of the prompt layer in its bundle
  catalogued,   \* packs whose catalog schema is committed
  baseRows,     \* the committed base layers: version, and the install that made it
  verticalRows, \* pack -> version -> committed rows of its vertical layer
  facts,        \* install -> what the store's settings say: plain, or with {braces}
  install,      \* install -> how far its transaction is, and what it holds
  binding,      \* install -> its bindings, in the order they were made
  swap,         \* pin_binding and revert_to between their snapshot and their commit
  prompted,     \* run -> the binding it found and the prompt it got
  changes

promptVars == <<baseFile, bundle, catalogued, baseRows, verticalRows, facts, install,
                binding, swap, prompted, changes>>

BundleVersions == {1, 2}
Idle == [at |-> "idle"]
Uncommitted == {"seeded", "chosen"}

PromptsInit ==
  /\ baseFile \in Files
  /\ bundle = [p \in DOMAIN Requires |-> 1]
  /\ catalogued = {}
  /\ baseRows = << >>
  /\ verticalRows = [p \in DOMAIN Requires |-> [v \in BundleVersions |-> 0]]
  /\ facts = [i \in Installs |-> "plain"]
  /\ install = [i \in Installs |-> Idle]
  /\ binding = [i \in Installs |-> << >>]
  /\ swap = [s \in Swaps |-> Idle]
  /\ prompted = [r \in PromptRuns |-> Idle]
  /\ changes = 0

--------------------------------------------------------------------------
(* Versions are compared as strings.  A character is a number: a digit is its  *)
(* value plus one, and the dot sorts before every digit.                       *)
Chars(n) == IF n < 10 THEN <<n + 1>> ELSE <<(n \div 10) + 1, (n % 10) + 1>>
AsText(v) == Chars(v[1]) \o <<0>> \o Chars(v[2])
StringAtLeast(s, t) ==
  \E k \in 0 .. Len(t) :
    /\ k <= Len(s) /\ SubSeq(s, 1, k) = SubSeq(t, 1, k)
    /\ k = Len(t) \/ (k < Len(s) /\ s[k + 1] > t[k + 1])

(* Mutant: the bound is not looked at. *)
AnyVersion(v, spec) == TRUE

(* _satisfies: what follows ">=" in the pack's text, with the space the packs  *)
(* write there, and a space sorts before every digit                           *)
Satisfies(v, spec) == spec.spaced \/ StringAtLeast(AsText(v), AsText(spec.least))

(* check_compat, of a binding with or without a vertical layer                 *)
Compatible(i, v, vertical) == vertical => Satisfies(v, Requires[PackOf[i]])

ActiveOf(i) == {k \in DOMAIN binding[i] : binding[i][k].active}
Binding(v, vertical, tenant) ==
  [base |-> v, vertical |-> vertical, tenant |-> tenant, active |-> TRUE]
Deactivated(bs, off) == [k \in DOMAIN bs |-> [bs[k] EXCEPT !.active = @ /\ k \notin off]]

--------------------------------------------------------------------------
(* What is deployed and set beside the installs: a release of the base file,   *)
(* an edit of the pack's prompt under the same pack version, new settings.     *)
Changes == changes < MaxChanges /\ changes' = changes + 1

ReleaseBase(v) ==
  /\ Changes /\ v # baseFile /\ baseFile' = v
  /\ UNCHANGED <<bundle, catalogued, baseRows, verticalRows, facts, install, binding, swap, prompted>>
EditBundle(p) ==
  /\ Changes /\ bundle[p] = 1 /\ bundle' = [bundle EXCEPT ![p] = 2]
  /\ UNCHANGED <<baseFile, catalogued, baseRows, verticalRows, facts, install, binding, swap, prompted>>
ChangeSettings(i) ==
  /\ Changes
  /\ facts' = [facts EXCEPT ![i] = IF @ = "plain" THEN "braced" ELSE "plain"]
  /\ UNCHANGED <<baseFile, bundle, catalogued, baseRows, verticalRows, install, binding, swap, prompted>>

deployVars == <<baseFile, bundle, facts, changes>>

(* install: the bundle is parsed before the transaction begins                 *)
LoadBundle(i) ==
  /\ install[i] = Idle
  /\ install' = [install EXCEPT ![i] = [at |-> "loaded", version |-> bundle[PackOf[i]]]]
  /\ UNCHANGED <<deployVars, catalogued, baseRows, verticalRows, binding, swap, prompted>>

Others(i) == {j \in Installs \ {i} : PackOf[j] = PackOf[i]}

(* Mutant: nobody waits for another install's catalog schema. *)
SchemaFreeAlways(i) == TRUE

(* INSERT INTO catalog_schemas .. ON CONFLICT waits for an install of the pack *)
(* that has inserted the row and not committed it                              *)
SchemaFree(i) ==
  ~\E j \in Others(i) : install[j].at \in Uncommitted /\ install[j].schema

(* _register_catalog_schema and _seed_prompt_layers: WHERE NOT EXISTS sees     *)
(* committed rows                                                              *)
Seed(i) ==
  LET p == PackOf[i]  v == install[i].version IN
  /\ install[i].at = "loaded" /\ SchemaFree(i)
  /\ install' = [install EXCEPT ![i] =
       [at |-> "seeded", version |-> v, schema |-> p \notin catalogued,
        own |-> verticalRows[p][v] = 0]]
  /\ UNCHANGED <<deployVars, catalogued, baseRows, verticalRows, binding, swap, prompted>>

(* The rows scalar_one_or_none meets: the committed ones and its own           *)
BasesSeen == {k \in DOMAIN baseRows : baseRows[k].version = baseFile}
VerticalsSeen(i) ==
  verticalRows[PackOf[i]][1] + verticalRows[PackOf[i]][2] + (IF install[i].own THEN 1 ELSE 0)

(* Mutant: an incompatible pin is made all the same. *)
PinsAll(i) == TRUE

(* pin_binding refuses an incompatible pin, and the installer goes on without  *)
Pins(i) == Compatible(i, baseFile, TRUE)

(* _create_bindings_and_instances takes the row lock of the pack's binding,    *)
(* then _activate_prompts: ensure_base_layer, the vertical layer, the tenant   *)
(* layer from the settings of now, pin_binding.  Two rows where one is         *)
(* expected end the install.                                                   *)
Choose(i) ==
  /\ install[i].at = "seeded"
  /\ ~\E j \in Others(i) : install[j].at = "chosen"
  /\ install' = [install EXCEPT ![i] =
       IF Cardinality(BasesSeen) > 1 \/ VerticalsSeen(i) > 1 THEN [at |-> "tooMany"]
       ELSE [at |-> "chosen", version |-> @.version, schema |-> @.schema, own |-> @.own,
             base |-> baseFile, ownBase |-> BasesSeen = {}, pins |-> Pins(i), tenant |-> facts[i]]]
  /\ UNCHANGED <<deployVars, catalogued, baseRows, verticalRows, binding, swap, prompted>>

CommitInstall(i) ==
  LET p == PackOf[i]  t == install[i] IN
  /\ t.at = "chosen"
  /\ install' = [install EXCEPT ![i] = [at |-> "done"]]
  /\ catalogued' = catalogued \cup {p}
  /\ baseRows' = IF t.ownBase THEN Append(baseRows, [version |-> t.base, by |-> i]) ELSE baseRows
  /\ verticalRows' = [verticalRows EXCEPT ![p][t.version] = IF t.own THEN @ + 1 ELSE @]
  /\ binding' = IF t.pins THEN [binding EXCEPT ![i] = <<Binding(t.base, TRUE, t.tenant)>>]
                ELSE binding
  /\ UNCHANGED <<deployVars, swap, prompted>>

(* Another step fails or the process dies: all of it is rolled back            *)
AbortInstall(i) ==
  /\ install[i].at \in Uncommitted
  /\ install' = [install EXCEPT ![i] = [at |-> "failed"]]
  /\ UNCHANGED <<deployVars, catalogued, baseRows, verticalRows, binding, swap, prompted>>

--------------------------------------------------------------------------
(* pin_binding after the install: the layers are checked, then the UPDATE      *)
(* takes its snapshot of the active bindings                                   *)
BeginPin(s, i, k, vertical) ==
  /\ swap[s] = Idle /\ install[i].at = "done" /\ k \in DOMAIN baseRows
  /\ Compatible(i, baseRows[k].version, vertical)
  /\ swap' = [swap EXCEPT ![s] =
       [at |-> "pin", on |-> i, seen |-> ActiveOf(i), target |-> Len(binding[i]) + 1,
        new |-> Binding(baseRows[k].version, vertical, facts[i])]]
  /\ UNCHANGED <<deployVars, catalogued, baseRows, verticalRows, install, binding, prompted>>

(* revert_to an earlier binding: its layers are not checked again              *)
BeginRevert(s, i, k) ==
  /\ swap[s] = Idle /\ k \in DOMAIN binding[i]
  /\ swap' = [swap EXCEPT ![s] =
       [at |-> "revert", on |-> i, seen |-> ActiveOf(i), target |-> k]]
  /\ UNCHANGED <<deployVars, catalogued, baseRows, verticalRows, install, binding, prompted>>

(* Mutant: nothing keeps a second active binding out. *)
NoneStanding(s) == {}

(* Bindings that uq_prompt_bindings_active meets: active now, not deactivated  *)
(* by this call, whose UPDATE saw the rows of its snapshot only                *)
Standing(s) == ActiveOf(swap[s].on) \ swap[s].seen

(* The row locks are granted, and the rest of the call commits or the unique   *)
(* index ends it                                                               *)
FinishSwap(s) ==
  LET c == swap[s]  left == Deactivated(binding[c.on], c.seen) IN
  /\ c.at \in {"pin", "revert"}
  /\ swap' = [swap EXCEPT ![s] = [at |-> "over"]]
  /\ binding' =
       IF c.at = "pin"
       THEN IF Standing(s) = {} THEN [binding EXCEPT ![c.on] = Append(left, c.new)] ELSE binding
       ELSE IF Standing(s) \subseteq {c.target}
            THEN [binding EXCEPT ![c.on] = [left EXCEPT ![c.target].active = TRUE]] ELSE binding
  /\ UNCHANGED <<deployVars, catalogued, baseRows, verticalRows, install, prompted>>

--------------------------------------------------------------------------
(* executor._make_compose: get_active_binding, then render; without a binding, *)
(* or when the rendering raises, the skeleton                                  *)
FindBinding(r, i) ==
  /\ prompted[r] = Idle /\ install[i].at = "done"
  /\ prompted' = [prompted EXCEPT ![r] =
       IF ActiveOf(i) = {} THEN [at |-> "skeleton", on |-> i, binding |-> {}]
       ELSE [at |-> "found", on |-> i, binding |-> ActiveOf(i)]]
  /\ UNCHANGED <<deployVars, catalogued, baseRows, verticalRows, install, binding, swap>>

(* render: check_compat again, and a {name} in the tenant layer has no value:  *)
(* the executor passes no parameters                                           *)
Render(r) ==
  LET f == prompted[r] IN
  /\ f.at = "found"
  /\ \E k \in f.binding :
       LET b == binding[f.on][k] IN
       prompted' = [prompted EXCEPT ![r] =
         [at |-> IF Compatible(f.on, b.base, b.vertical) /\ b.tenant = "plain"
                 THEN "grounded" ELSE "skeleton",
          on |-> f.on, binding |-> {k}]]
  /\ UNCHANGED <<deployVars, catalogued, baseRows, verticalRows, install, binding, swap>>

PromptsNext ==
  \/ \E v \in Files : ReleaseBase(v)
  \/ \E p \in DOMAIN Requires : EditBundle(p)
  \/ \E i \in Installs :
       \/ ChangeSettings(i)
       \/ LoadBundle(i) \/ Seed(i) \/ Choose(i) \/ CommitInstall(i) \/ AbortInstall(i)
       \/ \E s \in Swaps :
            \/ \E k \in DOMAIN baseRows, vertical \in BOOLEAN : BeginPin(s, i, k, vertical)
            \/ \E k \in DOMAIN binding[i] : BeginRevert(s, i, k)
       \/ \E r \in PromptRuns : FindBinding(r, i)
  \/ \E s \in Swaps : FinishSwap(s)
  \/ \E r \in PromptRuns : Render(r)

PromptsSpec == PromptsInit /\ [][PromptsNext]_promptVars

--------------------------------------------------------------------------
PromptsTypeOK ==
  /\ baseFile \in Files
  /\ \A i \in Installs :
       /\ install[i].at \in {"idle", "loaded", "done", "failed", "tooMany"} \cup Uncommitted
       /\ \A k \in DOMAIN binding[i] : binding[i][k].tenant \in {"plain", "braced"}
  /\ \A s \in Swaps : swap[s].at \in {"idle", "pin", "revert", "over"}
  /\ \A r \in PromptRuns : prompted[r].at \in {"idle", "found", "grounded", "skeleton"}
  /\ changes \in 0 .. MaxChanges

(* migration 010: exactly one binding is active for a task once one was made,  *)
(* whatever pins and reverts overlap.                                          *)
OneActiveBinding ==
  \A i \in Installs : binding[i] # << >> => Cardinality(ActiveOf(i)) = 1

(* The layers that installs share are written once although nothing in the     *)
(* schema says so: a pack's vertical layer because the catalog schema makes    *)
(* the installs of a pack wait, and the base layer within a pack because the   *)
(* agent binding does.  Only installs of two packs leave two base layers.      *)
SharedLayersOnce ==
  /\ \A p \in DOMAIN Requires : bundle[p] = 1 => verticalRows[p][1] <= 1
  /\ \A k, l \in DOMAIN baseRows :
       k # l /\ baseRows[k].version = baseRows[l].version
       => PackOf[baseRows[k].by] # PackOf[baseRows[l].by]

(* An install that ends because a layer is there twice met the base layers of  *)
(* two packs, or a vertical layer reworded under the same pack version.        *)
TooManyAccounted ==
  \A i \in Installs :
    install[i].at = "tooMany" =>
      \/ bundle[PackOf[i]] = 2
      \/ \E k, l \in DOMAIN baseRows :
           k # l /\ baseRows[k].version = baseRows[l].version

Newer(v, w) == v[1] > w[1] \/ (v[1] = w[1] /\ v[2] >= w[2])
OneDigit(v) == v[1] < 10 /\ v[2] < 10

(* A pinned vertical layer stands on a base that its pack accepts, as numbers  *)
(* go, if the bound is written without a space and no part has two digits.     *)
PinnedMeetsBound ==
  \A i \in Installs : \A k \in DOMAIN binding[i] :
    LET b == binding[i][k]  spec == Requires[PackOf[i]] IN
    b.vertical /\ ~spec.spaced /\ OneDigit(b.base) /\ OneDigit(spec.least)
    => Newer(b.base, spec.least)

(* A run that found a binding gets the grounded prompt, though its layers are  *)
(* checked again and the binding may be swapped meanwhile: only braces in the  *)
(* owner's settings send it back to the skeleton.                              *)
SkeletonAccounted ==
  \A r \in PromptRuns :
    prompted[r].at = "skeleton" =>
      \A k \in prompted[r].binding : binding[prompted[r].on][k].tenant = "braced"
=============================================================================
