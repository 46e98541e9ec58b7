-------------------------------- MODULE Landing --------------------------------
(* One landing page (src/core/landing): candidates planned by the model or by  *)
(* the archetypes, the lifecycle the owner drives, the public form and its     *)
(* flood limit. A transition reads the status and writes it in two statements  *)
(* of one READ COMMITTED transaction, with no lock taken by the read.          *)
EXTENDS Naturals, FiniteSets, SequencesExt

CONSTANTS
  PackPlan,    \* the pack's section plan for the page's goal
  Written,     \* the sections the campaign and the pack have content for
  Archetypes,  \* _VARIANT_ARCHETYPES: [drop, lead]
  Answers,     \* what the model may answer: sequences of section plans
  Owners,      \* requests and tool calls that move the page
  Visitors,    \* submissions of the public form
  PerMin,      \* LEAD_PER_MIN
  FloodWindow, \* _WINDOW_S
  LastMinute     \* bound: the clock

OnceEach(s) == \A i, j \in DOMAIN s : s[i] = s[j] => i = j

(* The packs' plans and the archetypes' leads name a section once, and no      *)
(* archetype drops the hero, for which every campaign has content.             *)
ASSUME LandingAssumption ==
  /\ PackPlan \in Seq(STRING) /\ OnceEach(PackPlan)
  /\ "hero" \in ToSet(PackPlan) /\ "hero" \in Written
  /\ Archetypes \in Seq([drop : SUBSET (STRING \ {"hero"}), lead : Seq(STRING)])
  /\ \A i \in DOMAIN Archetypes : OnceEach(Archetypes[i].lead)
  /\ Answers \subseteq Seq(Seq(STRING))
  /\ PerMin \in Nat \ {0} /\ FloodWindow \in Nat /\ LastMinute \in Nat

VARIABLES
  page,        \* landing_pages: status and current version
  versions_,   \* landing_page_versions: plan, planner, published
  owner,       \* what each transition has read and will write
  chosen,      \* the versions an owner selected or rolled back to
  form,        \* each submission: where it is and the version it read
  leads,       \* leads, by submission: the version they are stamped with
  bucket,      \* the limiter's deque for the visitors' address
  passed,      \* every moment a submission was let through
  clock_,      \* monotonic time
  hosted       \* the store holds landing_pages

landingVars == <<page, versions_, owner, chosen, form, leads, bucket, passed, clock_, hosted>>

Unasked == [to |-> "", version |-> 0]

LandingInit ==
  /\ page = [status |-> "absent", current |-> 0] /\ versions_ = <<>>
  /\ owner = [w \in Owners |-> Unasked] /\ chosen = {}
  /\ form = [v \in Visitors |-> [at |-> "blank", version |-> 0]] /\ leads = <<>>
  /\ bucket = <<>> /\ passed = <<>> /\ clock_ = 0 /\ hosted = TRUE

-----------------------------------------------------------------------------
(* Candidates                                                                *)

(* What a sequence holds at some of its indices, in its order                *)
At(s, indices) ==
  LET order == CHOOSE f \in [1..Cardinality(indices) -> indices] :
                 \A m, n \in 1..Cardinality(indices) : m < n => f[m] < f[n]
  IN  [n \in 1..Cardinality(indices) |-> s[order[n]]]

Rearranged(plan, shape) ==
  LET kept == At(plan, {i \in DOMAIN plan : plan[i] \notin shape.drop})
      lead == At(shape.lead, {i \in DOMAIN shape.lead : shape.lead[i] \in ToSet(kept)})
  IN  lead \o At(kept, {i \in DOMAIN kept : kept[i] \notin ToSet(lead)})

(* Mutant: the model's sections are taken as they come. *)
CoercedAsGiven(plan) == plan

Coerced(plan) ==
  At(plan, {i \in DOMAIN plan : plan[i] \in ToSet(PackPlan) /\ \A j \in 1..(i - 1) : plan[j] # plan[i]})

Filled(plan) == At(plan, {i \in DOMAIN plan : plan[i] \in Written})

Usable(answer) ==
  /\ answer # <<>>
  /\ \A i \in DOMAIN answer : Coerced(answer[i]) # <<>> /\ Coerced(answer[i])[1] = "hero"

Candidate(plan, planner) ==
  [plan |-> Filled(plan), planner |-> planner, published |-> FALSE]
AtMost(n, s) == SubSeq(s, 1, IF n < Len(s) THEN n ELSE Len(s))

Planned(n, answer) ==
  IF Usable(AtMost(n, answer))
  THEN [i \in 1..Len(AtMost(n, answer)) |-> Candidate(Coerced(answer[i]), "llm")]
  ELSE [i \in 1..Len(AtMost(n, Archetypes)) |->
          Candidate(Rearranged(PackPlan, Archetypes[i]), "deterministic")]

(* create_page, from-upload and landing_page.generate; UNIQUE (org_id, slug); *)
(* the answer <<>> also stands for the provider being off or failing         *)
Generate(n, answer) ==
  /\ page.status = "absent"
  /\ versions_' = IF n = 1 THEN <<Candidate(PackPlan, "deterministic")>> ELSE Planned(n, answer)
  /\ page' = [status |-> "generated", current |-> 1]
  /\ UNCHANGED <<owner, chosen, form, leads, bucket, passed, clock_, hosted>>

-----------------------------------------------------------------------------
(* Lifecycle                                                                 *)

Moves == [generated |-> {"awaiting_approval", "approved", "archived"},
          awaiting_approval |-> {"approved", "generated", "archived"},
          approved |-> {"published", "generated", "archived"},
          published |-> {"paused", "approved", "archived"},
          paused |-> {"published", "approved", "archived"},
          archived |-> {}]
Requests_ == {[to |-> "approved", version |-> n] : n \in DOMAIN versions_}
             \cup {[to |-> s, version |-> 0] :
                     s \in {"awaiting_approval", "published", "paused", "archived"}}

ReadStatus(w, r) ==
  /\ hosted /\ owner[w] = Unasked /\ page.status # "absent"
  /\ r.to \in Moves[page.status]
  /\ owner' = [owner EXCEPT ![w] = r]
  /\ UNCHANGED <<page, versions_, chosen, form, leads, bucket, passed, clock_, hosted>>

(* Mutant: the status is written and the page is not repointed. *)
TargetKept(r) == page.current

Target(r) == IF r.to = "approved" THEN r.version ELSE page.current

(* The UPDATE does not look at the status again; select_variant and rollback *)
(* differ in the approver's stamp only, which nothing reads                  *)
WriteStatus(w) ==
  LET r == owner[w]
      v == Target(r)
  IN  /\ r # Unasked
      /\ page' = [status |-> r.to, current |-> v]
      /\ versions_' = [versions_ EXCEPT ![v].published = @ \/ r.to = "published"]
      /\ chosen' = IF r.to = "approved" THEN chosen \cup {r.version} ELSE chosen
      /\ owner' = [owner EXCEPT ![w] = Unasked]
      /\ UNCHANGED <<form, leads, bucket, passed, clock_, hosted>>

DropTransition(w) ==
  /\ owner[w] # Unasked /\ owner' = [owner EXCEPT ![w] = Unasked]
  /\ UNCHANGED <<page, versions_, chosen, form, leads, bucket, passed, clock_, hosted>>

SetHosted ==
  /\ hosted' = ~hosted
  /\ UNCHANGED <<page, versions_, owner, chosen, form, leads, bucket, passed, clock_>>

-----------------------------------------------------------------------------
(* The public form                                                           *)

(* popleft, while the oldest hit is too old at this moment                   *)
Popped(hits, moment) ==
  LET left == CHOOSE n \in 0..Len(hits) :
                /\ \A i \in 1..n : hits[i] + FloodWindow < moment
                /\ n < Len(hits) => hits[n + 1] + FloodWindow >= moment
  IN  SubSeq(hits, left + 1, Len(hits))

(* Mutant: a hit leaves the window one tick early. *)
RecentEarly(hits) == Popped(hits, clock_ + 1)

(* ratelimit.allow: hits before the cutoff leave the deque                   *)
Recent(hits) == Popped(hits, clock_)

Submit(v) ==
  /\ form[v].at = "blank"
  /\ IF Len(Recent(bucket)) >= PerMin
     THEN /\ form' = [form EXCEPT ![v].at = "limited"] /\ bucket' = Recent(bucket)
          /\ UNCHANGED passed
     ELSE /\ form' = [form EXCEPT ![v].at = "allowed"]
          /\ bucket' = Append(Recent(bucket), clock_) /\ passed' = Append(passed, clock_)
  /\ UNCHANGED <<page, versions_, owner, chosen, leads, clock_, hosted>>

(* allow's sweep, when other addresses filled the table: a bucket whose      *)
(* newest hit is stale goes                                                  *)
Sweep ==
  /\ bucket # <<>> /\ bucket[Len(bucket)] + FloodWindow < clock_ /\ bucket' = <<>>
  /\ UNCHANGED <<page, versions_, owner, chosen, form, leads, passed, clock_, hosted>>

(* Mutant: the form is open while the page is paused. *)
ServedPaused == hosted /\ page.status \in {"published", "paused", "approved"}

(* published_spec, _published_page                                           *)
Served == hosted /\ page.status = "published"

ReadPage(v) ==
  /\ form[v].at = "allowed"
  /\ form' = [form EXCEPT ![v] = IF Served THEN [at |-> "reading", version |-> page.current]
                                 ELSE [at |-> "neutral", version |-> 0]]
  /\ UNCHANGED <<page, versions_, owner, chosen, leads, bucket, passed, clock_, hosted>>

(* The contact, the lead, the funnel event and the parked draft commit       *)
(* together                                                                  *)
CaptureLead(v) ==
  /\ form[v].at = "reading"
  /\ form' = [form EXCEPT ![v].at = "captured"] /\ leads' = Append(leads, form[v].version)
  /\ UNCHANGED <<page, versions_, owner, chosen, bucket, passed, clock_, hosted>>

Later ==
  /\ clock_ < LastMinute /\ clock_' = clock_ + 1
  /\ UNCHANGED <<page, versions_, owner, chosen, form, leads, bucket, passed, hosted>>

LandingNext ==
  \/ \E n \in 1..Len(Archetypes), answer \in Answers : Generate(n, answer)
  \/ \E w \in Owners :
       \/ \E r \in Requests_ : ReadStatus(w, r)
       \/ WriteStatus(w) \/ DropTransition(w)
  \/ SetHosted \/ Sweep \/ Later
  \/ \E v \in Visitors : Submit(v) \/ ReadPage(v) \/ CaptureLead(v)

LandingSpec == LandingInit /\ [][LandingNext]_landingVars

-----------------------------------------------------------------------------
LandingTypeOK ==
  /\ page.status \in DOMAIN Moves \cup {"absent"}
  /\ page.current \in DOMAIN versions_ \cup {0}
  /\ chosen \subseteq DOMAIN versions_ /\ ToSet(leads) \subseteq DOMAIN versions_
  /\ clock_ \in 0..LastMinute /\ Len(bucket) <= PerMin

(* Whatever transitions overlap, the version of a page that is approved, live *)
(* or paused is one the owner selected or rolled back to.                     *)
LiveVersionWasChosen ==
  page.status \in {"approved", "published", "paused"} => page.current \in chosen

(* A lead is stamped with a version that was published, although the page may *)
(* be paused, repointed or archived before the lead commits.                  *)
LeadsNameAPublishedVersion == \A i \in DOMAIN leads : versions_[leads[i]].published

(* However the model answers, a candidate only reorders or drops sections of  *)
(* the pack, repeats none, and leads with the hero if the model planned it.   *)
CandidatesFromPack ==
  \A n \in DOMAIN versions_ :
    LET c == versions_[n]
    IN  /\ ToSet(c.plan) \subseteq ToSet(PackPlan) /\ c.plan # <<>>
        /\ OnceEach(c.plan)
        /\ c.planner = "llm" => c.plan[1] = "hero"

(* No window of FloodWindow ticks lets more than PerMin submissions of one    *)
(* address through, across pruning and sweeps.                                *)
FloodCapped ==
  \A i \in DOMAIN passed :
    Cardinality({j \in DOMAIN passed : passed[j] \in passed[i]..(passed[i] + FloodWindow)})
      <= PerMin
=============================================================================
