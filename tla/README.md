# A formal model of Growth Operator

Growth Operator is a multi-tenant assistant for small businesses: agents and
declarative workflows diagnose silent leads, draft and send WhatsApp messages,
build campaigns, quote prices and chase payments, under a policy that decides which
actions a human must approve. The parts worth a model are the ones that keep promises
across crashes, retries and concurrent requests, and that is nearly all of `core/`:
what is checked here is one promise per component, stated at the point where two
actors, or a failure between two transactions, could break it.

This directory holds a TLA+ module per component, configurations that
model-check them, and machine-checked proofs about the workflow engine, the event
plane, the approvals, the agent runtime, the recovery path, the components around an
agent's turn and the store's business. `PROJECT.json` ties every definition to the lines it models.

## Contents

1. [How the code runs](#how-the-code-runs)
2. [Inventory](#inventory)
3. [Modules](#modules)
4. [Runs](#runs)
5. [Where the code departs from its documentation](#where-the-code-departs-from-its-documentation)
6. [Bounds](#bounds)
7. [Fairness](#fairness)
8. [Proofs](#proofs)
9. [What is not modelled](#what-is-not-modelled)
10. [Plan](#plan)

## How the code runs

The deployment is a FastAPI process (`core/main.py`), a worker process
(`core/worker.py`) with the outbox publisher and one asyncio task per registered
consumer, and a scheduler process (`core/scheduler.py`). They share PostgreSQL
and Redis. Any of them may be replicated and any may die at any point.

*The atomic step is a transaction.* `org_scoped_session`
(`core/tenancy/middleware.py:88-111`) opens one transaction at READ COMMITTED and
sets the tenant; it takes no lock (only `core/audit/writer.py` takes an advisory
one). A `SELECT` followed by an `UPDATE` that uses what it read is therefore two
steps in the modules, with any other process in between, unless the `SELECT` is
`FOR UPDATE`. A single Redis command is one step. A process death falls between
any two steps and rolls back the open transaction.

*READ COMMITTED re-checks less than it seems.* An `UPDATE` that waited for a
concurrent writer re-evaluates its own `WHERE` on the new row version, not the
sub-select in it. `_claim` (`core/workflows/waits.py`) and `_promote_next`
(`core/workflows/executor.py`) carry their status condition in a sub-select only.

*Components talk through events.* A service inserts an outbox row in its own
transaction; the publisher relays it to a Redis stream; a consumer group hands it
to a handler under a dedupe row. Handlers open sessions of their own, so their
work commits apart from the dedupe row.

## Inventory

For each component: its state, its operations, its difficulty, and the properties
that make it correct. The last column names the module.

| Component | State | Operations | What is hard | What must hold | Module |
|---|---|---|---|---|---|
| **Workflow engine** `core/workflows/{executor,waits,consumer,tool_step}.py` | `workflow_runs` (status, cursor, vars), `workflow_run_events`, `wait_subscriptions` | `start_run` with the drop, queue and replace policies; `_advance`; `wake_run`, `resume_human`, `resume_tool`, `resume_run`; `_compensate`; `_promote_next`; `match_reply`, `sweep_waits` | several loops drive one run; effects happen between two transactions; rows are read, then written back without a check; decisions are redelivered | a gated tool runs only when approved; until a handover goes wrong, effects happen once and none is skipped, an ended run stays ended, parked runs can be woken; one live run per key | `WorkflowEngine` |
| **Diagnosis and acting step** `core/runtime/diagnosis.py`, `core/workflows/{diagnose_step,tool_step}.py` | the bound diagnosis, grants | rank, abstain, gate, resolve inputs and principal, act | the authority is read in two transactions after the gate; a model's numbers | only declared and stated reasons; acts only for a certified workflow whose authority still stands | `Diagnosis` |
| **Event plane** `core/events/{outbox,consumer}.py` | `event_outbox`, streams, pending entries, retry hash, `dedupe_consumer`, dead letters | emit, `publish_batch`, `drain_once`, `_process`, `replay_dlq`, `prune_dedupe` | deaths between XADD, mark, handler, dedupe commit and XACK; reclaiming from a slow worker | nothing lost; repeats explained; one handler at a time; bounded retries | `EventPlane`, `EventDelivery` |
| **Scheduler** `core/events/scheduler.py`, `core/scheduler.py` | the lock per job and minute | `run_due`, `_acquire`, the tick | skewed clocks, jobs that outlast the lock, a sleep that starts when the round ends | a repeat only once the lock's time is over; no due minute left out but one that passed in a round or a death | `Scheduler` |
| **Approvals** `core/approvals/{service,notify,api}.py` | `approvals`, `approval.resolved.v1` | `create_approval`, `resolve`, approve-with-edit, the ladder, text replies | the ladder's unguarded writes, racing taps, notices before their stamp | one decision; no edit above its tier; every approval ends | `ApprovalLifecycle` |
| **Tier engine and trust** `core/approvals/{engine,trust}.py` | tier rules, `trust_ledger`, the volume knob | `evaluate`, settle, `record_incident` | rules of a whole family are pooled; an incident overwrites the date of an earlier one | the knob only tightens; trust is earned by clean windows | `Autonomy` |
| **Mediation proxy** `core/mediation/` | rate windows and budgets in Redis, violations | `call`: manifest, narrowing, rate, budget, tier, plan, effect | each gate reads at its own moment; check and record apart | a standing refusal refuses; excess owed to racing calls only | `Mediation` |
| **Agent runtime** `core/runtime/{executor,resume,failure,graph}.py` | agent runs, steps, checkpoints in Redis, breaker | drive, park, `resume_after_approval`, retry, breaker | the park commits before the checkpoint; resume has no claim | no gated effect without consent; a resolved park moves; replies explained | `AgentRuntime` |
| **Planner and model routing** `core/runtime/{planner,routing,models_admin,llm_client,providers}.py` | routes and overrides, `costs_lite`, alerts | guards of a message, route lookup, attempts, fallback, node deadline | the route is cached while it changes; the deadline cuts between a row and its alert | no run past a standing refusal; answers and holding replies backed by rows; a broken route is seen | `ModelRouting` |
| **Audit chain and settings** `core/audit/`, `core/tenancy/settings.py` | `audit_log`, anchors, setting versions | append under an advisory lock, anchor, verify, set | aborted and overlapping appends; before-values read early | gap-free chain; diffs are true | `AuditTrail` |
| **WhatsApp send and recovery** `core/channels/whatsapp/send.py`, `core/customers/{recovery*,lifecycle}.py` | `messages`, idempotency keys, attempts, touches | sweep, attempt, gates, `_claim_dispatch`, provider call, replies, STOP | a death between claim and answer; STOP racing a send | one dispatch per episode; STOP stops; the cap holds | `Outreach` |
| **WhatsApp ingress** `core/channels/whatsapp/{ingress,normalizer}.py` | webhook rows, conversations, contacts | receive, claim, normalise, retry, quarantine | repeated webhooks in other groupings, deaths between messages | each message once; one open conversation; failures reported | `Ingress` |
| **Campaigns** `core/campaigns/` | campaigns, `campaign_sends` | request, approve, queue, batch send, halt, complete | overlapping batches, one hourly budget, requests whose status write comes late | copies bounded by the races; a rejected campaign sends nothing and an ended one stays ended, but for such a late write | `Campaigns` |
| **Payments** `core/payments/` | transactions, links, receipts | webhook, reconcile, draft, approve, deliver | webhook and reconciliation meet on one row | numbers gap-free; no capture lost; receipts accounted | `Payments` |
| **Billing, plans, budgets** `core/billing/` | plans, subscriptions, budgets | create, price, copy, retire, assign, seed, charge | edits and sales overlap | sold terms hold; nobody enters a retired plan | `Billing` |
| **Entitlements** `core/tenancy/{entitlements,capabilities}.py` | a plan's draft, capabilities | validate, bless, prune, reconcile, copy | mutual requirements of capabilities | a blessed plan delivers; the grants are the largest sound set | `Entitlements` |
| **Login and sessions** `core/tenancy/{auth,tokens}.py` | codes, sessions | request and verify a code, refresh, logout, revoke | parallel refreshes and guesses | one successor; a dead family stays dead; attempts bounded | `Identity` |
| **Members and seats** `core/tenancy/{seats,invites,orgs_router}.py` | memberships, invites, plan | create, invite, accept, expire | check, then insert | seats exceeded by races only; roles stay | `Membership` |
| **Packs** `core/packs/installer.py`, `core/tenancy/provisioning.py` | pack rows, instances | install, finalise, activate, uninstall | failure or death at any of its transactions | installed whole or not at all; uninstalled is paused | `Packs` |
| **Landing pages** `core/landing/` | pages, versions, leads, limiter | plan, generate, publish, pause, archive, roll back, capture | status read without a lock | the live version was chosen; leads name a published version | `Landing` |
| **Catalog** `core/catalog/{crud,media,availability}.py` | items, images | create, patch, archive, attach | identity without a unique index; objects outside the transaction | one item per key; pictures intact | `Catalog`, `CatalogMedia` |
| **Ingestion** `core/ingestion/` | batches, rows | extract, validate, review, load, revert, reap | unconditional state writes | rows load once; a revert spares edits other than of pictures | `Ingestion` |
| **Pricing** `core/pricing/` | rates, quotes, ledger | fetch, quote, gate, flag, replay | rounding, stale inputs, the step bound | quotes add up and pass the figures gate; stale ones flagged | `Pricing` |
| **Workflow DSL and authoring** `core/workflows/{parser,schema,guards,program,triggers,authoring,activation,simulate,store}.py` | `workflow_definitions`, budgets, approvals of activations | parse, compile, match triggers; seed, draft, edit, simulate, request activation, apply | one row is upserted by packs and owners; an approval speaks of a text that may change | mandated guards survive; owners stay within their verbs; what is active was vouched for | `WorkflowDsl`, `Authoring` |
| **Privacy requests** `core/customers/{dpdp,annotations}.py` | contact, messages, notes, tags, archive | export, erase, annotate, hand out the archive | the erasure reads, deletes and anonymises while rows commit | what was there is gone and archived; the erased stays blank | `Privacy` |
| **WhatsApp channels** `core/channels/whatsapp/connect.py`, `core/channels/admin.py` | channel rows, credentials | owner connects, operator pastes, disconnects | a lookup without a lock, then an update by id | a row's number and secret belong together; one store per number | `Channels` |
| **WhatsApp templates** `core/channels/whatsapp/templates.py` | templates, Meta's notices | edit, submit, drain reviews | the text is read before Meta is called; reviews come by name, again, late | what is sent was approved; the last word stands | `Templates` |
| **Prompts** `core/prompts/`, `core/packs/installer.py` | layers, bindings | seed, pin, revert, render | check, then insert, of rows all stores share; bounds compared as strings | shared layers once; one active binding; grounded prompts | `Prompts` |
| **Support and the operator plane** `core/support/`, `core/tenancy/platform_{admin,permissions}.py` | tickets, allowlist, access log | raise, triage, grant, revoke | the role is read once; row lock and chain lock in one transaction | the audit chain tells the row; every access is logged | `Support` |
| **Customers' lists, insights, notifications, web, infra** | derived data, files | queries, rendering | | no protocol of their own | |

## Modules

| Module | Models | EXTENDS |
|---|---|---|
| `WorkflowEngine`, `MCWorkflowEngine` | executor.py, waits.py, consumer.py, with approvals as the environment the engine sees | standard modules |
| `WorkflowEngineProofs`, `EventPlaneProofs`, `ApprovalLifecycleProofs`, `AgentRuntimeProofs`, `OutreachProofs` | the theorems about it | the module, `TLAPS`, `FiniteSetTheorems` where sets are counted |
| `EventPlane`, `MCEventPlane` | outbox.py, consumer.py | standard modules |
| `EventDelivery` | what the event plane promises a group; `EventPlane` implements it | `Naturals` |
| `ApprovalLifecycle` | service.py, api.py's transaction, notify.py | standard modules |
| `AgentRuntime` | the durable executor, resume, breaker | standard modules |
| `Outreach`, `MCOutreach` | recovery sweep and attempts, lifecycle, the WhatsApp send | standard modules |
| `Mediation` over `Autonomy` | the proxy over the tier engine | `Mediation` extends `Autonomy` |
| `Campaigns`, `Ingress`, `Packs`, `AuditTrail`, `Identity`, `Membership`, `Scheduler`, `ModelRouting`, `Diagnosis`, `WorkflowDsl`, `Authoring` | one component each | standard modules |
| `AgentPlane` | the components of the two rows above but the DSL and authoring, in one specification | all of them |
| `AgentPlaneProofs` | the lemmas about its components, and the theorems about `AgentPlane` | `AgentPlane`, `TLAPS`, `FiniteSetTheorems` |
| `MCAgentPlane` | `AgentPlane` with the DSL and authoring, in one run | `AgentPlane`, `Authoring`, `WorkflowDsl` |
| `Payments`, `Billing`, `Entitlements`, `Landing`, `Catalog`, `CatalogMedia`, `Pricing`, `Privacy`, `Channels`, `Prompts`, `Support` | one component each | standard modules |
| `Ingestion` over `Catalog` | the import, which creates items | `Catalog` |
| `Templates` over `Channels` | templates, whose notices find a store by the WABA of a channel | `Channels` |
| `MCCommerce` | the commerce components, in one run | all of them |
| `CommerceProofs` | payments, billing, entitlements, imports and erasures; the theorems about money and terms | `MCCommerce`, `TLAPS`, `FiniteSetTheorems`, `WellFoundedInduction` |
| `ShopfrontProofs` | pictures, numbers, templates, prompts, pages, quotes and tickets; the theorem about the shopfront | `CommerceProofs`, `SequenceTheorems` |

*The two planes.* The components of a plane do not share rows that their properties
look at, so their product would multiply states and show nothing. `AgentPlane` and
`MCCommerce` put them in one specification with a variable `focus` that picks,
in the initial state, the component that moves; the others stay as they began.
`MCAgentPlane` adds the workflow DSL and the authoring, whose recursive operators the provers
cannot read, and says which values the run gives the others (`MCAgentPlaneSpec`). A plane's
invariants are conjunctions of the named parts of the components, each defined and
explained in its own module. Where components do interact through shared state they
share a module: `Mediation` calls the tiers of `Autonomy`, `Ingestion` writes the
items of `Catalog`, `Templates` looks a store up in the rows of `Channels`, `Outreach` sends what recovery attempts, `WorkflowEngine` parks
behind approvals.

### WorkflowEngine

A *driver* is one sequential loop that executes handler code: a consumer that
starts runs, the consumers of replies, of human decisions and of tool decisions,
the scheduler's sweep, or an operator. Its record says where its code is (`at`),
the run it drives, and the row it read last. That row is the point of the model:
every write of the executor uses a row read in an earlier statement, and the
model keeps the two apart (`Load` and then `SetVars`, `Emit`, `Branch`, ...;
`LoadToWake` and `WakeRun`; `LoadToDecide` and `ResumeHuman` or `ResumeTool`;
`LoadToFail` and `FailRun`; `StartRun` and `InsertRun`; `PickQueued` and `Promote`; `SeeReply` or `SeeDue`
and `Claim`).

An effect is invoked outside any transaction (`RunAgent`, `RunTool`), after the
transaction that logged `step_started` (`StartStep`) and before the one that logs
`step_completed` (`RecordStep`). `fired` and `undone` are history variables: how
often each effect and each run's compensators were invoked.

`Fail` is any handler that raises, or any process that dies, at any step: the
driver forgets everything, and if it was handling a decision the dedupe row rolls
back, so the event is taken again (`TakeDecision`).

A run is *handed over* from one driver to the next by a subscription or by an approval, and
that is where the code can fail. `mishaps`, the third history variable, records each race
or loss at the step in which it happens; nothing in the model prevents one, and no action
looks at the record. Four of them are handovers gone wrong:

- *claimed twice*: the `UPDATE` of `_claim` takes a subscription another loop has claimed
  (`waits.py:70`, the sub-select is not evaluated again);
- *stray decision*: `resume_human` or `resume_tool` finds its run parked on another step than
  the one the decision was about (`executor.py:520`, `waiting` is all that is looked at);
- *early decision*: it finds the run parked while the driver that parked it has not left its
  loop, which may load the run again once it is running;
- *resumed*: an operator calls `resume_run`.

Three others break one promise each: *overlapping start* (two `start_run` between the
`SELECT` of the live runs and the `INSERT`, `executor.py:170`), *broken off* (a death among the
compensators), *wake lost* (a death between a claim and its wake). `Orderly` says that no handover
has gone wrong. What follows from a run having one driver is stated as long as `Orderly` holds:
the properties say exactly which races use up the promise, the runs include the actors
that bring them about, and the theorems assume none of them away.

Correspondence of data: the cursor is one more than the code's; of `vars` the
model keeps `_approved_tools` and `wait.result`; a branch may look at
`wait.result` and is otherwise a choice among its targets; a tool call comes back
executed, pending, denied or failed; an agent's task succeeds or fails. Merged
with a neighbouring step, because they change nothing the others see in between:
the log entry `step_failed`, the `_still_running` query (it is `Load`), and the
copy of an agent's structured output into `vars`. That copy re-reads `vars` and
writes it in one transaction; the model takes those two statements as one.
A collision on `UNIQUE (run_id, seq)` of the run log is an exception, so a `Fail`.

The engine reads a decision from the event and never the approval's column, so
`appr.status` keeps the decision here even where the ladder could overwrite it.

### EventPlane and EventDelivery

One stream. An outbox row goes from `unpublished` through a publisher's locked
batch (`ClaimRows`, `SKIP LOCKED`), one `XADD` at a time (`Relay`), to `published`
at the commit (`MarkPublished`); a publisher lost in between leaves rows that are
added again. A consumer reads new entries or reclaims pending ones, inserts the
dedupe row (`TakeNext`, which waits for another worker's uncommitted row of the
same event, `KeyFree`), runs the handler whose work commits in its own session
(`Effect`), commits the dedupe row (`Commit`) and acks. A handler may raise at
either point; `CountFailure`, `Bury` and `Ack` follow in the code's order. How
long an entry has been idle is not timed: any pending entry can be reclaimed,
from a dead worker or from a slow one.

`EventDelivery` is the promise without streams or workers: a handler works on a
committed event, never beside another handler of its group, and never again once
recorded, unless the record outlived the retention window; work whose record did not
commit is forfeited and may be redone. The mapping sends `outbox` to the committed
events, the events in hand of a worker past its own commit to `working`, and
`dedupe` to `recorded`. TLC checks `ImplementsDelivery` and TLAPS proves it.

### ApprovalLifecycle

A request is `TakeRow` (the `FOR UPDATE` and the checks) and then `Decide` or
`ApproveWithEdit` (the writes, the event and the commit); rows that are not
pending are answered by `AnswerReplay`, and late taps by `AnswerGone`, whose mark
the request's session rolls back. A ladder pass reads the clock (`StartPass`),
then the pending rows (`ReadPending`), then walks them (`WalkRow`): a notice leaves
at once, the write keeps the row locked until `CommitPass`. Time is the part of an
approval's window that has passed, in the four parts the ladder distinguishes.

### Scheduler

Time is counted in units of a quarter of a minute. Each process has its own clock
offset, sleeps a tick after each round, fixes the minute at the start of the round
and takes the jobs one by one, each for one of its durations; the lock carries the instant it
expires. The history `away` holds the minutes that began on a process's clock while it was down
or still in the round of an earlier one. `FiresOnce`: a job is run again for a minute only once
the lock's time has gone by since that minute began. `DueJobsFire`: every minute a job is due
has been run for, once it is over, unless the process was away for it.

### AgentRuntime

A driver (the request that starts a run, or the approval consumer) walks route,
compose, model turn, tool call, respond; each node writes a step row and then a Redis
checkpoint, two steps of the model. A gated tool creates an approval and parks the run:
the row commits (`ParkRow`) before the checkpoint (`ParkCheckpoint`). A resolution is an event
that is taken at least once; `resume_after_approval` claims nothing. Hard failures feed the
breaker. Every node has a deadline (`NodeTimesOut`): the tool of a call cut off may have acted,
which the breaker does not see. The reply of a safe close passes the same gate as any other
and may park the run. `acted` and `replies` are histories of effects. `GatedNeedsConsent`: a gated tool takes
effect for a run only with a consent of that run. `RunsAccounted` groups the type invariant
with `CheckpointBehindSteps`, `ParkedRunIsMoved` and `RepliesAccounted`.

### Outreach

An episode of silence is found by the sweep, counted by the attempt ledger, played by
the playbook, gated (consent, window, cap, template) and dispatched under an idempotency
key whose claim commits before the provider is called; the provider may answer, refuse or
not answer. Meanwhile the customer replies or writes STOP and a worker dies.
`SendsAccounted`: an episode is dispatched at most once and every dispatch is remembered
as a touch. `CustomerLeftAlone`: after STOP nothing is sent but what was already past its
gates, and the cap holds for what the ledger counts.

### Autonomy and Mediation

`Autonomy` evaluates the tier of a call over the pooled rules of the tool's action family,
then the owner's knob, quiet hours and incidents; an hourly settlement turns approvals into
trust. `OnlyTightens`, `CleanUnlessOverwritten` (the settlement misses only an incident
whose date a later one overwrote) and `TrustIsEarned`. `Mediation` runs two calls of one run
through the chain manifest, narrowing, rate, budget, tier, plan, effect, each check an action
that reads what is there then. `StandingRefusalHolds`: what refused throughout a call refused
the call. `RateExcessBounded`: the window is exceeded by at most the calls that were
between check and record together.

### ModelRouting and Diagnosis

`ModelRouting` follows one inbound message: three guards in three transactions, then turns
that walk a cached route. `StandingRefusalDrops`, `AnswerBacked`, `MisconfigurationSeen`,
`OneRoutePerRun`. A handling lost after it started a run comes again and starts another:
rows carry the delivery they belong to. `Diagnosis` follows the silent-lead playbook's two agent steps:
`DiagnosisGrounded` and `ActsWithAuthority`, the second stated for refusals that stood
since the step began, because a revocation between the last check and the effect is not seen.

### Campaigns, Ingress, Packs, AuditTrail, Identity, Membership

- `Campaigns`: an approval may be redelivered; batches read without a lock; a request reads
  `draft` (`ReadDraft`) and writes `pending_approval` (`RequestSend`) in two steps, the second of which looks at
  nothing. `CopiesBounded` (a member's copies never exceed the batches that read the row
  before any of them wrote it, and the crashes). `RejectedSendsNothing` and `EndedNeverRestarts`,
  the second over the whole past (`ended`), hold unless such a write landed on a broadcast
  already decided (`late`): it looks undecided again, and its next decision sets it going.
- `Ingress`: three posts that repeat a message and a media id, and a malformed one.
  `IngestedOnce`, `OneOpenConversation`, `ConfirmationsAccounted`, `QuarantineAlerted`.
- `Packs`: the installer's transactions with a failure or death at each.
  `InstallAllOrNothing`, `UninstalledIsPaused`. The activation of a plan's agents
  (`activate_plan_agents`, `core/tenancy/provisioning.py:101-116`) looks at every instance of the store, so
  one that was installed and uninstalled before it is switched on again, whoever did
  that: `late` names those packs.
- `AuditTrail`: an entry's hash stands for the chain it was computed over. `ChainIntact`,
  `AppendsNeverCollide` (the advisory lock), `DiffsAreTrue`.
- `Identity`: `OneSuccessor` (a token has one live successor), `AttemptsBounded`,
  `RevokedStaysDead`.
- `Membership`: `SeatOverrunBounded`, `RolesStay`.

### WorkflowDsl and Authoring

`WorkflowDsl` is the grammar as operators over trees of steps: `ParseDsl` with every check of
`parser.py`, the guards `guards.py` mandates, the restrictions on owners, and the compilation to
the engine's instructions. The run checks them over all texts of one or two steps nested to
depth two, written by a pack and by an owner: `OwnersCannotEmit` looks at the *compiled*
program, not at the text the check saw; `MandatedGuardsHold` looks at the guards the parser
leaves, and `OwnerTextIsGuarded` at the stored row. `Authoring` moves one key's row and the
approvals about it: seeding, drafts, edits, activation. `ActiveIsVouched`: the active text is one a pack
shipped or an owner approved, unless an edit came after; `PackStaysUnlessOverwritten`,
`DefinitionsOverrunBounded`.

### The commerce components

- `Payments`: `NumbersGapFree` (an aborted creation returns its number), `CaptureNotLost`,
  `ReceiptsAccounted`, `ReceiptedIsFinal`.
- `Billing`: `BudgetOverrunBounded`, `SoldTermsHold`, `RetiredTakesNobody`.
- `Entitlements`, pure operators over a small catalogue and all drafts of it: `BlessedPlanDelivers`,
  `GrantsAreLargest` (against a reference definition over all subsets), `CopyKeepsGrants`.
- `Landing`: `LiveVersionWasChosen`, `LeadsNameAPublishedVersion`, `CandidatesFromPack`,
  `FloodCapped`.
- `Catalog` and `Ingestion`: `OneItemPerKey`, `DuplicatesOverlapped`, `RowsLoadOnce`,
  `UntitledSlippedIn`, `RevertSparesEdits`. A revert tells an edited item by
  `updated_at > created_at` (`stamped`); attaching and removing a picture writes the item without
  moving `updated_at` (`Picture`), so the property is about every other edit.
- `Pricing`: `BreakdownAddsUp` (each stage is its exact figure rounded: the discount's ceiling
  exactly, each half of the tax within half a paisa; the lines, the subtotal among them, add up), `BreakdownPassesGate`, `ReplayMatches`, `StaleQuotesFlagged`,
  `JumpsAccounted`.
- `CatalogMedia`: objects are put before the commit and deleted after it. `PictureIntact`,
  `OrphansAccounted`.
- `Privacy`: an erasure reads, archives, deletes and anonymises in one transaction whose
  statements see what commits meanwhile. `MessagesGone`, `ErasedIsArchived`, `OriginalHandedOut`,
  `ErasedStaysBlank`.
- `Channels` and `Templates`: two owners' requests and an operator's on the rows of two stores;
  texts edited while a submission waits for Meta, notices drained by two workers, each of
  which handles what its one SELECT read, oldest first.
  `SendsFromItsNumber`, `ReviewsFindTheStore`, `SentTextWasApproved`, `LastWordStands`.
- `Prompts`: overlapping installs of two packs seed layers that no index keeps unique; the
  row of the catalog schema and that of the agent binding, written in the same transaction
  for other reasons, are what makes the installs of one pack wait. `SharedLayersOnce`,
  `TooManyAccounted`, `OneActiveBinding`, `PinnedMeetsBound`, `SkeletonAccounted`.
- `Support`: `ChainTellsTicket` (the row is what the audit entries make of a new ticket),
  `ResolverStands`, `AccessLogged`.

## Runs

| Run | Instance | Shows |
|---|---|---|
| `engine_recovery` | the silent-lead playbook with its send gated and a second human task, one compensator, drop policy; 2 runs, two starters, the human and tool consumers, the reply loop and the sweep on one timed wait, a handler that raises or dies anywhere | `EffectOnce`, `OneDriverPerRun`, `OneLiveRun`, `CompensateOnce`, `ParkedRunIsWakeable`, `HumanGate`, `NoSkippedEffect`, `EndsInOrder`, `TypeOK` |
| `engine_live` | hold, set, human, gated send, emit; one run; approvals may expire; fair loops | `ToolGate`, `TimedWaitsEnd`, `DecisionsLand` |
| `engine_queue` | a wait and a step on the reply; queue policy; 3 runs; an operator and a failure | `EndPromotes`, `PromotedOldestFirst` |
| `plane_delivery` | 2 publishers, 2 workers, a crash, 2 raises per entry, a replay, a pruned row; fair loops | `NothingLost`, `RepeatsAccounted`, `OneHandler`, `BuriedAfterLimit`, `EventsLand`, `ImplementsDelivery`, `TypeOK` |
| `approval_resolve` | 2 requests, 3 tiers, a ladder, a failure; fair time | `OneDecision`, `AuthorityHolds`, `NoticesAccounted`, `ApprovalsEnd`, `TypeOK` |
| `runtime_resume` | one run, two drivers, two gated calls, a death | `GatedNeedsConsent`, `RunsAccounted` |
| `recovery_send` | three episodes, sweep, sender, customer, a death | `SendsAccounted`, `CustomerLeftAlone` |
| `agent_plane` | thirteen modules of the agents' side, one component at a time; requests of a campaign that race, scheduler rounds longer than the lock | `AgentsStayInBounds`, `MessagesAccounted`, `StoreHoldsTogether`, `ProgramsAreVouched`, `JobsFireOnce`, `EndedStaysEnded` |
| `commerce_plane` | the thirteen modules of the store's business, in seventeen slices, one at a time | `MoneyAccounted`, `ShopfrontTrue`, `TermsHold` |
| `f_lost_wakeup`, `f_woken_twice`, `f_not_a_number` | the smallest instances that show it | the first three departures below |

`CHECK_DEADLOCK` is off everywhere: all the systems may legitimately come to rest
(every run ended or parked, every event handled, the horizon reached).

`engine_recovery` has `CONSTRAINT Orderly`: TLC does not go on from a state in which a handover
has just gone wrong. Nothing is lost by it. A mishap is never taken back, so beyond such a
state `Orderly` is false for ever, every property of that run but `TypeOK` is true there by its
statement, and `TypeOK` is proved. The other engine runs explore everything: `ToolGate`,
`EndPromotes`, `PromotedOldestFirst` and the liveness properties are about all states.

`EndPromotes` is about drivers that bring a run to its END or park one; a run that fails promotes
nobody. `ToolGate` has no condition at all, which is what the proof shows. The properties
named *Accounted*, *Bounded* or *UnlessOverwritten* are like those that ask for `Orderly`: the code does not
keep the plain promise, and the property is the exact one it keeps, naming the race or the
failure that uses up the difference.

## Where the code departs from its documentation

Three departures have a run of their own that finds the counterexample:

- `f_lost_wakeup`: a claim commits, then `wake_run` runs. A death in between leaves
  the subscription `matched` and the run `waiting`; nothing looks at it again.
- `f_woken_twice`: `waits.py:13-14` says a signal claims its subscription atomically, "so a run
  wakes exactly once". The check stands in a sub-select (`waits.py:70`) that READ COMMITTED does not
  evaluate again: a reply and the minute sweep that both saw a timed wait pending both wake its run.
- `f_not_a_number`: `diagnosis.py` promises to abstain when a confidence is unusable. A NaN
  passes the clamp as 1.0 and is certain.

The others were met while modelling. They are reachable in these modules by changing
constants, or by checking the formula named; they are kept here so that nobody relies on the
opposite.

*Workflow engine, events, approvals, scheduler*

- `resume_human` checks that the run is `waiting`, not that it waits at the step the decision
  was about: a decision delivered again after a crash, or while the loop that parked the run is not
  over, can pass a later human task or skip the gated step the run is parked on by then
  (`HumanGate` and `NoSkippedEffect` without `Orderly'`). The approval of one call of a tool covers
  every later call of the same tool in the run.
- A run claimed twice has two drivers (`OneDriverPerRun`), which repeat its effects; so has one for
  which `resume_run` is called beside a live driver (`EffectOnce`).
- `executor.py:170`: the drop policy reads the live runs and inserts without a lock; two starts
  at once leave two live runs (`OneLiveRun` without "overlapping start").
- A death among the compensators starts the block over when the rejection is delivered again
  (`CompensateOnce` without "broken off").
- Only END promotes: `_compensate` has no `_promote_next`, so a run that fails under the queue policy leaves
  those behind it with no live run. Under `replace` a superseded run's driver writes its status again;
  under `queue` a start and a promotion can overlap.
- A duration written as `until(...)` never gets a `fire_at`; such a wait never ends.
- A worker that dies between a handler's commit and the dedupe commit repeats the handler's
  work, and so does a replay after pruning. `RepeatsAccounted` is the exact statement.
- The ladder's `UPDATE ... SET status = 'expired'` names the id alone: a tap that commits
  between its SELECT and that UPDATE is overwritten. The 410 path rolls back the mark it made.
  Expiry emits no event, so a run parked on an expired approval stays parked.
- "Exactly once" (`core/events/scheduler.py:5-6`, `core/scheduler.py:3-5`): the lock of 90 seconds is taken
  per job, but the minute is that of the round, so a job that follows slow ones can be run again for its
  minute by a process that comes to it later; and the sleep follows the round, so a minute that passes within a
  round, or in a restart, is never looked at, and a daily job due in it waits for the next day.

*Authoring*

- An edit of an active owner definition is made in place: it is not simulated or approved
  again, and it changes the program under the runs parked in it (`program.py:12`). The upsert
  of the seeder crosses origins. The limit of definitions is counted before the insert.
- `parser.py:8-9` says every embedded CEL is checked; that of branches in compensation is
  not. A tool call in compensation is skipped in silence; `loop` is a no-op; the `FOR` of a
  trigger is read by nobody; `tier_floor` and the trust status (`activation.py:10-18`) are
  enforced nowhere; the live router handles only `lead.went_silent.v1` while the simulation also
  counts the bare type; `store.deactivate` has no caller.

*Agents*

- The park transaction commits before the checkpoint in Redis. `resume_after_approval` never
  looks at which approval it is (`ApprovedToolOnly`). A 5xx or a lost answer is retried inside
  one claim (`AtMostOnce`), and a reply sent before the death of a run is sent again
  (`OneReply`). A denial's audit row is lost when `RunAborted` rolls back. `clear_untrusted`
  runs on any redelivery.
- `trust.py:6` (`IncidentTightens`): an incident that overwrites the date of an earlier one
  hides it from the settlement. `engine.py:85-92` (`GuardsFailSafe`): a broken guard of one rule
  does not tighten past its family. `record_budget` has no caller, so `SendBudgetHolds` is about
  a counter that nothing raises. `check_rate` checks and records apart.
- Only the node `priya.reason` is routed and it is not among the tunable nodes, so overrides
  for the others never apply although the effective configuration shows them; `set_model`
  keeps old parameters and fallbacks; `grounding.enforce_grounding` and
  `internal_workers.find_grant` have no production caller; a message whose handling is lost
  after it started a run starts a second one.
- Without production callers: `resume_run`, `close_circuit`, `recompile_instance`,
  `validate_tenant_rule`, `demotion_offers`, `record_owner_decision`, `touches_in_window`,
  `record_touch`, `resolve_at`, `record_marketing_touch` (so the marketing frequency cap is
  never reached), `submit_template`, `seed_from_manifest`, `process_template_status_pending`,
  `revert_to`.

*Messaging and campaigns*

- `recovery.py:12-13` says waiting customers are never chased; the trigger of migration
  5b926142f4e0:120-141 does not see every wait (`NeverChaseWaiting`). The touch cap can be exceeded by the
  attempt in flight; the credit for replies is never given.
- A status webhook that arrives before the send's commit is dropped; `mark_blocked` can
  overwrite `sent`; delivered and failed can alternate; events are deduplicated by their first
  message id. A STOP confirmation can be lost with its process; "Reply START" is announced and
  not implemented.
- `send.py:67` reads the status of a campaign without a lock and `send.py:85-87` writes
  `pending_approval` whatever it is by then: a second request that read `draft` can put a campaign that is
  being sent, was sent, halted or rejected back to undecided. Rejected then, it ends `rejected` with
  copies sent; approved, it is sent again.
- A campaign's audience is resolved again at each batch; a halt can be overwritten by
  `executed`; overlapping batches send twice; a redelivered approval of an executed
  campaign marks it halted; `TemplateNotSendable` escapes the batch.
- `admin.py` speaks of one channel row per store and type, but the owner's connect inserts one
  per number, and two operators can race. Disconnecting deletes the conversations too
  (`ON DELETE CASCADE`). A row deleted during a connect is reported as a conflict, and the
  unique violation as a 500. A channel wired by an operator has no WABA. One WABA may serve
  several stores, and the review goes to the first. A review is applied by name, whatever the text.

*Store*

- A failed install keeps its row, and `_create_installation` is a plain INSERT under
  UNIQUE (org, pack), so it cannot be retried as provisioning says (`FailedInstallRetries`).
  An uninstall can be overtaken by the activation of the plan's agents. The manifest is
  upserted whether or not the install succeeds.
- Parallel refreshes: `tokens.py:16-18`. A token is answered before its commit. Settings:
  `updated_at` is the start of the transaction, and the cache is invalidated before the commit.
- Budgets and seats are checked, then written; an invite can be accepted twice; an existing
  member keeps the old role; two requests create two organisations.
- Payments: a receipt can go out twice; an edited payload can name another transaction; the
  payment link's check is stale.
- Pricing: no assertion backs `engine.py:8`; the `stale` flag is read by nobody; overlapping patches
  leave a quote unflagged; a replay uses the rules of now; the ledger matches 48 hours and quotes
  live 168; two fetches together step beyond the bound.
- Catalog: `If-Match` is compared with a read and the UPDATE names the id; identity keys have
  no unique index; a PATCH can set status, SKU and availability past the transition graph.
  Media: "the database never references bytes that have been deleted" fails when the answer to a
  commit is lost; overlapping attaches leave orphans.
- Ingestion: states are written unconditionally; a failed resume skips a stage; rows can be
  edited whatever the batch's state; uploads live in the memory of one process; concurrent reverts answer 500. `load.py:6-8` and `:106`
  say a revert leaves what was edited since: a picture attached or removed does not move `updated_at`
  (`media.py:158-164`, `219-222`), so the item is archived with its new picture; and an item
  patched while the revert runs is archived as well.
- Landing: transitions are validated on a read without a lock, so an archived page can be
  revived; a rollback sets no `approved_by`; events of unpublished pages are recorded; the
  limiter is per process.
- Privacy: a message committed between the erasure's DELETE and its commit survives, items
  written after the export was read are deleted unarchived, a second erasure archives the blank
  record and the archive's reader returns the latest; replies after an erasure are stored again;
  annotations and audiences do not look at `erased_at`; who returns is a new contact without the
  old suppression.
- Prompts: `registry.py:9` says an incompatible pin is refused. The bound is what follows
  `>=` in the pack's text, with its space (`verticals/jewelry/prompts/concierge.md:2`), and a
  space sorts before every digit, so every version satisfies it; written without the space,
  `1.10` is below `1.4`. `composer.py:6-7` says composition fails closed and the instance should
  circuit-open; `executor._make_compose` falls back to the skeleton. A brace in an owner's
  settings is taken for a parameter that nobody supplies, so that store always gets the
  skeleton. A settings change regenerates no layer (only the installer calls the generator).
  Installs of two packs can leave two base layers of a version, and every later install of that
  archetype fails, as does an install of a pack whose prompt was reworded under the same
  pack version.
- Support: the scripts that grant and revoke write the allowlist and the access log in two
  autocommitted statements; a death between them leaves an operator nobody logged
  (`AccessLogged` names it). Expiry writes no entry. The role is read once: a request admitted before
  a revocation still commits.

## Bounds

*Workflow engine.* `MaxRuns`, `MaxApprovals` and `MaxSubs` bound the rows ever inserted. They
are chosen so that a program of the run can park at every step of every run, and no run
blocks for want of a row where liveness is checked. `engine_live` has one run: the runs of a
key follow one another, and a second would repeat the first. Two runs are enough for every property that
relates two runs of a key; `engine_queue` has three, so that two can be queued at once.
`MaxFailures` counts deaths: one is enough to lose a step or to have a decision delivered
again. `engine_recovery` has two subscriptions and three approvals for its two runs: one run can
meet every gate of the program and the other park beside it. One compensator is enough for
a death to leave it done or not done; how the block counts is proved for any number.

*Event plane.* One event and one group, two workers and two publishers, `MaxEntries = 2` (an
entry, and its republication or its replay), `DlqAfter = 1` (5 in the code) with two raises per
entry, so that an entry can recover and another be dead-lettered; one crash, one replay, one
pruned row. Events do not interact, which the proofs confirm for any number of each.

*Approvals and scheduler.* Four parts of an approval's window are the ones the ladder tells
apart. `Minute = Tick = 4` and `Ttl = 6` keep the code's ratio of 60, 60 and 90 seconds; five
minutes and one death; one job takes no time or 7 quarters of a minute, longer than the lock and than
a minute, the others none.

*Agent plane.* Autonomy: a clean window of one period, tightening for two, a horizon of
two. Mediation: two calls of a run, one of which only sends. Campaigns: two members, two batches, two requests, one crash. Routing: two turns,
two deliveries, one change of route, store and keys; confidences of 3, 7 and 12 tenths and
NaN around a threshold of 6. Ingress: two senders, one post that stops both. Membership: three invites, one of them at most for a viewer. Authoring: one key, one owner's slot,
two activations, three writes. The DSL: all 1,111 texts of one or two steps, nested to depth two,
each by a pack and by an owner; deeper nesting repeats the same compilation rules.

*Commerce plane.* Two actors of each kind and the least number of rows on which they
meet. Payments: two drafts and two clerks. Landing: two owners, two visitors, two of the four at a time, one
minute after the first. Billing: a slice of plans and one of budgets, which share no row. Ingestion: one SKU on two rows, one of them untitled, in three slices
(one handler and both rows, two handlers and a row, one handler and a catalog change).
Pricing: weights, rates and a discount chosen at rounding boundaries, percentages as in the pack.
Media: two uploads, two lapses. Privacy: two erasers, an incoming message, one annotation. Channels: two stores,
two numbers, two rows, two owners' requests and one operator's. Templates: two texts, two reviews,
two drainers, one disturbance. Prompts: three installs of two packs with two changes beside them, in two slices
(the installs among themselves; one install with two swaps and a run). Support: a ticket, two operators, two requests, two changes of the allowlist.

A plane's run explores each component by itself, so its bounds are those of the component, and
each named part of a plane's invariant is looked at while its component moves; the
focus rules of `MCCommerce` and `MCAgentPlane` say which slices leave which actors at rest.
Recovery: three episodes and sweeps; the third sweep meets no lost answer and no lead on hold.

## Fairness

Fairness is assumed only of the code's own loops:

- `WF(HandlerStep(d))`, `WF(PickUp(d))`: asyncio runs a handler that can go on, and the
  consumer loops and the minute sweep come round again (`run_consumer`,
  `run_scheduler`). Weak fairness is enough because work that stays available is taken.
- `WF(Publish(p))`, `WF(Process(c))`, `WF(ReadNew(c))`, `WF(Reclaim(c))`: `run_publisher`
  and `run_consumer` loop for ever and are restarted when they die; deaths and raises
  are bounded, so a handler in the end succeeds or is dead-lettered.
- `WF(Tick)`, `WF(Finish(q))`, `WF(Pass(l))` of the approvals: time passes, a request that
  holds a row ends, and the ladder runs every minute.

Nothing is assumed of the environment: nobody has to start a run, decide an approval,
call `resume_run`, replay a dead letter or prune. The planes assume no fairness at all; their
properties are safety.

## Proofs

`WorkflowEngineProofs` proves, for every program, policy, set of drivers and bound that
satisfies `EngineAssumption`:

- `EngineTypes`: `Spec => []TypeOK`.
- `GatedToolsAreApproved`: `Spec => []ToolGate`. A tool the tier engine holds back is
  invoked for a run only if a reviewer approved that tool for that run, whatever drives
  the run, in whatever order, with any number of deaths and redeliveries.
- `ApprovedListsAreHonest`: `Spec => []ListsHonest`.

`ToolGate` is not inductive. The engine decides by `_approved_tools`, a list in `vars`,
which every driver reads, holds, and may write back long after: a driver that read a row
can replace the list by the one it held. So the invariant has to speak of the table *and*
of every row a driver still holds:

    GateInv == Shaped /\ ListsHonest /\ CallsApproved

`ListsHonest` says that each such list names only tools approved for that run.
`CallsApproved` restates the gate in terms of the set of approved tools, which only grows
(`ApprovedToolsGrow`), so stale lists stay honest. `Shaped` is `TypeOK`, the shape
of the rows of the wake tables (`RowsShaped`) and what a driver's registers hold at
each point of its code (`DriverShaped`). The step lemmas follow the model's actions, one or
a few of a kind to each; `HandlerSteps` and `GateInvStep` put them together.

Its second part proves the properties that need to know who drives a run, for any set of drivers in
any roles, any number of runs, deaths, redeliveries and calls of `resume_run`, gated tools or none,
the ladder's expiry or none. The conditions are on two constants (`Setting`):

- `Forward`: jumps and branches go forwards, as `compile_program` lays them out. A program that
  went back would invoke an effect again by design.
- `Policy \in {"none", "drop"}`: under `queue` and `replace` a promotion and a supersession write the
  status of a run from outside, without looking at who has it.

What the code does not promise is in the properties, not in hypotheses: each holds until a
recorded mishap takes it away, so the theorems say of every behaviour that nothing else can.

- `OneDriver`, `EffectsFireOnce`: `Spec => []OneDriverPerRun`, `[]EffectOnce`.
- `CompensatedOnce`: `[]CompensateOnce`, with handlers that die anywhere but among the compensators.
- `OneLiveRunPerKey`: `[]OneLiveRun`, for any number of starters.
- `EndingsAreFinal`, `HumanTasksHold`, `EffectsAreNotSkipped`: `Spec => EndsInOrder`, `HumanGate`, `NoSkippedEffect`.
- `ParkedRunsCanBeWoken`: `[]ParkedRunIsWakeable`, for programs whose waits are for a reply or have a
  timeout (`WaitsEnd`), since no loop looks at another.

The argument is about ownership. A run is *engaged* when a driver has it in hand (`Engaged`), and can
be handed on only by a *ticket*: a subscription that is pending or held by a claimer (`OpenSub`), or
an approval that is pending or whose event is queued and not being handled (`OpenAppr`), of the step
the run is parked on. The inductive invariant `OwnInv` is, as long as `Orderly` holds, the conjunction of

- `Owned`: every driver's row is the row of the table, so what it writes back is not stale (`Agrees`);
  the event or the subscriptions it holds are still its own, and the run has left the decided step once the
  driver is past the resumption, so that acknowledging the event loses nothing (`Carries`); subscriptions and
  approvals stand at steps of their kind, and an old approval is behind its run (`Placed`, `Behind`);
  a run is engaged by one driver (`Sole`); a run has at most one open subscription, and no ticket while it is
  engaged (`Tickets`).
- `Once`: no effect at or after the cursor has been invoked (`Unfired`), except the one of the driver
  between invocation and record. A driver that dies there leaves a run that nobody re-enters.
- `Intact` and `Counted`: nothing is compensated of a run that is engaged at a forward step or can
  still be woken forwards; unless compensation was broken off, the compensators that ran are those its
  driver counted.
- `OneLive`: a starter about to insert that found no live run is right, while starts do not overlap.
- `Ticketed`: a parked run has a ticket, or its approval expired. Parking makes it, and who takes it becomes the
  waker or finds the run moved on; for that a handler that is over holds no subscription (`Emptied`).

Most actions either leave every run in the hands it was in and open no ticket (`Shrinks`, whose
lemma `ShrinkingKeeps` says that ownership survives), or are steps of a driver on the run it has
(`Works`, `WorksKeeps`); the lemmas of the other actions show where a ticket is made or used up. What passes
a human task or a step with an effect follows from the same facts: `CursorsMove` says that a cursor goes
forward only because a driver whose row is the table's goes on with the running run, because the wait the run is
parked on is over, or because a reviewer approved that very task.

Its third part is about queued runs, with no condition beyond `EngineAssumption`: every program, policy
and role, and no `Orderly`.

- `QueueIsOrdered`: `Spec => PromotedOldestFirst`. `_promote_next` picks in a sub-select and updates later,
  and two promoters may hold the same run. `InLine` says why that is harmless to the order: runs are inserted in the
  order of their numbers, no run goes back to the queue, and every run before the one a promoter
  picked has begun when it was picked and so for ever (`Onward`).
- `LeavingReleases`: `Spec => EndPromotes`: whoever leaves the loop after completing a run, or to park one, leaves
  a live run or no queued one. A run that fails leaves by `_compensate`, of which this says nothing and
  which promotes nobody.

`EventPlaneProofs` proves, for every set of events, groups, workers and publishers and every
bound that satisfies the module's assumption:

- `TypesHold`: `Spec => []TypeOK`.
- `OneHandlerAlways`: `Spec => []OneHandler`. Two workers of a group are never in the handler of
  one event. The property alone is not inductive: what keeps the second worker out is the
  first one's uncommitted dedupe row, so the invariant adds what each worker holds (its entry is one that was added,
  `EntriesKnown`; its event is one that was emitted, `EventsKnown`) and that two workers past
  the insert have different events or groups (`HandlersApart`).
- `RepeatsAlwaysAccounted`: `Spec => []RepeatsAccounted`, from the stronger `AllAccounted`, which
  counts the handling in progress too.
- `NothingIsLost`: `Spec => []NothingLost`. By `Carriage`: each published event is, for each
  group, on some entry that is still to be read, pending, settled or buried, and every action
  that takes it from one place puts it in another.
- `DeliveryImplemented`: `Spec => ImplementsDelivery`, the refinement of `EventDelivery`. The
  committed events are those of the outbox, the handlers at work are `InWork`, the recorded ones
  `dedupe`; each action is a step of the abstract next-state relation or a stutter, and
  `HandlersApart` is what makes the abstract guard (nobody else at work) true.

- `BuriedOnlyAfterLimit`: `Spec => []BuriedAfterLimit`. The retry count is one hash field that every
  worker of the group raises, and a slow worker's entry can be reclaimed, so several workers may
  have failed on one entry without having counted it. `FailuresCounted` says that the count and
  those workers together never exceed the failures.

`ApprovalLifecycleProofs` proves, for every set of approvals, requests and scheduler processes:

- `LifecycleTypes`, `OneDecisionAlways`, `AuthorityAlwaysHolds`: `Spec => []TypeOK`, `[]OneDecision`
  and `[]AuthorityHolds`. The row lock is the core of the invariant `Inv == Types /\ HolderAlone /\
  Decisions`: a row in a request's hands is pending and in nobody else's (`HolderAlone`), and
  the outbox tells what the row tells until the ladder expires it (`EventsTell`).
- `NoticesAlwaysAccounted`: `Spec => []NoticesAccounted` for one scheduler process, which is what
  `docker-compose.prod.yml` deploys (`OneScheduler` is the theorem's hypothesis; two processes can both send
  a notice before either stamps it). `PassFresh` says a pass still sees the stamps as they
  are, `NoticesStamped` that each notice has its stamp, or a pass is about to write it, or a failure lost it.

`AgentRuntimeProofs` proves, for every set of runs, workers, approvals and tools that satisfies
`RuntimeAssumption` (the sentinels are not tools or approvals, the caps are numbers):

- `RuntimeTypes`, `CheckpointBehindAlways`: the shapes, and that a checkpoint is never ahead of the step rows.
- `ConsentAlways`: `RuntimeSpec => []GatedNeedsConsent`. Like the engine's `ToolGate` it is about what a
  worker holds: the list of approved tools in its hands (`ConsentHeld`).
- `RunsAlwaysAccounted`: `RuntimeSpec => []RunsAccounted`. A run that waits has an approval that is
  pending, its event on the way, or a worker on it (`Awaiting`); the replies are counted against a budget
  (`Spent`): replies sent, workers who may still send one and events that may still start such
  a worker never exceed one, plus one for each crash and each resume by hand.

Its proof attempt corrected the property `ParkedRunIsMoved`. `resume_after_approval` drops a delivery when
there is no checkpoint, and a run that died before its first checkpoint can be resumed by hand
to a gate; with three resumes by hand, each of whose workers dies between the step row and the
first checkpoint, the run parks without one and its wake-up is lost. The property now
says so (fewer than three resumes by hand); no bound of a run reaches the exception.

`OutreachProofs` proves, for every set of attempts and senders and every cap and bound that satisfies
`OutreachAssumption` (an attempt's identifier is not the empty value, the bounds are numbers):

- `SendsAlwaysAccounted`: `OutreachSpec => []SendsAccounted`, with any number of workers on the send
  step. `Dispatched` ties the claim of an episode to the one worker that made it and
  to the answers lost under it. `Remembered` is the count: the episodes dropped (accepted, not in
  flight, counted by no attempt) and a run about to send a counted attempt again together
  never exceed the crashes and transport errors. The second summand is needed because a
  worker that dies after its commit makes the run send again, and the refusal of that second send
  (`mark_blocked`) takes the touch off the record one step later.
- `OptOutHolds` and `OutreachTypes`: `[]StopStopsTouches`, which is inductive, and the shapes.
- `CustomerAlwaysLeftAlone`: `OutreachSpec => []CustomerLeftAlone` for one worker on the send step at a time
  (`OneSender`), which is `OneDriverPerRun` of the engine. `Within` counts the touches on record, the one
  that may still be sent and the one whose guards were read (`_touch_cap` reads, then the run starts): never more than the cap and one.
  With two workers the cap fails, as TLC shows: one refuses the send and parks
  the run while the other is past its gates, and the next run starts before that touch is recorded.

`AgentPlaneProofs` proves the eleven components of `AgentPlane`, each for any sets of actors and rows and any
bounds that its module's assumption allows, and then what the run `agent_plane` checks of them. Each
component has an inductive invariant, whose parts are:

- `AutonomyInv`: an approval is settled in its turn (`SettledInTurn`), the ledger has the date of the tool's
  latest incident (`LedgerDated`), and trust is bounded by the approvals already counted. That the
  knob only tightens needs `EngineTakesHighest`: the tier of the pooled rules is a maximum, and
  the assumption that a rule's tier is one of 0 to 4 is the CHECK of migration 1993ba538f4f.
- `MediationInv`: what has stood since a call began is what stands now and what each gate the call passed has
  refused (`GatesHeld`); the slots taken and those of calls between `zcard` and `zadd` are fewer than the
  limit and the callers together (`SlotsCounted`).
- `RoutingInv`: the chain in hand is the route the run looked up (`ChainInHand`); the guards a delivery passed
  did not refuse it when it passed them (`GuardsPassed`); each row of the cost log is of a link of that
  chain and an attempt's success stands in its row (`RowsFollow`, `TurnLogged`); the override a run was promised is the
  one its first turn finds (`RouteKept`).
- `DiagnosisInv`: what was offered and recommended is among the entries that were kept, so declared and stated
  (`DiagnosisGrounded`), and each check the acting step has passed refused nothing that has stood since
  it began (`ChecksHeld`). `Best` is a `CHOOSE` over the kept entries; `BestIsKept` shows that it has a
  value, which needs a finite list and confidences that are numbers (`Clamped`).
- `CampaignInv`: a member's copies and the batches that hold its row never exceed the batches
  and the lapses (`CopiesCounted`); nothing is sent before the broadcast is set going, and one that ended
  stays so (`EndedHolds`), while no request wrote late.
- `IngressInv`: a post is in one worker's hands, and what two workers have in
  their open transactions never meets (`TransactionsApart`), which is what the dedupe rows and the
  sender's lock give; the confirmations owed are apart too, and each mishap loses at most those
  of one webhook (`ConfirmationsOwed`). A worker that dies after the commit and before its first call loses
  all of them, hence the factor `MaxStops` of `ConfirmationsAccounted`: the proof showed that one per mishap,
  which the property said before, is too few when a webhook stops two customers.
- `AuditInv`: whoever appends holds the advisory lock and has the true tail in hand (`ChainLocked`); a version
  is written once, after its predecessor, and the writers' rows do not clash (`VersionsNumbered`).
- `PacksInv`: the row of an installation is claimed by one installer, and while it is, no agent
  exists (`RowClaimed`); what was uninstalled while the setup is still to activate is in `late`.
- `IdentityInv`: whoever is about to commit a rotation holds the session's row and the token it read
  (`RotationsApart`); the wrong guesses counted and those still to be counted stay
  within the limit and the other calls (`GuessesCounted`).
- `MembershipInv`: the manager invitations that are open, accepted or being accepted, and the requests about to
  insert one, never exceed the largest limit they were judged by and the other requests (`SeatsCounted`).
- `SchedulerInv`: no step is overdue and no round ahead of its clock (`OnTime`); a lock expires no earlier than
  its time after the beginning of its minute on some clock (`LocksSince`); each process has seen to every
  minute before its next round, and to the jobs its round has passed, but for the minutes in `away` (`SeenTo`).

The theorems, of any run of `AgentPlane`:

- `AgentsAlwaysInBounds`, `MessagesAlwaysAccounted`, `StoreAlwaysHolds`: the run's invariants `AgentsStayInBounds`,
  `MessagesAccounted`, `StoreHoldsTogether`; `EndedAlwaysStaysEnded`: its action property. They have no hypothesis but
  the modules' assumptions. The proxy's invariant is kept where the proxy moves (`BoundsInv`), because
  the tier component turns the owner's knob without the calls under way.
- `JobsAlwaysFireOnce`: `JobsFireOnce`, both halves of it (`FiresAlwaysOnce`, `DueJobsAlwaysFire`), for any registry, crons,
  clocks, durations, lock time and deaths. That rounds outlast the lock and that minutes pass within a round
  is part of what is stated, not assumed away.
- The components' own theorems (`CampaignsAlwaysBounded`, `IngressAlwaysOnce`, `AuditAlwaysTrue`, `PacksAlwaysWhole`,
  `SignInAlwaysSound`, `SeatsAlwaysCounted`) say the same of each component's specification by itself.

`CommerceProofs` and `ShopfrontProofs` prove what the run `commerce_plane` checks, for any sets of requests, stores,
plans, rows, operators and visitors. The only hypotheses are the modules' named assumptions, of which two are about data: a
pack's landing template names each section once (`verticals/jewelry/landing/template.yaml`), and its discount ceiling is
at most 100 per cent (`verticals/jewelry/pack.yaml:21` says 20). The inductive invariants are:

- `PaymentsInv`: the number a request read is no more than one past the charges recorded (`NumbersInHand`), what
  is captured, drafted or in a worker's hands is of a charge that was recorded (`ChargesKnown`), one worker has a
  draft's event (`DraftsInHand`), and receipts beyond the drafts they left for have each used up a worker's
  death (`ReceiptsCounted`).
- `BillingInv`: a plan being written is locked and as it was read (`PlansHeld`); what is over a budget is less
  than what the charges judged at the same time add up to (`SpendingCounted`).
- `EntInv` is small; the work is in `PrunedIsLargest`. `Pruned` is a fixpoint reached in rounds, and that it is the
  largest supported set is an induction over the rounds.
- `IngestionInv`: one handler holds the batch's row (`OneHolder`), and what each job and each create in progress
  has read is true of the items up to the row it saw, or the difference is recorded (`JobsTrue`, `CallsTrue`).
- `PrivacyInv`: what an erasure has not read came while it ran (`ReadOrUnseen`, `DeletedOrOverlapped`).
- `MediaInv`: an object is the picture's, adrift, or in some request's hands (`ObjectsHeld`).
- `ChannelsInv`, `TemplatesInv`: numbers of wired rows differ (`NumbersApart`); a verdict that stands is one Meta
  gave (`VerdictHeard`), and no text under way is newer than the row's (`TextsPast`).
- `PromptsInv`: of one pack's installs at most one is between its choice and its commit, and two are under way
  together only once the pack is catalogued (`InstallsApart`), so a base layer is written twice only by installs of
  two packs (`BasesOnce`).
- `LandingInv`: the live version and the lead's version were published (`PageInv`); the times in the limiter's window
  are as many as the requests it let in (`FloodInv`).
- `PricingInv`: a quote's figures are those of what it pinned (`QuoteTrue`), and an open quote of another weight
  than the item's is flagged or overlapped the edit (`QuoteMarked`).
- `SupportInv`: who updates a ticket holds its row, who appends holds the chain (`LockInv`), and the chain, replayed,
  makes the row that is there (`ToldInv`).

The provers take no induction theorem with an operator parameter, so the inductions are over sets: a set of
naturals that is not empty has a least element (`NatMinimum`, from the library's well-founded relations), and
a claim about all numbers is the emptiness of the set of its counterexamples. The rounds of `Pruned` and the replay of
the audit chain, both recursive functions, are treated this way.

`MoneyAlwaysAccounted`, `ShopfrontAlwaysTrue` and `TermsAlwaysHold` are the run's three properties, of any run of
`CommerceSpec`; the last speaks of a revert and every edit but those of pictures. The other theorems (`PaymentsAccounted`, `BudgetOverrunIsBounded`, `GrantsAreSound`, `ImportsLoadOnce`,
`ErasureIsAccounted`, `PagesAreChosen`, `QuotesAreTrue`, `PicturesAreWhole`, `LayersAreAccepted`, `TicketsAreTold` and so on) say
it of each component's own specification, with all its actions, of which a slice of the run may take only
some. The proof of `LastWordStands` showed that the property need not wait for the passes and submissions
under way to end, and it no longer does: it asks only that all notices are read.

Only model-checked: liveness (fairness and ENABLED are beyond the prover) and `ProgramsAreVouched`,
whose programs are built by recursive operators. Neither proved nor checked: what the engine's ownership properties would say under the queue and replace
policies, and after a handover has gone wrong, where the code does not keep them.

## What is not modelled

- CEL predicates, templates and payloads: a predicate is a choice, a payload is dropped.
- What a model or an agent says: a choice among the classes the code tells apart.
- Row-level security: PostgreSQL's; the modules that need two stores name the store in the row.
- Payload schemas of events; alert delivery; metrics; rendering of pages, receipts and reports.
- Cron parsing: a job is given the set of minutes it is due at.
- The loss of Redis data. The event plane assumes streams survive, the scheduler its locks.
- Execution tokens: one signed token and one `SET NX`.
- The request guard of entitlements (`enforcement.py` is an inventory read by a test), the
  lists and profiles of customers, invoices, reports, insights, competitors, notifications: queries.
- The web applications and deployment files: they only call the API.

## Plan

What would add most from here, in this order:

1. The authoring half of `ProgramsAreVouched` for any number of owners, which needs the program's
   recursive operators written as recursive functions.
2. `WorkflowEngine` behind `EventDelivery`: its `TakeDecision`, `Ack` and `Fail` as an instance
   of the abstract delivery, so that the engine's redelivery assumption is the plane's theorem.
3. Liveness of the agent runtime and of the recovery playbook under the consumers' fairness.
