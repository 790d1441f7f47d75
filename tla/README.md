# Verification of the Clockify assistant's write path

The repository is an add-on server: an admin chats with a language model, the
model proposes operations on the admin's Clockify workspace, the server shows a
preview, and after a confirmation it carries the operation out through
Clockify's REST API.  State lives in one SQLite file; one Node process serves
all workspaces.  The model may say anything, Clockify may time out or answer
late, the process may die at any point, and the add-on may be uninstalled while
a write is under way.  What has to hold in spite of that is the subject of this
directory: **a confirmed write is sent at most once, in order, only under a live
installation, and what the database says about it is true.**

## Inventory

| Part | State | Operations | Hard because |
|---|---|---|---|
| Operation and step journal (`db/store/operation-runs.ts`, `harness/mutation-workflow.ts`, `harness/startup-reconciliation.ts`) | `operation_runs`, `operation_steps`, `action_results` | prepare, claim, execute, mark dispatched, settle, compensate, reconcile, recover | every statement is a transaction of its own; crash between any two; an ambiguous answer |
| Composite commits (`harness/workflows/setup-project.ts`, `setup-task.ts`, `work-structure.ts`, `curated.ts`, `clients.ts`, `harness/invoice-*-workflow.ts`) | what they hold between two awaits | check, list, create, read back, change, report | an unanswered create is found again among what other users create |
| Plan scope of the REST core (`clockify/rest/core.ts`) | descriptors of the plan, in memory | authorise, commit a dispatch, complete | workflows may swallow errors |
| Request governor (`clockify/request-governor.ts`) | queue, slots, rate window, cooldown, timer, budget | run, drain, abort, settle, note a 429 | aborts race an awaited hook; one timer |
| Confirmation batches (`services/confirmation-service.ts`, `db/store/confirmation-batches.ts`) | `confirmation_batches`, their items, `pending_confirmations` | confirm all, resume, replay, cancel all, expire, recover | half-done batches after crashes and rejections; retention runs at awaits |
| Installation lifecycle (`routes/lifecycle.ts`, `db/store/installations.ts`) | `installations`, watermarks, tombstones, retired tokens | INSTALLED, STATUS, DELETED, retire, erase, startup | callbacks are delayed, reordered, redelivered |
| Mutation coordinator (`clockify/workspace-mutation-coordinator.ts`) | generation barrier, leases, serialised handlers | activate, block, acquire, release, drain | an uninstall waits for writes that wait for Clockify |
| Idempotency ledger and single confirmations (`db/store/idempotency.ts`, `confirmations.ts`, `harness/actions.ts`) | `idempotency_keys`, `pending_confirmations` | claim, bind, heartbeat, replay, release, settle, sweep | sessions run side by side; commits outlast the claim; missed heartbeats |
| Assistant run and its budget (`assistant-v2/runner.ts`, `services/run-service.ts`, `action-execution-service.ts`, `db/store/runs.ts`, `run-events.ts`) | `assistant_runs` with `budget_json`, `run_events` | reserve, call, charge, refund, convert, suspend, resume, complete, fail | the runner saves a copy that may be stale; a dead request leaves a suspended run |
| Clarifications (`services/clarification-service.ts`, `db/store/pending-clarifications.ts`) | `pending_clarifications` | ask, claim, reset, resolve, continue in prose, expire | two transactions around an await |
| Turn runs (`db/store/turn-runs.ts`, `routes/chat.ts`, `routes/control-plane.ts`, `routes/fifo-lock.ts`) | `turn_runs`, `turn_message_links`, the session's queue | claim, replay, execute, finish | repeated requests; turns that throw; ends that cannot be stored |
| Undo ledger (`services/undo-service.ts`, `harness/undo.ts`, `db/store/undo.ts`) | `undo_records`, the undo's operation and steps | record, claim, dispatch, settle, expire, recover | one use over several sessions, partial reversal |
| Retention (`db/store/retention.ts`) | all of the above | expire, delete | yields between statements |
| Routes, UI, prompts, schemas, metrics | little of their own | | not part of the core |

How they meet: a delivery of a chat request waits in its session's **queue**,
claims its **turn row** and starts or continues a **run**; the runner spends the
run's **budget**, and suspends on a **question** or on a prepared preview.  The
confirm request takes a **lease** from the coordinator, claims the confirmation
and the **idempotency row** of its intent, and runs a workflow whose every
request passes the **plan scope** (which writes the dispatch mark into the
**journal**) and the **governor**; the outcome is settled in the journal, in the
run and, for a batch, in the batch.  An **undo** of a creation is an operation of
the same kind.  A lifecycle callback blocks the barrier, waits for the leases and
erases the rows.  At a start, `recoverOrphanedRuns`, the batch recovery, the
startup reconciliation and the completion of pending uninstalls run before
requests are served; the hourly retention pass runs beside the requests.

`PROJECT.json` lists every component with its status and, under `hazards`, the
places of the code that are hard to test, each with the properties that cover it.

## Modules

| Module | Models |
|---|---|
| `TruthfulWrites` | what the journal promises: an abstract specification with two variables, what Clockify did with each write and what is on record about it |
| `MutationJournal` | one operation of N primary steps and a compensation, from its claim to its terminal status, with crash recovery and startup reconciliation |
| `MutationJournalProofs` | the theorems about it |
| `CompositeCommits` | the commits of several steps that create and then change, while other users of the workspace do the same |
| `CompositeCommitsProofs` | the theorems about it |
| `RequestGovernor` | the governor of one workspace |
| `RequestGovernorProofs` | the theorems about it |
| `ConfirmationBatch` | one batch of N previews; a member's write is its answer, MutationJournal having its details |
| `ConfirmationBatchProofs` | the theorems about it |
| `WorkspaceLifecycle` | callbacks, installation row and watermark, coordinator and writes of one workspace |
| `WorkspaceLifecycleProofs` | the theorems about it |
| `CommitClaims` | one idempotency row and several previews of its intent, confirmed from several sessions |
| `CommitClaimsProofs` | the theorems about it |
| `AssistantRun` | one assistant run with its question, its preview and its budget, and the request that drives it |
| `UndoLedger` | one undo record, used from several sessions, and the operations that reverse it |
| `UndoLedgerProofs` | the theorems about it |
| `TurnRuns` | deliveries of chat requests of one session, the queue they wait in and the turn ledger |
| `ChatProofs` | the theorems about it and about `AssistantRun` |

Each module stands on what another one shows and says so in its header: a commit
of `CommitClaims`, a member of `ConfirmationBatch` and a confirmed write of
`AssistantRun` is one of the operations of `MutationJournal`.  Of its answer only this
is taken over: a success or a partial result changed something.  A failed answer
promises nothing, because `CompositeCommits` shows that a commit may fail after a
change.  A turn
of `TurnRuns` is a request of `AssistantRun`; `CompositeCommits` has the workflows
and the read-back that `MutationJournal` leaves open and assumes to be right; the serialised requests of
`ConfirmationBatch` and `AssistantRun` are what `TurnRuns` shows of the queue.

Each `MC*.cfg` gives a module's constants their values for TLC.  Operators named
`Mut...` are faulty variants of the definition that follows them; no specification
uses them.  They exist to show that each property fails when the code is wrong in
a plausible way.

Two conventions hold throughout.  What runs between two `await`s, or inside one
SQLite transaction, is one action, since JavaScript and SQLite run it without
interruption; the process can die between any two actions.  And Clockify is an
environment: a request that was sent may take effect, be refused, or do either
long after the caller gave up.

### MutationJournal

`op`, `result`, `status`, `dispatched`, `source`, `recon`, `proven` are the rows;
`desc`, `poison` the plan scope of `core.ts`; `pc`, `cur`, `outcome`, `seen`,
`verdict` the executor; `host`, `sends` Clockify.  `flow` chooses who drives it:
`declared` is `executeMutationWorkflow`, `curated` the hand-written commits
(`projects.ts`, `invoice-payment-workflow.ts`, ...), which may give up between
steps, reconcile and compensate, and `heedless` a commit that ignores failures,
which only the plan scope stops.  Storage faults (`MaxFaults`) make single
journal calls throw.  In a risky commit `runCommit` catches the exception
(`StorageThrows`); a confirmed safe write has no catch, the exception ends the request
and the rows stay as they are (`Escape`, remembered in `escaped`).

`awaits` says that the assistant run of the preview is still waiting for it.
`SettleRun` ends that after the write, in a transaction that may fail; a crash or an
escaped exception skips it.  While it is TRUE the cancel route stores the operation as
failed whatever its status was (`Cancel`); `withdrawn` remembers that this happened to
a claimed operation.  `SettleLapsedRun` is the next message of the session, which ends
the waiting run and leaves the operation alone.  Assumed of the surroundings: a dispatch closure issues one
mutation (`core.ts` refuses the second); Clockify does not apply what it answers
with 4xx; nobody else changes the same objects.

### CompositeCommits

A workflow is a record of what tells it from the others: which steps create, what
the list before a create is compared with, which closures read unguarded, which
steps are read back now and at a start, when it stops, and how it reports an unknown
or degraded step.  The safe writes occur twice: confirmed in a v2 run, where an
exception between two steps leaves the request and the operation stays `executing`
until the next start (`Escape`), or made at once, where it is caught.  The steps
themselves are shared, as `executeDurableRiskyStep` is
in the code.  `row`, `op`, `looked`, `listed` are the journal as far as it matters
here, `listed` being the stored `beforeIds`; `host` and `twins` are Clockify, `made`
and `hit` remember whose entity a step reported and whose it was sent to.
`MutationJournal` takes the evidence of a read-back to be about its own request;
here it is what a list shows, so that another user's entity can be taken for one's
own.  Left out: the timer of a work package, lost settlements, cancelled requests.

### RequestGovernor

`state`, `promise`, `hook`, `external`, `activeReleased` are the closure of each
request; the rest is the governor.  `drain()` is a chain of steps that nothing
interrupts (`draining`).  Time counts down.  `Shifted` is the loop that shifts old
entries off the head of an array, `Lapsed` the number it shifts.  Left out: the durable charge of a run
(`AssistantRun`), a hook that aborts its own signal, and an abort after dispatch,
for which the code has no listener.

### ConfirmationBatch

`item`, `conf`, `result`, `dispatched`, `batch`, `index`, `run` are rows; `seen`,
`outcomes`, `cur` what a confirm request holds while it awaits.  Requests of one
session are serialised (`routes/fifo-lock.ts`); retention is not and runs at the
awaits.  `truth` is what the commit knew when it answered, and the summary is compared
with that; whether the commit was right is the subject of the two modules before.  All
members share one expiry.  The checks that change no state (nonce,
membership, policy) are one nondeterministic rejection.

### WorkspaceLifecycle

`row`, `mark`, `retired` are the tables, `barrier`, `epochs`, `revoked`,
`deletion`, `queue`, `latest` the memory of the process.  The watermark's
retention (24 h and two minutes) against the accepted age of a callback (24 h and
one minute) is abstracted to: a watermark is dropped only when no callback as old
as it is still accepted (`oldest`).  Left out: attestations, service URLs, rows
without an issue time, callbacks that fail verification.

### CommitClaims

`status`, `result`, `bound` are a confirmation, `row` the ledger row of the intent;
`pc`, `out`, `beat`, `missed` belong to the confirm request.  Sessions interleave at
every await.  Time is discrete and the heartbeat timer is due every `Beat`;
`MaxMissed` touches in a row may fail.  What the ledger rests on is the assumption
`Beat * (MaxMissed + 1) <= Window`: in the code 90 s against 10 min, so that five
heartbeats may be missed.  The commits with a key are the creation of an invoice and
the setups of a project and of a task.  `failed` remembers which of them returned a
definitive failure: its claim is released, and since a setup may fail after it created
its project, the intent can then be committed again at once, effect or not.  A commit
whose event loop stood still for longer is
outside the model.

### AssistantRun

`run`, `question`, `preview` are rows, `mem` the runner's copy of the run's row,
`left` and `flight` the host calls a step still makes and those charged but not
sent.  One request is in progress at a time; the clock, retention and crashes come
between any two of its steps.  `SettleDegraded` and `RequestDies` are the store
failing at the points where the code goes on without it or gives up.  `CanReserve`
is asked of `mem`, which `prepareBatch` read before the calls of the preview.  An
operation that a cancel or an expiry ended, with the text that nothing was changed, is
`withdrawn`; a commit ends as `settled` or `failed`, either after a change or without
(`Outcomes`).  Left out:
tokens, wall time, per-tool limits and what the model says.

### UndoLedger

`record` and `op` are rows, `req` the requests, `wire` and `applied` Clockify.  The
plan is `undoPlanSteps`: entities in reverse order of creation, projects, clients
and tasks archived before they are deleted; a step names its entity and what is done
to it, and `First`, `After` and `Last` walk the plan.  Both sessions may pass the checks; the
one that does not get the record in `Start` ends in `StartLost`.

### TurnRuns

`turn` and `links` are rows, `fifo` the promise chain of the session, `call` the
deliveries; `lost` remembers the requests whose end this process could not store.
A turn succeeds, fails or throws; what it does is `AssistantRun`.

## Runs

| Run | Instance | Shows |
|---|---|---|
| `journal` | 3 steps and a compensation, all flows, 2 crashes, 2 storage faults | all safety of the journal, with cancels before, between and after the crashes and exceptions that leave a run waiting; that it implements `TruthfulWrites`; that every claimed operation ends |
| `composite` | 7 workflows, the safe ones in both ways, plans of up to 3 steps, 2 twins, 2 degraded records, 2 crashes | what is stored is true of Clockify, a failure hides nothing and comes after an effect only when a read threw, changes go to the commit's own entity |
| `governor` | 1 read, 2 mutations, 2 slots, budget 2, 1 start per window, two 429s of different length | single-flight mutations, charges that match calls, FIFO and rate, pauses kept, every request ends |
| `batch` | 3 members, 2 crashes | members sent once, in order and not after the run; truthful members and summary; an overdue batch closes |
| `lifecycle` | 2 writes, 2 tokens, 2 issue times, 2 callbacks, 1 crash, 1 failed erasure, 1 operator action | rows outlive work, barrier, row and leases agree, revocations are final and no token returns, uninstalls are completed and callbacks answered |
| `claims` | 3 sessions, heartbeat 1, claim lifetime 2, window 4, retention 4, time 5, two missed heartbeats, 1 crash | a running commit keeps its claim, a change is not repeated within the window except after a definitive failure, answers are those of the commit they report |
| `assistant` | 4 host calls, 3 model calls, a write that reserves 3, bursts of 2, 2 crashes | a live preview is owned by its run, spending is in the row, every run ends |
| `undo` | 3 entities, 2 of them archived first, 2 sessions, 2 crashes, 2 storage faults | reversed once and dependents first, the record says what happened |
| `turns` | 3 deliveries of one request id with 2 messages, both routes, 2 crashes, 2 faults | a turn runs once, its answers and its row agree, every queued call ends |
| `batch_restart`, `assistant_cancel_after_commit`, `assistant_host_call_ceiling` | smallest that shows it | a document, comment or test says something the code does not do; see Findings |

Why these bounds: three steps are the least at which a step has an earlier and a
later neighbour, and the journal's safety is proved for every N anyway.  The
second crash interrupts a recovery's aftermath.  Two callbacks allow an install or
a revocation and its redelivery to overtake each other after the installation the
model may start with; the invariants were also checked with three (1.7 million
states), an instance too large for the liveness checks.  Two writes allow one
lease to end while another lasts; two issue times allow earlier, equal and later.
Two twins allow one on the list and one after
it, or one of a create and one of a change.  The two 429s are needed for a shorter pause inside a longer one.  Three sessions
let one confirm while a second holds a dead claim and a third a live one; the window
exceeds the longest silence of a holder, three beats, by one, so that being apart says
something.  A write
that reserves three of four host calls makes the limit bite between a read and a
preview, and costs more than a burst, so that a reservation nobody checked shows.  Three entities allow a reversal that stops in the middle with one entity
half reversed.  Three deliveries are the first, its repetition, and one that waits
behind both.  `CHECK_DEADLOCK FALSE` stands where a behaviour really ends: a
settled operation, a workspace whose bounded callbacks and writes are used up, a
used undo record, and a session whose deliveries are all answered.

**Fairness.**  Weak fairness of the steps of a handler or request once it was
accepted (JavaScript runs on, every Clockify call and role check has a timeout,
every turn a budget), of timers and the clock, of the hourly retention pass
(`server.ts:313`), and of the restart of a process that died (the hosting platform
restarts it).  Nothing is assumed of Clockify's decisions or of callbacks.
`EveryRunEnds` alone assumes something of the admin, strong fairness of the next
chat message: it says that a run whose request died cannot block its session,
since the next message ends it; without that message nothing in the code does.
`ClaimedOperationSettles` gives up after a second storage fault or an exception that
escaped its request, because the code does: the row then waits for the next start,
which settles it (its second conjunct).  `LifecycleSettles` gives up after a
failing erasure, after which the row stays deleted until the next start or the
next DELETED callback.

## Proofs

`MutationJournalProofs` proves, for every number of steps, every set of flows and
every number of crashes and faults, and from the named assumptions of
`MutationJournal` alone:

- `TypeCorrect`, `JournalIsTruthful`, `SendsJournaledOnce`, `DispatchesAreWarranted`
  (from `EffectsAreOrdered` and `CompensationsAreSafe`), `SuccessMeansComplete`,
  `FailuresAreDefinitive`: the safety properties of the run `journal`;
- `FinalStatusKept`: the action property that a final status stays, but for the
  refinement of an unknown outcome at a start and for a cancel that found its run
  waiting, which it shows to need a crash, a fault or an escaped exception before;
- `Refinement`: `Spec` implements `TruthfulWrites` under the mapping
  `effect <- host`, `report <- ReportOf`.

**The invariant.**  None of these is inductive.  That a row recorded as failed
never took effect depends on what the executor is about to write, which depends
on how it classified the answer, which depends on whether the request was sent.
`JournalInv` strings these together: `OutcomeInv` (the classified outcome agrees
with Clockify), `RowInv` (a row's status agrees with where the executor is),
`DispatchInv` (nothing reached Clockify that was not marked before, and a row
that is about to be sent was never sent), `SourceInv`, `DescInv` (a completed
descriptor had its effect, and the earlier ones of the current step are
completed), `ReconInv` (authoritative evidence is true) and `OperationInv`.
Compensations need more, `UndoInv`: what a step *returned* to the workflow
(`seen`) stays true of Clockify while the workflow runs, so that the step after
the compensated one, returned as failed, cannot take effect later.  The order of
the argument: `TypedNext`, `JournalInvNext`, `UndoInvNext` (one step per action),
`JournalInvariant`, then the theorems as consequences; `PromiseNext` maps each
action to an `Issue`, `Decide`, `Record` or stuttering step of `TruthfulWrites`.

`FailuresAreDefinitive` (`FailureIsDefinitive`) needs what `JournalInv` does not say,
what the workflow knows when it reports a failure.  `FailureInv` adds it: nothing was
sent of a step that was not run, a step returned as succeeded was applied and one
returned as failed never will be (`ReturnedInv`); the declared workflow runs its steps in
order and goes on only after a plain success (`DeclaredInv`); so that the report, and
later the row, is made when nothing is on its way (`ReportInv`).  It speaks of operations
that no cancel overwrote (`withdrawn`); what the cancel stores is the finding
`assistant_cancel_after_commit`.  `FinalStatusKept` rests on `RunInv` (`RunInvNext`): a
run waits for an operation that is neither prepared nor failed only after something
went wrong.  `ExecutorKeepsSession` and `ExecutorRuns` say that no step of the executor
touches that but `Escape` and `SettleRun`.

`CommitClaimsProofs` proves, for every set of confirmations and every choice of the
periods that `ClaimAssumption` allows, `ClaimTypes`, `CommitsKeepTheirClaim`,
`CommitsAreApart` and `ClaimAnswersAreTrue`.  The last three follow from
`ClaimInvariant`, whose conjuncts are `RequestInv` (where a request is, and what its
preview's row says meanwhile), `ClaimInv`, `CoverInv` and `AnswerInv`.  The argument
turns on one number, `Silence = Beat * (MaxMissed + 1)`, the longest time a running
commit can go without touching its claim.  `ClaimInv` counts up to it: the next beat
of a holder that missed `m` ticks is due at most `Beat * (m + 1)` after the claim was
last touched, so a running holder is never silent for more than `Silence`, and with
`Silence <= Window` its claim is never swept.  That two changes are apart needs more than
that the claims are: a change may be made by a commit whose claim is gone by the time
of the next.  `CoverInv` says of every change that it is either as old as the window
(up to the silence of its holder) or covered by a row that was touched no earlier
than `Silence` before it, with no other holder; the changes of a commit that returned a
definitive failure are exempt, whose claim the code releases.  `AnswerInv` likewise
says of a stored failure that its commit changed nothing or itself returned that failure,
so that the ledger, a replay, the settlement and recovery add no error of their own.

`ChatProofs` proves of `TurnRuns`, for every set of deliveries, requests, crashes and faults,
`TurnTypes` and `TurnLedgerIsTruthful`.  `LedgerIsTruthful` speaks about rows and
answers; `TurnInvariant` adds why they agree.  `QueueInv`: a call that is being
handled is the head of the session's queue, so there is only one.  `CallInv` and
`RowInv`: the row of its request is where the handler left it, and an `executing` row
that nobody has in hand had its finish lost.  `EndInv`: a row that is not yet
executing never ran, and every stored envelope and every answer is the verdict of
that one turn.  `LeavesStep`, what leaving the queue does whatever came before, is
the lemma the answering actions share.

Of `AssistantRun`, `ChatProofs` proves `RunTypes`, `PreviewsStayOwned`,
`SpendingStaysRecorded` and `OverdraftIsBounded` (how far the ceiling can be passed, see
Findings), for every ceiling, cost, burst, limit of model calls and
number of crashes.  (It extends both modules; hence the names `TurnInit`, `TurnNext`,
`TurnTypeOK`, `TurnSpec` and `stops` in `TurnRuns`.)  What makes
the properties inductive (`RunInvariant`) is how far the copy `mem` may lag behind the
row.  `CopyInv`: it agrees on calls, attempts and reservations wherever it may be
stored; during a model call it does not, as the first failed attempt is charged to the
row alone: an answer is followed by a reload, a failure by a store of the old copy that
ends the run, which `CountInv` allows for; and while a preview is prepared, the row has used
at most a burst more than the copy, which is the whole overdraft (`OverdraftInv`).  `WireInv`: host calls
are in flight only while something makes them.  `QuestionInv` and `PreviewInv`: a run
that works has no question that another request could answer, and a pending preview has
nobody working on its run, so that no store takes its reservation away.  `CountInv`: the
row counts every model call, but for a run that a failed call ended; it has no pending
question, so nothing revives it with the smaller count.

`RequestGovernorProofs` proves, for every finite set of requests and every
concurrency, rate, window, budget and set of pauses, `TypesHold`, `ChargesStayRight`,
`AdmissionStaysRegular` and the action property `PausesStayKept`.  `RequestInv` says for
each state of a closure what it has done; its point is that a request cancelled during
its hook has given its slot back *before* the hook answers, so that the late answer
releases nothing.  With it each step takes one slot or charge, gives one back or leaves
all alone (`SlotStep`, `ChargeStep`), and the counters are cardinalities (`SlotInv`,
`ChargeInv`) and the mutation flag the one mutation past the queue (`FlagInv`).
`QueueInv`: the queue is exactly the requests that wait, in order of arrival.
`WindowInv` relates the code's array to what really happened: behind `Stale` entries
that ran out, `starts` is the ages of the dispatches of the last window; hence
`drain()` prunes neither too many nor too few (`PrunedFacts`).  `PauseInv`: no pause
outlasts the cooldown.

`ConfirmationBatchProofs` proves, for every size of batch and number of crashes,
`TypesHold`, `OutcomesStayTruthful` and the action property `DispatchStaysOrderly`.
`MemberInv` and `IndexInv` are what the rows say without a request: a preview that can
be used belongs to a member that was never dispatched, and `current_index` passes
recorded members only.  `QueueInv` and `CurrentInv` are what an admitted request adds:
all members before its own are recorded, none is interrupted or cancelled.
`OutcomeInv` ties the outcomes it collected to the rows it wrote, which is what makes
the summary of a resumed batch true.

`CompositeCommitsProofs` proves, for every length of plan and number of twins, faults
and crashes, `TypesHold`, `ReceiptsStayTruthful` and `ChangesStay`.  The first of the two
does not say that a failed commit changed nothing, which is not so, but what a stored
failure means: whatever took effect is journaled as succeeded, and there is such an
effect only if a read between two steps threw.  The proofs use of a
workflow only its `Shape`, which lemma `JobShape` shows of each: among others that
where later steps change what the first one created, an inferred create ends the
commit or is never inferred.  `OrderInv` (one step at a time), `EndInv` and `ReturnInv`
(what is known of the step and of the commit), `RowInv` (what a restart finds) and
`EntityInv` (later steps work on one's own entity) make the two properties inductive.

`WorkspaceLifecycleProofs` proves, for every set of writes, tokens and issue times,
`TypesHold`, `JournalsOutliveWork`, `AuthoritiesAgree` and the action property
`RevocationStaysFinal`.  `GenInv`: a new generation is new to everybody.  `LeaseInv`:
every lease is of the current generation or of a kept, revoked one, therefore the
uninstall waits for all (`DeletionInv`).  `ErasedInv`: a request whose rows were erased
while it had no lease will not get one, because the generation it read is blocked or
gone.  `SeedInv` and `DownInv` are the process before its first callback and after a
crash.  Revocations need `StoreInv` and `MemoryInv`: the last one is remembered by
the watermark, or is older than everything that can still be handled.

`UndoLedgerProofs` proves, for every number of entities, choice of those that are
archived, set of sessions, crashes and faults, `TypesHold`, `UndosStayTruthful` and
`ReversalsHappenOnce`.  `ClaimInv`: one request has the record.  `SentInv`: what was sent
is journaled, and only that is on its way or took effect.  `RequestInv`: a request that
works has reversed exactly what the plan has before its step.  The lemmas `PlanStarts`,
`PlanGoesOn`, `PlanEnds` and `AllDeleted` say that `First`, `After` and `Last` walk
through every step once.

**Assumptions.**  The theorems rest on the `ASSUME`s of the modules only: bounds are
natural numbers, the limits, cost and burst of a run positive, the sets of requests
finite, `Silence <= Window` for the claims, the
absent token of an installation is none of the tokens.  TLC evaluates them in every run.

**Only model-checked:** the liveness properties (fairness and `ENABLED` are
outside the prover's reach).  Each inductive
invariant was also checked by TLC, on the instance of its module's run or a smaller
one, before it was proved.

## Findings

- `batch_restart`: a crash between the claim of a member and its dispatch makes
  the recovery insert a second result for the operation; the unique index undoes
  the recovery transaction, at every start.
- `assistant_cancel_after_commit`: when a confirmed write took effect and its run
  was not settled, cancelling its preview stores "No change was made" and the
  operation as failed.
- `assistant_host_call_ceiling`: a run may send more host calls than its ceiling of 60,
  where `v2-host-call-budget-runtime.test.ts:16-18` says that every call charges below it
  and "call 61 is denied BEFORE dispatch".  `prepareBatch` reads the run's row
  (`operation-preparation-service.ts:356`) before the awaited preview, whose calls are
  charged to the row; the reservation is checked on that copy
  (`assistant-write-preparation.ts:131`) and not again at dispatch
  (`confirmations.ts:261`, `store.ts:996`).  `OverdraftIsBounded` is what does hold: the
  ceiling is passed by the calls of one preview at most.

Noticed while modelling, part of the models' behaviour and without a run of their own:

- Failures after a known effect: the repository's README (lines 108-109) says that "a
  definitive failure after a known effect is reported as partial".  The code does not
  keep to it in two places.  A curated delete that meets a stale target after its
  archive step succeeded (`projects.ts:599`, likewise in `clients.ts`, `tasks.ts`,
  `admin.ts`), and a composite commit in which a read between two steps throws
  (`setup-project.ts:372`, `:407`; `actions.ts:1065` answers `execution_error`), are stored
  as `definitive_failed`.  For a setup this also releases its claim (`actions.ts:986`), so
  that the same intent can be committed a second time at once.  `FailureIsDefinitive`
  shows that `executeMutationWorkflow` follows the rule, `ReceiptsAreTruthful` that the
  exception is the only case among the composite commits and that the journal of the
  steps hides nothing then, `EffectsAreApart` that it is the only way to an early repetition.
- Safe writes: a confirmed safe write runs without a catch (`actions.ts:697-712`,
  `confirmation-service.ts:318-350`, `509-514`).  One storage fault or failed read leaves
  its operation `executing` and its run waiting, the first until the next start, the
  second until the next message; a cancel in between stores it as failed.
- Batches: the statement of the build log that "unknown stops later dispatch"
  (`docs/V2_BUILD_LOG.md:75`) does not survive a crash between the commit of an unknown
  member and the cancellation of the later ones (`confirmation-service.ts:835`, `:854`):
  the resumed batch sends them (`confirmation-batches.ts:344`).  `ConfirmationBatch` has
  these behaviours.
- Composite commits: a create that was only inferred may be another user's twin
  (`structure-durable.ts:235`).  The setups then stop, and the client and the invoice
  do not infer; the work package goes on and builds inside the twin.  An unknown later
  step is reported as `partial` by the setups and the work package, and an operation
  that is `partial` is not visited by the startup pass.  A failed read-back of an
  invoice create is recorded, after which no start tries again.
- Lifecycle: an uninstall whose verification is overtaken by that of a
  later-arriving install of the same second is acknowledged and dropped
  (`workspace-mutation-coordinator.ts:157`).  At startup a deleted row is pinned to
  the current time, so that a reinstall issued before the restart and delivered
  after it is dropped (`db/store/installations.ts:246`).  The erase script is
  modelled with the server stopped; beside a live one it knows no leases.
- Batches: a confirm request after the expiry overwrites a batch with `expired`,
  whatever it was (`confirmation-service.ts:661`); its members keep their results.
- Budget: calls of a confirmed plan are not converted from reserved to used; reading the options of a question is
  not charged to the run; a failed run can be revived by an answer in prose.
- Turns: a crash between `claimTurnRun` and `markTurnRunExecuting` leaves a
  `prepared` row, which recovery does not touch and which answers
  `operation_in_progress` until retention deletes it.  A turn that throws on the JSON
  route leaves its row `executing` until the next start.  Since the session's queue
  serialises deliveries, `operation_in_progress` is only ever told about a request
  that is no longer running.
- Undo: a record used from another session than the one it was made in is never
  settled (`db/store/undo.ts:150`), and stays `executing` until the next start.

## Not modelled

- The v1 loop (`assistant/`, `routes/chat-pipeline.ts`): the rollback engine.  Its
  writes use the same claims, journal and turn rows.  Intent capabilities are
  consumed by it alone.
- What each workflow under `harness/workflows/` reads, validates, diffs and renders
  for its entity, and the REST ports' mapping of requests and responses: functions
  of their arguments.  The way they drive the journal is the flow `curated`, and the
  commits of several steps are `CompositeCommits`.
- The generated API catalog, action registry, schemas, prompts, discovery ranking
  and presentation: tables and text.
- Monitors, telemetry, metrics, audit and artifacts: append-only, nothing reads
  them back.  Sessions and messages: single statements.
- Attestations, encryption, migrations, backups: outside what a state machine says.
- The browser UI, a client whose requests the models allow in any order, and the
  repository's build, release and evidence scripts.

These are most of the repository's lines.  Nearly all code that decides when a
row changes, when a request is sent and what is said about it afterwards is in one
of the modules; the rest has no order of events in which it could go wrong.

## Plan

Done, in this order: the journal (the promise everything else rests on), the
governor, the batches, the lifecycle, the claims, the assistant run, the undo
ledger, the turns and the composite commits; then their theorems, in the order of
what rests on them.  Every safety property of a passing run has its theorem.
