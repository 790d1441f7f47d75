-------------------------- MODULE MutationJournal --------------------------
(***************************************************************************)
(* One confirmed Clockify write, from its claim to its terminal status:    *)
(* the durable journal of operation_runs, operation_steps and              *)
(* action_results (db/store/operation-runs.ts), the executor that drives   *)
(* it (harness/mutation-workflow.ts), the in-memory plan scope that admits *)
(* each dispatch (clockify/rest/core.ts), crash recovery (db/store.ts) and *)
(* the read-only reconciliation at startup.                                *)
(*                                                                         *)
(* Every synchronous database transaction is one action, because the       *)
(* process can die between any two of them.  Clockify itself is external:  *)
(* a request that has left may take effect, be refused, or do either long  *)
(* after the caller stopped waiting.                                       *)
(***************************************************************************)
EXTENDS Integers, FiniteSets

CONSTANTS
    N,           \* primary steps of the stored mutation plan
    Flows,       \* which workflows may run it, see Flow below
    MaxCrashes,  \* bound: process deaths
    MaxFaults    \* bound: storage calls that throw (SQLITE_BUSY and the like)

ASSUME NAssumption == N \in Nat \ {0}
ASSUME BoundsAssumption == MaxCrashes \in Nat /\ MaxFaults \in Nat

Steps == 1 .. N
Comp == N + 1              \* the plan's compensation descriptor, after the primaries
Rows == 1 .. (N + 1)

\* "declared": executeMutationWorkflow, which stops at the first step that did
\* not plainly succeed.  "curated": a hand-written commit (deleteProject and
\* its like) that may give up between steps and may compensate.  "heedless": a
\* commit that swallows the failure of a step and calls the next one; only the
\* plan scope stands in its way.
Flow == {"declared", "curated", "heedless"}
ASSUME FlowsAssumption == Flows \subseteq Flow

Final == {"succeeded", "partial", "definitive_failed", "outcome_unknown"}
OpStatus == {"prepared", "executing"} \cup Final
RowStatus == {"none", "prepared", "executing", "succeeded", "definitive_failed",
              "outcome_unknown", "compensating", "compensated", "compensation_failed"}
Outcome == {"none", "succeeded", "definitive_failed", "outcome_unknown", "cancelled"}
Seen == {"none", "succeeded", "degraded", "definitive_failed", "outcome_unknown"}
PC == {"idle", "choose", "prepared", "closure", "authorized", "dispatching", "sent",
       "ambiguous", "cancel", "settle", "return", "close", "down", "boot"}

VARIABLES
    op,          \* operation_runs.status
    result,      \* kind of the operation's action_results row, or "none"
    status,      \* operation_steps.status by plan index ("none": no row)
    dispatched,  \* operation_steps.dispatched_at IS NOT NULL
    source,      \* compensates_step_id of the compensation row, or 0
    recon,       \* operation_runs.reconciliation_json: step (0: never) and verdict
    proven,      \* steps whose detail_json says authoritativeReconciliation
    host,        \* Clockify: what became of the request of each row
    sends,       \* Clockify: how often a request of each row was sent
    pc, cur,     \* the executor: where it is, on which row
    outcome,     \* how the dispatch of cur was classified
    desc,        \* plan scope: descriptor status by plan index
    poison,      \* plan scope: primaryPoison
    seen,        \* what executeStep returned to the workflow, by plan index
    verdict,     \* what the workflow reported for the operation
    flow,        \* the workflow that runs this operation
    awaits,      \* the assistant run of this preview is still awaiting_confirmation
    withdrawn,   \* history: a cancel was stored over an operation already claimed
    escaped,     \* history: an exception left the request that ran the operation
    todo,        \* steps the startup reconciliation still has to read
    crashes, faults

durable == <<op, result, status, dispatched, source, recon, proven>>
clockify == <<host, sends>>
scope == <<desc, poison>>
session == <<awaits, withdrawn, escaped>>
vars == <<op, result, status, dispatched, source, recon, proven, host, sends, pc, cur,
          outcome, desc, poison, seen, verdict, flow, awaits, withdrawn, escaped, todo,
          crashes, faults>>

NoRecon == [step |-> 0, auth |-> FALSE]

SessionType == awaits \in BOOLEAN /\ withdrawn \in BOOLEAN /\ escaped \in BOOLEAN

TypeOK ==
    /\ op \in OpStatus
    /\ result \in Final \cup {"none"}
    /\ status \in [Rows -> RowStatus]
    /\ dispatched \in [Rows -> BOOLEAN]
    /\ source \in 0 .. N
    /\ recon \in [step : 0 .. N, auth : BOOLEAN]
    /\ proven \subseteq Steps
    /\ host \in [Rows -> {"idle", "inflight", "applied", "refused"}]
    /\ sends \in [Rows -> Nat]
    /\ pc \in PC
    /\ cur \in Rows
    /\ outcome \in Outcome
    /\ desc \in [Rows -> {"pending", "dispatching", "completed", "failed"}]
    /\ poison \in BOOLEAN
    /\ seen \in [Rows -> Seen]
    /\ verdict \in Final
    /\ flow \in Flow
    /\ SessionType
    /\ todo \subseteq Steps
    /\ crashes \in Nat
    /\ faults \in Nat

Init ==
    /\ op = "prepared"
    /\ result = "none"
    /\ status = [r \in Rows |-> "none"]
    /\ dispatched = [r \in Rows |-> FALSE]
    /\ source = 0
    /\ recon = NoRecon
    /\ proven = {}
    /\ host = [r \in Rows |-> "idle"]
    /\ sends = [r \in Rows |-> 0]
    /\ pc = "idle"
    /\ cur = 1
    /\ outcome = "none"
    /\ desc = [r \in Rows |-> "pending"]
    /\ poison = FALSE
    /\ seen = [r \in Rows |-> "none"]
    /\ verdict = "outcome_unknown"
    /\ flow \in Flows
    /\ awaits \in BOOLEAN /\ withdrawn = FALSE /\ escaped = FALSE
    /\ todo = {}
    /\ crashes = 0
    /\ faults = 0

-----------------------------------------------------------------------------
(* Starting the operation.                                                 *)

\* A confirmation is claimed: one transaction moves the operation to executing
\* and stores an outcome_unknown result in advance.
MarkConfirmationExecuting ==
    /\ pc = "idle" /\ op = "prepared"
    /\ op' = "executing"
    /\ result' = "outcome_unknown"
    /\ pc' = "choose"
    /\ UNCHANGED <<status, dispatched, source, recon, proven, clockify, cur, outcome,
                   scope, seen, verdict, flow, session, todo, crashes, faults>>

\* A direct safe write or an undo, which no assistant run waits for, starts its
\* operation without a stored result.
MarkOperationExecuting ==
    /\ pc = "idle" /\ op = "prepared" /\ ~awaits
    /\ op' = "executing"
    /\ pc' = "choose"
    /\ UNCHANGED <<result, status, dispatched, source, recon, proven, clockify, cur,
                   outcome, scope, seen, verdict, flow, session, todo, crashes, faults>>

\* The preview expires, a preview without a run is cancelled, or the start is
\* denied: the operation ends before it began.  The sweep leaves the run waiting,
\* the next message of the session ends it too.
EndUnclaimed ==
    /\ pc = "idle" /\ op = "prepared"
    /\ op' = "definitive_failed"
    /\ result' = "definitive_failed"
    /\ awaits' = FALSE \/ UNCHANGED awaits
    /\ UNCHANGED <<status, dispatched, source, recon, proven, clockify, pc, cur, outcome,
                   scope, seen, verdict, flow, withdrawn, escaped, todo, crashes, faults>>

\* The cancel route, between two requests of the session: while the run awaits its
\* confirmation the operation is stored as failed, whatever its status.  The row
\* that says so is a new one; the result bound to the operation stays.
Cancel ==
    /\ pc = "idle" /\ awaits
    /\ op' = "definitive_failed"
    /\ result' = IF op = "prepared" THEN "definitive_failed" ELSE result
    /\ awaits' = FALSE
    /\ withdrawn' = IF op \in {"prepared", "definitive_failed"} THEN withdrawn ELSE TRUE
    /\ UNCHANGED <<status, dispatched, source, recon, proven, clockify, pc, cur, outcome,
                   scope, seen, verdict, flow, escaped, todo, crashes, faults>>

\* The next message of the session finds no pending preview of the waiting run and
\* ends the run; the operation stays as it is.
SettleLapsedRun ==
    /\ pc = "idle" /\ awaits /\ op # "prepared"
    /\ awaits' = FALSE
    /\ UNCHANGED <<durable, clockify, pc, cur, outcome, scope, seen, verdict, flow, withdrawn,
                   escaped, todo, crashes, faults>>
-----------------------------------------------------------------------------
(* One primary step: executeStep inside withMutationPlanStep.              *)

Finished == {i \in Steps : seen[i] # "none"}
Unhurt == \A i \in Finished : seen[i] \in {"succeeded", "degraded"}

\* Which step the workflow calls next.
Calls(i) ==
    CASE flow = "declared" ->
            /\ \A j \in Steps : j < i => seen[j] = "succeeded"
            /\ seen[i] = "none"
      [] flow = "curated" ->
            /\ Unhurt
            /\ \A j \in Steps : (j < i) <=> (seen[j] # "none")
      [] OTHER -> TRUE

PrepareOperationStep(i) ==
    /\ pc = "choose" /\ op = "executing" /\ Calls(i)
    /\ status[i] = "none"
    /\ status' = [status EXCEPT ![i] = "prepared"]
    /\ cur' = i
    /\ pc' = "prepared"
    /\ UNCHANGED <<op, result, dispatched, source, recon, proven, clockify, outcome,
                   scope, seen, verdict, flow, session, todo, crashes, faults>>

\* Mutant: the scope forgets the failures before this step.
MutAdmits(i) == desc[i] = "pending"

\* withMutationPlanStep lets a primary in only on a clean scope, in order, once.
Admits(i) ==
    /\ ~poison
    /\ desc[i] = "pending"
    /\ \A j \in Steps : j < i => desc[j] = "completed"

MarkOperationStepExecuting ==
    /\ pc = "prepared" /\ cur \in Steps
    /\ status[cur] = "prepared" /\ op = "executing"
    /\ status' = [status EXCEPT ![cur] = "executing"]
    /\ \/ /\ Admits(cur)
          /\ pc' = "closure"
          /\ UNCHANGED <<outcome, poison>>
       \/ /\ ~Admits(cur)
          /\ pc' = "settle"
          /\ outcome' = "definitive_failed"
          /\ poison' = TRUE
    /\ UNCHANGED <<op, result, dispatched, source, recon, proven, clockify, cur, desc,
                   seen, verdict, flow, session, todo, crashes, faults>>

\* The catch block of withMutationPlanStep.
FailDescriptor ==
    /\ desc' = [desc EXCEPT ![cur] = "failed"]
    /\ poison' = (poison \/ cur \in Steps)

\* Before anything leaves: a stale target snapshot, a denied role recheck, an
\* exhausted host-call budget or a closure that writes nothing is definitive;
\* a failed read is not known to be; an abort signal is a cancellation.
FailBeforeDispatch(o) ==
    /\ pc \in {"closure", "authorized"}
    /\ FailDescriptor
    /\ outcome' = o
    /\ pc' = IF o = "cancelled" /\ cur \in Steps THEN "cancel" ELSE "settle"
    /\ UNCHANGED <<durable, clockify, cur, seen, verdict, flow, session, todo, crashes, faults>>

AuthorizeScopedMutationDispatch ==
    /\ pc = "closure"
    /\ desc[cur] = "pending"
    /\ pc' = "authorized"
    /\ UNCHANGED <<durable, clockify, cur, outcome, scope, seen, verdict, flow, session, todo,
                   crashes, faults>>

\* Synchronously before fetch: dispatched_at is journaled, then the descriptor
\* advances.
CommitScopedMutationDispatch ==
    /\ pc = "authorized"
    /\ desc[cur] = "pending"
    /\ status[cur] = "executing" /\ ~dispatched[cur]
    /\ dispatched' = [dispatched EXCEPT ![cur] = TRUE]
    /\ desc' = [desc EXCEPT ![cur] = "dispatching"]
    /\ pc' = "dispatching"
    /\ UNCHANGED <<op, result, status, source, recon, proven, clockify, cur, outcome,
                   poison, seen, verdict, flow, session, todo, crashes, faults>>

\* The journal write itself throws: dispatch_journal_unavailable, a denial.
DispatchJournalUnavailable ==
    /\ pc = "authorized"
    /\ faults + 1 <= MaxFaults
    /\ faults' = faults + 1
    /\ FailDescriptor
    /\ outcome' = "definitive_failed"
    /\ pc' = "settle"
    /\ UNCHANGED <<durable, clockify, cur, seen, verdict, flow, session, todo, crashes>>

\* The request leaves the process.
Send ==
    /\ pc = "dispatching"
    /\ host' = [host EXCEPT ![cur] = "inflight"]
    /\ sends' = [sends EXCEPT ![cur] = @ + 1]
    /\ pc' = "sent"
    /\ UNCHANGED <<durable, cur, outcome, scope, seen, verdict, flow, session, todo, crashes, faults>>

\* Clockify answers a request when it likes, the caller waiting or not.
HostDecides(r) ==
    /\ host[r] = "inflight"
    /\ \E h \in {"applied", "refused"} : host' = [host EXCEPT ![r] = h]
    /\ UNCHANGED <<durable, sends, pc, cur, outcome, scope, seen, verdict, flow, session, todo,
                   crashes, faults>>

\* A 2xx with a JSON or empty body.
RespondSucceeded ==
    /\ pc = "sent" /\ host[cur] = "applied"
    /\ desc' = [desc EXCEPT ![cur] = "completed"]
    /\ outcome' = "succeeded"
    /\ pc' = "settle"
    /\ UNCHANGED <<durable, clockify, cur, poison, seen, verdict, flow, session, todo, crashes, faults>>

\* A 4xx other than 408: DefinitiveWriteFailure.
RespondRejected ==
    /\ pc = "sent" /\ host[cur] = "refused"
    /\ FailDescriptor
    /\ outcome' = "definitive_failed"
    /\ pc' = "settle"
    /\ UNCHANGED <<durable, clockify, cur, seen, verdict, flow, session, todo, crashes, faults>>

\* Mutant: a write is retried like a read.
MutRetryWrite ==
    /\ pc = "sent"
    /\ pc' = "dispatching"
    /\ UNCHANGED <<durable, clockify, cur, outcome, scope, seen, verdict, flow, session, todo,
                   crashes, faults>>

\* A timeout, a broken connection, 408, 5xx or a body that is not JSON:
\* AmbiguousWriteOutcome, whatever Clockify did or will do.
RespondAmbiguous ==
    /\ pc = "sent"
    /\ pc' = "ambiguous"
    /\ UNCHANGED <<durable, clockify, cur, outcome, scope, seen, verdict, flow, session, todo,
                   crashes, faults>>

\* The lease is aborted while the closure still reads after its write.
CancelAfterDispatch ==
    /\ pc = "sent" /\ cur \in Steps
    /\ FailDescriptor
    /\ outcome' = "cancelled"
    /\ pc' = "cancel"
    /\ UNCHANGED <<durable, clockify, cur, seen, verdict, flow, session, todo, crashes, faults>>

\* dispatchWithReconciliation: one read; only positive evidence turns the
\* ambiguous write into a success.
ReconcileInline ==
    /\ pc = "ambiguous"
    /\ \/ /\ host[cur] = "applied"
          /\ desc' = [desc EXCEPT ![cur] = "completed"]
          /\ outcome' = "succeeded"
          /\ UNCHANGED poison
       \/ /\ FailDescriptor
          /\ outcome' = "outcome_unknown"
    /\ pc' = "settle"
    /\ UNCHANGED <<durable, clockify, cur, seen, verdict, flow, session, todo, crashes, faults>>

\* Mutant: a cancellation is final whether or not the request has left.
MutCancelAnyStep ==
    /\ pc = "cancel"
    /\ status[cur] = "executing"
    /\ status' = [status EXCEPT ![cur] = "definitive_failed"]
    /\ seen' = [seen EXCEPT ![cur] = "definitive_failed"]
    /\ pc' = "choose"
    /\ UNCHANGED <<op, result, dispatched, source, recon, proven, clockify, cur, outcome,
                   scope, verdict, flow, session, todo, crashes, faults>>

\* A cancelled step is final only while the row proves nothing was dispatched.
CancelOperationStepBeforeDispatch ==
    /\ pc = "cancel"
    /\ \/ /\ status[cur] = "executing" /\ ~dispatched[cur]
          /\ status' = [status EXCEPT ![cur] = "definitive_failed"]
          /\ seen' = [seen EXCEPT ![cur] = "definitive_failed"]
          /\ pc' = "choose"
          /\ UNCHANGED outcome
       \/ /\ ~(status[cur] = "executing" /\ ~dispatched[cur])
          /\ outcome' = "outcome_unknown"
          /\ pc' = "settle"
          /\ UNCHANGED <<status, seen>>
    /\ UNCHANGED <<op, result, dispatched, source, recon, proven, clockify, cur, scope,
                   verdict, flow, session, todo, crashes, faults>>

\* settleOperationStep (no fault) or settleOperationStepDegraded (one fault).
SettleOperationStep ==
    /\ pc = "settle" /\ cur \in Steps
    /\ status[cur] = "executing"
    /\ \E f \in {0, 1} :
          /\ faults + f <= MaxFaults
          /\ faults' = faults + f
          /\ seen' = [seen EXCEPT ![cur] =
                        IF f = 1 /\ outcome = "succeeded" THEN "degraded" ELSE outcome]
    /\ status' = [status EXCEPT ![cur] = outcome]
    /\ pc' = "choose"
    /\ UNCHANGED <<op, result, dispatched, source, recon, proven, clockify, cur, outcome,
                   scope, verdict, flow, session, todo, crashes>>

\* Both attempts throw: the row stays executing, only the caller knows.
LoseStepSettlement ==
    /\ pc = "settle" /\ cur \in Steps
    /\ faults + 2 <= MaxFaults
    /\ faults' = faults + 2
    /\ seen' = [seen EXCEPT ![cur] = IF outcome = "succeeded" THEN "degraded" ELSE outcome]
    /\ pc' = "choose"
    /\ UNCHANGED <<durable, clockify, cur, outcome, scope, verdict, flow, session, todo, crashes>>
-----------------------------------------------------------------------------
(* Compensation: executeCompensationStep.                                  *)

\* The one transaction that decides whether a known effect may be taken back.
Eligible(k) ==
    /\ status[k] = "succeeded"
    /\ status[Comp] = "none"
    /\ \/ op = "definitive_failed"
       \/ recon.step = k /\ recon.auth
       \/ op = "executing" /\ \E j \in Steps : j > k /\ status[j] = "definitive_failed"

\* A curated workflow (archive, delete, restore) takes a step back only when
\* the next one was definitively rejected, never after an unknown outcome or a
\* degraded step.
PrepareCompensationStep(k) ==
    /\ pc = "choose" /\ flow = "curated"
    /\ seen[k] = "succeeded" /\ k + 1 \in Steps /\ seen[k + 1] = "definitive_failed"
    /\ Eligible(k)
    /\ status' = [status EXCEPT ![Comp] = "prepared"]
    /\ source' = k
    /\ cur' = Comp
    /\ pc' = "prepared"
    /\ UNCHANGED <<op, result, dispatched, recon, proven, clockify, outcome, scope, seen,
                   verdict, flow, session, todo, crashes, faults>>

MarkOperationStepCompensating ==
    /\ pc = "prepared" /\ cur = Comp
    /\ status[Comp] = "prepared" /\ status[source] = "succeeded"
    /\ status' = [status EXCEPT ![Comp] = "executing", ![source] = "compensating"]
    /\ \/ /\ \A j \in Steps : desc[j] \in {"completed", "failed"}
          /\ pc' = "closure"
          /\ UNCHANGED outcome
       \/ /\ \E j \in Steps : desc[j] \in {"pending", "dispatching"}
          /\ pc' = "settle"
          /\ outcome' = "definitive_failed"
    /\ UNCHANGED <<op, result, dispatched, source, recon, proven, clockify, cur, scope,
                   seen, verdict, flow, session, todo, crashes, faults>>

\* Mutant: a cancelled compensation is stored under the name of its error.
MutCompensationStatus(o) ==
    CASE o = "succeeded" -> "compensated"
      [] o = "definitive_failed" -> "compensation_failed"
      [] OTHER -> o

CompensationStatus(o) ==
    CASE o = "succeeded" -> "compensated"
      [] o \in {"definitive_failed", "cancelled"} -> "compensation_failed"
      [] OTHER -> "outcome_unknown"

\* settleCompensationStep, or its degraded form after one fault: both rows move
\* together, and only a confirmed compensation changes what the source says.
SettleCompensationStep ==
    /\ pc = "settle" /\ cur = Comp
    /\ status[Comp] = "executing" /\ status[source] = "compensating"
    /\ \E f \in {0, 1} : faults + f <= MaxFaults /\ faults' = faults + f
    /\ status' = [status EXCEPT
                    ![Comp] = CompensationStatus(outcome),
                    ![source] = IF outcome = "succeeded" THEN "compensated" ELSE "succeeded"]
    /\ seen' = [seen EXCEPT ![Comp] = IF outcome = "cancelled" THEN "definitive_failed" ELSE outcome]
    /\ pc' = "choose"
    /\ UNCHANGED <<op, result, dispatched, source, recon, proven, clockify, cur, outcome,
                   scope, verdict, flow, session, todo, crashes>>

LoseCompensationSettlement ==
    /\ pc = "settle" /\ cur = Comp
    /\ faults + 2 <= MaxFaults
    /\ faults' = faults + 2
    /\ seen' = [seen EXCEPT ![Comp] = IF outcome = "cancelled" THEN "definitive_failed" ELSE outcome]
    /\ pc' = "choose"
    /\ UNCHANGED <<durable, clockify, cur, outcome, scope, verdict, flow, session, todo, crashes>>
-----------------------------------------------------------------------------
(* Reconciliation by the workflow itself, while the operation executes.    *)

\* recordReconciliation: evidence for a step of unknown outcome, authoritative
\* only when the host holds exactly the planned effect; a failed settlement
\* withdraws it.
RecordOperationReconciliation(i, a) ==
    /\ pc = "choose" /\ flow = "curated"
    /\ status[i] = "outcome_unknown" /\ seen[i] = "outcome_unknown"
    /\ a => host[i] = "applied" /\ recon.step = 0
    /\ ~a => recon.step = 0 \/ recon.auth
    /\ recon' = [step |-> i, auth |-> a]
    /\ UNCHANGED <<op, result, status, dispatched, source, proven, clockify, pc, cur,
                   outcome, scope, seen, verdict, flow, session, todo, crashes, faults>>

SettleReconciledStep(i) ==
    /\ pc = "choose" /\ flow = "curated"
    /\ status[i] = "outcome_unknown"
    /\ recon = [step |-> i, auth |-> TRUE]
    /\ status' = [status EXCEPT ![i] = "succeeded"]
    /\ proven' = proven \cup {i}
    /\ UNCHANGED <<op, result, dispatched, source, recon, clockify, pc, cur, outcome,
                   scope, seen, verdict, flow, session, todo, crashes, faults>>
-----------------------------------------------------------------------------
(* Ending the operation.                                                   *)

\* Mutant: completed steps are forgotten when a later one fails.
MutDeclaredForgets ==
    IF Finished = Steps /\ \A i \in Steps : seen[i] = "succeeded" THEN {"succeeded"}
    ELSE IF \E i \in Steps : seen[i] = "outcome_unknown" THEN {"outcome_unknown"}
    ELSE IF \E i \in Steps : seen[i] = "definitive_failed" THEN {"definitive_failed"}
    ELSE {}

\* What executeMutationWorkflow reports, given what its steps returned.
DeclaredVerdicts ==
    IF Finished = Steps /\ \A i \in Steps : seen[i] = "succeeded" THEN {"succeeded"}
    ELSE IF \E i \in Steps : seen[i] = "degraded"
           THEN IF N = 1 THEN {"succeeded"} ELSE {"partial"}
    ELSE IF \E i \in Steps : seen[i] = "outcome_unknown" THEN {"outcome_unknown"}
    ELSE IF \E i \in Steps : seen[i] = "definitive_failed"
           THEN IF seen[1] = "succeeded" THEN {"partial"} ELSE {"definitive_failed"}
    ELSE {}

\* What a curated commit may report: it can give up between steps (the target
\* drifted, a read failed) with a failure receipt, and after a compensation the
\* compensation decides.
CuratedVerdicts ==
    {v \in Final :
       /\ v = "succeeded" =>
             \A i \in Steps : seen[i] \in {"succeeded", "degraded"} \/ i \in proven
       /\ v = "outcome_unknown" => \E i \in Steps : seen[i] = "outcome_unknown"
       /\ v = "partial" => \E i \in Steps : seen[i] \in {"succeeded", "degraded"}
       /\ v = "definitive_failed" => \A i \in Steps : seen[i] # "outcome_unknown"
       /\ seen[Comp] # "none" =>
             v = IF seen[Comp] = "succeeded" THEN "definitive_failed" ELSE "partial"}

Verdicts ==
    CASE flow = "declared" -> DeclaredVerdicts
      [] flow = "curated" -> CuratedVerdicts
      [] OTHER -> Final

\* Mutant: the scope does not ask whether the whole plan was dispatched.
MutComplete == TRUE

\* reconciledAmbiguousDescriptor and the completeness check of the scope.
Complete ==
    \A i \in Steps :
        desc[i] = "completed" \/ (desc[i] = "failed" /\ i \in proven /\ status[i] = "succeeded")

\* The workflow returns.  A success that did not dispatch the whole plan is a
\* plan violation, and so a failure receipt.
Return(v) ==
    /\ pc = "choose" /\ v \in Verdicts
    /\ verdict' = IF v = "succeeded" /\ ~Complete THEN "definitive_failed" ELSE v
    /\ pc' = "return"
    /\ UNCHANGED <<durable, clockify, cur, outcome, scope, seen, flow, session, todo, crashes, faults>>

\* A storage call outside the settlement throws.  In a risky commit runCommit turns
\* the exception into an execution_error receipt.
StorageThrows ==
    /\ pc \in {"choose", "prepared", "cancel"}
    /\ faults + 1 <= MaxFaults
    /\ faults' = faults + 1
    /\ verdict' = "definitive_failed"
    /\ pc' = "return"
    /\ UNCHANGED <<durable, clockify, cur, outcome, scope, seen, flow, session, todo, crashes>>

\* A confirmed safe write has no such catch, nor has the trusted direct path: the
\* storage call that throws, or outside executeMutationWorkflow a read that fails
\* or a plan violation, leaves the request, and the rows stay as they are.
Escape ==
    /\ \/ /\ pc \in {"choose", "prepared", "cancel"}
          /\ faults + 1 <= MaxFaults
          /\ faults' = faults + 1
       \/ /\ pc = "choose" /\ flow # "declared"
          /\ UNCHANGED faults
    /\ escaped' = TRUE
    /\ pc' = "idle"
    /\ UNCHANGED <<durable, clockify, cur, outcome, scope, seen, verdict, flow, awaits,
                   withdrawn, todo, crashes>>

\* settleConfirmation or settleOperationResult; tried twice.
SettleOperation ==
    /\ pc = "return" /\ op = "executing"
    /\ \E f \in {0, 1} : faults + f <= MaxFaults /\ faults' = faults + f
    /\ op' = verdict
    /\ result' = verdict
    /\ pc' = "close"
    /\ UNCHANGED <<status, dispatched, source, recon, proven, clockify, cur, outcome,
                   scope, seen, verdict, flow, session, todo, crashes>>

\* Mutant: the settlement is tried once.
MutSettleOnce ==
    /\ pc = "return"
    /\ faults + 1 <= MaxFaults
    /\ faults' = faults + 1
    /\ pc' = "close"
    /\ UNCHANGED <<durable, clockify, cur, outcome, scope, seen, verdict, flow, session, todo, crashes>>

LoseOperationSettlement ==
    /\ pc = "return"
    /\ faults + 2 <= MaxFaults
    /\ faults' = faults + 2
    /\ pc' = "close"
    /\ UNCHANGED <<durable, clockify, cur, outcome, scope, seen, verdict, flow, session, todo, crashes>>

\* settleV2ConfirmationRun after the confirmed write, a transaction of its own: when
\* it throws, the run goes on waiting.
SettleRun ==
    /\ pc = "close"
    /\ \/ awaits' = FALSE /\ UNCHANGED faults
       \/ awaits /\ faults + 1 <= MaxFaults /\ faults' = faults + 1 /\ UNCHANGED awaits
    /\ pc' = "idle"
    /\ UNCHANGED <<durable, clockify, cur, outcome, scope, seen, verdict, flow, withdrawn,
                   escaped, todo, crashes>>
-----------------------------------------------------------------------------
(* Process death and the next start.                                       *)

Crash ==
    /\ pc # "down" /\ crashes < MaxCrashes
    /\ crashes' = crashes + 1
    /\ pc' = "down"
    /\ UNCHANGED <<durable, clockify, cur, outcome, scope, seen, verdict, flow, session, todo, faults>>

\* Mutant: every executing row failed, dispatched or not.
MutRecoveredRow(r) ==
    CASE status[r] = "compensating" -> "succeeded"
      [] status[r] = "executing" -> "definitive_failed"
      [] OTHER -> status[r]

RecoveredRow(r) ==
    CASE status[r] = "compensating" -> "succeeded"
      [] status[r] = "executing" /\ ~dispatched[r] -> "definitive_failed"
      [] status[r] = "executing" /\ dispatched[r] -> "outcome_unknown"
      [] OTHER -> status[r]

\* The stored result decides; without one, whether any row was dispatched.
RecoveredKind ==
    IF result # "none" THEN result
    ELSE IF \E r \in Rows : dispatched[r] THEN "outcome_unknown" ELSE "definitive_failed"

\* Store construction runs this in one transaction before anything else, and
\* then lists the steps the read-only startup pass will look at.
RecoverOrphanedRuns ==
    /\ pc = "down"
    /\ status' = [r \in Rows |-> RecoveredRow(r)]
    /\ IF op = "executing"
         THEN op' = RecoveredKind /\ result' = RecoveredKind
         ELSE UNCHANGED <<op, result>>
    /\ todo' = IF op' = "outcome_unknown" /\ recon.step = 0
                 THEN {i \in Steps : status'[i] = "outcome_unknown"} ELSE {}
    /\ pc' = "boot"
    /\ cur' = 1 /\ outcome' = "none" /\ poison' = FALSE
    /\ desc' = [r \in Rows |-> "pending"]
    /\ seen' = [r \in Rows |-> "none"]
    /\ verdict' = "outcome_unknown"
    /\ UNCHANGED <<dispatched, source, recon, proven, clockify, flow, session, crashes, faults>>

FullyApplied(i) ==
    \A j \in Steps : status[j] = IF j = i THEN "outcome_unknown" ELSE "succeeded"

\* Mutant: the second candidate of an operation does not look at its status.
MutSettleStartup(i) ==
    /\ pc = "boot" /\ i \in todo
    /\ host[i] = "applied"
    /\ status[i] = "outcome_unknown"
    /\ status' = [status EXCEPT ![i] = "succeeded"]
    /\ op' = IF FullyApplied(i) THEN "succeeded" ELSE "partial"
    /\ result' = op'
    /\ recon' = [step |-> i, auth |-> TRUE]
    /\ todo' = todo \ {i}
    /\ UNCHANGED <<dispatched, source, proven, clockify, pc, cur, outcome, scope, seen,
                   verdict, flow, session, crashes, faults>>

\* settleStartupReconciliation on authoritative evidence.
SettleStartupReconciliation(i) ==
    /\ pc = "boot" /\ i \in todo
    /\ host[i] = "applied"
    /\ op = "outcome_unknown" /\ status[i] = "outcome_unknown"
    /\ status' = [status EXCEPT ![i] = "succeeded"]
    /\ op' = IF FullyApplied(i) THEN "succeeded" ELSE "partial"
    /\ result' = op'
    /\ recon' = [step |-> i, auth |-> TRUE]
    /\ todo' = todo \ {i}
    /\ UNCHANGED <<dispatched, source, proven, clockify, pc, cur, outcome, scope, seen,
                   verdict, flow, session, crashes, faults>>

\* Drift, a failed or truncated read, or no unique match: recorded as such.
RecordStartupReconciliation(i) ==
    /\ pc = "boot" /\ i \in todo
    /\ status[i] = "outcome_unknown"
    /\ recon' = [step |-> i, auth |-> FALSE]
    /\ todo' = todo \ {i}
    /\ UNCHANGED <<op, result, status, dispatched, source, proven, clockify, pc, cur,
                   outcome, scope, seen, verdict, flow, session, crashes, faults>>

\* The persist call of one candidate throws and is only counted.
SkipStartupReconciliation(i) ==
    /\ pc = "boot" /\ i \in todo
    /\ \/ op # "outcome_unknown" /\ UNCHANGED faults
       \/ faults + 1 <= MaxFaults /\ faults' = faults + 1
    /\ todo' = todo \ {i}
    /\ UNCHANGED <<durable, clockify, pc, cur, outcome, scope, seen, verdict, flow, session, crashes>>

FinishBoot ==
    /\ pc = "boot" /\ todo = {}
    /\ pc' = "idle"
    /\ UNCHANGED <<durable, clockify, cur, outcome, scope, seen, verdict, flow, session, todo,
                   crashes, faults>>
-----------------------------------------------------------------------------
Executor ==
    \/ \E i \in Steps : PrepareOperationStep(i)
    \/ MarkOperationStepExecuting
    \/ \E o \in {"definitive_failed", "outcome_unknown", "cancelled"} : FailBeforeDispatch(o)
    \/ AuthorizeScopedMutationDispatch
    \/ CommitScopedMutationDispatch
    \/ DispatchJournalUnavailable
    \/ Send
    \/ RespondSucceeded \/ RespondRejected \/ RespondAmbiguous \/ CancelAfterDispatch
    \/ ReconcileInline
    \/ CancelOperationStepBeforeDispatch
    \/ SettleOperationStep \/ LoseStepSettlement
    \/ \E k \in Steps : PrepareCompensationStep(k)
    \/ MarkOperationStepCompensating
    \/ SettleCompensationStep \/ LoseCompensationSettlement
    \/ \E i \in Steps, a \in BOOLEAN : RecordOperationReconciliation(i, a)
    \/ \E i \in Steps : SettleReconciledStep(i)
    \/ \E v \in Final : Return(v)
    \/ StorageThrows \/ Escape
    \/ SettleOperation \/ LoseOperationSettlement
    \/ SettleRun

Startup ==
    \/ RecoverOrphanedRuns
    \/ \E i \in Steps : SettleStartupReconciliation(i)
    \/ \E i \in Steps : RecordStartupReconciliation(i)
    \/ \E i \in Steps : SkipStartupReconciliation(i)
    \/ FinishBoot

Next ==
    \/ MarkConfirmationExecuting
    \/ MarkOperationExecuting
    \/ EndUnclaimed
    \/ Cancel
    \/ SettleLapsedRun
    \/ Executor
    \/ \E r \in Rows : HostDecides(r)
    \/ Crash
    \/ Startup

Spec == Init /\ [][Next]_vars

\* Every host call is bounded by its timeout and every other executor step is
\* local, so a running executor goes on; a dead process is started again.
Fairness == WF_vars(Executor) /\ WF_vars(Startup)

FairSpec == Spec /\ Fairness
-----------------------------------------------------------------------------
(* What the journal says of a step is true of Clockify: executeStep,       *)
(* recoverOrphanedRuns and both reconciliations may leave a step unknown,  *)
(* but never call an effect absent that happened or may still happen, nor  *)
(* present one that did not.                                               *)
TruthfulStep(i) ==
    /\ status[i] \in {"succeeded", "compensating", "compensated"} => host[i] = "applied"
    /\ status[i] = "definitive_failed" => host[i] \in {"idle", "refused"}
TruthfulCompensation ==
    /\ status[Comp] = "compensated" => host[Comp] = "applied"
    /\ status[Comp] \in {"compensation_failed", "definitive_failed"} =>
          host[Comp] \in {"idle", "refused"}
    /\ \A i \in Steps : status[i] = "compensated" => host[Comp] = "applied"
TruthfulJournal == (\A i \in Steps : TruthfulStep(i)) /\ TruthfulCompensation

(* No row of the journal is ever sent to Clockify twice, across retries,   *)
(* settlement failures, crashes and restarts (commitScopedMutationDispatch *)
(* and markOperationStepDispatched are the only gate).                     *)
AtMostOneSend == \A r \in Rows : sends[r] <= 1

(* Whatever reached Clockify was journaled as dispatched before, which is  *)
(* the evidence recoverOrphanedRuns decides on after a crash.              *)
EffectIsJournaled == \A r \in Rows : host[r] # "idle" => dispatched[r]

(* Every request of a plan leaves the process at most once, and only after *)
(* its dispatch was journaled: across retries, crashes and restarts.       *)
SendsAreJournaled == AtMostOneSend /\ EffectIsJournaled

(* A step is sent only when every earlier primary is known to have taken   *)
(* effect, even by a workflow that swallowed the failure of one: an        *)
(* unknown, refused or undispatched step stops all later ones.             *)
OrderedEffects ==
    \A i, j \in Steps : j < i /\ host[i] # "idle" => host[j] = "applied"

(* A compensation goes out only against an effect that happened, and never *)
(* while a later step of the plan happened or could still happen           *)
(* (prepareCompensationStep and the workflows that call it).               *)
CompensationIsSafe ==
    host[Comp] # "idle" =>
        /\ source \in Steps /\ host[source] = "applied"
        /\ \A j \in Steps : j > source => host[j] \in {"idle", "refused"}

(* What is sent is warranted by what is known to have happened before: a   *)
(* step by all earlier effects, a compensation by the effect it undoes and *)
(* the certainty that nothing came after it.                               *)
DispatchIsWarranted == OrderedEffects /\ CompensationIsSafe

(* An operation reported as succeeded took effect completely, whether the  *)
(* workflow or the startup pass reported it.                               *)
SuccessIsComplete == op = "succeeded" => \A i \in Steps : host[i] = "applied"

(* As long as storage answers, an operation is called definitively failed  *)
(* only when none of its requests can still take effect.                   *)
FailureIsSettled ==
    op = "definitive_failed" /\ flow # "heedless" /\ faults = 0 =>
        \A r \in Rows : host[r] # "inflight"

(* A definitive failure after a known effect is reported as partial, not   *)
(* as a failure of the whole operation (README.md:108-109).                *)
KnownEffectIsReported ==
    op = "definitive_failed" =>
        \A i \in Steps : host[i] = "applied" => status[i] = "compensated"

(* executeMutationWorkflow keeps that rule, crashes included, as long as   *)
(* storage answers.                                                        *)
DeclaredEffectIsReported == flow = "declared" /\ faults = 0 => KnownEffectIsReported

(* A definitive failure is one: nothing of it can still take effect, and   *)
(* in executeMutationWorkflow nothing of it has.  The exception is what    *)
(* the cancel route stores over a claimed operation whose run still waits: *)
(* settleV2ConfirmationRun does not ask for the status it overwrites.      *)
FailureIsDefinitive == ~withdrawn => FailureIsSettled /\ DeclaredEffectIsReported

(* What was final stays final.  A failed or compensated row is never       *)
(* rewritten.  A settled operation is rewritten in two ways only: the      *)
(* startup pass refines an unknown outcome, and a cancel stores a failure  *)
(* over it when the run was left waiting, which takes a crash, a storage   *)
(* fault or an exception that escaped the confirming request.              *)
Refines == pc = "boot" /\ op = "outcome_unknown" /\ op' \in {"succeeded", "partial"}
Withdraws ==
    /\ awaits /\ ~awaits' /\ op' = "definitive_failed"
    /\ crashes > 0 \/ faults > 0 \/ escaped
KeepsFinal ==
    /\ op \in Final => op' = op \/ Refines \/ Withdraws
    /\ \A r \in Rows :
          status[r] \in {"definitive_failed", "compensated", "compensation_failed"} =>
              status'[r] = status[r]
FinalStatusIsKept == [][KeepsFinal]_vars

(* The whole journal implements TruthfulWrites: under this reading of the  *)
(* rows, every step of the code is one of its steps or none.               *)
ReportOf(r) ==
    CASE status[r] \in {"none", "prepared", "executing"} -> "open"
      [] status[r] \in {"succeeded", "compensating"} -> "done"
      [] status[r] = "compensated" -> IF r = Comp THEN "done" ELSE "undone"
      [] status[r] = "outcome_unknown" -> "unknown"
      [] OTHER -> "failed"

Promise == INSTANCE TruthfulWrites WITH
              effect <- host, report <- [r \in Rows |-> ReportOf(r)]

ImplementsTruthfulWrites == Promise!Spec

(* The inductive invariant behind the theorems of MutationJournalProofs:   *)
(* what the rows, the plan scope and Clockify agree on at each point of    *)
(* executeStep.                                                            *)

\* An outcome reaches settlement only in a form the row can store.
OutcomeInv ==
    /\ pc = "settle" => \/ outcome \in {"succeeded", "definitive_failed", "outcome_unknown"}
                        \/ outcome = "cancelled" /\ cur = Comp
    /\ pc = "cancel" => cur \in Steps

\* The row of the current step, at each point.
RowInv ==
    /\ pc = "prepared" => status[cur] = "prepared"
    /\ pc \in {"closure", "authorized", "dispatching", "sent", "ambiguous", "cancel", "settle"} =>
          status[cur] = "executing"
    /\ pc \in {"closure", "authorized"} => ~dispatched[cur]
    /\ pc = "dispatching" => dispatched[cur] /\ host[cur] = "idle"
    /\ pc = "settle" =>
          /\ outcome = "succeeded" => host[cur] = "applied"
          /\ outcome \in {"definitive_failed", "cancelled"} => host[cur] \in {"idle", "refused"}

\* dispatched_at precedes the request, and a row is dispatched only once.
DispatchInv ==
    /\ EffectIsJournaled
    /\ \A r \in Rows : dispatched[r] => status[r] \notin {"none", "prepared"}
    /\ \A r \in Rows : sends[r] = IF host[r] = "idle" THEN 0 ELSE 1

\* The compensation row and its source.
SourceInv ==
    /\ status[Comp] # "none" => source \in Steps
    /\ status[Comp] \notin {"succeeded", "compensating"}

\* The executor runs a row whose result it has not returned yet, and a step that
\* it returned as failed can no longer be sent.
Busy == {"prepared", "closure", "authorized", "dispatching", "sent", "ambiguous", "cancel",
         "settle"}
SeenInv ==
    /\ pc \in Busy => seen[cur] = "none"
    /\ \A r \in Rows : seen[r] # "none" => status[r] \notin {"none", "prepared"}
    /\ \A i \in Steps : seen[i] = "definitive_failed" => host[i] \in {"idle", "refused"}

\* The step after the compensated one was definitively rejected, and stays so.
CompensationInv ==
    status[Comp] # "none" =>
        /\ op # "prepared"
        /\ source + 1 \in Steps
        /\ host[source] = "applied" /\ host[source + 1] \in {"idle", "refused"}
        /\ pc \in Busy \cup {"choose"} => seen[source + 1] = "definitive_failed"

\* The descriptors of the plan scope.
DescInv ==
    /\ \A i \in Steps : desc[i] = "completed" => host[i] = "applied"
    /\ pc \in {"closure", "authorized", "dispatching", "sent", "ambiguous"} /\ cur \in Steps =>
          \A j \in Steps : j < cur => desc[j] = "completed"

\* Evidence recorded as authoritative is.
ReconInv == recon.auth => recon.step \in Steps /\ host[recon.step] = "applied"

\* The operation row, its stored result and the verdict to come.
OperationInv ==
    /\ op \in {"prepared", "executing"} => result \in {"none", "outcome_unknown"}
    /\ op = "prepared" => pc \in {"idle", "down", "boot"}
    /\ pc = "return" /\ verdict = "succeeded" => \A i \in Steps : host[i] = "applied"

JournalInv ==
    /\ TypeOK
    /\ OutcomeInv
    /\ RowInv
    /\ DispatchInv
    /\ SourceInv
    /\ DescInv
    /\ ReconInv
    /\ OperationInv
    /\ TruthfulJournal
    /\ OrderedEffects
    /\ SuccessIsComplete

UndoInv == SeenInv /\ CompensationInv

\* A run waits on an operation that is no longer prepared only after something
\* went wrong.
RunInv ==
    /\ pc \in {"down", "boot"} => crashes > 0
    /\ pc = "idle" /\ awaits /\ op \notin {"prepared", "definitive_failed"} =>
          crashes > 0 \/ faults > 0 \/ escaped

(* The second settlement attempt and the recovery at the next start bring  *)
(* every claimed operation to an end, unless storage fails twice or an     *)
(* exception escapes the request of a safe write; and what such a request  *)
(* left behind is settled by the next start.                               *)
ClaimedOperationSettles ==
    /\ op = "executing" ~> op \in Final \/ faults > 1 \/ escaped
    /\ op = "executing" /\ pc = "down" ~> op \in Final
=============================================================================
