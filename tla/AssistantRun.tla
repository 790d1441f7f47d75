---------------------------- MODULE AssistantRun ----------------------------
(***************************************************************************)
(* An assistant run of a chat session: the runner's loop of model calls,   *)
(* reads and write preparations, the question and the preview the run is   *)
(* suspended on, and its persisted budget (assistant-v2/runner.ts,         *)
(* services/run-service.ts, action-execution-service.ts,                   *)
(* clarification-service.ts, operation-preparation-service.ts,             *)
(* confirmation-service.ts; routes/v2-chat-pipeline.ts; db/store.ts and    *)
(* db/store/run-events.ts, runs.ts, assistant-write-preparation.ts,        *)
(* pending-clarifications.ts).                                             *)
(*                                                                         *)
(* The requests of a session are served one after another (sessionAsync-   *)
(* Handler of routes/api.ts), so one request is in progress at most.  The  *)
(* clock, the retention pass and a crash come between any two of its       *)
(* steps.  A step is a transaction, or the answer of an await.             *)
(*                                                                         *)
(* One run is modelled, from its first message on.  The session's other    *)
(* runs touch it in one way only: the unique index                         *)
(* idx_assistant_runs_one_active_per_session allows one nonterminal run,   *)
(* and the message that wants a new run first ends the one that is.        *)
(*                                                                         *)
(* The runner works on a copy of the run's row, which may be out of date:  *)
(* mem is that copy.                                                       *)
(***************************************************************************)
EXTENDS Integers, FiniteSets

CONSTANTS MaxHostCalls,   \* V2_LIMITS.maxHostCalls, 60
          MaxModelCalls,  \* V2_LIMITS.maxModelCalls, 6
          Cost,           \* mutationPlan.maxHostCalls of a prepared write
          Burst,          \* bound: host calls of one read batch or preview
          MaxCrashes      \* bound: crashes

ASSUME RunAssumption ==
    /\ {MaxHostCalls, MaxModelCalls, Cost, Burst} \subseteq Nat \ {0}
    /\ MaxCrashes \in Nat

VARIABLES
    run,      \* the assistant_runs row: phase and budget_json
    question, \* the run's last pending_clarifications row
    preview,  \* the run's pending_confirmations row and its operation's status
    other,    \* another run of the session is not terminal
    pc,       \* where the request in progress is
    mem,      \* the runner's copy of the row
    attempt,  \* provider attempt of the model call
    left,     \* host calls the batch, the preview or the dispatch still makes
    flight,   \* host calls charged and not sent
    crashes,
    made,     \* history: host calls sent on the run's ledger
    asked,    \* history: model calls begun
    tried,    \* history: provider attempts that ended
    changed   \* history: the confirmed write changed Clockify

rows == <<run, question, preview>>
request == <<pc, mem, attempt, left, flight>>
history == <<made, asked, tried, changed>>
env == <<other, crashes>>
vars == <<rows, request, env, history>>

Working == {"model", "discovering", "executing_reads"}
Terminal == {"completed", "failed"}
Phases == Working \cup Terminal \cup {"none", "awaiting_confirmation", "awaiting_clarification"}
Row == [phase : Phases, calls : Nat, charged : Nat, used : Nat, reserved : Nat]
Blank == [phase |-> "none", calls |-> 0, charged |-> 0, used |-> 0, reserved |-> 0]
Question == [status : {"none", "pending", "resolving", "resolved", "continued", "expired", "cancelled"},
             due : BOOLEAN]
Preview == [status : {"none", "pending", "executing", "final", "expired", "cancelled", "gone"},
            op : {"open", "settled", "failed", "withdrawn"}, due : BOOLEAN]

NoQuestion == [status |-> "none", due |-> FALSE]
NoPreview == [status |-> "none", op |-> "open", due |-> FALSE]

TypeOK ==
    /\ run \in Row
    /\ question \in Question
    /\ preview \in Preview
    /\ pc \in {"idle", "down", "starting", "loop", "model", "chosen", "reads", "read", "asked",
               "preparing", "option", "prepared", "dispatch", "dispatched"}
    /\ other \in BOOLEAN /\ mem \in Row
    /\ attempt \in 0..2 /\ left \in 0..Burst /\ flight \in 0..Burst
    /\ crashes \in 0..MaxCrashes
    /\ made \in Nat /\ asked \in Nat /\ tried \in Nat
    /\ changed \in BOOLEAN

Init ==
    /\ run = Blank /\ question = NoQuestion /\ preview = NoPreview /\ other = FALSE
    /\ pc = "idle" /\ mem = Blank /\ attempt = 0 /\ left = 0 /\ flight = 0
    /\ crashes = 0
    /\ made = 0 /\ asked = 0 /\ tried = 0 /\ changed = FALSE

Active == run.phase \notin Terminal \cup {"none"}
\* The session's FIFO is free.
Free == pc = "idle"
Open == question.status \in {"pending", "resolving"}
Live == preview.status = "pending" /\ ~preview.due

\* Mutant: a save writes the runner's own count of host calls.
MutSaved(st) == st

\* saveRun and updateRunState: hostCallsUsed belongs to the row.
Saved(st) == [st EXCEPT !.used = run.used]

Store(st) == run' = Saved(st)
\* The reload that follows a store.
Reload == mem' = run'

\* The answer of a request leaves nothing behind in memory.
EndRequest ==
    /\ pc' = "idle" /\ mem' = Blank
    /\ attempt' = 0 /\ left' = 0 /\ flight' = 0

Goto(l) == pc' = l /\ UNCHANGED <<attempt, left, flight>>
-----------------------------------------------------------------------------
(* A message for a new run: the run the session still has is ended first.  *)

\* The sweep of listPendingConfirmations, and of retention.  The trigger
\* pending_confirmation_pre_dispatch_terminal fails the operation, with the text
\* that nothing was changed: withdrawn.  From here on, as for every closed row,
\* the expiry no longer matters.
Lapsed == [status |-> "expired", op |-> "withdrawn", due |-> FALSE]

\* No preview of the run is live: settled from its confirmation, whose scrubbed
\* record no longer tells what was reserved; or failed when the row is gone.
MessageLapsed ==
    /\ Free /\ run.phase = "awaiting_confirmation" /\ ~Live
    /\ preview' = IF preview.status = "pending" THEN Lapsed ELSE preview
    /\ run' = [run EXCEPT !.phase = IF preview.status = "gone" THEN "failed" ELSE "completed"]
    /\ UNCHANGED <<question, request, env, history>>

MessageStranded ==
    /\ Free /\ run.phase \in Working
    /\ run' = [run EXCEPT !.phase = "failed"]
    /\ UNCHANGED <<question, preview, request, env, history>>

\* Mutant: the question is superseded and its run left as it is.
MutMessageSupersedes ==
    /\ Free /\ run.phase = "awaiting_clarification"
    /\ question' = IF Open THEN [question EXCEPT !.status = "cancelled"] ELSE question
    /\ UNCHANGED <<run, preview, request, env, history>>

\* supersedeClarificationForNewRun, or clarification_missing.
MessageSupersedes ==
    /\ Free /\ run.phase = "awaiting_clarification"
    /\ question' = IF Open THEN [question EXCEPT !.status = "cancelled"] ELSE question
    /\ run' = [run EXCEPT !.phase = "failed"]
    /\ UNCHANGED <<preview, request, env, history>>

Message == MessageLapsed \/ MessageStranded \/ MessageSupersedes

\* startRunWithEvent, in the request of the message.
StartRun ==
    /\ Free /\ run.phase = "none" /\ ~other
    /\ run' = [run EXCEPT !.phase = "model"]
    /\ pc' = "loop" /\ Reload
    /\ UNCHANGED <<question, preview, attempt, left, flight, env, history>>

\* Another run of the session begins, in the request that has ended this one or
\* in a later one, and ends.
OtherStarts ==
    /\ Free /\ ~Active /\ run.phase # "none" /\ ~other
    /\ other' = TRUE /\ UNCHANGED <<run, question, preview, request, crashes, history>>

OtherEnds ==
    /\ other /\ other' = FALSE
    /\ UNCHANGED <<run, question, preview, request, crashes, history>>
-----------------------------------------------------------------------------
(* The runner's loop.                                                      *)

\* callModel reserves the call in the row; the runner's copy stays behind.
AskModel ==
    /\ pc = "loop" /\ mem.calls < MaxModelCalls
    /\ Store([mem EXCEPT !.calls = @ + 1, !.phase = "model"])
    /\ pc' = "model" /\ attempt' = 1 /\ asked' = asked + 1
    /\ UNCHANGED <<question, preview, mem, left, flight, env, made, tried, changed>>

\* chargeAttemptFailure, then the second reservation on the row as it is now.
RetryModel ==
    /\ pc = "model" /\ attempt = 1
    /\ run' = [run EXCEPT !.charged = @ + 1]
    /\ attempt' = 2
    /\ tried' = tried + 1
    /\ UNCHANGED <<question, preview, pc, mem, left, flight, env, made, asked, changed>>

ModelAnswers ==
    /\ pc = "model"
    /\ run' = [run EXCEPT !.charged = @ + 1]
    /\ pc' = "chosen" /\ attempt' = 0 /\ Reload
    /\ tried' = tried + 1
    /\ UNCHANGED <<question, preview, left, flight, env, made, asked, changed>>

\* failRun with the copy taken before the call: what the call charged is lost.
ModelFails ==
    /\ pc = "model"
    /\ Store([mem EXCEPT !.phase = "failed"])
    /\ tried' = tried + 1
    /\ EndRequest
    /\ UNCHANGED <<question, preview, env, made, asked, changed>>

\* The model answered in prose.
Complete ==
    /\ pc = "chosen"
    /\ Store([mem EXCEPT !.phase = "completed"])
    /\ EndRequest /\ UNCHANGED <<question, preview, env, history>>

\* failRun: cancelled, budget, no progress, installation changed, an exception.
Stop ==
    /\ pc \in {"loop", "chosen", "read", "asked"}
    /\ Store([mem EXCEPT !.phase = "failed"])
    /\ EndRequest /\ UNCHANGED <<question, preview, env, history>>

\* executeDiscoveryBatch; other calls of the same answer are denied, and the
\* iteration ends.
Discover ==
    /\ pc = "chosen"
    /\ Store([mem EXCEPT !.phase = "discovering"])
    /\ Reload /\ Goto("loop") /\ UNCHANGED <<question, preview, env, history>>

StartReads ==
    /\ pc = "chosen" /\ pc' = "reads" /\ left' \in 1..Burst
    /\ UNCHANGED <<rows, mem, attempt, flight, env, history>>

\* The whole batch is journalled before the run can be suspended on a question.
EndReads ==
    /\ pc = "reads" /\ flight = 0
    /\ Store([mem EXCEPT !.phase = "executing_reads"])
    /\ Reload
    /\ pc' = IF question.status = "pending" THEN "asked" ELSE "read"
    /\ left' = 0 /\ UNCHANGED <<question, preview, attempt, flight, env, history>>

\* prepareWrites saves the run, prepareBatch reads the row it will reserve on.
StartPreparing ==
    /\ pc \in {"chosen", "read"}
    /\ Store(mem) /\ Reload
    /\ pc' = "preparing" /\ left' \in 0..Burst
    /\ UNCHANGED <<question, preview, attempt, flight, env, history>>

\* The save at the end of an iteration; also after denials only.
NextIteration ==
    /\ pc \in {"chosen", "read"}
    /\ Store(mem) /\ Reload
    /\ Goto("loop") /\ UNCHANGED <<question, preview, env, history>>
-----------------------------------------------------------------------------
(* Host calls on the run's ledger.                                         *)

Calling == pc \in {"reads", "preparing", "dispatch"}

\* chargeRunHostCall: one conditional UPDATE.  A refusal fails the call.
Charge ==
    /\ pc \in {"reads", "preparing"} /\ left > 0 /\ left' = left - 1
    /\ pc = "preparing" => flight = 0
    /\ LET granted == run.used + run.reserved < MaxHostCalls
       IN  /\ run' = IF granted THEN [run EXCEPT !.used = @ + 1] ELSE run
           /\ flight' = IF granted THEN flight + 1 ELSE flight
    /\ UNCHANGED <<question, preview, pc, mem, attempt, env, history>>

\* convertReservedRunHostCall: the calls of a confirmed dispatch outside its plan.
Convert ==
    /\ pc = "dispatch" /\ left > 0 /\ left' = left - 1 /\ flight = 0
    /\ LET row == run
           granted == row.reserved > 0 \/ row.used + row.reserved < MaxHostCalls
       IN  /\ run' = IF granted
                     THEN [run EXCEPT !.used = @ + 1,
                                      !.reserved = IF @ > 0 THEN @ - 1 ELSE 0]
                     ELSE run
           /\ flight' = IF granted THEN 1 ELSE 0
    /\ UNCHANGED <<question, preview, pc, mem, attempt, env, history>>

Send ==
    /\ Calling /\ flight > 0 /\ flight' = flight - 1
    /\ made' = made + 1
    /\ UNCHANGED <<rows, pc, mem, attempt, left, env, asked, tried, changed>>

\* refundRunHostCall: a queued call that was never sent.
Refund ==
    /\ Calling /\ flight > 0 /\ flight' = flight - 1
    /\ run' = [run EXCEPT !.used = IF @ > 0 THEN @ - 1 ELSE 0]
    /\ UNCHANGED <<question, preview, pc, mem, attempt, left, env, history>>
-----------------------------------------------------------------------------
(* Questions.                                                              *)

\* createClarificationRow, by a read of the batch or by the preparation.  The
\* unique index allows one open question per run.
Ask ==
    /\ pc \in {"reads", "preparing"} /\ ~Open
    /\ pc = "preparing" => flight = 0
    /\ question' = [status |-> "pending", due |-> FALSE]
    /\ IF pc = "preparing" THEN pc' = "asked" /\ left' = 0 ELSE UNCHANGED <<pc, left>>
    /\ UNCHANGED <<run, preview, mem, attempt, flight, env, history>>

\* requireClarificationAndSuspend.
Suspend ==
    /\ pc = "asked"
    /\ Store([mem EXCEPT !.phase = "awaiting_clarification"])
    /\ EndRequest /\ UNCHANGED <<question, preview, env, history>>

\* resolveOption claims the question of the session's active run.
Pick ==
    /\ Free /\ Active
    /\ question.status = "pending" /\ ~question.due
    /\ question' = [question EXCEPT !.status = "resolving"]
    /\ pc' = "option" /\ mem' = run
    /\ UNCHANGED <<run, preview, attempt, left, flight, env, history>>

\* safeResetToPending gives up on a question that has expired meanwhile.
Reset == question' = IF question.due THEN question
                     ELSE [question EXCEPT !.status = "pending"]

\* Unknown option, invalid arguments, or a read that did not succeed.
PickFails ==
    /\ pc = "option" /\ Reset
    /\ EndRequest /\ UNCHANGED <<run, preview, env, history>>

\* resolveClarificationOption: one transaction, and the runner resumes.
PickedRead ==
    /\ pc = "option"
    /\ question' = [question EXCEPT !.status = "resolved"]
    /\ run' = [run EXCEPT !.phase = "model"]
    /\ Reload /\ Goto("loop") /\ UNCHANGED <<preview, env, history>>

PickWrite ==
    /\ pc = "option" /\ pc' = "preparing" /\ left' \in 0..Burst
    /\ UNCHANGED <<rows, mem, attempt, flight, env, history>>

\* resolveClarificationWithOption, in a transaction after the preparation's.
PickedWrite ==
    /\ pc = "prepared"
    /\ question' = [question EXCEPT !.status = "resolved"]
    /\ EndRequest /\ UNCHANGED <<run, preview, env, history>>

\* Mutant: an answer in prose also takes a question whose option is resolving.
MutContinue ==
    /\ Free /\ Open
    /\ ~other
    /\ question' = [question EXCEPT !.status = "continued"]
    /\ run' = [run EXCEPT !.phase = "model"]
    /\ pc' = "loop" /\ Reload
    /\ UNCHANGED <<preview, attempt, left, flight, env, history>>

\* continueClarificationWithFreeTextAndLink: the phase is set whatever it was,
\* and only the unique index keeps a second run from becoming active.
Continue ==
    /\ Free /\ question.status = "pending"
    /\ ~other
    /\ question' = [question EXCEPT !.status = "continued"]
    /\ run' = [run EXCEPT !.phase = "model"]
    /\ pc' = "loop" /\ Reload
    /\ UNCHANGED <<preview, attempt, left, flight, env, history>>
-----------------------------------------------------------------------------
(* Previews.                                                               *)

\* canReserveHostCalls, on the copy read before the preview's own host calls.
CanReserve == mem.used + mem.reserved + Cost <= MaxHostCalls

\* prepareAssistantWriteBatchWithEvents: the reservation is added, the preview
\* stored and the run suspended in one transaction.
Prepare ==
    /\ pc = "preparing" /\ flight = 0
    /\ CanReserve
    /\ Store([mem EXCEPT !.reserved = @ + Cost, !.phase = "awaiting_confirmation"])
    /\ preview' = [status |-> "pending", op |-> "open", due |-> FALSE]
    /\ IF question.status = "resolving"
       THEN pc' = "prepared" /\ left' = 0 /\ UNCHANGED <<mem, attempt, flight>>
       ELSE EndRequest
    /\ UNCHANGED <<question, env, history>>

\* Denied or not ready: journalled, and the next iteration tells the model; in
\* the request of an option, the question is reset.
PrepareFails ==
    /\ pc = "preparing" /\ flight = 0
    /\ IF question.status = "resolving"
       THEN Reset /\ EndRequest /\ UNCHANGED run
       ELSE /\ Store(mem) /\ Reload
            /\ pc' = "loop" /\ left' = 0 /\ UNCHANGED <<question, attempt, flight>>
    /\ UNCHANGED <<preview, env, history>>

\* markConfirmationExecuting in confirmSingle.
Confirm ==
    /\ Free /\ Live
    /\ preview' = [preview EXCEPT !.status = "executing"]
    /\ pc' = "dispatch" /\ left' \in 0..Burst
    /\ UNCHANGED <<run, question, mem, attempt, flight, env, history>>

\* The calls of the plan; they draw on the operation's own reservation.
Commit ==
    /\ pc = "dispatch" /\ ~changed
    /\ changed' = TRUE
    /\ UNCHANGED <<rows, request, env, made, asked, tried>>

\* What a commit settles as.  A workflow that throws between two of its steps
\* fails after a change, too (CompositeCommits).
Outcomes == {"settled", "failed"}

\* settleConfirmedOperation.
Settle(o) ==
    /\ pc = "dispatch" /\ flight = 0
    /\ preview' = [preview EXCEPT !.status = "final", !.op = o]
    /\ pc' = "dispatched" /\ left' = 0
    /\ UNCHANGED <<run, question, mem, attempt, flight, env, history>>

\* Both attempts at it failed; the effect is known and reported all the same.
SettleDegraded ==
    /\ pc = "dispatch" /\ flight = 0
    /\ pc' = "dispatched" /\ left' = 0
    /\ UNCHANGED <<rows, mem, attempt, flight, env, history>>

\* Mutant: the release of a reservation may go below zero.
MutReleased == [run EXCEPT !.phase = "completed", !.reserved = @ - Cost]

Released == [run EXCEPT !.phase = "completed", !.reserved = IF @ > Cost THEN @ - Cost ELSE 0]

\* settleV2ConfirmationRun, after the effect, best effort.
SettleRun ==
    /\ pc = "dispatched"
    /\ run' = IF run.phase = "awaiting_confirmation"
              THEN Released ELSE run
    /\ EndRequest /\ UNCHANGED <<question, preview, env, history>>

\* The cancel route: the run decides, not the status of the preview.
Cancel ==
    /\ Free /\ run.phase = "awaiting_confirmation" /\ preview.status # "gone"
    /\ preview' = [preview EXCEPT !.status = IF Live THEN "cancelled"
                                              ELSE IF @ = "pending" THEN "expired" ELSE @,
                                  !.op = "withdrawn"]
    /\ run' = IF Live THEN Released ELSE [run EXCEPT !.phase = "completed"]
    /\ UNCHANGED <<question, request, env, history>>
-----------------------------------------------------------------------------
(* The clock, retention, failures.                                         *)

\* The question's hour and the preview's minutes pass; a run is suspended on a
\* question well before the first.
QuestionDue ==
    /\ Open /\ ~question.due /\ run.phase \notin Working
    /\ question' = [question EXCEPT !.due = TRUE]
    /\ UNCHANGED <<run, preview, request, env, history>>

PreviewDue ==
    /\ Live
    /\ preview' = [preview EXCEPT !.due = TRUE]
    /\ UNCHANGED <<run, question, request, env, history>>

\* runRetention: an expired question or preview is closed, an old preview deleted.
Prune ==
    /\ pc # "down"
    /\ \/ /\ question.status = "pending" /\ question.due
          /\ question' = [question EXCEPT !.status = "expired"] /\ UNCHANGED preview
       \/ /\ preview.status = "pending" /\ preview.due
          /\ preview' = Lapsed /\ UNCHANGED question
       \/ /\ Free /\ preview.status \in {"executing", "final", "expired", "cancelled"}
          /\ preview' = [preview EXCEPT !.status = "gone"] /\ UNCHANGED question
    /\ UNCHANGED <<run, request, env, history>>

\* The store throws and the request answers with an error, wherever it is.
RequestDies ==
    /\ pc \notin {"idle", "down"}
    /\ EndRequest /\ UNCHANGED <<rows, env, history>>

Crash ==
    /\ pc # "down" /\ crashes < MaxCrashes
    /\ crashes' = crashes + 1
    /\ pc' = "down" /\ mem' = Blank /\ attempt' = 0 /\ left' = 0 /\ flight' = 0
    /\ UNCHANGED <<rows, other, history>>

\* recoverOrphanedRuns, before the server listens.
Restart ==
    /\ pc = "down"
    /\ run' = IF run.phase \in Working THEN [run EXCEPT !.phase = "failed"] ELSE run
    /\ IF preview.status = "executing"
       THEN \E o \in Outcomes : preview' = [preview EXCEPT !.status = "final",
                                                           !.op = IF @ = "open" THEN o ELSE @]
       ELSE UNCHANGED preview
    /\ pc' = "idle"
    /\ UNCHANGED <<question, mem, attempt, left, flight, env, history>>
-----------------------------------------------------------------------------
Requests == \/ Message
            \/ StartRun \/ OtherStarts \/ OtherEnds \/ Pick \/ Continue \/ Confirm \/ Cancel

Steps == \/ AskModel \/ RetryModel \/ ModelAnswers \/ ModelFails \/ Complete \/ Stop
         \/ Discover \/ StartReads \/ EndReads \/ StartPreparing \/ NextIteration
         \/ Charge \/ Convert \/ Send \/ Refund
         \/ Ask \/ Suspend \/ PickFails \/ PickedRead \/ PickWrite \/ PickedWrite
         \/ Prepare \/ PrepareFails
         \/ Commit \/ (\E o \in Outcomes : Settle(o)) \/ SettleDegraded \/ SettleRun

Next == \/ Requests \/ Steps
        \/ QuestionDue \/ PreviewDue \/ Prune
        \/ RequestDies \/ Crash \/ Restart

Spec == Init /\ [][Next]_vars

\* A request runs to its end, the process is started again, a preview expires.
\* SF on Message: the admin writes again, and the FIFO serves the message.
FairSpec == /\ Spec /\ WF_vars(Steps) /\ WF_vars(Restart) /\ SF_vars(Message)
            /\ WF_vars(PreviewDue)
-----------------------------------------------------------------------------
(* "A crash can never leave a live confirmable control whose run does not  *)
(* know it exists" (assistant-write-preparation.ts, 163-165): a preview    *)
(* that can be confirmed has its run suspended on it and its host calls    *)
(* reserved, whatever crashes between the preparation and the resolution   *)
(* of the question it came from, and whoever answers that question.        *)
PreviewsAreOwned ==
    preview.status = "pending" => run.phase = "awaiting_confirmation" /\ run.reserved >= Cost

(* What a run spends is in its row: no call is sent on the ledger that     *)
(* hostCallsUsed does not count, whichever copy of the row is saved last   *)
(* (runs.ts saveRun, run-events.ts updateRunState); a run that goes on has *)
(* every ended provider attempt charged (run-service.ts callModel); and    *)
(* over suspensions, crashes and revivals no run begins more model calls   *)
(* than the limit.                                                         *)
SpendingIsRecorded ==
    /\ run.used >= made + flight
    /\ run.phase # "failed" => run.charged = tried
    /\ asked <= MaxModelCalls

(* No run wedges its session (v2-chat-pipeline.ts, 431-505): a run that is *)
(* not terminal becomes terminal, although its request may have died, its  *)
(* question be lost or stuck at resolving, or its preview be deleted.      *)
EveryRunEnds == Active ~> ~Active

(* "cancel terminalizes the run with a canonical no-mutation result"       *)
(* (v2-confirmation-run-lifecycle.test.ts, 71): an operation recorded as   *)
(* withdrawn, with "No change was made", has changed nothing.              *)
NoChangeMeansNoChange == preview.op = "withdrawn" => ~changed

(* Every host call of a run charges while used + reserved is below the     *)
(* ceiling, and "call 61 is denied BEFORE dispatch" (v2-host-call-budget-  *)
(* runtime.test.ts, 16-18; SECURITY.md, 101-103): no run sends more host   *)
(* calls than the ceiling.                                                 *)
CallsStayUnderTheCeiling == made <= MaxHostCalls
=============================================================================
