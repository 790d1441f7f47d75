-------------------------- MODULE ConfirmationBatch --------------------------
(***************************************************************************)
(* "Confirm all": one batch of previews that an admin confirms or cancels  *)
(* together (services/confirmation-service.ts, confirmBatch, and           *)
(* db/store/confirmation-batches.ts, confirmations.ts).                    *)
(*                                                                         *)
(* Every step below is one SQLite transaction or one await of the request, *)
(* so that the process can die between any two of them.  Requests of one   *)
(* session are serialised (routes/fifo-lock.ts); the retention pass is not *)
(* and runs at the awaits.  What one confirmed write does at Clockify is   *)
(* MutationJournal's subject: here it is its answer.                       *)
(*                                                                         *)
(* operation_runs.status is left out: the triggers of db/schema.ts and the *)
(* store keep it equal to the confirmation's status (pending is prepared,  *)
(* cancelled and expired are definitive_failed).  All members share one    *)
(* expiry.                                                                 *)
(***************************************************************************)
EXTENDS Integers, FiniteSets

CONSTANTS N,          \* members of the batch
          MaxCrashes  \* bound: process crashes

ASSUME BatchAssumption == N \in Nat \ {0} /\ MaxCrashes \in Nat

Items == 1 .. N

VARIABLES
    item,        \* confirmation_batch_items.status
    conf,        \* pending_confirmations.status of each member
    result,      \* kind of the action_results row of its operation ("none": no row)
    dispatched,  \* a step of its operation has dispatched_at
    batch,       \* confirmation_batches.status
    index,       \* confirmation_batches.current_index: members already done
    run,         \* phase of the assistant run that owns the batch
    late,        \* expires_at has passed
    pc, cur,     \* where the confirm request is, and at which member
    seen,        \* the batch status and index that request read at its start
    answer,      \* the terminal status of the member being dispatched
    outcomes,    \* outcomes collected by the request
    sent,        \* history: writes sent to Clockify per member
    truth,       \* history: what the commit knew became of them
    crashes

memory == <<cur, seen, answer, outcomes>>
rows == <<item, conf, result, dispatched, batch, index, run>>
history == <<sent, truth>>
vars == <<rows, late, pc, memory, history, crashes>>

ItemStatus == {"pending", "executing", "succeeded", "definitive_failed", "outcome_unknown", "cancelled"}
Final == {"succeeded", "partial", "definitive_failed", "outcome_unknown"}
ConfStatus == Final \cup {"pending", "executing", "cancelled", "expired"}
PC == {"idle", "verifying", "loop", "claimed", "dispatching", "sent", "answered", "settled",
       "recorded", "stopping", "stopped", "finish", "down", "broken"}

TypeOK ==
    /\ item \in [Items -> ItemStatus]
    /\ conf \in [Items -> ConfStatus]
    /\ result \in [Items -> Final \cup {"none"}]
    /\ dispatched \in [Items -> BOOLEAN]
    /\ batch \in ConfStatus
    /\ index \in 0 .. N
    /\ run \in {"awaiting_confirmation", "completed"}
    /\ late \in BOOLEAN
    /\ pc \in PC
    /\ cur \in 1 .. N + 1
    /\ seen \in [status : ConfStatus, index : 0 .. N]
    /\ answer \in Final \cup {"none"}
    /\ outcomes \in [Items -> Final \cup {"none"}]
    /\ sent \in [Items -> Nat]
    /\ truth \in [Items -> {"none", "applied", "partly", "unknown"}]
    /\ crashes \in 0 .. MaxCrashes

Blank == [i \in Items |-> "none"]

Init ==
    /\ item = [i \in Items |-> "pending"]
    /\ conf = [i \in Items |-> "pending"]
    /\ result = Blank
    /\ dispatched = [i \in Items |-> FALSE]
    /\ batch = "pending" /\ index = 0
    /\ run = "awaiting_confirmation"
    /\ late = FALSE
    /\ pc = "idle" /\ cur = 1
    /\ seen = [status |-> "pending", index |-> 0]
    /\ answer = "none" /\ outcomes = Blank
    /\ sent = [i \in Items |-> 0]
    /\ truth = Blank
    /\ crashes = 0
-----------------------------------------------------------------------------
(* Rows.                                                                   *)

\* Members of S leave pending; the trigger writes their result.
Closed(S, status) ==
    /\ conf' = [i \in Items |-> IF i \in S /\ conf[i] = "pending" THEN status ELSE conf[i]]
    /\ result' = [i \in Items |-> IF i \in S /\ conf[i] = "pending" THEN "definitive_failed" ELSE result[i]]

\* terminalItemOutcome: what a member that is done is replayed as.
Replay(i) ==
    IF item[i] \in {"pending", "executing", "cancelled"} \/ conf[i] \in {"pending", "executing"} THEN "none"
    ELSE IF conf[i] \in Final THEN conf[i] ELSE "definitive_failed"

Started == {i \in Items : item[i] # "pending"}
Executing == {i \in Items : item[i] = "executing"}

\* The result recovery writes for an undispatched executing member cannot be
\* inserted when its operation has one already (UNIQUE idx_action_results_operation).
\* The claim stores one, so the insert never succeeds.
InsertConflicts == batch = "executing" /\ \E i \in Executing : ~dispatched[i] /\ result[i] # "none"

Stops == batch = "executing" /\ \E i \in Executing : dispatched[i]
Rest == {j \in Items : Stops /\ item[j] = "pending" /\ \E i \in Executing : i < j}

\* Mutant: recovery puts the interrupted member back into the queue.
MutRecoverBatch(c) ==
    /\ batch' = IF batch = "executing" /\ ~late THEN "pending" ELSE batch
    /\ item' = [i \in Items |-> IF i \in Executing THEN "pending" ELSE item[i]]
    /\ conf' = [i \in Items |-> IF i \in Executing THEN "pending" ELSE c[i]]
    /\ result' = [i \in Items |-> IF i \in Executing THEN "none" ELSE result[i]]
    /\ UNCHANGED <<index, dispatched, run>>

\* recoverConfirmationBatch, c being the members' statuses it finds: a batch that
\* started nothing is pending again, one with a dispatched member stops there.
RecoverBatch(c) ==
    /\ batch' = IF Stops THEN "outcome_unknown"
                ELSE IF batch = "executing" /\ index = 0 /\ Started = {} /\ ~late THEN "pending"
                ELSE batch
    /\ item' = [i \in Items |-> IF i \in Rest THEN "cancelled" ELSE item[i]]
    /\ conf' = [i \in Items |-> IF i \in Rest /\ c[i] = "pending" THEN "cancelled" ELSE c[i]]
    /\ result' = [i \in Items |-> IF i \in Rest /\ c[i] = "pending" THEN "definitive_failed" ELSE result[i]]
    /\ UNCHANGED <<index, dispatched, run>>
-----------------------------------------------------------------------------
(* The confirm request.                                                    *)

Ends == /\ pc' = "idle"
        /\ cur' = 1 /\ seen' = [status |-> "pending", index |-> 0]
        /\ answer' = "none" /\ outcomes' = Blank

\* (When recovery throws the request fails with it: nothing changes.)
\* Past its expiry the batch is marked expired whatever it was, and settling the
\* run, if that succeeds, closes the members.
ConfirmExpired ==
    /\ pc = "idle" /\ ~InsertConflicts /\ late
    /\ batch' = "expired"
    /\ item' = [i \in Items |-> IF i \in Rest THEN "cancelled" ELSE item[i]]
    /\ \/ /\ run' = "completed"
          /\ Closed(Items, "expired")
       \/ /\ UNCHANGED run
          /\ Closed(Rest, "cancelled")
    /\ UNCHANGED <<dispatched, index, late, pc, memory, history, crashes>>

\* Recovered; replayed if it is terminal, refused if a member cannot be replayed,
\* otherwise on to the role check.
ConfirmStarts ==
    /\ pc = "idle" /\ ~InsertConflicts /\ ~late
    /\ RecoverBatch(conf)
    /\ \/ /\ batch' \in {"pending", "executing"}
          /\ \A i \in index + 1 .. N : item[i] = "pending" \/ Replay(i) # "none"
          /\ pc' = "verifying"
          /\ seen' = [status |-> batch', index |-> index]
          /\ UNCHANGED <<cur, answer, outcomes>>
       \/ UNCHANGED <<pc, memory>>
    /\ UNCHANGED <<late, history, crashes>>

\* Not an admin any more, the add-on is inactive, or the client went away.
Unauthorised ==
    /\ pc = "verifying"
    /\ Ends
    /\ UNCHANGED <<rows, late, history, crashes>>

\* markConfirmationBatchExecuting, unless this resumes an executing batch.
ClaimBatch ==
    /\ pc = "verifying"
    /\ \/ /\ seen.status = "pending" /\ batch = "pending"
          /\ batch' = "executing"
       \/ /\ seen.status = "executing"
          /\ UNCHANGED batch
    /\ pc' = "loop" /\ cur' = seen.index + 1
    /\ UNCHANGED <<item, conf, result, dispatched, index, run, late, seen, answer, outcomes,
                   history, crashes>>

ClaimLost ==
    /\ pc = "verifying" /\ seen.status = "pending" /\ batch # "pending"
    /\ Ends
    /\ UNCHANGED <<rows, late, history, crashes>>

\* A member that is already done is replayed.
ReplayItem ==
    /\ pc = "loop" /\ cur <= N /\ item[cur] # "pending"
    /\ outcomes' = [outcomes EXCEPT ![cur] = Replay(cur)]
    /\ cur' = cur + 1
    /\ UNCHANGED <<rows, late, pc, seen, answer, history, crashes>>

\* checkConfirmationGate.
Live(i) == conf[i] = "pending" /\ ~late

\* The member is expired (and closed by the read), used, or its nonce, its plan,
\* the installation or the policy does not fit: the batch stays as it is.
RejectItem ==
    /\ pc = "loop" /\ cur <= N /\ item[cur] = "pending"
    /\ IF late THEN Closed({cur}, "expired") ELSE UNCHANGED <<conf, result>>
    /\ Ends
    /\ UNCHANGED <<item, dispatched, batch, index, run, late, history, crashes>>

\* markConfirmationExecuting: claimed once, with the worst outcome recorded.
ClaimItem ==
    /\ pc = "loop" /\ cur <= N /\ item[cur] = "pending" /\ Live(cur)
    /\ conf' = [conf EXCEPT ![cur] = "executing"]
    /\ result' = [result EXCEPT ![cur] = "outcome_unknown"]
    /\ pc' = "claimed"
    /\ UNCHANGED <<item, dispatched, batch, index, run, late, memory, history, crashes>>

StartItem ==
    /\ pc = "claimed"
    /\ item' = [item EXCEPT ![cur] = "executing"]
    /\ pc' = "dispatching"
    /\ UNCHANGED <<conf, result, dispatched, batch, index, run, late, memory, history, crashes>>

\* The journal cannot be written before the dispatch: the request fails.
DispatchThrows ==
    /\ pc = "dispatching"
    /\ Ends
    /\ UNCHANGED <<rows, late, history, crashes>>

\* A stale target, a refused role or a spent budget: an error before the write.
NotSent ==
    /\ pc = "dispatching"
    /\ answer' = "definitive_failed"
    /\ pc' = "answered"
    /\ UNCHANGED <<rows, late, cur, seen, outcomes, history, crashes>>

\* dispatched_at is stored, then the write goes out.
Send ==
    /\ pc = "dispatching"
    /\ dispatched' = [dispatched EXCEPT ![cur] = TRUE]
    /\ sent' = [sent EXCEPT ![cur] = @ + 1]
    /\ truth' = [truth EXCEPT ![cur] = "unknown"]
    /\ pc' = "sent"
    /\ UNCHANGED <<item, conf, result, batch, index, run, late, memory, crashes>>

\* What an answer says of the effect; whether that is so is for MutationJournal and
\* CompositeCommits.
Effect == [succeeded |-> "applied", partial |-> "partly", definitive_failed |-> "none",
           outcome_unknown |-> "unknown"]

Answer(a) ==
    /\ pc = "sent"
    /\ answer' = a
    /\ truth' = [truth EXCEPT ![cur] = Effect[a]]
    /\ pc' = "answered"
    /\ UNCHANGED <<rows, late, cur, seen, outcomes, sent, crashes>>

\* settleConfirmedOperation, tried twice; when both fail the claim's result stays.
Settle ==
    /\ pc = "answered"
    /\ \/ /\ conf' = [conf EXCEPT ![cur] = answer]
          /\ result' = [result EXCEPT ![cur] = answer]
       \/ UNCHANGED <<conf, result>>
    /\ pc' = "settled"
    /\ UNCHANGED <<item, dispatched, batch, index, run, late, memory, history, crashes>>

RecordItem ==
    /\ pc = "settled"
    /\ item' = [item EXCEPT ![cur] = IF answer = "partial" THEN "succeeded" ELSE answer]
    /\ pc' = "recorded"
    /\ UNCHANGED <<conf, result, dispatched, batch, index, run, late, memory, history, crashes>>

\* Mutant: current_index is taken for the number of the next member.
MutAdvance ==
    /\ pc = "recorded"
    /\ index' = IF batch = "executing" THEN cur + 1 ELSE index
    /\ outcomes' = [outcomes EXCEPT ![cur] = answer]
    /\ IF answer = "outcome_unknown"
         THEN pc' = "stopping" /\ UNCHANGED cur
         ELSE pc' = "loop" /\ cur' = cur + 1
    /\ answer' = "none"
    /\ UNCHANGED <<item, conf, result, dispatched, batch, run, late, seen, history, crashes>>

\* advanceConfirmationBatchProgress: of an executing batch only.
Advance ==
    /\ pc = "recorded"
    /\ index' = IF batch = "executing" THEN cur ELSE index
    /\ outcomes' = [outcomes EXCEPT ![cur] = answer]
    /\ IF answer = "outcome_unknown"
         THEN pc' = "stopping" /\ UNCHANGED cur
         ELSE pc' = "loop" /\ cur' = cur + 1
    /\ answer' = "none"
    /\ UNCHANGED <<item, conf, result, dispatched, batch, run, late, seen, history, crashes>>

\* cancelUndispatchedBatchItems.
CancelRest ==
    /\ pc = "stopping"
    /\ LET rest == {j \in Items : j > cur /\ item[j] = "pending"}
       IN /\ item' = [j \in Items |-> IF j \in rest THEN "cancelled" ELSE item[j]]
          /\ Closed(rest, "cancelled")
    /\ pc' = "stopped"
    /\ UNCHANGED <<dispatched, batch, index, run, late, memory, history, crashes>>

MarkUnknown ==
    /\ pc = "stopped"
    /\ batch' = "outcome_unknown"
    /\ pc' = "finish"
    /\ UNCHANGED <<item, conf, result, dispatched, index, run, late, memory, history, crashes>>

\* Mutant: only what this request did is summed up.
MutAllOutcomes == {outcomes[i] : i \in Items} \ {"none"}

\* The members before the first one of this request are replayed from their rows.
AllOutcomes ==
    ({Replay(i) : i \in 1 .. seen.index} \cup {outcomes[i] : i \in Items}) \ {"none"}

\* summarizeBatchStatus.
Summary(s) ==
    CASE "outcome_unknown" \in s -> "outcome_unknown"
      [] "partial" \in s /\ "outcome_unknown" \notin s -> "partial"
      [] s = {"succeeded", "definitive_failed"} -> "partial"
      [] s \subseteq {"definitive_failed"} -> "definitive_failed"
      [] s = {"succeeded"} -> "succeeded"

Summarise ==
    /\ pc = "loop" /\ cur > N
    /\ batch' = Summary(AllOutcomes)
    /\ pc' = "finish"
    /\ UNCHANGED <<item, conf, result, dispatched, index, run, late, memory, history, crashes>>

\* settleBatchRunBestEffort: reading the members closes those that are due.
Finish ==
    /\ pc = "finish"
    /\ Closed(IF late THEN Items ELSE {}, "expired")
    /\ \/ run' = "completed"
       \/ UNCHANGED run
    /\ Ends
    /\ UNCHANGED <<item, dispatched, batch, index, late, history, crashes>>
-----------------------------------------------------------------------------
(* Other requests, the retention pass, crashes.                            *)

\* cancelBatch.
CancelAll ==
    /\ pc = "idle"
    /\ Closed(Items, IF late THEN "expired" ELSE "cancelled")
    /\ batch' = IF batch = "pending" THEN "cancelled" ELSE batch
    /\ run' = "completed"
    /\ UNCHANGED <<item, dispatched, index, late, pc, memory, history, crashes>>

\* The session's next message finds no live preview left and settles the run.
NextMessage ==
    /\ pc = "idle" /\ run = "awaiting_confirmation"
    /\ Closed(IF late THEN Items ELSE {}, "expired")
    /\ \A i \in Items : conf'[i] # "pending"
    /\ run' = "completed"
    /\ UNCHANGED <<item, dispatched, batch, index, late, pc, memory, history, crashes>>

Awaiting == pc \in {"idle", "verifying", "dispatching", "sent"}

\* pruneExpired, its two statements yielding in between.
RetireMembers ==
    /\ Awaiting /\ late
    /\ \E i \in Items : conf[i] = "pending"
    /\ Closed(Items, "expired")
    /\ UNCHANGED <<item, dispatched, batch, index, run, late, pc, memory, history, crashes>>

\* Mutant: a batch that is executing is left alone.
MutRetireBatch ==
    /\ Awaiting /\ late /\ batch = "pending"
    /\ batch' = "expired"
    /\ UNCHANGED <<item, conf, result, dispatched, index, run, late, pc, memory, history, crashes>>

RetireBatch ==
    /\ Awaiting /\ late /\ batch \in {"pending", "executing"}
    /\ batch' = "expired"
    /\ UNCHANGED <<item, conf, result, dispatched, index, run, late, pc, memory, history, crashes>>

Expires ==
    /\ ~late /\ late' = TRUE
    /\ UNCHANGED <<rows, pc, memory, history, crashes>>

Crash ==
    /\ pc \notin {"down", "broken"} /\ crashes < MaxCrashes
    /\ crashes' = crashes + 1
    /\ pc' = "down"
    /\ cur' = 1 /\ seen' = [status |-> "pending", index |-> 0]
    /\ answer' = "none" /\ outcomes' = Blank
    /\ UNCHANGED <<rows, late, history>>

\* recoverOrphanedRuns: a claimed member takes the result of its operation, which
\* is the one the claim stored; then the batch is recovered, all in one
\* transaction.  A conflict there undoes it all and the server does not start.
Restart ==
    /\ pc = "down" /\ ~InsertConflicts
    /\ RecoverBatch([i \in Items |-> IF conf[i] = "executing" THEN result[i] ELSE conf[i]])
    /\ pc' = "idle"
    /\ UNCHANGED <<late, memory, history, crashes>>

RestartFails ==
    /\ pc \in {"down", "broken"} /\ InsertConflicts
    /\ pc' = "broken"
    /\ UNCHANGED <<rows, late, memory, history, crashes>>
-----------------------------------------------------------------------------
Request ==
    \/ Unauthorised \/ ClaimBatch \/ ClaimLost
    \/ ReplayItem \/ RejectItem \/ ClaimItem \/ StartItem
    \/ DispatchThrows \/ NotSent \/ Send \/ \E a \in Final : Answer(a)
    \/ Settle \/ RecordItem \/ Advance
    \/ CancelRest \/ MarkUnknown \/ Summarise \/ Finish

Next ==
    \/ ConfirmExpired \/ ConfirmStarts
    \/ Request
    \/ CancelAll \/ NextMessage
    \/ RetireMembers \/ RetireBatch \/ Expires
    \/ Crash \/ Restart \/ RestartFails

Spec == Init /\ [][Next]_vars

\* A request that was accepted runs to its end (every await in it is bounded by a
\* timeout), the retention pass runs every hour, and the platform restarts a
\* process that exited.
FairSpec == Spec /\ WF_vars(Request) /\ WF_vars(RetireBatch)
                 /\ WF_vars(Restart \/ RestartFails)
-----------------------------------------------------------------------------
(* Whatever is retried, replayed, resumed or recovered: no member's write  *)
(* goes out twice; it goes out only when every earlier member has been     *)
(* recorded as done, in this request or in one before a crash; and nothing *)
(* goes out once the run is over (cancelled, expired, or taken over by the *)
(* next message).                                                          *)
DispatchIsOrderly ==
    [][\A j \in Items : sent'[j] # sent[j] =>
          /\ sent[j] = 0
          /\ run # "completed"
          /\ \A i \in 1 .. j - 1 : item[i] \notin {"pending", "executing"}]_vars

(* A member's status never says more than is known: one shown as           *)
(* cancelled, expired or failed changed nothing, one shown as succeeded or *)
(* partial did just that.                                                  *)
MembersAreTruthful ==
    \A i \in Items :
        /\ conf[i] \in {"pending", "cancelled", "expired", "definitive_failed"} => truth[i] = "none"
        /\ conf[i] = "succeeded" => truth[i] = "applied"
        /\ conf[i] = "partial" => truth[i] = "partly"

(* The batch as a whole: succeeded means that every member did, in this    *)
(* request or an earlier one, and failed that none changed anything.       *)
(* Members whose settlement could not be stored are exempt: resuming the   *)
(* batch leaves them out of the summary (terminalItemOutcome finds no      *)
(* terminal row).                                                          *)
BatchIsTruthful ==
    \A i \in Items : conf[i] \notin {"executing", "outcome_unknown"} =>
        /\ batch = "succeeded" => truth[i] = "applied"
        /\ batch = "definitive_failed" => truth[i] = "none"

(* The members and the batch together.                                     *)
OutcomesAreTruthful == MembersAreTruthful /\ BatchIsTruthful

(* A batch that is due does not stay open, also when a rejection or a      *)
(* crash stopped it half way, as long as the server can start.             *)
OverdueBatchCloses == late ~> batch \notin {"pending", "executing"} \/ pc = "broken"

(* Recovery records the interrupted member and lets the server start.      *)
ServerStarts == pc # "broken"
=============================================================================
