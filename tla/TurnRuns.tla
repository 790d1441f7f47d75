------------------------------ MODULE TurnRuns ------------------------------
(***************************************************************************)
(* Chat requests of one session and their repetitions: the session FIFO    *)
(* (routes/fifo-lock.ts, routes/async-handler.ts), chatPreconditions       *)
(* (routes/control-plane.ts), the JSON and the streaming chat route        *)
(* (routes/chat.ts) and the turn ledger (db/store/turn-runs.ts) with its   *)
(* recovery at startup and its retention.                                  *)
(*                                                                         *)
(* A call is one delivery of a chat request.  A client may repeat a        *)
(* request id after its connection broke, with the same message or another *)
(* one.  What the turn itself does is AssistantRun's subject; here it      *)
(* succeeds, fails or throws.  The nonces that a replay rotates and the    *)
(* text of answers are left out.                                           *)
(***************************************************************************)
EXTENDS Naturals, Sequences

CONSTANTS
    N,          \* deliveries of chat requests
    Ids,        \* requestId values
    Intents,    \* messages, as their hashes
    MaxStops,   \* the process dies at most so often
    MaxFaults   \* turns that throw and transactions that fail, at most

ASSUME BoundsAssumption == MaxStops \in Nat /\ MaxFaults \in Nat /\ N \in Nat

\* The calls, in the order in which they arrive.
Calls == 1 .. N

VARIABLES
    turn,       \* turn_runs: the row of each request id
    links,      \* turn_message_links: the roles whose message is stored
    fifo,       \* the calls that wait for the session; the head holds it
    call,       \* the calls
    up,
    ran,        \* history: how often the turn of a request id was begun
    verdict,    \* history: how it ended
    lost,       \* history: ids whose handler of this process left the row executing
    pruned,     \* history: ids whose row the retention pass deleted
    stops, faults

ledger == <<turn, links>>
turnHistory == <<ran, verdict, pruned>>
turnVars == <<ledger, fifo, call, up, turnHistory, lost, stops, faults>>

NoRow == [status |-> "none", intent |-> "none", envelope |-> "none"]
Routes == {"json", "stream"}
Verdicts == {"ok", "failed", "none"}
Told == {"none", "refused", "conflict", "in_progress", "unknown", "ok", "failed", "error"}
Statuses == {"none", "prepared", "executing", "succeeded", "failed", "outcome_unknown"}
Envelopes == {"none", "ok", "failed", "unknown"}
Pcs == {"idle", "queued", "left", "claimed", "executing", "begun", "returned", "interrupted", "stored", "done"}
TurnRows == [status : Statuses, intent : Intents \cup {"none"}, envelope : Envelopes]
CallStates == [pc : Pcs, id : Ids \cup {"none"}, intent : Intents \cup {"none"}, route : Routes, told : Told]
Idle == [pc |-> "idle", id |-> "none", intent |-> "none", route |-> "json", told |-> "none"]

TurnTypeOK ==
    /\ turn \in [Ids -> TurnRows]
    /\ \A i \in Ids : turn[i].envelope # "none" => turn[i].status \in {"succeeded", "failed", "outcome_unknown"}
    /\ links \in [Ids -> SUBSET {"user", "assistant"}]
    /\ call \in [Calls -> CallStates]
    /\ fifo \in Seq(Calls) /\ up \in BOOLEAN
    /\ ran \in [Ids -> Nat] /\ verdict \in [Ids -> Verdicts]
    /\ lost \subseteq Ids /\ pruned \subseteq Ids
    /\ stops \in 0 .. MaxStops /\ faults \in 0 .. MaxFaults

TurnInit ==
    /\ turn = [i \in Ids |-> NoRow] /\ links = [i \in Ids |-> {}]
    /\ fifo = <<>> /\ call = [c \in Calls |-> Idle] /\ up = TRUE
    /\ ran = [i \in Ids |-> 0] /\ verdict = [i \in Ids |-> "none"]
    /\ lost = {} /\ pruned = {} /\ stops = 0 /\ faults = 0
-----------------------------------------------------------------------------
(* The session FIFO.                                                       *)

\* fifoAsyncHandler puts the call behind the others of its session.
Deliver(c) ==
    /\ up /\ call[c].pc = "idle" /\ \A d \in 1 .. c - 1 : call[d].pc # "idle"
    /\ \E i \in Ids, m \in Intents, r \in Routes :
         call' = [call EXCEPT ![c] = [pc |-> "queued", id |-> i, intent |-> m, route |-> r, told |-> "none"]]
    /\ fifo' = Append(fifo, c)
    /\ UNCHANGED <<ledger, up, turnHistory, lost, stops, faults>>

\* The client goes away while its call waits.  (Once the handler runs, that only aborts the
\* turn, which may fail at any time anyway, and the answer is not read.)
Disconnect(c) ==
    /\ call[c].pc = "queued"
    /\ call' = [call EXCEPT ![c].pc = "left"]
    /\ UNCHANGED <<ledger, fifo, up, turnHistory, lost, stops, faults>>

Holds(c, pc) == fifo # <<>> /\ Head(fifo) = c /\ call[c].pc = pc

Over(k, answer) == [pc |-> "done", id |-> k.id, intent |-> "none", route |-> "json", told |-> answer]

\* The handler's promise settles, whatever it did: the next call of the session starts.
Leaves(c, answer) ==
    /\ call' = [call EXCEPT ![c] = Over(@, answer)]
    /\ fifo' = Tail(fifo)

\* Mutant: a queued call that was given up keeps its place.
MutSkip(c) ==
    /\ Holds(c, "left")
    /\ call' = [call EXCEPT ![c].pc = "done"]
    /\ UNCHANGED <<ledger, fifo, up, turnHistory, lost, stops, faults>>

Skip(c) ==
    /\ Holds(c, "left")
    /\ Leaves(c, "none")
    /\ UNCHANGED <<ledger, up, turnHistory, lost, stops, faults>>
-----------------------------------------------------------------------------
(* chatPreconditions and claimTurnRun.                                     *)

TurnRow(c) == turn[call[c].id]
Claimed(c) == Holds(c, "queued") /\ TurnRow(c).status # "none"
Repeats(c) == Claimed(c) /\ TurnRow(c).intent = call[c].intent

Answers(c, answer) == Leaves(c, answer) /\ UNCHANGED <<ledger, up, turnHistory, lost, stops, faults>>

\* No session, too many messages, a malformed body or an inactive installation.
Refuse(c) == Holds(c, "queued") /\ Answers(c, "refused")

Conflict(c) == Claimed(c) /\ TurnRow(c).intent # call[c].intent /\ Answers(c, "conflict")

InFlight(c) == Repeats(c) /\ TurnRow(c).status \in {"prepared", "executing"} /\ Answers(c, "in_progress")

OutcomeUnknown(c) ==
    Repeats(c) /\ TurnRow(c).status = "outcome_unknown" /\ TurnRow(c).envelope = "none" /\ Answers(c, "unknown")

\* The stored envelope is answered again; nothing runs.
Replay(c) == Repeats(c) /\ TurnRow(c).envelope # "none" /\ Answers(c, TurnRow(c).envelope)

\* Mutant: a request whose outcome is unknown may be tried again.
MutUnclaimed(c) == TurnRow(c).status = "none" \/ (Repeats(c) /\ TurnRow(c).status = "outcome_unknown")

Unclaimed(c) == TurnRow(c).status = "none"

ClaimTurnRun(c) ==
    /\ Holds(c, "queued") /\ Unclaimed(c)
    /\ turn' = [turn EXCEPT ![call[c].id] = [status |-> "prepared", intent |-> call[c].intent, envelope |-> "none"]]
    /\ call' = [call EXCEPT ![c].pc = "claimed"]
    /\ UNCHANGED <<links, fifo, up, turnHistory, lost, stops, faults>>

MarkTurnRunExecuting(c) ==
    /\ Holds(c, "claimed")
    /\ turn' = [turn EXCEPT ![call[c].id].status = "executing"]
    /\ call' = [call EXCEPT ![c].pc = "executing"]
    /\ UNCHANGED <<links, fifo, up, turnHistory, lost, stops, faults>>
-----------------------------------------------------------------------------
(* The turn.                                                               *)

Ends(c, v) ==
    /\ call' = [call EXCEPT ![c].pc = "returned"]
    /\ verdict' = [verdict EXCEPT ![call[c].id] = v]
    /\ UNCHANGED <<turn, fifo, up, ran, lost, pruned, stops>>

\* No model client, a changed installation or a clarification that is not pending:
\* nothing is stored.
TurnRefused(c) == Holds(c, "executing") /\ Ends(c, "failed") /\ UNCHANGED <<links, faults>>

BeginClaimedTurnMessage(c) ==
    /\ Holds(c, "executing")
    /\ links' = [links EXCEPT ![call[c].id] = @ \cup {"user"}]
    /\ ran' = [ran EXCEPT ![call[c].id] = @ + 1]
    /\ call' = [call EXCEPT ![c].pc = "begun"]
    /\ UNCHANGED <<turn, fifo, up, verdict, lost, pruned, stops, faults>>

\* A refusal because of a pending preview, or a run that failed: no reply is stored.
TurnFails(c) == Holds(c, "begun") /\ Ends(c, "failed") /\ UNCHANGED <<links, faults>>

\* The reply is stored if possible; the turn has succeeded either way.
SettleAssistantReply(c) ==
    /\ Holds(c, "begun") /\ Ends(c, "ok")
    /\ \/ links' = [links EXCEPT ![call[c].id] = @ \cup {"assistant"}] /\ UNCHANGED faults
       \/ faults < MaxFaults /\ faults' = faults + 1 /\ UNCHANGED links

\* The JSON route does not catch: the call is answered 500 and its row stays executing.
TurnThrowsJson(c) ==
    /\ Holds(c, "executing") \/ Holds(c, "begun")
    /\ call[c].route = "json" /\ faults < MaxFaults
    /\ faults' = faults + 1
    /\ lost' = lost \cup {call[c].id}
    /\ Leaves(c, "error")
    /\ UNCHANGED <<ledger, up, turnHistory, stops>>

TurnThrowsStream(c) ==
    /\ Holds(c, "executing") \/ Holds(c, "begun")
    /\ call[c].route = "stream" /\ faults < MaxFaults
    /\ faults' = faults + 1
    /\ call' = [call EXCEPT ![c].pc = "interrupted"]
    /\ UNCHANGED <<ledger, fifo, up, turnHistory, lost, stops>>
-----------------------------------------------------------------------------
(* finishTurnRun and the answer.                                           *)

\* Mutant: an interrupted turn stores its answer and leaves the status.
MutStored(c) ==
    IF call[c].pc = "interrupted" THEN [status |-> "executing", envelope |-> "unknown"]
    ELSE IF verdict[call[c].id] = "ok" THEN [status |-> "succeeded", envelope |-> "ok"]
    ELSE [status |-> "failed", envelope |-> "failed"]

Stored(c) ==
    IF call[c].pc = "interrupted" THEN [status |-> "outcome_unknown", envelope |-> "unknown"]
    ELSE IF verdict[call[c].id] = "ok" THEN [status |-> "succeeded", envelope |-> "ok"]
    ELSE [status |-> "failed", envelope |-> "failed"]

Answer(c) == IF call[c].pc = "interrupted" THEN "error" ELSE verdict[call[c].id]

\* The answer is fixed before the row is written.
Finishes(c) ==
    /\ Holds(c, "returned") \/ Holds(c, "interrupted")
    /\ call' = [call EXCEPT ![c].pc = "stored", ![c].told = Answer(c)]
    /\ UNCHANGED <<links, fifo, up, turnHistory, stops>>

FinishTurnRun(c) ==
    /\ Finishes(c)
    /\ turn' = [turn EXCEPT ![call[c].id].status = Stored(c).status,
                            ![call[c].id].envelope = Stored(c).envelope]
    /\ UNCHANGED <<lost, faults>>

\* finishTurnRunSafely: the row stays executing, the answer is given all the same.
LoseFinish(c) ==
    /\ Finishes(c)
    /\ faults < MaxFaults /\ faults' = faults + 1
    /\ lost' = lost \cup {call[c].id}
    /\ UNCHANGED turn

Respond(c) ==
    /\ Holds(c, "stored")
    /\ Leaves(c, call[c].told)
    /\ UNCHANGED <<ledger, up, turnHistory, lost, stops, faults>>
-----------------------------------------------------------------------------
(* Retention, crash and restart.                                           *)

InHand(i) == \E c \in Calls : call[c].id = i /\ call[c].pc \in {"claimed", "executing", "begun", "returned",
                                                                "interrupted", "stored"}

\* The row is older than the retention of chats, which no turn outlasts.
PruneExpired(i) ==
    /\ turn[i].status # "none" /\ ~InHand(i) /\ i \notin pruned
    /\ turn' = [turn EXCEPT ![i] = NoRow] /\ links' = [links EXCEPT ![i] = {}]
    /\ pruned' = pruned \cup {i} /\ lost' = lost \ {i}
    /\ UNCHANGED <<fifo, call, up, ran, verdict, stops, faults>>

ServerStops ==
    /\ up /\ stops < MaxStops
    /\ stops' = stops + 1 /\ up' = FALSE
    /\ fifo' = <<>>
    /\ call' = [c \in Calls |-> IF call[c].pc \in {"idle", "done"} THEN call[c]
                                ELSE Over(call[c], "none")]
    /\ UNCHANGED <<ledger, turnHistory, lost, faults>>

\* A turn that was prepared but never marked is left as it is.
Recovered(r) == IF r.status = "executing" THEN [r EXCEPT !.status = "outcome_unknown"] ELSE r

RecoverOrphanedRuns ==
    /\ ~up /\ up' = TRUE
    /\ turn' = [i \in Ids |-> Recovered(turn[i])]
    /\ lost' = {}
    /\ UNCHANGED <<links, fifo, call, turnHistory, stops, faults>>

Handle(c) ==
    \/ Skip(c) \/ Refuse(c) \/ Conflict(c) \/ InFlight(c) \/ OutcomeUnknown(c) \/ Replay(c)
    \/ ClaimTurnRun(c) \/ MarkTurnRunExecuting(c)
    \/ TurnRefused(c) \/ BeginClaimedTurnMessage(c) \/ TurnFails(c) \/ SettleAssistantReply(c)
    \/ TurnThrowsJson(c) \/ TurnThrowsStream(c)
    \/ FinishTurnRun(c) \/ LoseFinish(c) \/ Respond(c)

TurnNext ==
    \/ \E c \in Calls : Deliver(c) \/ Disconnect(c) \/ Handle(c)
    \/ \E i \in Ids : PruneExpired(i)
    \/ ServerStops \/ RecoverOrphanedRuns

TurnSpec == TurnInit /\ [][TurnNext]_turnVars

\* Every turn ends (its model and host calls have timeouts and its budget is bounded), and
\* the platform restarts a process that died.
FairTurnSpec == TurnSpec /\ WF_turnVars(\E c \in Calls : Handle(c)) /\ WF_turnVars(RecoverOrphanedRuns)
-----------------------------------------------------------------------------
(* What the ledger promises a client that repeats a request                *)
(* (claimTurnRun, operations.ts): the turn ran at most once; the status it *)
(* reads is how the turn ended; a success and a failure are never both     *)
(* answered; and a row that says executing belongs to a call that is being *)
(* handled, or to one of this process whose end could not be stored.       *)
(* After the retention pass deleted the row the promise is void.           *)
LedgerIsTruthful == \A i \in Ids \ pruned :
    /\ ran[i] <= 1
    /\ turn[i].status = "succeeded" => verdict[i] = "ok" /\ "user" \in links[i]
    /\ turn[i].status = "failed" => verdict[i] = "failed"
    /\ ~ \E c, d \in Calls : call[c].id = i /\ call[d].id = i
                              /\ call[c].pc = "done" /\ call[d].pc = "done"
                              /\ call[c].told = "ok" /\ call[d].told = "failed"
    /\ up /\ turn[i].status = "executing" => InHand(i) \/ i \in lost

(* "The fulfilled skip still advances the keyed tail, so later requests    *)
(* are never poisoned" (async-handler.ts, 26): every call of a session     *)
(* gets its turn, although earlier ones throw, break off or are given up.  *)
EveryCallEnds == \A c \in Calls : call[c].pc = "queued" ~> call[c].pc = "done"
=============================================================================
