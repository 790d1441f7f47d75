---------------------------- MODULE CommitClaims ----------------------------
(***************************************************************************)
(* The idempotency ledger: several previews of ONE intent, confirmed from  *)
(* several sessions, and the claim that keeps them from being committed    *)
(* twice (harness/actions.ts, commitViaAtomicLedger; db/store/             *)
(* idempotency.ts; services/confirmation-service.ts, confirmSingle and     *)
(* dispatchConfirmedPreview; db/store/confirmations.ts).                   *)
(*                                                                         *)
(* The ledger row belongs to a workspace, an admin and an intent, the FIFO *)
(* of the requests to a session: two sessions run side by side at every    *)
(* await.  Every statement names the row by its key, so one row is         *)
(* modelled.  What the commit does at Clockify is the subject of           *)
(* MutationJournal and CompositeCommits.  The keyed commits are the        *)
(* creation of an invoice and the setups of a project and of a task; a     *)
(* read that throws between two steps of a setup ends it as a definitive   *)
(* failure although earlier steps took effect, so a failed answer promises *)
(* nothing about Clockify here.                                            *)
(*                                                                         *)
(* Time is discrete.  A step of the model is a transaction or an await.    *)
(***************************************************************************)
EXTENDS Integers, FiniteSets, TLC

CONSTANTS Confs,       \* confirmations of the intent, one per session
          Beat,        \* CLAIM_HEARTBEAT_MS, 90 s
          TTL,         \* CLAIM_TTL_MS, 5 min
          Window,      \* IDEMPOTENCY_WINDOW_MS, 10 min
          Retention,   \* IDEMPOTENCY_RETENTION_MS, 60 min
          MaxMissed,   \* assumed: heartbeats of one commit that fail in a row
          MaxTime,     \* bound: time
          MaxCrashes,  \* bound: crashes
          None

\* The first conjunct of the last line is what the ledger rests on: a live
\* claim is touched more often than the window sweeps it.
ASSUME ClaimAssumption ==
    /\ {Beat, TTL, Window, Retention} \subseteq Nat \ {0}
    /\ {MaxMissed, MaxTime, MaxCrashes} \subseteq Nat
    /\ None \notin Confs
    /\ Beat < TTL /\ TTL < Window /\ Window <= Retention
    /\ Beat * (MaxMissed + 1) <= Window

VARIABLES
    now, crashes,
    up,       \* the process runs
    status,   \* pending_confirmations.status
    result,   \* kind of the confirmation's action_results row
    bound,    \* pending_confirmations.idempotency_key is set
    row,      \* the idempotency_keys row: state, whose result, claimed_at or committed_at
    pc, out,  \* where the confirm request is, and its answer
    beat,     \* when the heartbeat of the commit is due
    missed,   \* heartbeats missed in a row
    owner,    \* history: who inserted the ledger row
    effects,  \* history: when the commit sent the requests that change Clockify
    failed,   \* history: the commits that returned a definitive failure
    source    \* history: the commit the answer is about

rows == <<status, result, bound, row>>
memory == <<pc, out, beat, missed>>
history == <<owner, effects, failed, source>>
vars == <<now, crashes, up, rows, memory, history>>

Final == {"succeeded", "partial", "definitive_failed", "outcome_unknown"}
Status == Final \cup {"pending", "executing", "cancelled", "expired"}
Row == [state : {"absent", "open", "done"}, from : Confs \cup {None}, at : Nat]
Absent == [state |-> "absent", from |-> None, at |-> 0]

TypeOK ==
    /\ now \in Nat /\ crashes \in Nat /\ up \in BOOLEAN
    /\ status \in [Confs -> Status]
    /\ result \in [Confs -> Final \cup {"none"}]
    /\ bound \in [Confs -> BOOLEAN]
    /\ row \in Row
    /\ pc \in [Confs -> {"idle", "started", "committing", "returned"}]
    /\ out \in [Confs -> Final \cup {"none"}]
    /\ beat \in [Confs -> Nat] /\ missed \in [Confs -> Nat]
    /\ owner \in Confs \cup {None}
    /\ effects \in [Confs -> SUBSET Nat]
    /\ failed \subseteq Confs
    /\ source \in [Confs -> Confs]

Init ==
    /\ now = 0 /\ crashes = 0 /\ up = TRUE
    /\ status = [c \in Confs |-> "pending"]
    /\ result = [c \in Confs |-> "none"]
    /\ bound = [c \in Confs |-> FALSE]
    /\ row = Absent
    /\ pc = [c \in Confs |-> "idle"]
    /\ out = [c \in Confs |-> "none"]
    /\ beat = [c \in Confs |-> 0] /\ missed = [c \in Confs |-> 0]
    /\ owner = None
    /\ effects = [c \in Confs |-> {}]
    /\ failed = {}
    /\ source = [c \in Confs |-> c]
-----------------------------------------------------------------------------
(* Before the claim.                                                       *)

\* markConfirmationExecuting, after every check of confirmSingle: the preview
\* is consumed and an unknown result stored for it in one transaction.
Confirm(c) ==
    /\ up /\ status[c] = "pending" /\ pc[c] = "idle"
    /\ status' = [status EXCEPT ![c] = "executing"]
    /\ result' = [result EXCEPT ![c] = "outcome_unknown"]
    /\ pc' = [pc EXCEPT ![c] = "started"]
    /\ UNCHANGED <<now, crashes, up, bound, row, out, beat, missed, history>>

\* cancelConfirmation, expireConfirmation.  The triggers of the schema store
\* the failed result.
Close(c, s) ==
    /\ up /\ status[c] = "pending" /\ s \in {"cancelled", "expired"}
    /\ status' = [status EXCEPT ![c] = s]
    /\ result' = [result EXCEPT ![c] = "definitive_failed"]
    /\ UNCHANGED <<now, crashes, up, bound, row, memory, history>>

\* Mutant: the verdict of the claim is passed on in place of an outcome.
MutAnswer(c, o) ==
    /\ pc' = [pc EXCEPT ![c] = "returned"]
    /\ out' = [out EXCEPT ![c] = row.state]

\* The outcome kind commitConfirmedOperation gives its caller.
Answer(c, o) ==
    /\ pc' = [pc EXCEPT ![c] = "returned"]
    /\ out' = [out EXCEPT ![c] = o]

\* commitConfirmedOperation refuses before the claim (unknown action, plan,
\* authority, policy), or the claim itself throws and left no row.
Refuse(c) ==
    /\ up /\ pc[c] = "started"
    /\ Answer(c, "definitive_failed")
    /\ UNCHANGED <<now, crashes, up, rows, beat, missed, history>>
-----------------------------------------------------------------------------
(* The claim: one transaction.                                             *)

\* Mutant: the sweep of open claims uses the time to live.
MutSwept == \/ row.state = "done" /\ row.at < now - Window
            \/ row.state = "open" /\ row.at < now - TTL

\* The DELETE of claimIdempotency: what is older than the window is forgotten.
Swept == \/ row.state = "done" /\ row.at < now - Window
         \/ row.state = "open" /\ row.at < now - Window

Free == row.state = "absent" \/ Swept

\* "won", and the key is bound to the confirmation in the transaction after it.
ClaimWon(c) ==
    /\ up /\ pc[c] = "started" /\ Free
    /\ row' = [state |-> "open", from |-> None, at |-> now]
    /\ owner' = c
    /\ bound' = [bound EXCEPT ![c] = TRUE]
    /\ pc' = [pc EXCEPT ![c] = "committing"]
    /\ beat' = [beat EXCEPT ![c] = now + Beat]
    /\ missed' = [missed EXCEPT ![c] = 0]
    /\ UNCHANGED <<now, crashes, up, status, result, out, effects, failed, source>>

\* The key cannot be bound and releasing the row fails too: commit_unavailable,
\* and an open row that nobody holds.
ClaimUnbound(c) ==
    /\ up /\ pc[c] = "started" /\ Free
    /\ row' = [state |-> "open", from |-> None, at |-> now]
    /\ owner' = None
    /\ Answer(c, "definitive_failed")
    /\ UNCHANGED <<now, crashes, up, status, result, bound, beat, missed, effects, failed,
                   source>>

\* "replay": the answer of the earlier commit is returned again.
ClaimReplays(c) ==
    /\ up /\ pc[c] = "started" /\ ~Free
    /\ row.state = "done" /\ result[row.from] # "outcome_unknown"
    /\ Answer(c, result[row.from])
    /\ source' = [source EXCEPT ![c] = row.from]
    /\ UNCHANGED <<now, crashes, up, rows, beat, missed, owner, effects, failed>>

\* "stale_unknown": the earlier commit may or may not have gone through.
ClaimUnknown(c) ==
    /\ up /\ pc[c] = "started" /\ ~Free
    /\ \/ row.state = "done" /\ result[row.from] = "outcome_unknown"
       \/ row.state = "open" /\ row.at < now - TTL
    /\ Answer(c, "outcome_unknown")
    /\ UNCHANGED <<now, crashes, up, rows, beat, missed, history>>

\* "in_flight", or a replay whose result cannot be read: commit_in_progress, a
\* failure of this confirmation only.
ClaimInFlight(c) ==
    /\ up /\ pc[c] = "started" /\ ~Free
    /\ \/ row.state = "open" /\ row.at >= now - TTL
       \/ row.state = "done" /\ result[row.from] # "outcome_unknown"
    /\ Answer(c, "definitive_failed")
    /\ UNCHANGED <<now, crashes, up, rows, beat, missed, history>>
-----------------------------------------------------------------------------
(* The commit.                                                             *)

\* Mutant: the heartbeat does not touch the claim.
MutTouched == row

\* touchIdempotencyClaim: the open row of the key, whoever's it is.
Touched == IF row.state = "open" THEN [row EXCEPT !.at = now] ELSE row

Heartbeat(c) ==
    /\ up /\ pc[c] = "committing" /\ now >= beat[c]
    /\ row' = Touched
    /\ beat' = [beat EXCEPT ![c] = now + Beat]
    /\ missed' = [missed EXCEPT ![c] = 0]
    /\ UNCHANGED <<now, crashes, up, status, result, bound, pc, out, history>>

\* The touch throws (SQLITE_BUSY): best effort.
HeartbeatFails(c) ==
    /\ up /\ pc[c] = "committing" /\ now >= beat[c] /\ missed[c] < MaxMissed
    /\ beat' = [beat EXCEPT ![c] = now + Beat]
    /\ missed' = [missed EXCEPT ![c] = @ + 1]
    /\ UNCHANGED <<now, crashes, up, rows, pc, out, history>>

\* A host call of the commit takes effect.
Effect(c) ==
    /\ up /\ pc[c] = "committing" /\ now \notin effects[c]
    /\ effects' = [effects EXCEPT ![c] = @ \cup {now}]
    /\ UNCHANGED <<now, crashes, up, rows, memory, owner, failed, source>>

\* What a commit may return: a success or a partial result after a change (each
\* keyed commit creates something), a failure or an unknown outcome at any point.
Truthful(c, o) == o \in {"succeeded", "partial"} => effects[c] # {}

\* releaseConfirmationIdempotencyKey: the open row goes, and with it the right
\* of this confirmation to touch the row again.
Released(c) ==
    IF bound[c]
    THEN /\ row' = IF row.state = "open" THEN Absent ELSE row
         /\ bound' = [bound EXCEPT ![c] = FALSE]
    ELSE UNCHANGED <<row, bound>>

\* The commit ends and its heartbeat with it.  A definitive failure releases
\* the claim, unless that throws; the production ledger fills nothing here.
Return(c, o) ==
    /\ up /\ pc[c] = "committing" /\ Truthful(c, o)
    /\ Answer(c, o)
    /\ failed' = IF o = "definitive_failed" THEN failed \cup {c} ELSE failed
    /\ \/ o = "definitive_failed" /\ Released(c)
       \/ UNCHANGED <<row, bound>>
    /\ beat' = [beat EXCEPT ![c] = 0] /\ missed' = [missed EXCEPT ![c] = 0]
    /\ UNCHANGED <<now, crashes, up, status, result, owner, effects, source>>
-----------------------------------------------------------------------------
(* Settlement.                                                             *)

\* settleConfirmation, one transaction: the result, the status, and the bound
\* claim, deleted after a failure and filled otherwise.  A bound claim that
\* is gone makes it throw.
Settle(c) ==
    /\ up /\ pc[c] = "returned" /\ status[c] = "executing"
    /\ bound[c] /\ out[c] # "definitive_failed" => row.state = "open"
    /\ status' = [status EXCEPT ![c] = out[c]]
    /\ result' = [result EXCEPT ![c] = out[c]]
    /\ bound' = [bound EXCEPT ![c] = FALSE]
    /\ row' = IF ~bound[c] \/ row.state # "open" THEN row
              ELSE IF out[c] = "definitive_failed" THEN Absent
              ELSE [state |-> "done", from |-> c, at |-> now]
    /\ pc' = [pc EXCEPT ![c] = "idle"] /\ out' = [out EXCEPT ![c] = "none"]
    /\ UNCHANGED <<now, crashes, up, beat, missed, history>>

\* Both attempts fail: the change keeps its receipt, the rows stay as they are.
SettleFails(c) ==
    /\ up /\ pc[c] = "returned"
    /\ pc' = [pc EXCEPT ![c] = "idle"] /\ out' = [out EXCEPT ![c] = "none"]
    /\ UNCHANGED <<now, crashes, up, rows, beat, missed, history>>
-----------------------------------------------------------------------------
(* Time, retention, crashes.                                               *)

\* The retention pass.
Prune ==
    /\ up /\ row.state # "absent" /\ row.at < now - Retention
    /\ row' = Absent
    /\ UNCHANGED <<now, crashes, up, status, result, bound, memory, history>>

\* A timer that is due runs before time goes on, and no await lies between the
\* end of the commit and its settlement.
Tick ==
    /\ now < MaxTime
    /\ \A c \in Confs : pc[c] # "returned" /\ (pc[c] = "committing" => now < beat[c])
    /\ now' = now + 1
    /\ UNCHANGED <<crashes, up, rows, memory, history>>

Crash ==
    /\ up /\ crashes < MaxCrashes
    /\ up' = FALSE /\ crashes' = crashes + 1
    /\ pc' = [c \in Confs |-> "idle"] /\ out' = [c \in Confs |-> "none"]
    /\ beat' = [c \in Confs |-> 0] /\ missed' = [c \in Confs |-> 0]
    /\ UNCHANGED <<now, rows, history>>

Stranded == {c \in Confs : status[c] = "executing"}

\* Mutant: recovery takes a commit that reported nothing for one that did nothing.
MutRecovered(c) == "definitive_failed"

\* recoverInterruptedExecutions: an interrupted confirmation takes the kind of
\* the result it has, the one stored when it was consumed.
Recovered(c) == result[c]

\* One transaction.  A claim bound to a stranded confirmation is filled with
\* its result (by the first one that finds it open).
Restart ==
    /\ ~up
    /\ up' = TRUE
    /\ status' = [c \in Confs |-> IF c \in Stranded THEN Recovered(c) ELSE status[c]]
    /\ LET Holders == {c \in Stranded : bound[c]}
       IN  \/ /\ row.state = "open"
              /\ \E c \in Holders : row' = [state |-> "done", from |-> c, at |-> now]
           \/ /\ row.state # "open" \/ Holders = {}
              /\ row' = row
    /\ bound' = [c \in Confs |-> bound[c] /\ c \notin Stranded]
    /\ UNCHANGED <<now, crashes, result, memory, history>>

\* The intent is over: every confirmation is used and every request answered.
Done ==
    /\ up /\ now = MaxTime
    /\ \A c \in Confs : pc[c] = "idle" /\ status[c] # "pending"
    /\ UNCHANGED vars

Next ==
    \/ \E c \in Confs :
          \/ Confirm(c) \/ Refuse(c)
          \/ \E s \in {"cancelled", "expired"} : Close(c, s)
          \/ ClaimWon(c) \/ ClaimUnbound(c)
          \/ ClaimReplays(c) \/ ClaimUnknown(c) \/ ClaimInFlight(c)
          \/ Heartbeat(c) \/ HeartbeatFails(c) \/ Effect(c)
          \/ \E o \in Final : Return(c, o)
          \/ Settle(c) \/ SettleFails(c)
    \/ Prune \/ Tick \/ Crash \/ Restart \/ Done

Spec == Init /\ [][Next]_vars
-----------------------------------------------------------------------------
(* Properties.                                                             *)

\* A commit that runs, or has returned and not failed, holds the ledger row:
\* no sweep, prune, failure or settlement of another session takes it away, and
\* idempotency_claim_not_owned is never thrown after a change was applied.
ClaimIsKept ==
    \A c \in Confs :
        \/ pc[c] = "committing"
        \/ pc[c] = "returned" /\ bound[c]
        => row.state = "open" /\ owner = c

\* After a change the intent is not committed again until at least the window
\* after the last sign of life of the commit that made it, whatever crashed, was
\* missed or could not be stored in between; only a commit that returned a
\* definitive failure makes room at once, its earlier steps done or not, because
\* commitViaAtomicLedger releases the claim on every failed receipt.
Apart(s, t) == t > s + Window - Beat * (MaxMissed + 1)
EffectsAreApart ==
    \A c, d \in Confs : c # d =>
        \A s \in effects[c], t \in effects[d] : s <= t =>
            Apart(s, t) \/ c \in failed \/ (s = t /\ d \in failed)

\* What a confirmation ends as is what the commit it reports returned, its own or
\* the one it replays: a success or a partial result changed Clockify, and a
\* change is stored as a failure only if its own commit called it one; neither
\* the claim, a replay, the settlement nor recovery makes it up.
AnswersAreTruthful ==
    \A c \in Confs :
        /\ status[c] \in {"succeeded", "partial"} => effects[source[c]] # {}
        /\ status[c] = "definitive_failed" => effects[c] = {} \/ c \in failed

Symmetry == Permutations(Confs)
=============================================================================
