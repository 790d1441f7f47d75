----------------------------- MODULE UndoLedger -----------------------------
(***************************************************************************)
(* The undo of a creation: one undo_records row, which may be used once,   *)
(* and the operation that deletes the created entities one by one          *)
(* (services/undo-service.ts, services/confirmation-service.ts             *)
(* executeUndoCommit, harness/undo.ts, db/store/undo.ts, db/store.ts       *)
(* startUndoOperation and recoverOrphanedRuns).                            *)
(*                                                                         *)
(* The row belongs to an admin of a workspace, so every session of that    *)
(* admin may use it.  The requests of one session are serialised, those of *)
(* two sessions are not.  A step is a transaction or the answer of an      *)
(* await.  What the workspace's lifecycle does to a write is in            *)
(* WorkspaceLifecycle; here it refuses the request or one dispatch.        *)
(***************************************************************************)
EXTENDS Integers

CONSTANTS N,          \* entities the action created, numbered in that order
          Archivable, \* projects, clients, tasks: archived or done before the delete
          Sessions,   \* sessions of the admin
          Home,       \* the one the record was made in
          MaxCrashes, \* bound: crashes
          MaxFaults   \* bound: failures of the store

ASSUME UndoAssumption ==
    /\ N \in Nat \ {0} /\ Archivable \subseteq 1..N /\ Home \in Sessions
    /\ {MaxCrashes, MaxFaults} \subseteq Nat

VARIABLES
    record,  \* the undo_records row
    op,      \* the operation of each session's request: operation_runs, operation_steps
    req,     \* the requests
    up,
    wire,    \* steps whose request is on its way
    applied, \* steps that took effect in Clockify
    sent,    \* history: how often each step's request was sent
    crashes, faults

db == <<record, op>>
host == <<wire, applied>>
vars == <<db, req, up, host, sent, crashes, faults>>

Refs == 1..N

\* undoPlanSteps: the last created goes first, archived before it is deleted.
Step(ref, operation) == [ref |-> ref, operation |-> operation]
Steps == {Step(ref, "delete") : ref \in Refs} \cup {Step(ref, "transition") : ref \in Archivable}
FirstOf(ref) == Step(ref, IF ref \in Archivable THEN "transition" ELSE "delete")
First == FirstOf(N)
Last == Step(1, "delete")
After(i) == IF i.operation = "transition" THEN Step(i.ref, "delete") ELSE FirstOf(i.ref - 1)
Before(i) == {j \in Steps : \/ j.ref > i.ref
                            \/ j.ref = i.ref /\ j.operation = "transition" /\ i.operation = "delete"}

Deleted(steps) == {i.ref : i \in {j \in steps : j.operation = "delete"}}

Final == {"undone", "partially_undone", "failed", "outcome_unknown"}
Kinds == {"succeeded", "partial", "definitive_failed", "outcome_unknown"}
Verdicts == {"succeeded", "definitive_failed", "outcome_unknown"}

NoOperation == [status |-> "none", steps |-> [i \in Steps |-> "none"], dispatched |-> {}]
Idle == [pc |-> "idle", at |-> First, known |-> {}, verdict |-> "none", degraded |-> FALSE]

Records == [status : Final \cup {"available", "executing", "expired", "gone"},
            remaining : SUBSET Refs, due : BOOLEAN]
Operations == [status : Kinds \cup {"none", "executing"},
               steps : [Steps -> Verdicts \cup {"none", "executing"}], dispatched : SUBSET Steps]
Requests == [pc : {"idle", "checking", "step", "ready", "sent", "settling"}, at : Steps,
             known : SUBSET Steps, degraded : BOOLEAN,
             verdict : Verdicts \cup {"none", "denied", "unprepared"}]

TypeOK ==
    /\ record \in Records
    /\ op \in [Sessions -> Operations]
    /\ req \in [Sessions -> Requests]
    /\ up \in BOOLEAN
    /\ wire \subseteq Steps /\ applied \subseteq Steps
    /\ sent \in [Steps -> Nat]
    /\ crashes \in 0..MaxCrashes /\ faults \in 0..MaxFaults

\* recordUndoable, after a confirmed creation.
Init ==
    /\ record = [status |-> "available", remaining |-> Refs, due |-> FALSE]
    /\ op = [s \in Sessions |-> NoOperation]
    /\ req = [s \in Sessions |-> Idle]
    /\ up = TRUE
    /\ wire = {} /\ applied = {}
    /\ sent = [i \in Steps |-> 0]
    /\ crashes = 0 /\ faults = 0

Goto(s, pc) == req' = [req EXCEPT ![s].pc = pc]
Answered(s) == req' = [req EXCEPT ![s] = Idle]
Quiet == UNCHANGED <<up, host, sent, crashes, faults>>
-----------------------------------------------------------------------------
(* The request.                                                            *)

Usable == record.status = "available" /\ ~record.due
Expired == [record EXCEPT !.status = "expired", !.remaining = {}]

\* The record is read, then the authority to write is asked of Clockify.
Begin(s) ==
    /\ up /\ req[s].pc = "idle" /\ Usable
    /\ Goto(s, "checking")
    /\ UNCHANGED db /\ Quiet

\* getUndoRecord expires the row it finds overdue.
BeginExpired ==
    /\ up /\ record.status = "available" /\ record.due
    /\ record' = Expired
    /\ UNCHANGED <<op, req>> /\ Quiet

\* Refused: policy, installation, role, lease, cancelled.
Refuse(s) ==
    /\ req[s].pc = "checking"
    /\ Answered(s) /\ UNCHANGED db /\ Quiet

\* Mutant: the status that was read before the await is trusted.
MutStart(s) ==
    /\ req[s].pc = "checking"
    /\ record' = [record EXCEPT !.status = "executing"]
    /\ op' = [op EXCEPT ![s].status = "executing"]
    /\ Goto(s, "step") /\ Quiet

\* startUndoOperation: the record is claimed and the operation begun, or neither.
Start(s) ==
    /\ req[s].pc = "checking"
    /\ Usable
    /\ record' = [record EXCEPT !.status = "executing"]
    /\ op' = [op EXCEPT ![s].status = "executing"]
    /\ Goto(s, "step") /\ Quiet

StartLost(s) ==
    /\ req[s].pc = "checking" /\ ~Usable
    /\ Answered(s) /\ UNCHANGED db /\ Quiet

End(s, verdict) == req' = [req EXCEPT ![s].pc = "settling", ![s].verdict = verdict]

\* reverseCreationDurably looks at the policy again.
PolicyDenies(s) ==
    /\ req[s].pc = "step" /\ req[s].at = First
    /\ End(s, "denied") /\ UNCHANGED db /\ Quiet

\* The read that prepares an archive fails: no step is begun.
Unprepared(s) ==
    /\ req[s].pc = "step" /\ req[s].at.operation = "transition"
    /\ End(s, "unprepared") /\ UNCHANGED db /\ Quiet

\* executeStep: prepared and executing.
BeginStep(s) ==
    /\ req[s].pc = "step"
    /\ op' = [op EXCEPT ![s].steps[req[s].at] = "executing"]
    /\ Goto(s, "ready")
    /\ UNCHANGED record /\ Quiet

\* The dispatch is denied or cancelled before the journal is marked.
NotDispatched(s) ==
    /\ req[s].pc = "ready"
    /\ op' = [op EXCEPT ![s].steps[req[s].at] = "definitive_failed"]
    /\ End(s, "definitive_failed")
    /\ UNCHANGED record /\ Quiet

\* markUndoStepDispatched, then the request.
Dispatch(s) ==
    /\ req[s].pc = "ready"
    /\ op' = [op EXCEPT ![s].dispatched = @ \cup {req[s].at}]
    /\ wire' = wire \cup {req[s].at}
    /\ sent' = [sent EXCEPT ![req[s].at] = @ + 1]
    /\ Goto(s, "sent")
    /\ UNCHANGED <<record, up, applied, crashes, faults>>

\* What an answer may say: an acceptance and a rejection are true, and when there is
\* none the outcome is unknown.
Verdict(i, v) ==
    CASE v = "succeeded" -> i \in applied
      [] v = "definitive_failed" -> i \notin wire \cup applied
      [] OTHER -> TRUE

\* The step is settled, stored or not; the loop goes on after a success that was stored.
Settled(s, v, stored) ==
    LET i == req[s].at
        known == IF v = "succeeded" THEN req[s].known \cup {i} ELSE req[s].known
    IN  req' = [req EXCEPT ![s] =
                  IF v = "succeeded" /\ stored /\ i # Last
                  THEN [@ EXCEPT !.pc = "step", !.at = After(i), !.known = known]
                  ELSE [@ EXCEPT !.pc = "settling", !.known = known, !.verdict = v, !.degraded = ~stored]]

Answer(s, v) ==
    /\ req[s].pc = "sent" /\ Verdict(req[s].at, v)
    /\ op' = [op EXCEPT ![s].steps[req[s].at] = v]
    /\ Settled(s, v, TRUE)
    /\ UNCHANGED record /\ Quiet

\* settleOperationStep throws; the degraded settlement stores the verdict, or fails too.
AnswerDegraded(s, v) ==
    /\ req[s].pc = "sent" /\ Verdict(req[s].at, v)
    /\ faults < MaxFaults /\ faults' = faults + 1
    /\ \/ op' = [op EXCEPT ![s].steps[req[s].at] = v]
       \/ UNCHANGED op
    /\ Settled(s, v, FALSE)
    /\ UNCHANGED <<record, up, host, sent, crashes>>

RemainingAfter(s) == Refs \ Deleted(req[s].known)

\* The status the reversal ends with.
Status(s) ==
    CASE req[s].verdict = "outcome_unknown" -> "outcome_unknown"
      [] req[s].verdict \in {"denied", "unprepared", "definitive_failed"} ->
            IF req[s].known = {} THEN "failed" ELSE "partially_undone"
      [] OTHER -> IF req[s].degraded /\ RemainingAfter(s) # {} THEN "partially_undone" ELSE "undone"

\* Mutant: the operation is given the record's status.
MutKind(status) == status

Kind(status) ==
    CASE status = "partially_undone" -> "partial"
      [] status = "undone" -> "succeeded"
      [] status = "outcome_unknown" -> "outcome_unknown"
      [] OTHER -> "definitive_failed"

\* settleUndoOperation settles both rows or none.  It joins them by session: what was
\* undone from another session it does not find.
Settle(s) ==
    /\ req[s].pc = "settling"
    /\ s = Home /\ record.status = "executing" /\ op[s].status = "executing"
    /\ record' = [record EXCEPT !.status = Status(s), !.remaining = RemainingAfter(s)]
    /\ op' = [op EXCEPT ![s].status = Kind(Status(s))]
    /\ Answered(s) /\ Quiet

\* Both attempts throw; the receipt is returned all the same.
SettleFails(s) ==
    /\ req[s].pc = "settling"
    /\ IF s = Home /\ record.status = "executing" /\ op[s].status = "executing"
       THEN faults < MaxFaults /\ faults' = faults + 1 ELSE UNCHANGED faults
    /\ Answered(s)
    /\ UNCHANGED <<db, up, host, sent, crashes>>

\* The journal throws outside a dispatch: the request ends with an error.
RequestDies(s) ==
    /\ req[s].pc \in {"checking", "step", "ready"}
    /\ faults < MaxFaults /\ faults' = faults + 1
    /\ Answered(s)
    /\ UNCHANGED <<db, up, host, sent, crashes>>
-----------------------------------------------------------------------------
(* Clockify, the clock, retention, crashes.                                *)

HostDecides(i) ==
    /\ i \in wire /\ wire' = wire \ {i}
    /\ applied' \in {applied, applied \cup {i}}
    /\ UNCHANGED <<db, req, up, sent, crashes, faults>>

\* The half hour passes.
Due ==
    /\ Usable
    /\ record' = [record EXCEPT !.due = TRUE]
    /\ UNCHANGED <<op, req>> /\ Quiet

\* pruneExpired: an overdue record is closed; a record of last month is deleted.
Prune ==
    /\ up
    /\ \/ record.status = "available" /\ record.due /\ record' = Expired
       \/ /\ record.status \in Final \cup {"executing", "expired"}
          /\ \A s \in Sessions : req[s] = Idle
          /\ record' = [record EXCEPT !.status = "gone"]
    /\ UNCHANGED <<op, req>> /\ Quiet

Crash ==
    /\ up /\ crashes < MaxCrashes
    /\ crashes' = crashes + 1
    /\ up' = FALSE
    /\ req' = [s \in Sessions |-> Idle]
    /\ UNCHANGED <<db, host, sent, faults>>

\* Mutant: only the step that was interrupted counts as dispatched.
MutWasDispatched(s) == \E i \in op[s].dispatched : op[s].steps[i] = "executing"

WasDispatched(s) == op[s].dispatched # {}

RecoveredStep(s, i) ==
    IF op[s].steps[i] # "executing" THEN op[s].steps[i]
    ELSE IF i \in op[s].dispatched THEN "outcome_unknown" ELSE "definitive_failed"

\* recoverOrphanedRuns: the record and its operation as a pair when they are of one
\* session, otherwise one by one, the record then as unknown.
Restart ==
    /\ ~up /\ up' = TRUE
    /\ op' = [s \in Sessions |->
                [op[s] EXCEPT !.steps = [i \in Steps |-> RecoveredStep(s, i)],
                              !.status = IF @ # "executing" THEN @
                                         ELSE IF WasDispatched(s) THEN "outcome_unknown" ELSE "definitive_failed"]]
    /\ record' = [record EXCEPT !.status =
                    IF @ # "executing" THEN @
                    ELSE IF op[Home].status = "executing" /\ ~WasDispatched(Home) THEN "failed"
                    ELSE "outcome_unknown"]
    /\ UNCHANGED <<req, host, sent, crashes, faults>>
-----------------------------------------------------------------------------
Request(s) ==
    \/ Begin(s) \/ Refuse(s) \/ Start(s) \/ StartLost(s) \/ PolicyDenies(s)
    \/ Unprepared(s) \/ BeginStep(s) \/ NotDispatched(s) \/ Dispatch(s)
    \/ \E v \in Verdicts : Answer(s, v) \/ AnswerDegraded(s, v)
    \/ Settle(s) \/ SettleFails(s) \/ RequestDies(s)

Next ==
    \/ \E s \in Sessions : Request(s)
    \/ BeginExpired \/ Due \/ Prune
    \/ \E i \in Steps : HostDecides(i)
    \/ Crash \/ Restart

Spec == Init /\ [][Next]_vars
-----------------------------------------------------------------------------
(* What the record says of the reversal is true, also after a crash, a     *)
(* degraded journal or an answer that never came: "undone" means all of it *)
(* is gone, "failed" that nothing was touched or still can be, "partially_ *)
(* undone" that something was and that remaining lists exactly what is     *)
(* left; whatever the status, remaining forgets nothing that still exists. *)
UndoIsTruthful ==
    LET left == Refs \ Deleted(applied)
    IN  /\ record.status = "undone" => left = {}
        /\ record.status = "failed" => applied \cup wire = {}
        /\ record.status = "partially_undone" => applied # {} /\ wire = {} /\ record.remaining = left
        /\ record.status \in Final => left \subseteq record.remaining
        /\ \A s \in Sessions : op[s].status = "definitive_failed" => op[s].dispatched \cap applied = {}

(* One use: over both sessions, expiry, crashes and lost settlements, no   *)
(* deletion is sent twice, and each only after all that depends on the     *)
(* entity is gone (harness/undo.ts, 10-21).                                *)
ReversedOnce ==
    \A i \in Steps : sent[i] > 0 => sent[i] = 1 /\ Before(i) \subseteq applied
=============================================================================
