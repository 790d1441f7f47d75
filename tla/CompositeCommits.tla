-------------------------- MODULE CompositeCommits --------------------------
(***************************************************************************)
(* The commits that create something in Clockify and then go on changing   *)
(* it: setup of a project, of a task and of a user, the work package, the  *)
(* client and the invoice, and the invoice update, which has no create     *)
(* (harness/workflows and harness/invoice-*-workflow.ts).  MutationJournal *)
(* has the rows of such a plan for a workflow that may do anything; here   *)
(* are the workflows, and how they find out what an unanswered request did.*)
(*                                                                         *)
(* They read Clockify back, and other users write there too.  Someone may  *)
(* make the same thing at the same time, a twin; a reader can tell a twin  *)
(* from one's own creation only when the twin was on the list that was     *)
(* taken before (beforeIds).                                               *)
(*                                                                         *)
(* Lost settlements and cancelled requests are left to MutationJournal.    *)
(***************************************************************************)
EXTENDS Integers

CONSTANTS
    MaxSteps,     \* bound: primary steps of a plan
    MaxTwins,     \* bound: twins other users make
    MaxFaults,    \* bound: step settlements that are stored degraded
    MaxCrashes    \* bound: process deaths

ASSUME CompositeAssumption ==
    /\ MaxSteps \in Nat \ {0}
    /\ {MaxTwins, MaxFaults, MaxCrashes} \subseteq Nat

Receipts == {"none", "ok", "partial", "write_failed", "execution_error", "commit_outcome_unknown"}
Ends == {"none", "succeeded", "inferred", "definitive_failed", "outcome_unknown"}
Rows == {"none", "executing", "succeeded", "definitive_failed", "outcome_unknown"}
OpStatus == {"executing", "succeeded", "partial", "definitive_failed", "outcome_unknown"}
Hosts == {"idle", "inflight", "applied", "refused"}
Whose == {"none", "own", "twin"}
PC == {"gate", "closure", "sent", "ambiguous", "settle", "judge", "return", "idle", "down", "boot"}

VARIABLES
    job,       \* the workflow that commits, see below
    cur, pc,   \* the step it is at, and where in it
    end,       \* how the dispatch of that step ended
    degraded,  \* whether its record was stored in the degraded form
    receipt,   \* what the commit returned
    row,       \* operation_steps.status by plan index
    op,        \* operation_runs.status
    looked,    \* operation_runs.reconciled_at IS NOT NULL
    listed,    \* the steps whose twin is among the stored beforeIds
    host,      \* Clockify: what became of the request of each step
    twins,     \* Clockify: the steps that someone else did, too
    made,      \* whose entity or state a succeeded step reported
    hit,       \* whose entity the request of a step was addressed to
    others, faults, crashes

memory == <<cur, pc, end, degraded, receipt>>
stored == <<row, op, looked, listed>>
clockify == <<host, twins, made, hit>>
bounds == <<others, faults, crashes>>
vars == <<job, memory, stored, clockify, bounds>>
-----------------------------------------------------------------------------
(* The workflows.  Of a plan of n steps:                                   *)
(*   creates    the steps that create; the others change what step 1 made  *)
(*   baseline   what the list before a create is compared with: nothing    *)
(*              ("fresh"), the wanted name ("absent"), the list of the     *)
(*              preview ("preview"; "closure": not until the dispatch)     *)
(*   unguarded  the steps whose closure reads without catching a failure   *)
(*   leaves     what is returned when a check before a step fails          *)
(*   infers     the steps that are read back after an ambiguous answer     *)
(*   startup    the steps the startup pass can read back                   *)
(*   stops      whether it stops after a step that was only inferred       *)
(*   softens    whether an unknown later step is reported as partial       *)
(*   heeds      whether it stops after a degraded record, and if so        *)
(*              whether the only step of a plan counts as done             *)
(*   confirmed  whether the operation has a stored result from its claim   *)
(*   escapes    whether the exception of a read between two steps leaves   *)
(*              the request: a risky commit and a safe write made at once  *)
(*              have a catch around them, a confirmed safe write has none  *)
(*   records    whether a failed read back is recorded as reconciliation   *)

\* Mutant: the members and rates go to the project that was found.
MutSetupProject(n) ==
    [creates |-> {1}, baseline |-> "fresh", unguarded |-> {},
     leaves |-> [k \in 1 .. n |-> IF k = 1 THEN {"write_failed", "execution_error"}
                                  ELSE {"partial", "execution_error"}],
     infers |-> 1 .. n, startup |-> 1 .. n, stops |-> FALSE, softens |-> TRUE,
     heeds |-> "no", confirmed |-> TRUE, escapes |-> FALSE, records |-> FALSE, n |-> n]

\* Create, then members, then one step per member rate.
SetupProject(n) ==
    [creates |-> {1}, baseline |-> "fresh", unguarded |-> {},
     leaves |-> [k \in 1 .. n |-> IF k = 1 THEN {"write_failed", "execution_error"}
                                  ELSE {"partial", "execution_error"}],
     infers |-> 1 .. n, startup |-> 1 .. n, stops |-> TRUE, softens |-> TRUE,
     heeds |-> "no", confirmed |-> TRUE, escapes |-> FALSE, records |-> FALSE, n |-> n]

\* Create, then perhaps one rate, whose closure first reads the task.
SetupTask(n) ==
    [creates |-> {1}, baseline |-> "fresh", unguarded |-> {2},
     leaves |-> [k \in 1 .. n |-> IF k = 1 THEN {"write_failed", "execution_error"}
                                  ELSE {"partial"}],
     infers |-> 1 .. n, startup |-> 1 .. n, stops |-> TRUE, softens |-> TRUE,
     heeds |-> "no", confirmed |-> TRUE, escapes |-> FALSE, records |-> FALSE, n |-> n]

\* Invite, then one step per group; the user list must be the preview's.
OnboardUser(n) ==
    [creates |-> {1}, baseline |-> "preview", unguarded |-> {},
     leaves |-> [k \in 1 .. n |-> IF k = 1 THEN {"write_failed", "execution_error"}
                                  ELSE {"partial", "execution_error"}],
     infers |-> 1 .. n, startup |-> 1 .. n, stops |-> TRUE, softens |-> TRUE,
     heeds |-> "no", confirmed |-> TRUE, escapes |-> FALSE, records |-> FALSE, n |-> n]

\* Tag, client, project and task, as far as they do not exist (the timer, which
\* has no list, is left out); an inferred create is as good as an answered one.  A
\* safe write: v2 says whether it was confirmed in a v2 run, or made at once.
WorkPackage(n, v2) ==
    [creates |-> 1 .. n, baseline |-> "absent", unguarded |-> {},
     leaves |-> [k \in 1 .. n |-> IF k = 1 THEN {"write_failed", "execution_error"}
                                  ELSE {"partial", "execution_error"}],
     infers |-> 1 .. n, startup |-> 1 .. n, stops |-> FALSE, softens |-> TRUE,
     heeds |-> "no", confirmed |-> v2, escapes |-> v2, records |-> FALSE, n |-> n]

\* Create, then perhaps the billing fields: a safe write.  A create that will be
\* changed is not read back, neither now nor at a start.
ClientCreate(n, v2) ==
    [creates |-> {1}, baseline |-> "closure", unguarded |-> {1},
     leaves |-> [k \in 1 .. n |-> IF k = 1 THEN {} ELSE {"execution_error"}],
     infers |-> {n}, startup |-> {n}, stops |-> FALSE, softens |-> FALSE,
     heeds |-> "always", confirmed |-> v2, escapes |-> v2, records |-> FALSE, n |-> n]

\* Create, fields, items.  Only an invoice of one step is read back; the later
\* steps store no evidence a start could use.
InvoiceCreate(n) ==
    [creates |-> {1}, baseline |-> "fresh", unguarded |-> {},
     leaves |-> [k \in 1 .. n |-> CASE k = 1 -> {"write_failed"}
                                    [] k = 2 -> {"partial"}
                                    [] OTHER -> {}],
     infers |-> {1} \cap {n}, startup |-> {1} \cap {n}, stops |-> FALSE, softens |-> FALSE,
     heeds |-> "unless_alone", confirmed |-> TRUE, escapes |-> FALSE, records |-> TRUE, n |-> n]

\* Fields and status of an invoice that exists.
InvoiceUpdate(n) ==
    [creates |-> {}, baseline |-> "fresh", unguarded |-> {},
     leaves |-> [k \in 1 .. n |-> IF k = 1 THEN {"write_failed"} ELSE {}],
     infers |-> 1 .. n, startup |-> 1 .. n, stops |-> FALSE, softens |-> FALSE,
     heeds |-> "unless_alone", confirmed |-> TRUE, escapes |-> FALSE, records |-> FALSE, n |-> n]

Jobs ==
    (UNION {{SetupProject(n), OnboardUser(n), InvoiceCreate(n)} : n \in 1 .. MaxSteps})
    \cup (UNION {{SetupTask(n), InvoiceUpdate(n)} : n \in 1 .. MaxSteps \cap 1 .. 2})
    \cup {WorkPackage(n, v2) : n \in 1 .. MaxSteps, v2 \in BOOLEAN}
    \cup {ClientCreate(n, v2) : n \in 1 .. MaxSteps \cap 1 .. 2, v2 \in BOOLEAN}

Steps == 1 .. job.n
-----------------------------------------------------------------------------
TypeOK ==
    /\ job \in Jobs
    /\ cur \in Steps /\ pc \in PC /\ end \in Ends /\ degraded \in BOOLEAN /\ receipt \in Receipts
    /\ row \in [Steps -> Rows] /\ op \in OpStatus /\ looked \in BOOLEAN
    /\ listed \subseteq Steps /\ twins \subseteq Steps
    /\ host \in [Steps -> Hosts]
    /\ made \in [Steps -> Whose] /\ hit \in [Steps -> Whose]
    /\ others \in Nat /\ faults \in Nat /\ crashes \in Nat

\* The commit begins.  Only where a twin is no obstacle to the preview can there
\* be one already.
Init ==
    /\ job \in Jobs
    /\ twins \in {{}} \cup {t \in {{1}} : t \subseteq job.creates /\ job.baseline \in {"fresh", "closure"}}
    /\ listed = twins
    /\ cur = 1 /\ pc = "gate" /\ end = "none" /\ degraded = FALSE /\ receipt = "none"
    /\ row = [k \in Steps |-> "none"] /\ op = "executing" /\ looked = FALSE
    /\ host = [k \in Steps |-> "idle"]
    /\ made = [k \in Steps |-> "none"]
    /\ hit = [k \in Steps |-> "none"]
    /\ others = 0 /\ faults = 0 /\ crashes = 0
-----------------------------------------------------------------------------
(* Clockify and its other users.                                           *)

HostDecides(k) ==
    /\ host[k] = "inflight"
    /\ \E h \in {"applied", "refused"} : host' = [host EXCEPT ![k] = h]
    /\ UNCHANGED <<job, memory, stored, twins, made, hit, bounds>>

\* Someone else creates what step k creates, or makes the change it makes.
OtherUser(k) ==
    /\ k \notin twins /\ others < MaxTwins
    /\ twins' = twins \cup {k}
    /\ others' = others + 1
    /\ UNCHANGED <<job, memory, stored, host, made, hit, faults, crashes>>

\* What a complete read of Clockify offers for step k: for a create the
\* matching entities that were not listed before, for a change the one entity
\* in the wanted state, whoever brought it there.
Evidence(k) ==
    IF k \in job.creates
      THEN {w \in {"own", "twin"} : IF w = "own" THEN host[k] = "applied" ELSE k \in twins \ listed}
      ELSE {w \in {"own"} : host[k] = "applied" \/ k \in twins}

\* Whose entity the changes are made to: the one step 1 reported, or the target.
Entity == IF 1 \in job.creates THEN made[1] ELSE "own"
-----------------------------------------------------------------------------
(* One step.                                                               *)

\* A check between two steps fails, or a read throws and runCommit catches it.
Leave(r) ==
    /\ pc = "gate" /\ r \in job.leaves[cur]
    /\ ~(job.escapes /\ r = "execution_error")
    /\ receipt' = r
    /\ pc' = "return"
    /\ UNCHANGED <<job, cur, end, degraded, stored, clockify, bounds>>

\* A read throws in a confirmed safe write, and the request with it: nothing is
\* returned, and the operation stays as it is until the next start.
Escape ==
    /\ pc = "gate" /\ job.escapes /\ "execution_error" \in job.leaves[cur]
    /\ pc' = "idle"
    /\ UNCHANGED <<job, cur, end, degraded, receipt, stored, clockify, bounds>>

\* The list before a create, and what it must look like.
BaselineHolds ==
    CASE job.baseline = "absent" -> cur \notin twins
      [] job.baseline = "preview" /\ cur = 1 -> twins \cap {1} = listed \cap {1}
      [] OTHER -> TRUE

PrepareStep ==
    /\ pc = "gate" /\ BaselineHolds
    /\ listed' = IF cur \in job.creates /\ job.baseline = "fresh"
                   THEN listed \cup (twins \cap {cur}) ELSE listed
    /\ row' = [row EXCEPT ![cur] = "executing"]
    /\ pc' = "closure"
    /\ UNCHANGED <<job, cur, end, degraded, receipt, op, looked, clockify, bounds>>

\* A stale snapshot, a denial or an exhausted budget is definitive; a read that
\* throws is not.
FailBeforeDispatch(e) ==
    /\ pc = "closure"
    /\ e = "outcome_unknown" => cur \in job.unguarded
    /\ end' = e
    /\ pc' = "settle"
    /\ UNCHANGED <<job, cur, degraded, receipt, stored, clockify, bounds>>

\* The dispatch is journaled and the request leaves.
Dispatch ==
    /\ pc = "closure"
    /\ job.baseline = "closure" /\ cur = 1 => twins \cap {1} = listed \cap {1}
    /\ host' = [host EXCEPT ![cur] = "inflight"]
    /\ hit' = [hit EXCEPT ![cur] = IF cur \in job.creates THEN "none" ELSE Entity]
    /\ pc' = "sent"
    /\ UNCHANGED <<job, cur, end, degraded, receipt, stored, twins, made, bounds>>

RespondSucceeded ==
    /\ pc = "sent" /\ host[cur] = "applied"
    /\ made' = [made EXCEPT ![cur] = "own"]
    /\ end' = "succeeded" /\ pc' = "settle"
    /\ UNCHANGED <<job, cur, degraded, receipt, stored, host, twins, hit, bounds>>

RespondRejected ==
    /\ pc = "sent" /\ host[cur] = "refused"
    /\ end' = "definitive_failed" /\ pc' = "settle"
    /\ UNCHANGED <<job, cur, degraded, receipt, stored, clockify, bounds>>

\* A timeout, a 5xx, a lost connection, or a success without an id.
RespondAmbiguous ==
    /\ pc = "sent"
    /\ pc' = "ambiguous"
    /\ UNCHANGED <<job, cur, end, degraded, receipt, stored, clockify, bounds>>

\* dispatchWithReconciliation, reconcileCreate: exactly one candidate.
ReadBack ==
    /\ pc = "ambiguous" /\ cur \in job.infers
    /\ \E w \in Evidence(cur) :
          /\ Evidence(cur) = {w}
          /\ made' = [made EXCEPT ![cur] = w]
    /\ end' = "inferred" /\ pc' = "settle"
    /\ UNCHANGED <<job, cur, degraded, receipt, stored, host, twins, hit, bounds>>

\* No read back, none that finds one candidate, or one that fails.
StayAmbiguous ==
    /\ pc = "ambiguous"
    /\ end' = "outcome_unknown" /\ pc' = "settle"
    /\ UNCHANGED <<job, cur, degraded, receipt, stored, clockify, bounds>>

\* Mutant: the row says how the step was found out.
MutSettled(e) == e

Settled(e) == IF e = "inferred" THEN "succeeded" ELSE e

\* settleOperationStep, or its degraded form after a fault.
SettleStep ==
    /\ pc = "settle"
    /\ row' = [row EXCEPT ![cur] = Settled(end)]
    /\ \E d \in BOOLEAN :
          /\ degraded' = d
          /\ faults' = faults + (IF d THEN 1 ELSE 0)
          /\ faults' <= MaxFaults
    /\ pc' = "judge"
    /\ UNCHANGED <<job, cur, end, receipt, op, looked, listed, clockify, others, crashes>>

\* Mutant: a step of unknown outcome is reported like a rejected one.
MutJudgement ==
    IF end \notin {"succeeded", "inferred"} THEN IF cur = 1 THEN "write_failed" ELSE "partial"
    ELSE IF cur = job.n THEN "ok" ELSE "none"

\* What the workflow makes of a settled step: a receipt, or the next step.
Judgement ==
    IF end = "outcome_unknown"
      THEN IF cur > 1 /\ job.softens THEN "partial" ELSE "commit_outcome_unknown"
    ELSE IF end = "definitive_failed"
      THEN IF cur > 1 THEN "partial" ELSE "write_failed"
    ELSE IF degraded /\ job.heeds # "no"
      THEN IF job.n = 1 /\ job.heeds = "unless_alone" THEN "ok" ELSE "partial"
    ELSE IF end = "inferred" /\ job.stops /\ cur < job.n THEN "partial"
    ELSE IF cur = job.n THEN "ok" ELSE "none"

Judge ==
    /\ pc = "judge"
    /\ receipt' = Judgement
    /\ looked' = (looked \/ (job.records /\ cur = 1 /\ end \in {"inferred", "outcome_unknown"}))
    /\ IF Judgement = "none"
         THEN cur' = cur + 1 /\ pc' = "gate"
         ELSE pc' = "return" /\ UNCHANGED cur
    /\ end' = "none" /\ degraded' = FALSE
    /\ UNCHANGED <<job, row, op, listed, clockify, bounds>>

\* The operation's status is that of its receipt.
Stored(r) ==
    CASE r = "ok" -> "succeeded"
      [] r = "partial" -> "partial"
      [] r = "commit_outcome_unknown" -> "outcome_unknown"
      [] OTHER -> "definitive_failed"

SettleOperation ==
    /\ pc = "return"
    /\ op' = Stored(receipt)
    /\ pc' = "idle"
    /\ UNCHANGED <<job, cur, end, degraded, receipt, row, looked, listed, clockify, bounds>>
-----------------------------------------------------------------------------
(* Process death, and the pass over the unknown steps at the next start.   *)

Crash ==
    /\ pc # "down" /\ crashes < MaxCrashes
    /\ crashes' = crashes + 1
    /\ pc' = "down"
    /\ UNCHANGED <<job, cur, end, degraded, receipt, stored, clockify, others, faults>>

Recovered(k) ==
    IF row[k] # "executing" THEN row[k]
    ELSE IF host[k] = "idle" THEN "definitive_failed" ELSE "outcome_unknown"

RecoverOrphanedRuns ==
    /\ pc = "down"
    /\ row' = [k \in Steps |-> Recovered(k)]
    /\ op' = IF op # "executing" THEN op
             ELSE IF job.confirmed \/ \E k \in Steps : host[k] # "idle"
                    THEN "outcome_unknown" ELSE "definitive_failed"
    /\ pc' = "boot"
    /\ end' = "none" /\ degraded' = FALSE
    /\ UNCHANGED <<job, cur, receipt, looked, listed, clockify, bounds>>

\* A create that was to be changed is the only step without a strategy.
Candidate(k) ==
    /\ pc = "boot" /\ ~looked
    /\ k \in job.startup \cup 2 .. job.n
    /\ op = "outcome_unknown" /\ row[k] = "outcome_unknown"

FullyApplied(k) == \A j \in Steps \ {k} : row[j] = "succeeded"

\* Exactly one candidate settles the step, and with it the operation.
SettleStartupReconciliation(k) ==
    /\ Candidate(k) /\ k \in job.startup
    /\ \E w \in Evidence(k) :
          /\ Evidence(k) = {w}
          /\ made' = [made EXCEPT ![k] = w]
    /\ row' = [row EXCEPT ![k] = "succeeded"]
    /\ op' = IF FullyApplied(k) THEN "succeeded" ELSE "partial"
    /\ looked' = TRUE
    /\ UNCHANGED <<job, memory, listed, host, twins, hit, bounds>>

\* Drift, a failed read, no or several candidates: recorded, and not tried again.
RecordStartupReconciliation(k) ==
    /\ Candidate(k)
    /\ looked' = TRUE
    /\ UNCHANGED <<job, memory, row, op, listed, clockify, bounds>>

FinishBoot ==
    /\ pc = "boot"
    /\ pc' = "idle"
    /\ UNCHANGED <<job, cur, end, degraded, receipt, stored, clockify, bounds>>
-----------------------------------------------------------------------------
Commit ==
    \/ \E r \in Receipts : Leave(r)
    \/ Escape
    \/ PrepareStep
    \/ \E e \in {"definitive_failed", "outcome_unknown"} : FailBeforeDispatch(e)
    \/ Dispatch
    \/ RespondSucceeded \/ RespondRejected \/ RespondAmbiguous
    \/ ReadBack \/ StayAmbiguous
    \/ SettleStep \/ Judge \/ SettleOperation

Startup ==
    \/ RecoverOrphanedRuns
    \/ \E k \in Steps : SettleStartupReconciliation(k) \/ RecordStartupReconciliation(k)
    \/ FinishBoot

Next ==
    \/ Commit
    \/ \E k \in Steps : HostDecides(k) \/ OtherUser(k)
    \/ Crash \/ Startup

Spec == Init /\ [][Next]_vars
-----------------------------------------------------------------------------
\* What step k is for is there in Clockify.
InPlace(k) == host[k] = "applied" \/ k \in twins

(* What is stored of a commit is true of Clockify in every workflow, when  *)
(* it returns, after a crash and after the startup pass.  Success: all of  *)
(* it is there and journaled.  Partial: some is.  Failed: every step that  *)
(* took effect, or still may, is journaled as succeeded, so none is hidden *)
(* or in doubt; and there is none at all unless a read between two steps   *)
(* threw.  Then runCommit answers execution_error, and the operation is    *)
(* stored as definitive_failed after a known effect, where README.md,      *)
(* 108-109, says that such a failure is reported as partial.               *)
ReceiptsAreTruthful ==
    /\ op = "succeeded" => \A k \in Steps : InPlace(k) /\ row[k] = "succeeded"
    /\ op = "partial" => \E k \in Steps : InPlace(k)
    /\ op = "definitive_failed" =>
          \A k \in Steps :
             /\ host[k] \in {"inflight", "applied"} => row[k] = "succeeded"
             /\ receipt # "execution_error" => host[k] \in {"idle", "refused"}

(* Members, rates, groups, billing fields and items go to the entity this  *)
(* operation created or was confirmed for, never to one of another user    *)
(* that reconcileCreate took for it: each workflow keeps that by a rule of *)
(* its own, stopping after an inferred create or not inferring one.        *)
ChangesStayOnOwnEntities == \A k \in Steps : hit[k] # "twin"
=============================================================================
