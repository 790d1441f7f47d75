------------------------- MODULE WorkspaceLifecycle -------------------------
(***************************************************************************)
(* Installing, disabling and uninstalling the add-on in one workspace,     *)
(* while writes are under way: the lifecycle routes (routes/lifecycle.ts), *)
(* the installation store (db/store/installations.ts) and the process-     *)
(* local settlement barrier (clockify/workspace-mutation-coordinator.ts).  *)
(*                                                                         *)
(* A callback is signed by Clockify with a whole-second issue time (iat).  *)
(* Callbacks are numbered on arrival, verified concurrently and then       *)
(* handled one at a time (runLifecycle).  A handler does not await between *)
(* its store transaction and its call of the coordinator, so both are one  *)
(* action; only an uninstall waits, for the leases of running writes.      *)
(*                                                                         *)
(* Left out: installation attestations, service URLs, rows from before     *)
(* lifecycle_issued_at existed, and callbacks that fail verification (they *)
(* change nothing, like one that is still being verified).  The coordina-  *)
(* tor's `deletions' map is the variable deletion: callers are serialised, *)
(* so that its non-owner branches are not reached.                         *)
(***************************************************************************)
EXTENDS Integers, Sequences, FiniteSets

CONSTANTS Requests,       \* write requests (confirm, undo, chat)
          Tokens,         \* installation tokens
          IssuedAt,       \* issue times of callbacks
          MaxCallbacks,   \* bound: callbacks that arrive
          MaxCrashes,     \* bound: process crashes
          MaxFailures,    \* bound: erasures that throw
          MaxMaintenance  \* bound: operator interventions

NoToken == "none"

ASSUME LifecycleAssumption ==
    /\ NoToken \notin Tokens
    /\ IssuedAt \subseteq Nat \ {0}
    /\ {MaxCallbacks, MaxCrashes, MaxFailures, MaxMaintenance} \subseteq Nat

VARIABLES
    row,        \* the installations row
    mark,       \* the lifecycle_authority_watermarks row
    retired,    \* retired_installation_tokens
    oldest,     \* issue times before this one are refused by verification
    up,         \* the process runs
    lastGen,    \* lastGenerations, in memory
    arrivals,   \* lifecycleRequestSequence
    verifying,  \* numbers of the callbacks whose signature is being verified
    queue,      \* callbacks waiting for runLifecycle; the head is being handled
    latest,     \* latestLifecycleSequences
    deletion,   \* the uninstall that waits for running writes
    barrier,    \* the coordinator's current WorkspaceState
    epochs,     \* retiredStates: earlier generations with unreleased leases
    revoked,    \* generations whose revocation signal is aborted
    req,        \* the write requests
    hist,       \* history: issue times of revocations, and tokens ever stored
    crashes, failures, repairs

store == <<row, mark, retired>>
memory == <<lastGen, arrivals, verifying, queue, latest, deletion>>
coordinator == <<barrier, epochs, revoked>>
bounds == <<crashes, failures, repairs>>
vars == <<store, oldest, up, memory, coordinator, req, hist, bounds>>

NoGen == -1
NoRow == [status |-> "absent", gen |-> 0, iat |-> 0, token |-> NoToken]
NoMark == [state |-> "active", gen |-> 0, iat |-> 0]
NoDeletion == [gen |-> NoGen, waits |-> {}, pending |-> FALSE]
NoBarrier == [gen |-> NoGen, blocked |-> FALSE]
Idle == [pc |-> "idle", gen |-> 0, rows |-> FALSE]

Callbacks ==
    [kind : {"installed"}, iat : IssuedAt, token : Tokens]
        \cup [kind : {"active", "inactive", "deleted"}, iat : IssuedAt, token : {NoToken}]
Numbered == [seq : 1 .. MaxCallbacks, call : Callbacks]

TypeOK ==
    /\ row \in [status : {"absent", "active", "inactive", "deleted"}, gen : Nat,
                iat : IssuedAt \cup {0}, token : Tokens \cup {NoToken}]
    /\ mark \in [state : {"active", "inactive", "deleted"}, gen : Nat, iat : IssuedAt \cup {0}]
    /\ retired \subseteq Tokens
    /\ oldest \in Nat
    /\ up \in BOOLEAN
    /\ lastGen \in Nat
    /\ arrivals \in 0 .. MaxCallbacks
    /\ verifying \subseteq 1 .. MaxCallbacks
    /\ queue \in Seq(Numbered)
    /\ latest \in 0 .. MaxCallbacks
    /\ deletion \in [gen : Int, waits : SUBSET Nat, pending : BOOLEAN]
    /\ barrier \in [gen : Int, blocked : BOOLEAN]
    /\ epochs \subseteq Nat
    /\ revoked \subseteq Nat
    /\ req \in [Requests -> [pc : {"idle", "reading", "checked", "held", "authorized", "dispatched"},
                             gen : Nat, rows : BOOLEAN]]
    /\ hist \in [revocation : IssuedAt \cup {0}, tokens : SUBSET Tokens]
    /\ crashes \in 0 .. MaxCrashes /\ failures \in 0 .. MaxFailures /\ repairs \in 0 .. MaxMaintenance

Larger(a, b) == IF a > b THEN a ELSE b

\* Either a fresh database or a workspace that installed with an earlier callback.
Init ==
    /\ \/ row = NoRow /\ mark = NoMark /\ hist = [revocation |-> 0, tokens |-> {}]
       \/ \E t \in Tokens, i \in IssuedAt :
            /\ row = [status |-> "active", gen |-> 1, iat |-> i, token |-> t]
            /\ mark = [state |-> "active", gen |-> 1, iat |-> i]
            /\ hist = [revocation |-> 0, tokens |-> {t}]
    /\ retired = {} /\ oldest = 0 /\ up = TRUE
    /\ lastGen = 0 /\ arrivals = 0 /\ verifying = {} /\ queue = <<>> /\ latest = 0
    /\ deletion = NoDeletion /\ barrier = NoBarrier /\ epochs = {} /\ revoked = {}
    /\ req = [r \in Requests |-> Idle]
    /\ crashes = 0 /\ failures = 0 /\ repairs = 0
-----------------------------------------------------------------------------
(* The installation store.                                                 *)

Rank(state) == CASE state = "deleted" -> 2 [] state = "inactive" -> 1 [] OTHER -> 0

\* The most recent authority known: from the row, from the watermark, or from both.
Authority ==
    LET own == [state |-> row.status, gen |-> row.gen, iat |-> row.iat]
    IN  CASE row.status = "absent" \/ row.iat < mark.iat -> mark
          [] row.status # "absent" /\ row.iat > mark.iat -> own
          [] OTHER -> [state |-> IF Rank(own.state) > Rank(mark.state) THEN own.state ELSE mark.state,
                       gen |-> Larger(own.gen, mark.gen), iat |-> mark.iat]

Recorded(iat, state, gen) ==
    IF mark = NoMark THEN [state |-> state, gen |-> gen, iat |-> iat]
    ELSE IF iat > mark.iat \/ (iat = mark.iat /\ Rank(state) >= Rank(mark.state))
    THEN [state |-> state, gen |-> Larger(mark.gen, gen), iat |-> iat]
    ELSE mark

NextGeneration == Larger(Larger(row.gen, lastGen), Authority.gen) + 1

\* Mutant: the wiped token is recorded even when there is none.
MutRetireBlank == retired' = retired \cup {row.token}

\* The token that stops being valid is denied for ever.
Retire == retired' = retired \cup ({row.token} \ {NoToken})

Remember(gen) == lastGen' = Larger(lastGen, gen)

\* Erases every row of the workspace: also the journals of running writes.
Erase == row' = NoRow /\ req' = [r \in Requests |-> [req[r] EXCEPT !.rows = FALSE]]
-----------------------------------------------------------------------------
(* The coordinator.                                                        *)

Holding == {"held", "authorized", "dispatched"}
Leases(gen) == {r \in Requests : req[r].pc \in Holding /\ req[r].gen = gen}

Open(gen) == [gen |-> gen, blocked |-> FALSE]

\* Mutant: the leases of the replaced generation are forgotten.
MutActivate(gen) ==
    IF barrier = NoBarrier \/ gen > barrier.gen
    THEN barrier' = Open(gen) /\ revoked' = revoked \cup ({barrier.gen} \ {NoGen}) /\ UNCHANGED epochs
    ELSE UNCHANGED coordinator

\* An active generation replaces the current one and aborts what it had not yet sent;
\* the leases of the old one are kept for a later uninstall.  A call for a generation
\* that is older, or revoked, throws and changes nothing.
Activate(gen) ==
    IF barrier = NoBarrier
    THEN barrier' = Open(gen) /\ UNCHANGED <<epochs, revoked>>
    ELSE IF gen > barrier.gen
    THEN /\ barrier' = Open(gen)
         /\ revoked' = revoked \cup {barrier.gen}
         /\ epochs' = IF Leases(barrier.gen) # {} THEN epochs \cup {barrier.gen} ELSE epochs
    ELSE UNCHANGED coordinator

\* Mutant: revoking a workspace that no request has used yet does nothing.
MutBlock ==
    /\ barrier' = IF barrier = NoBarrier THEN barrier ELSE [barrier EXCEPT !.blocked = TRUE]
    /\ revoked' = revoked \cup ({barrier.gen} \ {NoGen})
    /\ UNCHANGED epochs

Block ==
    LET gen == IF barrier = NoBarrier THEN 0 ELSE barrier.gen
    IN  /\ barrier' = [gen |-> gen, blocked |-> TRUE]
        /\ revoked' = revoked \cup {gen}
        /\ UNCHANGED epochs

\* A process that restarted with an installation learns its generation from the first caller.
Seeded(gen) == IF barrier = NoBarrier THEN Open(gen) ELSE barrier
-----------------------------------------------------------------------------
(* Lifecycle callbacks.                                                    *)

\* The request is numbered before anything of it is looked at.
Arrive ==
    /\ up /\ arrivals < MaxCallbacks
    /\ arrivals' = arrivals + 1
    /\ verifying' = verifying \cup {arrivals + 1}
    /\ UNCHANGED <<store, oldest, up, lastGen, queue, latest, deletion, coordinator, req, hist, bounds>>

\* Verification ends in any order; a callback that is not too old joins the workspace's queue.
Verified(n, c) ==
    /\ c.iat >= oldest
    /\ verifying' = verifying \ {n}
    /\ queue' = Append(queue, [seq |-> n, call |-> c])
    /\ UNCHANGED <<store, oldest, up, lastGen, arrivals, latest, deletion, coordinator, req, hist, bounds>>

Current == Head(queue).call

\* The callback at the head is handled unless one that arrived later was handled before.
Handles(kinds) ==
    /\ queue # <<>> /\ ~ deletion.pending
    /\ Current.kind \in kinds
    /\ Head(queue).seq >= latest
    /\ latest' = Head(queue).seq
    /\ UNCHANGED <<oldest, up, arrivals, verifying, req, bounds>>

\* History: a revocation issued at iat was carried out (0: none), and these tokens were stored.
Noted(iat, tokens) ==
    hist' = [revocation |-> Larger(hist.revocation, iat), tokens |-> hist.tokens \cup tokens]

Superseded ==
    /\ queue # <<>> /\ ~ deletion.pending
    /\ Head(queue).seq < latest
    /\ queue' = Tail(queue)
    /\ UNCHANGED <<hist, store, oldest, up, lastGen, arrivals, verifying, latest, deletion, coordinator, req, bounds>>

Done == queue' = Tail(queue) /\ UNCHANGED deletion

\* Mutant: a replacement token is accepted at an equal issue time.
MutStale(iat) == iat < Authority.iat

Stale(iat) == iat <= Authority.iat

\* A redelivery of the current token changes no authority.
InstalledAgain ==
    /\ Handles({"installed"}) /\ Done
    /\ Current.token = row.token
    /\ IF row.status = "active" THEN Activate(row.gen) ELSE UNCHANGED coordinator
    /\ Remember(row.gen)
    /\ UNCHANGED <<store, hist>>

InstalledIgnored ==
    /\ Handles({"installed"}) /\ Done
    /\ Current.token # row.token
    /\ Stale(Current.iat) \/ Current.token \in retired
    /\ Remember(row.gen)
    /\ UNCHANGED <<hist, store, coordinator>>

Installed ==
    /\ Handles({"installed"}) /\ Done
    /\ Current.token # row.token /\ ~ Stale(Current.iat) /\ Current.token \notin retired
    /\ row' = [status |-> "active", gen |-> NextGeneration, iat |-> Current.iat, token |-> Current.token]
    /\ Retire
    /\ mark' = Recorded(Current.iat, "active", NextGeneration)
    /\ Remember(NextGeneration)
    /\ Activate(NextGeneration)
    /\ Noted(0, {Current.token})

\* At equal issue times the more restrictive state wins.
Outranked(iat, state) ==
    \/ iat < Authority.iat
    \/ iat = Authority.iat /\ Authority # NoMark /\ Rank(state) < Rank(Authority.state)

StatusIgnored ==
    /\ Handles({"active", "inactive"}) /\ Done
    /\ \/ Outranked(Current.iat, Current.kind)
       \/ row.status \in {"absent", "deleted"} /\ Current.kind = "active"
    /\ Remember(row.gen)
    /\ UNCHANGED <<hist, store, coordinator>>

\* Without a row the revocation is only remembered, for installs that are still to come.
RevokedAbsent ==
    /\ Handles({"inactive"}) /\ Done
    /\ ~ Outranked(Current.iat, "inactive")
    /\ row.status \in {"absent", "deleted"}
    /\ mark' = IF row.status = "deleted" THEN Recorded(Current.iat, "deleted", row.gen)
               ELSE Recorded(Current.iat, "inactive", Authority.gen)
    /\ Block
    /\ Remember(row.gen)
    /\ Noted(Current.iat, {})
    /\ UNCHANGED <<row, retired>>

StatusChanged ==
    /\ Handles({"active", "inactive"}) /\ Done
    /\ ~ Outranked(Current.iat, Current.kind)
    /\ row.status \in {"active", "inactive"}
    /\ LET gen == IF Current.kind = "active" /\ row.status # "active" THEN NextGeneration ELSE row.gen
       IN  /\ row' = [row EXCEPT !.status = Current.kind, !.gen = gen, !.iat = Current.iat]
           /\ mark' = Recorded(Current.iat, Current.kind, gen)
           /\ Remember(gen)
           /\ IF Current.kind = "active" THEN Activate(gen) ELSE Block
    /\ Noted(IF Current.kind = "inactive" THEN Current.iat ELSE 0, {})
    /\ UNCHANGED retired

DeletedIgnored ==
    /\ Handles({"deleted"}) /\ Done
    /\ Current.iat < Authority.iat
    /\ Remember(row.gen)
    /\ UNCHANGED <<hist, store, coordinator>>

\* The row the uninstall leaves: no token, and a generation of its own.
Tombstone(iat) ==
    CASE row.status = "absent" -> row
      [] row.status = "deleted" -> [row EXCEPT !.iat = Larger(row.iat, iat)]
      [] OTHER -> [status |-> "deleted", gen |-> NextGeneration, iat |-> iat, token |-> NoToken]

TombstoneGeneration ==
    CASE row.status = "absent" -> Authority.gen
      [] row.status = "deleted" -> row.gen
      [] OTHER -> NextGeneration

\* Uninstall: wipe the token, revoke what has not been sent, and wait for the leases of
\* this and of every earlier generation.  It stays at the head of the queue.
Deleted ==
    /\ Handles({"deleted"})
    /\ Current.iat >= Authority.iat
    /\ row' = Tombstone(Current.iat)
    /\ Retire
    /\ mark' = Recorded(Current.iat, "deleted", TombstoneGeneration)
    /\ Remember(TombstoneGeneration)
    /\ Block
    /\ deletion' = [gen |-> IF row.status = "absent" /\ mark = NoMark THEN NoGen ELSE TombstoneGeneration,
                    waits |-> {barrier'.gen} \cup epochs, pending |-> TRUE]
    /\ Noted(Current.iat, {})
    /\ UNCHANGED queue

Drained == deletion.pending /\ \A gen \in deletion.waits : Leases(gen) = {}

\* The erasure is bound to the generation of the tombstone (none: erase unconditionally).
FinishDeletion ==
    /\ Drained
    /\ IF deletion.gen = NoGen \/ (row.status = "deleted" /\ row.gen = deletion.gen)
       THEN Erase /\ Remember(row.gen)
       ELSE UNCHANGED <<row, req, lastGen>>
    /\ deletion' = NoDeletion /\ queue' = Tail(queue)
    /\ UNCHANGED <<mark, retired, oldest, up, arrivals, verifying, latest, coordinator, hist, bounds>>

\* The erasing transaction throws: the barrier is released all the same.
EraseFails ==
    /\ Drained /\ failures < MaxFailures
    /\ failures' = failures + 1
    /\ deletion' = NoDeletion /\ queue' = Tail(queue)
    /\ UNCHANGED <<store, oldest, up, lastGen, arrivals, verifying, latest, coordinator, req, hist, crashes, repairs>>

\* The watermark expires when no callback as old as it is still accepted.
Expire ==
    /\ mark # NoMark
    /\ \A i \in DOMAIN queue : queue[i].call.iat > mark.iat
    /\ oldest' = Larger(oldest, mark.iat + 1) /\ mark' = NoMark
    /\ UNCHANGED <<row, retired, up, memory, coordinator, req, hist, bounds>>
-----------------------------------------------------------------------------
(* Write requests.                                                         *)

At(r, pc) == req' = [req EXCEPT ![r].pc = pc]

\* Reads the installation; the preview and its journal exist with it.
Begin(r) ==
    /\ up /\ req[r].pc = "idle" /\ row.status = "active"
    /\ req' = [req EXCEPT ![r] = [pc |-> "reading", gen |-> row.gen, rows |-> TRUE]]
    /\ UNCHANGED coordinator

\* A chat turn observes the generation it runs under.
Observe(r) ==
    /\ req[r].pc = "reading" /\ barrier = NoBarrier
    /\ barrier' = Seeded(req[r].gen)
    /\ UNCHANGED <<epochs, revoked, req>>

\* The role is asked at Clockify; afterwards the row is read again.
StillInstalled(r) == row.status = "active" /\ row.gen = req[r].gen

Check(r) ==
    /\ req[r].pc = "reading" /\ StillInstalled(r)
    /\ At(r, "checked")
    /\ UNCHANGED coordinator

Refuse(r) ==
    /\ req[r].pc \in {"reading", "checked"}
    /\ req' = [req EXCEPT ![r] = Idle]
    /\ UNCHANGED coordinator

Acquire(r) ==
    /\ req[r].pc = "checked"
    /\ barrier' = Seeded(req[r].gen)
    /\ ~ barrier'.blocked /\ barrier'.gen = req[r].gen
    /\ At(r, "held")
    /\ UNCHANGED <<epochs, revoked>>

\* Before each write to Clockify the role and the row are checked once more.
Authorize(r) ==
    /\ req[r].pc = "held" /\ StillInstalled(r)
    /\ At(r, "authorized")
    /\ UNCHANGED coordinator

\* The write goes out unless the lease was revoked or its journal has gone.
Dispatch(r) ==
    /\ req[r].pc = "authorized"
    /\ req[r].gen \notin revoked /\ req[r].rows
    /\ At(r, "dispatched")
    /\ UNCHANGED coordinator

Answered(r) == req[r].pc = "dispatched" /\ At(r, "held") /\ UNCHANGED coordinator

\* Mutant: a write that is cancelled between authorization and dispatch keeps its lease.
MutRelease(r) ==
    /\ req[r].pc = "held"
    /\ req' = [req EXCEPT ![r] = Idle]
    /\ epochs' = IF Leases(req[r].gen) = {r} /\ barrier.gen # req[r].gen
                 THEN epochs \ {req[r].gen} ELSE epochs
    /\ UNCHANGED <<barrier, revoked>>

Release(r) ==
    /\ req[r].pc \in {"held", "authorized"}
    /\ req' = [req EXCEPT ![r] = Idle]
    /\ epochs' = IF Leases(req[r].gen) = {r} /\ barrier.gen # req[r].gen
                 THEN epochs \ {req[r].gen} ELSE epochs
    /\ UNCHANGED <<barrier, revoked>>

RequestStep(r) ==
    /\ \/ Begin(r) \/ Observe(r) \/ Check(r) \/ Refuse(r) \/ Acquire(r)
       \/ Authorize(r) \/ Dispatch(r) \/ Answered(r) \/ Release(r)
    /\ UNCHANGED <<store, oldest, up, memory, hist, bounds>>
-----------------------------------------------------------------------------
(* Crashes, restarts and the operator's scripts.                           *)

Crash ==
    /\ up /\ crashes < MaxCrashes
    /\ crashes' = crashes + 1
    /\ up' = FALSE
    /\ lastGen' = 0 /\ verifying' = {} /\ queue' = <<>> /\ latest' = 0 /\ deletion' = NoDeletion
    /\ barrier' = NoBarrier /\ epochs' = {} /\ revoked' = {}
    /\ req' = [r \in Requests |-> Idle]
    /\ UNCHANGED <<store, oldest, arrivals, hist, failures, repairs>>

\* Opening the database pins an unfinished uninstall to the current time, so that no
\* callback issued before it is honoured.
Reopened(now) ==
    CASE row.status = "absent" -> mark
      [] row.status = "deleted" -> Recorded(Larger(row.iat, now), "deleted", row.gen)
      [] OTHER -> Recorded(row.iat, row.status, row.gen)

\* Startup finishes an interrupted uninstall before anything is served.
Startup ==
    /\ ~ up /\ up' = TRUE
    /\ \E now \in IssuedAt : mark' = Reopened(now)
    /\ IF row.status = "deleted" THEN Erase /\ Remember(row.gen) ELSE UNCHANGED <<row, req, lastGen>>
    /\ UNCHANGED <<retired, oldest, arrivals, verifying, queue, latest, deletion, coordinator, hist, bounds>>

Maintenance == repairs < MaxMaintenance /\ repairs' = repairs + 1

\* Retiring an installation whose token Clockify rejects, with the server stopped.
RetireInstallation ==
    /\ ~ up /\ Maintenance
    /\ row.status \in {"active", "inactive"}
    /\ Retire
    /\ row' = [row EXCEPT !.status = "inactive", !.gen = Larger(row.gen, lastGen) + 1, !.token = NoToken]
    /\ UNCHANGED <<mark, oldest, up, memory, coordinator, req, hist, crashes, failures>>

\* Erasing a workspace on request: a tombstone unless there is one, then every row.
EraseWorkspace ==
    /\ ~ up /\ Maintenance
    /\ \E now \in IssuedAt :
         LET iat == Larger(row.iat, now)
         IN  IF row.status \in {"active", "inactive"} /\ iat >= Authority.iat
             THEN mark' = Recorded(iat, "deleted", NextGeneration) /\ Retire
             ELSE mark' = Reopened(now) /\ UNCHANGED retired
    /\ Erase
    /\ UNCHANGED <<oldest, up, memory, coordinator, hist, crashes, failures>>

Callback ==
    \/ Superseded
    \/ InstalledAgain \/ InstalledIgnored \/ Installed
    \/ StatusIgnored \/ RevokedAbsent \/ StatusChanged
    \/ DeletedIgnored \/ Deleted
    \/ FinishDeletion

Next ==
    \/ Arrive
    \/ \E n \in verifying, c \in Callbacks : Verified(n, c)
    \/ Callback \/ EraseFails \/ Expire
    \/ \E r \in Requests : RequestStep(r)
    \/ Crash \/ Startup \/ RetireInstallation \/ EraseWorkspace

Spec == Init /\ [][Next]_vars

\* Handlers and accepted writes run to their end (every call of Clockify has a timeout)
\* and the platform restarts a process that died.
FairSpec ==
    /\ Spec
    /\ WF_vars(Callback) /\ WF_vars(Startup)
    /\ \A r \in Requests :
         WF_vars((Answered(r) \/ Release(r)) /\ UNCHANGED <<store, oldest, up, memory, hist, bounds>>)
-----------------------------------------------------------------------------
(* "Uninstall can await every action that may already have crossed the     *)
(* host boundary before erasing its journal": while a write holds a lease, *)
(* of whatever generation, the rows it will be settled in exist.           *)
JournalOutlivesWork == \A r \in Requests : req[r].pc \in Holding => req[r].rows

(* "Persisted state and the barrier must agree": writes are let through    *)
(* exactly when the row is active, and under its generation; and a lease   *)
(* that can still send belongs to the installation that is active now,     *)
(* although its request read that installation several awaits ago.         *)
AuthorityAgrees ==
    /\ up /\ barrier # NoBarrier =>
         /\ row.status = "active" <=> ~ barrier.blocked
         /\ row.status = "active" => barrier.gen = row.gen
    /\ \A r \in Requests : req[r].pc \in Holding /\ req[r].gen \notin revoked =>
         row.status = "active" /\ row.gen = req[r].gen

(* An uninstall or a deactivation that was carried out is only undone by a *)
(* callback that Clockify issued later, and a token that was replaced,     *)
(* wiped or retired never comes back, whatever is delivered again or late, *)
(* also after the row was erased, a restart or the watermark's expiry.     *)
RevocationIsFinal ==
    [][/\ row'.status = "active" => row'.iat > hist'.revocation
       /\ row'.token \in {row.token, NoToken} \/ row'.token \notin hist.tokens]_vars

(* An uninstall is completed, by its handler or after a crash by the next  *)
(* startup.  (When the erasure itself fails, the handler answers 500 and   *)
(* the rows wait for a redelivery or a restart.)  And a verified callback  *)
(* is answered: an install that waits for an uninstall that waits for a    *)
(* write does not wait for ever.                                           *)
LifecycleSettles ==
    /\ row.status = "deleted" ~> row.status = "absent" \/ failures > 0
    /\ \A n \in 1 .. MaxCallbacks :
          (\E i \in DOMAIN queue : queue[i].seq = n) ~> (\A i \in DOMAIN queue : queue[i].seq # n)
=============================================================================
