-------------------------- MODULE RequestGovernor --------------------------
(***************************************************************************)
(* The per-workspace FIFO governor every Clockify call passes through      *)
(* (clockify/request-governor.ts): a queue, a concurrency limit, a sliding *)
(* rate window, a cooldown after a 429, single-flight mutations, a budget  *)
(* of host calls that is refunded when a call is given up before dispatch, *)
(* and cancellation racing an asynchronous pre-dispatch hook.              *)
(*                                                                         *)
(* The code is single-threaded: what runs between two awaits is one step.  *)
(* drain() and the calls it makes are the exception, they are a chain of   *)
(* steps that nothing can interrupt (the flag draining).  Time is counted  *)
(* down: starts, cooldown and timer hold what remains of each.             *)
(***************************************************************************)
EXTENDS Integers, SequencesExt, FiniteSets

CONSTANTS
    Reads, Mutations,   \* the requests, each submitted at most once
    Concurrency,        \* options.concurrency
    RateCap,            \* min(requestsPerSecond, burst)
    Window,             \* the 1000 ms of the rate window, in ticks
    MaxCalls,           \* the host-call budget of the turn
    Delays,             \* cooldowns a 429 may ask for, in ticks
    MaxRateLimits       \* bound: 429 answers

Requests == Reads \cup Mutations

ASSUME RequestsAssumption == Reads \cap Mutations = {} /\ IsFiniteSet(Requests)
ASSUME LimitsAssumption ==
    /\ Concurrency \in Nat \ {0} /\ RateCap \in Nat \ {0} /\ Window \in Nat \ {0}
    /\ MaxCalls \in Nat /\ MaxRateLimits \in Nat /\ Delays \subseteq Nat

VARIABLES
    state,           \* of each request: the state of its closure ("new": not run)
    promise,         \* what its caller has been told
    hook,            \* its onDispatch promise
    external,        \* operation() was invoked: the call counts at the host
    activeReleased,
    queue, active, mutationActive,
    starts,          \* dispatch times, as what remains of their window
    cooldown,        \* cooldownUntil - now
    timer,           \* of the pending timeout, NoTimer when there is none
    used,            \* budget.used
    draining,        \* drain() is on the stack
    recent,          \* history: age of each dispatch of the last Window ticks
    arrival,         \* history: order in which requests were queued
    pauses           \* history: what remains of each pause a 429 asked for

queues == <<queue, active, mutationActive, starts, timer>>
clocks == <<cooldown, recent, pauses>>
vars == <<state, promise, hook, external, activeReleased, queue, active,
          mutationActive, starts, cooldown, timer, used, draining, recent, arrival, pauses>>

NoTimer == -1
AtLeast(a, b) == IF a < b THEN b ELSE a

State == {"new", "queued", "pre_dispatch", "cancelled", "dispatched", "settled"}
Promise == {"none", "pending", "answered", "rejected", "cancelled"}

TypeOK ==
    /\ state \in [Requests -> State]
    /\ promise \in [Requests -> Promise]
    /\ hook \in [Requests -> {"none", "pending", "done"}]
    /\ external \in [Requests -> BOOLEAN]
    /\ activeReleased \in [Requests -> BOOLEAN]
    /\ queue \in Seq(Requests)
    /\ active \in Nat
    /\ mutationActive \in BOOLEAN
    /\ starts \in Seq(Nat)
    /\ cooldown \in Nat
    /\ timer \in Nat \cup {NoTimer}
    /\ used \in Nat
    /\ draining \in BOOLEAN
    /\ recent \in Seq(Nat)
    /\ arrival \in [Requests -> Nat]
    /\ pauses \in Seq(Nat)

Init ==
    /\ state = [r \in Requests |-> "new"]
    /\ promise = [r \in Requests |-> "none"]
    /\ hook = [r \in Requests |-> "none"]
    /\ external = [r \in Requests |-> FALSE]
    /\ activeReleased = [r \in Requests |-> FALSE]
    /\ queue = <<>>
    /\ active = 0
    /\ mutationActive = FALSE
    /\ starts = <<>>
    /\ cooldown = 0
    /\ timer = NoTimer
    /\ used = 0
    /\ draining = FALSE
    /\ recent = <<>>
    /\ arrival = [r \in Requests |-> 0]
    /\ pauses = <<>>
-----------------------------------------------------------------------------
(* Submitting a request.                                                   *)

\* chargeHostCallBudget, without a reservation.
MayCharge == used + 1 <= MaxCalls

\* Rejected at once: the signal is already aborted, or the budget is spent.
RejectRun(r) ==
    /\ ~draining /\ state[r] = "new"
    /\ \/ /\ state' = [state EXCEPT ![r] = "cancelled"]
          /\ promise' = [promise EXCEPT ![r] = "cancelled"]
       \/ /\ ~MayCharge
          /\ state' = [state EXCEPT ![r] = "settled"]
          /\ promise' = [promise EXCEPT ![r] = "rejected"]
    /\ UNCHANGED <<hook, external, activeReleased, queues, clocks, used, draining, arrival>>

\* Charged, queued, then drain().
Run(r) ==
    /\ ~draining /\ state[r] = "new" /\ MayCharge
    /\ used' = used + 1
    /\ state' = [state EXCEPT ![r] = "queued"]
    /\ promise' = [promise EXCEPT ![r] = "pending"]
    /\ queue' = Append(queue, r)
    /\ arrival' = [arrival EXCEPT ![r] = Cardinality({q \in Requests : arrival[q] > 0}) + 1]
    /\ draining' = TRUE
    /\ UNCHANGED <<hook, external, activeReleased, active, mutationActive, starts,
                   timer, clocks>>
-----------------------------------------------------------------------------
(* drain().                                                                *)

\* setTimeout, unless one is already set.
Scheduled(delay) == IF timer = NoTimer THEN AtLeast(delay, 1) ELSE timer

\* while (s[0] is old) s.shift()
Lapsed(s, old) ==
    CHOOSE n \in 0 .. Len(s) : (\A i \in 1 .. n : s[i] \in old) /\ (n < Len(s) => s[n + 1] \notin old)
Shifted(s, old) == SubSeq(s, Lapsed(s, old) + 1, Len(s))

Pruned == Shifted(starts, {0})

\* Mutant: when the window is full drain just returns, as it does for concurrency.
MutDrainReturns ==
    /\ draining
    /\ draining' = FALSE
    /\ \/ /\ queue = <<>> \/ active >= Concurrency
          /\ UNCHANGED <<timer, starts>>
       \/ /\ queue # <<>> /\ active < Concurrency /\ cooldown > 0
          /\ timer' = Scheduled(cooldown)
          /\ UNCHANGED starts
       \/ /\ queue # <<>> /\ active < Concurrency /\ cooldown = 0
          /\ starts' = Pruned
          /\ \/ Len(Pruned) >= RateCap
             \/ Head(queue) \in Mutations /\ mutationActive /\ Len(Pruned) < RateCap
          /\ UNCHANGED timer
    /\ UNCHANGED <<state, promise, hook, external, activeReleased, queue, active,
                   mutationActive, clocks, used, arrival>>

\* Nothing can go: the queue is empty or all slots are taken, the cooldown
\* lasts, the window is full, or a mutation at the head waits for another.
DrainReturns ==
    /\ draining
    /\ draining' = FALSE
    /\ \/ /\ queue = <<>> \/ active >= Concurrency
          /\ UNCHANGED <<timer, starts>>
       \/ /\ queue # <<>> /\ active < Concurrency /\ cooldown > 0
          /\ timer' = Scheduled(cooldown)
          /\ UNCHANGED starts
       \/ /\ queue # <<>> /\ active < Concurrency /\ cooldown = 0
          /\ starts' = Pruned
          /\ \/ /\ Len(Pruned) >= RateCap
                /\ timer' = Scheduled(Head(Pruned))
             \/ /\ Len(Pruned) < RateCap
                /\ Head(queue) \in Mutations /\ mutationActive
                /\ UNCHANGED timer
    /\ UNCHANGED <<state, promise, hook, external, activeReleased, queue, active,
                   mutationActive, clocks, used, arrival>>

NextRequest == Head(queue)

MayDispatch ==
    /\ draining /\ queue # <<>> /\ active < Concurrency /\ cooldown = 0
    /\ Len(Pruned) < RateCap
    /\ ~(NextRequest \in Mutations /\ mutationActive)

\* The slot, the window and the mutation flag are taken before the hook runs.
Dequeue(r) ==
    /\ r = NextRequest
    /\ queue' = Tail(queue)
    /\ starts' = Append(Pruned, Window)
    /\ recent' = Append(recent, 0)
    /\ draining' = TRUE
    /\ UNCHANGED <<cooldown, timer, pauses, arrival>>

\* The hook of a mutation is asynchronous.
DispatchAsync(r) ==
    /\ MayDispatch /\ Dequeue(r)
    /\ state' = [state EXCEPT ![r] = "pre_dispatch"]
    /\ hook' = [hook EXCEPT ![r] = "pending"]
    /\ active' = active + 1
    /\ mutationActive' = (mutationActive \/ r \in Mutations)
    /\ UNCHANGED <<promise, external, activeReleased, used>>

\* No hook, or a synchronous one: the operation starts on the same stack.
DispatchSync(r) ==
    /\ MayDispatch /\ Dequeue(r)
    /\ state' = [state EXCEPT ![r] = "dispatched"]
    /\ external' = [external EXCEPT ![r] = TRUE]
    /\ active' = active + 1
    /\ mutationActive' = (mutationActive \/ r \in Mutations)
    /\ UNCHANGED <<promise, hook, activeReleased, used>>

\* The hook throws (refunded) or the operation does (not refunded): the slot is
\* released again before drain() goes on.
DispatchThrows(r, started) ==
    /\ MayDispatch /\ Dequeue(r)
    /\ state' = [state EXCEPT ![r] = "settled"]
    /\ promise' = [promise EXCEPT ![r] = "rejected"]
    /\ external' = [external EXCEPT ![r] = started]
    /\ activeReleased' = [activeReleased EXCEPT ![r] = TRUE]
    /\ used' = IF started THEN used ELSE used - 1
    /\ mutationActive' = (mutationActive /\ r \notin Mutations)
    /\ UNCHANGED <<hook, active>>
-----------------------------------------------------------------------------
(* Leaving the governor.                                                   *)

\* Mutant: the slot is given back as often as it is asked for.
MutReleaseActive(r) ==
    /\ activeReleased' = [activeReleased EXCEPT ![r] = TRUE]
    /\ active' = IF active > 0 THEN active - 1 ELSE 0
    /\ mutationActive' = (mutationActive /\ r \notin Mutations)
    /\ draining' = TRUE

\* Idempotent; drain() runs only when the slot was really given back.
ReleaseActive(r) ==
    \/ /\ activeReleased[r]
       /\ UNCHANGED <<activeReleased, active, mutationActive, draining>>
    \/ /\ ~activeReleased[r]
       /\ activeReleased' = [activeReleased EXCEPT ![r] = TRUE]
       /\ active' = active - 1
       /\ mutationActive' = (mutationActive /\ r \notin Mutations)
       /\ draining' = TRUE

\* The caller aborts.  Before dispatch this is a definitive cancellation, even
\* while the hook is out; afterwards nobody listens any more.
AbortQueued(r) ==
    /\ ~draining /\ state[r] = "queued"
    /\ state' = [state EXCEPT ![r] = "cancelled"]
    /\ promise' = [promise EXCEPT ![r] = "cancelled"]
    /\ \E i \in DOMAIN queue : queue[i] = r /\ queue' = RemoveAt(queue, i)
    /\ used' = used - 1
    /\ draining' = TRUE
    /\ UNCHANGED <<hook, external, activeReleased, active, mutationActive, starts, timer,
                   clocks, arrival>>

AbortPreDispatch(r) ==
    /\ ~draining /\ state[r] = "pre_dispatch"
    /\ state' = [state EXCEPT ![r] = "cancelled"]
    /\ promise' = [promise EXCEPT ![r] = "cancelled"]
    /\ used' = used - 1
    /\ ReleaseActive(r)
    /\ UNCHANGED <<hook, external, queue, starts, timer, clocks, arrival>>

\* Mutant: the answer of the hook starts the operation, cancelled or not.
MutHookResolves(r) ==
    /\ ~draining /\ hook[r] = "pending"
    /\ hook' = [hook EXCEPT ![r] = "done"]
    /\ state' = [state EXCEPT ![r] = "dispatched"]
    /\ external' = [external EXCEPT ![r] = TRUE]
    /\ UNCHANGED <<promise, activeReleased, queues, draining, clocks, used, arrival>>

\* startExternalOperation after an asynchronous hook.
HookResolves(r) ==
    /\ ~draining /\ hook[r] = "pending"
    /\ hook' = [hook EXCEPT ![r] = "done"]
    /\ \/ /\ state[r] = "cancelled"
          /\ ReleaseActive(r)
          /\ UNCHANGED <<state, external>>
       \/ /\ state[r] = "pre_dispatch"
          /\ state' = [state EXCEPT ![r] = "dispatched"]
          /\ external' = [external EXCEPT ![r] = TRUE]
          /\ UNCHANGED <<activeReleased, active, mutationActive, draining>>
    /\ UNCHANGED <<promise, queue, starts, timer, clocks, used, arrival>>

\* Mutant: a hook that fails after the cancellation refunds the call again.
MutHookRejects(r) ==
    /\ ~draining /\ hook[r] = "pending"
    /\ hook' = [hook EXCEPT ![r] = "done"]
    /\ ReleaseActive(r)
    /\ state' = [state EXCEPT ![r] = "settled"]
    /\ promise' = [promise EXCEPT ![r] = IF @ = "pending" THEN "rejected" ELSE @]
    /\ used' = used - 1
    /\ UNCHANGED <<external, queue, starts, timer, clocks, arrival>>

\* failBeforeDispatch after an asynchronous hook.
HookRejects(r) ==
    /\ ~draining /\ hook[r] = "pending"
    /\ hook' = [hook EXCEPT ![r] = "done"]
    /\ ReleaseActive(r)
    /\ \/ /\ state[r] = "cancelled"
          /\ UNCHANGED <<state, promise, used>>
       \/ /\ state[r] = "pre_dispatch"
          /\ state' = [state EXCEPT ![r] = "settled"]
          /\ promise' = [promise EXCEPT ![r] = "rejected"]
          /\ used' = used - 1
    /\ UNCHANGED <<external, queue, starts, timer, clocks, arrival>>

\* Clockify answers or the call fails; the slot is released one turn of the
\* event loop later, so the caller may go on first.
OperationSettles(r) ==
    /\ ~draining /\ state[r] = "dispatched"
    /\ state' = [state EXCEPT ![r] = "settled"]
    /\ promise' = [promise EXCEPT ![r] = "answered"]
    /\ UNCHANGED <<hook, external, activeReleased, queues, clocks, used, draining, arrival>>

Finally(r) ==
    /\ ~draining /\ state[r] = "settled" /\ external[r] /\ ~activeReleased[r]
    /\ ReleaseActive(r)
    /\ UNCHANGED <<state, promise, hook, external, queue, starts, timer, clocks,
                   used, arrival>>
-----------------------------------------------------------------------------
(* Time.                                                                   *)

\* Mutant: a longer cooldown replaces the one that is running.
MutNoteRateLimited(delay) ==
    /\ ~draining /\ Len(pauses) < MaxRateLimits
    /\ \E r \in Requests : external[r]
    /\ pauses' = Append(pauses, delay)
    /\ cooldown' = delay
    /\ UNCHANGED <<state, promise, hook, external, activeReleased, queues, used,
                   draining, recent, arrival>>

\* A 429 came back.
NoteRateLimited(delay) ==
    /\ ~draining /\ Len(pauses) < MaxRateLimits
    /\ \E r \in Requests : external[r]
    /\ pauses' = Append(pauses, delay)
    /\ cooldown' = AtLeast(cooldown, delay)
    /\ timer' = IF queue # <<>> THEN Scheduled(cooldown') ELSE timer
    /\ UNCHANGED <<state, promise, hook, external, activeReleased, queue, active,
                   mutationActive, starts, used, draining, recent, arrival>>

TimerFires ==
    /\ ~draining /\ timer = 0
    /\ timer' = NoTimer
    /\ draining' = TRUE
    /\ UNCHANGED <<state, promise, hook, external, activeReleased, queue, active,
                   mutationActive, starts, clocks, used, arrival>>

Older(s) == [i \in DOMAIN s |-> AtLeast(s[i] - 1, 0)]

Tick ==
    /\ ~draining
    /\ starts' = Older(starts)
    /\ cooldown' = AtLeast(cooldown - 1, 0)
    /\ pauses' = Older(pauses)
    /\ timer' = IF timer = NoTimer THEN NoTimer ELSE AtLeast(timer - 1, 0)
    /\ LET kept == Shifted(recent, {Window - 1})
       IN  recent' = [i \in DOMAIN kept |-> kept[i] + 1]
    /\ UNCHANGED <<state, promise, hook, external, activeReleased, queue, active,
                   mutationActive, used, draining, arrival>>
-----------------------------------------------------------------------------
Drain ==
    \/ DrainReturns
    \/ \E r \in Requests : DispatchAsync(r)
    \/ \E r \in Requests : DispatchSync(r)
    \/ \E r \in Requests, started \in BOOLEAN : DispatchThrows(r, started)

Settle(r) == HookResolves(r) \/ HookRejects(r) \/ OperationSettles(r) \/ Finally(r)

Next ==
    \/ \E r \in Requests : RejectRun(r)
    \/ \E r \in Requests : Run(r)
    \/ Drain
    \/ \E r \in Requests : AbortQueued(r)
    \/ \E r \in Requests : AbortPreDispatch(r)
    \/ \E r \in Requests : Settle(r)
    \/ \E delay \in Delays : NoteRateLimited(delay)
    \/ TimerFires
    \/ Tick

Spec == Init /\ [][Next]_vars

\* Code on the stack runs on, timers fire, time passes, and every hook and every
\* host call ends (the hook is a role check and the call a fetch, both bounded
\* by a timeout).
Fairness ==
    /\ WF_vars(Drain) /\ WF_vars(TimerFires) /\ WF_vars(Tick)
    /\ \A r \in Requests : WF_vars(Settle(r))

FairSpec == Spec /\ Fairness
-----------------------------------------------------------------------------
Held(r) ==
    \/ state[r] \in {"pre_dispatch", "dispatched"}
    \/ state[r] = "settled" /\ external[r] /\ ~activeReleased[r]

(* Charges match the calls: the budget holds exactly those made or still   *)
(* to be made, within its maximum, and a caller that was told its request  *)
(* was cancelled before dispatch can rely on it, whenever the abort came.  *)
ChargesMatchCalls ==
    /\ \A r \in Requests : promise[r] = "cancelled" => ~external[r]
    /\ used = Cardinality({r \in Requests : external[r] \/ state[r] \in {"queued", "pre_dispatch"}})
    /\ used <= MaxCalls

(* Admission is regular, in whatever order hooks, cancellations, answers   *)
(* and wakeups come.  Never are two mutations past the queue at once: a    *)
(* late hook of a cancelled one must not clear the flag of the one that    *)
(* took its place.  Nothing is dispatched past a request that waits.  In   *)
(* no window of 1000 ms are more than RateCap requests dispatched.         *)
AdmissionIsRegular ==
    /\ \A a, b \in Mutations : Held(a) /\ Held(b) => a = b
    /\ mutationActive <=> \E r \in Mutations : Held(r)
    /\ \A a, b \in Requests :
          state[a] = "queued" /\ (external[b] \/ hook[b] # "none") => arrival[b] < arrival[a]
    /\ Len(recent) <= RateCap

(* Every pause a 429 asked for is kept, also when a shorter one is asked   *)
(* for while it lasts: nothing is dispatched before all are over.          *)
PausesAreKept == [][Len(recent') > Len(recent) => \A i \in DOMAIN pauses : pauses[i] = 0]_vars

(* Every queued request is answered, if hooks and host calls are.          *)
EveryRequestEnds == \A r \in Requests : state[r] = "queued" ~> promise[r] # "pending"
=============================================================================
