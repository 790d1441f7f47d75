----------------------- MODULE RequestGovernorProofs -----------------------
(***************************************************************************)
(* Theorems about RequestGovernor for every finite set of requests, every  *)
(* concurrency, rate, window, budget and pause.                            *)
(***************************************************************************)
EXTENDS RequestGovernor, FiniteSetTheorems, SequenceTheorems, WellFoundedInduction, TLAPS

\* What the closure of a request has done and said in each of its states.  A
\* slot that a cancelled request held is back before its hook answers.
Shape(r) ==
    /\ state[r] = "new" => hook[r] = "none" /\ ~external[r] /\ ~activeReleased[r] /\ arrival[r] = 0
    /\ state[r] = "queued" => hook[r] = "none" /\ ~external[r] /\ ~activeReleased[r]
    /\ state[r] = "pre_dispatch" => hook[r] = "pending" /\ ~external[r] /\ ~activeReleased[r]
    /\ state[r] = "dispatched" => hook[r] # "pending" /\ external[r] /\ ~activeReleased[r]
    /\ state[r] = "cancelled" => ~external[r] /\ (hook[r] = "pending" => activeReleased[r])
    /\ state[r] = "settled" => hook[r] # "pending"
    /\ promise[r] = "cancelled" => state[r] = "cancelled"
RequestInv == \A r \in Requests : Shape(r)

\* The requests that were ever queued, those with a slot, those charged for.
Arrived == {r \in Requests : arrival[r] > 0}
Holders == {r \in Requests : Held(r)}
Charged == {r \in Requests : external[r] \/ state[r] \in {"queued", "pre_dispatch"}}

\* The queue holds exactly the requests that wait, in the order they came.
QueueInv ==
    /\ \A i \in DOMAIN queue : state[queue[i]] = "queued"
    /\ \A r \in Requests : state[r] = "queued" => \E i \in DOMAIN queue : queue[i] = r
    /\ \A i, j \in DOMAIN queue : i < j => arrival[queue[i]] < arrival[queue[j]]
    /\ \A r \in Requests : arrival[r] <= Cardinality(Arrived)
    /\ \A a, b \in Requests :
          state[a] = "queued" /\ (external[b] \/ hook[b] # "none") => arrival[b] < arrival[a]

\* The counters count what they stand for.
SlotInv == active = Cardinality(Holders)
ChargeInv == used = Cardinality(Charged) /\ used <= MaxCalls
FlagInv ==
    /\ \A a, b \in Mutations : Held(a) /\ Held(b) => a = b
    /\ mutationActive <=> \E r \in Mutations : Held(r)

\* The window of the code is what really happened in the last Window ticks,
\* behind entries that ran out and that the next drain() prunes.
Stale == Len(starts) - Len(recent)
WindowInv ==
    /\ Stale >= 0 /\ Len(recent) <= RateCap
    /\ \A i \in 1 .. Stale : starts[i] = 0
    /\ \A i \in 1 .. Len(recent) : recent[i] < Window /\ starts[Stale + i] = Window - recent[i]
    /\ \A i, j \in 1 .. Len(recent) : i < j => recent[j] <= recent[i]

\* No pause outlasts the cooldown.
PauseInv == \A i \in DOMAIN pauses : pauses[i] <= cooldown

IInv == TypeOK /\ RequestInv /\ QueueInv /\ SlotInv /\ ChargeInv /\ FlagInv /\ WindowInv /\ PauseInv
-----------------------------------------------------------------------------
(* The operators on sequences.                                            *)

\* Where the old elements at the head of a sequence end.
LEMMA LapsedFacts ==
  ASSUME NEW S, NEW s \in Seq(S), NEW old
  PROVE  /\ Lapsed(s, old) \in 0 .. Len(s)
         /\ \A i \in 1 .. Lapsed(s, old) : s[i] \in old
         /\ Lapsed(s, old) < Len(s) => s[Lapsed(s, old) + 1] \notin old
  <1> DEFINE T == {n \in 0 .. Len(s) : n < Len(s) => s[n + 1] \notin old}
  <1>1. Len(s) \in Nat /\ Len(s) \in T /\ T \subseteq Nat
    OBVIOUS
  <1>2. PICK m \in T : \A y \in T : ~(<<y, m>> \in OpToRel(<, Nat))
    BY <1>1, NatLessThanWellFounded, WFMin
  <1>3. \A y \in T : ~(y < m)
    BY <1>1, <1>2 DEF OpToRel
  <1>4. \A i \in 1 .. m : s[i] \in old
    <2> SUFFICES ASSUME NEW i \in 1 .. m, s[i] \notin old PROVE FALSE
      OBVIOUS
    <2>1. i - 1 \in T /\ i - 1 < m
      BY <1>1
    <2> QED BY <1>3, <2>1
  <1>5. \E n \in 0 .. Len(s) : (\A i \in 1 .. n : s[i] \in old) /\ (n < Len(s) => s[n + 1] \notin old)
    BY <1>4
  <1> QED BY <1>5 DEF Lapsed

\* What shift() leaves.
LEMMA ShiftedFacts ==
  ASSUME NEW S, NEW s \in Seq(S), NEW old
  PROVE  \E n \in 0 .. Len(s) :
            /\ \A i \in 1 .. n : s[i] \in old
            /\ n < Len(s) => s[n + 1] \notin old
            /\ Shifted(s, old) \in Seq(S) /\ Len(Shifted(s, old)) = Len(s) - n
            /\ \A i \in 1 .. Len(s) - n : Shifted(s, old)[i] = s[n + i]
  <1> DEFINE n == Lapsed(s, old)
  <1>1. /\ n \in 0 .. Len(s) /\ (\A i \in 1 .. n : s[i] \in old) /\ (n < Len(s) => s[n + 1] \notin old)
    BY LapsedFacts
  <1> HIDE DEF n
  <1>2. Shifted(s, old) = SubSeq(s, n + 1, Len(s))
    BY DEF Shifted, n
  <1>3. /\ Shifted(s, old) \in Seq(S) /\ Len(Shifted(s, old)) = Len(s) - n
        /\ \A i \in 1 .. Len(s) - n : Shifted(s, old)[i] = s[n + i]
    BY <1>1, <1>2
  <1> QED BY <1>1, <1>3

\* splice(i, 1).
LEMMA RemoveAtFacts ==
  ASSUME NEW S, NEW s \in Seq(S), NEW i \in 1 .. Len(s)
  PROVE  /\ RemoveAt(s, i) \in Seq(S) /\ Len(RemoveAt(s, i)) = Len(s) - 1
         /\ \A k \in 1 .. Len(s) - 1 : RemoveAt(s, i)[k] = IF k < i THEN s[k] ELSE s[k + 1]
  <1> DEFINE a == SubSeq(s, 1, i - 1)
             b == SubSeq(s, i + 1, Len(s))
  <1>1. a \in Seq(S) /\ Len(a) = i - 1 /\ \A k \in 1 .. i - 1 : a[k] = s[k]
    OBVIOUS
  <1>2. b \in Seq(S) /\ Len(b) = Len(s) - i /\ \A k \in 1 .. Len(s) - i : b[k] = s[i + k]
    OBVIOUS
  <1>3. RemoveAt(s, i) = a \o b
    BY DEF RemoveAt
  <1> HIDE DEF a, b
  <1>4. a \o b \in Seq(S) /\ Len(a \o b) = Len(s) - 1
    <2>1. a \o b \in Seq(S) /\ Len(a \o b) = Len(a) + Len(b)
      BY <1>1, <1>2, ConcatProperties
    <2> QED BY <1>1, <1>2, <2>1
  <1>5. ASSUME NEW k \in 1 .. Len(s) - 1 PROVE (a \o b)[k] = IF k < i THEN s[k] ELSE s[k + 1]
    <2> k \in Int /\ i \in Int
      OBVIOUS
    <2>1. CASE k < i
      <3>1. (a \o b)[k] = a[k]
        BY <1>1, <1>2, <2>1
      <3> QED BY <1>1, <2>1, <3>1
    <2>2. CASE i <= k
      <3>1. (a \o b)[k] = b[k - Len(a)]
        BY <1>1, <1>2, <2>2
      <3>2. k - Len(a) \in 1 .. Len(s) - i /\ i + (k - Len(a)) = k + 1
        BY <1>1, <2>2
      <3>3. b[k - Len(a)] = s[k + 1]
        BY <1>2, <3>2
      <3>4. ~(k < i)
        BY <2>2
      <3> QED BY <3>1, <3>3, <3>4
    <2>3. k < i \/ i <= k
      OBVIOUS
    <2> QED BY <2>1, <2>2, <2>3
  <1> QED BY <1>3, <1>4, <1>5

\* One tick of every element.
LEMMA OlderFacts ==
  ASSUME NEW s \in Seq(Nat)
  PROVE  /\ Older(s) \in Seq(Nat) /\ Len(Older(s)) = Len(s)
         /\ \A i \in 1 .. Len(s) : Older(s)[i] = IF s[i] = 0 THEN 0 ELSE s[i] - 1
  <1>1. DOMAIN s = 1 .. Len(s) /\ Len(s) \in Nat /\ \A i \in 1 .. Len(s) : s[i] \in Nat
    OBVIOUS
  <1>2. Older(s) = [i \in 1 .. Len(s) |-> IF s[i] = 0 THEN 0 ELSE s[i] - 1]
    BY <1>1 DEF Older, AtLeast
  <1>3. \A i \in 1 .. Len(s) : (IF s[i] = 0 THEN 0 ELSE s[i] - 1) \in Nat
    BY <1>1
  <1> QED BY <1>1, <1>2, <1>3

LEMMA YoungerFacts ==
  ASSUME NEW s \in Seq(Nat)
  PROVE  LET y == [i \in DOMAIN s |-> s[i] + 1]
         IN  /\ y \in Seq(Nat) /\ Len(y) = Len(s)
             /\ \A i \in 1 .. Len(s) : y[i] = s[i] + 1
  <1>1. DOMAIN s = 1 .. Len(s) /\ Len(s) \in Nat /\ \A i \in 1 .. Len(s) : s[i] \in Nat
    OBVIOUS
  <1> QED BY <1>1
-----------------------------------------------------------------------------
(* Counting: a request that holds a slot or a charge makes its counter     *)
(* positive, and one request more or less changes it by one.               *)

LEMMA Counting ==
  ASSUME NEW A \in SUBSET Requests
  PROVE  /\ Cardinality(A) \in Nat
         /\ \A r \in Requests : r \notin A => Cardinality(A \cup {r}) = Cardinality(A) + 1
         /\ \A r \in A : Cardinality(A) > 0 /\ Cardinality(A \ {r}) = Cardinality(A) - 1
  <1>1. IsFiniteSet(A)
    BY RequestsAssumption, FS_Subset
  <1>2. Cardinality(A) \in Nat
    BY <1>1, FS_CardinalityType
  <1>3. \A r \in Requests : r \notin A => Cardinality(A \cup {r}) = Cardinality(A) + 1
    BY <1>1, FS_AddElement
  <1>4. ASSUME NEW r \in A PROVE Cardinality(A) > 0 /\ Cardinality(A \ {r}) = Cardinality(A) - 1
    <2>1. Cardinality(A \ {r}) = Cardinality(A) - 1
      BY <1>1, FS_RemoveElement
    <2>2. Cardinality(A \ {r}) \in Nat
      BY <1>1, FS_Subset, FS_CardinalityType
    <2> QED BY <1>2, <2>1, <2>2
  <1> QED BY <1>2, <1>3, <1>4

LEMMA HeldCounts ==
  ASSUME TypeOK, SlotInv, NEW r \in Requests, Held(r)
  PROVE  active - 1 \in Nat
  <1>1. Holders \in SUBSET Requests /\ r \in Holders
    BY DEF Holders
  <1>2. Cardinality(Holders) \in Nat /\ Cardinality(Holders) > 0
    BY <1>1, Counting
  <1> QED BY <1>2 DEF SlotInv

LEMMA ChargedCounts ==
  ASSUME TypeOK, ChargeInv, NEW r \in Requests, r \in Charged
  PROVE  used - 1 \in Nat
  <1>1. Charged \in SUBSET Requests
    BY DEF Charged
  <1>2. Cardinality(Charged) \in Nat /\ Cardinality(Charged) > 0
    BY <1>1, Counting
  <1> QED BY <1>2 DEF ChargeInv

\* drain() prunes what ran out and nothing else.
LEMMA PrunedFacts ==
  ASSUME TypeOK, WindowInv
  PROVE  /\ Pruned \in Seq(Nat) /\ Len(Pruned) = Len(recent)
         /\ \A i \in 1 .. Len(recent) : Pruned[i] = Window - recent[i]
  <1>1. PICK n \in 0 .. Len(starts) :
            /\ \A i \in 1 .. n : starts[i] \in {0}
            /\ n < Len(starts) => starts[n + 1] \notin {0}
            /\ Pruned \in Seq(Nat) /\ Len(Pruned) = Len(starts) - n
            /\ \A i \in 1 .. Len(starts) - n : Pruned[i] = starts[n + i]
    <2>1. starts \in Seq(Nat)
      BY DEF TypeOK
    <2> QED BY <2>1, ShiftedFacts, Zenon DEF Pruned
  <1>2. /\ Len(starts) \in Nat /\ Len(recent) \in Nat /\ Stale \in Nat
        /\ Len(starts) = Stale + Len(recent) /\ Window \in Nat
        /\ \A i \in 1 .. Len(recent) : recent[i] \in Nat
    <2>1. starts \in Seq(Nat) /\ recent \in Seq(Nat) /\ Window \in Nat
      BY LimitsAssumption DEF TypeOK
    <2>2. Stale >= 0
      BY DEF WindowInv
    <2> QED BY <2>1, <2>2 DEF Stale
  <1>3. \A i \in 1 .. Stale : starts[i] = 0
    BY DEF WindowInv
  <1>4. \A i \in 1 .. Len(recent) : starts[Stale + i] = Window - recent[i] /\ recent[i] < Window
    BY DEF WindowInv
  <1>5. ~(n < Stale)
    <2> SUFFICES ASSUME n < Stale PROVE FALSE
      OBVIOUS
    <2>1. n + 1 \in 1 .. Stale
      BY <1>2
    <2> QED BY <1>1, <1>2, <1>3, <2>1
  <1>6. ~(Stale < n)
    <2> SUFFICES ASSUME Stale < n PROVE FALSE
      OBVIOUS
    <2>1. 1 \in 1 .. Len(recent) /\ Stale + 1 \in 1 .. n
      BY <1>1, <1>2
    <2>2. starts[Stale + 1] = Window - recent[1] /\ recent[1] < Window
      BY <1>4, <2>1
    <2>3. starts[Stale + 1] = 0
      BY <1>1, <2>1
    <2> QED BY <1>2, <2>1, <2>2, <2>3
  <1>7. n = Stale
    BY <1>2, <1>5, <1>6
  <1> QED BY <1>1, <1>2, <1>4, <1>7

\* Only the request at the head of the queue is dispatched.
LEMMA DequeueFacts ==
  ASSUME IInv, NEW r \in Requests, MayDispatch, Dequeue(r)
  PROVE  /\ Len(queue) \in Nat /\ Len(queue) > 0 /\ queue[1] = r /\ state[r] = "queued" /\ Shape(r)
         /\ queue' = Tail(queue) /\ Len(queue') = Len(queue) - 1
         /\ \A i \in 1 .. Len(queue) - 1 : queue'[i] = queue[i + 1]
         /\ r \in Mutations => ~mutationActive
  <1>1. queue \in Seq(Requests) /\ queue # <<>> /\ r = Head(queue) /\ queue' = Tail(queue)
    BY DEF IInv, TypeOK, MayDispatch, Dequeue, NextRequest
  <1>2. Len(queue) \in Nat /\ Len(queue) > 0 /\ queue[1] = r /\ 1 \in DOMAIN queue
    BY <1>1
  <1>3. state[r] = "queued" /\ Shape(r)
    BY <1>2 DEF IInv, QueueInv, RequestInv
  <1>4. Len(queue') = Len(queue) - 1 /\ \A i \in 1 .. Len(queue) - 1 : queue'[i] = queue[i + 1]
    BY <1>1
  <1>5. r \in Mutations => ~mutationActive
    BY <1>1 DEF MayDispatch, NextRequest
  <1> QED BY <1>1, <1>2, <1>3, <1>4, <1>5
-----------------------------------------------------------------------------
(* Types.                                                                  *)

LEMMA TypeNext == IInv /\ [Next]_vars => TypeOK'
  <1> SUFFICES ASSUME IInv, [Next]_vars PROVE TypeOK'
    OBVIOUS
  <1> USE DEF IInv, State, Promise, queues, clocks
  <1>1. ASSUME NEW r \in Requests, RejectRun(r) PROVE TypeOK'
    BY <1>1 DEF TypeOK, RejectRun
  <1>2. ASSUME NEW r \in Requests, Run(r) PROVE TypeOK'
    <2>1. Cardinality(Arrived) + 1 \in Nat
      BY Counting DEF Arrived
    <2> QED BY <1>2, <2>1 DEF TypeOK, Run, Arrived
  <1>3. CASE DrainReturns
    <2>1. Len(Pruned) >= RateCap => Head(Pruned) \in Nat
      BY PrunedFacts, LimitsAssumption DEF TypeOK
    <2>2. Pruned \in Seq(Nat)
      BY PrunedFacts
    <2> HIDE DEF IInv
    <2>3. TypeOK
      BY DEF IInv
    <2>4. starts' \in Seq(Nat)
      BY <1>3, <2>2, <2>3 DEF TypeOK, DrainReturns
    <2>5. timer' \in Nat \cup {NoTimer}
      BY <1>3, <2>1, <2>3 DEF TypeOK, DrainReturns, Scheduled, AtLeast, NoTimer
    <2> QED BY <1>3, <2>3, <2>4, <2>5 DEF TypeOK, DrainReturns
  <1>4. ASSUME NEW r \in Requests, MayDispatch, Dequeue(r)
        PROVE  /\ queue' \in Seq(Requests) /\ starts' \in Seq(Nat) /\ recent' \in Seq(Nat)
               /\ draining' \in BOOLEAN /\ state[r] = "queued"
    <2>1. queue \in Seq(Requests) /\ queue # <<>>
      BY <1>4 DEF TypeOK, MayDispatch
    <2> QED BY SMTT(30), <1>4, <2>1, DequeueFacts, PrunedFacts, LimitsAssumption DEF TypeOK, Dequeue
  <1>5. ASSUME NEW r \in Requests, DispatchAsync(r) PROVE TypeOK'
    BY SMTT(30), <1>4, <1>5 DEF TypeOK, DispatchAsync, Dequeue
  <1>6. ASSUME NEW r \in Requests, DispatchSync(r) PROVE TypeOK'
    BY <1>4, <1>6 DEF TypeOK, DispatchSync, Dequeue
  <1>7. ASSUME NEW r \in Requests, NEW started \in BOOLEAN, DispatchThrows(r, started) PROVE TypeOK'
    <2>1. r \in Charged
      BY <1>4, <1>7 DEF DispatchThrows, Charged
    <2> QED BY <1>4, <1>7, <2>1, ChargedCounts DEF TypeOK, DispatchThrows, Dequeue
  <1>8. ASSUME NEW r \in Requests, AbortQueued(r) PROVE TypeOK'
    <2>1. used - 1 \in Nat
      BY <1>8, ChargedCounts DEF AbortQueued, Charged
    <2>2. queue' \in Seq(Requests)
      BY <1>8, RemoveAtFacts DEF AbortQueued, TypeOK
    <2> QED BY <1>8, <2>1, <2>2 DEF TypeOK, AbortQueued
  <1>9. ASSUME NEW r \in Requests, AbortPreDispatch(r) PROVE TypeOK'
    <2>1. used - 1 \in Nat
      BY <1>9, ChargedCounts DEF AbortPreDispatch, Charged
    <2>2. active - 1 \in Nat
      BY <1>9, HeldCounts DEF AbortPreDispatch, Held
    <2> QED BY <1>9, <2>1, <2>2 DEF TypeOK, AbortPreDispatch, ReleaseActive
  <1>10. ASSUME NEW r \in Requests, HookResolves(r) PROVE TypeOK'
    BY <1>10 DEF TypeOK, HookResolves, ReleaseActive, RequestInv, Shape
  <1>11. ASSUME NEW r \in Requests, HookRejects(r) PROVE TypeOK'
    <2>1. CASE state[r] = "cancelled"
      BY <1>11, <2>1 DEF TypeOK, HookRejects, ReleaseActive, RequestInv, Shape
    <2>2. CASE state[r] = "pre_dispatch"
      <3>1. used - 1 \in Nat
        BY <2>2, ChargedCounts DEF Charged
      <3>2. active - 1 \in Nat
        BY <2>2, HeldCounts DEF Held
      <3> QED BY <1>11, <2>2, <3>1, <3>2 DEF TypeOK, HookRejects, ReleaseActive
    <2> QED BY <1>11, <2>1, <2>2 DEF HookRejects
  <1>12. ASSUME NEW r \in Requests, OperationSettles(r) PROVE TypeOK'
    BY <1>12 DEF TypeOK, OperationSettles
  <1>13. ASSUME NEW r \in Requests, Finally(r) PROVE TypeOK'
    <2>1. active - 1 \in Nat
      BY <1>13, HeldCounts DEF Finally, Held
    <2> QED BY <1>13, <2>1 DEF TypeOK, Finally, ReleaseActive
  <1>14. ASSUME NEW delay \in Delays, NoteRateLimited(delay) PROVE TypeOK'
    <2>1. delay \in Nat
      BY LimitsAssumption
    <2>2. cooldown' \in Nat /\ pauses' \in Seq(Nat)
      BY <1>14, <2>1 DEF TypeOK, NoteRateLimited, AtLeast
    <2> QED BY <1>14, <2>2 DEF TypeOK, NoteRateLimited, Scheduled, AtLeast, NoTimer
  <1>15. CASE TimerFires
    BY <1>15 DEF TypeOK, TimerFires
  <1>16. CASE Tick
    <2>1. starts' \in Seq(Nat) /\ pauses' \in Seq(Nat)
      BY <1>16, OlderFacts DEF Tick, TypeOK
    <2>2. recent' \in Seq(Nat)
      <3>1. Shifted(recent, {Window - 1}) \in Seq(Nat)
        BY ShiftedFacts DEF TypeOK
      <3> QED BY <1>16, <3>1, YoungerFacts DEF Tick
    <2>3. cooldown' \in Nat /\ timer' \in Nat \cup {NoTimer}
      BY <1>16 DEF Tick, TypeOK, AtLeast, NoTimer
    <2> QED BY <1>16, <2>1, <2>2, <2>3 DEF TypeOK, Tick
  <1>17. CASE UNCHANGED vars
    BY <1>17 DEF TypeOK, vars
  <1> QED BY <1>1, <1>2, <1>3, <1>5, <1>6, <1>7, <1>8, <1>9, <1>10, <1>11, <1>12, <1>13,
             <1>14, <1>15, <1>16, <1>17 DEF Next, Drain, Settle
-----------------------------------------------------------------------------
(* The life of one request.                                                *)

LEMMA RequestNext == IInv /\ [Next]_vars => RequestInv'
  <1> SUFFICES ASSUME IInv, [Next]_vars, NEW q \in Requests PROVE Shape(q)'
    BY DEF RequestInv
  <1>0. TypeOK /\ Shape(q) /\ \A r \in Requests : Shape(r)
    BY DEF IInv, RequestInv
  <1> USE <1>0 DEF queues, clocks
  <1>1. ASSUME NEW r \in Requests, RejectRun(r) PROVE Shape(q)'
    BY <1>1 DEF TypeOK, Shape, RejectRun
  <1>2. ASSUME NEW r \in Requests, Run(r) PROVE Shape(q)'
    BY <1>2 DEF TypeOK, Shape, Run
  <1>3. CASE DrainReturns
    BY <1>3 DEF Shape, DrainReturns
  <1>4. ASSUME NEW r \in Requests, DispatchAsync(r) PROVE Shape(q)'
    <2>1. state[r] = "queued"
      BY <1>4, DequeueFacts DEF DispatchAsync
    <2> QED BY <1>4, <2>1 DEF TypeOK, Shape, DispatchAsync, Dequeue
  <1>5. ASSUME NEW r \in Requests, DispatchSync(r) PROVE Shape(q)'
    <2>1. state[r] = "queued"
      BY <1>5, DequeueFacts DEF DispatchSync
    <2> QED BY <1>5, <2>1 DEF TypeOK, Shape, DispatchSync, Dequeue
  <1>6. ASSUME NEW r \in Requests, NEW started \in BOOLEAN, DispatchThrows(r, started)
        PROVE  Shape(q)'
    <2>1. state[r] = "queued"
      BY <1>6, DequeueFacts DEF DispatchThrows
    <2> QED BY <1>6, <2>1 DEF TypeOK, Shape, DispatchThrows, Dequeue
  <1>7. ASSUME NEW r \in Requests, AbortQueued(r) PROVE Shape(q)'
    BY <1>7 DEF TypeOK, Shape, AbortQueued
  <1>8. ASSUME NEW r \in Requests, AbortPreDispatch(r) PROVE Shape(q)'
    BY <1>8 DEF TypeOK, Shape, AbortPreDispatch, ReleaseActive
  <1>9. ASSUME NEW r \in Requests, HookResolves(r) PROVE Shape(q)'
    BY <1>9 DEF TypeOK, Shape, HookResolves, ReleaseActive
  <1>10. ASSUME NEW r \in Requests, HookRejects(r) PROVE Shape(q)'
    BY <1>10 DEF TypeOK, Shape, HookRejects, ReleaseActive
  <1>11. ASSUME NEW r \in Requests, OperationSettles(r) PROVE Shape(q)'
    BY <1>11 DEF TypeOK, Shape, OperationSettles
  <1>12. ASSUME NEW r \in Requests, Finally(r) PROVE Shape(q)'
    BY <1>12 DEF TypeOK, Shape, Finally, ReleaseActive
  <1>13. ASSUME NEW delay \in Delays, NoteRateLimited(delay) PROVE Shape(q)'
    BY <1>13 DEF Shape, NoteRateLimited
  <1>14. CASE TimerFires
    BY <1>14 DEF Shape, TimerFires
  <1>15. CASE Tick
    BY <1>15 DEF Shape, Tick
  <1>16. CASE UNCHANGED vars
    BY <1>16 DEF Shape, vars
  <1> QED BY <1>1, <1>2, <1>3, <1>4, <1>5, <1>6, <1>7, <1>8, <1>9, <1>10, <1>11, <1>12, <1>13,
             <1>14, <1>15, <1>16 DEF Next, Drain, Settle
-----------------------------------------------------------------------------
(* Window and pauses.                                                      *)

LEMMA WindowNext == IInv /\ [Next]_vars => WindowInv'
  <1> SUFFICES ASSUME IInv, [Next]_vars PROVE WindowInv'
    OBVIOUS
  <1>0. /\ starts \in Seq(Nat) /\ recent \in Seq(Nat) /\ Len(starts) \in Nat /\ Len(recent) \in Nat
        /\ Stale \in Nat /\ Len(starts) = Stale + Len(recent)
        /\ Window \in Nat \ {0} /\ RateCap \in Nat /\ Len(recent) <= RateCap
        /\ \A i \in 1 .. Len(recent) : recent[i] \in Nat
    <2>1. starts \in Seq(Nat) /\ recent \in Seq(Nat) /\ Window \in Nat \ {0} /\ RateCap \in Nat
      BY LimitsAssumption DEF IInv, TypeOK
    <2>2. Stale >= 0 /\ Len(recent) <= RateCap
      BY DEF IInv, WindowInv
    <2> QED BY <2>1, <2>2 DEF Stale
  <1>1. CASE UNCHANGED <<starts, recent>>
    BY <1>1 DEF IInv, WindowInv, Stale
  <1>2. /\ Pruned \in Seq(Nat) /\ Len(Pruned) = Len(recent)
        /\ \A i \in 1 .. Len(recent) : Pruned[i] = Window - recent[i] /\ recent[i] < Window
        /\ \A i, j \in 1 .. Len(recent) : i < j => recent[j] <= recent[i]
    BY PrunedFacts DEF IInv, WindowInv
  <1>3. CASE starts' = Pruned /\ recent' = recent
    <2>1. Stale' = 0
      BY <1>0, <1>2, <1>3 DEF Stale
    <2> QED BY <1>0, <1>2, <1>3, <2>1 DEF WindowInv
  <1>4. ASSUME NEW r \in Requests, MayDispatch, Dequeue(r) PROVE WindowInv'
    <2>1. starts' = Append(Pruned, Window) /\ recent' = Append(recent, 0) /\ Len(Pruned) < RateCap
      BY <1>4 DEF MayDispatch, Dequeue
    <2>2. /\ Len(starts') = Len(recent) + 1 /\ Len(recent') = Len(recent) + 1
          /\ \A i \in 1 .. Len(recent) : starts'[i] = Pruned[i] /\ recent'[i] = recent[i]
          /\ starts'[Len(recent) + 1] = Window /\ recent'[Len(recent) + 1] = 0
      BY <1>0, <1>2, <2>1
    <2>3. Stale' = 0
      BY <1>0, <2>2 DEF Stale
    <2>4. \A i \in 1 .. Len(recent') : recent'[i] < Window /\ starts'[i] = Window - recent'[i]
      <3> SUFFICES ASSUME NEW i \in 1 .. Len(recent')
                   PROVE  recent'[i] < Window /\ starts'[i] = Window - recent'[i]
        OBVIOUS
      <3>1. CASE i = Len(recent) + 1
        BY <1>0, <2>2, <3>1
      <3>2. CASE i \in 1 .. Len(recent)
        BY <1>2, <2>2, <3>2
      <3> QED BY <1>0, <2>2, <3>1, <3>2
    <2>5. ASSUME NEW i \in 1 .. Len(recent'), NEW j \in 1 .. Len(recent'), i < j
          PROVE  recent'[j] <= recent'[i]
      <3>1. i \in 1 .. Len(recent) /\ recent'[i] = recent[i] /\ recent[i] \in Nat
        BY SMTT(30), <1>0, <2>2, <2>5
      <3>2. CASE j = Len(recent) + 1
        BY <2>2, <3>1, <3>2
      <3>3. CASE j \in 1 .. Len(recent)
        BY <1>2, <2>2, <2>5, <3>1, <3>3
      <3> QED BY <1>0, <2>2, <3>2, <3>3
    <2>6. Len(recent') <= RateCap
      BY <1>0, <1>2, <2>1, <2>2
    <2> QED BY <1>0, <2>2, <2>3, <2>4, <2>5, <2>6 DEF WindowInv
  <1>5. CASE Tick
    <2> DEFINE kept == Shifted(recent, {Window - 1})
    <2>1. PICK n \in 0 .. Len(recent) :
              /\ \A i \in 1 .. n : recent[i] \in {Window - 1}
              /\ n < Len(recent) => recent[n + 1] \notin {Window - 1}
              /\ kept \in Seq(Nat) /\ Len(kept) = Len(recent) - n
              /\ \A i \in 1 .. Len(recent) - n : kept[i] = recent[n + i]
      <3>1. recent \in Seq(Nat)
        BY <1>0
      <3> QED BY ZenonT(30), <3>1, ShiftedFacts
    <2>0. Window \in Nat /\ Window > 0
      BY <1>0
    <2>2. recent' = [i \in DOMAIN kept |-> kept[i] + 1] /\ starts' = Older(starts)
      BY <1>5 DEF Tick
    <2> HIDE DEF kept
    <2>3. Len(recent') = Len(recent) - n /\ \A i \in 1 .. Len(recent) - n : recent'[i] = recent[n + i] + 1
      <3>1. Len(recent') = Len(kept) /\ \A i \in 1 .. Len(kept) : recent'[i] = kept[i] + 1
        BY <2>1, <2>2, YoungerFacts
      <3> QED BY <2>1, <3>1
    <2>4. /\ Len(starts') = Len(starts)
          /\ \A i \in 1 .. Len(starts) : starts'[i] = IF starts[i] = 0 THEN 0 ELSE starts[i] - 1
      BY <1>0, <2>2, OlderFacts
    <2>5. Stale' = Stale + n
      BY <1>0, <2>3, <2>4 DEF Stale
    <2>6. \A i \in 1 .. Len(recent) : starts[Stale + i] = Window - recent[i]
      BY DEF IInv, WindowInv
    <2>7. \A i \in 1 .. Stale + n : starts'[i] = 0
      <3> SUFFICES ASSUME NEW i \in 1 .. Stale + n PROVE starts'[i] = 0
        OBVIOUS
      <3>1. CASE i \in 1 .. Stale
        BY <1>0, <2>4, <3>1 DEF IInv, WindowInv
      <3>2. CASE i - Stale \in 1 .. n
        <4>1. i - Stale \in 1 .. Len(recent) /\ Stale + (i - Stale) = i /\ i \in 1 .. Len(starts)
          BY <1>0, <2>1, <3>2
        <4>2. starts[i] = Window - recent[i - Stale] /\ recent[i - Stale] = Window - 1
          BY <2>1, <2>6, <3>2, <4>1
        <4> QED BY <1>0, <2>4, <4>1, <4>2
      <3> QED BY <1>0, <3>1, <3>2
    <2>8. ASSUME NEW i \in 1 .. Len(recent) - n
          PROVE  recent'[i] < Window /\ starts'[Stale + n + i] = Window - recent'[i]
      <3>1. n + i \in 1 .. Len(recent) /\ n + 1 \in 1 .. Len(recent) /\ Stale + (n + i) = Stale + n + i
        BY <1>0, <2>1
      <3>2. recent[n + i] <= recent[n + 1]
        BY <1>0, <1>2, <3>1
      <3>3. recent[n + 1] < Window - 1
        <4>1. recent[n + 1] < Window /\ recent[n + 1] # Window - 1 /\ recent[n + 1] \in Nat
          BY <1>0, <1>2, <2>1, <3>1
        <4> QED BY <2>0, <4>1
      <3>4. recent'[i] = recent[n + i] + 1 /\ recent[n + i] \in Nat /\ recent[n + 1] \in Nat
        BY <1>0, <2>3, <3>1
      <3>5. starts[Stale + n + i] = Window - recent[n + i] /\ Stale + n + i \in 1 .. Len(starts)
        BY <1>0, <2>6, <3>1
      <3>6. recent[n + i] < Window - 1
        BY <2>0, <3>2, <3>3, <3>4
      <3>7. starts'[Stale + n + i] = starts[Stale + n + i] - 1
        <4>1. starts[Stale + n + i] # 0
          BY <2>0, <3>4, <3>5, <3>6
        <4> QED BY <2>4, <3>5, <4>1
      <3> QED BY SMTT(30), <2>0, <3>4, <3>5, <3>6, <3>7
    <2>9. ASSUME NEW i \in 1 .. Len(recent) - n, NEW j \in 1 .. Len(recent) - n, i < j
          PROVE  recent'[j] <= recent'[i]
      <3>1. n + i \in 1 .. Len(recent) /\ n + j \in 1 .. Len(recent) /\ n + i < n + j
        BY <1>0, <2>1, <2>9
      <3>2. recent[n + j] <= recent[n + i] /\ recent[n + j] \in Nat /\ recent[n + i] \in Nat
        BY <1>0, <1>2, <3>1
      <3> QED BY <2>3, <3>2
    <2> QED BY <1>0, <2>1, <2>3, <2>5, <2>7, <2>8, <2>9 DEF WindowInv
  <1>6. CASE DrainReturns
    <2>1. starts' = starts \/ starts' = Pruned
      BY <1>6 DEF DrainReturns
    <2>2. recent' = recent
      BY <1>6 DEF DrainReturns, clocks
    <2> QED BY <1>1, <1>3, <2>1, <2>2
  <1>7. Next \/ UNCHANGED vars
    OBVIOUS
  <1>8. \/ UNCHANGED <<starts, recent>> \/ Tick \/ DrainReturns
        \/ \E r \in Requests : MayDispatch /\ Dequeue(r)
    BY <1>7 DEF Next, Drain, Settle, vars, queues, clocks, RejectRun, Run, DispatchAsync,
       DispatchSync,
                DispatchThrows, AbortQueued, AbortPreDispatch, HookResolves, HookRejects,
                OperationSettles, Finally, NoteRateLimited, TimerFires
  <1> QED BY <1>1, <1>4, <1>5, <1>6, <1>8

LEMMA PauseNext == IInv /\ [Next]_vars => PauseInv'
  <1> SUFFICES ASSUME IInv, [Next]_vars PROVE PauseInv'
    OBVIOUS
  <1>0. /\ pauses \in Seq(Nat) /\ cooldown \in Nat /\ DOMAIN pauses = 1 .. Len(pauses)
        /\ \A i \in 1 .. Len(pauses) : pauses[i] \in Nat /\ pauses[i] <= cooldown
    <2>1. pauses \in Seq(Nat) /\ cooldown \in Nat /\ \A i \in DOMAIN pauses : pauses[i] <= cooldown
      BY DEF IInv, TypeOK, PauseInv
    <2> QED BY <2>1
  <1>1. CASE UNCHANGED <<pauses, cooldown>>
    BY <1>0, <1>1 DEF PauseInv
  <1>2. ASSUME NEW delay \in Delays, NoteRateLimited(delay) PROVE PauseInv'
    <2>1. delay \in Nat /\ pauses' = Append(pauses, delay) /\ cooldown' = AtLeast(cooldown, delay)
      BY <1>2, LimitsAssumption DEF NoteRateLimited
    <2>2. cooldown' \in Nat /\ cooldown <= cooldown' /\ delay <= cooldown'
      BY <1>0, <2>1 DEF AtLeast
    <2>3. /\ DOMAIN pauses' = 1 .. Len(pauses) + 1 /\ pauses'[Len(pauses) + 1] = delay
          /\ \A i \in 1 .. Len(pauses) : pauses'[i] = pauses[i]
      BY <1>0, <2>1
    <2> SUFFICES ASSUME NEW i \in 1 .. Len(pauses) + 1 PROVE pauses'[i] <= cooldown'
      BY <2>3 DEF PauseInv
    <2>4. CASE i = Len(pauses) + 1
      BY <2>2, <2>3, <2>4
    <2>5. CASE i \in 1 .. Len(pauses)
      BY <1>0, <2>2, <2>3, <2>5
    <2> QED BY <1>0, <2>4, <2>5
  <1>3. CASE Tick
    <2>1. cooldown' = AtLeast(cooldown - 1, 0) /\ pauses' = Older(pauses)
      BY <1>3 DEF Tick
    <2>2. /\ pauses' \in Seq(Nat) /\ Len(pauses') = Len(pauses)
          /\ \A i \in 1 .. Len(pauses) : pauses'[i] = IF pauses[i] = 0 THEN 0 ELSE pauses[i] - 1
      BY <1>0, <2>1, OlderFacts
    <2>3. DOMAIN pauses' = 1 .. Len(pauses)
      BY <2>2
    <2> QED BY <1>0, <2>1, <2>2, <2>3 DEF PauseInv, AtLeast
  <1>4. Next \/ UNCHANGED vars
    OBVIOUS
  <1>5. UNCHANGED <<pauses, cooldown>> \/ Tick \/ \E delay \in Delays : NoteRateLimited(delay)
    BY <1>4 DEF Next, Drain, Settle, vars, queues, clocks, RejectRun, Run, DispatchAsync,
       DispatchSync,
                DispatchThrows, DrainReturns, Dequeue, AbortQueued, AbortPreDispatch, HookResolves,
                HookRejects, OperationSettles, Finally, TimerFires
  <1> QED BY <1>1, <1>2, <1>3, <1>5
-----------------------------------------------------------------------------
(* Slots and charges: every step takes, gives back or leaves alone.        *)

SlotsKept ==
    /\ \A q \in Requests : Held(q)' <=> Held(q)
    /\ active' = active /\ (mutationActive' <=> mutationActive)
SlotTaken(r) ==
    /\ ~Held(r) /\ (r \in Mutations => ~mutationActive)
    /\ \A q \in Requests : Held(q)' <=> Held(q) \/ q = r
    /\ active' = active + 1 /\ (mutationActive' <=> mutationActive \/ r \in Mutations)
SlotGivenBack(r) ==
    /\ Held(r)
    /\ \A q \in Requests : Held(q)' <=> Held(q) /\ q # r
    /\ active' = active - 1 /\ (mutationActive' <=> mutationActive /\ r \notin Mutations)

LEMMA SlotStep ==
  ASSUME IInv, [Next]_vars
  PROVE  SlotsKept \/ \E r \in Requests : SlotTaken(r) \/ SlotGivenBack(r)
  <1>0. TypeOK /\ \A r \in Requests : Shape(r)
    BY DEF IInv, RequestInv
  <1> USE <1>0 DEF queues, clocks
  <1>1. ASSUME NEW r \in Requests, RejectRun(r) PROVE SlotsKept
    BY <1>1 DEF TypeOK, Shape, SlotsKept, Held, RejectRun
  <1>2. ASSUME NEW r \in Requests, Run(r) PROVE SlotsKept
    BY <1>2 DEF TypeOK, Shape, SlotsKept, Held, Run
  <1>3. CASE DrainReturns
    BY <1>3 DEF SlotsKept, Held, DrainReturns
  <1>4. ASSUME NEW r \in Requests, DispatchAsync(r) PROVE SlotTaken(r)
    <2>1. state[r] = "queued" /\ (r \in Mutations => ~mutationActive)
      BY <1>4, DequeueFacts DEF DispatchAsync
    <2> QED BY <1>4, <2>1 DEF TypeOK, Shape, SlotTaken, Held, DispatchAsync
  <1>5. ASSUME NEW r \in Requests, DispatchSync(r) PROVE SlotTaken(r)
    <2>1. state[r] = "queued" /\ (r \in Mutations => ~mutationActive)
      BY <1>5, DequeueFacts DEF DispatchSync
    <2> QED BY <1>5, <2>1 DEF TypeOK, Shape, SlotTaken, Held, DispatchSync
  <1>6. ASSUME NEW r \in Requests, NEW started \in BOOLEAN, DispatchThrows(r, started)
        PROVE  SlotsKept
    <2>1. state[r] = "queued" /\ (r \in Mutations => ~mutationActive)
      BY <1>6, DequeueFacts DEF DispatchThrows
    <2> QED BY <1>6, <2>1 DEF TypeOK, Shape, SlotsKept, Held, DispatchThrows
  <1>7. ASSUME NEW r \in Requests, AbortQueued(r) PROVE SlotsKept
    BY <1>7 DEF TypeOK, Shape, SlotsKept, Held, AbortQueued
  <1>8. ASSUME NEW r \in Requests, AbortPreDispatch(r) PROVE SlotGivenBack(r)
    BY <1>8 DEF TypeOK, Shape, SlotGivenBack, Held, AbortPreDispatch, ReleaseActive
  <1>9. ASSUME NEW r \in Requests, HookResolves(r) PROVE SlotsKept
    BY <1>9 DEF TypeOK, Shape, SlotsKept, Held, HookResolves, ReleaseActive
  <1>10. ASSUME NEW r \in Requests, HookRejects(r) PROVE SlotsKept \/ SlotGivenBack(r)
    <2>1. CASE state[r] = "cancelled"
      BY <1>10, <2>1 DEF TypeOK, Shape, SlotsKept, Held, HookRejects, ReleaseActive
    <2>2. CASE state[r] = "pre_dispatch"
      BY <1>10, <2>2 DEF TypeOK, Shape, SlotGivenBack, Held, HookRejects, ReleaseActive
    <2> QED BY <1>10, <2>1, <2>2 DEF HookRejects
  <1>11. ASSUME NEW r \in Requests, OperationSettles(r) PROVE SlotsKept
    BY <1>11 DEF TypeOK, Shape, SlotsKept, Held, OperationSettles
  <1>12. ASSUME NEW r \in Requests, Finally(r) PROVE SlotGivenBack(r)
    BY <1>12 DEF TypeOK, Shape, SlotGivenBack, Held, Finally, ReleaseActive
  <1>13. ASSUME NEW delay \in Delays, NoteRateLimited(delay) PROVE SlotsKept
    BY <1>13 DEF SlotsKept, Held, NoteRateLimited
  <1>14. CASE TimerFires
    BY <1>14 DEF SlotsKept, Held, TimerFires
  <1>15. CASE Tick
    BY <1>15 DEF SlotsKept, Held, Tick
  <1>16. CASE UNCHANGED vars
    BY <1>16 DEF SlotsKept, Held, vars
  <1> QED BY <1>1, <1>2, <1>3, <1>4, <1>5, <1>6, <1>7, <1>8, <1>9, <1>10, <1>11, <1>12, <1>13,
             <1>14, <1>15, <1>16 DEF Next, Drain, Settle

LEMMA SlotNext == IInv /\ [Next]_vars => SlotInv'
  <1> SUFFICES ASSUME IInv, [Next]_vars PROVE SlotInv'
    OBVIOUS
  <1>1. Holders \in SUBSET Requests /\ active = Cardinality(Holders)
    BY DEF IInv, SlotInv, Holders
  <1>2. CASE SlotsKept
    <2>1. Holders' = Holders
      BY <1>2 DEF SlotsKept, Holders
    <2> QED BY <1>1, <1>2, <2>1 DEF SlotsKept, SlotInv
  <1>3. ASSUME NEW r \in Requests, SlotTaken(r) PROVE SlotInv'
    <2>1. Holders' = Holders \cup {r} /\ r \notin Holders
      BY <1>3 DEF SlotTaken, Holders
    <2> QED BY <1>1, <1>3, <2>1, Counting DEF SlotTaken, SlotInv
  <1>4. ASSUME NEW r \in Requests, SlotGivenBack(r) PROVE SlotInv'
    <2>1. Holders' = Holders \ {r} /\ r \in Holders
      BY <1>4 DEF SlotGivenBack, Holders
    <2> QED BY <1>1, <1>4, <2>1, Counting DEF SlotGivenBack, SlotInv
  <1> QED BY <1>2, <1>3, <1>4, SlotStep

LEMMA FlagNext == IInv /\ [Next]_vars => FlagInv'
  <1> SUFFICES ASSUME IInv, [Next]_vars PROVE FlagInv'
    OBVIOUS
  <1>1. Mutations \subseteq Requests /\ FlagInv
    BY DEF IInv, Requests
  <1>2. CASE SlotsKept
    BY <1>1, <1>2 DEF SlotsKept, FlagInv
  <1>3. ASSUME NEW r \in Requests, SlotTaken(r) PROVE FlagInv'
    BY <1>1, <1>3 DEF SlotTaken, FlagInv
  <1>4. ASSUME NEW r \in Requests, SlotGivenBack(r) PROVE FlagInv'
    BY <1>1, <1>4 DEF SlotGivenBack, FlagInv
  <1> QED BY <1>2, <1>3, <1>4, SlotStep

IsCharged(r) == external[r] \/ state[r] \in {"queued", "pre_dispatch"}

ChargesKept == used' = used /\ \A q \in Requests : IsCharged(q)' <=> IsCharged(q)
ChargeTaken(r) ==
    /\ ~IsCharged(r) /\ used' = used + 1 /\ used + 1 <= MaxCalls
    /\ \A q \in Requests : IsCharged(q)' <=> IsCharged(q) \/ q = r
ChargeRefunded(r) ==
    /\ IsCharged(r) /\ used' = used - 1
    /\ \A q \in Requests : IsCharged(q)' <=> IsCharged(q) /\ q # r

LEMMA ChargeStep ==
  ASSUME IInv, [Next]_vars
  PROVE  ChargesKept \/ \E r \in Requests : ChargeTaken(r) \/ ChargeRefunded(r)
  <1>0. TypeOK /\ \A r \in Requests : Shape(r)
    BY DEF IInv, RequestInv
  <1> USE <1>0 DEF queues, clocks, IsCharged
  <1>1. ASSUME NEW r \in Requests, RejectRun(r) PROVE ChargesKept
    BY <1>1 DEF TypeOK, Shape, ChargesKept, RejectRun
  <1>2. ASSUME NEW r \in Requests, Run(r) PROVE ChargeTaken(r)
    BY <1>2 DEF TypeOK, Shape, ChargeTaken, Run, MayCharge
  <1>3. CASE DrainReturns
    BY <1>3 DEF ChargesKept, DrainReturns
  <1>4. ASSUME NEW r \in Requests, DispatchAsync(r) PROVE ChargesKept
    <2>1. state[r] = "queued"
      BY <1>4, DequeueFacts DEF DispatchAsync
    <2> QED BY <1>4, <2>1 DEF TypeOK, Shape, ChargesKept, DispatchAsync
  <1>5. ASSUME NEW r \in Requests, DispatchSync(r) PROVE ChargesKept
    <2>1. state[r] = "queued"
      BY <1>5, DequeueFacts DEF DispatchSync
    <2> QED BY <1>5, <2>1 DEF TypeOK, Shape, ChargesKept, DispatchSync
  <1>6. ASSUME NEW r \in Requests, NEW started \in BOOLEAN, DispatchThrows(r, started)
        PROVE  ChargesKept \/ ChargeRefunded(r)
    <2>1. state[r] = "queued"
      BY <1>6, DequeueFacts DEF DispatchThrows
    <2>2. CASE started = TRUE
      BY <1>6, <2>1, <2>2 DEF TypeOK, Shape, ChargesKept, DispatchThrows
    <2>3. CASE started = FALSE
      BY <1>6, <2>1, <2>3 DEF TypeOK, Shape, ChargeRefunded, DispatchThrows
    <2> QED BY <2>2, <2>3
  <1>7. ASSUME NEW r \in Requests, AbortQueued(r) PROVE ChargeRefunded(r)
    BY <1>7 DEF TypeOK, Shape, ChargeRefunded, AbortQueued
  <1>8. ASSUME NEW r \in Requests, AbortPreDispatch(r) PROVE ChargeRefunded(r)
    BY <1>8 DEF TypeOK, Shape, ChargeRefunded, AbortPreDispatch
  <1>9. ASSUME NEW r \in Requests, HookResolves(r) PROVE ChargesKept
    BY <1>9 DEF TypeOK, Shape, ChargesKept, HookResolves
  <1>10. ASSUME NEW r \in Requests, HookRejects(r) PROVE ChargesKept \/ ChargeRefunded(r)
    <2>1. CASE state[r] = "cancelled"
      BY <1>10, <2>1 DEF TypeOK, Shape, ChargesKept, HookRejects
    <2>2. CASE state[r] = "pre_dispatch"
      BY <1>10, <2>2 DEF TypeOK, Shape, ChargeRefunded, HookRejects
    <2> QED BY <1>10, <2>1, <2>2 DEF HookRejects
  <1>11. ASSUME NEW r \in Requests, OperationSettles(r) PROVE ChargesKept
    BY <1>11 DEF TypeOK, Shape, ChargesKept, OperationSettles
  <1>12. ASSUME NEW r \in Requests, Finally(r) PROVE ChargesKept
    BY <1>12 DEF ChargesKept, Finally
  <1>13. ASSUME NEW delay \in Delays, NoteRateLimited(delay) PROVE ChargesKept
    BY <1>13 DEF ChargesKept, NoteRateLimited
  <1>14. CASE TimerFires
    BY <1>14 DEF ChargesKept, TimerFires
  <1>15. CASE Tick
    BY <1>15 DEF ChargesKept, Tick
  <1>16. CASE UNCHANGED vars
    BY <1>16 DEF ChargesKept, vars
  <1> QED BY <1>1, <1>2, <1>3, <1>4, <1>5, <1>6, <1>7, <1>8, <1>9, <1>10, <1>11, <1>12, <1>13,
             <1>14, <1>15, <1>16 DEF Next, Drain, Settle

LEMMA ChargeNext == IInv /\ [Next]_vars => ChargeInv'
  <1> SUFFICES ASSUME IInv, [Next]_vars PROVE ChargeInv'
    OBVIOUS
  <1>1. /\ Charged \in SUBSET Requests /\ Charged = {q \in Requests : IsCharged(q)}
        /\ used = Cardinality(Charged) /\ used <= MaxCalls /\ used \in Nat /\ MaxCalls \in Nat
    BY LimitsAssumption DEF IInv, TypeOK, ChargeInv, Charged, IsCharged
  <1>2. Charged' = {q \in Requests : IsCharged(q)'}
    BY DEF Charged, IsCharged
  <1>3. CASE ChargesKept
    <2>1. Charged' = Charged
      BY <1>1, <1>2, <1>3 DEF ChargesKept
    <2> QED BY <1>1, <1>3, <2>1 DEF ChargesKept, ChargeInv
  <1>4. ASSUME NEW r \in Requests, ChargeTaken(r) PROVE ChargeInv'
    <2>1. Charged' = Charged \cup {r} /\ r \notin Charged
      BY <1>1, <1>2, <1>4 DEF ChargeTaken
    <2> QED BY <1>1, <1>4, <2>1, Counting DEF ChargeTaken, ChargeInv
  <1>5. ASSUME NEW r \in Requests, ChargeRefunded(r) PROVE ChargeInv'
    <2>1. Charged' = Charged \ {r} /\ r \in Charged
      BY <1>1, <1>2, <1>5 DEF ChargeRefunded
    <2> QED BY <1>1, <1>5, <2>1, Counting DEF ChargeRefunded, ChargeInv
  <1> QED BY <1>3, <1>4, <1>5, ChargeStep
-----------------------------------------------------------------------------
(* The queue.                                                              *)

Passed(r) == external[r] \/ hook[r] # "none"

LEMMA QueueNext == IInv /\ [Next]_vars => QueueInv'
  <1> SUFFICES ASSUME IInv, [Next]_vars PROVE QueueInv'
    OBVIOUS
  <1>0. /\ TypeOK /\ QueueInv /\ \A r \in Requests : Shape(r)
        /\ queue \in Seq(Requests) /\ Len(queue) \in Nat /\ DOMAIN queue = 1 .. Len(queue)
        /\ \A i \in 1 .. Len(queue) : queue[i] \in Requests
        /\ arrival \in [Requests -> Nat]
    <2>1. queue \in Seq(Requests)
      BY DEF IInv, TypeOK
    <2> QED BY <2>1 DEF IInv, TypeOK, RequestInv
  <1>1. /\ \A i \in 1 .. Len(queue) : state[queue[i]] = "queued"
        /\ \A r \in Requests : state[r] = "queued" => \E i \in 1 .. Len(queue) : queue[i] = r
        /\ \A i, j \in 1 .. Len(queue) : i < j => arrival[queue[i]] < arrival[queue[j]]
        /\ \A r \in Requests : arrival[r] <= Cardinality(Arrived)
        /\ \A a, b \in Requests : state[a] = "queued" /\ Passed(b) => arrival[b] < arrival[a]
    BY <1>0 DEF QueueInv, Passed
  <1>2. ASSUME UNCHANGED <<queue, arrival>>,
               \A q \in Requests : (state[q] = "queued")' <=> state[q] = "queued",
               \A q \in Requests : Passed(q)' => Passed(q)
        PROVE  QueueInv'
    <2>1. Arrived' = Arrived
      BY <1>2 DEF Arrived
    <2> QED BY <1>0, <1>1, <1>2, <2>1 DEF QueueInv, Passed
  <1>3. ASSUME NEW r \in Requests, Run(r) PROVE QueueInv'
    <2>0. Cardinality(Arrived) \in Nat /\ r \notin Arrived /\ Cardinality(Arrived \cup {r}) = Cardinality(Arrived) + 1
      <3>1. Arrived \in SUBSET Requests /\ r \notin Arrived
        BY <1>0, <1>3 DEF Arrived, Run, Shape
      <3> QED BY <3>1, Counting
    <2> DEFINE c == Cardinality(Arrived)
    <2>1. /\ arrival'[r] = c + 1
          /\ \A q \in Requests : q # r => arrival'[q] = arrival[q]
          /\ \A q \in Requests : arrival[q] \in Nat
      BY <1>0, <1>3 DEF Run, Arrived
    <2>2. Arrived' = Arrived \cup {r}
      BY <2>0, <2>1 DEF Arrived
    <2>3. Cardinality(Arrived') = c + 1 /\ c \in Nat
      BY <2>0, <2>2
    <2> HIDE DEF c
    <2>4. /\ DOMAIN queue' = 1 .. Len(queue) + 1 /\ queue'[Len(queue) + 1] = r
          /\ \A i \in 1 .. Len(queue) : queue'[i] = queue[i]
      <3>1. queue' = Append(queue, r)
        BY <1>3 DEF Run
      <3> QED BY <1>0, <3>1
    <2>5. \A q \in Requests : (state'[q] = "queued") <=> (state[q] = "queued" \/ q = r)
      BY <1>0, <1>3 DEF Run, TypeOK
    <2>6. \A q \in Requests : Passed(q)' <=> Passed(q)
      BY <1>3 DEF Run, Passed
    <2>7. ~Passed(r) /\ state[r] = "new"
      BY <1>0, <1>3 DEF Run, Shape, Passed
    <2>8. \A i \in 1 .. Len(queue) : queue[i] # r /\ queue[i] \in Requests
      BY <1>0, <1>1, <2>7
    <2>9. \A q \in Requests : q # r => arrival'[q] <= c /\ arrival'[q] \in Nat
      BY <1>1, <2>1 DEF c
    <2>10. \A i \in DOMAIN queue' : state'[queue'[i]] = "queued"
      BY <1>0, <1>1, <2>4, <2>5, <2>8
    <2>11. \A q \in Requests : state'[q] = "queued" => \E i \in DOMAIN queue' : queue'[i] = q
      <3> SUFFICES ASSUME NEW q \in Requests, state'[q] = "queued"
                   PROVE  \E i \in DOMAIN queue' : queue'[i] = q
        OBVIOUS
      <3>1. CASE q = r
        <4>1. Len(queue) + 1 \in DOMAIN queue'
          BY <1>0, <2>4
        <4> QED BY <2>4, <3>1, <4>1
      <3>2. CASE q # r
        <4>1. PICK i \in 1 .. Len(queue) : queue[i] = q
          BY <1>1, <2>5, <3>2
        <4>2. i \in DOMAIN queue' /\ queue'[i] = q
          BY <1>0, <2>4, <4>1
        <4> QED BY <4>2
      <3> QED BY <3>1, <3>2
    <2>12. ASSUME NEW i \in DOMAIN queue', NEW j \in DOMAIN queue', i < j
           PROVE  arrival'[queue'[i]] < arrival'[queue'[j]]
      <3>1. i \in 1 .. Len(queue) /\ queue'[i] = queue[i] /\ queue[i] # r /\ queue[i] \in Requests
        BY <1>0, <2>4, <2>8, <2>12
      <3>2. CASE j = Len(queue) + 1
        <4>1. queue'[j] = r /\ arrival'[queue'[i]] <= c /\ arrival'[queue'[i]] \in Nat
          BY <2>4, <2>9, <3>1, <3>2
        <4> QED BY <2>1, <2>3, <4>1 DEF c
      <3>3. CASE j \in 1 .. Len(queue)
        <4>1. queue'[j] = queue[j] /\ queue[j] # r /\ queue[j] \in Requests
          BY <2>4, <2>8, <3>3
        <4>2. arrival[queue[i]] < arrival[queue[j]]
          BY <1>1, <2>12, <3>1, <3>3
        <4> QED BY <2>1, <3>1, <4>1, <4>2
      <3> QED BY <1>0, <2>4, <3>2, <3>3
    <2>13. \A q \in Requests : arrival'[q] <= Cardinality(Arrived')
      BY <2>1, <2>3, <2>9 DEF c
    <2>14. ASSUME NEW a \in Requests, NEW b \in Requests, state'[a] = "queued", Passed(b)'
           PROVE  arrival'[b] < arrival'[a]
      <3>1. Passed(b) /\ b # r
        BY <2>6, <2>7, <2>14
      <3>2. CASE a = r
        BY <2>1, <2>3, <2>9, <3>1, <3>2 DEF c
      <3>3. CASE a # r
        BY <1>1, <2>1, <2>5, <2>14, <3>1, <3>3
      <3> QED BY <3>2, <3>3
    <2> QED BY <2>10, <2>11, <2>12, <2>13, <2>14 DEF QueueInv, Passed
  <1>4. ASSUME NEW r \in Requests, MayDispatch, Dequeue(r),
               \A q \in Requests : (state[q] = "queued")' <=> state[q] = "queued" /\ q # r,
               \A q \in Requests : Passed(q)' => Passed(q) \/ q = r
        PROVE  QueueInv'
    <2>1. /\ Len(queue) > 0 /\ queue[1] = r /\ Len(queue') = Len(queue) - 1
          /\ DOMAIN queue' = 1 .. Len(queue) - 1
          /\ \A i \in 1 .. Len(queue) - 1 : queue'[i] = queue[i + 1]
      <3>1. queue' = Tail(queue) /\ Len(queue) > 0 /\ queue[1] = r
        BY <1>4, DequeueFacts
      <3> QED BY <1>0, <3>1
    <2>2. \A i \in 2 .. Len(queue) : arrival[r] < arrival[queue[i]] /\ queue[i] # r
      <3> SUFFICES ASSUME NEW i \in 2 .. Len(queue)
                   PROVE  arrival[r] < arrival[queue[i]] /\ queue[i] # r
        OBVIOUS
      <3>1. arrival[r] < arrival[queue[i]] /\ queue[i] \in Requests
        BY <1>0, <1>1, <2>1
      <3>2. arrival[r] \in Nat
        BY <1>0
      <3> QED BY <3>1, <3>2
    <2>3. \A q \in Requests : state[q] = "queued" /\ q # r =>
             \E i \in 2 .. Len(queue) : queue[i] = q
      BY <1>0, <1>1, <2>1
    <2>4. arrival' = arrival /\ Arrived' = Arrived
      BY <1>4 DEF Dequeue, Arrived
    <2>5. \A i \in DOMAIN queue' : i + 1 \in 2 .. Len(queue) /\ i + 1 \in 1 .. Len(queue) /\ queue'[i] = queue[i + 1]
      BY <1>0, <2>1
    <2>6. \A i \in DOMAIN queue' : state'[queue'[i]] = "queued"
      BY SMTT(30), <1>0, <1>1, <1>4, <2>2, <2>5
    <2>7. \A q \in Requests : state'[q] = "queued" => \E i \in DOMAIN queue' : queue'[i] = q
      <3> SUFFICES ASSUME NEW q \in Requests, state'[q] = "queued"
                   PROVE  \E i \in DOMAIN queue' : queue'[i] = q
        OBVIOUS
      <3>1. PICK i \in 2 .. Len(queue) : queue[i] = q
        BY <1>4, <2>3
      <3>2. i - 1 \in DOMAIN queue' /\ queue'[i - 1] = queue[(i - 1) + 1] /\ (i - 1) + 1 = i
        BY <1>0, <2>1
      <3> QED BY <3>1, <3>2
    <2>8. ASSUME NEW i \in DOMAIN queue', NEW j \in DOMAIN queue', i < j
          PROVE  arrival'[queue'[i]] < arrival'[queue'[j]]
      <3>1. i + 1 < j + 1
        BY <1>0, <2>1, <2>8
      <3> QED BY <1>1, <2>4, <2>5, <3>1
    <2>9. ASSUME NEW a \in Requests, NEW b \in Requests, state'[a] = "queued", Passed(b)'
          PROVE  arrival'[b] < arrival'[a]
      <3>1. state[a] = "queued" /\ a # r
        BY <1>4, <2>9
      <3>2. CASE b = r
        BY <2>2, <2>3, <2>4, <3>1, <3>2
      <3>3. CASE Passed(b)
        BY <1>1, <2>4, <3>1, <3>3
      <3> QED BY <1>4, <2>9, <3>2, <3>3
    <2> QED BY <1>1, <2>4, <2>6, <2>7, <2>8, <2>9 DEF QueueInv, Passed
  <1>5. ASSUME NEW r \in Requests, AbortQueued(r) PROVE QueueInv'
    <2>1. PICK n \in 1 .. Len(queue) : queue[n] = r /\ queue' = RemoveAt(queue, n)
      BY <1>0, <1>5 DEF AbortQueued
    <2>2. /\ DOMAIN queue' = 1 .. Len(queue) - 1
          /\ \A i \in 1 .. Len(queue) - 1 : queue'[i] = IF i < n THEN queue[i] ELSE queue[i + 1]
      <3>1. queue' \in Seq(Requests) /\ Len(queue') = Len(queue) - 1
        BY <1>0, <2>1, RemoveAtFacts
      <3>2. DOMAIN queue' = 1 .. Len(queue) - 1
        BY <3>1
      <3> QED BY <1>0, <2>1, <3>2, RemoveAtFacts
    <2> DEFINE at(i) == IF i < n THEN i ELSE i + 1
    <2>3. \A i \in DOMAIN queue' : at(i) \in 1 .. Len(queue) /\ at(i) # n /\ queue'[i] = queue[at(i)]
      BY <1>0, <2>2
    <2>4. \A i, j \in DOMAIN queue' : i < j => at(i) < at(j)
      BY <1>0, <2>2
    <2>5. \A i \in 1 .. Len(queue) : i # n => queue[i] # r
      <3> SUFFICES ASSUME NEW i \in 1 .. Len(queue), i # n PROVE queue[i] # r
        OBVIOUS
      <3>1. i < n \/ n < i
        BY <1>0
      <3>2. arrival[queue[i]] < arrival[queue[n]] \/ arrival[queue[n]] < arrival[queue[i]]
        BY <1>1, <3>1
      <3>3. arrival[r] \in Nat
        BY <1>0
      <3> QED BY <2>1, <3>2, <3>3
    <2>6. /\ \A q \in Requests : (state'[q] = "queued") <=> (state[q] = "queued" /\ q # r)
          /\ \A q \in Requests : Passed(q)' <=> Passed(q)
          /\ arrival' = arrival /\ Arrived' = Arrived
      BY <1>0, <1>5 DEF AbortQueued, TypeOK, Passed, Arrived
    <2> HIDE DEF at
    <2>7. \A i \in DOMAIN queue' : state'[queue'[i]] = "queued"
      BY <1>0, <1>1, <2>3, <2>5, <2>6
    <2>8. \A q \in Requests : state'[q] = "queued" => \E i \in DOMAIN queue' : queue'[i] = q
      <3> SUFFICES ASSUME NEW q \in Requests, state'[q] = "queued"
                   PROVE  \E i \in DOMAIN queue' : queue'[i] = q
        OBVIOUS
      <3>1. PICK i \in 1 .. Len(queue) : queue[i] = q
        BY <1>1, <2>6
      <3>2. i # n
        BY <2>1, <2>6, <3>1
      <3>3. CASE i < n
        <4>1. i \in DOMAIN queue' /\ queue'[i] = queue[i]
          BY <1>0, <2>1, <2>2, <3>3
        <4> QED BY <3>1, <4>1
      <3>4. CASE n < i
        <4>1. i - 1 \in DOMAIN queue' /\ ~(i - 1 < n) /\ (i - 1) + 1 = i
          BY <1>0, <2>1, <2>2, <3>4
        <4>2. queue'[i - 1] = queue[i]
          BY <2>2, <4>1
        <4> QED BY <3>1, <4>1, <4>2
      <3> QED BY <1>0, <3>2, <3>3, <3>4
    <2>9. \A i, j \in DOMAIN queue' : i < j => arrival'[queue'[i]] < arrival'[queue'[j]]
      BY <1>1, <2>3, <2>4, <2>6
    <2> QED BY <1>1, <2>6, <2>7, <2>8, <2>9 DEF QueueInv, Passed
  <1> USE <1>0 DEF queues, clocks
  <1>6. ASSUME NEW r \in Requests, RejectRun(r) PROVE QueueInv'
    BY <1>2, <1>6 DEF TypeOK, Shape, Passed, RejectRun
  <1>7. CASE DrainReturns
    BY <1>2, <1>7 DEF Passed, DrainReturns
  <1>8. ASSUME NEW r \in Requests, DispatchAsync(r) PROVE QueueInv'
    BY <1>4, <1>8 DEF TypeOK, Shape, Passed, DispatchAsync
  <1>9. ASSUME NEW r \in Requests, DispatchSync(r) PROVE QueueInv'
    BY <1>4, <1>9 DEF TypeOK, Shape, Passed, DispatchSync
  <1>10. ASSUME NEW r \in Requests, NEW started \in BOOLEAN, DispatchThrows(r, started)
         PROVE  QueueInv'
    BY <1>4, <1>10 DEF TypeOK, Shape, Passed, DispatchThrows
  <1>11. ASSUME NEW r \in Requests, AbortPreDispatch(r) PROVE QueueInv'
    BY <1>2, <1>11 DEF TypeOK, Shape, Passed, AbortPreDispatch
  <1>12. ASSUME NEW r \in Requests, HookResolves(r) PROVE QueueInv'
    BY <1>2, <1>12 DEF TypeOK, Shape, Passed, HookResolves
  <1>13. ASSUME NEW r \in Requests, HookRejects(r) PROVE QueueInv'
    BY <1>2, <1>13 DEF TypeOK, Shape, Passed, HookRejects
  <1>14. ASSUME NEW r \in Requests, OperationSettles(r) PROVE QueueInv'
    BY <1>2, <1>14 DEF TypeOK, Shape, Passed, OperationSettles
  <1>15. ASSUME NEW r \in Requests, Finally(r) PROVE QueueInv'
    BY <1>2, <1>15 DEF Passed, Finally
  <1>16. ASSUME NEW delay \in Delays, NoteRateLimited(delay) PROVE QueueInv'
    BY <1>2, <1>16 DEF Passed, NoteRateLimited
  <1>17. CASE TimerFires
    BY <1>2, <1>17 DEF Passed, TimerFires
  <1>18. CASE Tick
    BY <1>2, <1>18 DEF Passed, Tick
  <1>19. CASE UNCHANGED vars
    BY <1>2, <1>19 DEF Passed, vars
  <1> QED BY <1>3, <1>5, <1>6, <1>7, <1>8, <1>9, <1>10, <1>11, <1>12, <1>13,
             <1>14, <1>15, <1>16, <1>17, <1>18, <1>19 DEF Next, Drain, Settle
-----------------------------------------------------------------------------
(* The theorems.                                                           *)

LEMMA InductiveInit == Init => IInv
  <1> SUFFICES ASSUME Init PROVE IInv
    OBVIOUS
  <1>0. <<>> \in Seq(Requests) /\ <<>> \in Seq(Nat)
    OBVIOUS
  <1>1. TypeOK
    BY <1>0 DEF Init, TypeOK, State, Promise, NoTimer
  <1>2. RequestInv /\ FlagInv /\ PauseInv
    BY DEF Init, RequestInv, Shape, FlagInv, Held, PauseInv, Requests
  <1>3. Arrived = {} /\ Holders = {} /\ Charged = {} /\ Cardinality({}) = 0
    BY FS_EmptySet DEF Init, Arrived, Holders, Held, Charged
  <1>4. SlotInv /\ ChargeInv
    BY <1>3, LimitsAssumption DEF Init, SlotInv, ChargeInv
  <1>5. QueueInv
    BY <1>3 DEF Init, QueueInv
  <1>6. WindowInv
    BY LimitsAssumption DEF Init, WindowInv, Stale
  <1> QED BY <1>1, <1>2, <1>4, <1>5, <1>6 DEF IInv

LEMMA InductiveNext == IInv /\ [Next]_vars => IInv'
  BY TypeNext, RequestNext, QueueNext, SlotNext, ChargeNext, FlagNext, WindowNext, PauseNext
     DEF IInv

LEMMA Inductive == Spec => []IInv
  BY InductiveInit, InductiveNext, PTL DEF Spec

(* The governor's variables keep their types: no counter goes below zero,  *)
(* however releases, refunds and cancellations interleave.                 *)
THEOREM TypesHold == Spec => []TypeOK
  <1>1. IInv => TypeOK
    BY DEF IInv
  <1> QED BY <1>1, Inductive, PTL

(* budget.used is exactly the number of calls made or still to be made,    *)
(* never above the maximum, and a call reported cancelled before dispatch  *)
(* was never made.                                                         *)
THEOREM ChargesStayRight == Spec => []ChargesMatchCalls
  <1>1. IInv => ChargesMatchCalls
    BY DEF IInv, ChargeInv, Charged, RequestInv, Shape, ChargesMatchCalls
  <1> QED BY <1>1, Inductive, PTL

(* At most one mutation is past the queue and the flag says so, requests   *)
(* leave the queue in the order they came, and no window of 1000 ms sees   *)
(* more than RateCap dispatches.                                           *)
THEOREM AdmissionStaysRegular == Spec => []AdmissionIsRegular
  <1>1. IInv => AdmissionIsRegular
    BY DEF IInv, FlagInv, QueueInv, WindowInv, AdmissionIsRegular
  <1> QED BY <1>1, Inductive, PTL

(* No request is dispatched while a pause that a 429 asked for lasts.      *)
THEOREM PausesStayKept == Spec => PausesAreKept
  <1>1. IInv /\ [Next]_vars => [Len(recent') > Len(recent) => \A i \in DOMAIN pauses : pauses[i] = 0]_vars
    <2> SUFFICES ASSUME IInv, [Next]_vars, Len(recent') > Len(recent), NEW i \in DOMAIN pauses
                 PROVE  pauses[i] = 0
      OBVIOUS
    <2>1. recent \in Seq(Nat) /\ pauses \in Seq(Nat) /\ Len(recent) \in Nat /\ pauses[i] \in Nat
      BY DEF IInv, TypeOK
    <2>2. recent' # recent
      BY <2>1
    <2>3. ~Tick
      <3> SUFFICES ASSUME Tick PROVE FALSE
        OBVIOUS
      <3> DEFINE kept == Shifted(recent, {Window - 1})
      <3>1. kept \in Seq(Nat) /\ Len(kept) <= Len(recent)
        BY <2>1, ShiftedFacts
      <3>2. recent' = [k \in DOMAIN kept |-> kept[k] + 1]
        BY DEF Tick
      <3> HIDE DEF kept
      <3>3. Len(recent') = Len(kept)
        BY <3>1, <3>2, YoungerFacts
      <3> QED BY <2>1, <3>1, <3>3
    <2>4. MayDispatch
      BY <2>2, <2>3 DEF Next, Drain, Settle, vars, queues, clocks, RejectRun, Run, DispatchAsync,
                DispatchSync, DispatchThrows, DrainReturns, AbortQueued, AbortPreDispatch, HookResolves,
                HookRejects, OperationSettles, Finally, NoteRateLimited, TimerFires
    <2>5. cooldown = 0 /\ pauses[i] <= cooldown
      BY <2>4 DEF MayDispatch, IInv, PauseInv
    <2> QED BY <2>1, <2>5
  <1> QED BY <1>1, Inductive, PTL DEF Spec, PausesAreKept
=============================================================================
