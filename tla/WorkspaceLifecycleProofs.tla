---------------------- MODULE WorkspaceLifecycleProofs ----------------------
(***************************************************************************)
(* The store and the settlement barrier agree, an uninstall erases no      *)
(* journal that is in use, and a revocation is final: for every number of  *)
(* write requests, tokens, callbacks, crashes and operator interventions.  *)
(***************************************************************************)
EXTENDS WorkspaceLifecycle, TLAPS

\* The largest generation the running process knows of.
Newest == Larger(row.gen, lastGen)

\* NextGeneration is new to the coordinator and to every request.
GenInv ==
    /\ barrier.gen <= Newest
    /\ \A gen \in epochs \cup revoked : gen <= Newest
    /\ \A r \in Requests : req[r].gen <= Newest

\* A process that is down has no memory.
DownInv ==
    ~ up => /\ barrier = NoBarrier /\ deletion = NoDeletion /\ queue = <<>> /\ verifying = {}
            /\ \A r \in Requests : req[r].pc = "idle" /\ req[r].gen = 0

\* Before the barrier has a generation nothing was changed and nothing is held.
SeedInv ==
    barrier = NoBarrier =>
        /\ epochs = {} /\ revoked = {} /\ ~ deletion.pending
        /\ \A r \in Requests :
             /\ req[r].pc \notin Holding
             /\ req[r].pc # "idle" => StillInstalled(r) /\ req[r].rows

\* Every lease is of the current generation, or of one that is kept and revoked.
LeaseInv ==
    /\ barrier # NoBarrier => barrier.gen \in Nat
    /\ barrier.blocked => barrier.gen \in revoked
    /\ \A r \in Requests : req[r].pc \in Holding =>
         req[r].gen = barrier.gen \/ req[r].gen \in epochs \cap revoked

\* An uninstall that waits, waits for every lease, and no lease is granted meanwhile.
DeletionInv ==
    deletion.pending =>
        /\ queue # <<>> /\ barrier.blocked /\ row.status \in {"absent", "deleted"}
        /\ \A r \in Requests : req[r].pc \in Holding => req[r].gen \in deletion.waits

\* A request whose rows were erased before it had a lease will not get one.
ErasedInv ==
    \A r \in Requests : req[r].pc \in {"reading", "checked"} /\ ~ req[r].rows =>
        barrier # NoBarrier /\ (barrier.gen # req[r].gen \/ barrier.blocked)

\* The row: only an installation has a token, every token there ever was is its
\* token or retired, and the watermark is not ahead of an installation.
StoreInv ==
    /\ row.status \in {"absent", "deleted"} => row.token = NoToken
    /\ row.status \in {"active", "inactive"} => mark.iat <= row.iat
    /\ hist.tokens \subseteq retired \cup {row.token}
    /\ row.status = "active" => row.iat > hist.revocation

\* The last revocation is remembered by the watermark, or by then too old for any
\* callback that can still be handled to precede it.
MemoryInv ==
    \/ hist.revocation <= mark.iat
    \/ oldest > hist.revocation /\ \A i \in 1 .. Len(queue) : queue[i].call.iat > hist.revocation

Coordination == GenInv /\ DownInv /\ SeedInv /\ LeaseInv /\ DeletionInv /\ ErasedInv
                /\ AuthorityAgrees /\ JournalOutlivesWork

IInv == TypeOK /\ Coordination /\ StoreInv /\ MemoryInv

-----------------------------------------------------------------------------
(* Numbers, the row and the watermark.                                     *)

RowType == [status : {"absent", "active", "inactive", "deleted"}, gen : Nat,
            iat : IssuedAt \cup {0}, token : Tokens \cup {NoToken}]
MarkType == [state : {"active", "inactive", "deleted"}, gen : Nat, iat : IssuedAt \cup {0}]
ReqType == [pc : {"idle", "reading", "checked", "held", "authorized", "dispatched"},
            gen : Nat, rows : BOOLEAN]

LEMMA Numbers ==
    /\ \A i \in IssuedAt : i \in Nat \ {0}
    /\ \A i \in IssuedAt \cup {0} : i \in Nat
    /\ NoToken \notin Tokens
    /\ MaxCallbacks \in Nat /\ MaxCrashes \in Nat /\ MaxFailures \in Nat /\ MaxMaintenance \in Nat
  BY LifecycleAssumption

LEMMA LargerFacts ==
  ASSUME NEW a \in Nat, NEW b \in Nat
  PROVE  /\ Larger(a, b) \in Nat /\ Larger(a, b) >= a /\ Larger(a, b) >= b
         /\ Larger(a, b) \in {a, b}
  BY DEF Larger

\* The authority in force is at least as recent as the row and the watermark.
LEMMA AuthorityFacts ==
  ASSUME TypeOK
  PROVE  /\ Authority \in MarkType
         /\ row.iat \in Nat /\ mark.iat \in Nat /\ Authority.iat \in Nat
         /\ Authority.iat >= mark.iat
         /\ row.status # "absent" => Authority.iat >= row.iat
<1>1. row \in RowType /\ mark \in MarkType
  BY DEF TypeOK, RowType, MarkType
<1>2. row.iat \in Nat /\ mark.iat \in Nat /\ row.gen \in Nat /\ mark.gen \in Nat
  BY <1>1, Numbers DEF RowType, MarkType
<1>3. CASE row.status = "absent" \/ row.iat < mark.iat
  BY <1>1, <1>2, <1>3 DEF Authority, MarkType
<1>4. CASE row.status # "absent" /\ row.iat > mark.iat
  BY <1>1, <1>2, <1>4 DEF Authority, RowType, MarkType
<1>5. CASE row.status # "absent" /\ row.iat = mark.iat
  BY <1>1, <1>2, <1>5, LargerFacts DEF Authority, RowType, MarkType
<1> QED
  BY <1>2, <1>3, <1>4, <1>5

LEMMA NextGenerationFacts ==
  ASSUME TypeOK
  PROVE  NextGeneration \in Nat /\ Newest \in Nat /\ NextGeneration > Newest
<1>1. row.gen \in Nat /\ lastGen \in Nat /\ Authority.gen \in Nat
  BY AuthorityFacts DEF TypeOK, MarkType
<1> QED
  BY <1>1 DEF NextGeneration, Newest, Larger

\* Recording never moves the watermark back, and never before what is recorded.
LEMMA RecordedFacts ==
  ASSUME TypeOK, NEW i \in IssuedAt \cup {0}, NEW s \in {"active", "inactive", "deleted"}, NEW g \in Nat
  PROVE  /\ Recorded(i, s, g) \in MarkType
         /\ Recorded(i, s, g).iat >= i /\ Recorded(i, s, g).iat >= mark.iat
         /\ Recorded(i, s, g).iat \in {i, mark.iat}
<1>1. mark \in MarkType /\ mark.iat \in Nat /\ mark.gen \in Nat /\ i \in Nat
  BY Numbers DEF TypeOK, MarkType
<1>2. Larger(mark.gen, g) \in Nat
  BY <1>1, LargerFacts
<1>3. CASE mark = NoMark
  BY <1>1, <1>3 DEF Recorded, NoMark, MarkType
<1>4. CASE mark # NoMark /\ (i > mark.iat \/ (i = mark.iat /\ Rank(s) >= Rank(mark.state)))
  BY <1>1, <1>2, <1>4 DEF Recorded, MarkType
<1>5. CASE mark # NoMark /\ ~(i > mark.iat \/ (i = mark.iat /\ Rank(s) >= Rank(mark.state)))
  <2>1. Recorded(i, s, g) = mark
    BY <1>5 DEF Recorded
  <2> QED
    BY <1>1, <1>5, <2>1
<1> QED
  BY <1>3, <1>4, <1>5

LEMMA ReopenedFacts ==
  ASSUME TypeOK, NEW now \in IssuedAt
  PROVE  /\ Reopened(now) \in MarkType
         /\ Reopened(now).iat >= mark.iat
         /\ row.status \in {"active", "inactive"} => Reopened(now).iat \in {row.iat, mark.iat}
<1>1. row \in RowType /\ mark \in MarkType
  BY DEF TypeOK, RowType, MarkType
<1>2. row.iat \in Nat /\ mark.iat \in Nat /\ now \in Nat
  BY <1>1, Numbers DEF RowType, MarkType
<1>3. Larger(row.iat, now) \in IssuedAt \cup {0}
  BY <1>1, <1>2 DEF Larger, RowType
<1>4. CASE row.status = "absent"
  BY <1>1, <1>2, <1>4 DEF Reopened
<1>5. CASE row.status = "deleted"
  BY <1>1, <1>3, <1>5, RecordedFacts DEF Reopened, RowType
<1>6. CASE row.status \in {"active", "inactive"}
  BY <1>1, <1>6, RecordedFacts DEF Reopened, RowType
<1> QED
  BY <1>1, <1>4, <1>5, <1>6 DEF RowType

\* The callback at the head of the queue.
LEMMA HeadFacts ==
  ASSUME TypeOK, queue # <<>>
  PROVE  /\ Head(queue) = queue[1] /\ 1 \in 1 .. Len(queue)
         /\ Current \in Callbacks /\ Current.iat \in IssuedAt /\ Current.iat \in Nat \ {0}
         /\ Current.kind = "installed" => Current.token \in Tokens
         /\ Current.kind \in {"installed", "active", "inactive", "deleted"}
         /\ Head(queue).seq \in 0 .. MaxCallbacks
         /\ Tail(queue) \in Seq(Numbered)
         /\ Len(Tail(queue)) = Len(queue) - 1 /\ Len(queue) \in Nat
         /\ \A i \in 1 .. Len(queue) - 1 : Tail(queue)[i] = queue[i + 1]
<1>1. queue \in Seq(Numbered)
  BY DEF TypeOK
<1>2. Head(queue) \in Numbered /\ Head(queue) = queue[1] /\ Tail(queue) \in Seq(Numbered)
  BY <1>1
<1>3. Current \in Callbacks /\ Head(queue).seq \in 0 .. MaxCallbacks
  BY <1>2, Numbers DEF Current, Numbered
<1>4. Current.iat \in IssuedAt /\ (Current.kind = "installed" => Current.token \in Tokens)
      /\ Current.kind \in {"installed", "active", "inactive", "deleted"}
  BY <1>3 DEF Callbacks
<1>5. /\ Len(Tail(queue)) = Len(queue) - 1 /\ Len(queue) \in Nat /\ 1 \in 1 .. Len(queue)
      /\ \A i \in 1 .. Len(queue) - 1 : Tail(queue)[i] = queue[i + 1]
  BY <1>1
<1> QED
  BY <1>2, <1>3, <1>4, <1>5, Numbers

-----------------------------------------------------------------------------
(* The barrier.                                                            *)

LEMMA GenTypes ==
  ASSUME TypeOK
  PROVE  /\ row.gen \in Nat /\ lastGen \in Nat /\ Newest \in Nat
         /\ row.gen <= Newest /\ lastGen <= Newest
         /\ barrier.gen \in Int /\ barrier.blocked \in BOOLEAN
         /\ barrier = [gen |-> barrier.gen, blocked |-> barrier.blocked]
         /\ epochs \subseteq Nat /\ revoked \subseteq Nat
         /\ \A r \in Requests : req[r].gen \in Nat
  BY LargerFacts DEF TypeOK, Newest

\* Handlers that leave the row and the coordinator alone.
LEMMA QuietStep ==
  ASSUME IInv, UNCHANGED <<row, coordinator, req, deletion, up>>,
         lastGen' \in Nat, lastGen' >= lastGen,
         up \/ UNCHANGED <<queue, verifying>>,
         deletion.pending => queue' # <<>>
  PROVE  Coordination'
<1> USE DEF IInv, Coordination, coordinator
<1>1. Newest' \in Nat /\ Newest' >= Newest /\ Newest \in Nat
  BY GenTypes DEF Newest, Larger
<1>2. GenInv'
  BY <1>1, GenTypes DEF GenInv
<1>3. DownInv' /\ SeedInv'
  BY DEF DownInv, SeedInv, StillInstalled
<1>4. LeaseInv' /\ DeletionInv' /\ ErasedInv'
  BY DEF LeaseInv, DeletionInv, ErasedInv
<1>5. AuthorityAgrees' /\ JournalOutlivesWork'
  BY DEF AuthorityAgrees, JournalOutlivesWork
<1> QED
  BY <1>2, <1>3, <1>4, <1>5

\* activate, with the row's new generation or once more with its old one.
LEMMA ActivateStep ==
  ASSUME IInv, NEW g \in Nat, Activate(g),
         up, UNCHANGED <<up, req, deletion>>, ~ deletion.pending,
         row'.status = "active", row'.gen = g, lastGen' = Larger(lastGen, g),
         g > Newest \/ (g = row.gen /\ row.status = "active")
  PROVE  Coordination'
<1> USE DEF IInv, Coordination, coordinator
<1>1. Newest' \in Nat /\ Newest' >= Newest /\ Newest' >= g
  BY GenTypes DEF Newest, Larger
<1>2. barrier' = Open(g) /\ g # NoGen /\ barrier' # NoBarrier
  BY GenTypes DEF Activate, Open, GenInv, AuthorityAgrees, NoBarrier, NoGen
<1>3. \/ barrier = NoBarrier /\ UNCHANGED <<epochs, revoked>>
      \/ /\ barrier # NoBarrier /\ g > Newest /\ revoked' = revoked \cup {barrier.gen}
         /\ epochs' = IF Leases(barrier.gen) # {} THEN epochs \cup {barrier.gen} ELSE epochs
      \/ barrier # NoBarrier /\ g = row.gen /\ row.status = "active" /\ UNCHANGED <<barrier, epochs, revoked>>
  BY GenTypes DEF Activate, GenInv, AuthorityAgrees
<1>4. GenInv'
  <2>1. \A gen \in (epochs \cup revoked)' : gen \in Int /\ gen <= Newest'
    BY <1>1, <1>3, GenTypes DEF GenInv
  <2> QED
    BY <1>1, <1>2, <2>1, GenTypes DEF GenInv, Open
<1>5. DownInv' /\ SeedInv'
  BY <1>2 DEF DownInv, SeedInv
<1>6. LeaseInv'
  <2>1. ASSUME NEW r \in Requests, req[r].pc \in Holding
        PROVE  req[r].gen = barrier'.gen \/ req[r].gen \in epochs' \cap revoked'
    <3>1. barrier # NoBarrier
      BY <2>1 DEF SeedInv
    <3>2. req[r].gen = barrier.gen => r \in Leases(barrier.gen)
      BY <2>1 DEF Leases
    <3> QED
      BY <1>3, <2>1, <3>1, <3>2 DEF LeaseInv
  <2> QED
    BY <1>2, <2>1 DEF LeaseInv, Open
<1>7. DeletionInv'
  BY DEF DeletionInv
<1>8. ErasedInv'
  <2>1. ASSUME NEW r \in Requests, req[r].pc \in {"reading", "checked"}, ~ req[r].rows
        PROVE  g # req[r].gen
    <3>1. barrier # NoBarrier /\ (barrier.gen # req[r].gen \/ barrier.blocked)
      BY <2>1 DEF ErasedInv
    <3>2. CASE g > Newest
      BY <3>2, GenTypes DEF GenInv
    <3>3. CASE g = row.gen /\ row.status = "active"
      BY <3>1, <3>3 DEF AuthorityAgrees
    <3> QED
      BY <3>2, <3>3
  <2> QED
    BY <1>2, <2>1 DEF ErasedInv, Open
<1>9. JournalOutlivesWork'
  BY DEF JournalOutlivesWork
<1>10. AuthorityAgrees'
  <2>1. ASSUME NEW r \in Requests, req[r].pc \in Holding, req[r].gen \notin revoked'
        PROVE  g = req[r].gen
    BY <1>2, <1>6, <2>1 DEF LeaseInv, Open
  <2> QED
    BY <1>2, <2>1 DEF AuthorityAgrees, Open
<1> QED
  BY <1>4, <1>5, <1>6, <1>7, <1>8, <1>9, <1>10

\* block, for a deactivation or for an uninstall that begins to wait.
LEMMA BlockStep ==
  ASSUME IInv, Block, up, UNCHANGED <<up, req>>,
         row'.status # "active", Newest' \in Nat, Newest' >= Newest,
         \/ ~ deletion'.pending
         \/ /\ row'.status \in {"absent", "deleted"} /\ queue' # <<>>
            /\ deletion'.waits = {barrier'.gen} \cup epochs
  PROVE  Coordination'
<1> USE DEF IInv, Coordination
<1>1. /\ barrier'.gen \in Nat /\ barrier'.gen <= Newest /\ barrier'.blocked
      /\ barrier'.gen \in revoked' /\ revoked \subseteq revoked' /\ epochs' = epochs
      /\ revoked' = revoked \cup {barrier'.gen}
      /\ barrier # NoBarrier => barrier'.gen = barrier.gen
  BY GenTypes DEF Block, LeaseInv, GenInv
<1>2. barrier' # NoBarrier
  BY <1>1 DEF NoBarrier, NoGen
<1>3. GenInv'
  BY <1>1, GenTypes DEF GenInv
<1>4. DownInv' /\ SeedInv' /\ ErasedInv'
  BY <1>1, <1>2 DEF DownInv, SeedInv, ErasedInv
<1>5. LeaseInv'
  BY <1>1, <1>2 DEF LeaseInv, SeedInv
<1>6. DeletionInv'
  BY <1>1, <1>5 DEF DeletionInv, LeaseInv
<1>7. AuthorityAgrees' /\ JournalOutlivesWork'
  BY <1>1, <1>2, <1>5 DEF AuthorityAgrees, JournalOutlivesWork, LeaseInv
<1> QED
  BY <1>3, <1>4, <1>5, <1>6, <1>7

-----------------------------------------------------------------------------
(* Callbacks.                                                              *)

LEMMA HistoryTypes ==
  ASSUME TypeOK
  PROVE  /\ hist.revocation \in Nat /\ mark.iat \in Nat /\ row.iat \in Nat /\ oldest \in Nat
         /\ \A i \in 1 .. Len(queue) : queue[i].call.iat \in Nat
<1>1. /\ hist.revocation \in IssuedAt \cup {0} /\ mark.iat \in IssuedAt \cup {0}
      /\ row.iat \in IssuedAt \cup {0} /\ oldest \in Nat
  BY DEF TypeOK
<1>2. ASSUME NEW i \in 1 .. Len(queue)
      PROVE  queue[i].call.iat \in IssuedAt
  <2>1. queue[i] \in Numbered
    BY DEF TypeOK
  <2> QED
    BY <2>1 DEF Numbered, Callbacks
<1> QED
  BY <1>1, <1>2, Numbers

\* A handler leaves the watermark at least as recent as the revocation it notes.
LEMMA MemoryStep ==
  ASSUME IInv, queue # <<>>, queue' \in {queue, Tail(queue)}, UNCHANGED oldest,
         mark'.iat \in Nat, mark'.iat >= mark.iat,
         \/ hist'.revocation = hist.revocation
         \/ hist'.revocation = Larger(hist.revocation, Current.iat) /\ mark'.iat >= Current.iat
  PROVE  MemoryInv'
<1>1. TypeOK /\ MemoryInv
  BY DEF IInv
<1>2. \A i \in 1 .. Len(queue') : \E j \in 1 .. Len(queue) : queue'[i] = queue[j]
  BY <1>1, HeadFacts
<1>3. Current.iat \in Nat /\ Current = queue[1].call /\ 1 \in 1 .. Len(queue)
  BY <1>1, HeadFacts DEF Current
<1>4. CASE hist'.revocation = hist.revocation
  <2>1. CASE hist.revocation <= mark.iat
    BY <1>1, <1>4, <2>1, HistoryTypes DEF MemoryInv
  <2>2. CASE oldest > hist.revocation /\ \A i \in 1 .. Len(queue) : queue[i].call.iat > hist.revocation
    <3>1. \A i \in 1 .. Len(queue') : queue'[i].call.iat > hist.revocation
      BY <1>2, <2>2
    <3> QED
      BY <1>4, <2>2, <3>1 DEF MemoryInv
  <2> QED
    BY <1>1, <2>1, <2>2 DEF MemoryInv
<1>5. CASE hist'.revocation = Larger(hist.revocation, Current.iat) /\ mark'.iat >= Current.iat
  <2>1. CASE hist.revocation <= mark.iat
    BY <1>1, <1>3, <1>5, <2>1, HistoryTypes DEF MemoryInv, Larger
  <2>2. CASE Current.iat > hist.revocation
    BY <1>1, <1>3, <1>5, <2>2, HistoryTypes DEF MemoryInv, Larger
  <2> QED
    BY <1>1, <1>3, <2>1, <2>2 DEF MemoryInv
<1> QED
  BY <1>4, <1>5

LEMMA Serving == ASSUME IInv, queue # <<>> PROVE up
  BY DEF IInv, Coordination, DownInv

LEMMA SupersededStep == ASSUME IInv, Superseded PROVE IInv'
<1> USE DEF Superseded, store, memory, coordinator, bounds
<1>1. TypeOK /\ queue # <<>> /\ up
  BY Serving DEF IInv
<1>2. lastGen' \in Nat /\ lastGen' >= lastGen
  BY <1>1, GenTypes, LargerFacts
<1>3. TypeOK'
  BY SMTT(30), <1>1, <1>2, HeadFacts, Numbers DEF TypeOK
<1>4. Coordination'
  BY <1>1, <1>2, QuietStep
<1>5. StoreInv'
  BY DEF IInv, StoreInv
<1>6. MemoryInv'
  BY <1>1, MemoryStep, HistoryTypes
<1> QED
  BY <1>3, <1>4, <1>5, <1>6 DEF IInv

LEMMA InstalledIgnoredStep == ASSUME IInv, InstalledIgnored PROVE IInv'
<1> USE DEF InstalledIgnored, Handles, Done, Remember, store, memory, coordinator, bounds
<1>1. TypeOK /\ queue # <<>> /\ up
  BY Serving DEF IInv
<1>2. lastGen' \in Nat /\ lastGen' >= lastGen
  BY <1>1, GenTypes, LargerFacts
<1>3. TypeOK'
  BY ZenonT(30), <1>1, <1>2, HeadFacts, Numbers DEF TypeOK
<1>4. Coordination'
  BY <1>1, <1>2, QuietStep
<1>5. StoreInv'
  BY DEF IInv, StoreInv
<1>6. MemoryInv'
  BY <1>1, MemoryStep, HistoryTypes
<1> QED
  BY <1>3, <1>4, <1>5, <1>6 DEF IInv

LEMMA StatusIgnoredStep == ASSUME IInv, StatusIgnored PROVE IInv'
<1> USE DEF StatusIgnored, Handles, Done, Remember, store, memory, coordinator, bounds
<1>1. TypeOK /\ queue # <<>> /\ up
  BY Serving DEF IInv
<1>2. lastGen' \in Nat /\ lastGen' >= lastGen
  BY <1>1, GenTypes, LargerFacts
<1>3. TypeOK'
  BY ZenonT(30), <1>1, <1>2, HeadFacts, Numbers DEF TypeOK
<1>4. Coordination'
  BY <1>1, <1>2, QuietStep
<1>5. StoreInv'
  BY DEF IInv, StoreInv
<1>6. MemoryInv'
  BY <1>1, MemoryStep, HistoryTypes
<1> QED
  BY <1>3, <1>4, <1>5, <1>6 DEF IInv

LEMMA DeletedIgnoredStep == ASSUME IInv, DeletedIgnored PROVE IInv'
<1> USE DEF DeletedIgnored, Handles, Done, Remember, store, memory, coordinator, bounds
<1>1. TypeOK /\ queue # <<>> /\ up
  BY Serving DEF IInv
<1>2. lastGen' \in Nat /\ lastGen' >= lastGen
  BY <1>1, GenTypes, LargerFacts
<1>3. TypeOK'
  BY ZenonT(30), <1>1, <1>2, HeadFacts, Numbers DEF TypeOK
<1>4. Coordination'
  BY <1>1, <1>2, QuietStep
<1>5. StoreInv'
  BY DEF IInv, StoreInv
<1>6. MemoryInv'
  BY <1>1, MemoryStep, HistoryTypes
<1> QED
  BY <1>3, <1>4, <1>5, <1>6 DEF IInv

LEMMA ActivateTypes ==
  ASSUME TypeOK, LeaseInv, NEW g \in Nat, Activate(g)
  PROVE  barrier' \in [gen : Int, blocked : BOOLEAN] /\ epochs' \subseteq Nat /\ revoked' \subseteq Nat
<1>1. Open(g) \in [gen : Int, blocked : BOOLEAN]
  BY DEF Open
<1>2. CASE barrier = NoBarrier
  BY <1>1, <1>2 DEF TypeOK, Activate
<1>3. CASE barrier # NoBarrier /\ g > barrier.gen
  BY ZenonT(30), <1>1, <1>3 DEF TypeOK, LeaseInv, Activate
<1>4. CASE barrier # NoBarrier /\ ~(g > barrier.gen)
  BY <1>4 DEF TypeOK, Activate, coordinator
<1> QED
  BY <1>2, <1>3, <1>4

LEMMA InstalledAgainStep == ASSUME IInv, InstalledAgain PROVE IInv'
<1> USE DEF InstalledAgain, Handles, Done, Remember, store, memory, coordinator, bounds
<1>1. TypeOK /\ queue # <<>> /\ up /\ row.gen \in Nat
  BY Serving, GenTypes DEF IInv
<1>2. lastGen' \in Nat /\ lastGen' >= lastGen
  BY <1>1, GenTypes, LargerFacts
<1>3. Coordination'
  <2>1. CASE row.status = "active"
    BY <1>1, <2>1, ActivateStep
  <2>2. CASE row.status # "active"
    BY <1>1, <1>2, <2>2, QuietStep
  <2> QED
    BY <2>1, <2>2
<1>4. TypeOK'
  <2>1. barrier' \in [gen : Int, blocked : BOOLEAN] /\ epochs' \subseteq Nat /\ revoked' \subseteq Nat
    BY <1>1, ActivateTypes DEF IInv, Coordination, TypeOK
  <2> QED
    BY ZenonT(30), <1>1, <1>2, <2>1, HeadFacts, Numbers DEF TypeOK
<1>5. StoreInv'
  BY DEF IInv, StoreInv
<1>6. MemoryInv'
  BY <1>1, MemoryStep, HistoryTypes
<1> QED
  BY <1>3, <1>4, <1>5, <1>6 DEF IInv

LEMMA InstalledStep == ASSUME IInv, Installed PROVE IInv'
<1> USE DEF Installed, Handles, Done, Remember, store, memory, coordinator, bounds
<1>1. TypeOK /\ queue # <<>> /\ up /\ Current.iat \in IssuedAt /\ Current.iat \in Nat \ {0} /\ Current.token \in Tokens
  BY Serving, HeadFacts DEF IInv
<1>2. NextGeneration \in Nat /\ NextGeneration > Newest
  BY <1>1, NextGenerationFacts
<1>3. row'.status = "active" /\ row'.gen = NextGeneration /\ row'.iat = Current.iat /\ row'.token = Current.token
  OBVIOUS
<1>4. Coordination'
  BY <1>1, <1>2, <1>3, ActivateStep
<1>5. mark' \in MarkType /\ mark'.iat >= mark.iat /\ mark'.iat \in {Current.iat, mark.iat} /\ mark'.iat \in Nat
  BY <1>1, <1>2, RecordedFacts, HistoryTypes
<1>6. hist'.revocation = hist.revocation /\ hist'.tokens = hist.tokens \cup {Current.token}
      /\ hist' \in [revocation : IssuedAt \cup {0}, tokens : SUBSET Tokens]
  BY SMTT(30), <1>1, HistoryTypes DEF Noted, Larger, TypeOK
<1>7. TypeOK'
  <2>1. barrier' \in [gen : Int, blocked : BOOLEAN] /\ epochs' \subseteq Nat /\ revoked' \subseteq Nat
    BY <1>1, <1>2, ActivateTypes DEF IInv, Coordination
  <2>2. retired' \subseteq Tokens
    BY DEF IInv, TypeOK, Retire
  <2>3. lastGen' \in Nat
    BY <1>1, <1>2, GenTypes, LargerFacts
  <2>4. row' \in RowType
    BY <1>1, <1>2 DEF RowType
  <2> QED
    BY <1>1, <1>5, <1>6, <2>1, <2>2, <2>3, <2>4, HeadFacts, Numbers DEF TypeOK, RowType, MarkType
<1>8. Current.iat > mark.iat /\ Current.iat > hist.revocation
  <2>1. Current.iat > mark.iat
    BY <1>1, AuthorityFacts DEF Stale
  <2>2. \/ hist.revocation <= mark.iat
        \/ queue[1].call.iat > hist.revocation
    BY <1>1, HeadFacts DEF IInv, MemoryInv
  <2> QED
    BY <1>1, <2>1, <2>2, HistoryTypes, HeadFacts DEF Current
<1>9. StoreInv'
  <2>1. hist'.tokens \subseteq retired' \cup {row'.token}
    BY <1>3, <1>6, Numbers DEF IInv, TypeOK, StoreInv, Retire
  <2> QED
    BY <1>1, <1>3, <1>5, <1>6, <1>8, <2>1, HistoryTypes DEF StoreInv
<1>10. MemoryInv'
  BY <1>1, <1>5, <1>6, MemoryStep
<1> QED
  BY <1>4, <1>7, <1>9, <1>10 DEF IInv

LEMMA BlockTypes ==
  ASSUME TypeOK, LeaseInv, Block
  PROVE  barrier' \in [gen : Int, blocked : BOOLEAN] /\ epochs' \subseteq Nat /\ revoked' \subseteq Nat
         /\ barrier'.gen \in Nat
<1>1. CASE barrier = NoBarrier
  BY <1>1 DEF TypeOK, Block
<1>2. CASE barrier # NoBarrier
  BY <1>2 DEF TypeOK, LeaseInv, Block
<1> QED
  BY <1>1, <1>2

\* What Noted does to the history when no token is stored.
LEMMA NotedFacts ==
  ASSUME TypeOK, NEW i \in IssuedAt \cup {0}, Noted(i, {})
  PROVE  /\ hist' \in [revocation : IssuedAt \cup {0}, tokens : SUBSET Tokens]
         /\ hist'.revocation = Larger(hist.revocation, i) /\ hist'.tokens = hist.tokens
         /\ i = 0 => hist'.revocation = hist.revocation
<1>1. hist \in [revocation : IssuedAt \cup {0}, tokens : SUBSET Tokens]
  BY DEF TypeOK
<1>2. Larger(hist.revocation, i) \in {hist.revocation, i} /\ Larger(hist.revocation, i) \in Nat
  BY <1>1, Numbers, LargerFacts
<1>3. i = 0 => Larger(hist.revocation, i) = hist.revocation
  BY HistoryTypes DEF Larger
<1>4. hist.tokens \cup {} = hist.tokens
  OBVIOUS
<1> QED
  BY <1>1, <1>2, <1>3, <1>4 DEF Noted

LEMMA RevokedAbsentStep == ASSUME IInv, RevokedAbsent PROVE IInv'
<1> USE DEF RevokedAbsent, Handles, Done, Remember, store, memory, coordinator, bounds
<1>1. TypeOK /\ queue # <<>> /\ up /\ Current.iat \in IssuedAt /\ Current.iat \in Nat
      /\ row.gen \in Nat /\ Authority.gen \in Nat
  BY Serving, HeadFacts, GenTypes, AuthorityFacts DEF IInv, MarkType
<1>2. lastGen' \in Nat /\ Newest' \in Nat /\ Newest' >= Newest
  BY <1>1, GenTypes DEF Newest, Larger
<1>3. Coordination'
  BY <1>1, <1>2, BlockStep
<1>4. mark' \in MarkType /\ mark'.iat >= mark.iat /\ mark'.iat >= Current.iat /\ mark'.iat \in Nat
  <2>1. mark' = Recorded(Current.iat, "deleted", row.gen) \/ mark' = Recorded(Current.iat, "inactive", Authority.gen)
    OBVIOUS
  <2> QED
    BY <1>1, <2>1, RecordedFacts, HistoryTypes
<1>5. /\ hist' \in [revocation : IssuedAt \cup {0}, tokens : SUBSET Tokens]
      /\ hist'.revocation = Larger(hist.revocation, Current.iat) /\ hist'.tokens = hist.tokens
  BY <1>1, NotedFacts
<1>6. TypeOK'
  <2>1. barrier' \in [gen : Int, blocked : BOOLEAN] /\ epochs' \subseteq Nat /\ revoked' \subseteq Nat
    BY <1>1, BlockTypes DEF IInv, Coordination
  <2> QED
    BY <1>1, <1>2, <1>4, <1>5, <2>1, HeadFacts, Numbers DEF TypeOK, MarkType
<1>7. StoreInv'
  BY <1>5 DEF IInv, StoreInv
<1>8. MemoryInv'
  BY <1>1, <1>4, <1>5, MemoryStep
<1> QED
  BY <1>3, <1>6, <1>7, <1>8 DEF IInv

LEMMA StatusChangedStep == ASSUME IInv, StatusChanged PROVE IInv'
<1> USE DEF StatusChanged, Handles, Done, Remember, store, memory, coordinator, bounds
<1>1. TypeOK /\ queue # <<>> /\ up /\ Current.iat \in IssuedAt /\ Current.iat \in Nat \ {0}
      /\ row.gen \in Nat /\ Current.kind \in {"active", "inactive"}
  BY Serving, HeadFacts, GenTypes DEF IInv
<1> DEFINE g == IF Current.kind = "active" /\ row.status # "active" THEN NextGeneration ELSE row.gen
<1>2. g \in Nat /\ (g > Newest \/ g = row.gen)
  BY <1>1, NextGenerationFacts
<1>3. row' = [row EXCEPT !.status = Current.kind, !.gen = g, !.iat = Current.iat]
      /\ mark' = Recorded(Current.iat, Current.kind, g) /\ lastGen' = Larger(lastGen, g)
  OBVIOUS
<1>4. row' \in RowType /\ row'.status = Current.kind /\ row'.gen = g /\ row'.iat = Current.iat /\ row'.token = row.token
  <2>1. row \in RowType
    BY <1>1 DEF TypeOK, RowType
  <2> HIDE DEF g
  <2> QED
    BY <1>1, <1>2, <1>3, <2>1 DEF RowType
<1>5. lastGen' \in Nat /\ Newest' \in Nat /\ Newest' >= Newest
  BY <1>1, <1>2, <1>3, <1>4, GenTypes DEF Newest, Larger
<1>6. Coordination'
  <2>1. CASE Current.kind = "active"
    <3>1. Activate(g) /\ (g > Newest \/ (g = row.gen /\ row.status = "active"))
      BY <1>1, <2>1, NextGenerationFacts
    <3> HIDE DEF g
    <3> QED
      BY <1>1, <1>2, <1>3, <1>4, <2>1, <3>1, ActivateStep
  <2>2. CASE Current.kind = "inactive"
    BY <1>1, <1>4, <1>5, <2>2, BlockStep
  <2> QED
    BY <1>1, <2>1, <2>2
<1>7. /\ mark' \in MarkType /\ mark'.iat >= mark.iat /\ mark'.iat >= Current.iat /\ mark'.iat \in Nat
      /\ mark'.iat \in {Current.iat, mark.iat}
  <2> HIDE DEF g
  <2> QED
    BY SMTT(30), <1>1, <1>2, <1>3, RecordedFacts, HistoryTypes
<1>8. /\ hist' \in [revocation : IssuedAt \cup {0}, tokens : SUBSET Tokens]
      /\ hist'.tokens = hist.tokens
      /\ Current.kind = "active" => hist'.revocation = hist.revocation
      /\ Current.kind = "inactive" => hist'.revocation = Larger(hist.revocation, Current.iat)
  BY <1>1, NotedFacts
<1>9. TypeOK'
  <2>1. barrier' \in [gen : Int, blocked : BOOLEAN] /\ epochs' \subseteq Nat /\ revoked' \subseteq Nat
    <3>1. Activate(g) \/ Block
      BY <1>1
    <3> HIDE DEF g
    <3> QED
      BY <1>1, <1>2, <3>1, ActivateTypes, BlockTypes DEF IInv, Coordination
  <2> QED
    BY <1>1, <1>4, <1>5, <1>7, <1>8, <2>1, HeadFacts, Numbers DEF TypeOK, RowType, MarkType
<1>10. mark.iat <= row.iat /\ Authority.iat = row.iat /\ Current.iat >= row.iat
  <2>1. mark.iat <= row.iat
    BY DEF IInv, StoreInv
  <2>2. Authority.iat = row.iat
    BY <1>1, <2>1, HistoryTypes DEF Authority
  <2> QED
    BY <1>1, <2>1, <2>2, HistoryTypes DEF Outranked
<1>11. Current.kind = "active" => Current.iat > hist.revocation
  <2>1. SUFFICES ASSUME Current.kind = "active" PROVE Current.iat > hist.revocation
    OBVIOUS
  <2>2. CASE Current.iat > mark.iat
    <3>1. hist.revocation <= mark.iat \/ queue[1].call.iat > hist.revocation
      BY <1>1, HeadFacts DEF IInv, MemoryInv
    <3> QED
      BY <1>1, <2>2, <3>1, HistoryTypes, HeadFacts DEF Current
  <2>3. CASE row.status = "active"
    BY <1>1, <1>10, <2>3, HistoryTypes DEF IInv, StoreInv
  <2>4. CASE ~(Current.iat > mark.iat) /\ row.status = "inactive"
    <3>1. Current.iat = mark.iat /\ row.iat = mark.iat /\ Current.iat = Authority.iat
      BY <1>1, <1>10, <2>4, HistoryTypes
    <3>2. Rank(Authority.state) > 0
      BY <1>1, <2>4, <3>1, HistoryTypes DEF Authority, Rank, TypeOK
    <3>3. Authority # NoMark
      BY <1>1, <3>1 DEF NoMark
    <3> QED
      BY <1>1, <2>1, <3>1, <3>2, <3>3 DEF Outranked, Rank
  <2> QED
    BY <2>2, <2>3, <2>4
<1>12. StoreInv'
  BY <1>1, <1>4, <1>7, <1>8, <1>10, <1>11, HistoryTypes DEF IInv, StoreInv
<1>13. MemoryInv'
  BY <1>1, <1>7, <1>8, MemoryStep
<1> QED
  BY <1>6, <1>9, <1>12, <1>13 DEF IInv

LEMMA DeletedStep == ASSUME IInv, Deleted PROVE IInv'
<1> USE DEF Deleted, Handles, Remember, store, memory, coordinator, bounds
<1>1. TypeOK /\ queue # <<>> /\ up /\ Current.iat \in IssuedAt /\ Current.iat \in Nat
      /\ row.gen \in Nat /\ Authority.gen \in Nat /\ row \in RowType
  BY Serving, HeadFacts, GenTypes, AuthorityFacts DEF IInv, MarkType, TypeOK, RowType
<1>2. TombstoneGeneration \in Nat
  BY <1>1, NextGenerationFacts DEF TombstoneGeneration
<1>3. /\ row' \in RowType /\ row'.status \in {"absent", "deleted"} /\ row'.token = NoToken
      /\ row'.gen = row.gen \/ row'.gen = TombstoneGeneration
      /\ row'.gen \in Nat
  <2>1. CASE row.status = "absent"
    BY <1>1, <2>1 DEF Tombstone, IInv, StoreInv
  <2>2. CASE row.status = "deleted"
    <3>1. Larger(row.iat, Current.iat) \in IssuedAt \cup {0}
      BY <1>1 DEF Larger, RowType
    <3> QED
      BY <1>1, <2>2, <3>1 DEF Tombstone, IInv, StoreInv, RowType
  <2>3. CASE row.status \notin {"absent", "deleted"}
    <3>1. row' = [status |-> "deleted", gen |-> TombstoneGeneration, iat |-> Current.iat, token |-> NoToken]
      BY <2>3 DEF Tombstone, TombstoneGeneration
    <3> QED
      BY <1>1, <1>2, <3>1 DEF RowType
  <2> QED
    BY <2>1, <2>2, <2>3
<1>4. lastGen' \in Nat /\ Newest' \in Nat /\ Newest' >= Newest
  <2>1. row'.gen = row.gen \/ TombstoneGeneration > Newest
    BY <1>1, NextGenerationFacts DEF Tombstone, TombstoneGeneration
  <2> QED
    BY <1>1, <1>2, <1>3, <2>1, GenTypes DEF Newest, Larger
<1>5. Coordination'
  BY <1>1, <1>3, <1>4, BlockStep
<1>6. mark' \in MarkType /\ mark'.iat >= mark.iat /\ mark'.iat >= Current.iat /\ mark'.iat \in Nat
  BY <1>1, <1>2, RecordedFacts, HistoryTypes
<1>7. /\ hist' \in [revocation : IssuedAt \cup {0}, tokens : SUBSET Tokens]
      /\ hist'.revocation = Larger(hist.revocation, Current.iat) /\ hist'.tokens = hist.tokens
  BY <1>1, NotedFacts
<1>8. TypeOK'
  <2>1. barrier' \in [gen : Int, blocked : BOOLEAN] /\ epochs' \subseteq Nat /\ revoked' \subseteq Nat
        /\ barrier'.gen \in Nat
    BY <1>1, BlockTypes DEF IInv, Coordination
  <2>2. deletion' \in [gen : Int, waits : SUBSET Nat, pending : BOOLEAN]
    <3>1. (IF row.status = "absent" /\ mark = NoMark THEN NoGen ELSE TombstoneGeneration) \in Int
      BY <1>2 DEF NoGen
    <3>2. {barrier'.gen} \cup epochs \in SUBSET Nat
      BY <1>1, <2>1 DEF TypeOK
    <3> QED
      BY <3>1, <3>2
  <2>3. retired' \subseteq Tokens
    BY <1>1 DEF RowType, TypeOK, Retire
  <2> QED
    BY <1>1, <1>3, <1>4, <1>6, <1>7, <2>1, <2>2, <2>3, HeadFacts, Numbers DEF TypeOK, RowType,
       MarkType
<1>9. StoreInv'
  BY <1>3, <1>7, Numbers DEF IInv, TypeOK, StoreInv, Retire
<1>10. MemoryInv'
  BY <1>1, <1>6, <1>7, MemoryStep
<1> QED
  BY <1>5, <1>8, <1>9, <1>10 DEF IInv

\* The erasure takes the rows of requests that hold nothing and will hold nothing.
LEMMA EraseReq ==
  ASSUME TypeOK, Erase
  PROVE  /\ req' \in [Requests -> ReqType] /\ row' = NoRow /\ row' \in RowType
         /\ \A r \in Requests : req'[r].pc = req[r].pc /\ req'[r].gen = req[r].gen /\ ~ req'[r].rows
<1>1. req \in [Requests -> ReqType]
  BY DEF TypeOK, ReqType
<1>2. row' = NoRow /\ row' \in RowType
  BY DEF Erase, NoRow, RowType
<1>3. \A r \in Requests : req'[r] = [req[r] EXCEPT !.rows = FALSE]
  BY DEF Erase
<1>4. ASSUME NEW r \in Requests
      PROVE  req'[r] \in ReqType /\ req'[r].pc = req[r].pc /\ req'[r].gen = req[r].gen /\ ~ req'[r].rows
  BY ZenonT(30), <1>1, <1>3 DEF ReqType
<1> QED
  BY <1>2, <1>4 DEF Erase

LEMMA NoDeletionType == NoDeletion \in [gen : Int, waits : SUBSET Nat, pending : BOOLEAN]
<1>1. {} \in SUBSET Nat /\ NoGen \in Int
  BY DEF NoGen
<1> QED
  BY <1>1 DEF NoDeletion

LEMMA FinishDeletionStep == ASSUME IInv, FinishDeletion PROVE IInv'
<1> USE DEF FinishDeletion, memory, coordinator, bounds
<1>1. /\ TypeOK /\ queue # <<>> /\ up /\ deletion.pending
      /\ barrier.blocked /\ barrier # NoBarrier /\ row.status \in {"absent", "deleted"}
  BY Serving DEF IInv, Coordination, DeletionInv, Drained, NoBarrier
<1>2. \A r \in Requests : req[r].pc \notin Holding
  BY <1>1 DEF IInv, Coordination, DeletionInv, Drained, Leases
<1>3. CASE UNCHANGED <<row, req, lastGen>>
  <2>1. TypeOK'
    BY ZenonT(30), <1>1, <1>3, HeadFacts, NoDeletionType DEF TypeOK
  <2>2. Coordination'
    <3>1. GenInv' /\ DownInv' /\ SeedInv'
      BY <1>1, <1>3 DEF IInv, Coordination, GenInv, Newest, DownInv, SeedInv, StillInstalled,
         NoDeletion
    <3>2. LeaseInv' /\ DeletionInv' /\ ErasedInv'
      BY <1>3 DEF IInv, Coordination, LeaseInv, DeletionInv, ErasedInv, NoDeletion
    <3>3. AuthorityAgrees' /\ JournalOutlivesWork'
      BY <1>3 DEF IInv, Coordination, AuthorityAgrees, JournalOutlivesWork
    <3> QED
      BY <3>1, <3>2, <3>3 DEF Coordination
  <2>3. StoreInv'
    BY <1>3 DEF IInv, StoreInv
  <2>4. MemoryInv'
    BY <1>1, MemoryStep, HistoryTypes
  <2> QED
    BY <2>1, <2>2, <2>3, <2>4 DEF IInv
<1>4. CASE Erase /\ Remember(row.gen)
  <2>1. /\ req' \in [Requests -> ReqType] /\ row' = NoRow /\ row' \in RowType
        /\ \A r \in Requests : req'[r].pc = req[r].pc /\ req'[r].gen = req[r].gen /\ ~ req'[r].rows
    BY <1>1, <1>4, EraseReq
  <2>2. lastGen' \in Nat /\ Newest' \in Nat /\ Newest' = Newest
    BY <1>1, <1>4, <2>1, GenTypes DEF Remember, Newest, Larger, NoRow
  <2>3. TypeOK'
    BY <1>1, <2>1, <2>2, HeadFacts, NoDeletionType DEF TypeOK, RowType, ReqType
  <2>4. Coordination'
    <3>1. GenInv' /\ DownInv' /\ SeedInv'
      BY <1>1, <2>1, <2>2 DEF IInv, Coordination, GenInv, DownInv, SeedInv
    <3>2. LeaseInv' /\ DeletionInv' /\ ErasedInv'
      BY <1>1, <1>2, <2>1 DEF IInv, Coordination, LeaseInv, DeletionInv, ErasedInv, NoDeletion
    <3>3. AuthorityAgrees' /\ JournalOutlivesWork'
      BY <1>1, <1>2, <2>1 DEF AuthorityAgrees, JournalOutlivesWork, NoRow
    <3> QED
      BY <3>1, <3>2, <3>3 DEF Coordination
  <2>5. StoreInv'
    BY <1>1, <2>1 DEF IInv, StoreInv, NoRow
  <2>6. MemoryInv'
    BY <1>1, MemoryStep, HistoryTypes
  <2> QED
    BY <2>3, <2>4, <2>5, <2>6 DEF IInv
<1> QED
  BY <1>3, <1>4

LEMMA EraseFailsStep == ASSUME IInv, EraseFails PROVE IInv'
<1> USE DEF EraseFails, store, coordinator
<1>1. TypeOK /\ queue # <<>> /\ up
  BY Serving DEF IInv, Coordination, DeletionInv, Drained
<1>2. TypeOK'
  <2>1. failures' \in 0 .. MaxFailures
    BY <1>1, Numbers DEF TypeOK
  <2>2. queue' \in Seq(Numbered)
    BY <1>1, HeadFacts
  <2> QED
    BY SMTT(30), <1>1, <2>1, <2>2, NoDeletionType DEF TypeOK
<1>3. Coordination'
  <2>1. GenInv' /\ DownInv' /\ SeedInv'
    BY <1>1 DEF IInv, Coordination, GenInv, Newest, DownInv, SeedInv, StillInstalled, NoDeletion
  <2>2. LeaseInv' /\ DeletionInv' /\ ErasedInv'
    BY DEF IInv, Coordination, LeaseInv, DeletionInv, ErasedInv, NoDeletion
  <2>3. AuthorityAgrees' /\ JournalOutlivesWork'
    BY DEF IInv, Coordination, AuthorityAgrees, JournalOutlivesWork
  <2> QED
    BY <2>1, <2>2, <2>3 DEF Coordination
<1>4. StoreInv'
  BY DEF IInv, StoreInv
<1>5. MemoryInv'
  BY <1>1, MemoryStep, HistoryTypes
<1> QED
  BY <1>2, <1>3, <1>4, <1>5 DEF IInv

LEMMA ArriveStep == ASSUME IInv, Arrive PROVE IInv'
<1> USE DEF Arrive, store, coordinator, bounds
<1>1. TypeOK'
  BY Numbers DEF IInv, TypeOK
<1>2. Coordination'
  BY QuietStep, GenTypes DEF IInv, Coordination, DeletionInv
<1>3. StoreInv' /\ MemoryInv'
  BY DEF IInv, StoreInv, MemoryInv
<1> QED
  BY <1>1, <1>2, <1>3 DEF IInv

LEMMA VerifiedStep == ASSUME IInv, NEW n \in verifying, NEW c \in Callbacks, Verified(n, c) PROVE IInv'
<1> USE DEF Verified, store, coordinator, bounds
<1>1. TypeOK /\ up /\ n \in 1 .. MaxCallbacks /\ queue \in Seq(Numbered)
  BY DEF IInv, Coordination, DownInv, TypeOK
<1>2. /\ queue' \in Seq(Numbered) /\ queue' # <<>> /\ Len(queue') = Len(queue) + 1 /\ Len(queue) \in Nat
      /\ queue'[Len(queue) + 1] = [seq |-> n, call |-> c]
      /\ \A i \in 1 .. Len(queue) : queue'[i] = queue[i]
  BY <1>1 DEF Numbered
<1>3. TypeOK'
  BY SMTT(30), <1>1, <1>2 DEF TypeOK
<1>4. Coordination'
  BY <1>1, <1>2, QuietStep, GenTypes
<1>5. StoreInv'
  BY DEF IInv, StoreInv
<1>6. MemoryInv'
  <2>1. c.iat \in Nat
    BY Numbers DEF Callbacks
  <2>2. CASE hist.revocation <= mark.iat
    BY <2>2 DEF MemoryInv
  <2>3. CASE oldest > hist.revocation /\ \A i \in 1 .. Len(queue) : queue[i].call.iat > hist.revocation
    <3>1. ASSUME NEW i \in 1 .. Len(queue')
          PROVE  queue'[i].call.iat > hist.revocation
      <4>1. CASE i \in 1 .. Len(queue)
        BY <1>2, <2>3, <4>1
      <4>2. CASE i = Len(queue) + 1
        BY <1>1, <1>2, <2>1, <2>3, <4>2, HistoryTypes
      <4> QED
        BY <1>2, <4>1, <4>2
    <3> QED
      BY <2>3, <3>1 DEF MemoryInv
  <2> QED
    BY <2>2, <2>3 DEF IInv, MemoryInv
<1> QED
  BY <1>3, <1>4, <1>5, <1>6 DEF IInv

LEMMA ExpireStep == ASSUME IInv, Expire PROVE IInv'
<1> USE DEF Expire, memory, coordinator, bounds
<1>1. TypeOK /\ mark.iat \in Nat /\ oldest \in Nat /\ queue \in Seq(Numbered) /\ hist.revocation \in Nat
  BY HistoryTypes DEF IInv, TypeOK
<1>2. oldest' \in Nat /\ oldest' >= oldest /\ oldest' > mark.iat
  BY <1>1 DEF Larger
<1>3. TypeOK'
  BY <1>1, <1>2 DEF TypeOK, NoMark
<1>4. Coordination'
  BY <1>1, QuietStep, GenTypes DEF IInv, Coordination, DeletionInv
<1>5. StoreInv'
  BY <1>1, HistoryTypes DEF IInv, StoreInv, NoMark
<1>6. MemoryInv'
  <2>1. DOMAIN queue = 1 .. Len(queue)
    BY <1>1
  <2>2. CASE hist.revocation <= mark.iat
    <3>1. \A i \in 1 .. Len(queue) : queue[i].call.iat > hist.revocation
      BY SMTT(30), <1>1, <2>1, <2>2, HistoryTypes
    <3> QED
      BY <1>1, <1>2, <2>2, <3>1 DEF MemoryInv
  <2>3. CASE oldest > hist.revocation /\ \A i \in 1 .. Len(queue) : queue[i].call.iat > hist.revocation
    BY <1>1, <1>2, <2>3 DEF MemoryInv
  <2> QED
    BY <2>2, <2>3 DEF IInv, MemoryInv
<1> QED
  BY <1>3, <1>4, <1>5, <1>6 DEF IInv

-----------------------------------------------------------------------------
(* Write requests.                                                         *)

\* What a step of request r leaves alone.
LEMMA RequestFrame ==
  ASSUME IInv, NEW r \in Requests, UNCHANGED <<store, oldest, up, memory, hist, bounds>>,
         req' \in [Requests -> ReqType], barrier' \in [gen : Int, blocked : BOOLEAN],
         epochs' \subseteq epochs, revoked' = revoked, Coordination'
  PROVE  IInv'
<1> USE DEF store, memory, bounds
<1>1. TypeOK'
  BY SMTT(30) DEF IInv, TypeOK, ReqType
<1>2. StoreInv' /\ MemoryInv'
  BY DEF IInv, StoreInv, MemoryInv
<1> QED
  BY <1>1, <1>2 DEF IInv

\* Steps that change where a request is, and nothing else.
LEMMA MoveStep ==
  ASSUME IInv, NEW r \in Requests, NEW q \in ReqType,
         UNCHANGED <<store, oldest, up, memory, hist, bounds, coordinator>>,
         req' = [req EXCEPT ![r] = q],
         q.gen <= Newest, q # Idle => up,
         q.pc \in {"reading", "checked"} =>
             \/ q.rows = TRUE /\ (barrier = NoBarrier => row.status = "active" /\ row.gen = q.gen)
             \/ req[r].pc \in {"reading", "checked"} /\ q.gen = req[r].gen /\ q.rows = req[r].rows,
         q.pc \in Holding => req[r].pc \in Holding /\ q.gen = req[r].gen /\ q.rows = req[r].rows
  PROVE  IInv'
<1> USE DEF store, memory, bounds, coordinator
<1>1. req \in [Requests -> ReqType]
  BY DEF IInv, TypeOK, ReqType
<1>2. req' \in [Requests -> ReqType] /\ req'[r] = q /\ \A s \in Requests \ {r} : req'[s] = req[s]
  BY <1>1
<1>3. GenInv' /\ DownInv'
  BY <1>2 DEF IInv, Coordination, GenInv, DownInv, Newest, Idle
<1>4. SeedInv'
  BY <1>2 DEF IInv, Coordination, SeedInv, StillInstalled, ReqType, Holding
<1>5. LeaseInv' /\ DeletionInv'
  BY <1>2 DEF IInv, Coordination, LeaseInv, DeletionInv
<1>6. ErasedInv'
  BY <1>2 DEF IInv, Coordination, ErasedInv
<1>7. AuthorityAgrees' /\ JournalOutlivesWork'
  BY <1>2 DEF IInv, Coordination, AuthorityAgrees, JournalOutlivesWork
<1>8. barrier \in [gen : Int, blocked : BOOLEAN]
  BY DEF IInv, TypeOK
<1> QED
  BY <1>2, <1>3, <1>4, <1>5, <1>6, <1>7, <1>8, RequestFrame DEF Coordination

LEMMA Moved ==
  ASSUME IInv, NEW r \in Requests,
         NEW pc \in {"idle", "reading", "checked", "held", "authorized", "dispatched"}, At(r, pc)
  PROVE  /\ req \in [Requests -> ReqType] /\ req[r] \in ReqType /\ req[r].gen <= Newest
         /\ req[r].pc # "idle" => up
         /\ [req[r] EXCEPT !.pc = pc] \in ReqType
         /\ [req[r] EXCEPT !.pc = pc].pc = pc
         /\ [req[r] EXCEPT !.pc = pc].gen = req[r].gen
         /\ [req[r] EXCEPT !.pc = pc].rows = req[r].rows
         /\ req' = [req EXCEPT ![r] = [req[r] EXCEPT !.pc = pc]]
<1>1. req \in [Requests -> ReqType]
  BY DEF IInv, TypeOK, ReqType
<1>2. req[r].gen <= Newest /\ (req[r].pc # "idle" => up)
  BY DEF IInv, Coordination, GenInv, DownInv
<1>3. req' = [req EXCEPT ![r] = [req[r] EXCEPT !.pc = pc]]
  BY DEF At
<1> QED
  BY <1>1, <1>2, <1>3 DEF ReqType

LEMMA KeepStep ==
  ASSUME IInv, NEW r \in Requests, NEW pc \in {"checked", "held", "authorized", "dispatched"}, At(r, pc),
         UNCHANGED <<store, oldest, up, memory, hist, bounds, coordinator>>,
         IF pc = "checked" THEN req[r].pc = "reading" ELSE req[r].pc \in Holding
  PROVE  IInv'
<1> DEFINE q == [req[r] EXCEPT !.pc = pc]
<1>0. pc \in {"idle", "reading", "checked", "held", "authorized", "dispatched"}
  OBVIOUS
<1>1. /\ q \in ReqType /\ q.pc = pc /\ q.gen = req[r].gen /\ q.rows = req[r].rows
      /\ req[r].gen <= Newest /\ (req[r].pc # "idle" => up) /\ req' = [req EXCEPT ![r] = q]
  BY ZenonT(30), <1>0, Moved
<1> HIDE DEF q
<1> QED
  BY <1>1, MoveStep DEF Holding

LEMMA RequestMoves ==
  ASSUME IInv, NEW r \in Requests, UNCHANGED <<store, oldest, up, memory, hist, bounds>>,
         Begin(r) \/ Check(r) \/ Refuse(r) \/ Authorize(r) \/ Dispatch(r) \/ Answered(r)
  PROVE  IInv'
<1>1. CASE Begin(r)
  <2> DEFINE q == [pc |-> "reading", gen |-> row.gen, rows |-> TRUE]
  <2>1. q \in ReqType /\ q.gen <= Newest /\ q.pc = "reading" /\ q.gen = row.gen /\ q.rows = TRUE
    BY GenTypes DEF IInv, ReqType
  <2>2. req' = [req EXCEPT ![r] = q] /\ up /\ row.status = "active" /\ UNCHANGED coordinator
    BY <1>1 DEF Begin
  <2> HIDE DEF q
  <2>3. q.pc \notin Holding /\ UNCHANGED <<store, oldest, up, memory, hist, bounds, coordinator>>
    BY <2>1, <2>2 DEF Holding
  <2> QED
    BY <2>1, <2>2, <2>3, MoveStep
<1>2. CASE Check(r)
  BY <1>2, KeepStep DEF Check
<1>3. CASE Refuse(r)
  <2>1. Idle \in ReqType /\ Idle.pc = "idle" /\ Idle.gen <= Newest
    BY GenTypes DEF IInv, Idle, ReqType
  <2> QED
    BY <1>3, <2>1, MoveStep DEF Refuse, Holding
<1>4. CASE Authorize(r)
  BY <1>4, KeepStep DEF Authorize, Holding
<1>5. CASE Dispatch(r)
  BY <1>5, KeepStep DEF Dispatch, Holding
<1>6. CASE Answered(r)
  BY <1>6, KeepStep DEF Answered, Holding
<1> QED
  BY <1>1, <1>2, <1>3, <1>4, <1>5, <1>6

\* The first caller gives the barrier its generation: the one that is installed.
LEMMA ObserveStep ==
  ASSUME IInv, NEW r \in Requests, UNCHANGED <<store, oldest, up, memory, hist, bounds>>, Observe(r)
  PROVE  IInv'
<1> USE DEF Observe, store, memory, bounds
<1>1. /\ barrier' = Open(req[r].gen) /\ req[r].gen \in Nat /\ req[r].gen <= Newest
      /\ row.status = "active" /\ row.gen = req[r].gen
      /\ epochs = {} /\ revoked = {} /\ up /\ ~ deletion.pending
      /\ \A s \in Requests : req[s].pc \notin Holding /\ (req[s].pc # "idle" => req[s].rows)
  BY GenTypes DEF IInv, Coordination, SeedInv, GenInv, DownInv, StillInstalled, Seeded
<1>2. barrier' # NoBarrier /\ barrier' \in [gen : Int, blocked : BOOLEAN]
  BY <1>1 DEF Open, NoBarrier, NoGen
<1>3. GenInv' /\ DownInv' /\ SeedInv'
  BY <1>1, <1>2 DEF IInv, Coordination, GenInv, Newest, DownInv, SeedInv, Open
<1>4. LeaseInv' /\ DeletionInv' /\ ErasedInv'
  BY <1>1, <1>2 DEF LeaseInv, DeletionInv, ErasedInv, Open
<1>5. AuthorityAgrees' /\ JournalOutlivesWork'
  BY <1>1 DEF AuthorityAgrees, JournalOutlivesWork, Open
<1>6. req \in [Requests -> ReqType]
  BY DEF IInv, TypeOK, ReqType
<1> QED
  BY <1>1, <1>2, <1>3, <1>4, <1>5, <1>6, RequestFrame DEF Coordination

LEMMA AcquireStep ==
  ASSUME IInv, NEW r \in Requests, UNCHANGED <<store, oldest, up, memory, hist, bounds>>, Acquire(r)
  PROVE  IInv'
<1> USE DEF Acquire, store, memory, bounds
<1>1. /\ req \in [Requests -> ReqType] /\ req[r].gen \in Nat /\ req[r].gen <= Newest /\ up
      /\ req' \in [Requests -> ReqType] /\ req'[r].pc = "held" /\ req'[r].gen = req[r].gen
      /\ req'[r].rows = req[r].rows /\ \A s \in Requests \ {r} : req'[s] = req[s]
  <2> DEFINE q == [req[r] EXCEPT !.pc = "held"]
  <2>1. /\ req \in [Requests -> ReqType] /\ q \in ReqType /\ q.pc = "held" /\ q.gen = req[r].gen
        /\ q.rows = req[r].rows /\ req[r].gen <= Newest /\ up /\ req' = [req EXCEPT ![r] = q]
    BY Moved
  <2> HIDE DEF q
  <2> QED
    BY <2>1, GenTypes DEF IInv
<1>2. /\ barrier' # NoBarrier /\ barrier' \in [gen : Int, blocked : BOOLEAN]
      /\ barrier'.gen = req[r].gen /\ ~ barrier'.blocked
      /\ barrier = NoBarrier \/ barrier' = barrier
  BY <1>1 DEF IInv, TypeOK, Seeded, Open, NoBarrier, NoGen
<1>3. row.status = "active" /\ row.gen = req[r].gen /\ req[r].rows /\ ~ deletion.pending
  <2>1. CASE barrier = NoBarrier
    BY <2>1 DEF IInv, Coordination, SeedInv, StillInstalled
  <2>2. CASE barrier # NoBarrier
    BY <1>1, <1>2, <2>2 DEF IInv, Coordination, AuthorityAgrees, ErasedInv, DeletionInv
  <2> QED
    BY <2>1, <2>2
<1>4. GenInv' /\ DownInv' /\ SeedInv'
  BY <1>1, <1>2 DEF IInv, Coordination, GenInv, Newest, DownInv, SeedInv
<1>5. LeaseInv'
  BY <1>1, <1>2 DEF IInv, Coordination, LeaseInv, SeedInv
<1>6. DeletionInv' /\ ErasedInv'
  BY <1>1, <1>2, <1>3 DEF IInv, Coordination, DeletionInv, ErasedInv, SeedInv
<1>7. AuthorityAgrees' /\ JournalOutlivesWork'
  BY <1>1, <1>2, <1>3 DEF IInv, Coordination, AuthorityAgrees, JournalOutlivesWork
<1> QED
  BY <1>1, <1>2, <1>4, <1>5, <1>6, <1>7, RequestFrame DEF Coordination

\* A generation is forgotten with its last lease.
LEMMA ReleaseStep ==
  ASSUME IInv, NEW r \in Requests, UNCHANGED <<store, oldest, up, memory, hist, bounds>>, Release(r)
  PROVE  IInv'
<1> USE DEF Release, store, memory, bounds
<1>1. /\ req \in [Requests -> ReqType] /\ req' \in [Requests -> ReqType]
      /\ req'[r].pc = "idle" /\ req'[r].gen = 0 /\ \A s \in Requests \ {r} : req'[s] = req[s]
  BY DEF IInv, TypeOK, ReqType, Idle
<1>2. /\ epochs' \subseteq epochs /\ barrier \in [gen : Int, blocked : BOOLEAN]
  BY DEF IInv, TypeOK
<1>3. ASSUME NEW s \in Requests, req'[s].pc \in Holding, req[s].gen \in epochs
      PROVE  req[s].gen \in epochs'
  <2>1. s # r /\ s \in Leases(req[s].gen)
    BY <1>1, <1>3 DEF Leases, Holding
  <2> QED
    BY <1>3, <2>1
<1>4. GenInv' /\ DownInv' /\ SeedInv'
  <2>1. 0 <= Newest /\ Newest' = Newest
    BY GenTypes DEF IInv, Newest
  <2> QED
    BY <1>1, <1>2, <2>1 DEF IInv, Coordination, GenInv, DownInv, SeedInv, StillInstalled, Holding
<1>5. LeaseInv'
  BY <1>1, <1>3 DEF IInv, Coordination, LeaseInv, Holding
<1>6. DeletionInv' /\ ErasedInv'
  BY <1>1 DEF IInv, Coordination, DeletionInv, ErasedInv, Holding
<1>7. AuthorityAgrees' /\ JournalOutlivesWork'
  BY <1>1 DEF IInv, Coordination, AuthorityAgrees, JournalOutlivesWork, Holding
<1> QED
  BY <1>1, <1>2, <1>4, <1>5, <1>6, <1>7, RequestFrame DEF Coordination

-----------------------------------------------------------------------------
(* Crashes, restarts and the operator's scripts.                           *)

LEMMA Resting ==
  ASSUME IInv, ~ up
  PROVE  /\ barrier = NoBarrier /\ epochs = {} /\ revoked = {} /\ deletion = NoDeletion
         /\ queue = <<>> /\ verifying = {} /\ ~ deletion.pending
         /\ \A r \in Requests : req[r].pc = "idle" /\ req[r].gen = 0
  BY DEF IInv, Coordination, DownInv, SeedInv

\* Nothing is left of the coordinator and the requests.
LEMMA RestStep ==
  ASSUME barrier' = NoBarrier, epochs' = {}, revoked' = {}, deletion' = NoDeletion,
         queue' = <<>>, verifying' = {}, row'.gen \in Nat, lastGen' \in Nat,
         \A r \in Requests : req'[r].pc = "idle" /\ req'[r].gen = 0
  PROVE  Coordination'
<1>1. 0 <= Newest' /\ NoGen <= Newest'
  BY DEF Newest, Larger, NoGen
<1>2. GenInv' /\ DownInv' /\ SeedInv'
  BY <1>1 DEF GenInv, DownInv, SeedInv, NoBarrier, NoDeletion, Holding
<1>3. LeaseInv' /\ DeletionInv' /\ ErasedInv'
  BY DEF LeaseInv, DeletionInv, ErasedInv, NoBarrier, NoDeletion, Holding
<1>4. AuthorityAgrees' /\ JournalOutlivesWork'
  BY DEF AuthorityAgrees, JournalOutlivesWork, Holding
<1> QED
  BY <1>2, <1>3, <1>4 DEF Coordination

LEMMA CrashStep == ASSUME IInv, Crash PROVE IInv'
<1> USE DEF Crash, store
<1>1. TypeOK
  BY DEF IInv
<1>2. Idle \in ReqType /\ Idle.pc = "idle" /\ Idle.gen = 0
  BY DEF Idle, ReqType
<1>3. Coordination'
  BY <1>1, <1>2, RestStep, GenTypes
<1>4. TypeOK'
  <2>1. /\ NoBarrier \in [gen : Int, blocked : BOOLEAN] /\ <<>> \in Seq(Numbered) /\ 0 \in 0 .. MaxCallbacks
        /\ crashes' \in 0 .. MaxCrashes
    BY <1>1, Numbers DEF NoBarrier, NoGen, TypeOK
  <2>2. req' \in [Requests -> ReqType]
    BY <1>2
  <2> QED
    BY ZenonT(30), <1>1, <2>1, <2>2, NoDeletionType DEF TypeOK, ReqType
<1>5. StoreInv'
  BY DEF IInv, StoreInv
<1>6. MemoryInv'
  <2>1. 1 .. Len(queue') = {}
    OBVIOUS
  <2> QED
    BY <2>1 DEF IInv, MemoryInv
<1> QED
  BY <1>3, <1>4, <1>5, <1>6 DEF IInv

\* While the process is down the watermark only moves forward.
LEMMA DownMemory ==
  ASSUME IInv, ~ up, UNCHANGED <<oldest, queue, hist>>, mark'.iat \in Nat, mark'.iat >= mark.iat
  PROVE  MemoryInv'
  BY HistoryTypes DEF IInv, MemoryInv

LEMMA StartupStep == ASSUME IInv, Startup PROVE IInv'
<1> USE DEF Startup, memory, coordinator, bounds
<1>1. TypeOK /\ ~ up /\ row.gen \in Nat
  BY GenTypes DEF IInv
<1>2. PICK now \in IssuedAt : mark' = Reopened(now)
  OBVIOUS
<1>3. /\ mark' \in MarkType /\ mark'.iat >= mark.iat /\ mark'.iat \in Nat
      /\ row.status \in {"active", "inactive"} => mark'.iat \in {row.iat, mark.iat}
  BY <1>1, <1>2, ReopenedFacts, Numbers DEF MarkType
<1>4. MemoryInv'
  BY <1>1, <1>3, DownMemory
<1>5. CASE row.status = "deleted"
  <2>1. /\ req' \in [Requests -> ReqType] /\ row' = NoRow /\ row' \in RowType
        /\ \A r \in Requests : req'[r].pc = req[r].pc /\ req'[r].gen = req[r].gen
    BY <1>1, <1>5, EraseReq
  <2>2. lastGen' \in Nat /\ row'.gen \in Nat
    BY <1>1, <1>5, <2>1, GenTypes, LargerFacts DEF Remember, NoRow
  <2>3. Coordination'
    BY <1>1, <2>1, <2>2, Resting, RestStep
  <2>4. TypeOK'
    BY <1>1, <1>3, <2>1, <2>2 DEF TypeOK, RowType, MarkType, ReqType
  <2>5. StoreInv'
    BY <1>5, <2>1 DEF IInv, StoreInv, NoRow
  <2> QED
    BY <1>4, <2>3, <2>4, <2>5 DEF IInv
<1>6. CASE row.status # "deleted"
  <2>1. UNCHANGED <<row, req, lastGen>>
    BY <1>6
  <2>2. Coordination'
    BY <1>1, <2>1, Resting, RestStep, GenTypes
  <2>3. TypeOK'
    BY <1>1, <1>3, <2>1 DEF TypeOK, MarkType
  <2>4. StoreInv'
    BY <1>1, <1>3, <2>1, HistoryTypes DEF IInv, StoreInv
  <2> QED
    BY <1>4, <2>2, <2>3, <2>4 DEF IInv
<1> QED
  BY <1>5, <1>6

LEMMA MaintenanceType == ASSUME TypeOK, Maintenance PROVE repairs' \in 0 .. MaxMaintenance
  BY Numbers DEF TypeOK, Maintenance

LEMMA RetireInstallationStep == ASSUME IInv, RetireInstallation PROVE IInv'
<1> USE DEF RetireInstallation, Maintenance, memory, coordinator
<1>1. TypeOK /\ ~ up /\ row \in RowType /\ Larger(row.gen, lastGen) + 1 \in Nat
  <2>1. TypeOK /\ ~ up /\ row \in RowType
    BY DEF IInv, TypeOK, RowType
  <2> QED
    BY <2>1, GenTypes, LargerFacts
<1>2. /\ row' \in RowType /\ row'.gen \in Nat /\ row'.status = "inactive"
      /\ row'.iat = row.iat /\ row'.token = NoToken
  BY <1>1 DEF RowType
<1>3. Coordination'
  BY <1>1, <1>2, Resting, RestStep, GenTypes
<1>4. TypeOK'
  <2>1. retired' \subseteq Tokens
    BY <1>1 DEF TypeOK, RowType, Retire
  <2>2. repairs' \in 0 .. MaxMaintenance
    BY <1>1, MaintenanceType
  <2> QED
    BY <1>1, <1>2, <2>1, <2>2 DEF TypeOK, RowType
<1>5. StoreInv'
  BY <1>2, Numbers DEF IInv, TypeOK, StoreInv, Retire
<1>6. MemoryInv'
  BY <1>1, DownMemory, HistoryTypes
<1> QED
  BY <1>3, <1>4, <1>5, <1>6 DEF IInv

\* An installation that is erased on request leaves its token retired: its row is
\* never older than the watermark.
LEMMA EraseWorkspaceStep == ASSUME IInv, EraseWorkspace PROVE IInv'
<1> USE DEF EraseWorkspace, Maintenance, memory, coordinator
<1>1. TypeOK /\ ~ up /\ row \in RowType
  BY DEF IInv, TypeOK, RowType
<1>2. PICK now \in IssuedAt :
        LET iat == Larger(row.iat, now)
        IN  IF row.status \in {"active", "inactive"} /\ iat >= Authority.iat
            THEN mark' = Recorded(iat, "deleted", NextGeneration) /\ Retire
            ELSE mark' = Reopened(now) /\ UNCHANGED retired
  OBVIOUS
<1>3. now \in Nat /\ Larger(row.iat, now) \in IssuedAt \cup {0} /\ Larger(row.iat, now) >= row.iat
  BY <1>1, Numbers, HistoryTypes DEF Larger, RowType
<1>4. row.status \in {"active", "inactive"} => Retire
  <2>1. row.status \in {"active", "inactive"} => Authority.iat = row.iat
    BY <1>1, HistoryTypes DEF IInv, StoreInv, Authority
  <2> QED
    BY <1>1, <1>2, <1>3, <2>1
<1>5. Retire \/ UNCHANGED retired
  BY <1>2
<1>6. mark' \in MarkType /\ mark'.iat >= mark.iat /\ mark'.iat \in Nat
  <2>1. mark' = Recorded(Larger(row.iat, now), "deleted", NextGeneration) \/ mark' = Reopened(now)
    BY <1>2
  <2>2. mark' \in MarkType /\ mark'.iat >= mark.iat
    BY <1>1, <1>3, <2>1, RecordedFacts, ReopenedFacts, NextGenerationFacts
  <2> QED
    BY <2>2, Numbers DEF MarkType
<1>7. /\ req' \in [Requests -> ReqType] /\ row' = NoRow /\ row' \in RowType
      /\ \A r \in Requests : req'[r].pc = req[r].pc /\ req'[r].gen = req[r].gen
  BY <1>1, EraseReq
<1>8. Coordination'
  BY <1>1, <1>7, Resting, RestStep, GenTypes DEF NoRow
<1>9. TypeOK'
  <2>1. retired' \subseteq Tokens
    BY <1>1, <1>5 DEF TypeOK, RowType, Retire
  <2>2. repairs' \in 0 .. MaxMaintenance
    BY <1>1, MaintenanceType
  <2> QED
    BY <1>1, <1>6, <1>7, <2>1, <2>2 DEF TypeOK, RowType, MarkType, ReqType
<1>10. StoreInv'
  <2>1. hist.tokens \subseteq retired'
    BY <1>1, <1>4, <1>5, Numbers DEF IInv, TypeOK, StoreInv, Retire, RowType
  <2> QED
    BY <1>7, <2>1 DEF StoreInv, NoRow
<1>11. MemoryInv'
  BY <1>1, <1>6, DownMemory
<1> QED
  BY <1>8, <1>9, <1>10, <1>11 DEF IInv

LEMMA StutterStep == ASSUME IInv, UNCHANGED vars PROVE IInv'
<1> USE DEF vars, store, memory, coordinator, bounds
<1>1. TypeOK' /\ StoreInv' /\ MemoryInv'
  BY SMTT(30) DEF IInv, TypeOK, StoreInv, MemoryInv
<1>2. Coordination'
  BY QuietStep, GenTypes DEF IInv, Coordination, DeletionInv
<1> QED
  BY <1>1, <1>2 DEF IInv

LEMMA InvInit == Init => IInv
<1> SUFFICES ASSUME Init PROVE IInv
  OBVIOUS
<1>1. row \in RowType /\ mark \in MarkType /\ hist \in [revocation : IssuedAt \cup {0}, tokens : SUBSET Tokens]
      /\ hist.revocation = 0 /\ row.gen \in Nat /\ mark.iat \in Nat
  <2>1. CASE row = NoRow /\ mark = NoMark /\ hist = [revocation |-> 0, tokens |-> {}]
    BY <2>1 DEF NoRow, NoMark, RowType, MarkType
  <2>2. CASE \E t \in Tokens, i \in IssuedAt :
            /\ row = [status |-> "active", gen |-> 1, iat |-> i, token |-> t]
            /\ mark = [state |-> "active", gen |-> 1, iat |-> i]
            /\ hist = [revocation |-> 0, tokens |-> {t}]
    BY <2>2, Numbers DEF RowType, MarkType
  <2> QED
    BY <2>1, <2>2 DEF Init
<1>2. Idle \in ReqType /\ Idle.pc = "idle" /\ Idle.gen = 0
  BY DEF Idle, ReqType
<1>3. TypeOK
  <2>1. /\ NoBarrier \in [gen : Int, blocked : BOOLEAN] /\ <<>> \in Seq(Numbered) /\ 0 \in 0 .. MaxCallbacks
        /\ 0 \in 0 .. MaxCrashes /\ 0 \in 0 .. MaxFailures /\ 0 \in 0 .. MaxMaintenance
    BY Numbers DEF NoBarrier, NoGen
  <2>2. req \in [Requests -> ReqType]
    BY <1>2 DEF Init
  <2> QED
    BY <1>1, <2>1, <2>2, NoDeletionType DEF Init, TypeOK, ReqType, RowType, MarkType
<1>4. Coordination
  <2>1. 0 <= Newest /\ NoGen <= Newest
    BY <1>1 DEF Init, Newest, Larger, NoGen
  <2>2. GenInv /\ DownInv /\ SeedInv
    BY <1>2, <2>1 DEF Init, GenInv, DownInv, SeedInv, NoBarrier, NoDeletion, Holding
  <2>3. LeaseInv /\ DeletionInv /\ ErasedInv
    BY <1>2 DEF Init, LeaseInv, DeletionInv, ErasedInv, NoBarrier, NoDeletion, Holding
  <2>4. AuthorityAgrees /\ JournalOutlivesWork
    BY <1>2 DEF Init, AuthorityAgrees, JournalOutlivesWork, Holding
  <2> QED
    BY <2>2, <2>3, <2>4 DEF Coordination
<1>5. StoreInv
  <2>1. CASE row = NoRow /\ mark = NoMark /\ hist = [revocation |-> 0, tokens |-> {}]
    BY <2>1 DEF NoRow, NoMark, StoreInv
  <2>2. CASE \E t \in Tokens, i \in IssuedAt :
            /\ row = [status |-> "active", gen |-> 1, iat |-> i, token |-> t]
            /\ mark = [state |-> "active", gen |-> 1, iat |-> i]
            /\ hist = [revocation |-> 0, tokens |-> {t}]
    BY <2>2, Numbers DEF StoreInv
  <2> QED
    BY <2>1, <2>2 DEF Init
<1>6. MemoryInv
  BY <1>1 DEF MemoryInv
<1> QED
  BY <1>3, <1>4, <1>5, <1>6 DEF IInv

LEMMA InvNext == IInv /\ [Next]_vars => IInv'
<1> SUFFICES ASSUME IInv, [Next]_vars PROVE IInv'
  OBVIOUS
<1>1. CASE Callback
  <2>1. CASE Superseded \/ InstalledAgain \/ InstalledIgnored \/ Installed
    BY <2>1, SupersededStep, InstalledAgainStep, InstalledIgnoredStep, InstalledStep
  <2>2. CASE StatusIgnored \/ RevokedAbsent \/ StatusChanged
    BY <2>2, StatusIgnoredStep, RevokedAbsentStep, StatusChangedStep
  <2>3. CASE DeletedIgnored \/ Deleted \/ FinishDeletion
    BY <2>3, DeletedIgnoredStep, DeletedStep, FinishDeletionStep
  <2> QED
    BY <1>1, <2>1, <2>2, <2>3 DEF Callback
<1>2. CASE Arrive \/ (\E n \in verifying, c \in Callbacks : Verified(n, c)) \/ EraseFails \/ Expire
  BY <1>2, ArriveStep, VerifiedStep, EraseFailsStep, ExpireStep
<1>3. CASE \E r \in Requests : RequestStep(r)
  BY <1>3, RequestMoves, ObserveStep, AcquireStep, ReleaseStep DEF RequestStep
<1>4. CASE Crash \/ Startup \/ RetireInstallation \/ EraseWorkspace
  BY <1>4, CrashStep, StartupStep, RetireInstallationStep, EraseWorkspaceStep
<1>5. CASE UNCHANGED vars
  BY <1>5, StutterStep
<1> QED
  BY <1>1, <1>2, <1>3, <1>4, <1>5 DEF Next

LEMMA Invariance == Spec => []IInv
<1> QED
  BY InvInit, InvNext, PTL DEF Spec
-----------------------------------------------------------------------------
(* The store, the coordinator and the requests have their types.           *)
THEOREM TypesHold == Spec => []TypeOK
<1>1. IInv => TypeOK
  BY DEF IInv
<1> QED
  BY <1>1, Invariance, PTL

(* The uninstall handler waits for every lease of every generation before  *)
(* it erases the rows of the workspace: no write settles in rows that are  *)
(* gone.                                                                   *)
THEOREM JournalsOutliveWork == Spec => []JournalOutlivesWork
<1>1. IInv => JournalOutlivesWork
  BY DEF IInv, Coordination
<1> QED
  BY <1>1, Invariance, PTL

(* The installations row and the coordinator agree on who may write, after *)
(* any order of callbacks, requests, crashes and repairs.                  *)
THEOREM AuthoritiesAgree == Spec => []AuthorityAgrees
<1>1. IInv => AuthorityAgrees
  BY DEF IInv, Coordination
<1> QED
  BY <1>1, Invariance, PTL

\* Only an install stores a token, and then one that was never stored before.
LEMMA TokenStep ==
  ASSUME IInv, [Next]_vars
  PROVE  row'.token \in {row.token, NoToken} \/ row'.token \notin hist.tokens
<1> USE DEF store, memory, coordinator, bounds
<1>1. CASE Installed
  BY <1>1 DEF IInv, StoreInv, Installed
<1>2. CASE StatusChanged
  BY <1>2 DEF IInv, TypeOK, StatusChanged
<1>3. CASE Deleted
  BY <1>3 DEF IInv, TypeOK, Deleted, Tombstone
<1>4. CASE FinishDeletion \/ Startup \/ EraseWorkspace
  BY <1>4 DEF FinishDeletion, Startup, EraseWorkspace, Erase, NoRow
<1>5. CASE RetireInstallation
  BY <1>5 DEF IInv, TypeOK, RetireInstallation
<1>6. CASE Superseded \/ InstalledAgain \/ InstalledIgnored \/ StatusIgnored \/ RevokedAbsent \/ DeletedIgnored
  BY <1>6 DEF Superseded, InstalledAgain, InstalledIgnored, StatusIgnored, RevokedAbsent,
     DeletedIgnored
<1>7. CASE Arrive \/ (\E n \in verifying, c \in Callbacks : Verified(n, c)) \/ EraseFails \/ Expire \/ Crash
  BY <1>7 DEF Arrive, Verified, EraseFails, Expire, Crash
<1>8. CASE (\E r \in Requests : RequestStep(r)) \/ UNCHANGED vars
  BY <1>8 DEF RequestStep, vars
<1> QED
  BY <1>1, <1>2, <1>3, <1>4, <1>5, <1>6, <1>7, <1>8 DEF Next, Callback

(* A workspace that was uninstalled or deactivated becomes active again    *)
(* only by a callback issued later than the revocation, and no token comes *)
(* back, although the watermark that remembers them expires.               *)
THEOREM RevocationStaysFinal == Spec => RevocationIsFinal
<1> DEFINE Final ==
        /\ row'.status = "active" => row'.iat > hist'.revocation
        /\ row'.token \in {row.token, NoToken} \/ row'.token \notin hist.tokens
<1>1. IInv /\ [Next]_vars => [Final]_vars
  <2> SUFFICES ASSUME IInv, [Next]_vars PROVE Final
    OBVIOUS
  <2>1. IInv'
    BY InvNext
  <2> QED
    BY <2>1, TokenStep DEF IInv, StoreInv
<1> QED
  BY <1>1, Invariance, PTL DEF Spec, RevocationIsFinal
=============================================================================
