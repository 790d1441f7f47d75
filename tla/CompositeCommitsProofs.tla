----------------------- MODULE CompositeCommitsProofs -----------------------
(***************************************************************************)
(* The commits of several steps report the truth and change only what is   *)
(* theirs, for every length of the plan and every number of twins, faults  *)
(* and crashes.                                                            *)
(***************************************************************************)
EXTENDS CompositeCommits, TLAPS

\* All the proofs use of a workflow.  Later steps change what the only create made
\* just where an inferred create ends the commit or is not inferred.
Shape(j) ==
    /\ j.n \in Nat \ {0}
    /\ j.creates \in {{}, {1}, 1 .. j.n}
    /\ \A k \in 1 .. j.n :
          j.leaves[k] \subseteq (IF k = 1 THEN {"write_failed", "execution_error"}
                                 ELSE {"partial", "execution_error"})
    /\ j.creates = {1} /\ j.n > 1 => j.stops \/ 1 \notin j.infers

Committing == {"gate", "closure", "sent", "ambiguous", "settle", "judge"}

\* A commit is at one step: all before it are done, none after it has begun.
OrderInv ==
    /\ pc \in Committing \cup {"return"} => op = "executing"
    /\ pc \in Committing =>
          /\ receipt = "none"
          /\ \A k \in Steps : k < cur => row[k] = "succeeded"
          /\ \A k \in Steps : k > cur => row[k] = "none" /\ host[k] = "idle"
    /\ pc \in {"gate", "closure"} => host[cur] = "idle"
    /\ pc = "gate" => row[cur] = "none"
    /\ pc \in {"closure", "sent", "ambiguous", "settle"} => row[cur] = "executing"

\* What is known of the step that was just dispatched, or was not.
EndInv ==
    pc \in {"settle", "judge"} =>
        /\ end # "none"
        /\ end \in {"succeeded", "inferred"} => InPlace(cur)
        /\ end = "definitive_failed" => host[cur] \in {"idle", "refused"}
        /\ pc = "judge" => row[cur] = Settled(end)

\* What the receipt of a commit that is over says.
ReturnInv ==
    /\ pc = "return" =>
          /\ receipt # "none"
          /\ \A k \in Steps : row[k] # "executing"
          /\ receipt = "ok" => \A k \in Steps : row[k] = "succeeded"
          /\ receipt = "partial" => \E k \in Steps : InPlace(k)
          /\ receipt \in {"write_failed", "execution_error"} =>
                \A k \in Steps : row[k] # "outcome_unknown"
          /\ receipt = "write_failed" => \A k \in Steps : host[k] \in {"idle", "refused"}

\* The rows alone, as a restart finds them.
RowInv ==
    \A k \in Steps :
        /\ row[k] = "succeeded" => InPlace(k)
        /\ row[k] = "none" => host[k] = "idle"
        /\ row[k] = "definitive_failed" => host[k] \in {"idle", "refused"}
        /\ op # "executing" => row[k] # "executing"
        /\ op = "succeeded" => row[k] = "succeeded"

\* Whose entity the steps after the only create work on.
EntityInv ==
    /\ pc \in {"settle", "judge"} /\ end = "succeeded" => made[cur] = "own"
    /\ pc \in {"settle", "judge"} /\ end = "inferred" => cur \in job.infers
    /\ pc \in Committing /\ cur > 1 /\ job.creates = {1} => made[1] = "own"

IInv == TypeOK /\ OrderInv /\ EndInv /\ ReturnInv /\ RowInv /\ EntityInv
        /\ ReceiptsAreTruthful /\ ChangesStayOnOwnEntities
-----------------------------------------------------------------------------
LEMMA Numbers == MaxSteps \in Nat \ {0}
  BY CompositeAssumption

(* Each workflow has the shape the proofs rest on.                         *)
LEMMA JobShape == ASSUME NEW j \in Jobs PROVE Shape(j)
<1> DEFINE F(n) == {SetupProject(n), OnboardUser(n), InvoiceCreate(n)}
           G(n) == {SetupTask(n), InvoiceUpdate(n)}
<1>1. PICK n \in 1 .. MaxSteps, v2 \in BOOLEAN :
        \/ j = SetupProject(n) \/ j = OnboardUser(n) \/ j = WorkPackage(n, v2)
        \/ j = InvoiceCreate(n) \/ j = SetupTask(n) \/ j = ClientCreate(n, v2)
        \/ j = InvoiceUpdate(n)
  <2>1. \/ j \in UNION {F(n) : n \in 1 .. MaxSteps}
        \/ j \in UNION {G(n) : n \in 1 .. MaxSteps \cap 1 .. 2}
        \/ j \in {WorkPackage(n, v2) : n \in 1 .. MaxSteps, v2 \in BOOLEAN}
        \/ j \in {ClientCreate(n, v2) : n \in 1 .. MaxSteps \cap 1 .. 2, v2 \in BOOLEAN}
    BY DEF Jobs
  <2> HIDE DEF F, G
  <2>2. \/ \E n \in 1 .. MaxSteps : j \in F(n) \/ j \in G(n)
        \/ \E n \in 1 .. MaxSteps, v2 \in BOOLEAN : j = WorkPackage(n, v2) \/ j = ClientCreate(n, v2)
    BY <2>1
  <2> QED
    BY <2>2 DEF F, G
<1>2. n \in Nat \ {0}
  BY Numbers
<1>3. CASE j = SetupProject(n)
  BY <1>2, <1>3 DEF Shape, SetupProject
<1>4. CASE j = OnboardUser(n)
  BY <1>2, <1>4 DEF Shape, OnboardUser
<1>5. CASE j = WorkPackage(n, v2)
  BY <1>2, <1>5 DEF Shape, WorkPackage
<1>6. CASE j = InvoiceCreate(n)
  BY <1>2, <1>6 DEF Shape, InvoiceCreate
<1>7. CASE j = SetupTask(n)
  BY <1>2, <1>7 DEF Shape, SetupTask
<1>8. CASE j = ClientCreate(n, v2)
  BY <1>2, <1>8 DEF Shape, ClientCreate
<1>9. CASE j = InvoiceUpdate(n)
  BY <1>2, <1>9 DEF Shape, InvoiceUpdate
<1> QED
  BY <1>1, <1>3, <1>4, <1>5, <1>6, <1>7, <1>8, <1>9

(* The numbers of the steps, and that no step changes the plan.            *)
LEMMA StepNumbers ==
  ASSUME TypeOK
  PROVE  /\ Shape(job) /\ job.n \in Nat \ {0}
         /\ 1 \in Steps /\ cur \in Steps
         /\ \A k \in Steps : k \in Nat \ {0} /\ k <= job.n
         /\ cur # job.n => cur + 1 \in Steps
<1>1. Shape(job) /\ job.n \in Nat \ {0}
  BY JobShape DEF TypeOK, Shape
<1> QED
  BY <1>1 DEF TypeOK, Steps

LEMMA InvInit == Init => IInv
<1> SUFFICES ASSUME Init PROVE IInv
  OBVIOUS
<1>1. job.n \in Nat \ {0} /\ 1 \in Steps
  BY JobShape DEF Init, Shape, Steps
<1>2. TypeOK
  BY <1>1 DEF Init, TypeOK, PC, Ends, Receipts, Rows, OpStatus, Hosts, Whose
<1>3. OrderInv
  BY <1>1 DEF Init, OrderInv, Committing, Steps
<1>4. EndInv /\ ReturnInv /\ RowInv /\ EntityInv
  BY <1>1 DEF Init, EndInv, ReturnInv, RowInv, EntityInv
<1>5. ReceiptsAreTruthful /\ ChangesStayOnOwnEntities
  BY DEF Init, ReceiptsAreTruthful, ChangesStayOnOwnEntities
<1> QED
  BY <1>2, <1>3, <1>4, <1>5 DEF IInv

LEMMA HostDecidesStep == ASSUME IInv, NEW k \in Steps, HostDecides(k) PROVE IInv'
<1> USE DEF HostDecides, memory, stored, clockify, bounds, Steps, InPlace
<1>1. TypeOK'
  BY StepNumbers DEF IInv, TypeOK, PC, Ends, Receipts, Rows, OpStatus, Hosts, Whose
<1>2. OrderInv'
  BY StepNumbers DEF IInv, TypeOK, OrderInv, Committing
<1>3. EndInv'
  BY StepNumbers DEF IInv, TypeOK, OrderInv, EndInv, Committing
<1>4. ReturnInv'
  BY StepNumbers DEF IInv, TypeOK, OrderInv, EndInv, ReturnInv, RowInv, Committing
<1>5. RowInv'
  BY StepNumbers DEF IInv, TypeOK, OrderInv, EndInv, RowInv, Committing
<1>6. EntityInv'
  BY StepNumbers DEF IInv, TypeOK, EntityInv, Committing
<1>7. ReceiptsAreTruthful' /\ ChangesStayOnOwnEntities'
  BY StepNumbers DEF IInv, TypeOK, OrderInv, ReturnInv, RowInv, ReceiptsAreTruthful,
     ChangesStayOnOwnEntities, Committing
<1> QED
  BY <1>1, <1>2, <1>3, <1>4, <1>5, <1>6, <1>7 DEF IInv

LEMMA OtherUserStep == ASSUME IInv, NEW k \in Steps, OtherUser(k) PROVE IInv'
<1> USE DEF OtherUser, memory, stored, clockify, bounds, Steps, InPlace
<1>1. TypeOK'
  BY StepNumbers DEF IInv, TypeOK, PC, Ends, Receipts, Rows, OpStatus, Hosts, Whose
<1>2. OrderInv'
  BY StepNumbers DEF IInv, TypeOK, OrderInv, Committing
<1>3. EndInv'
  BY StepNumbers DEF IInv, TypeOK, OrderInv, EndInv, Committing
<1>4. ReturnInv'
  BY StepNumbers DEF IInv, TypeOK, OrderInv, EndInv, ReturnInv, RowInv, Committing
<1>5. RowInv'
  BY StepNumbers DEF IInv, TypeOK, OrderInv, EndInv, RowInv, Committing
<1>6. EntityInv'
  BY StepNumbers DEF IInv, TypeOK, EntityInv, Committing
<1>7. ReceiptsAreTruthful' /\ ChangesStayOnOwnEntities'
  BY StepNumbers DEF IInv, TypeOK, OrderInv, ReturnInv, RowInv, ReceiptsAreTruthful,
     ChangesStayOnOwnEntities, Committing
<1> QED
  BY <1>1, <1>2, <1>3, <1>4, <1>5, <1>6, <1>7 DEF IInv

LEMMA LeaveStep == ASSUME IInv, NEW r \in Receipts, Leave(r) PROVE IInv'
<1> USE DEF Leave, memory, stored, clockify, bounds, Steps, InPlace
<1>1. TypeOK'
  BY StepNumbers DEF IInv, TypeOK, PC, Ends, Receipts, Rows, OpStatus, Hosts, Whose
<1>2. OrderInv'
  BY StepNumbers DEF IInv, TypeOK, OrderInv, Committing
<1>3. EndInv'
  BY StepNumbers DEF IInv, TypeOK, OrderInv, EndInv, Committing
<1>0. /\ r \in {"write_failed", "execution_error", "partial"}
      /\ r = "partial" => cur # 1
      /\ r = "write_failed" => cur = 1
  BY StepNumbers DEF IInv, Shape
<1>4. ReturnInv'
  <2>1. r = "partial" => InPlace(1)
    BY <1>0, StepNumbers DEF IInv, OrderInv, RowInv, Committing
  <2>2. \A k \in Steps : row[k] \in {"succeeded", "none"}
    BY StepNumbers DEF IInv, OrderInv, Committing
  <2>3. r = "write_failed" => \A k \in Steps : host[k] = "idle"
    BY <1>0, StepNumbers DEF IInv, OrderInv, Committing
  <2> QED
    BY <1>0, <2>1, <2>2, <2>3, StepNumbers DEF IInv, ReturnInv
<1>5. RowInv'
  BY StepNumbers DEF IInv, TypeOK, OrderInv, EndInv, RowInv, Committing
<1>6. EntityInv'
  BY StepNumbers DEF IInv, TypeOK, EntityInv, Committing
<1>7. ReceiptsAreTruthful' /\ ChangesStayOnOwnEntities'
  BY DEF IInv, OrderInv, ReceiptsAreTruthful, ChangesStayOnOwnEntities, Committing
<1> QED
  BY <1>1, <1>2, <1>3, <1>4, <1>5, <1>6, <1>7 DEF IInv

LEMMA EscapeStep == ASSUME IInv, Escape PROVE IInv'
<1> USE DEF Escape, memory, stored, clockify, bounds, Steps, InPlace
<1>1. TypeOK'
  BY StepNumbers DEF IInv, TypeOK, PC, Ends, Receipts, Rows, OpStatus, Hosts, Whose
<1>2. OrderInv'
  BY StepNumbers DEF IInv, TypeOK, OrderInv, Committing
<1>3. EndInv'
  BY StepNumbers DEF IInv, TypeOK, OrderInv, EndInv, Committing
<1>4. ReturnInv'
  BY StepNumbers DEF IInv, TypeOK, OrderInv, EndInv, ReturnInv, RowInv, Committing
<1>5. RowInv'
  BY StepNumbers DEF IInv, TypeOK, OrderInv, EndInv, RowInv, Committing
<1>6. EntityInv'
  BY StepNumbers DEF IInv, TypeOK, EntityInv, Committing
<1>7. ReceiptsAreTruthful' /\ ChangesStayOnOwnEntities'
  BY StepNumbers DEF IInv, TypeOK, OrderInv, ReturnInv, RowInv, ReceiptsAreTruthful,
     ChangesStayOnOwnEntities, Committing
<1> QED
  BY <1>1, <1>2, <1>3, <1>4, <1>5, <1>6, <1>7 DEF IInv

LEMMA PrepareStepStep == ASSUME IInv, PrepareStep PROVE IInv'
<1> USE DEF PrepareStep, memory, stored, clockify, bounds, Steps, InPlace
<1>1. TypeOK'
  BY StepNumbers DEF IInv, TypeOK, PC, Ends, Receipts, Rows, OpStatus, Hosts, Whose
<1>2. OrderInv'
  BY StepNumbers DEF IInv, TypeOK, OrderInv, Committing
<1>3. EndInv'
  BY StepNumbers DEF IInv, TypeOK, OrderInv, EndInv, Committing
<1>4. ReturnInv'
  BY StepNumbers DEF IInv, TypeOK, OrderInv, EndInv, ReturnInv, RowInv, Committing
<1>5. RowInv'
  BY StepNumbers DEF IInv, TypeOK, OrderInv, EndInv, RowInv, Committing
<1>6. EntityInv'
  BY StepNumbers DEF IInv, TypeOK, EntityInv, Committing
<1>7. ReceiptsAreTruthful' /\ ChangesStayOnOwnEntities'
  BY StepNumbers DEF IInv, TypeOK, OrderInv, ReturnInv, RowInv, ReceiptsAreTruthful,
     ChangesStayOnOwnEntities, Committing
<1> QED
  BY <1>1, <1>2, <1>3, <1>4, <1>5, <1>6, <1>7 DEF IInv

LEMMA FailBeforeDispatchStep == ASSUME IInv, NEW e \in {"definitive_failed", "outcome_unknown"}, FailBeforeDispatch(e) PROVE IInv'
<1> USE DEF FailBeforeDispatch, memory, stored, clockify, bounds, Steps, InPlace
<1>1. TypeOK'
  BY StepNumbers DEF IInv, TypeOK, PC, Ends, Receipts, Rows, OpStatus, Hosts, Whose
<1>2. OrderInv'
  BY StepNumbers DEF IInv, TypeOK, OrderInv, Committing
<1>3. EndInv'
  BY StepNumbers DEF IInv, TypeOK, OrderInv, EndInv, Committing
<1>4. ReturnInv'
  BY StepNumbers DEF IInv, TypeOK, OrderInv, EndInv, ReturnInv, RowInv, Committing
<1>5. RowInv'
  BY StepNumbers DEF IInv, TypeOK, OrderInv, EndInv, RowInv, Committing
<1>6. EntityInv'
  BY StepNumbers DEF IInv, TypeOK, EntityInv, Committing
<1>7. ReceiptsAreTruthful' /\ ChangesStayOnOwnEntities'
  BY StepNumbers DEF IInv, TypeOK, OrderInv, ReturnInv, RowInv, ReceiptsAreTruthful,
     ChangesStayOnOwnEntities, Committing
<1> QED
  BY <1>1, <1>2, <1>3, <1>4, <1>5, <1>6, <1>7 DEF IInv

LEMMA DispatchStep == ASSUME IInv, Dispatch PROVE IInv'
<1> USE DEF Dispatch, memory, stored, clockify, bounds, Steps, InPlace
<1>0. Entity \in Whose
  BY StepNumbers DEF IInv, TypeOK, Entity, Whose
<1>1. TypeOK'
  BY <1>0 DEF IInv, TypeOK, PC, Hosts, Whose
<1>2. OrderInv'
  BY StepNumbers DEF IInv, TypeOK, OrderInv, Committing
<1>3. EndInv'
  BY StepNumbers DEF IInv, TypeOK, OrderInv, EndInv, Committing
<1>4. ReturnInv'
  BY StepNumbers DEF IInv, TypeOK, OrderInv, EndInv, ReturnInv, RowInv, Committing
<1>5. RowInv'
  BY StepNumbers DEF IInv, TypeOK, OrderInv, EndInv, RowInv, Committing
<1>6. EntityInv'
  BY StepNumbers DEF IInv, TypeOK, EntityInv, Committing
<1>7. ReceiptsAreTruthful' /\ ChangesStayOnOwnEntities'
  <2>1. cur \notin job.creates => Entity = "own"
    BY StepNumbers DEF IInv, EntityInv, Entity, Shape, Committing
  <2>2. ChangesStayOnOwnEntities'
    BY <2>1, StepNumbers DEF IInv, TypeOK, ChangesStayOnOwnEntities
  <2>3. ReceiptsAreTruthful'
    BY DEF IInv, OrderInv, ReceiptsAreTruthful, Committing
  <2> QED
    BY <2>2, <2>3
<1> QED
  BY <1>1, <1>2, <1>3, <1>4, <1>5, <1>6, <1>7 DEF IInv

LEMMA RespondSucceededStep == ASSUME IInv, RespondSucceeded PROVE IInv'
<1> USE DEF RespondSucceeded, memory, stored, clockify, bounds, Steps, InPlace
<1>1. TypeOK'
  BY StepNumbers DEF IInv, TypeOK, PC, Ends, Receipts, Rows, OpStatus, Hosts, Whose
<1>2. OrderInv'
  BY StepNumbers DEF IInv, TypeOK, OrderInv, Committing
<1>3. EndInv'
  BY StepNumbers DEF IInv, TypeOK, OrderInv, EndInv, Committing
<1>4. ReturnInv'
  BY StepNumbers DEF IInv, TypeOK, OrderInv, EndInv, ReturnInv, RowInv, Committing
<1>5. RowInv'
  BY StepNumbers DEF IInv, TypeOK, OrderInv, EndInv, RowInv, Committing
<1>6. EntityInv'
  BY StepNumbers DEF IInv, TypeOK, EntityInv, Committing
<1>7. ReceiptsAreTruthful' /\ ChangesStayOnOwnEntities'
  BY StepNumbers DEF IInv, TypeOK, OrderInv, ReturnInv, RowInv, ReceiptsAreTruthful,
     ChangesStayOnOwnEntities, Committing
<1> QED
  BY <1>1, <1>2, <1>3, <1>4, <1>5, <1>6, <1>7 DEF IInv

LEMMA RespondRejectedStep == ASSUME IInv, RespondRejected PROVE IInv'
<1> USE DEF RespondRejected, memory, stored, clockify, bounds, Steps, InPlace
<1>1. TypeOK'
  BY StepNumbers DEF IInv, TypeOK, PC, Ends, Receipts, Rows, OpStatus, Hosts, Whose
<1>2. OrderInv'
  BY StepNumbers DEF IInv, TypeOK, OrderInv, Committing
<1>3. EndInv'
  BY StepNumbers DEF IInv, TypeOK, OrderInv, EndInv, Committing
<1>4. ReturnInv'
  BY StepNumbers DEF IInv, TypeOK, OrderInv, EndInv, ReturnInv, RowInv, Committing
<1>5. RowInv'
  BY StepNumbers DEF IInv, TypeOK, OrderInv, EndInv, RowInv, Committing
<1>6. EntityInv'
  BY StepNumbers DEF IInv, TypeOK, EntityInv, Committing
<1>7. ReceiptsAreTruthful' /\ ChangesStayOnOwnEntities'
  BY StepNumbers DEF IInv, TypeOK, OrderInv, ReturnInv, RowInv, ReceiptsAreTruthful,
     ChangesStayOnOwnEntities, Committing
<1> QED
  BY <1>1, <1>2, <1>3, <1>4, <1>5, <1>6, <1>7 DEF IInv

LEMMA RespondAmbiguousStep == ASSUME IInv, RespondAmbiguous PROVE IInv'
<1> USE DEF RespondAmbiguous, memory, stored, clockify, bounds, Steps, InPlace
<1>1. TypeOK'
  BY StepNumbers DEF IInv, TypeOK, PC, Ends, Receipts, Rows, OpStatus, Hosts, Whose
<1>2. OrderInv'
  BY StepNumbers DEF IInv, TypeOK, OrderInv, Committing
<1>3. EndInv'
  BY StepNumbers DEF IInv, TypeOK, OrderInv, EndInv, Committing
<1>4. ReturnInv'
  BY StepNumbers DEF IInv, TypeOK, OrderInv, EndInv, ReturnInv, RowInv, Committing
<1>5. RowInv'
  BY StepNumbers DEF IInv, TypeOK, OrderInv, EndInv, RowInv, Committing
<1>6. EntityInv'
  BY StepNumbers DEF IInv, TypeOK, EntityInv, Committing
<1>7. ReceiptsAreTruthful' /\ ChangesStayOnOwnEntities'
  BY StepNumbers DEF IInv, TypeOK, OrderInv, ReturnInv, RowInv, ReceiptsAreTruthful,
     ChangesStayOnOwnEntities, Committing
<1> QED
  BY <1>1, <1>2, <1>3, <1>4, <1>5, <1>6, <1>7 DEF IInv

LEMMA ReadBackStep == ASSUME IInv, ReadBack PROVE IInv'
<1> USE DEF ReadBack, Evidence, memory, stored, clockify, bounds, Steps, InPlace
<1>1. TypeOK'
  BY StepNumbers DEF IInv, TypeOK, PC, Ends, Receipts, Rows, OpStatus, Hosts, Whose
<1>2. OrderInv'
  BY StepNumbers DEF IInv, TypeOK, OrderInv, Committing
<1>3. EndInv'
  BY StepNumbers DEF IInv, TypeOK, OrderInv, EndInv, Committing
<1>4. ReturnInv'
  BY StepNumbers DEF IInv, TypeOK, OrderInv, EndInv, ReturnInv, RowInv, Committing
<1>5. RowInv'
  BY StepNumbers DEF IInv, TypeOK, OrderInv, EndInv, RowInv, Committing
<1>6. EntityInv'
  BY StepNumbers DEF IInv, TypeOK, EntityInv, Committing
<1>7. ReceiptsAreTruthful' /\ ChangesStayOnOwnEntities'
  BY StepNumbers DEF IInv, TypeOK, OrderInv, ReturnInv, RowInv, ReceiptsAreTruthful,
     ChangesStayOnOwnEntities, Committing
<1> QED
  BY <1>1, <1>2, <1>3, <1>4, <1>5, <1>6, <1>7 DEF IInv

LEMMA StayAmbiguousStep == ASSUME IInv, StayAmbiguous PROVE IInv'
<1> USE DEF StayAmbiguous, memory, stored, clockify, bounds, Steps, InPlace
<1>1. TypeOK'
  BY StepNumbers DEF IInv, TypeOK, PC, Ends, Receipts, Rows, OpStatus, Hosts, Whose
<1>2. OrderInv'
  BY StepNumbers DEF IInv, TypeOK, OrderInv, Committing
<1>3. EndInv'
  BY StepNumbers DEF IInv, TypeOK, OrderInv, EndInv, Committing
<1>4. ReturnInv'
  BY StepNumbers DEF IInv, TypeOK, OrderInv, EndInv, ReturnInv, RowInv, Committing
<1>5. RowInv'
  BY StepNumbers DEF IInv, TypeOK, OrderInv, EndInv, RowInv, Committing
<1>6. EntityInv'
  BY StepNumbers DEF IInv, TypeOK, EntityInv, Committing
<1>7. ReceiptsAreTruthful' /\ ChangesStayOnOwnEntities'
  BY StepNumbers DEF IInv, TypeOK, OrderInv, ReturnInv, RowInv, ReceiptsAreTruthful,
     ChangesStayOnOwnEntities, Committing
<1> QED
  BY <1>1, <1>2, <1>3, <1>4, <1>5, <1>6, <1>7 DEF IInv

LEMMA SettleStepStep == ASSUME IInv, SettleStep PROVE IInv'
<1> USE DEF SettleStep, Settled, memory, stored, clockify, bounds, Steps, InPlace
<1>1. TypeOK'
  BY StepNumbers DEF IInv, TypeOK, PC, Ends, Receipts, Rows, OpStatus, Hosts, Whose
<1>2. OrderInv'
  BY StepNumbers DEF IInv, TypeOK, OrderInv, Committing
<1>3. EndInv'
  BY StepNumbers DEF IInv, TypeOK, OrderInv, EndInv, Committing
<1>4. ReturnInv'
  BY StepNumbers DEF IInv, TypeOK, OrderInv, EndInv, ReturnInv, RowInv, Committing
<1>5. RowInv'
  BY StepNumbers DEF IInv, TypeOK, OrderInv, EndInv, RowInv, Committing
<1>6. EntityInv'
  BY StepNumbers DEF IInv, TypeOK, EntityInv, Committing
<1>7. ReceiptsAreTruthful' /\ ChangesStayOnOwnEntities'
  BY StepNumbers DEF IInv, TypeOK, OrderInv, ReturnInv, RowInv, ReceiptsAreTruthful,
     ChangesStayOnOwnEntities, Committing
<1> QED
  BY <1>1, <1>2, <1>3, <1>4, <1>5, <1>6, <1>7 DEF IInv

(* The judgement of a settled step: it goes on only after a success before  *)
(* the last step, and what it reports holds.                                *)
LEMMA Judgements ==
  ASSUME IInv, pc = "judge"
  PROVE  /\ Judgement \in Receipts \ {"execution_error"}
         /\ Judgement = "none" => cur # job.n /\ end \in {"succeeded", "inferred"}
         /\ Judgement = "none" /\ cur = 1 /\ job.creates = {1} => made[1] = "own"
         /\ Judgement = "ok" => cur = job.n /\ end \in {"succeeded", "inferred"}
         /\ Judgement = "partial" => cur > 1 \/ end \in {"succeeded", "inferred"}
         /\ Judgement = "write_failed" => cur = 1 /\ end = "definitive_failed"
<1>1. end \in {"succeeded", "inferred", "definitive_failed", "outcome_unknown"}
  BY DEF IInv, TypeOK, EndInv, Ends
<1>2. cur \in Nat \ {0} /\ cur <= job.n /\ job.n \in Nat
  BY StepNumbers DEF IInv
<1>3. Judgement = "none" /\ cur = 1 /\ job.creates = {1} => made[1] = "own"
  <2>1. CASE end = "succeeded"
    BY <2>1 DEF IInv, EntityInv
  <2>2. CASE end = "inferred"
    BY <1>2, <2>2, StepNumbers DEF IInv, EntityInv, Judgement, Shape
  <2>3. CASE end \in {"definitive_failed", "outcome_unknown"}
    BY <2>3 DEF Judgement
  <2> QED
    BY <1>1, <2>1, <2>2, <2>3
<1> QED
  BY <1>1, <1>2, <1>3 DEF Judgement, Receipts

LEMMA JudgeStep == ASSUME IInv, Judge PROVE IInv'
<1> USE DEF Judge, memory, stored, clockify, bounds, Steps, InPlace
<1>0. row[cur] = Settled(end) /\ (end \in {"succeeded", "inferred"} => InPlace(cur) /\ row[cur] = "succeeded")
  BY DEF IInv, EndInv, Settled
<1>1. TypeOK'
  BY StepNumbers, Judgements DEF IInv, TypeOK, PC, Ends, Receipts
<1>2. OrderInv'
  BY <1>0, StepNumbers, Judgements DEF IInv, OrderInv, Committing
<1>3. EndInv'
  BY StepNumbers DEF IInv, TypeOK, OrderInv, EndInv, Committing
<1>4. ReturnInv'
  <2>1. SUFFICES ASSUME Judgement # "none" PROVE ReturnInv'
    BY DEF ReturnInv
  <2>2. row[cur] # "executing" /\ \A k \in Steps : k # cur => row[k] \in {"succeeded", "none"}
    <3>1. \A k \in Steps : k < cur \/ k > cur \/ k = cur
      BY StepNumbers DEF IInv
    <3> QED
      BY <1>0, <3>1 DEF IInv, TypeOK, OrderInv, Settled, Ends, Committing
  <2>3. Judgement = "ok" => \A k \in Steps : row[k] = "succeeded"
    BY <1>0, StepNumbers, Judgements DEF IInv, OrderInv, Committing
  <2>4. Judgement = "partial" => InPlace(1) \/ InPlace(cur)
    BY <1>0, StepNumbers, Judgements DEF IInv, OrderInv, RowInv, Committing
  <2>5. Judgement = "write_failed" => row[cur] = "definitive_failed"
    BY <1>0, Judgements DEF Settled
  <2>6. Judgement = "write_failed" => \A k \in Steps : host[k] \in {"idle", "refused"}
    BY StepNumbers, Judgements DEF IInv, OrderInv, EndInv, Committing
  <2> QED
    BY <2>1, <2>2, <2>3, <2>4, <2>5, <2>6, StepNumbers, Judgements DEF IInv, ReturnInv
<1>5. RowInv'
  BY StepNumbers DEF IInv, TypeOK, OrderInv, EndInv, RowInv, Committing
<1>6. EntityInv'
  BY StepNumbers, Judgements DEF IInv, EntityInv, Committing
<1>7. ReceiptsAreTruthful' /\ ChangesStayOnOwnEntities'
  BY DEF IInv, OrderInv, ReceiptsAreTruthful, ChangesStayOnOwnEntities, Committing
<1> QED
  BY <1>1, <1>2, <1>3, <1>4, <1>5, <1>6, <1>7 DEF IInv

LEMMA SettleOperationStep == ASSUME IInv, SettleOperation PROVE IInv'
<1> USE DEF SettleOperation, memory, stored, clockify, bounds, Steps, InPlace
<1>0. /\ Stored(receipt) \in OpStatus \ {"executing"}
      /\ Stored(receipt) = "succeeded" => receipt = "ok"
      /\ Stored(receipt) = "partial" => receipt = "partial"
      /\ Stored(receipt) = "definitive_failed" => receipt \in {"write_failed", "execution_error"}
  BY DEF IInv, TypeOK, ReturnInv, Stored, Receipts, OpStatus
<1>1. TypeOK'
  BY <1>0 DEF IInv, TypeOK, PC
<1>2. OrderInv'
  BY StepNumbers DEF IInv, TypeOK, OrderInv, Committing
<1>3. EndInv'
  BY StepNumbers DEF IInv, TypeOK, OrderInv, EndInv, Committing
<1>4. ReturnInv'
  BY StepNumbers DEF IInv, TypeOK, OrderInv, EndInv, ReturnInv, RowInv, Committing
<1>5. RowInv'
  BY <1>0 DEF IInv, ReturnInv, RowInv
<1>6. EntityInv'
  BY StepNumbers DEF IInv, TypeOK, EntityInv, Committing
<1>7. ReceiptsAreTruthful' /\ ChangesStayOnOwnEntities'
  <2>1. Stored(receipt) = "definitive_failed" =>
          \A k \in Steps : /\ row[k] \in {"none", "definitive_failed", "succeeded"}
                           /\ receipt # "execution_error" => host[k] \in {"idle", "refused"}
    BY <1>0 DEF IInv, TypeOK, ReturnInv, Rows
  <2>2. Stored(receipt) = "definitive_failed" =>
          \A k \in Steps : host[k] \in {"inflight", "applied"} => row[k] = "succeeded"
    <3>1. \A k \in Steps : row[k] \in {"none", "definitive_failed"} => host[k] \in {"idle", "refused"}
      BY DEF IInv, RowInv
    <3> QED
      BY <2>1, <3>1
  <2>3. Stored(receipt) = "succeeded" => \A k \in Steps : InPlace(k) /\ row[k] = "succeeded"
    BY <1>0 DEF IInv, ReturnInv, RowInv
  <2>4. Stored(receipt) = "partial" => \E k \in Steps : InPlace(k)
    BY <1>0 DEF IInv, ReturnInv
  <2>5. ChangesStayOnOwnEntities'
    BY DEF IInv, ChangesStayOnOwnEntities
  <2>6. op' = Stored(receipt) /\ UNCHANGED <<job, receipt, row, host, twins>>
    OBVIOUS
  <2> QED
    BY <2>1, <2>2, <2>3, <2>4, <2>5, <2>6 DEF ReceiptsAreTruthful
<1> QED
  BY <1>1, <1>2, <1>3, <1>4, <1>5, <1>6, <1>7 DEF IInv

LEMMA CrashStep == ASSUME IInv, Crash PROVE IInv'
<1> USE DEF Crash, memory, stored, clockify, bounds, Steps, InPlace
<1>1. TypeOK'
  BY StepNumbers DEF IInv, TypeOK, PC, Ends, Receipts, Rows, OpStatus, Hosts, Whose
<1>2. OrderInv'
  BY StepNumbers DEF IInv, TypeOK, OrderInv, Committing
<1>3. EndInv'
  BY StepNumbers DEF IInv, TypeOK, OrderInv, EndInv, Committing
<1>4. ReturnInv'
  BY StepNumbers DEF IInv, TypeOK, OrderInv, EndInv, ReturnInv, RowInv, Committing
<1>5. RowInv'
  BY StepNumbers DEF IInv, TypeOK, OrderInv, EndInv, RowInv, Committing
<1>6. EntityInv'
  BY StepNumbers DEF IInv, TypeOK, EntityInv, Committing
<1>7. ReceiptsAreTruthful' /\ ChangesStayOnOwnEntities'
  BY StepNumbers DEF IInv, TypeOK, OrderInv, ReturnInv, RowInv, ReceiptsAreTruthful,
     ChangesStayOnOwnEntities, Committing
<1> QED
  BY <1>1, <1>2, <1>3, <1>4, <1>5, <1>6, <1>7 DEF IInv

LEMMA RecoverOrphanedRunsStep == ASSUME IInv, RecoverOrphanedRuns PROVE IInv'
<1> USE DEF RecoverOrphanedRuns, Recovered, memory, stored, clockify, bounds, Steps, InPlace
<1>1. TypeOK'
  BY StepNumbers DEF IInv, TypeOK, PC, Ends, Receipts, Rows, OpStatus, Hosts, Whose
<1>2. OrderInv'
  BY StepNumbers DEF IInv, TypeOK, OrderInv, Committing
<1>3. EndInv'
  BY StepNumbers DEF IInv, TypeOK, OrderInv, EndInv, Committing
<1>4. ReturnInv'
  BY StepNumbers DEF IInv, TypeOK, OrderInv, EndInv, ReturnInv, RowInv, Committing
<1>5. RowInv'
  BY StepNumbers DEF IInv, TypeOK, OrderInv, EndInv, RowInv, Committing
<1>6. EntityInv'
  BY StepNumbers DEF IInv, TypeOK, EntityInv, Committing
<1>7. ReceiptsAreTruthful' /\ ChangesStayOnOwnEntities'
  BY StepNumbers DEF IInv, TypeOK, OrderInv, ReturnInv, RowInv, ReceiptsAreTruthful,
     ChangesStayOnOwnEntities, Committing
<1> QED
  BY <1>1, <1>2, <1>3, <1>4, <1>5, <1>6, <1>7 DEF IInv

LEMMA SettleStartupReconciliationStep == ASSUME IInv, NEW k \in Steps, SettleStartupReconciliation(k) PROVE IInv'
<1> USE DEF SettleStartupReconciliation, Candidate, Evidence, memory, stored, clockify, bounds, Steps, InPlace
<1>1. TypeOK'
  BY StepNumbers DEF IInv, TypeOK, PC, Ends, Receipts, Rows, OpStatus, Hosts, Whose
<1>2. OrderInv'
  BY StepNumbers DEF IInv, TypeOK, OrderInv, Committing
<1>3. EndInv'
  BY StepNumbers DEF IInv, TypeOK, OrderInv, EndInv, Committing
<1>4. ReturnInv'
  BY StepNumbers DEF IInv, TypeOK, OrderInv, EndInv, ReturnInv, RowInv, Committing
<1>0. InPlace(k)
  BY DEF Candidate
<1>5. RowInv'
  <2>1. op' = "succeeded" => \A j \in Steps : row'[j] = "succeeded"
    BY DEF IInv, TypeOK, FullyApplied
  <2>2. op' # "executing" /\ op # "executing"
    OBVIOUS
  <2> QED
    BY <1>0, <2>1, <2>2 DEF IInv, TypeOK, RowInv
<1>6. EntityInv'
  BY StepNumbers DEF IInv, TypeOK, EntityInv, Committing
<1>7. ReceiptsAreTruthful' /\ ChangesStayOnOwnEntities'
  <2>1. op' = "succeeded" => \A j \in Steps : row'[j] = "succeeded" /\ InPlace(j)
    BY <1>5 DEF RowInv
  <2>2. op' \in {"succeeded", "partial"}
    OBVIOUS
  <2> QED
    BY <1>0, <2>1, <2>2 DEF IInv, ReceiptsAreTruthful, ChangesStayOnOwnEntities
<1> QED
  BY <1>1, <1>2, <1>3, <1>4, <1>5, <1>6, <1>7 DEF IInv

LEMMA RecordStartupReconciliationStep == ASSUME IInv, NEW k \in Steps, RecordStartupReconciliation(k) PROVE IInv'
<1> USE DEF RecordStartupReconciliation, Candidate, memory, stored, clockify, bounds, Steps, InPlace
<1>1. TypeOK'
  BY StepNumbers DEF IInv, TypeOK, PC, Ends, Receipts, Rows, OpStatus, Hosts, Whose
<1>2. OrderInv'
  BY StepNumbers DEF IInv, TypeOK, OrderInv, Committing
<1>3. EndInv'
  BY StepNumbers DEF IInv, TypeOK, OrderInv, EndInv, Committing
<1>4. ReturnInv'
  BY StepNumbers DEF IInv, TypeOK, OrderInv, EndInv, ReturnInv, RowInv, Committing
<1>5. RowInv'
  BY StepNumbers DEF IInv, TypeOK, OrderInv, EndInv, RowInv, Committing
<1>6. EntityInv'
  BY StepNumbers DEF IInv, TypeOK, EntityInv, Committing
<1>7. ReceiptsAreTruthful' /\ ChangesStayOnOwnEntities'
  BY StepNumbers DEF IInv, TypeOK, OrderInv, ReturnInv, RowInv, ReceiptsAreTruthful,
     ChangesStayOnOwnEntities, Committing
<1> QED
  BY <1>1, <1>2, <1>3, <1>4, <1>5, <1>6, <1>7 DEF IInv

LEMMA FinishBootStep == ASSUME IInv, FinishBoot PROVE IInv'
<1> USE DEF FinishBoot, memory, stored, clockify, bounds, Steps, InPlace
<1>1. TypeOK'
  BY StepNumbers DEF IInv, TypeOK, PC, Ends, Receipts, Rows, OpStatus, Hosts, Whose
<1>2. OrderInv'
  BY StepNumbers DEF IInv, TypeOK, OrderInv, Committing
<1>3. EndInv'
  BY StepNumbers DEF IInv, TypeOK, OrderInv, EndInv, Committing
<1>4. ReturnInv'
  BY StepNumbers DEF IInv, TypeOK, OrderInv, EndInv, ReturnInv, RowInv, Committing
<1>5. RowInv'
  BY StepNumbers DEF IInv, TypeOK, OrderInv, EndInv, RowInv, Committing
<1>6. EntityInv'
  BY StepNumbers DEF IInv, TypeOK, EntityInv, Committing
<1>7. ReceiptsAreTruthful' /\ ChangesStayOnOwnEntities'
  BY StepNumbers DEF IInv, TypeOK, OrderInv, ReturnInv, RowInv, ReceiptsAreTruthful,
     ChangesStayOnOwnEntities, Committing
<1> QED
  BY <1>1, <1>2, <1>3, <1>4, <1>5, <1>6, <1>7 DEF IInv

LEMMA StutterStep == ASSUME IInv, UNCHANGED vars PROVE IInv'
<1> USE DEF vars, memory, stored, clockify, bounds, Steps, InPlace
<1>1. TypeOK' /\ OrderInv' /\ EndInv'
  BY DEF IInv, TypeOK, OrderInv, EndInv
<1>2. ReturnInv' /\ RowInv' /\ EntityInv'
  BY DEF IInv, ReturnInv, RowInv, EntityInv
<1>3. ReceiptsAreTruthful' /\ ChangesStayOnOwnEntities'
  BY DEF IInv, ReceiptsAreTruthful, ChangesStayOnOwnEntities
<1> QED
  BY <1>1, <1>2, <1>3 DEF IInv

LEMMA InvNext == IInv /\ [Next]_vars => IInv'
<1> SUFFICES ASSUME IInv, [Next]_vars PROVE IInv'
  OBVIOUS
<1>1. CASE Commit
  <2>1. CASE (\E r \in Receipts : Leave(r)) \/ Escape \/ PrepareStep
    BY <2>1, LeaveStep, EscapeStep, PrepareStepStep
  <2>2. CASE (\E e \in {"definitive_failed", "outcome_unknown"} : FailBeforeDispatch(e)) \/ Dispatch
    BY <2>2, FailBeforeDispatchStep, DispatchStep
  <2>3. CASE RespondSucceeded \/ RespondRejected \/ RespondAmbiguous \/ ReadBack \/ StayAmbiguous
    BY <2>3, RespondSucceededStep, RespondRejectedStep, RespondAmbiguousStep, ReadBackStep,
       StayAmbiguousStep
  <2>4. CASE SettleStep \/ Judge \/ SettleOperation
    BY <2>4, SettleStepStep, JudgeStep, SettleOperationStep
  <2> QED
    BY <1>1, <2>1, <2>2, <2>3, <2>4 DEF Commit
<1>2. CASE \E k \in Steps : HostDecides(k) \/ OtherUser(k)
  BY <1>2, HostDecidesStep, OtherUserStep
<1>3. CASE Crash
  BY <1>3, CrashStep
<1>4. CASE Startup
  BY <1>4, RecoverOrphanedRunsStep, SettleStartupReconciliationStep,
     RecordStartupReconciliationStep,
     FinishBootStep DEF Startup
<1>5. CASE UNCHANGED vars
  BY <1>5, StutterStep
<1> QED
  BY <1>1, <1>2, <1>3, <1>4, <1>5 DEF Next

LEMMA Invariance == Spec => []IInv
<1> QED
  BY InvInit, InvNext, PTL DEF Spec

(* A commit stays within its plan, and its rows and receipt have their     *)
(* types.                                                                  *)
THEOREM TypesHold == Spec => []TypeOK
<1>1. IInv => TypeOK
  BY DEF IInv
<1> QED
  BY <1>1, Invariance, PTL

(* What is stored of each workflow's commit, and what recoverOrphanedRuns  *)
(* and the startup reconciliation make of it: a success is complete, a     *)
(* partial has an effect, a failure hides none behind an open or unknown   *)
(* row, and has none unless a read between two steps threw (runCommit:     *)
(* execution_error), in which the code departs from README.md, 108-109.    *)
THEOREM ReceiptsStayTruthful == Spec => []ReceiptsAreTruthful
<1>1. IInv => ReceiptsAreTruthful
  BY DEF IInv
<1> QED
  BY <1>1, Invariance, PTL

(* No change a workflow makes to what it created goes to an entity that    *)
(* someone else created at the same time and that the read-back took for   *)
(* its own.                                                                *)
THEOREM ChangesStay == Spec => []ChangesStayOnOwnEntities
<1>1. IInv => ChangesStayOnOwnEntities
  BY DEF IInv
<1> QED
  BY <1>1, Invariance, PTL
=============================================================================
