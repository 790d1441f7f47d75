----------------------- MODULE MutationJournalProofs -----------------------
(***************************************************************************)
(* Theorems about MutationJournal for every plan length and every bound on *)
(* crashes and storage faults.                                             *)
(***************************************************************************)
EXTENDS MutationJournal, TLAPS

Typed == TypeOK /\ OutcomeInv

USE DEF Steps, Rows, Comp, Flow

LEMMA TypedInit == Init => Typed
  <1> SUFFICES ASSUME Init PROVE Typed
    OBVIOUS
  <1> USE NAssumption DEF Init
  <1>1. recon \in [step : 0 .. N, auth : BOOLEAN]
    BY DEF NoRecon
  <1>2. cur \in Rows /\ source \in 0 .. N /\ flow \in Flow
    BY FlowsAssumption
  <1>3. status \in [Rows -> RowStatus] /\ dispatched \in [Rows -> BOOLEAN]
    BY DEF RowStatus
  <1>4. SessionType
    BY Zenon DEF SessionType
  <1> QED BY <1>1, <1>2, <1>3, <1>4 DEF Typed, TypeOK, OutcomeInv, Final, OpStatus, Outcome, Seen, PC

\* The executor leaves the run and what is known of the session alone, except where
\* an exception escapes and where the run is settled.
LEMMA ExecutorKeepsSession ==
    ASSUME Executor, ~Escape, ~SettleRun
    PROVE  UNCHANGED session
  BY DEF Executor, session, PrepareOperationStep, MarkOperationStepExecuting, FailBeforeDispatch,
     AuthorizeScopedMutationDispatch, CommitScopedMutationDispatch, DispatchJournalUnavailable,
     Send, RespondSucceeded, RespondRejected, RespondAmbiguous, CancelAfterDispatch,
     ReconcileInline, CancelOperationStepBeforeDispatch, SettleOperationStep, LoseStepSettlement,
     PrepareCompensationStep, MarkOperationStepCompensating, SettleCompensationStep,
     LoseCompensationSettlement, RecordOperationReconciliation, SettleReconciledStep, Return,
     StorageThrows, SettleOperation, LoseOperationSettlement

LEMMA SessionNext == SessionType /\ [Next]_vars => SessionType'
  <1> SUFFICES ASSUME SessionType, [Next]_vars PROVE SessionType'
    OBVIOUS
  <1> USE DEF SessionType, session
  <1>1. CASE EndUnclaimed BY Zenon, <1>1 DEF EndUnclaimed
  <1>2. CASE Cancel
    <2>1. withdrawn' = withdrawn \/ withdrawn' = TRUE BY <1>2 DEF Cancel
    <2> QED BY Zenon, <1>2, <2>1 DEF Cancel
  <1>3. CASE SettleLapsedRun BY Zenon, <1>3 DEF SettleLapsedRun
  <1>4. CASE Escape BY Zenon, <1>4 DEF Escape
  <1>5. CASE SettleRun BY Zenon, <1>5 DEF SettleRun
  <1>6. ASSUME Executor, ~Escape, ~SettleRun PROVE SessionType'
    BY Zenon, <1>6, ExecutorKeepsSession
  <1>7. CASE MarkConfirmationExecuting \/ MarkOperationExecuting
    BY Zenon, <1>7 DEF MarkConfirmationExecuting, MarkOperationExecuting
  <1>8. CASE Crash \/ \E r \in Rows : HostDecides(r)
    BY Zenon, <1>8 DEF Crash, HostDecides
  <1>9. CASE Startup
    BY Zenon, <1>9 DEF Startup, RecoverOrphanedRuns, SettleStartupReconciliation,
       RecordStartupReconciliation, SkipStartupReconciliation, FinishBoot
  <1>10. CASE UNCHANGED vars BY Zenon, <1>10 DEF vars
  <1> HIDE DEF SessionType
  <1> QED
    BY Zenon, <1>1, <1>2, <1>3, <1>4, <1>5, <1>6, <1>7, <1>8, <1>9, <1>10 DEF Next

LEMMA TypedNext == Typed /\ [Next]_vars => Typed'
  <1> SUFFICES ASSUME Typed, [Next]_vars PROVE Typed'
    OBVIOUS
  <1>s. SessionType' BY SessionNext DEF Typed, TypeOK
  <1> USE <1>s, NAssumption DEF Typed, TypeOK, OutcomeInv, Final, OpStatus, RowStatus, Outcome, Seen, PC,
          durable, clockify, scope
  <1>1. CASE MarkConfirmationExecuting BY <1>1 DEF MarkConfirmationExecuting
  <1>2. CASE MarkOperationExecuting BY <1>2 DEF MarkOperationExecuting
  <1>3. CASE EndUnclaimed BY <1>3 DEF EndUnclaimed
  <1>4. ASSUME NEW i \in Steps, PrepareOperationStep(i) PROVE Typed'
    BY <1>4 DEF PrepareOperationStep
  <1>5. CASE MarkOperationStepExecuting
    <2>1. status' \in [Rows -> RowStatus]
      BY <1>5 DEF MarkOperationStepExecuting
    <2>2. CASE Admits(cur) BY <1>5, <2>1, <2>2 DEF MarkOperationStepExecuting
    <2>3. CASE ~Admits(cur) BY <1>5, <2>1, <2>3 DEF MarkOperationStepExecuting
    <2> QED BY <2>2, <2>3
  <1>6. ASSUME NEW o \in {"definitive_failed", "outcome_unknown", "cancelled"},
               FailBeforeDispatch(o) PROVE Typed'
    BY <1>6 DEF FailBeforeDispatch, FailDescriptor
  <1>7. CASE AuthorizeScopedMutationDispatch BY <1>7 DEF AuthorizeScopedMutationDispatch
  <1>8. CASE CommitScopedMutationDispatch BY <1>8 DEF CommitScopedMutationDispatch
  <1>9. CASE DispatchJournalUnavailable BY SMTT(30), <1>9 DEF DispatchJournalUnavailable, FailDescriptor
  <1>10. CASE Send BY <1>10 DEF Send
  <1>11. CASE RespondSucceeded BY <1>11 DEF RespondSucceeded
  <1>12. CASE RespondRejected BY <1>12 DEF RespondRejected, FailDescriptor
  <1>13. CASE RespondAmbiguous BY <1>13 DEF RespondAmbiguous
  <1>14. CASE CancelAfterDispatch BY <1>14 DEF CancelAfterDispatch, FailDescriptor
  <1>15. CASE ReconcileInline
    <2>1. desc' \in [Rows -> {"pending", "dispatching", "completed", "failed"}]
      BY <1>15 DEF ReconcileInline, FailDescriptor
    <2>2. poison' \in BOOLEAN /\ outcome' \in {"succeeded", "outcome_unknown"}
      BY <1>15 DEF ReconcileInline, FailDescriptor
    <2> QED BY <1>15, <2>1, <2>2 DEF ReconcileInline
  <1>16. CASE CancelOperationStepBeforeDispatch
    <2>1. CASE status[cur] = "executing" /\ ~dispatched[cur]
      BY SMTT(30), <1>16, <2>1 DEF CancelOperationStepBeforeDispatch
    <2>2. CASE ~(status[cur] = "executing" /\ ~dispatched[cur])
      BY <1>16, <2>2 DEF CancelOperationStepBeforeDispatch
    <2> QED BY <2>1, <2>2
  <1>17. CASE SettleOperationStep BY <1>17 DEF SettleOperationStep
  <1>18. CASE LoseStepSettlement BY SMTT(30), <1>18 DEF LoseStepSettlement
  <1>19. ASSUME NEW k \in Steps, PrepareCompensationStep(k) PROVE Typed'
    BY <1>19 DEF PrepareCompensationStep
  <1>20. CASE MarkOperationStepCompensating
    <2>1. status' \in [Rows -> RowStatus]
      BY <1>20 DEF MarkOperationStepCompensating
    <2>2. /\ pc' \in {"closure", "settle"}
          /\ pc' = "closure" => outcome' = outcome
          /\ pc' = "settle" => outcome' = "definitive_failed"
      BY <1>20 DEF MarkOperationStepCompensating
    <2>3. UNCHANGED <<op, result, dispatched, source, recon, proven, host, sends, cur, desc,
                      poison, seen, verdict, flow, todo, crashes, faults>>
      BY <1>20 DEF MarkOperationStepCompensating
    <2> QED BY <2>1, <2>2, <2>3
  <1>21. CASE SettleCompensationStep
    <2>1. CompensationStatus(outcome) \in RowStatus
      BY DEF CompensationStatus
    <2>2. status' \in [Rows -> RowStatus]
      BY <1>21, <2>1 DEF SettleCompensationStep
    <2>3. seen' \in [Rows -> Seen]
      BY <1>21 DEF SettleCompensationStep
    <2>4. UNCHANGED <<op, result, dispatched, source, recon, proven, host, sends, cur,
                      outcome, desc, poison, verdict, flow, todo, crashes>>
      BY <1>21 DEF SettleCompensationStep
    <2>5. pc' = "choose" /\ faults' \in Nat
      BY <1>21 DEF SettleCompensationStep
    <2> QED BY <2>2, <2>3, <2>4, <2>5
  <1>22. CASE LoseCompensationSettlement BY <1>22 DEF LoseCompensationSettlement
  <1>23. ASSUME NEW i \in Steps, NEW a \in BOOLEAN, RecordOperationReconciliation(i, a)
         PROVE Typed'
    BY <1>23 DEF RecordOperationReconciliation
  <1>24. ASSUME NEW i \in Steps, SettleReconciledStep(i) PROVE Typed'
    BY <1>24 DEF SettleReconciledStep
  <1>25. ASSUME NEW v \in Final, Return(v) PROVE Typed'
    BY <1>25 DEF Return
  <1>26. CASE StorageThrows BY <1>26 DEF StorageThrows
  <1>27. CASE SettleOperation BY <1>27 DEF SettleOperation
  <1>28. CASE LoseOperationSettlement BY <1>28 DEF LoseOperationSettlement
  <1>29. ASSUME NEW r \in Rows, HostDecides(r) PROVE Typed'
    BY <1>29 DEF HostDecides
  <1>30. CASE Crash BY <1>30 DEF Crash
  <1>31. CASE RecoverOrphanedRuns
    <2>1. \A r \in Rows : RecoveredRow(r) \in RowStatus
      BY DEF RecoveredRow
    <2>2. RecoveredKind \in Final
      BY DEF RecoveredKind
    <2>3. status' \in [Rows -> RowStatus]
      BY <1>31, <2>1 DEF RecoverOrphanedRuns
    <2>4. op' \in OpStatus /\ result' \in Final \cup {"none"}
      BY <1>31, <2>2 DEF RecoverOrphanedRuns
    <2>5. todo' \subseteq Steps
      BY <1>31 DEF RecoverOrphanedRuns
    <2>6. /\ desc' \in [Rows -> {"pending", "dispatching", "completed", "failed"}]
          /\ seen' \in [Rows -> Seen]
      BY <1>31 DEF RecoverOrphanedRuns
    <2>7. UNCHANGED <<dispatched, source, recon, proven, host, sends, flow, crashes, faults>>
      BY <1>31 DEF RecoverOrphanedRuns
    <2>8. /\ pc' = "boot" /\ cur' = 1 /\ outcome' = "none" /\ poison' = FALSE
          /\ verdict' = "outcome_unknown"
      BY <1>31 DEF RecoverOrphanedRuns
    <2>9. cur' \in Rows /\ verdict' \in Final /\ outcome' \in Outcome /\ pc' \in PC
      BY <2>8
    <2>10. TypeOK'
      <3>1. poison' \in BOOLEAN BY <2>8
      <3> QED BY <2>3, <2>4, <2>5, <2>6, <2>7, <2>9, <3>1
    <2> QED BY <2>10, <2>8
  <1>32. ASSUME NEW i \in Steps, SettleStartupReconciliation(i) PROVE Typed'
    BY <1>32 DEF SettleStartupReconciliation
  <1>33. ASSUME NEW i \in Steps, RecordStartupReconciliation(i) PROVE Typed'
    BY <1>33 DEF RecordStartupReconciliation
  <1>34. ASSUME NEW i \in Steps, SkipStartupReconciliation(i) PROVE Typed'
    BY SMTT(30), <1>34 DEF SkipStartupReconciliation
  <1>35. CASE FinishBoot BY <1>35 DEF FinishBoot
  <1>36. CASE UNCHANGED vars BY <1>36 DEF vars
  <1>37. CASE Cancel
    BY <1>37 DEF Cancel
  <1>38. CASE SettleLapsedRun
    BY <1>38 DEF SettleLapsedRun
  <1>39. CASE Escape
    BY <1>39 DEF Escape
  <1>40. CASE SettleRun
    BY <1>40 DEF SettleRun
  <1> QED
    BY <1>1, <1>2, <1>3, <1>4, <1>5, <1>6, <1>7, <1>8, <1>9, <1>10, <1>11, <1>12, <1>13,
       <1>14, <1>15, <1>16, <1>17, <1>18, <1>19, <1>20, <1>21, <1>22, <1>23, <1>24, <1>25,
       <1>26, <1>27, <1>28, <1>29, <1>30, <1>31, <1>32, <1>33, <1>34, <1>35, <1>36,
       <1>37, <1>38, <1>39, <1>40
       DEF Next, Executor, Startup

LEMMA JournalInvNext == JournalInv /\ [Next]_vars => JournalInv'
  <1> SUFFICES ASSUME JournalInv, [Next]_vars PROVE JournalInv'
    OBVIOUS
  <1>0. TypeOK' /\ OutcomeInv'
    BY TypedNext DEF Typed, JournalInv
  <1> USE NAssumption DEF JournalInv, TypeOK, RowInv, DispatchInv, EffectIsJournaled, SourceInv,
          DescInv, ReconInv, OperationInv, TruthfulJournal, TruthfulStep, TruthfulCompensation,
          OrderedEffects, SuccessIsComplete, durable, clockify, scope, session
  <1>1. CASE MarkConfirmationExecuting
    BY <1>0, <1>1 DEF MarkConfirmationExecuting
  <1>2. CASE MarkOperationExecuting
    BY <1>0, <1>2 DEF MarkOperationExecuting
  <1>3. CASE EndUnclaimed
    BY <1>0, <1>3 DEF EndUnclaimed
  <1>4. ASSUME NEW i \in Steps, PrepareOperationStep(i) PROVE JournalInv'
    BY <1>0, <1>4 DEF PrepareOperationStep
  <1>5. CASE MarkOperationStepExecuting
    BY <1>0, <1>5 DEF MarkOperationStepExecuting, Admits
  <1>6. ASSUME NEW o \in {"definitive_failed", "outcome_unknown", "cancelled"}, FailBeforeDispatch(o)
        PROVE  JournalInv'
    BY <1>0, <1>6 DEF FailBeforeDispatch, FailDescriptor
  <1>7. CASE AuthorizeScopedMutationDispatch
    BY <1>0, <1>7 DEF AuthorizeScopedMutationDispatch
  <1>8. CASE CommitScopedMutationDispatch
    BY <1>0, <1>8 DEF CommitScopedMutationDispatch
  <1>9. CASE DispatchJournalUnavailable
    BY <1>0, <1>9 DEF DispatchJournalUnavailable, FailDescriptor
  <1>10. CASE Send
    BY SMTT(30), <1>0, <1>10 DEF Send
  <1>11. CASE RespondSucceeded
    BY <1>0, <1>11 DEF RespondSucceeded
  <1>12. CASE RespondRejected
    BY <1>0, <1>12 DEF RespondRejected, FailDescriptor
  <1>13. CASE RespondAmbiguous
    BY <1>0, <1>13 DEF RespondAmbiguous
  <1>14. CASE CancelAfterDispatch
    BY <1>0, <1>14 DEF CancelAfterDispatch, FailDescriptor
  <1>15. CASE ReconcileInline
    BY SMTT(30), <1>0, <1>15 DEF ReconcileInline, FailDescriptor
  <1>16. CASE CancelOperationStepBeforeDispatch
    BY SMTT(30), <1>0, <1>16 DEF CancelOperationStepBeforeDispatch
  <1>17. CASE SettleOperationStep
    <2>1. RowInv' BY <1>0, <1>17 DEF SettleOperationStep
    <2>a. outcome \in {"succeeded", "definitive_failed", "outcome_unknown"}
      BY <1>17 DEF SettleOperationStep, OutcomeInv
    <2>b. status' = [status EXCEPT ![cur] = outcome] /\ UNCHANGED <<dispatched, host, sends>>
      BY <1>17 DEF SettleOperationStep
    <2>2. DispatchInv' BY SMTT(30), <1>0, <2>a, <2>b
    <2>3. SourceInv' BY <1>0, <1>17 DEF SettleOperationStep
    <2>4. DescInv' BY <1>0, <1>17 DEF SettleOperationStep
    <2>5. ReconInv' BY <1>0, <1>17 DEF SettleOperationStep
    <2>6. OperationInv' BY <1>0, <1>17 DEF SettleOperationStep
    <2>7. TruthfulJournal' BY <1>0, <2>a, <2>b, <1>17 DEF SettleOperationStep
    <2>8. OrderedEffects' BY <1>0, <1>17 DEF SettleOperationStep
    <2>9. SuccessIsComplete' BY <1>0, <1>17 DEF SettleOperationStep
    <2> QED BY <1>0, <2>1, <2>2, <2>3, <2>4, <2>5, <2>6, <2>7, <2>8, <2>9 DEF JournalInv
  <1>18. CASE LoseStepSettlement
    BY <1>0, <1>18 DEF LoseStepSettlement
  <1>19. ASSUME NEW k \in Steps, PrepareCompensationStep(k) PROVE JournalInv'
    <2>1. RowInv' BY <1>0, <1>19 DEF PrepareCompensationStep, Eligible
    <2>a. status' = [status EXCEPT ![Comp] = "prepared"] /\ UNCHANGED <<dispatched, host, sends>>
      BY <1>19 DEF PrepareCompensationStep
    <2>b. ~dispatched[Comp]
      BY <1>19 DEF PrepareCompensationStep, Eligible
    <2>c. \A r \in Rows : dispatched'[r] => status'[r] \notin {"none", "prepared"}
      <3> TAKE r \in Rows
      <3>1. CASE r = Comp BY <2>a, <2>b, <3>1
      <3>2. CASE r # Comp
        <4>1. status'[r] = status[r] BY <2>a, <3>2
        <4> QED BY <4>1, <2>a
      <3> QED BY <3>1, <3>2
    <2>2. DispatchInv' BY <1>0, <2>a, <2>c
    <2>3. SourceInv' BY <1>0, <1>19 DEF PrepareCompensationStep, Eligible
    <2>4. DescInv' BY <1>0, <1>19 DEF PrepareCompensationStep, Eligible
    <2>5. ReconInv' BY <1>0, <1>19 DEF PrepareCompensationStep, Eligible
    <2>6. OperationInv' BY <1>0, <1>19 DEF PrepareCompensationStep, Eligible
    <2>7. TruthfulJournal' BY <1>0, <1>19 DEF PrepareCompensationStep, Eligible
    <2>8. OrderedEffects' BY <1>0, <1>19 DEF PrepareCompensationStep, Eligible
    <2>9. SuccessIsComplete' BY <1>0, <1>19 DEF PrepareCompensationStep, Eligible
    <2> QED BY <1>0, <2>1, <2>2, <2>3, <2>4, <2>5, <2>6, <2>7, <2>8, <2>9 DEF JournalInv
  <1>20. CASE MarkOperationStepCompensating
    <2>1. RowInv' BY <1>0, <1>20 DEF MarkOperationStepCompensating
    <2>a. /\ status' = [status EXCEPT ![Comp] = "executing", ![source] = "compensating"]
          /\ UNCHANGED <<dispatched, host, sends>>
      BY <1>20 DEF MarkOperationStepCompensating
    <2>c. \A r \in Rows : dispatched'[r] => status'[r] \notin {"none", "prepared"}
      <3> TAKE r \in Rows
      <3>0. source \in Rows /\ Comp \in Rows
        BY <1>20 DEF MarkOperationStepCompensating
      <3>1. status'[r] \in {status[r], "executing", "compensating"}
        BY <2>a, <3>0
      <3> QED BY <3>1, <2>a
    <2>2. DispatchInv' BY <1>0, <2>a, <2>c
    <2>3. SourceInv' BY <1>0, <1>20 DEF MarkOperationStepCompensating
    <2>4. DescInv' BY <1>0, <1>20 DEF MarkOperationStepCompensating
    <2>5. ReconInv' BY <1>0, <1>20 DEF MarkOperationStepCompensating
    <2>6. OperationInv' BY <1>0, <1>20 DEF MarkOperationStepCompensating
    <2>7. TruthfulJournal' BY <1>0, <1>20 DEF MarkOperationStepCompensating
    <2>8. OrderedEffects' BY <1>0, <1>20 DEF MarkOperationStepCompensating
    <2>9. SuccessIsComplete' BY <1>0, <1>20 DEF MarkOperationStepCompensating
    <2> QED BY <1>0, <2>1, <2>2, <2>3, <2>4, <2>5, <2>6, <2>7, <2>8, <2>9 DEF JournalInv
  <1>21. CASE SettleCompensationStep
    <2>1. RowInv' BY <1>0, <1>21 DEF SettleCompensationStep, CompensationStatus
    <2>2. DispatchInv' BY <1>0, <1>21 DEF SettleCompensationStep, CompensationStatus
    <2>3. SourceInv' BY <1>0, <1>21 DEF SettleCompensationStep, CompensationStatus
    <2>4. DescInv' BY <1>0, <1>21 DEF SettleCompensationStep, CompensationStatus
    <2>5. ReconInv' BY <1>0, <1>21 DEF SettleCompensationStep, CompensationStatus
    <2>6. OperationInv' BY <1>0, <1>21 DEF SettleCompensationStep, CompensationStatus
    <2>7. TruthfulJournal' BY <1>0, <1>21 DEF SettleCompensationStep, CompensationStatus
    <2>8. OrderedEffects' BY <1>0, <1>21 DEF SettleCompensationStep, CompensationStatus
    <2>9. SuccessIsComplete' BY <1>0, <1>21 DEF SettleCompensationStep, CompensationStatus
    <2> QED BY <1>0, <2>1, <2>2, <2>3, <2>4, <2>5, <2>6, <2>7, <2>8, <2>9 DEF JournalInv
  <1>22. CASE LoseCompensationSettlement
    BY <1>0, <1>22 DEF LoseCompensationSettlement
  <1>23. ASSUME NEW i \in Steps, NEW a \in BOOLEAN, RecordOperationReconciliation(i, a)
         PROVE  JournalInv'
    BY SMTT(30), <1>0, <1>23 DEF RecordOperationReconciliation
  <1>24. ASSUME NEW i \in Steps, SettleReconciledStep(i) PROVE JournalInv'
    <2>1. RowInv' BY <1>0, <1>24 DEF SettleReconciledStep
    <2>2. DispatchInv' BY <1>0, <1>24 DEF SettleReconciledStep
    <2>3. SourceInv' BY <1>0, <1>24 DEF SettleReconciledStep
    <2>4. DescInv' BY <1>0, <1>24 DEF SettleReconciledStep
    <2>5. ReconInv' BY <1>0, <1>24 DEF SettleReconciledStep
    <2>6. OperationInv' BY <1>0, <1>24 DEF SettleReconciledStep
    <2>7. TruthfulJournal' BY <1>0, <1>24 DEF SettleReconciledStep
    <2>8. OrderedEffects' BY <1>0, <1>24 DEF SettleReconciledStep
    <2>9. SuccessIsComplete' BY <1>0, <1>24 DEF SettleReconciledStep
    <2> QED BY <1>0, <2>1, <2>2, <2>3, <2>4, <2>5, <2>6, <2>7, <2>8, <2>9 DEF JournalInv
  <1>25. ASSUME NEW v \in Final, Return(v) PROVE JournalInv'
    BY <1>0, <1>25 DEF Return, Complete
  <1>26. CASE StorageThrows
    BY <1>0, <1>26 DEF StorageThrows
  <1>27. CASE SettleOperation
    <2>1. RowInv' BY <1>0, <1>27 DEF SettleOperation
    <2>2. DispatchInv' BY <1>0, <1>27 DEF SettleOperation
    <2>3. SourceInv' BY <1>0, <1>27 DEF SettleOperation
    <2>4. DescInv' BY <1>0, <1>27 DEF SettleOperation
    <2>5. ReconInv' BY <1>0, <1>27 DEF SettleOperation
    <2>6. OperationInv' BY <1>0, <1>27 DEF SettleOperation, Final
    <2>7. TruthfulJournal' BY <1>0, <1>27 DEF SettleOperation
    <2>8. OrderedEffects' BY <1>0, <1>27 DEF SettleOperation
    <2>9. SuccessIsComplete' BY <1>0, <1>27 DEF SettleOperation
    <2> QED BY <1>0, <2>1, <2>2, <2>3, <2>4, <2>5, <2>6, <2>7, <2>8, <2>9 DEF JournalInv
  <1>28. CASE LoseOperationSettlement
    BY <1>0, <1>28 DEF LoseOperationSettlement
  <1>29. ASSUME NEW r \in Rows, HostDecides(r) PROVE JournalInv'
    BY SMTT(30), <1>0, <1>29 DEF HostDecides
  <1>30. CASE Crash
    BY <1>0, <1>30 DEF Crash
  <1>31. CASE RecoverOrphanedRuns
    <2>1. RowInv' BY <1>0, <1>31 DEF RecoverOrphanedRuns, RecoveredRow, RecoveredKind
    <2>2. DispatchInv' BY <1>0, <1>31 DEF RecoverOrphanedRuns, RecoveredRow, RecoveredKind
    <2>3. SourceInv' BY <1>0, <1>31 DEF RecoverOrphanedRuns, RecoveredRow, RecoveredKind
    <2>4. DescInv' BY <1>0, <1>31 DEF RecoverOrphanedRuns, RecoveredRow, RecoveredKind
    <2>5. ReconInv' BY <1>0, <1>31 DEF RecoverOrphanedRuns, RecoveredRow, RecoveredKind
    <2>6. OperationInv' BY <1>0, <1>31 DEF RecoverOrphanedRuns, RecoveredRow, RecoveredKind
    <2>7. TruthfulJournal' BY <1>0, <1>31 DEF RecoverOrphanedRuns, RecoveredRow, RecoveredKind
    <2>8. OrderedEffects' BY <1>0, <1>31 DEF RecoverOrphanedRuns, RecoveredRow, RecoveredKind
    <2>9. SuccessIsComplete' BY <1>0, <1>31 DEF RecoverOrphanedRuns, RecoveredRow, RecoveredKind
    <2> QED BY <1>0, <2>1, <2>2, <2>3, <2>4, <2>5, <2>6, <2>7, <2>8, <2>9 DEF JournalInv
  <1>32. ASSUME NEW i \in Steps, SettleStartupReconciliation(i) PROVE JournalInv'
    <2>1. RowInv' BY <1>0, <1>32 DEF SettleStartupReconciliation, FullyApplied
    <2>2. DispatchInv' BY <1>0, <1>32 DEF SettleStartupReconciliation, FullyApplied
    <2>3. SourceInv' BY <1>0, <1>32 DEF SettleStartupReconciliation, FullyApplied
    <2>4. DescInv' BY <1>0, <1>32 DEF SettleStartupReconciliation, FullyApplied
    <2>5. ReconInv' BY <1>0, <1>32 DEF SettleStartupReconciliation, FullyApplied
    <2>6. OperationInv' BY <1>0, <1>32 DEF SettleStartupReconciliation, FullyApplied
    <2>7. TruthfulJournal' BY <1>0, <1>32 DEF SettleStartupReconciliation, FullyApplied
    <2>8. OrderedEffects' BY <1>0, <1>32 DEF SettleStartupReconciliation, FullyApplied
    <2>9. SuccessIsComplete' BY <1>0, <1>32 DEF SettleStartupReconciliation, FullyApplied
    <2> QED BY <1>0, <2>1, <2>2, <2>3, <2>4, <2>5, <2>6, <2>7, <2>8, <2>9 DEF JournalInv
  <1>33. ASSUME NEW i \in Steps, RecordStartupReconciliation(i) PROVE JournalInv'
    BY SMTT(30), <1>0, <1>33 DEF RecordStartupReconciliation
  <1>34. ASSUME NEW i \in Steps, SkipStartupReconciliation(i) PROVE JournalInv'
    BY SMTT(30), <1>0, <1>34 DEF SkipStartupReconciliation
  <1>35. CASE FinishBoot
    BY <1>0, <1>35 DEF FinishBoot
  <1>36. CASE UNCHANGED vars
    BY <1>0, <1>36 DEF vars
  <1>37. CASE Cancel
    BY <1>0, <1>37 DEF Cancel
  <1>38. CASE SettleLapsedRun
    BY <1>0, <1>38 DEF SettleLapsedRun
  <1>39. CASE Escape
    BY <1>0, <1>39 DEF Escape
  <1>40. CASE SettleRun
    BY <1>0, <1>40 DEF SettleRun
  <1> HIDE DEF JournalInv, TypeOK, RowInv, DispatchInv, EffectIsJournaled, SourceInv,
          DescInv, ReconInv, OperationInv, TruthfulJournal, TruthfulStep, TruthfulCompensation,
          OrderedEffects, SuccessIsComplete
  <1> QED
    BY <1>1, <1>2, <1>3, <1>4, <1>5, <1>6, <1>7, <1>8, <1>9, <1>10, <1>11, <1>12, <1>13, <1>14,
       <1>15, <1>16, <1>17, <1>18, <1>19, <1>20, <1>21, <1>22, <1>23, <1>24, <1>25, <1>26,
       <1>27, <1>28, <1>29, <1>30, <1>31, <1>32, <1>33, <1>34, <1>35, <1>36,
       <1>37, <1>38, <1>39, <1>40
       DEF Next, Executor, Startup

LEMMA UndoInvNext == JournalInv /\ UndoInv /\ [Next]_vars => UndoInv'
  <1> SUFFICES ASSUME JournalInv, UndoInv, [Next]_vars PROVE UndoInv'
    OBVIOUS
  <1>0. TypeOK /\ OutcomeInv /\ RowInv /\ SourceInv /\ OperationInv /\ TruthfulJournal
    BY DEF JournalInv
  <1> USE NAssumption DEF TypeOK, UndoInv, SeenInv, CompensationInv, Busy, RowInv, SourceInv,
          durable, clockify, scope, session
  <1>1. CASE MarkConfirmationExecuting
    BY <1>0, <1>1 DEF MarkConfirmationExecuting
  <1>2. CASE MarkOperationExecuting
    BY <1>0, <1>2 DEF MarkOperationExecuting
  <1>3. CASE EndUnclaimed
    BY <1>0, <1>3 DEF EndUnclaimed
  <1>4. ASSUME NEW i \in Steps, PrepareOperationStep(i) PROVE UndoInv'
    BY <1>0, <1>4 DEF PrepareOperationStep
  <1>5. CASE MarkOperationStepExecuting
    BY <1>0, <1>5 DEF MarkOperationStepExecuting
  <1>6. ASSUME NEW o \in {"definitive_failed", "outcome_unknown", "cancelled"}, FailBeforeDispatch(o)
        PROVE  UndoInv'
    BY <1>0, <1>6 DEF FailBeforeDispatch
  <1>7. CASE AuthorizeScopedMutationDispatch
    BY <1>0, <1>7 DEF AuthorizeScopedMutationDispatch
  <1>8. CASE CommitScopedMutationDispatch
    BY <1>0, <1>8 DEF CommitScopedMutationDispatch
  <1>9. CASE DispatchJournalUnavailable
    BY <1>0, <1>9 DEF DispatchJournalUnavailable
  <1>10. CASE Send
    BY <1>0, <1>10 DEF Send
  <1>11. CASE RespondSucceeded
    BY <1>0, <1>11 DEF RespondSucceeded
  <1>12. CASE RespondRejected
    BY <1>0, <1>12 DEF RespondRejected
  <1>13. CASE RespondAmbiguous
    BY <1>0, <1>13 DEF RespondAmbiguous
  <1>14. CASE CancelAfterDispatch
    BY <1>0, <1>14 DEF CancelAfterDispatch
  <1>15. CASE ReconcileInline
    BY <1>0, <1>15 DEF ReconcileInline
  <1>16. CASE CancelOperationStepBeforeDispatch
    <2>1. CASE status[cur] = "executing" /\ ~dispatched[cur]
      <3>1. host[cur] = "idle"
        BY <2>1, <1>16 DEF CancelOperationStepBeforeDispatch, JournalInv, DispatchInv,
           EffectIsJournaled
      <3>2. /\ status' = [status EXCEPT ![cur] = "definitive_failed"]
            /\ seen' = [seen EXCEPT ![cur] = "definitive_failed"]
            /\ pc = "cancel" /\ pc' = "choose" /\ UNCHANGED <<op, source, host, cur>>
        BY <1>16, <2>1 DEF CancelOperationStepBeforeDispatch
      <3>3. SeenInv' BY <1>0, <3>1, <3>2
      <3>4. CompensationInv'
        <4>1. cur \in Steps BY <1>0, <3>2 DEF OutcomeInv
        <4>2. status'[Comp] = status[Comp] BY <3>2, <4>1
        <4> QED BY <1>0, <3>2, <4>1, <4>2
      <3> QED BY <3>3, <3>4
    <2>2. CASE ~(status[cur] = "executing" /\ ~dispatched[cur])
      BY <1>0, <1>16, <2>2 DEF CancelOperationStepBeforeDispatch
    <2> QED BY <2>1, <2>2
  <1>17. CASE SettleOperationStep
    <2>1. SeenInv'
      BY <1>0, <1>17 DEF SettleOperationStep, OutcomeInv
    <2>2. CompensationInv'
      <3>1. \A i \in Steps : seen[i] = "definitive_failed" => seen'[i] = "definitive_failed"
        BY <1>17 DEF SettleOperationStep
      <3>2. UNCHANGED <<op, source, host>> /\ status'[Comp] = status[Comp] /\ pc \in Busy
        BY <1>17 DEF SettleOperationStep
      <3> QED BY <1>0, <3>1, <3>2
    <2> QED BY <2>1, <2>2
  <1>18. CASE LoseStepSettlement
    BY <1>0, <1>18 DEF LoseStepSettlement
  <1>19. ASSUME NEW k \in Steps, PrepareCompensationStep(k) PROVE UndoInv'
    <2>1. SeenInv'
      <3>1. seen[Comp] = "none"
        BY <1>0, <1>19 DEF PrepareCompensationStep, Eligible
      <3> QED BY <1>0, <1>19, <3>1 DEF PrepareCompensationStep, Eligible
    <2>2. CompensationInv'
      <3>1. op # "prepared" /\ host[k] = "applied"
        BY <1>0, <1>19 DEF PrepareCompensationStep, Eligible, OperationInv, TruthfulJournal,
                          TruthfulStep
      <3> QED BY <1>0, <1>19, <3>1 DEF PrepareCompensationStep
    <2> QED BY <2>1, <2>2
  <1>20. CASE MarkOperationStepCompensating
    BY <1>0, <1>20 DEF MarkOperationStepCompensating
  <1>21. CASE SettleCompensationStep
    BY SMTT(30), <1>0, <1>21 DEF SettleCompensationStep, CompensationStatus
  <1>22. CASE LoseCompensationSettlement
    BY <1>0, <1>22 DEF LoseCompensationSettlement
  <1>23. ASSUME NEW i \in Steps, NEW a \in BOOLEAN, RecordOperationReconciliation(i, a)
         PROVE  UndoInv'
    BY <1>0, <1>23 DEF RecordOperationReconciliation
  <1>24. ASSUME NEW i \in Steps, SettleReconciledStep(i) PROVE UndoInv'
    BY <1>0, <1>24 DEF SettleReconciledStep
  <1>25. ASSUME NEW v \in Final, Return(v) PROVE UndoInv'
    BY <1>0, <1>25 DEF Return
  <1>26. CASE StorageThrows
    BY <1>0, <1>26 DEF StorageThrows
  <1>27. CASE SettleOperation
    BY <1>0, <1>27 DEF SettleOperation, Final
  <1>28. CASE LoseOperationSettlement
    BY <1>0, <1>28 DEF LoseOperationSettlement
  <1>29. ASSUME NEW r \in Rows, HostDecides(r) PROVE UndoInv'
    BY <1>0, <1>29 DEF HostDecides
  <1>30. CASE Crash
    BY <1>0, <1>30 DEF Crash
  <1>31. CASE RecoverOrphanedRuns
    <2>1. SeenInv'
      BY <1>0, <1>31 DEF RecoverOrphanedRuns
    <2>2. /\ status'[Comp] # "none" => status[Comp] # "none"
          /\ op' = "prepared" => op = "prepared"
      BY SMTT(30), <1>0, <1>31 DEF RecoverOrphanedRuns, RecoveredRow, RecoveredKind, OperationInv, Final
    <2>3. pc' = "boot" /\ UNCHANGED <<host, source>>
      BY <1>31 DEF RecoverOrphanedRuns
    <2> QED BY <1>0, <2>1, <2>2, <2>3
  <1>32. ASSUME NEW i \in Steps, SettleStartupReconciliation(i) PROVE UndoInv'
    BY <1>0, <1>32 DEF SettleStartupReconciliation
  <1>33. ASSUME NEW i \in Steps, RecordStartupReconciliation(i) PROVE UndoInv'
    BY <1>0, <1>33 DEF RecordStartupReconciliation
  <1>34. ASSUME NEW i \in Steps, SkipStartupReconciliation(i) PROVE UndoInv'
    BY <1>0, <1>34 DEF SkipStartupReconciliation
  <1>35. CASE FinishBoot
    BY <1>0, <1>35 DEF FinishBoot
  <1>36. CASE UNCHANGED vars
    BY <1>0, <1>36 DEF vars
  <1>37. CASE Cancel
    BY <1>0, <1>37 DEF Cancel
  <1>38. CASE SettleLapsedRun
    BY <1>0, <1>38 DEF SettleLapsedRun
  <1>39. CASE Escape
    BY <1>0, <1>39 DEF Escape
  <1>40. CASE SettleRun
    BY <1>0, <1>40 DEF SettleRun
  <1> HIDE DEF TypeOK, UndoInv, SeenInv, CompensationInv, RowInv, SourceInv
  <1> QED
    BY <1>1, <1>2, <1>3, <1>4, <1>5, <1>6, <1>7, <1>8, <1>9, <1>10, <1>11, <1>12, <1>13, <1>14,
       <1>15, <1>16, <1>17, <1>18, <1>19, <1>20, <1>21, <1>22, <1>23, <1>24, <1>25, <1>26,
       <1>27, <1>28, <1>29, <1>30, <1>31, <1>32, <1>33, <1>34, <1>35, <1>36,
       <1>37, <1>38, <1>39, <1>40
       DEF Next, Executor, Startup

LEMMA InvInit == Init => JournalInv /\ UndoInv
  <1> SUFFICES ASSUME Init PROVE JournalInv /\ UndoInv
    OBVIOUS
  <1>1. TypeOK /\ OutcomeInv
    BY TypedInit DEF Typed
  <1> USE NAssumption DEF Init
  <1>2. RowInv /\ DispatchInv /\ SourceInv /\ DescInv
    BY <1>1 DEF RowInv, DispatchInv, EffectIsJournaled, SourceInv, DescInv
  <1>3. ReconInv /\ OperationInv /\ OrderedEffects /\ SuccessIsComplete
    BY <1>1 DEF ReconInv, NoRecon, OperationInv, OrderedEffects, SuccessIsComplete
  <1>4. TruthfulJournal
    BY <1>1 DEF TruthfulJournal, TruthfulStep, TruthfulCompensation
  <1>5. UndoInv
    BY <1>1 DEF UndoInv, SeenInv, CompensationInv, Busy
  <1> QED BY <1>1, <1>2, <1>3, <1>4, <1>5 DEF JournalInv

(* The inductive invariant of the journal, from which the other theorems   *)
(* follow.                                                                 *)
THEOREM JournalInvariant == Spec => [](JournalInv /\ UndoInv)
  BY InvInit, JournalInvNext, UndoInvNext, PTL DEF Spec

(* Every reachable state is well typed, for any number of steps, crashes   *)
(* and storage faults: in particular every classified outcome is one its   *)
(* row can store.                                                          *)
THEOREM TypeCorrect == Spec => []TypeOK
  <1>1. Typed => TypeOK BY DEF Typed
  <1> QED BY TypedInit, TypedNext, <1>1, PTL DEF Spec

(* The journal never contradicts Clockify: whatever crashes, storage       *)
(* faults, late answers and reconciliations happen, a step recorded as     *)
(* done took effect and one recorded as failed never will.                 *)
THEOREM JournalIsTruthful == Spec => []TruthfulJournal
  <1>1. JournalInv => TruthfulJournal BY DEF JournalInv
  <1> QED BY JournalInvariant, <1>1, PTL

(* No request of a plan leaves the process twice, nor before its dispatch  *)
(* was journaled.                                                          *)
THEOREM SendsJournaledOnce == Spec => []SendsAreJournaled
  <1>1. JournalInv => SendsAreJournaled
    BY DEF JournalInv, DispatchInv, SendsAreJournaled, AtMostOneSend
  <1> QED BY JournalInvariant, <1>1, PTL

(* A step goes out only on top of the effects of all earlier ones.         *)
THEOREM EffectsAreOrdered == Spec => []OrderedEffects
  <1>1. JournalInv => OrderedEffects BY DEF JournalInv
  <1> QED BY JournalInvariant, <1>1, PTL

(* An operation reported as succeeded took effect completely.              *)
THEOREM SuccessMeansComplete == Spec => []SuccessIsComplete
  <1>1. JournalInv => SuccessIsComplete BY DEF JournalInv
  <1> QED BY JournalInvariant, <1>1, PTL

(* A compensation is sent only against an effect that happened, when no    *)
(* later step happened or could still happen.                              *)
THEOREM CompensationsAreSafe == Spec => []CompensationIsSafe
  <1>1. JournalInv /\ UndoInv => CompensationIsSafe
    <2> SUFFICES ASSUME JournalInv, UndoInv, host[Comp] # "idle"
                 PROVE  /\ source \in Steps /\ host[source] = "applied"
                        /\ \A j \in Steps : j > source => host[j] \in {"idle", "refused"}
      BY DEF CompensationIsSafe
    <2> USE NAssumption
    <2>1. status[Comp] # "none"
      BY DEF JournalInv, DispatchInv, EffectIsJournaled
    <2>2. /\ source \in Steps /\ source + 1 \in Steps /\ host[source] = "applied"
          /\ host[source + 1] \in {"idle", "refused"}
      BY <2>1 DEF UndoInv, CompensationInv, JournalInv, SourceInv
    <2>3. ASSUME NEW j \in Steps, j > source PROVE host[j] \in {"idle", "refused"}
      <3>1. CASE j = source + 1 BY <2>2, <3>1
      <3>2. CASE j # source + 1
        <4>1. source + 1 < j BY <2>2, <2>3, <3>2
        <4> QED BY <2>2, <4>1 DEF JournalInv, OrderedEffects
      <3> QED BY <3>1, <3>2
    <2> QED BY <2>2, <2>3
  <1> QED BY JournalInvariant, <1>1, PTL

(* Steps and compensations are sent only when what is known to have        *)
(* happened warrants them.                                                 *)
THEOREM DispatchesAreWarranted == Spec => []DispatchIsWarranted
  BY EffectsAreOrdered, CompensationsAreSafe, PTL DEF DispatchIsWarranted

\* Where the executor goes unless it ends, and what it leaves alone.
LEMMA ExecutorRuns ==
    ASSUME Executor, ~Escape, ~SettleOperation, ~LoseOperationSettlement, ~SettleRun
    PROVE  pc' \in Busy \cup {"choose", "return"}
  BY DEF Executor, Busy, PrepareOperationStep, MarkOperationStepExecuting, FailBeforeDispatch,
     AuthorizeScopedMutationDispatch, CommitScopedMutationDispatch, DispatchJournalUnavailable,
     Send, RespondSucceeded, RespondRejected, RespondAmbiguous, CancelAfterDispatch,
     ReconcileInline, CancelOperationStepBeforeDispatch, SettleOperationStep, LoseStepSettlement,
     PrepareCompensationStep, MarkOperationStepCompensating, SettleCompensationStep,
     LoseCompensationSettlement, RecordOperationReconciliation, SettleReconciledStep, Return,
     StorageThrows

\* A run is left waiting on a claimed operation only after something went wrong.
LEMMA RunInvNext == TypeOK /\ RunInv /\ [Next]_vars => RunInv'
  <1> SUFFICES ASSUME TypeOK, RunInv, [Next]_vars PROVE RunInv'
    OBVIOUS
  <1> USE DEF TypeOK, RunInv, OpStatus, Final, durable, session
  <1>1. CASE MarkConfirmationExecuting BY <1>1 DEF MarkConfirmationExecuting
  <1>2. CASE MarkOperationExecuting BY <1>2 DEF MarkOperationExecuting
  <1>3. CASE EndUnclaimed BY <1>3 DEF EndUnclaimed
  <1>4. CASE Cancel BY <1>4 DEF Cancel
  <1>5. CASE SettleLapsedRun BY <1>5 DEF SettleLapsedRun
  <1>6. CASE Escape BY <1>6 DEF Escape
  <1>7. CASE SettleOperation BY <1>7 DEF SettleOperation
  <1>8. CASE LoseOperationSettlement BY <1>8 DEF LoseOperationSettlement
  <1>9. CASE SettleRun BY <1>9 DEF SettleRun
  <1>10. ASSUME Executor, ~Escape, ~SettleOperation, ~LoseOperationSettlement, ~SettleRun
         PROVE  RunInv'
    BY <1>10, ExecutorRuns DEF Busy
  <1>11. ASSUME NEW r \in Rows, HostDecides(r) PROVE RunInv'
    BY <1>11 DEF HostDecides
  <1>12. CASE Crash BY <1>12 DEF Crash
  <1>13. CASE RecoverOrphanedRuns BY <1>13 DEF RecoverOrphanedRuns
  <1>14. ASSUME NEW i \in Steps, SettleStartupReconciliation(i) PROVE RunInv'
    BY <1>14 DEF SettleStartupReconciliation
  <1>15. ASSUME NEW i \in Steps, RecordStartupReconciliation(i) PROVE RunInv'
    BY <1>15 DEF RecordStartupReconciliation
  <1>16. ASSUME NEW i \in Steps, SkipStartupReconciliation(i) PROVE RunInv'
    BY <1>16 DEF SkipStartupReconciliation
  <1>17. CASE FinishBoot BY <1>17 DEF FinishBoot
  <1>18. CASE UNCHANGED vars BY <1>18 DEF vars
  <1> HIDE DEF TypeOK, RunInv
  <1> QED
    BY <1>1, <1>2, <1>3, <1>4, <1>5, <1>6, <1>7, <1>8, <1>9, <1>10, <1>11, <1>12, <1>13, <1>14,
       <1>15, <1>16, <1>17, <1>18
       DEF Next, Startup

LEMMA KeepsFinalNext == JournalInv /\ RunInv /\ Next => KeepsFinal
  <1> SUFFICES ASSUME TypeOK, RunInv, Next PROVE KeepsFinal
    BY DEF JournalInv
  <1> USE NAssumption DEF TypeOK, KeepsFinal, Refines, Withdraws, Final, durable
  <1>1. CASE MarkConfirmationExecuting
    BY <1>1 DEF MarkConfirmationExecuting
  <1>2. CASE MarkOperationExecuting
    BY <1>2 DEF MarkOperationExecuting
  <1>3. CASE EndUnclaimed
    BY <1>3 DEF EndUnclaimed
  <1>4. ASSUME NEW i \in Steps, PrepareOperationStep(i) PROVE KeepsFinal
    BY <1>4 DEF PrepareOperationStep
  <1>5. CASE MarkOperationStepExecuting
    BY <1>5 DEF MarkOperationStepExecuting
  <1>6. ASSUME NEW o \in {"definitive_failed", "outcome_unknown", "cancelled"}, FailBeforeDispatch(o)
        PROVE  KeepsFinal
    BY <1>6 DEF FailBeforeDispatch
  <1>7. CASE AuthorizeScopedMutationDispatch
    BY <1>7 DEF AuthorizeScopedMutationDispatch
  <1>8. CASE CommitScopedMutationDispatch
    BY <1>8 DEF CommitScopedMutationDispatch
  <1>9. CASE DispatchJournalUnavailable
    BY <1>9 DEF DispatchJournalUnavailable
  <1>10. CASE Send
    BY <1>10 DEF Send
  <1>11. CASE RespondSucceeded
    BY <1>11 DEF RespondSucceeded
  <1>12. CASE RespondRejected
    BY <1>12 DEF RespondRejected
  <1>13. CASE RespondAmbiguous
    BY <1>13 DEF RespondAmbiguous
  <1>14. CASE CancelAfterDispatch
    BY <1>14 DEF CancelAfterDispatch
  <1>15. CASE ReconcileInline
    BY <1>15 DEF ReconcileInline
  <1>16. CASE CancelOperationStepBeforeDispatch
    BY <1>16 DEF CancelOperationStepBeforeDispatch
  <1>17. CASE SettleOperationStep
    BY <1>17 DEF SettleOperationStep
  <1>18. CASE LoseStepSettlement
    BY <1>18 DEF LoseStepSettlement
  <1>19. ASSUME NEW k \in Steps, PrepareCompensationStep(k) PROVE KeepsFinal
    BY <1>19 DEF PrepareCompensationStep, Eligible
  <1>20. CASE MarkOperationStepCompensating
    BY <1>20 DEF MarkOperationStepCompensating
  <1>21. CASE SettleCompensationStep
    BY <1>21 DEF SettleCompensationStep
  <1>22. CASE LoseCompensationSettlement
    BY <1>22 DEF LoseCompensationSettlement
  <1>23. ASSUME NEW i \in Steps, NEW a \in BOOLEAN, RecordOperationReconciliation(i, a)
         PROVE  KeepsFinal
    BY <1>23 DEF RecordOperationReconciliation
  <1>24. ASSUME NEW i \in Steps, SettleReconciledStep(i) PROVE KeepsFinal
    BY <1>24 DEF SettleReconciledStep
  <1>25. ASSUME NEW v \in Final, Return(v) PROVE KeepsFinal
    BY <1>25 DEF Return
  <1>26. CASE StorageThrows
    BY <1>26 DEF StorageThrows
  <1>27. CASE SettleOperation
    BY <1>27 DEF SettleOperation
  <1>28. CASE LoseOperationSettlement
    BY <1>28 DEF LoseOperationSettlement
  <1>29. ASSUME NEW r \in Rows, HostDecides(r) PROVE KeepsFinal
    BY <1>29 DEF HostDecides
  <1>30. CASE Crash
    BY <1>30 DEF Crash
  <1>31. CASE RecoverOrphanedRuns
    BY <1>31 DEF RecoverOrphanedRuns, RecoveredRow
  <1>32. ASSUME NEW i \in Steps, SettleStartupReconciliation(i) PROVE KeepsFinal
    BY <1>32 DEF SettleStartupReconciliation
  <1>33. ASSUME NEW i \in Steps, RecordStartupReconciliation(i) PROVE KeepsFinal
    BY <1>33 DEF RecordStartupReconciliation
  <1>34. ASSUME NEW i \in Steps, SkipStartupReconciliation(i) PROVE KeepsFinal
    BY <1>34 DEF SkipStartupReconciliation
  <1>35. CASE FinishBoot
    BY <1>35 DEF FinishBoot
  <1>36. CASE Cancel
    BY <1>36 DEF Cancel, RunInv, OpStatus
  <1>37. CASE SettleLapsedRun
    BY <1>37 DEF SettleLapsedRun
  <1>38. CASE Escape
    BY <1>38 DEF Escape
  <1>39. CASE SettleRun
    BY <1>39 DEF SettleRun
  <1> QED
    BY <1>1, <1>2, <1>3, <1>4, <1>5, <1>6, <1>7, <1>8, <1>9, <1>10, <1>11, <1>12, <1>13, <1>14,
       <1>15, <1>16, <1>17, <1>18, <1>19, <1>20, <1>21, <1>22, <1>23, <1>24, <1>25, <1>26,
       <1>27, <1>28, <1>29, <1>30, <1>31, <1>32, <1>33, <1>34, <1>35,
       <1>36, <1>37, <1>38, <1>39
       DEF Next, Executor, Startup

(* What was final stays final, for every plan, crash and fault: no failed  *)
(* or compensated row is rewritten, and of a settled operation only an     *)
(* unknown outcome is refined at startup, unless the cancel route stores a *)
(* failure over it; that takes a run left waiting by a crash, a storage    *)
(* fault or an escaped exception.                                          *)
THEOREM FinalStatusKept == Spec => FinalStatusIsKept
  <1>1. Init => RunInv
    BY DEF Init, RunInv
  <1>2. JournalInv /\ RunInv /\ [Next]_vars => RunInv'
    BY RunInvNext DEF JournalInv
  <1>3. Spec => []RunInv
    BY JournalInvariant, <1>1, <1>2, PTL DEF Spec
  <1> QED BY JournalInvariant, KeepsFinalNext, <1>3, PTL DEF Spec, FinalStatusIsKept

-----------------------------------------------------------------------------
(* The refinement of TruthfulWrites.                                       *)

Report == [r \in Rows |-> ReportOf(r)]

\* A step that changes neither effects nor reports.
LEMMA StutterStep ==
    ASSUME UNCHANGED <<host, status>>
    PROVE  UNCHANGED Promise!vars
  <1>1. Report' = Report BY DEF Report, ReportOf
  <1> QED BY <1>1 DEF Promise!vars, Report

\* A step of the journal alone, each of whose rows moves honestly.
LEMMA RecordStep ==
    ASSUME UNCHANGED host,
           \A w \in Rows : Promise!Honest(w, ReportOf(w), ReportOf(w)')
    PROVE  Promise!Next
  <1>1. \A w \in Rows : ReportOf(w)' \in {"open", "done", "failed", "unknown", "undone"}
    BY DEF ReportOf
  <1>2. Report' \in [Rows -> {"open", "done", "failed", "unknown", "undone"}]
    BY <1>1 DEF Report
  <1>3. \A w \in Rows : Report[w] = ReportOf(w) /\ Report'[w] = ReportOf(w)'
    BY DEF Report
  <1>4. Promise!Record
    BY <1>2, <1>3 DEF Promise!Record, Promise!Writes, Report
  <1> QED BY <1>4 DEF Promise!Next

LEMMA PromiseInit == Init => Promise!Init
  BY NAssumption DEF Init, Promise!Init, Promise!Writes, ReportOf

LEMMA PromiseNext ==
    JournalInv /\ UndoInv /\ [Next]_vars => [Promise!Next]_(Promise!vars)
  <1> SUFFICES ASSUME JournalInv, UndoInv, [Next]_vars
               PROVE  Promise!Next \/ UNCHANGED Promise!vars
    OBVIOUS
  <1> DEFINE Honest(w) == Promise!Honest(w, ReportOf(w), ReportOf(w)')
  <1>t. TypeOK /\ OutcomeInv /\ RowInv /\ SourceInv
    BY DEF JournalInv
  <1> USE NAssumption DEF durable, clockify
  <1>1. CASE MarkConfirmationExecuting
    BY <1>1, StutterStep DEF MarkConfirmationExecuting
  <1>2. CASE MarkOperationExecuting
    BY <1>2, StutterStep DEF MarkOperationExecuting
  <1>3. CASE EndUnclaimed
    BY <1>3, StutterStep DEF EndUnclaimed
  <1>4. ASSUME NEW o \in {"definitive_failed", "outcome_unknown", "cancelled"}, FailBeforeDispatch(o)
        PROVE  Promise!Next \/ UNCHANGED Promise!vars
    BY <1>4, StutterStep DEF FailBeforeDispatch
  <1>5. CASE AuthorizeScopedMutationDispatch
    BY <1>5, StutterStep DEF AuthorizeScopedMutationDispatch
  <1>6. CASE CommitScopedMutationDispatch
    BY <1>6, StutterStep DEF CommitScopedMutationDispatch
  <1>7. CASE DispatchJournalUnavailable
    BY <1>7, StutterStep DEF DispatchJournalUnavailable
  <1>8. CASE RespondSucceeded
    BY <1>8, StutterStep DEF RespondSucceeded
  <1>9. CASE RespondRejected
    BY <1>9, StutterStep DEF RespondRejected
  <1>10. CASE RespondAmbiguous
    BY <1>10, StutterStep DEF RespondAmbiguous
  <1>11. CASE CancelAfterDispatch
    BY <1>11, StutterStep DEF CancelAfterDispatch
  <1>12. CASE ReconcileInline
    BY <1>12, StutterStep DEF ReconcileInline
  <1>13. CASE LoseStepSettlement
    BY <1>13, StutterStep DEF LoseStepSettlement
  <1>14. CASE LoseCompensationSettlement
    BY <1>14, StutterStep DEF LoseCompensationSettlement
  <1>15. ASSUME NEW i \in Steps, NEW a \in BOOLEAN, RecordOperationReconciliation(i, a)
         PROVE  Promise!Next \/ UNCHANGED Promise!vars
    BY <1>15, StutterStep DEF RecordOperationReconciliation
  <1>16. ASSUME NEW v \in Final, Return(v) PROVE Promise!Next \/ UNCHANGED Promise!vars
    BY <1>16, StutterStep DEF Return
  <1>17. CASE StorageThrows
    BY <1>17, StutterStep DEF StorageThrows
  <1>18. CASE SettleOperation
    BY <1>18, StutterStep DEF SettleOperation
  <1>19. CASE LoseOperationSettlement
    BY <1>19, StutterStep DEF LoseOperationSettlement
  <1>20. CASE Crash
    BY <1>20, StutterStep DEF Crash
  <1>21. ASSUME NEW i \in Steps, RecordStartupReconciliation(i)
         PROVE  Promise!Next \/ UNCHANGED Promise!vars
    BY <1>21, StutterStep DEF RecordStartupReconciliation
  <1>22. ASSUME NEW i \in Steps, SkipStartupReconciliation(i)
         PROVE  Promise!Next \/ UNCHANGED Promise!vars
    BY <1>22, StutterStep DEF SkipStartupReconciliation
  <1>23. CASE FinishBoot
    BY <1>23, StutterStep DEF FinishBoot
  <1>24. CASE UNCHANGED vars
    BY <1>24, StutterStep DEF vars
  <1>37. CASE Cancel
    BY <1>37, StutterStep DEF Cancel
  <1>38. CASE SettleLapsedRun
    BY <1>38, StutterStep DEF SettleLapsedRun
  <1>39. CASE Escape
    BY <1>39, StutterStep DEF Escape
  <1>40. CASE SettleRun
    BY <1>40, StutterStep DEF SettleRun
  <1>25. ASSUME NEW i \in Steps, PrepareOperationStep(i)
         PROVE  Promise!Next \/ UNCHANGED Promise!vars
    <2>1. UNCHANGED host BY <1>25 DEF PrepareOperationStep
    <2>2. \A w \in Rows : Honest(w)
      BY <1>t, <1>25 DEF PrepareOperationStep, TypeOK, ReportOf, Promise!Honest, Promise!Undo
    <2> QED BY <2>1, <2>2, RecordStep
  <1>26. CASE MarkOperationStepExecuting
    <2>1. UNCHANGED host BY <1>26 DEF MarkOperationStepExecuting
    <2>2. \A w \in Rows : Honest(w)
      BY <1>t, <1>26 DEF MarkOperationStepExecuting, TypeOK, ReportOf, Promise!Honest, Promise!Undo
    <2> QED BY <2>1, <2>2, RecordStep
  <1>27. CASE CancelOperationStepBeforeDispatch
    <2>1. UNCHANGED host BY <1>27 DEF CancelOperationStepBeforeDispatch
    <2>2. \A w \in Rows : Honest(w)
      BY <1>t, <1>27 DEF CancelOperationStepBeforeDispatch, JournalInv, DispatchInv,
         EffectIsJournaled, TypeOK, ReportOf, Promise!Honest, Promise!Undo
    <2> QED BY <2>1, <2>2, RecordStep
  <1>28. CASE SettleOperationStep
    <2>1. UNCHANGED host BY <1>28 DEF SettleOperationStep
    <2>2. \A w \in Rows : Honest(w)
      BY <1>t, <1>28 DEF SettleOperationStep, RowInv, OutcomeInv, TypeOK, ReportOf,
         Promise!Honest, Promise!Undo
    <2> QED BY <2>1, <2>2, RecordStep
  <1>29. ASSUME NEW k \in Steps, PrepareCompensationStep(k)
         PROVE  Promise!Next \/ UNCHANGED Promise!vars
    <2>1. UNCHANGED host BY <1>29 DEF PrepareCompensationStep
    <2>2. \A w \in Rows : Honest(w)
      BY SMTT(30), <1>t, <1>29 DEF PrepareCompensationStep, Eligible, TypeOK, ReportOf, Promise!Honest,
         Promise!Undo
    <2> QED BY <2>1, <2>2, RecordStep
  <1>30. CASE MarkOperationStepCompensating
    <2>1. UNCHANGED host BY <1>30 DEF MarkOperationStepCompensating
    <2>2. \A w \in Rows : Honest(w)
      BY <1>t, <1>30 DEF MarkOperationStepCompensating, TypeOK, ReportOf, Promise!Honest,
         Promise!Undo
    <2> QED BY <2>1, <2>2, RecordStep
  <1>31. CASE SettleCompensationStep
    <2>1. UNCHANGED host BY <1>31 DEF SettleCompensationStep
    <2>2. \A w \in Rows : Honest(w)
      BY <1>t, <1>31 DEF SettleCompensationStep, CompensationStatus, RowInv, OutcomeInv,
         TypeOK, ReportOf, Promise!Honest, Promise!Undo
    <2> QED BY <2>1, <2>2, RecordStep
  <1>32. ASSUME NEW i \in Steps, SettleReconciledStep(i)
         PROVE  Promise!Next \/ UNCHANGED Promise!vars
    <2>1. UNCHANGED host BY <1>32 DEF SettleReconciledStep
    <2>2. \A w \in Rows : Honest(w)
      BY <1>t, <1>32 DEF SettleReconciledStep, JournalInv, ReconInv, TypeOK, ReportOf,
         Promise!Honest, Promise!Undo
    <2> QED BY <2>1, <2>2, RecordStep
  <1>33. CASE RecoverOrphanedRuns
    <2>1. UNCHANGED host BY <1>33 DEF RecoverOrphanedRuns
    <2>2. \A w \in Rows : Honest(w)
      BY <1>t, <1>33 DEF RecoverOrphanedRuns, RecoveredRow, JournalInv, DispatchInv,
         EffectIsJournaled, TypeOK, ReportOf, Promise!Honest, Promise!Undo
    <2> QED BY <2>1, <2>2, RecordStep
  <1>34. ASSUME NEW i \in Steps, SettleStartupReconciliation(i)
         PROVE  Promise!Next \/ UNCHANGED Promise!vars
    <2>1. UNCHANGED host BY <1>34 DEF SettleStartupReconciliation
    <2>2. \A w \in Rows : Honest(w)
      BY <1>t, <1>34 DEF SettleStartupReconciliation, TypeOK, ReportOf, Promise!Honest, Promise!Undo
    <2> QED BY <2>1, <2>2, RecordStep
  <1>35. ASSUME NEW r \in Rows, HostDecides(r) PROVE Promise!Next \/ UNCHANGED Promise!vars
    <2>1. Report' = Report BY <1>35 DEF HostDecides, Report, ReportOf
    <2>2. Promise!Decide(r)
      BY <1>35, <2>1 DEF HostDecides, Promise!Decide, Report
    <2> QED BY <2>2 DEF Promise!Next, Promise!Writes
  <1>36. CASE Send
    <2>1. Report' = Report BY <1>36 DEF Send, Report, ReportOf
    <2>2. Report[cur] = "open" /\ host[cur] = "idle"
      BY <1>t, <1>36 DEF Send, Report, ReportOf, RowInv, TypeOK
    <2>3. host' = [host EXCEPT ![cur] = "inflight"] /\ Report' = Report
      BY <2>1, <1>36 DEF Send
    <2>4. cur \in Promise!Writes
      BY <1>t DEF TypeOK, Promise!Writes
    <2>5. CASE cur = Comp
      <3>1. \E v \in 1 .. N : host[v] = "applied"
        BY <1>t, <1>36, <2>5 DEF Send, RowInv, SourceInv, UndoInv, CompensationInv
      <3>2. Promise!Issue(cur)
        BY <2>3, <2>2, <2>5, <3>1 DEF Promise!Issue, Promise!Undo, Report
      <3> QED BY <3>2, <2>4 DEF Promise!Next
    <2>6. CASE cur \in Steps
      <3>1. \A v \in 1 .. N : v < cur => host[v] = "applied"
        BY <1>36, <2>6 DEF Send, JournalInv, DescInv
      <3>2. Promise!Issue(cur)
        BY <2>3, <2>2, <2>6, <3>1 DEF Promise!Issue, Promise!Undo, Report
      <3> QED BY <3>2, <2>4 DEF Promise!Next
    <2> QED BY <1>t, <2>5, <2>6 DEF TypeOK
  <1> QED
    BY <1>1, <1>2, <1>3, <1>4, <1>5, <1>6, <1>7, <1>8, <1>9, <1>10, <1>11, <1>12, <1>13, <1>14,
       <1>15, <1>16, <1>17, <1>18, <1>19, <1>20, <1>21, <1>22, <1>23, <1>24, <1>25, <1>26,
       <1>27, <1>28, <1>29, <1>30, <1>31, <1>32, <1>33, <1>34, <1>35, <1>36,
       <1>37, <1>38, <1>39, <1>40
       DEF Next, Executor, Startup

(* The journal implements TruthfulWrites, for every plan: under ReportOf   *)
(* every step of the executor, of recovery and of reconciliation is an     *)
(* honest step there, or none.                                             *)
THEOREM Refinement == Spec => ImplementsTruthfulWrites
  BY JournalInvariant, PromiseInit, PromiseNext, PTL
     DEF Spec, ImplementsTruthfulWrites, Promise!Spec

-----------------------------------------------------------------------------
(* A definitive failure is one.  What executeStep returned of a step says  *)
(* all the workflow knows of Clockify: what it has not run was not sent,   *)
(* what it saw succeed was applied, and only what it saw as unknown can    *)
(* still take effect.                                                      *)

Running == Busy \cup {"choose"}

\* The operation row while the executor runs, and before.
ExecutingInv ==
    /\ pc \in Running \cup {"return"} => op = "executing"
    /\ op = "prepared" => \A r \in Rows : host[r] = "idle" /\ seen[r] = "none"
    /\ \A i \in proven : host[i] = "applied"

\* What was returned of each row.
ReturnedInv ==
    /\ pc \in Running =>
          \A r \in Rows :
              /\ seen[r] = "none" /\ (pc = "choose" \/ r # cur) => host[r] = "idle"
              /\ seen[r] \in {"succeeded", "degraded"} => host[r] = "applied"
              /\ seen[r] = "definitive_failed" => host[r] \in {"idle", "refused"}
    /\ pc \in Running => \A i \in Steps : seen[i] \in {"succeeded", "degraded"} => desc[i] = "completed"
    /\ pc = "settle" /\ outcome = "succeeded" /\ cur \in Steps => desc[cur] = "completed"

\* executeMutationWorkflow runs its steps in order and stops at the first that did
\* not plainly succeed; it never compensates.
DeclaredInv ==
    flow = "declared" =>
        /\ status[Comp] = "none"
        /\ pc \in Running => \A i, j \in Steps : j < i /\ seen[i] # "none" => seen[j] = "succeeded"
        /\ pc \in Busy => cur \in Steps /\ \A j \in Steps : j < cur => seen[j] = "succeeded"

\* The report, when it is made and when it is stored.
FailureReported ==
    /\ faults = 0 /\ flow # "heedless" /\ ~withdrawn
    /\ op = "definitive_failed" \/ (pc = "return" /\ verdict = "definitive_failed")
ReportInv ==
    FailureReported =>
        \A r \in Rows : host[r] # "inflight" /\ (flow = "declared" => host[r] # "applied")

FailureInv == ExecutingInv /\ ReturnedInv /\ DeclaredInv /\ ReportInv

LEMMA ExecutingNext == JournalInv /\ UndoInv /\ FailureInv /\ [Next]_vars => ExecutingInv'
  <1> SUFFICES ASSUME JournalInv, UndoInv, FailureInv, [Next]_vars PROVE ExecutingInv'
    OBVIOUS
  <1>0. TypeOK /\ RowInv /\ ReconInv /\ OperationInv /\ SeenInv /\ ExecutingInv
    BY DEF JournalInv, UndoInv, FailureInv
  <1> USE <1>0, NAssumption DEF TypeOK, Running, Busy, ExecutingInv, durable, clockify, scope, session
  <1>1. CASE MarkConfirmationExecuting
    BY <1>1 DEF MarkConfirmationExecuting
  <1>2. CASE MarkOperationExecuting
    BY <1>2 DEF MarkOperationExecuting
  <1>3. CASE EndUnclaimed
    BY <1>3 DEF EndUnclaimed
  <1>4. ASSUME NEW i \in Steps, PrepareOperationStep(i) PROVE ExecutingInv'
    BY <1>4 DEF PrepareOperationStep
  <1>5. CASE MarkOperationStepExecuting
    BY <1>5 DEF MarkOperationStepExecuting
  <1>6. ASSUME NEW o \in {"definitive_failed", "outcome_unknown", "cancelled"}, FailBeforeDispatch(o)
        PROVE  ExecutingInv'
    BY <1>6 DEF FailBeforeDispatch
  <1>7. CASE AuthorizeScopedMutationDispatch
    BY <1>7 DEF AuthorizeScopedMutationDispatch
  <1>8. CASE CommitScopedMutationDispatch
    BY <1>8 DEF CommitScopedMutationDispatch
  <1>9. CASE DispatchJournalUnavailable
    BY <1>9 DEF DispatchJournalUnavailable
  <1>10. CASE Send
    BY <1>10 DEF Send, RowInv
  <1>11. CASE RespondSucceeded
    BY <1>11 DEF RespondSucceeded
  <1>12. CASE RespondRejected
    BY <1>12 DEF RespondRejected
  <1>13. CASE RespondAmbiguous
    BY <1>13 DEF RespondAmbiguous
  <1>14. CASE CancelAfterDispatch
    BY <1>14 DEF CancelAfterDispatch
  <1>15. CASE ReconcileInline
    BY <1>15 DEF ReconcileInline
  <1>16. CASE CancelOperationStepBeforeDispatch
    BY <1>16 DEF CancelOperationStepBeforeDispatch
  <1>17. CASE SettleOperationStep
    BY <1>17 DEF SettleOperationStep
  <1>18. CASE LoseStepSettlement
    BY <1>18 DEF LoseStepSettlement
  <1>19. ASSUME NEW k \in Steps, PrepareCompensationStep(k) PROVE ExecutingInv'
    BY <1>19 DEF PrepareCompensationStep
  <1>20. CASE MarkOperationStepCompensating
    BY <1>20 DEF MarkOperationStepCompensating
  <1>21. CASE SettleCompensationStep
    BY <1>21 DEF SettleCompensationStep
  <1>22. CASE LoseCompensationSettlement
    BY <1>22 DEF LoseCompensationSettlement
  <1>23. ASSUME NEW i \in Steps, NEW a \in BOOLEAN, RecordOperationReconciliation(i, a)
         PROVE  ExecutingInv'
    BY <1>23 DEF RecordOperationReconciliation
  <1>24. ASSUME NEW i \in Steps, SettleReconciledStep(i) PROVE ExecutingInv'
    BY <1>24 DEF SettleReconciledStep, ReconInv
  <1>25. ASSUME NEW v \in Final, Return(v) PROVE ExecutingInv'
    BY <1>25 DEF Return
  <1>26. CASE StorageThrows
    BY <1>26 DEF StorageThrows
  <1>27. CASE SettleOperation
    BY <1>27 DEF SettleOperation, Final
  <1>28. CASE LoseOperationSettlement
    BY <1>28 DEF LoseOperationSettlement
  <1>29. ASSUME NEW r \in Rows, HostDecides(r) PROVE ExecutingInv'
    BY <1>29 DEF HostDecides
  <1>30. CASE Crash
    BY <1>30 DEF Crash
  <1>31. CASE RecoverOrphanedRuns
    BY <1>31 DEF RecoverOrphanedRuns, RecoveredKind, OperationInv
  <1>32. ASSUME NEW i \in Steps, SettleStartupReconciliation(i) PROVE ExecutingInv'
    BY <1>32 DEF SettleStartupReconciliation
  <1>33. ASSUME NEW i \in Steps, RecordStartupReconciliation(i) PROVE ExecutingInv'
    BY <1>33 DEF RecordStartupReconciliation
  <1>34. ASSUME NEW i \in Steps, SkipStartupReconciliation(i) PROVE ExecutingInv'
    BY <1>34 DEF SkipStartupReconciliation
  <1>35. CASE FinishBoot
    BY <1>35 DEF FinishBoot
  <1>36. CASE UNCHANGED vars
    BY <1>36 DEF vars
  <1>37. CASE Cancel
    BY <1>37 DEF Cancel
  <1>38. CASE SettleLapsedRun
    BY <1>38 DEF SettleLapsedRun
  <1>39. CASE Escape
    BY <1>39 DEF Escape
  <1>40. CASE SettleRun
    BY <1>40 DEF SettleRun
  <1> HIDE DEF TypeOK, Running, Busy, ExecutingInv, durable, clockify, scope, session
  <1> QED
    BY <1>1, <1>2, <1>3, <1>4, <1>5, <1>6, <1>7, <1>8, <1>9, <1>10, <1>11, <1>12, <1>13,
       <1>14, <1>15, <1>16, <1>17, <1>18, <1>19, <1>20, <1>21, <1>22, <1>23, <1>24, <1>25,
       <1>26, <1>27, <1>28, <1>29, <1>30, <1>31, <1>32, <1>33, <1>34, <1>35, <1>36,
       <1>37, <1>38, <1>39, <1>40
       DEF Next, Executor, Startup

LEMMA ReturnedNext == JournalInv /\ UndoInv /\ FailureInv /\ [Next]_vars => ReturnedInv'
  <1> SUFFICES ASSUME JournalInv, UndoInv, FailureInv, [Next]_vars PROVE ReturnedInv'
    OBVIOUS
  <1>0. TypeOK /\ OutcomeInv /\ RowInv /\ DispatchInv /\ SeenInv /\ ExecutingInv /\ ReturnedInv
    BY DEF JournalInv, UndoInv, FailureInv
  <1> USE <1>0, NAssumption DEF TypeOK, Running, Busy, ReturnedInv, durable, clockify, scope, session
  <1>1. CASE MarkConfirmationExecuting
    BY <1>1 DEF MarkConfirmationExecuting, ExecutingInv
  <1>2. CASE MarkOperationExecuting
    BY <1>2 DEF MarkOperationExecuting, ExecutingInv
  <1>3. CASE EndUnclaimed
    BY <1>3 DEF EndUnclaimed
  <1>4. ASSUME NEW i \in Steps, PrepareOperationStep(i) PROVE ReturnedInv'
    BY <1>4 DEF PrepareOperationStep
  <1>5. CASE MarkOperationStepExecuting
    BY <1>5 DEF MarkOperationStepExecuting
  <1>6. ASSUME NEW o \in {"definitive_failed", "outcome_unknown", "cancelled"}, FailBeforeDispatch(o)
        PROVE  ReturnedInv'
    BY <1>6 DEF FailBeforeDispatch, FailDescriptor, SeenInv
  <1>7. CASE AuthorizeScopedMutationDispatch
    BY <1>7 DEF AuthorizeScopedMutationDispatch
  <1>8. CASE CommitScopedMutationDispatch
    BY <1>8 DEF CommitScopedMutationDispatch
  <1>9. CASE DispatchJournalUnavailable
    BY <1>9 DEF DispatchJournalUnavailable, FailDescriptor, SeenInv
  <1>10. CASE Send
    BY <1>10 DEF Send, RowInv, SeenInv
  <1>11. CASE RespondSucceeded
    BY <1>11 DEF RespondSucceeded
  <1>12. CASE RespondRejected
    BY <1>12 DEF RespondRejected, FailDescriptor
  <1>13. CASE RespondAmbiguous
    BY <1>13 DEF RespondAmbiguous
  <1>14. CASE CancelAfterDispatch
    BY <1>14 DEF CancelAfterDispatch, FailDescriptor, SeenInv
  <1>15. CASE ReconcileInline
    BY <1>15 DEF ReconcileInline, FailDescriptor, SeenInv
  <1>16. CASE CancelOperationStepBeforeDispatch
    BY SMTT(30), <1>16 DEF CancelOperationStepBeforeDispatch, RowInv, SeenInv, DispatchInv, EffectIsJournaled
  <1>17. CASE SettleOperationStep
    BY <1>17 DEF SettleOperationStep, OutcomeInv, RowInv, SeenInv
  <1>18. CASE LoseStepSettlement
    BY <1>18 DEF LoseStepSettlement, OutcomeInv, RowInv, SeenInv
  <1>19. ASSUME NEW k \in Steps, PrepareCompensationStep(k) PROVE ReturnedInv'
    BY <1>19 DEF PrepareCompensationStep
  <1>20. CASE MarkOperationStepCompensating
    BY <1>20 DEF MarkOperationStepCompensating
  <1>21. CASE SettleCompensationStep
    BY <1>21 DEF SettleCompensationStep, OutcomeInv, RowInv, SeenInv, CompensationStatus
  <1>22. CASE LoseCompensationSettlement
    BY <1>22 DEF LoseCompensationSettlement, OutcomeInv, RowInv, SeenInv
  <1>23. ASSUME NEW i \in Steps, NEW a \in BOOLEAN, RecordOperationReconciliation(i, a)
         PROVE  ReturnedInv'
    BY <1>23 DEF RecordOperationReconciliation
  <1>24. ASSUME NEW i \in Steps, SettleReconciledStep(i) PROVE ReturnedInv'
    BY <1>24 DEF SettleReconciledStep
  <1>25. ASSUME NEW v \in Final, Return(v) PROVE ReturnedInv'
    BY <1>25 DEF Return
  <1>26. CASE StorageThrows
    BY <1>26 DEF StorageThrows
  <1>27. CASE SettleOperation
    BY <1>27 DEF SettleOperation
  <1>28. CASE LoseOperationSettlement
    BY <1>28 DEF LoseOperationSettlement
  <1>29. ASSUME NEW r \in Rows, HostDecides(r) PROVE ReturnedInv'
    BY <1>29 DEF HostDecides
  <1>30. CASE Crash
    BY <1>30 DEF Crash
  <1>31. CASE RecoverOrphanedRuns
    BY <1>31 DEF RecoverOrphanedRuns
  <1>32. ASSUME NEW i \in Steps, SettleStartupReconciliation(i) PROVE ReturnedInv'
    BY <1>32 DEF SettleStartupReconciliation
  <1>33. ASSUME NEW i \in Steps, RecordStartupReconciliation(i) PROVE ReturnedInv'
    BY <1>33 DEF RecordStartupReconciliation
  <1>34. ASSUME NEW i \in Steps, SkipStartupReconciliation(i) PROVE ReturnedInv'
    BY <1>34 DEF SkipStartupReconciliation
  <1>35. CASE FinishBoot
    BY <1>35 DEF FinishBoot
  <1>36. CASE UNCHANGED vars
    BY <1>36 DEF vars
  <1>37. CASE Cancel
    BY <1>37 DEF Cancel
  <1>38. CASE SettleLapsedRun
    BY <1>38 DEF SettleLapsedRun
  <1>39. CASE Escape
    BY <1>39 DEF Escape
  <1>40. CASE SettleRun
    BY <1>40 DEF SettleRun
  <1> HIDE DEF TypeOK, Running, Busy, ReturnedInv, durable, clockify, scope, session
  <1> QED
    BY <1>1, <1>2, <1>3, <1>4, <1>5, <1>6, <1>7, <1>8, <1>9, <1>10, <1>11, <1>12, <1>13,
       <1>14, <1>15, <1>16, <1>17, <1>18, <1>19, <1>20, <1>21, <1>22, <1>23, <1>24, <1>25,
       <1>26, <1>27, <1>28, <1>29, <1>30, <1>31, <1>32, <1>33, <1>34, <1>35, <1>36,
       <1>37, <1>38, <1>39, <1>40
       DEF Next, Executor, Startup

LEMMA DeclaredNext == JournalInv /\ UndoInv /\ FailureInv /\ [Next]_vars => DeclaredInv'
  <1> SUFFICES ASSUME JournalInv, UndoInv, FailureInv, [Next]_vars PROVE DeclaredInv'
    OBVIOUS
  <1>0. TypeOK /\ RowInv /\ OperationInv /\ SeenInv /\ ExecutingInv /\ DeclaredInv
    BY DEF JournalInv, UndoInv, FailureInv
  <1> USE <1>0, NAssumption DEF TypeOK, Running, Busy, DeclaredInv, durable, clockify, scope, session
  <1>1. CASE MarkConfirmationExecuting
    BY <1>1 DEF MarkConfirmationExecuting, ExecutingInv
  <1>2. CASE MarkOperationExecuting
    BY <1>2 DEF MarkOperationExecuting, ExecutingInv
  <1>3. CASE EndUnclaimed
    BY <1>3 DEF EndUnclaimed
  <1>4. ASSUME NEW i \in Steps, PrepareOperationStep(i) PROVE DeclaredInv'
    BY <1>4 DEF PrepareOperationStep, Calls, SeenInv
  <1>5. CASE MarkOperationStepExecuting
    BY <1>5 DEF MarkOperationStepExecuting
  <1>6. ASSUME NEW o \in {"definitive_failed", "outcome_unknown", "cancelled"}, FailBeforeDispatch(o)
        PROVE  DeclaredInv'
    BY <1>6 DEF FailBeforeDispatch
  <1>7. CASE AuthorizeScopedMutationDispatch
    BY <1>7 DEF AuthorizeScopedMutationDispatch
  <1>8. CASE CommitScopedMutationDispatch
    BY <1>8 DEF CommitScopedMutationDispatch
  <1>9. CASE DispatchJournalUnavailable
    BY <1>9 DEF DispatchJournalUnavailable
  <1>10. CASE Send
    BY <1>10 DEF Send
  <1>11. CASE RespondSucceeded
    BY <1>11 DEF RespondSucceeded
  <1>12. CASE RespondRejected
    BY <1>12 DEF RespondRejected
  <1>13. CASE RespondAmbiguous
    BY <1>13 DEF RespondAmbiguous
  <1>14. CASE CancelAfterDispatch
    BY <1>14 DEF CancelAfterDispatch
  <1>15. CASE ReconcileInline
    BY <1>15 DEF ReconcileInline
  <1>16. CASE CancelOperationStepBeforeDispatch
    <2>1. CASE status[cur] = "executing" /\ ~dispatched[cur]
      <3>1. /\ status' = [status EXCEPT ![cur] = "definitive_failed"]
            /\ seen' = [seen EXCEPT ![cur] = "definitive_failed"]
            /\ pc = "cancel" /\ pc' = "choose" /\ UNCHANGED flow
        BY <1>16, <2>1 DEF CancelOperationStepBeforeDispatch
      <3> SUFFICES ASSUME flow = "declared" PROVE DeclaredInv'
        BY <3>1
      <3>2. cur \in Steps /\ seen[cur] = "none"
        BY <3>1 DEF SeenInv
      <3>3. status'[Comp] = "none"
        BY <3>1, <3>2
      <3>4. ASSUME NEW i \in Steps, NEW j \in Steps, j < i, seen'[i] # "none"
            PROVE  seen'[j] = "succeeded"
        BY <3>1, <3>2, <3>4
      <3> QED BY <3>1, <3>3, <3>4
    <2>2. CASE ~(status[cur] = "executing" /\ ~dispatched[cur])
      BY SMTT(30), <1>16, <2>2 DEF CancelOperationStepBeforeDispatch
    <2> QED BY <2>1, <2>2
  <1>17. CASE SettleOperationStep
    BY <1>17 DEF SettleOperationStep, SeenInv
  <1>18. CASE LoseStepSettlement
    BY <1>18 DEF LoseStepSettlement, SeenInv
  <1>19. ASSUME NEW k \in Steps, PrepareCompensationStep(k) PROVE DeclaredInv'
    BY <1>19 DEF PrepareCompensationStep
  <1>20. CASE MarkOperationStepCompensating
    BY <1>20 DEF MarkOperationStepCompensating
  <1>21. CASE SettleCompensationStep
    BY <1>21 DEF SettleCompensationStep
  <1>22. CASE LoseCompensationSettlement
    BY <1>22 DEF LoseCompensationSettlement
  <1>23. ASSUME NEW i \in Steps, NEW a \in BOOLEAN, RecordOperationReconciliation(i, a)
         PROVE  DeclaredInv'
    BY <1>23 DEF RecordOperationReconciliation
  <1>24. ASSUME NEW i \in Steps, SettleReconciledStep(i) PROVE DeclaredInv'
    BY <1>24 DEF SettleReconciledStep
  <1>25. ASSUME NEW v \in Final, Return(v) PROVE DeclaredInv'
    BY <1>25 DEF Return
  <1>26. CASE StorageThrows
    BY <1>26 DEF StorageThrows
  <1>27. CASE SettleOperation
    BY <1>27 DEF SettleOperation
  <1>28. CASE LoseOperationSettlement
    BY <1>28 DEF LoseOperationSettlement
  <1>29. ASSUME NEW r \in Rows, HostDecides(r) PROVE DeclaredInv'
    BY <1>29 DEF HostDecides
  <1>30. CASE Crash
    BY <1>30 DEF Crash
  <1>31. CASE RecoverOrphanedRuns
    BY <1>31 DEF RecoverOrphanedRuns, RecoveredRow
  <1>32. ASSUME NEW i \in Steps, SettleStartupReconciliation(i) PROVE DeclaredInv'
    BY <1>32 DEF SettleStartupReconciliation
  <1>33. ASSUME NEW i \in Steps, RecordStartupReconciliation(i) PROVE DeclaredInv'
    BY <1>33 DEF RecordStartupReconciliation
  <1>34. ASSUME NEW i \in Steps, SkipStartupReconciliation(i) PROVE DeclaredInv'
    BY <1>34 DEF SkipStartupReconciliation
  <1>35. CASE FinishBoot
    BY <1>35 DEF FinishBoot
  <1>36. CASE UNCHANGED vars
    BY <1>36 DEF vars
  <1>37. CASE Cancel
    BY <1>37 DEF Cancel
  <1>38. CASE SettleLapsedRun
    BY <1>38 DEF SettleLapsedRun
  <1>39. CASE Escape
    BY <1>39 DEF Escape
  <1>40. CASE SettleRun
    BY <1>40 DEF SettleRun
  <1> HIDE DEF TypeOK, Running, Busy, DeclaredInv, durable, clockify, scope, session
  <1> QED
    BY <1>1, <1>2, <1>3, <1>4, <1>5, <1>6, <1>7, <1>8, <1>9, <1>10, <1>11, <1>12, <1>13,
       <1>14, <1>15, <1>16, <1>17, <1>18, <1>19, <1>20, <1>21, <1>22, <1>23, <1>24, <1>25,
       <1>26, <1>27, <1>28, <1>29, <1>30, <1>31, <1>32, <1>33, <1>34, <1>35, <1>36,
       <1>37, <1>38, <1>39, <1>40
       DEF Next, Executor, Startup

LEMMA ReportNext == JournalInv /\ UndoInv /\ FailureInv /\ [Next]_vars => ReportInv'
  <1> SUFFICES ASSUME JournalInv, UndoInv, FailureInv, [Next]_vars PROVE ReportInv'
    OBVIOUS
  <1>0. TypeOK /\ DispatchInv /\ OperationInv /\ ExecutingInv /\ ReturnedInv /\ DeclaredInv /\ ReportInv
    BY DEF JournalInv, UndoInv, FailureInv
  <1> USE <1>0, NAssumption DEF TypeOK, Running, Busy, FailureReported, ReportInv, durable, clockify, scope, session
  <1>1. CASE MarkConfirmationExecuting
    BY <1>1 DEF MarkConfirmationExecuting
  <1>2. CASE MarkOperationExecuting
    BY <1>2 DEF MarkOperationExecuting
  <1>3. CASE EndUnclaimed
    BY <1>3 DEF EndUnclaimed, ExecutingInv
  <1>4. ASSUME NEW i \in Steps, PrepareOperationStep(i) PROVE ReportInv'
    BY <1>4 DEF PrepareOperationStep
  <1>5. CASE MarkOperationStepExecuting
    BY <1>5 DEF MarkOperationStepExecuting
  <1>6. ASSUME NEW o \in {"definitive_failed", "outcome_unknown", "cancelled"}, FailBeforeDispatch(o)
        PROVE  ReportInv'
    BY <1>6 DEF FailBeforeDispatch, FailDescriptor
  <1>7. CASE AuthorizeScopedMutationDispatch
    BY <1>7 DEF AuthorizeScopedMutationDispatch
  <1>8. CASE CommitScopedMutationDispatch
    BY <1>8 DEF CommitScopedMutationDispatch
  <1>9. CASE DispatchJournalUnavailable
    BY <1>9 DEF DispatchJournalUnavailable, FailDescriptor
  <1>10. CASE Send
    BY <1>10 DEF Send, ExecutingInv
  <1>11. CASE RespondSucceeded
    BY <1>11 DEF RespondSucceeded
  <1>12. CASE RespondRejected
    BY <1>12 DEF RespondRejected, FailDescriptor
  <1>13. CASE RespondAmbiguous
    BY <1>13 DEF RespondAmbiguous
  <1>14. CASE CancelAfterDispatch
    BY <1>14 DEF CancelAfterDispatch, FailDescriptor
  <1>15. CASE ReconcileInline
    BY <1>15 DEF ReconcileInline, FailDescriptor
  <1>16. CASE CancelOperationStepBeforeDispatch
    BY <1>16 DEF CancelOperationStepBeforeDispatch
  <1>17. CASE SettleOperationStep
    BY <1>17 DEF SettleOperationStep
  <1>18. CASE LoseStepSettlement
    BY <1>18 DEF LoseStepSettlement
  <1>19. ASSUME NEW k \in Steps, PrepareCompensationStep(k) PROVE ReportInv'
    BY <1>19 DEF PrepareCompensationStep
  <1>20. CASE MarkOperationStepCompensating
    BY <1>20 DEF MarkOperationStepCompensating
  <1>21. CASE SettleCompensationStep
    BY <1>21 DEF SettleCompensationStep
  <1>22. CASE LoseCompensationSettlement
    BY <1>22 DEF LoseCompensationSettlement
  <1>23. ASSUME NEW i \in Steps, NEW a \in BOOLEAN, RecordOperationReconciliation(i, a)
         PROVE  ReportInv'
    BY <1>23 DEF RecordOperationReconciliation
  <1>24. ASSUME NEW i \in Steps, SettleReconciledStep(i) PROVE ReportInv'
    BY <1>24 DEF SettleReconciledStep
  <1>25. ASSUME NEW v \in Final, Return(v) PROVE ReportInv'
    <2>1. /\ pc = "choose" /\ v \in Verdicts /\ op = "executing"
          /\ verdict' = IF v = "succeeded" /\ ~Complete THEN "definitive_failed" ELSE v
          /\ UNCHANGED <<op, host, flow, faults>>
      BY <1>25 DEF Return, ExecutingInv
    <2> SUFFICES ASSUME flow # "heedless", verdict' = "definitive_failed", NEW r \in Rows
                 PROVE  host[r] # "inflight" /\ (flow = "declared" => host[r] # "applied")
      BY <2>1
    <2>2. /\ seen[r] = "none" => host[r] = "idle"
          /\ seen[r] \in {"succeeded", "degraded"} => host[r] = "applied"
          /\ seen[r] = "definitive_failed" => host[r] \in {"idle", "refused"}
          /\ seen[r] \in {"none", "succeeded", "degraded", "definitive_failed", "outcome_unknown"}
      BY <2>1 DEF ReturnedInv, Seen
    <2>3. CASE flow = "declared"
      <3>1. host[Comp] = "idle"
        BY <2>3 DEF DeclaredInv, DispatchInv, EffectIsJournaled
      <3>2. v \in DeclaredVerdicts
        BY <2>1, <2>3 DEF Verdicts
      <3>3. \A i \in Steps : seen[i] \in {"succeeded", "degraded"} => desc[i] = "completed"
        BY <2>1 DEF ReturnedInv
      <3>4. v = "succeeded" => \A i \in Steps : seen[i] \in {"succeeded", "degraded"}
        BY <3>2 DEF DeclaredVerdicts
      <3>5. v = "definitive_failed"
        BY <2>1, <3>3, <3>4 DEF Complete
      <3>6. /\ seen[1] # "succeeded"
            /\ \A i \in Steps : seen[i] \notin {"degraded", "outcome_unknown"}
        BY <3>2, <3>5 DEF DeclaredVerdicts
      <3>7. \A i \in Steps : 1 < i => seen[i] = "none"
        BY <2>1, <2>3, <3>6 DEF DeclaredInv
      <3>8. CASE r = Comp BY <3>1, <3>8
      <3>9. CASE r \in Steps /\ r = 1 BY <2>2, <3>6, <3>9
      <3>10. CASE r \in Steps /\ 1 < r BY <2>2, <3>7, <3>10
      <3> QED BY <3>8, <3>9, <3>10
    <2>4. CASE flow = "curated"
      <3>1. v \in CuratedVerdicts
        BY <2>1, <2>4 DEF Verdicts
      <3>2. CASE v = "succeeded"
        <4>1. /\ \A i \in Steps : seen[i] \in {"succeeded", "degraded"} \/ i \in proven
              /\ seen[Comp] = "none"
          BY <3>1, <3>2 DEF CuratedVerdicts
        <4>2. CASE r \in Steps BY <2>2, <2>4, <4>1, <4>2 DEF ExecutingInv
        <4>3. CASE r = Comp BY <2>2, <2>4, <4>1, <4>3
        <4> QED BY <4>2, <4>3
      <3>3. CASE v = "definitive_failed"
        <4>1. /\ \A i \in Steps : seen[i] # "outcome_unknown"
              /\ seen[Comp] \in {"none", "succeeded"}
          BY <3>1, <3>3 DEF CuratedVerdicts
        <4>2. CASE r \in Steps BY <2>2, <2>4, <4>1, <4>2
        <4>3. CASE r = Comp BY <2>2, <2>4, <4>1, <4>3
        <4> QED BY <4>2, <4>3
      <3> QED BY <2>1, <3>2, <3>3
    <2> QED BY <2>3, <2>4 DEF Flow
  <1>26. CASE StorageThrows
    BY <1>26 DEF StorageThrows
  <1>27. CASE SettleOperation
    BY <1>27 DEF SettleOperation
  <1>28. CASE LoseOperationSettlement
    BY <1>28 DEF LoseOperationSettlement
  <1>29. ASSUME NEW r \in Rows, HostDecides(r) PROVE ReportInv'
    BY <1>29 DEF HostDecides
  <1>30. CASE Crash
    BY <1>30 DEF Crash
  <1>31. CASE RecoverOrphanedRuns
    BY <1>31 DEF RecoverOrphanedRuns, RecoveredKind, OperationInv, ExecutingInv, DispatchInv,
       EffectIsJournaled
  <1>32. ASSUME NEW i \in Steps, SettleStartupReconciliation(i) PROVE ReportInv'
    BY <1>32 DEF SettleStartupReconciliation
  <1>33. ASSUME NEW i \in Steps, RecordStartupReconciliation(i) PROVE ReportInv'
    BY <1>33 DEF RecordStartupReconciliation
  <1>34. ASSUME NEW i \in Steps, SkipStartupReconciliation(i) PROVE ReportInv'
    BY <1>34 DEF SkipStartupReconciliation
  <1>35. CASE FinishBoot
    BY <1>35 DEF FinishBoot
  <1>36. CASE UNCHANGED vars
    BY <1>36 DEF vars
  <1>37. CASE Cancel
    BY <1>37 DEF Cancel, ExecutingInv
  <1>38. CASE SettleLapsedRun
    BY <1>38 DEF SettleLapsedRun
  <1>39. CASE Escape
    BY <1>39 DEF Escape
  <1>40. CASE SettleRun
    BY <1>40 DEF SettleRun
  <1> HIDE DEF TypeOK, Running, Busy, FailureReported, ReportInv, durable, clockify, scope, session
  <1> QED
    BY <1>1, <1>2, <1>3, <1>4, <1>5, <1>6, <1>7, <1>8, <1>9, <1>10, <1>11, <1>12, <1>13,
       <1>14, <1>15, <1>16, <1>17, <1>18, <1>19, <1>20, <1>21, <1>22, <1>23, <1>24, <1>25,
       <1>26, <1>27, <1>28, <1>29, <1>30, <1>31, <1>32, <1>33, <1>34, <1>35, <1>36,
       <1>37, <1>38, <1>39, <1>40
       DEF Next, Executor, Startup

LEMMA FailureInit == Init => FailureInv
  BY NAssumption DEF Init, FailureInv, ExecutingInv, ReturnedInv, DeclaredInv, ReportInv,
     FailureReported, Running, Busy

(* While storage answers, an operation reported as definitively failed can *)
(* no longer take effect, and one of executeMutationWorkflow has taken     *)
(* none: for every plan length, through aborted steps, ambiguous answers,  *)
(* crashes and recoveries, except where the cancel route stored the        *)
(* failure over an operation already claimed.                              *)
THEOREM FailuresAreDefinitive == Spec => []FailureIsDefinitive
  <1>1. JournalInv /\ FailureInv => FailureIsDefinitive
    BY NAssumption DEF JournalInv, TypeOK, FailureInv, ReportInv, FailureReported,
       FailureIsDefinitive, FailureIsSettled,
           DeclaredEffectIsReported, KnownEffectIsReported
  <1>2. JournalInv /\ UndoInv /\ FailureInv /\ [Next]_vars => FailureInv'
    BY ExecutingNext, ReturnedNext, DeclaredNext, ReportNext DEF FailureInv
  <1> QED BY JournalInvariant, FailureInit, <1>1, <1>2, PTL DEF Spec
=============================================================================
