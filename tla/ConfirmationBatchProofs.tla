----------------------- MODULE ConfirmationBatchProofs -----------------------
(***************************************************************************)
(* Confirm all dispatches in order, once, and reports the truth, for every *)
(* size of the batch and every number of crashes.                          *)
(***************************************************************************)
EXTENDS ConfirmationBatch, TLAPS

Done == {"succeeded", "definitive_failed", "outcome_unknown"}
Working == {"dispatching", "sent", "answered", "settled"}
Active == Working \cup {"loop", "claimed", "recorded", "stopping"}

\* What the rows of one member say together: a preview can be used as long as the
\* run waits, and what is still queued was never dispatched.
MemberInv == \A i \in Items :
    /\ conf[i] = "pending" => item[i] = "pending" /\ run # "completed"
    /\ conf[i] = "executing" => result[i] = "outcome_unknown"
    /\ item[i] = "pending" => ~dispatched[i] /\ truth[i] = "none"
    /\ item[i] \in Done => conf[i] \in Final \cup {"executing"}
    /\ ~dispatched[i] => sent[i] = 0

\* current_index never passes a member that is not recorded as done.
IndexInv == \A i \in Items : i <= index => item[i] \in Done

\* A request that was admitted met no interrupted and no cancelled member, and
\* leaves none behind it.
QueueInv ==
    /\ pc \in Active \cup {"verifying"} =>
          \A i \in Items :
            /\ item[i] # "cancelled"
            /\ item[i] = "executing" => pc \in Working /\ i = cur
            /\ i <= seen.index => item[i] \in Done
    /\ pc \in Active => \A i \in Items : i < cur => item[i] \in Done
    /\ pc \in {"recorded", "stopping"} => item[cur] \in Done
    /\ pc \in {"stopped", "finish"} => \A i \in Items : item[i] # "pending"

\* The member the request is at.
CurrentInv ==
    /\ pc \in Working \cup {"claimed", "recorded", "stopping"} => cur \in Items
    /\ pc \in {"claimed", "dispatching"} =>
          ~dispatched[cur] /\ truth[cur] = "none" /\ run # "completed"
    /\ pc \in {"claimed", "dispatching", "sent", "answered"} => conf[cur] = "executing"
    /\ pc = "claimed" => item[cur] = "pending"
    /\ pc \in Working => item[cur] = "executing"
    /\ pc \in {"settled", "recorded"} => conf[cur] \in {"executing", answer}
    /\ pc \in {"answered", "settled", "recorded"} => answer \in Final
    /\ pc \in {"answered", "settled"} => truth[cur] = Effect[answer]

\* What the request collected is what the rows say, where they say anything.
OutcomeInv ==
    pc \in Active => \A i \in Items :
        seen.index < i /\ i < cur /\ conf[i] \in Final \ {"outcome_unknown"} => outcomes[i] = conf[i]

\* A batch that succeeded or failed has no member left to work on, and no request.
BatchInv ==
    batch \in {"succeeded", "definitive_failed"} =>
        /\ pc \notin Active \cup {"verifying", "stopped"}
        /\ \A i \in Items : item[i] # "pending"

IInv == TypeOK /\ MemberInv /\ IndexInv /\ QueueInv /\ CurrentInv /\ OutcomeInv /\ BatchInv
        /\ MembersAreTruthful /\ BatchIsTruthful
-----------------------------------------------------------------------------
LEMMA Numbers == N \in Nat \ {0} /\ MaxCrashes \in Nat
  BY BatchAssumption

LEMMA InvInit == Init => IInv
<1> SUFFICES ASSUME Init PROVE IInv
  OBVIOUS
<1>1. TypeOK
  <2>1. 0 \in 0 .. N /\ 1 \in 1 .. N + 1 /\ 0 \in 0 .. MaxCrashes
    BY Numbers
  <2>2. seen \in [status : ConfStatus, index : 0 .. N]
    BY <2>1 DEF Init, ConfStatus
  <2> QED
    BY <2>1, <2>2 DEF Init, TypeOK, Items, ItemStatus, Final, ConfStatus, PC, Blank
<1>2. MemberInv /\ IndexInv /\ QueueInv /\ CurrentInv /\ OutcomeInv /\ BatchInv
  BY Numbers DEF Init, Items, MemberInv, IndexInv, QueueInv, CurrentInv, OutcomeInv, BatchInv,
     Blank, Done, Working, Active
<1>3. MembersAreTruthful /\ BatchIsTruthful
  BY DEF Init, MembersAreTruthful, BatchIsTruthful, Blank
<1> QED
  BY <1>1, <1>2, <1>3 DEF IInv

LEMMA ConfirmExpiredStep == ASSUME IInv, ConfirmExpired PROVE IInv'
<1> USE DEF ConfirmExpired, Closed, Rest, Stops, Executing, rows, memory, history
<1>1. TypeOK'
  BY Numbers DEF IInv, TypeOK, Items, ItemStatus, Final, ConfStatus, PC, CurrentInv, Working
<1>2. MemberInv' /\ IndexInv'
  BY SMTT(30), Numbers DEF IInv, TypeOK, Items, ItemStatus, Final, MemberInv, IndexInv, QueueInv,
     CurrentInv, Done, Working, Active
<1>3. QueueInv'
  BY Numbers DEF IInv, TypeOK, Items, Final, IndexInv, QueueInv, CurrentInv, Done, Working, Active
<1>4. CurrentInv'
  BY Numbers DEF IInv, TypeOK, Items, Final, MemberInv, CurrentInv, Working, Effect
<1>5. OutcomeInv' /\ BatchInv'
  BY Numbers DEF IInv, TypeOK, Items, Final, ConfStatus, MemberInv, QueueInv, CurrentInv,
     OutcomeInv, BatchInv, Done, Working, Active
<1>6. MembersAreTruthful' /\ BatchIsTruthful'
  <2>1. ASSUME NEW i \in Items
        PROVE  conf'[i] = conf[i] \/ (conf[i] = "pending" /\ conf'[i] \in {"expired", "cancelled"})
    BY DEF IInv, TypeOK
  <2>2. MembersAreTruthful'
    BY <2>1 DEF IInv, MembersAreTruthful
  <2>3. BatchIsTruthful'
    BY DEF BatchIsTruthful
  <2> QED
    BY <2>2, <2>3
<1> QED
  BY <1>1, <1>2, <1>3, <1>4, <1>5, <1>6 DEF IInv

LEMMA ConfirmStartsStep == ASSUME IInv, ConfirmStarts PROVE IInv'
<1> USE DEF ConfirmStarts, RecoverBatch, Rest, Stops, Executing, Replay, rows, memory, history
<1>1. TypeOK'
  BY SMTT(30), Numbers DEF IInv, TypeOK, Items, ItemStatus, Final, ConfStatus, PC, CurrentInv, Working
<1>2. MemberInv' /\ IndexInv'
  BY SMTT(30), Numbers DEF IInv, TypeOK, Items, ItemStatus, Final, MemberInv, IndexInv, QueueInv,
     CurrentInv, Done, Working, Active
<1>3. QueueInv'
  BY Numbers DEF IInv, TypeOK, Items, Final, IndexInv, QueueInv, CurrentInv, Done, Working, Active
<1>4. CurrentInv'
  BY Numbers DEF IInv, TypeOK, Items, Final, MemberInv, CurrentInv, Working, Effect
<1>5. OutcomeInv' /\ BatchInv'
  BY Numbers DEF IInv, TypeOK, Items, Final, ConfStatus, MemberInv, QueueInv, CurrentInv,
     OutcomeInv, BatchInv, Done, Working, Active
<1>6. MembersAreTruthful' /\ BatchIsTruthful'
  BY DEF IInv, TypeOK, Final, Items, MemberInv, QueueInv, CurrentInv, BatchInv,
     MembersAreTruthful, BatchIsTruthful, Effect, Working, Active
<1> QED
  BY <1>1, <1>2, <1>3, <1>4, <1>5, <1>6 DEF IInv

LEMMA UnauthorisedStep == ASSUME IInv, Unauthorised PROVE IInv'
<1> USE DEF Unauthorised, Ends, Blank, rows, memory, history
<1>1. TypeOK'
  BY Numbers DEF IInv, TypeOK, Items, ItemStatus, Final, ConfStatus, PC, CurrentInv, Working
<1>2. MemberInv' /\ IndexInv'
  BY Numbers DEF IInv, TypeOK, Items, ItemStatus, Final, MemberInv, IndexInv, QueueInv,
     CurrentInv, Done, Working, Active
<1>3. QueueInv'
  BY Numbers DEF IInv, TypeOK, Items, Final, IndexInv, QueueInv, CurrentInv, Done, Working, Active
<1>4. CurrentInv'
  BY Numbers DEF IInv, TypeOK, Items, Final, MemberInv, CurrentInv, Working, Effect
<1>5. OutcomeInv' /\ BatchInv'
  BY Numbers DEF IInv, TypeOK, Items, Final, ConfStatus, MemberInv, QueueInv, CurrentInv,
     OutcomeInv, BatchInv, Done, Working, Active
<1>6. MembersAreTruthful' /\ BatchIsTruthful'
  BY DEF IInv, TypeOK, Final, Items, MemberInv, QueueInv, CurrentInv, BatchInv,
     MembersAreTruthful, BatchIsTruthful, Effect, Working, Active
<1> QED
  BY <1>1, <1>2, <1>3, <1>4, <1>5, <1>6 DEF IInv

LEMMA ClaimBatchStep == ASSUME IInv, ClaimBatch PROVE IInv'
<1> USE DEF ClaimBatch, rows, memory, history
<1>1. TypeOK'
  BY Numbers DEF IInv, TypeOK, Items, ItemStatus, Final, ConfStatus, PC, CurrentInv, Working
<1>2. MemberInv' /\ IndexInv'
  BY Numbers DEF IInv, TypeOK, Items, ItemStatus, Final, MemberInv, IndexInv, QueueInv,
     CurrentInv, Done, Working, Active
<1>3. QueueInv'
  BY Numbers DEF IInv, TypeOK, Items, Final, IndexInv, QueueInv, CurrentInv, Done, Working, Active
<1>4. CurrentInv'
  BY Numbers DEF IInv, TypeOK, Items, Final, MemberInv, CurrentInv, Working, Effect
<1>5. OutcomeInv' /\ BatchInv'
  BY Numbers DEF IInv, TypeOK, Items, Final, ConfStatus, MemberInv, QueueInv, CurrentInv,
     OutcomeInv, BatchInv, Done, Working, Active
<1>6. MembersAreTruthful' /\ BatchIsTruthful'
  BY DEF IInv, TypeOK, Final, Items, MemberInv, QueueInv, CurrentInv, BatchInv,
     MembersAreTruthful, BatchIsTruthful, Effect, Working, Active
<1> QED
  BY <1>1, <1>2, <1>3, <1>4, <1>5, <1>6 DEF IInv

LEMMA ClaimLostStep == ASSUME IInv, ClaimLost PROVE IInv'
<1> USE DEF ClaimLost, Ends, Blank, rows, memory, history
<1>1. TypeOK'
  BY Numbers DEF IInv, TypeOK, Items, ItemStatus, Final, ConfStatus, PC, CurrentInv, Working
<1>2. MemberInv' /\ IndexInv'
  BY Numbers DEF IInv, TypeOK, Items, ItemStatus, Final, MemberInv, IndexInv, QueueInv,
     CurrentInv, Done, Working, Active
<1>3. QueueInv'
  BY Numbers DEF IInv, TypeOK, Items, Final, IndexInv, QueueInv, CurrentInv, Done, Working, Active
<1>4. CurrentInv'
  BY Numbers DEF IInv, TypeOK, Items, Final, MemberInv, CurrentInv, Working, Effect
<1>5. OutcomeInv' /\ BatchInv'
  BY Numbers DEF IInv, TypeOK, Items, Final, ConfStatus, MemberInv, QueueInv, CurrentInv,
     OutcomeInv, BatchInv, Done, Working, Active
<1>6. MembersAreTruthful' /\ BatchIsTruthful'
  BY DEF IInv, TypeOK, Final, Items, MemberInv, QueueInv, CurrentInv, BatchInv,
     MembersAreTruthful, BatchIsTruthful, Effect, Working, Active
<1> QED
  BY <1>1, <1>2, <1>3, <1>4, <1>5, <1>6 DEF IInv

LEMMA ReplayItemStep == ASSUME IInv, ReplayItem PROVE IInv'
<1> USE DEF ReplayItem, Replay, rows, memory, history
<1>1. TypeOK'
  BY Numbers DEF IInv, TypeOK, Items, ItemStatus, Final, ConfStatus, PC, CurrentInv, Working
<1>2. MemberInv' /\ IndexInv'
  BY Numbers DEF IInv, TypeOK, Items, ItemStatus, Final, MemberInv, IndexInv, QueueInv,
     CurrentInv, Done, Working, Active
<1>3. QueueInv'
  BY Numbers DEF IInv, TypeOK, Items, ItemStatus, Final, IndexInv, QueueInv, CurrentInv, Done,
     Working, Active
<1>4. CurrentInv'
  BY Numbers DEF IInv, TypeOK, Items, Final, MemberInv, CurrentInv, Working, Effect
<1>5. OutcomeInv' /\ BatchInv'
  BY Numbers DEF IInv, TypeOK, Items, Final, ConfStatus, MemberInv, QueueInv, CurrentInv,
     OutcomeInv, BatchInv, Done, Working, Active
<1>6. MembersAreTruthful' /\ BatchIsTruthful'
  BY DEF IInv, TypeOK, Final, Items, MemberInv, QueueInv, CurrentInv, BatchInv,
     MembersAreTruthful, BatchIsTruthful, Effect, Working, Active
<1> QED
  BY <1>1, <1>2, <1>3, <1>4, <1>5, <1>6 DEF IInv

LEMMA RejectItemStep == ASSUME IInv, RejectItem PROVE IInv'
<1> USE DEF RejectItem, Ends, Blank, Closed, rows, memory, history
<1>1. TypeOK'
  BY Numbers DEF IInv, TypeOK, Items, ItemStatus, Final, ConfStatus, PC, CurrentInv, Working
<1>2. MemberInv' /\ IndexInv'
  BY Numbers DEF IInv, TypeOK, Items, ItemStatus, Final, MemberInv, IndexInv, QueueInv,
     CurrentInv, Done, Working, Active
<1>3. QueueInv'
  BY Numbers DEF IInv, TypeOK, Items, Final, IndexInv, QueueInv, CurrentInv, Done, Working, Active
<1>4. CurrentInv'
  BY Numbers DEF IInv, TypeOK, Items, Final, MemberInv, CurrentInv, Working, Effect
<1>5. OutcomeInv' /\ BatchInv'
  BY Numbers DEF IInv, TypeOK, Items, Final, ConfStatus, MemberInv, QueueInv, CurrentInv,
     OutcomeInv, BatchInv, Done, Working, Active
<1>6. MembersAreTruthful' /\ BatchIsTruthful'
  <2>1. ASSUME NEW i \in Items
        PROVE  conf'[i] = conf[i] \/ (conf[i] = "pending" /\ conf'[i] = "expired")
    BY DEF IInv, TypeOK
  <2>2. MembersAreTruthful'
    BY <2>1 DEF IInv, MembersAreTruthful
  <2>3. BatchIsTruthful'
    BY DEF IInv, BatchInv, BatchIsTruthful, Active
  <2> QED
    BY <2>2, <2>3
<1> QED
  BY <1>1, <1>2, <1>3, <1>4, <1>5, <1>6 DEF IInv

LEMMA ClaimItemStep == ASSUME IInv, ClaimItem PROVE IInv'
<1> USE DEF ClaimItem, Live, rows, memory, history
<1>1. TypeOK'
  BY Numbers DEF IInv, TypeOK, Items, ItemStatus, Final, ConfStatus, PC, CurrentInv, Working
<1>2. MemberInv' /\ IndexInv'
  BY Numbers DEF IInv, TypeOK, Items, ItemStatus, Final, MemberInv, IndexInv, QueueInv,
     CurrentInv, Done, Working, Active
<1>3. QueueInv'
  BY Numbers DEF IInv, TypeOK, Items, Final, IndexInv, QueueInv, CurrentInv, Done, Working, Active
<1>4. CurrentInv'
  BY Numbers DEF IInv, TypeOK, Items, Final, MemberInv, CurrentInv, Working, Effect
<1>5. OutcomeInv' /\ BatchInv'
  BY Numbers DEF IInv, TypeOK, Items, Final, ConfStatus, MemberInv, QueueInv, CurrentInv,
     OutcomeInv, BatchInv, Done, Working, Active
<1>6. MembersAreTruthful' /\ BatchIsTruthful'
  BY DEF IInv, TypeOK, Final, Items, MemberInv, QueueInv, CurrentInv, BatchInv,
     MembersAreTruthful, BatchIsTruthful, Effect, Working, Active
<1> QED
  BY <1>1, <1>2, <1>3, <1>4, <1>5, <1>6 DEF IInv

LEMMA StartItemStep == ASSUME IInv, StartItem PROVE IInv'
<1> USE DEF StartItem, rows, memory, history
<1>1. TypeOK'
  BY Numbers DEF IInv, TypeOK, Items, ItemStatus, Final, ConfStatus, PC, CurrentInv, Working
<1>2. MemberInv' /\ IndexInv'
  BY Numbers DEF IInv, TypeOK, Items, ItemStatus, Final, MemberInv, IndexInv, QueueInv,
     CurrentInv, Done, Working, Active
<1>3. QueueInv'
  BY Numbers DEF IInv, TypeOK, Items, Final, IndexInv, QueueInv, CurrentInv, Done, Working, Active
<1>4. CurrentInv'
  BY Numbers DEF IInv, TypeOK, Items, Final, MemberInv, CurrentInv, Working, Effect
<1>5. OutcomeInv' /\ BatchInv'
  BY Numbers DEF IInv, TypeOK, Items, Final, ConfStatus, MemberInv, QueueInv, CurrentInv,
     OutcomeInv, BatchInv, Done, Working, Active
<1>6. MembersAreTruthful' /\ BatchIsTruthful'
  BY DEF IInv, TypeOK, Final, Items, MemberInv, QueueInv, CurrentInv, BatchInv,
     MembersAreTruthful, BatchIsTruthful, Effect, Working, Active
<1> QED
  BY <1>1, <1>2, <1>3, <1>4, <1>5, <1>6 DEF IInv

LEMMA DispatchThrowsStep == ASSUME IInv, DispatchThrows PROVE IInv'
<1> USE DEF DispatchThrows, Ends, Blank, rows, memory, history
<1>1. TypeOK'
  BY Numbers DEF IInv, TypeOK, Items, ItemStatus, Final, ConfStatus, PC, CurrentInv, Working
<1>2. MemberInv' /\ IndexInv'
  BY Numbers DEF IInv, TypeOK, Items, ItemStatus, Final, MemberInv, IndexInv, QueueInv,
     CurrentInv, Done, Working, Active
<1>3. QueueInv'
  BY Numbers DEF IInv, TypeOK, Items, Final, IndexInv, QueueInv, CurrentInv, Done, Working, Active
<1>4. CurrentInv'
  BY Numbers DEF IInv, TypeOK, Items, Final, MemberInv, CurrentInv, Working, Effect
<1>5. OutcomeInv' /\ BatchInv'
  BY Numbers DEF IInv, TypeOK, Items, Final, ConfStatus, MemberInv, QueueInv, CurrentInv,
     OutcomeInv, BatchInv, Done, Working, Active
<1>6. MembersAreTruthful' /\ BatchIsTruthful'
  BY DEF IInv, TypeOK, Final, Items, MemberInv, QueueInv, CurrentInv, BatchInv,
     MembersAreTruthful, BatchIsTruthful, Effect, Working, Active
<1> QED
  BY <1>1, <1>2, <1>3, <1>4, <1>5, <1>6 DEF IInv

LEMMA NotSentStep == ASSUME IInv, NotSent PROVE IInv'
<1> USE DEF NotSent, rows, memory, history
<1>1. TypeOK'
  BY Numbers DEF IInv, TypeOK, Items, ItemStatus, Final, ConfStatus, PC, CurrentInv, Working
<1>2. MemberInv' /\ IndexInv'
  BY Numbers DEF IInv, TypeOK, Items, ItemStatus, Final, MemberInv, IndexInv, QueueInv,
     CurrentInv, Done, Working, Active
<1>3. QueueInv'
  BY Numbers DEF IInv, TypeOK, Items, Final, IndexInv, QueueInv, CurrentInv, Done, Working, Active
<1>4. CurrentInv'
  BY Numbers DEF IInv, TypeOK, Items, Final, MemberInv, CurrentInv, Working, Effect
<1>5. OutcomeInv' /\ BatchInv'
  BY Numbers DEF IInv, TypeOK, Items, Final, ConfStatus, MemberInv, QueueInv, CurrentInv,
     OutcomeInv, BatchInv, Done, Working, Active
<1>6. MembersAreTruthful' /\ BatchIsTruthful'
  BY DEF IInv, TypeOK, Final, Items, MemberInv, QueueInv, CurrentInv, BatchInv,
     MembersAreTruthful, BatchIsTruthful, Effect, Working, Active
<1> QED
  BY <1>1, <1>2, <1>3, <1>4, <1>5, <1>6 DEF IInv

LEMMA SendStep == ASSUME IInv, Send PROVE IInv'
<1> USE DEF Send, rows, memory, history
<1>1. TypeOK'
  BY Numbers DEF IInv, TypeOK, Items, ItemStatus, Final, ConfStatus, PC, CurrentInv, Working
<1>2. MemberInv' /\ IndexInv'
  <2>1. cur \in Items /\ item[cur] = "executing"
    BY DEF IInv, CurrentInv, Working
  <2>2. IndexInv'
    BY DEF IInv, IndexInv
  <2>3. MemberInv'
    BY <2>1 DEF IInv, TypeOK, MemberInv, Done
  <2> QED
    BY <2>2, <2>3
<1>3. QueueInv'
  BY Numbers DEF IInv, TypeOK, Items, Final, IndexInv, QueueInv, CurrentInv, Done, Working, Active
<1>4. CurrentInv'
  BY Numbers DEF IInv, TypeOK, Items, Final, MemberInv, CurrentInv, Working, Effect
<1>5. OutcomeInv' /\ BatchInv'
  BY Numbers DEF IInv, TypeOK, Items, Final, ConfStatus, MemberInv, QueueInv, CurrentInv,
     OutcomeInv, BatchInv, Done, Working, Active
<1>6. MembersAreTruthful' /\ BatchIsTruthful'
  BY DEF IInv, TypeOK, Final, Items, MemberInv, QueueInv, CurrentInv, BatchInv,
     MembersAreTruthful, BatchIsTruthful, Effect, Working, Active
<1> QED
  BY <1>1, <1>2, <1>3, <1>4, <1>5, <1>6 DEF IInv

LEMMA AnswerStep == ASSUME IInv, NEW a \in Final, Answer(a) PROVE IInv'
<1> USE DEF Answer, rows, memory, history
<1>1. TypeOK'
  <2>1. Effect[a] \in {"none", "applied", "partly", "unknown"}
    BY DEF Effect, Final
  <2> QED
    BY <2>1, Numbers DEF IInv, TypeOK, PC, CurrentInv, Working
<1>2. MemberInv' /\ IndexInv'
  <2>1. cur \in Items /\ item[cur] = "executing"
    BY DEF IInv, CurrentInv, Working
  <2>2. IndexInv'
    BY DEF IInv, IndexInv
  <2>3. MemberInv'
    BY <2>1 DEF IInv, TypeOK, MemberInv, Done
  <2> QED
    BY <2>2, <2>3
<1>3. QueueInv'
  BY Numbers DEF IInv, TypeOK, Items, Final, IndexInv, QueueInv, CurrentInv, Done, Working, Active
<1>4. CurrentInv'
  BY Numbers DEF IInv, TypeOK, Items, Final, MemberInv, CurrentInv, Working, Effect
<1>5. OutcomeInv' /\ BatchInv'
  BY Numbers DEF IInv, TypeOK, Items, Final, ConfStatus, MemberInv, QueueInv, CurrentInv,
     OutcomeInv, BatchInv, Done, Working, Active
<1>6. MembersAreTruthful' /\ BatchIsTruthful'
  BY DEF IInv, TypeOK, Final, Items, MemberInv, QueueInv, CurrentInv, BatchInv,
     MembersAreTruthful, BatchIsTruthful, Effect, Working, Active
<1> QED
  BY <1>1, <1>2, <1>3, <1>4, <1>5, <1>6 DEF IInv

LEMMA SettleStep == ASSUME IInv, Settle PROVE IInv'
<1> USE DEF Settle, rows, memory, history
<1>1. TypeOK'
  BY Numbers DEF IInv, TypeOK, Items, ItemStatus, Final, ConfStatus, PC, CurrentInv, Working
<1>2. MemberInv' /\ IndexInv'
  BY Numbers DEF IInv, TypeOK, Items, ItemStatus, Final, MemberInv, IndexInv, QueueInv,
     CurrentInv, Done, Working, Active
<1>3. QueueInv'
  BY Numbers DEF IInv, TypeOK, Items, Final, IndexInv, QueueInv, CurrentInv, Done, Working, Active
<1>4. CurrentInv'
  BY Numbers DEF IInv, TypeOK, Items, Final, MemberInv, CurrentInv, Working, Effect
<1>5. OutcomeInv' /\ BatchInv'
  BY Numbers DEF IInv, TypeOK, Items, Final, ConfStatus, MemberInv, QueueInv, CurrentInv,
     OutcomeInv, BatchInv, Done, Working, Active
<1>6. MembersAreTruthful' /\ BatchIsTruthful'
  <2>1. cur \in Items /\ answer \in Final /\ truth[cur] = Effect[answer]
    BY DEF IInv, CurrentInv, Working
  <2>2. ASSUME NEW i \in Items
        PROVE  conf'[i] = conf[i] \/ (i = cur /\ conf'[i] = answer)
    BY DEF IInv, TypeOK
  <2>3. MembersAreTruthful'
    BY <2>1, <2>2 DEF IInv, MembersAreTruthful, Effect, Final
  <2>4. BatchIsTruthful'
    BY DEF IInv, BatchInv, BatchIsTruthful, Active, Working
  <2> QED
    BY <2>3, <2>4
<1> QED
  BY <1>1, <1>2, <1>3, <1>4, <1>5, <1>6 DEF IInv

LEMMA RecordItemStep == ASSUME IInv, RecordItem PROVE IInv'
<1> USE DEF RecordItem, rows, memory, history
<1>1. TypeOK'
  BY Numbers DEF IInv, TypeOK, Items, ItemStatus, Final, ConfStatus, PC, CurrentInv, Working
<1>2. MemberInv' /\ IndexInv'
  BY Numbers DEF IInv, TypeOK, Items, ItemStatus, Final, MemberInv, IndexInv, QueueInv,
     CurrentInv, Done, Working, Active
<1>3. QueueInv'
  BY Numbers DEF IInv, TypeOK, Items, Final, IndexInv, QueueInv, CurrentInv, Done, Working, Active
<1>4. CurrentInv'
  BY Numbers DEF IInv, TypeOK, Items, Final, MemberInv, CurrentInv, Working, Effect
<1>5. OutcomeInv' /\ BatchInv'
  BY Numbers DEF IInv, TypeOK, Items, Final, ConfStatus, MemberInv, QueueInv, CurrentInv,
     OutcomeInv, BatchInv, Done, Working, Active
<1>6. MembersAreTruthful' /\ BatchIsTruthful'
  BY DEF IInv, TypeOK, Final, Items, MemberInv, QueueInv, CurrentInv, BatchInv,
     MembersAreTruthful, BatchIsTruthful, Effect, Working, Active
<1> QED
  BY <1>1, <1>2, <1>3, <1>4, <1>5, <1>6 DEF IInv

LEMMA AdvanceStep == ASSUME IInv, Advance PROVE IInv'
<1> USE DEF Advance, rows, memory, history
<1>1. TypeOK'
  BY Numbers DEF IInv, TypeOK, Items, ItemStatus, Final, ConfStatus, PC, CurrentInv, Working
<1>2. MemberInv' /\ IndexInv'
  BY Numbers DEF IInv, TypeOK, Items, ItemStatus, Final, MemberInv, IndexInv, QueueInv,
     CurrentInv, Done, Working, Active
<1>3. QueueInv'
  BY Numbers DEF IInv, TypeOK, Items, Final, IndexInv, QueueInv, CurrentInv, Done, Working, Active
<1>4. CurrentInv'
  BY Numbers DEF IInv, TypeOK, Items, Final, MemberInv, CurrentInv, Working, Effect
<1>5. OutcomeInv' /\ BatchInv'
  BY Numbers DEF IInv, TypeOK, Items, Final, ConfStatus, MemberInv, QueueInv, CurrentInv,
     OutcomeInv, BatchInv, Done, Working, Active
<1>6. MembersAreTruthful' /\ BatchIsTruthful'
  BY DEF IInv, TypeOK, Final, Items, MemberInv, QueueInv, CurrentInv, BatchInv,
     MembersAreTruthful, BatchIsTruthful, Effect, Working, Active
<1> QED
  BY <1>1, <1>2, <1>3, <1>4, <1>5, <1>6 DEF IInv

LEMMA CancelRestStep == ASSUME IInv, CancelRest PROVE IInv'
<1> USE DEF CancelRest, Closed, rows, memory, history
<1>1. TypeOK'
  BY Numbers DEF IInv, TypeOK, Items, ItemStatus, Final, ConfStatus, PC, CurrentInv, Working
<1>2. MemberInv' /\ IndexInv'
  BY Numbers DEF IInv, TypeOK, Items, ItemStatus, Final, MemberInv, IndexInv, QueueInv,
     CurrentInv, Done, Working, Active
<1>3. QueueInv'
  <2>1. ASSUME NEW i \in Items, item[i] = "pending"
        PROVE  i > cur
    <3>1. i # cur /\ ~(i < cur)
      BY <2>1 DEF IInv, QueueInv, Active, Done
    <3> QED
      BY <3>1, Numbers DEF IInv, TypeOK, Items
  <2>2. \A i \in Items : item'[i] # "pending"
    BY <2>1 DEF IInv, TypeOK
  <2> QED
    BY <2>2 DEF QueueInv, Active, Working
<1>4. CurrentInv'
  BY Numbers DEF IInv, TypeOK, Items, Final, MemberInv, CurrentInv, Working, Effect
<1>5. OutcomeInv' /\ BatchInv'
  BY Numbers DEF IInv, TypeOK, Items, Final, ConfStatus, MemberInv, QueueInv, CurrentInv,
     OutcomeInv, BatchInv, Done, Working, Active
<1>6. MembersAreTruthful' /\ BatchIsTruthful'
  BY DEF IInv, TypeOK, Final, Items, MemberInv, QueueInv, CurrentInv, BatchInv,
     MembersAreTruthful, BatchIsTruthful, Effect, Working, Active
<1> QED
  BY <1>1, <1>2, <1>3, <1>4, <1>5, <1>6 DEF IInv

LEMMA MarkUnknownStep == ASSUME IInv, MarkUnknown PROVE IInv'
<1> USE DEF MarkUnknown, rows, memory, history
<1>1. TypeOK'
  BY Numbers DEF IInv, TypeOK, Items, ItemStatus, Final, ConfStatus, PC, CurrentInv, Working
<1>2. MemberInv' /\ IndexInv'
  BY Numbers DEF IInv, TypeOK, Items, ItemStatus, Final, MemberInv, IndexInv, QueueInv,
     CurrentInv, Done, Working, Active
<1>3. QueueInv'
  BY Numbers DEF IInv, TypeOK, Items, Final, IndexInv, QueueInv, CurrentInv, Done, Working, Active
<1>4. CurrentInv'
  BY Numbers DEF IInv, TypeOK, Items, Final, MemberInv, CurrentInv, Working, Effect
<1>5. OutcomeInv' /\ BatchInv'
  BY Numbers DEF IInv, TypeOK, Items, Final, ConfStatus, MemberInv, QueueInv, CurrentInv,
     OutcomeInv, BatchInv, Done, Working, Active
<1>6. MembersAreTruthful' /\ BatchIsTruthful'
  BY DEF IInv, TypeOK, Final, Items, MemberInv, QueueInv, CurrentInv, BatchInv,
     MembersAreTruthful, BatchIsTruthful, Effect, Working, Active
<1> QED
  BY <1>1, <1>2, <1>3, <1>4, <1>5, <1>6 DEF IInv

\* summarizeBatchStatus is defined on every set of outcomes, and calls a batch
\* succeeded or failed only when that is all there is.
LEMMA SummaryChoice ==
  ASSUME NEW o, o \subseteq Final
  PROVE  /\ Summary(o) \in Final
         /\ Summary(o) = "succeeded" => o = {"succeeded"}
         /\ Summary(o) = "definitive_failed" => o \subseteq {"definitive_failed"}
<1>1. CASE "outcome_unknown" \in o
  BY <1>1 DEF Summary, Final
<1>2. CASE "outcome_unknown" \notin o /\ "partial" \in o
  BY <1>2 DEF Summary, Final
<1>3. CASE "outcome_unknown" \notin o /\ "partial" \notin o
  <2>1. o = {"succeeded", "definitive_failed"} \/ o \subseteq {"definitive_failed"} \/ o = {"succeeded"}
    BY <1>3 DEF Final
  <2> QED
    BY <1>3, <2>1 DEF Summary, Final
<1> QED
  BY <1>1, <1>2, <1>3

LEMMA SummariseStep == ASSUME IInv, Summarise PROVE IInv'
<1> USE DEF Summarise, rows, memory, history
<1>0. /\ AllOutcomes \subseteq Final
      /\ Summary(AllOutcomes) \in Final
      /\ Summary(AllOutcomes) = "succeeded" => AllOutcomes = {"succeeded"}
      /\ Summary(AllOutcomes) = "definitive_failed" => AllOutcomes \subseteq {"definitive_failed"}
  <2>1. AllOutcomes \subseteq Final
    BY DEF IInv, TypeOK, AllOutcomes, Replay, Final
  <2>2. Summary(AllOutcomes) \in Final
    BY <2>1, SummaryChoice
  <2> QED
    BY <2>1, SummaryChoice
<1>1. TypeOK'
  BY <1>0, Numbers DEF IInv, TypeOK, ConfStatus, PC
<1>2. MemberInv' /\ IndexInv'
  BY Numbers DEF IInv, TypeOK, Items, ItemStatus, Final, MemberInv, IndexInv, QueueInv,
     CurrentInv, Done, Working, Active
<1>a. \A i \in Items : i < cur /\ item[i] \in Done
  BY Numbers DEF IInv, TypeOK, Items, QueueInv, Active
<1>3. QueueInv'
  BY <1>a DEF QueueInv, Done, Working, Active
<1>4. CurrentInv'
  BY Numbers DEF IInv, TypeOK, Items, Final, MemberInv, CurrentInv, Working, Effect
<1>5. OutcomeInv' /\ BatchInv'
  BY <1>a DEF OutcomeInv, BatchInv, Done, Working, Active
<1>6. MembersAreTruthful' /\ BatchIsTruthful'
  <2>1. ASSUME NEW i \in Items, conf[i] \notin {"executing", "outcome_unknown"}
        PROVE  conf[i] \in Final /\ conf[i] \in AllOutcomes
    <3>1. i < cur /\ item[i] \in Done
      BY Numbers DEF IInv, TypeOK, Items, QueueInv, Active
    <3>2. conf[i] \in Final \ {"outcome_unknown"}
      BY <2>1, <3>1 DEF IInv, MemberInv
    <3>3. CASE i <= seen.index
      <4>1. i \in 1 .. seen.index
        BY <3>3 DEF IInv, TypeOK, Items
      <4>2. Replay(i) = conf[i]
        BY <3>1, <3>2 DEF Replay, Done, Final
      <4> QED
        BY <4>1, <4>2, <3>2 DEF AllOutcomes, Final
    <3>4. CASE seen.index < i
      <4>1. outcomes[i] = conf[i]
        BY <3>1, <3>2, <3>4 DEF IInv, OutcomeInv, Active
      <4> QED
        BY <4>1, <3>2 DEF AllOutcomes, Final
    <3> QED
      BY <3>3, <3>4 DEF IInv, TypeOK, Items
  <2>2. MembersAreTruthful'
    BY DEF IInv, MembersAreTruthful
  <2>3. BatchIsTruthful'
    BY <1>0, <2>1 DEF IInv, MembersAreTruthful, BatchIsTruthful
  <2> QED
    BY <2>2, <2>3
<1> QED
  BY <1>1, <1>2, <1>3, <1>4, <1>5, <1>6 DEF IInv

LEMMA FinishStep == ASSUME IInv, Finish PROVE IInv'
<1> USE DEF Finish, Ends, Blank, Closed, rows, memory, history
<1>1. TypeOK'
  BY Numbers DEF IInv, TypeOK, Items, ItemStatus, Final, ConfStatus, PC, CurrentInv, Working
<1>2. MemberInv' /\ IndexInv'
  BY Numbers DEF IInv, TypeOK, Items, ItemStatus, Final, MemberInv, IndexInv, QueueInv,
     CurrentInv, Done, Working, Active
<1>3. QueueInv'
  BY Numbers DEF IInv, TypeOK, Items, Final, IndexInv, QueueInv, CurrentInv, Done, Working, Active
<1>4. CurrentInv'
  BY Numbers DEF IInv, TypeOK, Items, Final, MemberInv, CurrentInv, Working, Effect
<1>5. OutcomeInv' /\ BatchInv'
  BY Numbers DEF IInv, TypeOK, Items, Final, ConfStatus, MemberInv, QueueInv, CurrentInv,
     OutcomeInv, BatchInv, Done, Working, Active
<1>6. MembersAreTruthful' /\ BatchIsTruthful'
  BY DEF IInv, TypeOK, Final, Items, MemberInv, QueueInv, CurrentInv, BatchInv,
     MembersAreTruthful, BatchIsTruthful, Effect, Working, Active
<1> QED
  BY <1>1, <1>2, <1>3, <1>4, <1>5, <1>6 DEF IInv

LEMMA CancelAllStep == ASSUME IInv, CancelAll PROVE IInv'
<1> USE DEF CancelAll, Closed, rows, memory, history
<1>1. TypeOK'
  BY Numbers DEF IInv, TypeOK, Items, ItemStatus, Final, ConfStatus, PC, CurrentInv, Working
<1>2. MemberInv' /\ IndexInv'
  BY Numbers DEF IInv, TypeOK, Items, ItemStatus, Final, MemberInv, IndexInv, QueueInv,
     CurrentInv, Done, Working, Active
<1>3. QueueInv'
  BY Numbers DEF IInv, TypeOK, Items, Final, IndexInv, QueueInv, CurrentInv, Done, Working, Active
<1>4. CurrentInv'
  BY Numbers DEF IInv, TypeOK, Items, Final, MemberInv, CurrentInv, Working, Effect
<1>5. OutcomeInv' /\ BatchInv'
  BY Numbers DEF IInv, TypeOK, Items, Final, ConfStatus, MemberInv, QueueInv, CurrentInv,
     OutcomeInv, BatchInv, Done, Working, Active
<1>6. MembersAreTruthful' /\ BatchIsTruthful'
  BY DEF IInv, TypeOK, Final, Items, MemberInv, QueueInv, CurrentInv, BatchInv,
     MembersAreTruthful, BatchIsTruthful, Effect, Working, Active
<1> QED
  BY <1>1, <1>2, <1>3, <1>4, <1>5, <1>6 DEF IInv

LEMMA NextMessageStep == ASSUME IInv, NextMessage PROVE IInv'
<1> USE DEF NextMessage, Closed, rows, memory, history
<1>1. TypeOK'
  BY Numbers DEF IInv, TypeOK, Items, ItemStatus, Final, ConfStatus, PC, CurrentInv, Working
<1>2. MemberInv' /\ IndexInv'
  BY Numbers DEF IInv, TypeOK, Items, ItemStatus, Final, MemberInv, IndexInv, QueueInv,
     CurrentInv, Done, Working, Active
<1>3. QueueInv'
  BY Numbers DEF IInv, TypeOK, Items, Final, IndexInv, QueueInv, CurrentInv, Done, Working, Active
<1>4. CurrentInv'
  BY Numbers DEF IInv, TypeOK, Items, Final, MemberInv, CurrentInv, Working, Effect
<1>5. OutcomeInv' /\ BatchInv'
  BY Numbers DEF IInv, TypeOK, Items, Final, ConfStatus, MemberInv, QueueInv, CurrentInv,
     OutcomeInv, BatchInv, Done, Working, Active
<1>6. MembersAreTruthful' /\ BatchIsTruthful'
  BY DEF IInv, TypeOK, Final, Items, MemberInv, QueueInv, CurrentInv, BatchInv,
     MembersAreTruthful, BatchIsTruthful, Effect, Working, Active
<1> QED
  BY <1>1, <1>2, <1>3, <1>4, <1>5, <1>6 DEF IInv

LEMMA RetireMembersStep == ASSUME IInv, RetireMembers PROVE IInv'
<1> USE DEF RetireMembers, Closed, Awaiting, rows, memory, history
<1>1. TypeOK'
  BY Numbers DEF IInv, TypeOK, Items, ItemStatus, Final, ConfStatus, PC, CurrentInv, Working
<1>2. MemberInv' /\ IndexInv'
  BY Numbers DEF IInv, TypeOK, Items, ItemStatus, Final, MemberInv, IndexInv, QueueInv,
     CurrentInv, Done, Working, Active
<1>3. QueueInv'
  BY Numbers DEF IInv, TypeOK, Items, Final, IndexInv, QueueInv, CurrentInv, Done, Working, Active
<1>4. CurrentInv'
  BY Numbers DEF IInv, TypeOK, Items, Final, MemberInv, CurrentInv, Working, Effect
<1>5. OutcomeInv' /\ BatchInv'
  BY Numbers DEF IInv, TypeOK, Items, Final, ConfStatus, MemberInv, QueueInv, CurrentInv,
     OutcomeInv, BatchInv, Done, Working, Active
<1>6. MembersAreTruthful' /\ BatchIsTruthful'
  BY DEF IInv, TypeOK, Final, Items, MemberInv, QueueInv, CurrentInv, BatchInv,
     MembersAreTruthful, BatchIsTruthful, Effect, Working, Active
<1> QED
  BY <1>1, <1>2, <1>3, <1>4, <1>5, <1>6 DEF IInv

LEMMA RetireBatchStep == ASSUME IInv, RetireBatch PROVE IInv'
<1> USE DEF RetireBatch, Awaiting, rows, memory, history
<1>1. TypeOK'
  BY Numbers DEF IInv, TypeOK, Items, ItemStatus, Final, ConfStatus, PC, CurrentInv, Working
<1>2. MemberInv' /\ IndexInv'
  BY Numbers DEF IInv, TypeOK, Items, ItemStatus, Final, MemberInv, IndexInv, QueueInv,
     CurrentInv, Done, Working, Active
<1>3. QueueInv'
  BY Numbers DEF IInv, TypeOK, Items, Final, IndexInv, QueueInv, CurrentInv, Done, Working, Active
<1>4. CurrentInv'
  BY Numbers DEF IInv, TypeOK, Items, Final, MemberInv, CurrentInv, Working, Effect
<1>5. OutcomeInv' /\ BatchInv'
  BY Numbers DEF IInv, TypeOK, Items, Final, ConfStatus, MemberInv, QueueInv, CurrentInv,
     OutcomeInv, BatchInv, Done, Working, Active
<1>6. MembersAreTruthful' /\ BatchIsTruthful'
  BY DEF IInv, TypeOK, Final, Items, MemberInv, QueueInv, CurrentInv, BatchInv,
     MembersAreTruthful, BatchIsTruthful, Effect, Working, Active
<1> QED
  BY <1>1, <1>2, <1>3, <1>4, <1>5, <1>6 DEF IInv

LEMMA ExpiresStep == ASSUME IInv, Expires PROVE IInv'
<1> USE DEF Expires, rows, memory, history
<1>1. TypeOK'
  BY Numbers DEF IInv, TypeOK, Items, ItemStatus, Final, ConfStatus, PC, CurrentInv, Working
<1>2. MemberInv' /\ IndexInv'
  BY Numbers DEF IInv, TypeOK, Items, ItemStatus, Final, MemberInv, IndexInv, QueueInv,
     CurrentInv, Done, Working, Active
<1>3. QueueInv'
  BY Numbers DEF IInv, TypeOK, Items, Final, IndexInv, QueueInv, CurrentInv, Done, Working, Active
<1>4. CurrentInv'
  BY Numbers DEF IInv, TypeOK, Items, Final, MemberInv, CurrentInv, Working, Effect
<1>5. OutcomeInv' /\ BatchInv'
  BY Numbers DEF IInv, TypeOK, Items, Final, ConfStatus, MemberInv, QueueInv, CurrentInv,
     OutcomeInv, BatchInv, Done, Working, Active
<1>6. MembersAreTruthful' /\ BatchIsTruthful'
  BY DEF IInv, TypeOK, Final, Items, MemberInv, QueueInv, CurrentInv, BatchInv,
     MembersAreTruthful, BatchIsTruthful, Effect, Working, Active
<1> QED
  BY <1>1, <1>2, <1>3, <1>4, <1>5, <1>6 DEF IInv

LEMMA CrashStep == ASSUME IInv, Crash PROVE IInv'
<1> USE DEF Crash, Blank, rows, memory, history
<1>1. TypeOK'
  BY Numbers DEF IInv, TypeOK, Items, ItemStatus, Final, ConfStatus, PC, CurrentInv, Working
<1>2. MemberInv' /\ IndexInv'
  BY Numbers DEF IInv, TypeOK, Items, ItemStatus, Final, MemberInv, IndexInv, QueueInv,
     CurrentInv, Done, Working, Active
<1>3. QueueInv'
  BY Numbers DEF IInv, TypeOK, Items, Final, IndexInv, QueueInv, CurrentInv, Done, Working, Active
<1>4. CurrentInv'
  BY Numbers DEF IInv, TypeOK, Items, Final, MemberInv, CurrentInv, Working, Effect
<1>5. OutcomeInv' /\ BatchInv'
  BY Numbers DEF IInv, TypeOK, Items, Final, ConfStatus, MemberInv, QueueInv, CurrentInv,
     OutcomeInv, BatchInv, Done, Working, Active
<1>6. MembersAreTruthful' /\ BatchIsTruthful'
  BY DEF IInv, TypeOK, Final, Items, MemberInv, QueueInv, CurrentInv, BatchInv,
     MembersAreTruthful, BatchIsTruthful, Effect, Working, Active
<1> QED
  BY <1>1, <1>2, <1>3, <1>4, <1>5, <1>6 DEF IInv

LEMMA RestartStep == ASSUME IInv, Restart PROVE IInv'
<1> USE DEF Restart, RecoverBatch, Rest, Stops, Executing, rows, memory, history
<1>1. TypeOK'
  <2> DEFINE c == [i \in Items |-> IF conf[i] = "executing" THEN result[i] ELSE conf[i]]
  <2>1. c \in [Items -> ConfStatus]
    BY DEF IInv, TypeOK, MemberInv, ConfStatus, Final
  <2>2. conf' \in [Items -> ConfStatus]
    BY <2>1 DEF ConfStatus
  <2> QED
    BY <2>2, Numbers DEF IInv, TypeOK, ItemStatus, Final, ConfStatus, PC
<1>2. MemberInv' /\ IndexInv'
  BY Numbers DEF IInv, TypeOK, Items, ItemStatus, Final, MemberInv, IndexInv, QueueInv,
     CurrentInv, Done, Working, Active
<1>3. QueueInv'
  BY Numbers DEF IInv, TypeOK, Items, Final, IndexInv, QueueInv, CurrentInv, Done, Working, Active
<1>4. CurrentInv'
  BY Numbers DEF IInv, TypeOK, Items, Final, MemberInv, CurrentInv, Working, Effect
<1>5. OutcomeInv' /\ BatchInv'
  BY Numbers DEF IInv, TypeOK, Items, Final, ConfStatus, MemberInv, QueueInv, CurrentInv,
     OutcomeInv, BatchInv, Done, Working, Active
<1>6. MembersAreTruthful' /\ BatchIsTruthful'
  BY DEF IInv, TypeOK, Final, Items, MemberInv, QueueInv, CurrentInv, BatchInv,
     MembersAreTruthful, BatchIsTruthful, Effect, Working, Active
<1> QED
  BY <1>1, <1>2, <1>3, <1>4, <1>5, <1>6 DEF IInv

LEMMA RestartFailsStep == ASSUME IInv, RestartFails PROVE IInv'
<1> USE DEF RestartFails, rows, memory, history
<1>1. TypeOK'
  BY Numbers DEF IInv, TypeOK, Items, ItemStatus, Final, ConfStatus, PC, CurrentInv, Working
<1>2. MemberInv' /\ IndexInv'
  BY Numbers DEF IInv, TypeOK, Items, ItemStatus, Final, MemberInv, IndexInv, QueueInv,
     CurrentInv, Done, Working, Active
<1>3. QueueInv'
  BY Numbers DEF IInv, TypeOK, Items, Final, IndexInv, QueueInv, CurrentInv, Done, Working, Active
<1>4. CurrentInv'
  BY Numbers DEF IInv, TypeOK, Items, Final, MemberInv, CurrentInv, Working, Effect
<1>5. OutcomeInv' /\ BatchInv'
  BY Numbers DEF IInv, TypeOK, Items, Final, ConfStatus, MemberInv, QueueInv, CurrentInv,
     OutcomeInv, BatchInv, Done, Working, Active
<1>6. MembersAreTruthful' /\ BatchIsTruthful'
  BY DEF IInv, TypeOK, Final, Items, MemberInv, QueueInv, CurrentInv, BatchInv,
     MembersAreTruthful, BatchIsTruthful, Effect, Working, Active
<1> QED
  BY <1>1, <1>2, <1>3, <1>4, <1>5, <1>6 DEF IInv

LEMMA StutterStep == ASSUME IInv, UNCHANGED vars PROVE IInv'
<1> USE DEF vars, rows, memory, history
<1>1. TypeOK' /\ MemberInv' /\ IndexInv'
  BY DEF IInv, TypeOK, MemberInv, IndexInv
<1>2. QueueInv' /\ CurrentInv' /\ OutcomeInv' /\ BatchInv'
  BY DEF IInv, QueueInv, CurrentInv, OutcomeInv, BatchInv
<1>3. MembersAreTruthful' /\ BatchIsTruthful'
  BY DEF IInv, MembersAreTruthful, BatchIsTruthful
<1> QED
  BY <1>1, <1>2, <1>3 DEF IInv

LEMMA InvNext == IInv /\ [Next]_vars => IInv'
<1> SUFFICES ASSUME IInv, [Next]_vars PROVE IInv'
  OBVIOUS
<1>1. CASE ConfirmExpired \/ ConfirmStarts
  BY <1>1, ConfirmExpiredStep, ConfirmStartsStep
<1>2. CASE Request
  <2>1. CASE Unauthorised \/ ClaimBatch \/ ClaimLost \/ ReplayItem \/ RejectItem
    BY <2>1, UnauthorisedStep, ClaimBatchStep, ClaimLostStep, ReplayItemStep, RejectItemStep
  <2>2. CASE ClaimItem \/ StartItem \/ DispatchThrows \/ NotSent \/ Send
    BY <2>2, ClaimItemStep, StartItemStep, DispatchThrowsStep, NotSentStep, SendStep
  <2>3. CASE (\E a \in Final : Answer(a)) \/ Settle \/ RecordItem \/ Advance
    BY <2>3, AnswerStep, SettleStep, RecordItemStep, AdvanceStep
  <2>4. CASE CancelRest \/ MarkUnknown \/ Summarise \/ Finish
    BY <2>4, CancelRestStep, MarkUnknownStep, SummariseStep, FinishStep
  <2> QED
    BY <1>2, <2>1, <2>2, <2>3, <2>4 DEF Request
<1>3. CASE CancelAll \/ NextMessage \/ RetireMembers \/ RetireBatch \/ Expires
  BY <1>3, CancelAllStep, NextMessageStep, RetireMembersStep, RetireBatchStep, ExpiresStep
<1>4. CASE Crash \/ Restart \/ RestartFails
  BY <1>4, CrashStep, RestartStep, RestartFailsStep
<1>5. CASE UNCHANGED vars
  BY <1>5, StutterStep
<1> QED
  BY <1>1, <1>2, <1>3, <1>4, <1>5 DEF Next

LEMMA Invariance == Spec => []IInv
<1> QED
  BY InvInit, InvNext, PTL DEF Spec

(* The rows of a batch and the request that works on it have their types.  *)
THEOREM TypesHold == Spec => []TypeOK
<1>1. IInv => TypeOK
  BY DEF IInv
<1> QED
  BY <1>1, Invariance, PTL

(* Whatever is resumed after a crash, replayed, expired or cancelled: what *)
(* the members and the batch of confirmBatch are shown as is true of what  *)
(* was sent.                                                               *)
THEOREM OutcomesStayTruthful == Spec => []OutcomesAreTruthful
<1>1. IInv => OutcomesAreTruthful
  BY DEF IInv, OutcomesAreTruthful
<1> QED
  BY <1>1, Invariance, PTL

(* Only Send sends; the member it sends was claimed by this very request.  *)
LEMMA SendsAreFirst ==
  ASSUME IInv, Send
  PROVE  \A j \in Items : sent'[j] # sent[j] =>
            /\ sent[j] = 0
            /\ run # "completed"
            /\ \A i \in 1 .. j - 1 : item[i] \notin {"pending", "executing"}
<1>1. SUFFICES ASSUME NEW j \in Items, sent'[j] # sent[j]
      PROVE  /\ sent[j] = 0
             /\ run # "completed"
             /\ \A i \in 1 .. j - 1 : item[i] \notin {"pending", "executing"}
  OBVIOUS
<1>2. j = cur
  BY <1>1 DEF Send, IInv, TypeOK
<1>3. sent[j] = 0 /\ run # "completed"
  BY <1>2 DEF Send, IInv, CurrentInv, MemberInv, Working
<1>4. ASSUME NEW i \in 1 .. j - 1
      PROVE  item[i] \notin {"pending", "executing"}
  <2>1. i \in Items /\ i < cur
    BY <1>2, Numbers DEF Items
  <2> QED
    BY <2>1 DEF Send, IInv, QueueInv, Active, Working, Done
<1> QED
  BY <1>3, <1>4

(* Each member is dispatched at most once, in the order of the batch, each *)
(* earlier one being recorded, and none after the run was completed.       *)
THEOREM DispatchStaysOrderly == Spec => DispatchIsOrderly
<1> DEFINE Orderly ==
        \A j \in Items : sent'[j] # sent[j] =>
            /\ sent[j] = 0
            /\ run # "completed"
            /\ \A i \in 1 .. j - 1 : item[i] \notin {"pending", "executing"}
<1>1. IInv /\ [Next]_vars => [Orderly]_vars
  <2> SUFFICES ASSUME IInv, [Next]_vars PROVE [Orderly]_vars
    OBVIOUS
  <2>1. CASE Send
    BY <2>1, SendsAreFirst
  <2>2. CASE [Next]_vars /\ ~Send
    <3>1. sent' = sent
      BY <2>2 DEF Next, Request, vars, rows, memory, history, ConfirmExpired, ConfirmStarts,
         Unauthorised,
                  ClaimBatch, ClaimLost, ReplayItem, RejectItem, ClaimItem, StartItem, DispatchThrows, NotSent,
                  Answer, Settle, RecordItem, Advance, CancelRest, MarkUnknown, Summarise, Finish, CancelAll,
                  NextMessage, RetireMembers, RetireBatch, Expires, Crash, Restart, RestartFails
    <3> QED
      BY <3>1
  <2> QED
    BY <2>1, <2>2
<1> QED
  BY <1>1, Invariance, PTL DEF Spec, DispatchIsOrderly
=============================================================================
