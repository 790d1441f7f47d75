----------------------------- MODULE ChatProofs -----------------------------
(***************************************************************************)
(* The theorems about a chat request: the ledger of its turn (TurnRuns) is *)
(* truthful, for every number of deliveries, request ids, messages,        *)
(* crashes and faults; and the assistant run that the turn drives          *)
(* (AssistantRun) owns its previews and records what it spends, for every  *)
(* limit, cost and number of crashes.                                      *)
(***************************************************************************)
EXTENDS TurnRuns, AssistantRun, TLAPS

Running == {"claimed", "executing", "begun", "returned", "interrupted", "stored"}

\* One call of the session is handled at a time, and no handler survives the process.
QueueInv ==
    /\ \A c \in Calls : call[c].pc \in Running => fifo # <<>> /\ Head(fifo) = c
    /\ ~up => fifo = <<>>

\* A call that was delivered names a request; only a handled one has an answer.
CallInv == \A c \in Calls :
    /\ call[c].pc # "idle" => call[c].id \in Ids
    /\ call[c].pc = "queued" => call[c].intent \in Intents
    /\ call[c].pc \notin {"stored", "done"} => call[c].told = "none"

\* The row of the request in hand, and the rows nobody has in hand.
RowInv ==
    /\ \A c \in Calls :
         /\ call[c].pc = "claimed" => turn[call[c].id].status = "prepared"
         /\ call[c].pc \in {"executing", "begun", "returned", "interrupted"} =>
              turn[call[c].id].status = "executing"
         /\ call[c].pc = "stored" => turn[call[c].id].status # "executing" \/ call[c].id \in lost
    /\ \A i \in Ids : up /\ turn[i].status = "executing" => InHand(i) \/ i \in lost

\* What was stored and answered is how the turn ended.
EndInv == \A i \in Ids \ pruned :
    /\ turn[i].status \in {"none", "prepared"} => ran[i] = 0 /\ verdict[i] = "none"
    /\ ran[i] <= 1
    /\ verdict[i] = "ok" => "user" \in links[i]
    /\ turn[i].status = "succeeded" \/ turn[i].envelope = "ok" => verdict[i] = "ok"
    /\ turn[i].status = "failed" \/ turn[i].envelope = "failed" => verdict[i] = "failed"
    /\ \A c \in Calls : call[c].id = i =>
         /\ call[c].told = "ok" => verdict[i] = "ok"
         /\ call[c].told = "failed" => verdict[i] = "failed"
         /\ call[c].pc = "executing" => ran[i] = 0 /\ verdict[i] = "none"
         /\ call[c].pc = "begun" => "user" \in links[i] /\ verdict[i] = "none"
         /\ call[c].pc = "returned" => verdict[i] # "none"

IInv == TurnTypeOK /\ QueueInv /\ CallInv /\ RowInv /\ EndInv
-----------------------------------------------------------------------------
LEMMA InvInit == TurnInit => IInv
<1> SUFFICES ASSUME TurnInit PROVE IInv
  OBVIOUS
<1> USE BoundsAssumption DEF TurnInit, Idle, NoRow
<1>1. TurnTypeOK
  BY DEF TurnTypeOK, Routes, Verdicts, CallStates, TurnRows, Told, Pcs, Statuses, Envelopes
<1>2. QueueInv
  BY DEF QueueInv, Running
<1>3. CallInv
  BY DEF CallInv
<1>4. RowInv
  BY DEF RowInv
<1>5. EndInv
  BY DEF EndInv
<1> QED
  BY <1>1, <1>2, <1>3, <1>4, <1>5 DEF IInv

LEMMA CallTyped ==
  ASSUME call \in [Calls -> CallStates], NEW c \in Calls, NEW p \in Pcs, NEW a \in Told
  PROVE  /\ [call EXCEPT ![c].pc = p] \in [Calls -> CallStates]
         /\ [call EXCEPT ![c].pc = p, ![c].told = a] \in [Calls -> CallStates]
<1>1. [call[c] EXCEPT !.pc = p] \in CallStates
  BY DEF CallStates
<1>2. [call[c] EXCEPT !.pc = p, !.told = a] \in CallStates
  BY DEF CallStates
<1> QED
  BY <1>1, <1>2

LEMMA RowTyped ==
  ASSUME turn \in [Ids -> TurnRows], NEW i \in Ids, NEW s \in Statuses, NEW e \in Envelopes
  PROVE  /\ [turn EXCEPT ![i].status = s] \in [Ids -> TurnRows]
         /\ [turn EXCEPT ![i].status = s, ![i].envelope = e] \in [Ids -> TurnRows]
<1>1. [turn[i] EXCEPT !.status = s] \in TurnRows
  BY DEF TurnRows
<1>2. [turn[i] EXCEPT !.status = s, !.envelope = e] \in TurnRows
  BY DEF TurnRows
<1> QED
  BY <1>1, <1>2

\* A call that leaves the queue with answer a, whatever it did before.
LEMMA LeavesStep ==
  ASSUME IInv, NEW c \in Calls, NEW a \in Told,
         fifo # <<>>, Head(fifo) = c, call[c].pc # "idle",
         Leaves(c, a),
         UNCHANGED <<ledger, up, turnHistory, stops>>,
         faults' \in 0 .. MaxFaults, lost \subseteq lost', lost' \subseteq Ids,
         call[c].pc \in Running /\ turn[call[c].id].status = "executing" => call[c].id \in lost',
         call[c].id \notin pruned => /\ a = "ok" => verdict[call[c].id] = "ok"
                                     /\ a = "failed" => verdict[call[c].id] = "failed"
  PROVE  IInv'
<1> DEFINE i == call[c].id
           new == [pc |-> "done", id |-> i, intent |-> "none", route |-> "json", told |-> a]
<1>1. i \in Ids
  BY DEF IInv, CallInv
<1>2. call' = [call EXCEPT ![c] = new]
  BY DEF Leaves, Over
<1>3. call'[c] = new /\ \A d \in Calls : d # c => call'[d] = call[d]
  BY <1>2 DEF IInv, TurnTypeOK
<1>4. TurnTypeOK'
  BY <1>1, <1>2 DEF IInv, TurnTypeOK, Leaves, ledger, turnHistory, Routes, CallStates, Pcs
<1>5. QueueInv'
  BY <1>3 DEF IInv, QueueInv, TurnTypeOK, Leaves, Running
<1>6. CallInv'
  BY <1>1, <1>3 DEF IInv, CallInv
<1>7. RowInv'
  <2>1. \A d \in Calls : call'[d].pc \in Running => call'[d] = call[d]
    BY <1>3 DEF Running
  <2>2. ASSUME NEW j \in Ids, up, turn[j].status = "executing"
        PROVE  InHand(j)' \/ j \in lost'
    BY <1>3, <2>2 DEF IInv, RowInv, InHand, Running
  <2> QED
    BY <1>3, <2>1, <2>2 DEF IInv, RowInv, ledger, Running
<1>8. EndInv'
  BY <1>1, <1>3 DEF IInv, EndInv, ledger, turnHistory
<1> QED
  BY <1>4, <1>5, <1>6, <1>7, <1>8 DEF IInv

LEMMA DeliverStep == ASSUME IInv, NEW c \in Calls, Deliver(c) PROVE IInv'
<1>1. TurnTypeOK'
  <2>1. turn' \in [Ids -> TurnRows]
    BY RowTyped DEF IInv, TurnTypeOK, Statuses, Envelopes, CallInv, Deliver, Idle, ledger, turnHistory
  <2>2. call' \in [Calls -> CallStates]
    <3>1. PICK i \in Ids, m \in Intents, r \in Routes :
            call' = [call EXCEPT ![c] = [pc |-> "queued", id |-> i, intent |-> m, route |-> r, told |-> "none"]]
      BY DEF Deliver
    <3>2. [pc |-> "queued", id |-> i, intent |-> m, route |-> r, told |-> "none"] \in CallStates
      BY DEF CallStates, Pcs, Told
    <3> QED
      BY <3>1, <3>2 DEF IInv, TurnTypeOK
  <2>3. \A i \in Ids : turn'[i].envelope # "none" => turn'[i].status \in {"succeeded", "failed", "outcome_unknown"}
    BY DEF IInv, TurnTypeOK, TurnRows, CallInv, RowInv, Running, Deliver, Idle, ledger, turnHistory
  <2> QED
    BY <2>1, <2>2, <2>3 DEF IInv, TurnTypeOK, CallInv, Verdicts, Deliver, Idle, ledger, turnHistory
<1>2. QueueInv'
  <2>1. up /\ up' = up /\ fifo' = Append(fifo, c) /\ fifo \in Seq(Calls)
    BY DEF IInv, TurnTypeOK, Deliver
  <2>2. \A d \in Calls : call'[d].pc \in Running => call[d].pc \in Running
    BY DEF IInv, TurnTypeOK, CallStates, Running, Deliver
  <2>3. fifo # <<>> => Head(fifo') = Head(fifo)
    BY <2>1
  <2> QED
    BY <2>1, <2>2, <2>3 DEF IInv, QueueInv
<1>3. CallInv'
  BY DEF IInv, TurnTypeOK, CallStates, CallInv, Deliver, Idle, ledger, turnHistory
<1>4. RowInv'
  <2>1. call'[c].pc = "queued" /\ \A d \in Calls : d # c => call'[d] = call[d]
    BY DEF IInv, TurnTypeOK, Deliver
  <2>2. call[c].pc = "idle" /\ UNCHANGED <<turn, lost, up>>
    BY DEF Deliver, ledger
  <2>3. \A i \in Ids : InHand(i) => InHand(i)'
    BY <2>1, <2>2 DEF InHand
  <2> QED
    BY <2>1, <2>2, <2>3 DEF IInv, RowInv
<1>5. EndInv'
  BY DEF IInv, TurnTypeOK, CallStates, TurnRows, Verdicts, QueueInv, CallInv, RowInv, EndInv,
     Running, Deliver, Idle, ledger, turnHistory
<1> QED
  BY <1>1, <1>2, <1>3, <1>4, <1>5 DEF IInv

LEMMA DisconnectStep == ASSUME IInv, NEW c \in Calls, Disconnect(c) PROVE IInv'
<1>1. TurnTypeOK'
  <2>1. turn' \in [Ids -> TurnRows]
    BY RowTyped DEF IInv, TurnTypeOK, Statuses, Envelopes, CallInv, Disconnect, ledger, turnHistory
  <2>2. call' \in [Calls -> CallStates]
    BY CallTyped DEF IInv, TurnTypeOK, Pcs, Told, Verdicts, EndInv, CallInv, Disconnect, ledger, turnHistory
  <2>3. \A i \in Ids : turn'[i].envelope # "none" => turn'[i].status \in {"succeeded", "failed", "outcome_unknown"}
    BY DEF IInv, TurnTypeOK, TurnRows, CallInv, RowInv, Running, Disconnect, ledger, turnHistory
  <2> QED
    BY <2>1, <2>2, <2>3 DEF IInv, TurnTypeOK, CallInv, Verdicts, Disconnect, ledger, turnHistory
<1>2. QueueInv'
  BY DEF IInv, TurnTypeOK, CallStates, TurnRows, QueueInv, Running, Disconnect, ledger, turnHistory
<1>3. CallInv'
  BY DEF IInv, TurnTypeOK, CallStates, CallInv, Disconnect, ledger, turnHistory
<1>4. RowInv'
  <2>1. call'[c].pc = "left" /\ \A d \in Calls : d # c => call'[d] = call[d]
    BY DEF IInv, TurnTypeOK, CallStates, Disconnect
  <2>2. call[c].pc = "queued" /\ UNCHANGED <<turn, lost, up>>
    BY DEF Disconnect, ledger
  <2>3. \A i \in Ids : InHand(i) => InHand(i)'
    BY <2>1, <2>2 DEF InHand
  <2> QED
    BY <2>1, <2>2, <2>3 DEF IInv, RowInv
<1>5. EndInv'
  BY DEF IInv, TurnTypeOK, CallStates, TurnRows, Verdicts, QueueInv, CallInv, RowInv, EndInv,
     Running, Disconnect, ledger, turnHistory
<1> QED
  BY <1>1, <1>2, <1>3, <1>4, <1>5 DEF IInv

LEMMA ClaimTurnRunStep == ASSUME IInv, NEW c \in Calls, ClaimTurnRun(c) PROVE IInv'
<1>1. TurnTypeOK'
  <2>1. turn' \in [Ids -> TurnRows]
    BY DEF IInv, TurnTypeOK, TurnRows, Statuses, Envelopes, CallInv, ClaimTurnRun, Holds,
       Unclaimed, TurnRow, NoRow, ledger, turnHistory
  <2>2. call' \in [Calls -> CallStates]
    BY ZenonT(30), CallTyped DEF IInv, TurnTypeOK, Pcs, Told, Verdicts, EndInv, CallInv, ClaimTurnRun, Holds,
       Unclaimed, TurnRow, NoRow, ledger, turnHistory
  <2>3. \A i \in Ids : turn'[i].envelope # "none" => turn'[i].status \in {"succeeded", "failed", "outcome_unknown"}
    BY DEF IInv, TurnTypeOK, TurnRows, CallInv, RowInv, Running, ClaimTurnRun, Holds, Unclaimed,
       TurnRow, NoRow, ledger, turnHistory
  <2> QED
    BY <2>1, <2>2, <2>3 DEF IInv, TurnTypeOK, CallInv, Verdicts, ClaimTurnRun, Holds, Unclaimed,
       TurnRow, NoRow, ledger, turnHistory
<1>2. QueueInv'
  BY DEF IInv, TurnTypeOK, CallStates, TurnRows, QueueInv, Running, ClaimTurnRun, Holds, Unclaimed,
     TurnRow, NoRow, ledger, turnHistory
<1>3. CallInv'
  BY DEF IInv, TurnTypeOK, CallStates, CallInv, ClaimTurnRun, Holds, Unclaimed, TurnRow, NoRow, ledger,
     turnHistory
<1>4. RowInv'
  BY DEF IInv, TurnTypeOK, CallStates, TurnRows, QueueInv, CallInv, RowInv, InHand, Running,
     ClaimTurnRun, Holds, Unclaimed, TurnRow, NoRow, ledger, turnHistory
<1>5. EndInv'
  BY DEF IInv, TurnTypeOK, CallStates, TurnRows, Verdicts, QueueInv, CallInv, RowInv, EndInv,
     Running, ClaimTurnRun, Holds, Unclaimed, TurnRow, NoRow, ledger, turnHistory
<1> QED
  BY <1>1, <1>2, <1>3, <1>4, <1>5 DEF IInv

LEMMA MarkTurnRunExecutingStep == ASSUME IInv, NEW c \in Calls, MarkTurnRunExecuting(c) PROVE IInv'
<1>1. TurnTypeOK'
  <2>1. turn' \in [Ids -> TurnRows]
    BY ZenonT(30), RowTyped DEF IInv, TurnTypeOK, Statuses, Envelopes, CallInv, MarkTurnRunExecuting, Holds,
       ledger, turnHistory
  <2>2. call' \in [Calls -> CallStates]
    BY ZenonT(30), CallTyped DEF IInv, TurnTypeOK, Pcs, Told, Verdicts, EndInv, CallInv, MarkTurnRunExecuting,
       Holds, ledger, turnHistory
  <2>3. \A i \in Ids : turn'[i].envelope # "none" => turn'[i].status \in {"succeeded", "failed", "outcome_unknown"}
    BY DEF IInv, TurnTypeOK, TurnRows, CallInv, RowInv, Running, MarkTurnRunExecuting, Holds,
       ledger, turnHistory
  <2> QED
    BY <2>1, <2>2, <2>3 DEF IInv, TurnTypeOK, CallInv, Verdicts, MarkTurnRunExecuting, Holds,
       ledger, turnHistory
<1>2. QueueInv'
  BY DEF IInv, TurnTypeOK, CallStates, TurnRows, QueueInv, Running, MarkTurnRunExecuting, Holds,
     ledger, turnHistory
<1>3. CallInv'
  BY DEF IInv, TurnTypeOK, CallStates, CallInv, MarkTurnRunExecuting, Holds, ledger, turnHistory
<1>4. RowInv'
  BY DEF IInv, TurnTypeOK, CallStates, TurnRows, QueueInv, CallInv, RowInv, InHand, Running,
     MarkTurnRunExecuting, Holds, ledger, turnHistory
<1>5. EndInv'
  BY DEF IInv, TurnTypeOK, CallStates, TurnRows, Verdicts, QueueInv, CallInv, RowInv, EndInv,
     Running, MarkTurnRunExecuting, Holds, ledger, turnHistory
<1> QED
  BY <1>1, <1>2, <1>3, <1>4, <1>5 DEF IInv

LEMMA TurnRefusedStep == ASSUME IInv, NEW c \in Calls, TurnRefused(c) PROVE IInv'
<1>1. TurnTypeOK'
  <2>1. turn' \in [Ids -> TurnRows]
    BY RowTyped DEF IInv, TurnTypeOK, Statuses, Envelopes, CallInv, TurnRefused, Ends, Holds,
       ledger, turnHistory
  <2>2. call' \in [Calls -> CallStates]
    BY ZenonT(30), CallTyped DEF IInv, TurnTypeOK, Pcs, Told, Verdicts, EndInv, CallInv, TurnRefused, Ends,
       Holds, ledger, turnHistory
  <2>3. \A i \in Ids : turn'[i].envelope # "none" => turn'[i].status \in {"succeeded", "failed", "outcome_unknown"}
    BY DEF IInv, TurnTypeOK, TurnRows, CallInv, RowInv, Running, TurnRefused, Ends, Holds, ledger,
       turnHistory
  <2> QED
    BY <2>1, <2>2, <2>3 DEF IInv, TurnTypeOK, CallInv, Verdicts, TurnRefused, Ends, Holds, ledger,
       turnHistory
<1>2. QueueInv'
  BY DEF IInv, TurnTypeOK, CallStates, TurnRows, QueueInv, Running, TurnRefused, Ends, Holds,
     ledger, turnHistory
<1>3. CallInv'
  BY DEF IInv, TurnTypeOK, CallStates, CallInv, TurnRefused, Ends, Holds, ledger, turnHistory
<1>4. RowInv'
  BY DEF IInv, TurnTypeOK, CallStates, TurnRows, QueueInv, CallInv, RowInv, InHand, Running,
     TurnRefused, Ends, Holds, ledger, turnHistory
<1>5. EndInv'
  BY DEF IInv, TurnTypeOK, CallStates, TurnRows, Verdicts, QueueInv, CallInv, RowInv, EndInv,
     Running, TurnRefused, Ends, Holds, ledger, turnHistory
<1> QED
  BY <1>1, <1>2, <1>3, <1>4, <1>5 DEF IInv

LEMMA BeginClaimedTurnMessageStep == ASSUME IInv, NEW c \in Calls, BeginClaimedTurnMessage(c) PROVE IInv'
<1>1. TurnTypeOK'
  <2>1. turn' \in [Ids -> TurnRows]
    BY RowTyped DEF IInv, TurnTypeOK, Statuses, Envelopes, CallInv, BeginClaimedTurnMessage, Holds,
       ledger, turnHistory
  <2>2. call' \in [Calls -> CallStates]
    BY ZenonT(30), CallTyped DEF IInv, TurnTypeOK, Pcs, Told, Verdicts, EndInv, CallInv,
       BeginClaimedTurnMessage, Holds, ledger, turnHistory
  <2>3. \A i \in Ids : turn'[i].envelope # "none" => turn'[i].status \in {"succeeded", "failed", "outcome_unknown"}
    BY DEF IInv, TurnTypeOK, TurnRows, CallInv, RowInv, Running, BeginClaimedTurnMessage, Holds,
       ledger, turnHistory
  <2> QED
    BY <2>1, <2>2, <2>3 DEF IInv, TurnTypeOK, CallInv, Verdicts, BeginClaimedTurnMessage, Holds,
       ledger, turnHistory
<1>2. QueueInv'
  BY DEF IInv, TurnTypeOK, CallStates, TurnRows, QueueInv, Running, BeginClaimedTurnMessage, Holds,
     ledger, turnHistory
<1>3. CallInv'
  BY DEF IInv, TurnTypeOK, CallStates, CallInv, BeginClaimedTurnMessage, Holds, ledger, turnHistory
<1>4. RowInv'
  BY DEF IInv, TurnTypeOK, CallStates, TurnRows, QueueInv, CallInv, RowInv, InHand, Running,
     BeginClaimedTurnMessage, Holds, ledger, turnHistory
<1>5. EndInv'
  BY DEF IInv, TurnTypeOK, CallStates, TurnRows, Verdicts, QueueInv, CallInv, RowInv, EndInv,
     Running, BeginClaimedTurnMessage, Holds, ledger, turnHistory
<1> QED
  BY <1>1, <1>2, <1>3, <1>4, <1>5 DEF IInv

LEMMA TurnFailsStep == ASSUME IInv, NEW c \in Calls, TurnFails(c) PROVE IInv'
<1>1. TurnTypeOK'
  <2>1. turn' \in [Ids -> TurnRows]
    BY RowTyped DEF IInv, TurnTypeOK, Statuses, Envelopes, CallInv, TurnFails, Ends, Holds, ledger,
       turnHistory
  <2>2. call' \in [Calls -> CallStates]
    BY ZenonT(30), CallTyped DEF IInv, TurnTypeOK, Pcs, Told, Verdicts, EndInv, CallInv, TurnFails, Ends,
       Holds, ledger, turnHistory
  <2>3. \A i \in Ids : turn'[i].envelope # "none" => turn'[i].status \in {"succeeded", "failed", "outcome_unknown"}
    BY DEF IInv, TurnTypeOK, TurnRows, CallInv, RowInv, Running, TurnFails, Ends, Holds, ledger, turnHistory
  <2> QED
    BY <2>1, <2>2, <2>3 DEF IInv, TurnTypeOK, CallInv, Verdicts, TurnFails, Ends, Holds, ledger, turnHistory
<1>2. QueueInv'
  BY DEF IInv, TurnTypeOK, CallStates, TurnRows, QueueInv, Running, TurnFails, Ends, Holds, ledger,
     turnHistory
<1>3. CallInv'
  BY DEF IInv, TurnTypeOK, CallStates, CallInv, TurnFails, Ends, Holds, ledger, turnHistory
<1>4. RowInv'
  BY DEF IInv, TurnTypeOK, CallStates, TurnRows, QueueInv, CallInv, RowInv, InHand, Running,
     TurnFails, Ends, Holds, ledger, turnHistory
<1>5. EndInv'
  BY DEF IInv, TurnTypeOK, CallStates, TurnRows, Verdicts, QueueInv, CallInv, RowInv, EndInv,
     Running, TurnFails, Ends, Holds, ledger, turnHistory
<1> QED
  BY <1>1, <1>2, <1>3, <1>4, <1>5 DEF IInv

LEMMA SettleAssistantReplyStep == ASSUME IInv, NEW c \in Calls, SettleAssistantReply(c) PROVE IInv'
<1>1. TurnTypeOK'
  <2>1. turn' \in [Ids -> TurnRows]
    BY RowTyped DEF IInv, TurnTypeOK, Statuses, Envelopes, CallInv, SettleAssistantReply, Ends,
       Holds, ledger, turnHistory
  <2>2. call' \in [Calls -> CallStates]
    BY ZenonT(30), CallTyped DEF IInv, TurnTypeOK, Pcs, Told, Verdicts, EndInv, CallInv, SettleAssistantReply,
       Ends, Holds, ledger, turnHistory
  <2>3. \A i \in Ids : turn'[i].envelope # "none" => turn'[i].status \in {"succeeded", "failed", "outcome_unknown"}
    BY DEF IInv, TurnTypeOK, TurnRows, CallInv, RowInv, Running, SettleAssistantReply, Ends, Holds,
       ledger, turnHistory
  <2>4. call[c].id \in Ids
    BY DEF IInv, CallInv, SettleAssistantReply, Holds
  <2>5. links' \in [Ids -> SUBSET {"user", "assistant"}]
    BY <2>4 DEF IInv, TurnTypeOK, SettleAssistantReply
  <2>6. verdict' \in [Ids -> Verdicts]
    BY <2>4 DEF IInv, TurnTypeOK, Verdicts, SettleAssistantReply, Ends
  <2>7. faults' \in 0 .. MaxFaults
    BY BoundsAssumption DEF IInv, TurnTypeOK, SettleAssistantReply
  <2>8. UNCHANGED <<fifo, up, ran, lost, pruned, stops>>
    BY DEF SettleAssistantReply, Ends
  <2> QED
    BY <2>1, <2>2, <2>3, <2>5, <2>6, <2>7, <2>8 DEF IInv, TurnTypeOK
<1>2. QueueInv'
  BY DEF IInv, TurnTypeOK, CallStates, TurnRows, QueueInv, Running, SettleAssistantReply, Ends,
     Holds, ledger, turnHistory
<1>3. CallInv'
  BY DEF IInv, TurnTypeOK, CallStates, CallInv, SettleAssistantReply, Ends, Holds, ledger, turnHistory
<1>4. RowInv'
  BY DEF IInv, TurnTypeOK, CallStates, TurnRows, QueueInv, CallInv, RowInv, InHand, Running,
     SettleAssistantReply, Ends, Holds, ledger, turnHistory
<1>5. EndInv'
  BY DEF IInv, TurnTypeOK, CallStates, TurnRows, Verdicts, QueueInv, CallInv, RowInv, EndInv,
     Running, SettleAssistantReply, Ends, Holds, ledger, turnHistory
<1> QED
  BY <1>1, <1>2, <1>3, <1>4, <1>5 DEF IInv

LEMMA TurnThrowsStreamStep == ASSUME IInv, NEW c \in Calls, TurnThrowsStream(c) PROVE IInv'
<1>1. TurnTypeOK'
  <2>1. turn' \in [Ids -> TurnRows]
    BY RowTyped DEF IInv, TurnTypeOK, Statuses, Envelopes, CallInv, TurnThrowsStream, Holds,
       ledger, turnHistory
  <2>2. call' \in [Calls -> CallStates]
    BY CallTyped DEF IInv, TurnTypeOK, Pcs, Told, Verdicts, EndInv, CallInv, TurnThrowsStream,
       Holds, ledger, turnHistory
  <2>3. \A i \in Ids : turn'[i].envelope # "none" => turn'[i].status \in {"succeeded", "failed", "outcome_unknown"}
    BY DEF IInv, TurnTypeOK, TurnRows, CallInv, RowInv, Running, TurnThrowsStream, Holds, ledger,
       turnHistory
  <2> QED
    BY <2>1, <2>2, <2>3, BoundsAssumption DEF IInv, TurnTypeOK, CallInv, Verdicts,
       TurnThrowsStream, Holds, ledger, turnHistory
<1>2. QueueInv'
  BY DEF IInv, TurnTypeOK, CallStates, TurnRows, QueueInv, Running, TurnThrowsStream, Holds,
     ledger, turnHistory
<1>3. CallInv'
  BY DEF IInv, TurnTypeOK, CallStates, CallInv, TurnThrowsStream, Holds, ledger, turnHistory
<1>4. RowInv'
  BY DEF IInv, TurnTypeOK, CallStates, TurnRows, QueueInv, CallInv, RowInv, InHand, Running,
     TurnThrowsStream, Holds, ledger, turnHistory
<1>5. EndInv'
  BY DEF IInv, TurnTypeOK, CallStates, TurnRows, Verdicts, QueueInv, CallInv, RowInv, EndInv,
     Running, TurnThrowsStream, Holds, ledger, turnHistory
<1> QED
  BY <1>1, <1>2, <1>3, <1>4, <1>5 DEF IInv

LEMMA FinishTurnRunStep == ASSUME IInv, NEW c \in Calls, FinishTurnRun(c) PROVE IInv'
<1>1. TurnTypeOK'
  <2>1. turn' \in [Ids -> TurnRows]
    <3>1. Stored(c).status \in Statuses /\ Stored(c).envelope \in Envelopes
      BY DEF Stored, Statuses, Envelopes
    <3>2. call[c].id \in Ids
      BY DEF IInv, CallInv, FinishTurnRun, Finishes, Holds
    <3> QED
      BY RowTyped, <3>1, <3>2 DEF IInv, TurnTypeOK, FinishTurnRun
  <2>a. Answer(c) \in Told
    BY DEF IInv, TurnTypeOK, CallInv, Told, Verdicts, Answer, FinishTurnRun, Finishes, Holds
  <2>2. call' \in [Calls -> CallStates]
    BY CallTyped, <2>a DEF IInv, TurnTypeOK, Pcs, FinishTurnRun, Finishes
  <2>3. \A i \in Ids : turn'[i].envelope # "none" => turn'[i].status \in {"succeeded", "failed", "outcome_unknown"}
    BY DEF IInv, TurnTypeOK, TurnRows, CallInv, RowInv, Running, FinishTurnRun, Finishes, Stored,
       Answer, Holds, ledger, turnHistory
  <2> QED
    BY <2>1, <2>2, <2>3 DEF IInv, TurnTypeOK, CallInv, Verdicts, FinishTurnRun, Finishes, Stored,
       Answer, Holds, ledger, turnHistory
<1>2. QueueInv'
  BY DEF IInv, TurnTypeOK, CallStates, TurnRows, QueueInv, Running, FinishTurnRun, Finishes,
     Stored, Answer, Holds, ledger, turnHistory
<1>3. CallInv'
  BY DEF IInv, TurnTypeOK, CallStates, CallInv, FinishTurnRun, Finishes, Stored, Answer, Holds,
     ledger, turnHistory
<1>4. RowInv'
  <2>1. /\ call[c].id \in Ids /\ call[c].pc \in {"returned", "interrupted"}
        /\ fifo # <<>> /\ Head(fifo) = c
    BY DEF IInv, CallInv, FinishTurnRun, Finishes, Holds
  <2>2. /\ call'[c].pc = "stored" /\ call'[c].id = call[c].id
        /\ \A d \in Calls : d # c => call'[d] = call[d]
    BY DEF IInv, TurnTypeOK, CallStates, FinishTurnRun, Finishes
  <2>3. \A d \in Calls : d # c => call[d].pc \notin Running
    BY <2>1 DEF IInv, QueueInv
  <2>4. Stored(c).status # "executing"
    BY DEF Stored
  <2>5. /\ turn'[call[c].id].status # "executing"
        /\ \A j \in Ids : j # call[c].id => turn'[j] = turn[j]
    BY <2>1, <2>4 DEF IInv, TurnTypeOK, TurnRows, FinishTurnRun
  <2>6. UNCHANGED <<up, lost>>
    BY DEF FinishTurnRun, Finishes
  <2>7. ASSUME NEW j \in Ids, up, turn'[j].status = "executing"
        PROVE  InHand(j)' \/ j \in lost'
    <3>1. j # call[c].id /\ turn[j].status = "executing"
      BY <2>5, <2>7
    <3>2. InHand(j) \/ j \in lost
      BY <2>7, <3>1 DEF IInv, RowInv
    <3> QED
      BY <2>3, <2>6, <3>1, <3>2 DEF InHand, Running
  <2> QED
    BY <2>2, <2>3, <2>5, <2>6, <2>7 DEF RowInv, Running
<1>5. EndInv'
  BY DEF IInv, TurnTypeOK, CallStates, TurnRows, Verdicts, QueueInv, CallInv, RowInv, EndInv,
     Running, FinishTurnRun, Finishes, Stored, Answer, Holds, ledger, turnHistory
<1> QED
  BY <1>1, <1>2, <1>3, <1>4, <1>5 DEF IInv

LEMMA LoseFinishStep == ASSUME IInv, NEW c \in Calls, LoseFinish(c) PROVE IInv'
<1>1. TurnTypeOK'
  <2>1. turn' \in [Ids -> TurnRows]
    BY RowTyped DEF IInv, TurnTypeOK, Statuses, Envelopes, CallInv, LoseFinish, Finishes, Answer,
       Holds, ledger, turnHistory
  <2>a. Answer(c) \in Told
    BY DEF IInv, TurnTypeOK, CallInv, Told, Verdicts, Answer, LoseFinish, Finishes, Holds
  <2>2. call' \in [Calls -> CallStates]
    BY CallTyped, <2>a DEF IInv, TurnTypeOK, Pcs, LoseFinish, Finishes
  <2>3. \A i \in Ids : turn'[i].envelope # "none" => turn'[i].status \in {"succeeded", "failed", "outcome_unknown"}
    BY DEF IInv, TurnTypeOK, TurnRows, CallInv, RowInv, Running, LoseFinish, Finishes, Answer,
       Holds, ledger, turnHistory
  <2> QED
    BY <2>1, <2>2, <2>3, BoundsAssumption DEF IInv, TurnTypeOK, CallInv, Verdicts, LoseFinish,
       Finishes, Answer, Holds, ledger, turnHistory
<1>2. QueueInv'
  BY DEF IInv, TurnTypeOK, CallStates, TurnRows, QueueInv, Running, LoseFinish, Finishes, Answer,
     Holds, ledger, turnHistory
<1>3. CallInv'
  BY DEF IInv, TurnTypeOK, CallStates, CallInv, LoseFinish, Finishes, Answer, Holds, ledger, turnHistory
<1>4. RowInv'
  BY DEF IInv, TurnTypeOK, CallStates, TurnRows, QueueInv, CallInv, RowInv, InHand, Running,
     LoseFinish, Finishes, Answer, Holds, ledger, turnHistory
<1>5. EndInv'
  BY DEF IInv, TurnTypeOK, CallStates, TurnRows, Verdicts, QueueInv, CallInv, RowInv, EndInv,
     Running, LoseFinish, Finishes, Answer, Holds, ledger, turnHistory
<1> QED
  BY <1>1, <1>2, <1>3, <1>4, <1>5 DEF IInv

\* The calls that are answered without a turn, and the ones whose turn is over.
LEMMA AnsweredStep ==
  ASSUME IInv, NEW c \in Calls,
         \/ Skip(c) \/ Refuse(c) \/ Conflict(c) \/ InFlight(c) \/ OutcomeUnknown(c) \/ Replay(c)
         \/ TurnThrowsJson(c) \/ Respond(c)
  PROVE  IInv'
<1> USE DEF Told
<1>1. CASE Skip(c)
  BY <1>1, LeavesStep DEF Skip, Holds, IInv, TurnTypeOK, Running
<1>2. CASE Refuse(c) \/ Conflict(c) \/ InFlight(c) \/ OutcomeUnknown(c)
  BY <1>2, LeavesStep DEF Refuse, Conflict, InFlight, OutcomeUnknown, Repeats, Claimed,
     Answers, Holds, IInv, TurnTypeOK, Running
<1>3. CASE Replay(c)
  <2>1. TurnRow(c).envelope \in Told
    BY <1>3 DEF Replay, Repeats, Claimed, Holds, TurnRow, IInv, CallInv, TurnTypeOK, TurnRows, Envelopes
  <2>2. call[c].id \notin pruned => /\ TurnRow(c).envelope = "ok" => verdict[call[c].id] = "ok"
                                    /\ TurnRow(c).envelope = "failed" => verdict[call[c].id] = "failed"
    BY <1>3 DEF Replay, Repeats, Claimed, Holds, TurnRow, IInv, CallInv, EndInv
  <2> QED
    BY <1>3, <2>1, <2>2, LeavesStep DEF Replay, Repeats, Claimed, Answers, Holds, IInv, TurnTypeOK,
       Running
<1>4. CASE TurnThrowsJson(c)
  <2>1. call[c].id \in Ids
    BY <1>4 DEF TurnThrowsJson, Holds, IInv, CallInv
  <2>2. faults' \in 0 .. MaxFaults
    BY <1>4, BoundsAssumption DEF TurnThrowsJson, IInv, TurnTypeOK
  <2> QED
    BY <1>4, <2>1, <2>2, LeavesStep DEF TurnThrowsJson, Holds, IInv, TurnTypeOK
<1>5. CASE Respond(c)
  <2>1. call[c].told \in Told
    BY DEF IInv, TurnTypeOK, CallStates
  <2>2. call[c].id \notin pruned => /\ call[c].told = "ok" => verdict[call[c].id] = "ok"
                                    /\ call[c].told = "failed" => verdict[call[c].id] = "failed"
    BY <1>5 DEF Respond, Holds, IInv, CallInv, EndInv
  <2>3. fifo # <<>> /\ Head(fifo) = c /\ call[c].pc = "stored" /\ Leaves(c, call[c].told)
    BY <1>5 DEF Respond, Holds
  <2>4. UNCHANGED <<ledger, up, turnHistory, lost, stops, faults>>
    BY <1>5 DEF Respond
  <2>5. faults' \in 0 .. MaxFaults /\ lost \subseteq lost' /\ lost' \subseteq Ids
    BY <2>4 DEF IInv, TurnTypeOK
  <2>6. turn[call[c].id].status = "executing" => call[c].id \in lost'
    BY <2>3, <2>4 DEF IInv, RowInv
  <2> QED
    BY <2>1, <2>2, <2>3, <2>4, <2>5, <2>6, LeavesStep
<1> QED
  BY <1>1, <1>2, <1>3, <1>4, <1>5

LEMMA PruneExpiredStep == ASSUME IInv, NEW i \in Ids, PruneExpired(i) PROVE IInv'
<1> USE DEF PruneExpired, NoRow
<1>1. TurnTypeOK'
  BY DEF IInv, TurnTypeOK, TurnRows, Statuses, Envelopes
<1>2. QueueInv' /\ CallInv'
  BY DEF IInv, QueueInv, CallInv
<1>3. RowInv'
  BY DEF IInv, TurnTypeOK, RowInv, InHand
<1>4. EndInv'
  BY DEF IInv, TurnTypeOK, EndInv
<1> QED
  BY <1>1, <1>2, <1>3, <1>4 DEF IInv

LEMMA CrashStep == ASSUME IInv, ServerStops PROVE IInv'
<1>1. /\ UNCHANGED <<turn, links, ran, verdict, pruned, lost, faults>>
      /\ fifo' = <<>> /\ up' = FALSE
      /\ stops' \in 0 .. MaxStops
  BY BoundsAssumption DEF ServerStops, ledger, turnHistory, IInv, TurnTypeOK
<1>2. ASSUME NEW c \in Calls
      PROVE  /\ call'[c].id = call[c].id
             /\ call'[c].pc \in {"idle", "done"}
             /\ call'[c].pc = "idle" <=> call[c].pc = "idle"
             /\ call'[c].told \in {call[c].told, "none"}
             /\ call'[c] \in CallStates
  <2>1. call'[c] = IF call[c].pc \in {"idle", "done"} THEN call[c] ELSE Over(call[c], "none")
    BY DEF ServerStops
  <2>2. CASE call[c].pc \in {"idle", "done"}
    BY <2>1, <2>2 DEF IInv, TurnTypeOK
  <2>3. CASE call[c].pc \notin {"idle", "done"}
    BY <2>1, <2>3 DEF IInv, TurnTypeOK, CallStates, Over, Pcs, Told, Routes
  <2> QED
    BY <2>2, <2>3
<1>3. TurnTypeOK'
  <2>1. call' \in [Calls -> CallStates]
    BY <1>2 DEF ServerStops
  <2>2. up' \in BOOLEAN
    BY <1>1
  <2>3. fifo' \in Seq(Calls)
    BY <1>1
  <2> QED
    BY <1>1, <2>1, <2>2, <2>3 DEF IInv, TurnTypeOK
<1>4. QueueInv' /\ RowInv'
  BY <1>1, <1>2 DEF QueueInv, RowInv, Running
<1>5. CallInv'
  BY <1>2 DEF IInv, CallInv
<1>6. EndInv'
  BY <1>1, <1>2 DEF IInv, EndInv
<1> QED
  BY <1>3, <1>4, <1>5, <1>6 DEF IInv

LEMMA RecoverStep == ASSUME IInv, RecoverOrphanedRuns PROVE IInv'
<1>1. /\ UNCHANGED <<links, fifo, call, ran, verdict, pruned, stops, faults>>
      /\ fifo = <<>> /\ up' = TRUE /\ lost' = {}
  BY DEF RecoverOrphanedRuns, turnHistory, IInv, QueueInv
<1>2. \A i \in Ids : /\ turn[i].status # "executing" => turn'[i] = turn[i]
                     /\ turn[i].status = "executing" =>
                          turn'[i].status = "outcome_unknown" /\ turn'[i].envelope = turn[i].envelope
  BY DEF RecoverOrphanedRuns, Recovered, IInv, TurnTypeOK, TurnRows
<1>3. \A c \in Calls : call[c].pc \notin Running
  BY <1>1 DEF IInv, QueueInv
<1>4. TurnTypeOK'
  <2>1. \A i \in Ids : Recovered(turn[i]) \in TurnRows
    BY DEF IInv, TurnTypeOK, TurnRows, Statuses, Recovered
  <2>2. turn' \in [Ids -> TurnRows]
    BY <2>1 DEF RecoverOrphanedRuns
  <2>3. \A i \in Ids : turn'[i].envelope # "none" => turn'[i].status \in {"succeeded", "failed", "outcome_unknown"}
    BY <1>2 DEF IInv, TurnTypeOK
  <2> QED
    BY <1>1, <2>2, <2>3 DEF IInv, TurnTypeOK
<1>5. QueueInv' /\ CallInv'
  BY <1>1 DEF IInv, QueueInv, CallInv
<1>6. RowInv'
  BY <1>1, <1>2, <1>3 DEF RowInv, Running
<1>7. EndInv'
  BY <1>1, <1>2, <1>3 DEF IInv, EndInv, Running
<1> QED
  BY <1>4, <1>5, <1>6, <1>7 DEF IInv

LEMMA InvNext == IInv /\ [TurnNext]_turnVars => IInv'
<1> SUFFICES ASSUME IInv, [TurnNext]_turnVars PROVE IInv'
  OBVIOUS
<1>1. CASE UNCHANGED turnVars
  BY <1>1 DEF turnVars, ledger, turnHistory, IInv, TurnTypeOK, QueueInv, CallInv, RowInv, EndInv, InHand
<1>2. ASSUME NEW c \in Calls, Deliver(c) \/ Disconnect(c) PROVE IInv'
  BY <1>2, DeliverStep, DisconnectStep
<1>3. ASSUME NEW c \in Calls, Handle(c) PROVE IInv'
  BY <1>3, AnsweredStep, ClaimTurnRunStep, MarkTurnRunExecutingStep, TurnRefusedStep,
     BeginClaimedTurnMessageStep, TurnFailsStep, SettleAssistantReplyStep, TurnThrowsStreamStep,
     FinishTurnRunStep, LoseFinishStep DEF Handle
<1>4. ASSUME NEW i \in Ids, PruneExpired(i) PROVE IInv'
  BY <1>4, PruneExpiredStep
<1>5. CASE ServerStops \/ RecoverOrphanedRuns
  BY <1>5, CrashStep, RecoverStep
<1> QED
  BY <1>1, <1>2, <1>3, <1>4, <1>5 DEF TurnNext

(* One delivery is handled at a time, the row of a request in hand is      *)
(* where its handler says, and what is stored and answered is how the turn *)
(* ended: the inductive invariant (fifo-lock.ts, turn-runs.ts, chat.ts).   *)
THEOREM TurnInvariant == TurnSpec => []IInv
<1> QED
  BY InvInit, InvNext, PTL DEF TurnSpec

(* The rows and the calls keep their types; an answer is stored with a     *)
(* final status only (finishTurnRun).                                      *)
THEOREM TurnTypes == TurnSpec => []TurnTypeOK
<1>1. IInv => TurnTypeOK
  BY DEF IInv
<1> QED
  BY <1>1, TurnInvariant, PTL

(* A chat request that is repeated runs once, and its answers, its replays *)
(* and its stored status agree (claimTurnRun, finishTurnRun), for every    *)
(* number of deliveries, crashes and faults.                               *)
THEOREM TurnLedgerIsTruthful == TurnSpec => []LedgerIsTruthful
<1>1. IInv => LedgerIsTruthful
  <2> SUFFICES ASSUME IInv, NEW i \in Ids \ pruned
               PROVE  /\ ran[i] <= 1
                      /\ turn[i].status = "succeeded" => verdict[i] = "ok" /\ "user" \in links[i]
                      /\ turn[i].status = "failed" => verdict[i] = "failed"
                      /\ ~ \E c, d \in Calls : call[c].id = i /\ call[d].id = i
                              /\ call[c].pc = "done" /\ call[d].pc = "done"
                              /\ call[c].told = "ok" /\ call[d].told = "failed"
                      /\ up /\ turn[i].status = "executing" => InHand(i) \/ i \in lost
    BY DEF LedgerIsTruthful
  <2>1. ~ \E c, d \in Calls : call[c].id = i /\ call[d].id = i /\ call[c].told = "ok" /\ call[d].told = "failed"
    BY DEF IInv, EndInv
  <2> QED
    BY <2>1 DEF IInv, EndInv, RowInv
<1> QED
  BY <1>1, TurnInvariant, PTL
-----------------------------------------------------------------------------
(* The assistant run.                                                      *)

\* Where a request holds a copy of the row that it may still store.
Runner == {"loop", "chosen", "reads", "read", "asked", "preparing", "option"}

\* Host calls are in flight only while something makes them, and no more than it may make.
WireInv ==
    /\ flight + left <= Burst
    /\ ~Calling => flight = 0 /\ left = 0

\* The copy agrees with the row in everything but the host calls, which only the preview's
\* own calls move while a reservation is prepared on it; during a model call it is behind.
CopyInv ==
    /\ pc \in Runner => /\ mem.calls = run.calls /\ mem.charged = run.charged
                        /\ mem.reserved = run.reserved
    /\ pc = "model" => mem.reserved = run.reserved
    /\ pc \in Runner \cup {"model"} => mem.phase # "none"
    /\ pc = "option" => mem.used = run.used
    /\ pc = "preparing" => run.used + left <= mem.used + Burst

\* A run has no open question while it works, except the one it is about to be suspended on
\* and the one whose option it works for.
QuestionInv ==
    /\ run.phase = "none" => pc \in {"idle", "down"} /\ question.status = "none"
    /\ pc \in {"loop", "model", "chosen", "read"} => ~Open
    /\ pc = "reads" => question.status # "resolving"
    /\ pc = "preparing" => question.status # "pending"
    /\ pc = "option" => question.status = "resolving"

\* Nobody works on the run of a pending preview, and no answer in prose can revive it.
PreviewInv == preview.status = "pending" =>
    /\ pc \in {"idle", "down", "prepared"}
    /\ question.status # "pending"

\* The row counts every model call and attempt, but for a run that a failed call ended
\* and that nothing can revive.
CountInv ==
    \/ run.calls = asked /\ run.charged = tried
    \/ run.phase = "failed" /\ pc \in {"idle", "down"} /\ question.status # "pending"

\* Used and reserved calls pass the ceiling by the calls of one preview at most: the
\* reservation is compared with a copy from before them.
OverdraftInv == run.used + run.reserved <= MaxHostCalls + Burst

RunParts ==
    /\ WireInv /\ CopyInv /\ QuestionInv /\ PreviewInv /\ CountInv
    /\ OverdraftInv /\ PreviewsAreOwned /\ SpendingIsRecorded

RunInv == TypeOK /\ RunParts
-----------------------------------------------------------------------------
LEMMA RunInit == ASSUME Init PROVE RunInv
<1> USE RunAssumption DEF Init, Blank, NoQuestion, NoPreview
<1>1. TypeOK
  <2>1. run \in Row /\ mem \in Row
    BY DEF Row, Phases
  <2>2. question \in Question
    BY DEF Question
  <2>3. preview \in Preview
    BY DEF Preview
  <2>4. 0 \in 0..2 /\ 0 \in 0..Burst /\ 0 \in 0..MaxCrashes
    BY RunAssumption
  <2> QED
    BY <2>1, <2>2, <2>3, <2>4 DEF TypeOK
<1>2. RunParts
  BY DEF RunParts, WireInv, CopyInv, QuestionInv, PreviewInv, CountInv, OverdraftInv, Runner, Calling,
     Open, PreviewsAreOwned, SpendingIsRecorded
<1> QED
  BY <1>1, <1>2 DEF RunInv

\* Rows that an action writes, field by field.
LEMMA RunRowTyped ==
  ASSUME NEW r \in Row
  PROVE  /\ \A p \in Phases : [r EXCEPT !.phase = p] \in Row
         /\ \A n \in Nat : [r EXCEPT !.charged = n] \in Row
         /\ \A n \in Nat : [r EXCEPT !.used = n] \in Row
         /\ \A n \in Nat : [r EXCEPT !.reserved = n] \in Row
         /\ \A n \in Nat : [r EXCEPT !.calls = n] \in Row
         /\ r.calls \in Nat /\ r.charged \in Nat /\ r.used \in Nat /\ r.reserved \in Nat
  BY DEF Row

LEMMA RunRowStep ==
  ASSUME TypeOK, Next
  PROVE  run' \in Row
<1> USE RunAssumption
<1>0. run \in Row /\ mem \in Row
  BY DEF TypeOK
<1>p. \A p \in {"model", "discovering", "executing_reads", "completed", "failed",
                "awaiting_confirmation", "awaiting_clarification"} : p \in Phases
  BY DEF Phases, Working, Terminal
<1>1. CASE \/ OtherStarts \/ OtherEnds \/ Pick \/ Confirm \/ StartReads
           \/ Send \/ Ask \/ PickFails \/ PickWrite \/ PickedWrite
           \/ Commit \/ (\E o \in Outcomes : Settle(o))
           \/ SettleDegraded \/ QuestionDue \/ PreviewDue \/ Prune
           \/ RequestDies \/ Crash
  BY <1>0, <1>1 DEF OtherStarts, OtherEnds, Pick, Confirm, StartReads,
     Send, Ask, PickFails, PickWrite, PickedWrite, Commit, Settle,
     SettleDegraded, QuestionDue, PreviewDue, Prune, RequestDies, Crash,
     rows
<1>2. CASE Message \/ StartRun \/ PickedRead \/ Continue \/ Restart
  <2>1. run' = run \/ \E p \in {"failed", "completed", "model"} : run' = [run EXCEPT !.phase = p]
    BY <1>2 DEF Message, MessageLapsed, MessageStranded, MessageSupersedes,
       StartRun, PickedRead, Continue, Restart
  <2> QED
    BY <1>0, <1>p, <2>1, RunRowTyped
<1>3. CASE ModelFails \/ Complete \/ Stop \/ Discover \/ EndReads \/ Suspend
  <2>1. PICK p \in {"failed", "completed", "discovering", "executing_reads", "awaiting_clarification"} :
          run' = [[mem EXCEPT !.phase = p] EXCEPT !.used = run.used]
    BY <1>3 DEF ModelFails, Complete, Stop, Discover, EndReads, Suspend,
       Store, Saved
  <2>2. [mem EXCEPT !.phase = p] \in Row /\ run.used \in Nat
    BY <1>0, <1>p, RunRowTyped
  <2> QED
    BY <2>1, <2>2, RunRowTyped
<1>4. CASE StartPreparing \/ NextIteration \/ PrepareFails
  <2>1. run' = run \/ run' = [mem EXCEPT !.used = run.used]
    BY <1>4 DEF StartPreparing, NextIteration, PrepareFails, Store, Saved
  <2> QED
    BY <1>0, <1>p, <2>1, RunRowTyped
<1>5. CASE RetryModel \/ ModelAnswers
  <2>1. run' = [run EXCEPT !.charged = run.charged + 1] /\ run.charged + 1 \in Nat
    BY <1>0, <1>5 DEF RetryModel, ModelAnswers, Row
  <2> QED
    BY <1>0, <1>p, <2>1, RunRowTyped
<1>6. CASE Charge \/ Refund
  <2>1. run' = run \/ \E n \in Nat : run' = [run EXCEPT !.used = n]
    <3>1. run.used + 1 \in Nat /\ (IF run.used > 0 THEN run.used - 1 ELSE 0) \in Nat
      BY <1>0 DEF Row
    <3> QED
      BY <1>6, <3>1 DEF Charge, Refund
  <2> QED
    BY <1>0, <1>p, <2>1, RunRowTyped
<1>7. CASE AskModel
  <2>1. /\ run' = [[[mem EXCEPT !.calls = mem.calls + 1] EXCEPT !.phase = "model"] EXCEPT !.used = run.used]
        /\ mem.calls + 1 \in Nat
    BY <1>0, <1>7 DEF AskModel, Store, Saved, Row
  <2> QED
    BY <1>0, <1>p, <2>1, RunRowTyped
<1>8. CASE Convert
  <2>1. run' = run \/ \E n, m \in Nat : run' = [[run EXCEPT !.used = n] EXCEPT !.reserved = m]
    <3>1. run.used + 1 \in Nat /\ (IF run.reserved > 0 THEN run.reserved - 1 ELSE 0) \in Nat
      BY <1>0 DEF Row
    <3> QED
      BY <1>8, <3>1 DEF Convert
  <2>2. \A n \in Nat : [run EXCEPT !.used = n] \in Row
    BY <1>0, RunRowTyped
  <2>3. \A n, m \in Nat : [[run EXCEPT !.used = n] EXCEPT !.reserved = m] \in Row
    BY <2>2, RunRowTyped
  <2> QED
    BY <1>0, <2>1, <2>3
<1>9. CASE Prepare
  <2>1. /\ run' = [[[mem EXCEPT !.reserved = mem.reserved + Cost]
                      EXCEPT !.phase = "awaiting_confirmation"] EXCEPT !.used = run.used]
        /\ mem.reserved + Cost \in Nat
    BY <1>0, <1>9 DEF Prepare, Store, Saved, Row
  <2> QED
    BY <1>0, <1>p, <2>1, RunRowTyped
<1>10. CASE SettleRun \/ Cancel
  <2>1. \/ run' = run \/ run' = [run EXCEPT !.phase = "completed"]
        \/ \E n \in Nat : run' = [[run EXCEPT !.phase = "completed"] EXCEPT !.reserved = n]
    <3>1. (IF run.reserved > Cost THEN run.reserved - Cost ELSE 0) \in Nat
      BY <1>0 DEF Row
    <3> QED
      BY <1>10, <3>1 DEF SettleRun, Cancel, Released
  <2>2. [run EXCEPT !.phase = "completed"] \in Row
    BY <1>0, <1>p, RunRowTyped
  <2>3. \A n \in Nat : [[run EXCEPT !.phase = "completed"] EXCEPT !.reserved = n] \in Row
    BY <2>2, RunRowTyped
  <2> QED
    BY <1>0, <2>1, <2>2, <2>3
<1> QED
  BY <1>1, <1>2, <1>3, <1>4, <1>5, <1>6, <1>7, <1>8, <1>9, <1>10
     DEF Next, Steps, Requests

LEMMA RunTypesStep ==
  ASSUME TypeOK, WireInv, Next
  PROVE  TypeOK'
<1> USE DEF Next, Steps, Requests, Message, MessageLapsed,
     MessageStranded, MessageSupersedes, StartRun, OtherStarts,
     OtherEnds, Pick, Continue, Confirm, Cancel, AskModel,
     RetryModel, ModelAnswers, ModelFails, Complete, Stop, Discover,
     StartReads, EndReads, StartPreparing, NextIteration, Charge,
     Convert, Send, Refund, Ask, Suspend, PickFails, PickedRead,
     PickWrite, PickedWrite, Prepare, PrepareFails, Commit, Settle,
     SettleDegraded, SettleRun, QuestionDue, PreviewDue, Prune,
     RequestDies, Crash, Restart, rows, request, history, env,
     Reload, EndRequest, Goto, Reset, Outcomes
<1>1. run' \in Row
  BY RunRowStep
<1>2. mem' \in Row
  <2>1. mem' \in {mem, run, run', Blank}
    OBVIOUS
  <2>2. Blank \in Row
    BY DEF Row, Blank, Phases
  <2>3. run \in Row /\ mem \in Row
    BY DEF TypeOK
  <2> QED
    BY <1>1, <2>1, <2>2, <2>3
<1>3. question' \in Question
  <2>1. \/ question' = question \/ question' = [status |-> "pending", due |-> FALSE]
        \/ question' = [question EXCEPT !.due = TRUE]
        \/ \E s \in {"pending", "resolving", "resolved", "continued", "expired", "cancelled"} :
             question' = [question EXCEPT !.status = s]
    OBVIOUS
  <2>2. \A s \in {"pending", "resolving", "resolved", "continued", "expired", "cancelled"} :
          [question EXCEPT !.status = s] \in Question
    BY DEF TypeOK, Question
  <2>3. /\ question \in Question /\ [question EXCEPT !.due = TRUE] \in Question
        /\ [status |-> "pending", due |-> FALSE] \in Question
    BY DEF TypeOK, Question
  <2> HIDE DEF Next
  <2> QED
    BY <2>1, <2>2, <2>3
<1>4. preview' \in Preview
  <2>1. \/ preview' = preview \/ preview' = Lapsed
        \/ preview' = [status |-> "pending", op |-> "open", due |-> FALSE]
        \/ preview' = [preview EXCEPT !.due = TRUE]
        \/ \E s \in {"executing", "gone"} : preview' = [preview EXCEPT !.status = s]
        \/ \E s \in {"final", "cancelled", "expired", preview.status},
              o \in {"settled", "failed", "withdrawn", preview.op} :
             preview' = [preview EXCEPT !.status = s, !.op = o]
    OBVIOUS
  <2>2. \A s \in {"final", "cancelled", "expired", preview.status},
           o \in {"settled", "failed", "withdrawn", preview.op} :
          [preview EXCEPT !.status = s, !.op = o] \in Preview
    BY DEF TypeOK, Preview
  <2>3. /\ preview \in Preview /\ [preview EXCEPT !.due = TRUE] \in Preview
        /\ \A s \in {"executing", "gone"} : [preview EXCEPT !.status = s] \in Preview
        /\ [status |-> "pending", op |-> "open", due |-> FALSE] \in Preview
        /\ Lapsed \in Preview
    BY DEF TypeOK, Preview, Lapsed
  <2> HIDE DEF Next
  <2> QED
    BY <2>1, <2>2, <2>3
<1>5. /\ pc' \in {"idle", "down", "starting", "loop", "model", "chosen", "reads", "read", "asked",
                 "preparing", "option", "prepared", "dispatch", "dispatched"}
      /\ other' \in BOOLEAN /\ changed' \in BOOLEAN
  BY DEF TypeOK
<1>6. attempt' \in 0 .. 2 /\ crashes' \in 0 .. MaxCrashes
  <2>1. attempt' \in {attempt, 0, 1, 2}
    OBVIOUS
  <2>2. crashes' = crashes \/ (crashes < MaxCrashes /\ crashes' = crashes + 1)
    OBVIOUS
  <2> HIDE DEF Next
  <2> QED
    BY <2>1, <2>2, RunAssumption DEF TypeOK
<1>7. made' \in Nat /\ asked' \in Nat /\ tried' \in Nat
  <2>1. made' \in {made, made + 1} /\ asked' \in {asked, asked + 1} /\ tried' \in {tried, tried + 1}
    OBVIOUS
  <2> HIDE DEF Next
  <2> QED
    BY <2>1 DEF TypeOK
<1>8. left' \in 0 .. Burst /\ flight' \in 0 .. Burst
  <2>1. \/ left' \in {left, 0} \/ left' \in 0 .. Burst \/ left' \in 1 .. Burst
        \/ left > 0 /\ left' = left - 1
    OBVIOUS
  <2>2. \/ flight' \in {flight, 0}
        \/ flight > 0 /\ flight' = flight - 1
        \/ left > 0 /\ flight' \in {flight + 1, 1}
    OBVIOUS
  <2> HIDE DEF Next
  <2> QED
    BY <2>1, <2>2, RunAssumption DEF TypeOK, WireInv
<1> QED
  BY <1>1, <1>2, <1>3, <1>4, <1>5, <1>6, <1>7, <1>8 DEF TypeOK

LEMMA RunPartsStep ==
  ASSUME RunInv, TypeOK', Next
  PROVE  RunParts'
<1> USE RunAssumption
     DEF RunInv, RunParts, WireInv, CopyInv, QuestionInv, PreviewInv, CountInv, OverdraftInv, Runner,
         PreviewsAreOwned, SpendingIsRecorded, TypeOK,
         Row, Working, Question, Preview, Blank, Open, Calling
<1>1. CASE MessageLapsed
  BY <1>1 DEF MessageLapsed, request, history, env, Free, Live,
     Lapsed
<1>2. CASE MessageStranded
  BY <1>2 DEF MessageStranded, request, history, env, Free
<1>3. CASE MessageSupersedes
  BY <1>3 DEF MessageSupersedes, request, history, env, Free
<1>4. CASE StartRun
  BY <1>4 DEF StartRun, history, env, Reload, Free
<1>5. CASE OtherStarts
  BY <1>5 DEF OtherStarts, request, history, Free, Active
<1>6. CASE OtherEnds
  BY <1>6 DEF OtherEnds, request, history
<1>7. CASE Pick
  BY <1>7 DEF Pick, history, env, Free, Active
<1>8. CASE Continue
  BY <1>8 DEF Continue, history, env, Reload, Free
<1>9. CASE Confirm
  BY <1>9 DEF Confirm, history, env, Free, Live
<1>10. CASE Cancel
  BY <1>10 DEF Cancel, request, history, env, Free, Live, Released
<1>11. CASE AskModel
  BY <1>11 DEF AskModel, env, Store, Saved
<1>12. CASE RetryModel
  BY <1>12 DEF RetryModel, env
<1>13. CASE ModelAnswers
  BY <1>13 DEF ModelAnswers, env, Reload
<1>14. CASE ModelFails
  BY <1>14 DEF ModelFails, env, Store, EndRequest, Saved
<1>15. CASE Complete
  BY <1>15 DEF Complete, history, env, Store, EndRequest, Saved
<1>16. CASE Stop
  BY <1>16 DEF Stop, history, env, Store, EndRequest, Saved
<1>17. CASE Discover
  BY <1>17 DEF Discover, history, env, Store, Reload, Goto, Saved
<1>18. CASE StartReads
  BY <1>18 DEF StartReads, rows, history, env
<1>19. CASE EndReads
  BY <1>19 DEF EndReads, history, env, Store, Reload, Saved
<1>20. CASE StartPreparing
  BY <1>20 DEF StartPreparing, history, env, Store, Reload, Saved
<1>21. CASE NextIteration
  BY <1>21 DEF NextIteration, history, env, Store, Reload, Goto,
     Saved
<1>22. CASE Charge
  BY <1>22 DEF Charge, history, env
<1>23. CASE Convert
  BY <1>23 DEF Convert, history, env
<1>24. CASE Send
  BY <1>24 DEF Send, rows, env
<1>25. CASE Refund
  BY <1>25 DEF Refund, history, env
<1>26. CASE Ask
  BY <1>26 DEF Ask, history, env
<1>27. CASE Suspend
  BY <1>27 DEF Suspend, history, env, Store, EndRequest, Saved
<1>28. CASE PickFails
  BY <1>28 DEF PickFails, history, env, EndRequest, Reset
<1>29. CASE PickedRead
  BY <1>29 DEF PickedRead, history, env, Reload, Goto
<1>30. CASE PickWrite
  BY <1>30 DEF PickWrite, rows, history, env
<1>31. CASE PickedWrite
  BY <1>31 DEF PickedWrite, history, env, EndRequest
<1>32. CASE Prepare
  BY <1>32 DEF Prepare, history, env, Store, EndRequest, CanReserve,
     Saved
<1>33. CASE PrepareFails
  BY <1>33 DEF PrepareFails, history, env, Store, Reload, EndRequest,
     Reset, Saved
<1>34. CASE Commit
  BY <1>34 DEF Commit, rows, request, env
<1>35. ASSUME NEW o \in Outcomes, Settle(o) PROVE RunParts'
  BY <1>35 DEF Settle, history, env, Outcomes
<1>36. CASE SettleDegraded
  BY <1>36 DEF SettleDegraded, rows, history, env
<1>37. CASE SettleRun
  BY <1>37 DEF SettleRun, history, env, EndRequest, Released
<1>38. CASE QuestionDue
  BY <1>38 DEF QuestionDue, request, history, env
<1>39. CASE PreviewDue
  BY <1>39 DEF PreviewDue, request, history, env, Live
<1>40. CASE Prune
  BY <1>40 DEF Prune, request, history, env, Free, Lapsed
<1>41. CASE RequestDies
  BY <1>41 DEF RequestDies, rows, history, env, EndRequest
<1>42. CASE Crash
  BY <1>42 DEF Crash, rows, history
<1>43. CASE Restart
  <2>1. /\ preview'.status = "pending" => preview' = preview
        /\ preview'.status \in {preview.status, "final"}
    <3>1. CASE preview.status = "executing"
      <4>1. preview \in Preview
        BY DEF TypeOK
      <4>2. PICK o \in Outcomes :
              preview' = [preview EXCEPT !.status = "final", !.op = IF @ = "open" THEN o ELSE @]
        BY <1>43, <3>1 DEF Restart
      <4>3. preview'.status = "final"
        BY <4>1, <4>2 DEF Preview
      <4> QED
        BY <4>3
    <3>2. CASE preview.status # "executing"
      BY <1>43, <3>2 DEF Restart
    <3> QED
      BY <3>1, <3>2
  <2>2. UNCHANGED <<question, mem, attempt, left, flight, other, crashes, made, asked, tried, changed>>
    BY <1>43 DEF Restart, history, env
  <2>3. /\ pc = "down" /\ pc' = "idle"
        /\ run' = IF run.phase \in Working THEN [run EXCEPT !.phase = "failed"] ELSE run
    BY <1>43 DEF Restart
  <2> QED
    BY <2>1, <2>2, <2>3
<1> QED
  BY <1>1, <1>2, <1>3, <1>4, <1>5, <1>6, <1>7, <1>8, <1>9, <1>10, <1>11, <1>12, <1>13, <1>14,
     <1>15, <1>16, <1>17, <1>18, <1>19, <1>20, <1>21, <1>22, <1>23, <1>24, <1>25, <1>26,
     <1>27, <1>28, <1>29, <1>30, <1>31, <1>32, <1>33, <1>34, <1>35, <1>36, <1>37, <1>38,
     <1>39, <1>40, <1>41, <1>42, <1>43 DEF Next, Steps, Requests, Message

LEMMA RunNext == ASSUME RunInv, [Next]_vars PROVE RunInv'
<1>1. CASE UNCHANGED vars
  BY <1>1 DEF vars, rows, request, history, env, RunInv, RunParts, WireInv,
     CopyInv, QuestionInv, PreviewInv, CountInv, OverdraftInv, TypeOK, Open, Calling,
     PreviewsAreOwned, SpendingIsRecorded
<1>2. CASE Next
  <2>1. TypeOK'
    BY <1>2, RunTypesStep DEF RunInv, RunParts
  <2>2. RunParts'
    BY <1>2, <2>1, RunPartsStep
  <2> QED
    BY <2>1, <2>2 DEF RunInv
<1> QED
  BY <1>1, <1>2

(* A run keeps the inductive invariant: the copy its request works on is   *)
(* as recent as the stores to come need (runner.ts, run-service.ts,        *)
(* operation-preparation-service.ts), no open question is left behind the  *)
(* runner's back (clarification-service.ts), and a run whose row lost a    *)
(* charge is out of reach (failRun of run-service.ts).                     *)
THEOREM RunInvariant == Spec => []RunInv
<1>1. Init => RunInv
  BY RunInit
<1>2. RunInv /\ [Next]_vars => RunInv'
  BY RunNext
<1> QED
  BY <1>1, <1>2, PTL DEF Spec

(* The row, its copy, the question and the preview keep their types, and   *)
(* no reservation or count of calls goes below zero (releaseHostCall-      *)
(* Reservation, refundRunHostCall).                                        *)
THEOREM RunTypes == Spec => []TypeOK
<1>1. RunInv => TypeOK
  BY DEF RunInv
<1> QED
  BY <1>1, RunInvariant, PTL

(* A preview that can be confirmed has its run suspended on it and its     *)
(* host calls reserved (prepareAssistantWriteBatchWithEvents), whatever    *)
(* dies between the preparation and the resolution of the question it came *)
(* from, for every cost and limit and every number of crashes.             *)
THEOREM PreviewsStayOwned == Spec => []PreviewsAreOwned
<1>1. RunInv => PreviewsAreOwned
  BY DEF RunInv, RunParts
<1> QED
  BY <1>1, RunInvariant, PTL

(* Every host call that is sent is counted, whichever copy of the row is   *)
(* saved last; a run that goes on has every provider attempt charged; and  *)
(* no run begins more model calls than the limit (saveRun, updateRunState, *)
(* callModel), for every limit and every number of crashes and revivals.   *)
THEOREM SpendingStaysRecorded == Spec => []SpendingIsRecorded
<1>1. RunInv => SpendingIsRecorded
  BY DEF RunInv, RunParts
<1> QED
  BY <1>1, RunInvariant, PTL

(* The ceiling of host calls, which a run can pass since prepareBatch and  *)
(* canReserveHostCalls compare a copy of the row from before the preview's *)
(* own calls, is passed by the calls of one preview at most, also over     *)
(* several previews, crashes and revivals of the run.                      *)
THEOREM OverdraftIsBounded == Spec => []OverdraftInv
<1>1. RunInv => OverdraftInv
  BY DEF RunInv, RunParts
<1> QED
  BY <1>1, RunInvariant, PTL
=============================================================================
