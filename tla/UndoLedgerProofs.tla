-------------------------- MODULE UndoLedgerProofs --------------------------
(***************************************************************************)
(* Theorems about UndoLedger for every number of created entities, of      *)
(* sessions, crashes and storage failures.                                 *)
(***************************************************************************)
EXTENDS UndoLedger, TLAPS

Working == {"step", "ready", "sent", "settling"}
Active(s) == req[s].pc \in Working
Spent == {j \in Steps : sent[j] > 0}

\* One use: the record is claimed by one request, and never offered again.
ClaimInv ==
    /\ \A s \in Sessions : Active(s) => record.status = "executing" /\ op[s].status = "executing"
    /\ \A s, t \in Sessions : op[s].status # "none" /\ op[t].status # "none" => s = t
    /\ \A s \in Sessions : op[s].status = "none" => op[s].dispatched = {}
    /\ record.status \in {"available", "expired"} => \A s \in Sessions : op[s].status = "none"
    /\ record.status \in {"available", "executing"} => record.remaining = Refs
    /\ ~up => \A s \in Sessions : req[s].pc = "idle"

\* What was sent is journaled, and only that can be on its way or have taken effect.
SentInv ==
    /\ \A i \in Steps : sent[i] \in {0, 1}
    /\ \A i \in Steps : sent[i] = 1 => \E s \in Sessions : i \in op[s].dispatched
    /\ \A s \in Sessions : op[s].dispatched \subseteq Spent
    /\ wire \cup applied \subseteq Spent
    /\ wire \cap applied = {}

\* What the verdict of a reversal that has ended says.
EndInv(s) ==
    /\ req[s].known \subseteq applied
    /\ req[s].verdict # "none"
    /\ req[s].verdict # "outcome_unknown" => wire = {} /\ applied = req[s].known
    /\ req[s].verdict = "succeeded" => req[s].at \in req[s].known
    /\ req[s].verdict = "succeeded" /\ ~req[s].degraded => req[s].known = Steps

\* A request before its claim, and what one that works knows at each point.
RequestInv ==
    \A s \in Sessions :
        /\ req[s].pc \in {"idle", "checking"} => req[s].at = First /\ req[s].known = {}
        /\ req[s].pc \in {"step", "ready", "sent"} => req[s].known = Before(req[s].at)
        /\ req[s].pc \in {"step", "ready"} => wire = {} /\ applied = req[s].known /\ Spent = req[s].known
        /\ req[s].pc = "sent" => /\ req[s].known \subseteq applied
                                 /\ Spent = req[s].known \cup {req[s].at}
        /\ req[s].pc = "settling" => EndInv(s)

\* A failed operation left nothing that can still take effect.
FailedInv ==
    \A s \in Sessions : op[s].status = "definitive_failed" => op[s].dispatched \cap (wire \cup applied) = {}

IInv ==
    /\ TypeOK /\ ClaimInv /\ SentInv /\ RequestInv /\ FailedInv
    /\ UndoIsTruthful /\ ReversedOnce

-----------------------------------------------------------------------------
(* The plan: a walk from First to Last that passes every step once and     *)
(* deletes every entity.                                                   *)

LEMMA StepShape ==
  ASSUME NEW i \in Steps
  PROVE  /\ i.ref \in Refs /\ i.operation \in {"delete", "transition"}
         /\ i.operation = "transition" => i.ref \in Archivable
         /\ i = Step(i.ref, i.operation)
  BY UndoAssumption DEF Steps, Step, Refs

LEMMA StepMember ==
  /\ \A ref \in Refs : Step(ref, "delete") \in Steps /\ FirstOf(ref) \in Steps
  /\ \A ref \in Archivable : Step(ref, "transition") \in Steps
  BY UndoAssumption DEF Steps, Step, FirstOf, Refs

LEMMA PlanStarts == First \in Steps /\ Before(First) = {}
  <1> USE UndoAssumption
  <1>1. N \in Refs /\ First \in Steps
    BY StepMember DEF First, Refs
  <1>2. First.ref = N /\ First.operation = IF N \in Archivable THEN "transition" ELSE "delete"
    BY DEF First, FirstOf, Step
  <1>3. ASSUME NEW j \in Before(First) PROVE FALSE
    <2>1. j \in Steps /\ (j.ref > N \/ (j.ref = N /\ j.operation = "transition" /\ First.operation = "delete"))
      BY <1>2, <1>3 DEF Before
    <2>2. j.ref \in Refs /\ (j.operation = "transition" => j.ref \in Archivable)
      BY <2>1, StepShape
    <2> QED BY <1>2, <2>1, <2>2 DEF Refs
  <1> QED BY <1>1, <1>3

LEMMA PlanEnds == Last \in Steps /\ Before(Last) \cup {Last} = Steps
  <1> USE UndoAssumption
  <1>1. 1 \in Refs /\ Last \in Steps
    BY StepMember DEF Last, Refs
  <1>2. Last.ref = 1 /\ Last.operation = "delete"
    BY DEF Last, Step
  <1>3. ASSUME NEW j \in Steps, j # Last PROVE j \in Before(Last)
    <2>1. j.ref \in 1 .. N /\ j.operation \in {"delete", "transition"} /\ j = Step(j.ref, j.operation)
      BY StepShape DEF Refs
    <2>2. j.ref > 1 \/ j.operation = "transition"
      BY <1>3, <2>1 DEF Last
    <2> QED BY <1>2, <2>1, <2>2 DEF Before
  <1> QED BY <1>1, <1>3 DEF Before

LEMMA PlanGoesOn ==
  ASSUME NEW i \in Steps, i # Last
  PROVE  After(i) \in Steps /\ Before(After(i)) = Before(i) \cup {i}
  <1> USE UndoAssumption
  <1>1. /\ i.ref \in 1 .. N /\ i.operation \in {"delete", "transition"}
        /\ i.operation = "transition" => i.ref \in Archivable
        /\ i = Step(i.ref, i.operation)
    BY StepShape DEF Refs
  <1>2. CASE i.operation = "transition"
    <2>1. After(i) = Step(i.ref, "delete") /\ After(i).ref = i.ref /\ After(i).operation = "delete"
      BY <1>2 DEF After, Step
    <2>2. After(i) \in Steps
      BY <1>1, <2>1, StepMember DEF Refs
    <2>3. ASSUME NEW j \in Steps PROVE j \in Before(After(i)) <=> j \in Before(i) \cup {i}
      <3>1. j.ref \in 1 .. N /\ j = Step(j.ref, j.operation)
        BY StepShape DEF Refs
      <3>2. j = i <=> j.ref = i.ref /\ j.operation = "transition"
        BY <1>1, <1>2, <3>1
      <3> QED BY <1>1, <1>2, <2>1, <3>1, <3>2 DEF Before
    <2> QED BY <2>2, <2>3 DEF Before
  <1>3. CASE i.operation = "delete"
    <2>1. i.ref # 1
      BY <1>1, <1>3 DEF Last
    <2>2. i.ref - 1 \in Refs
      BY <1>1, <2>1 DEF Refs
    <2>3. After(i) = FirstOf(i.ref - 1) /\ After(i).ref = i.ref - 1
      BY <1>3 DEF After, FirstOf, Step
    <2>4. After(i).operation = IF i.ref - 1 \in Archivable THEN "transition" ELSE "delete"
      BY <2>3 DEF FirstOf, Step
    <2>5. After(i) \in Steps
      BY <2>2, <2>3, StepMember
    <2>6. ASSUME NEW j \in Steps PROVE j \in Before(After(i)) <=> j \in Before(i) \cup {i}
      <3>1. /\ j.ref \in 1 .. N /\ j.operation \in {"delete", "transition"}
            /\ j.operation = "transition" => j.ref \in Archivable
            /\ j = Step(j.ref, j.operation)
        BY StepShape DEF Refs
      <3>2. j = i <=> j.ref = i.ref /\ j.operation = "delete"
        BY <1>1, <1>3, <3>1
      <3>3. j \in Before(After(i)) <=> j.ref > i.ref - 1
        BY <1>1, <2>3, <2>4, <3>1 DEF Before
      <3>4. j \in Before(i) <=> j.ref > i.ref \/ (j.ref = i.ref /\ j.operation = "transition")
        BY <1>1, <1>3, <3>1 DEF Before
      <3> QED BY <1>1, <3>1, <3>2, <3>3, <3>4
    <2> QED BY <2>5, <2>6 DEF Before
  <1> QED BY <1>1, <1>2, <1>3

LEMMA NotBeforeItself == ASSUME NEW i \in Steps PROVE i \notin Before(i) /\ Before(i) \subseteq Steps
  <1>1. i.ref \in 1 .. N /\ N \in Nat BY UndoAssumption, StepShape DEF Refs
  <1> QED BY <1>1 DEF Before

LEMMA AllDeleted == Deleted(Steps) = Refs
  <1>1. ASSUME NEW ref \in Refs PROVE ref \in Deleted(Steps)
    <2>1. Step(ref, "delete") \in Steps /\ Step(ref, "delete").operation = "delete" /\ Step(ref, "delete").ref = ref
      BY StepMember DEF Step
    <2> QED BY <2>1 DEF Deleted
  <1>2. ASSUME NEW ref \in Deleted(Steps) PROVE ref \in Refs
    BY <1>2, StepShape DEF Deleted
  <1> QED BY <1>1, <1>2

LEMMA DeletedGrows ==
  ASSUME NEW A \in SUBSET Steps, NEW B \in SUBSET Steps, A \subseteq B
  PROVE  Deleted(A) \subseteq Deleted(B)
  BY DEF Deleted

-----------------------------------------------------------------------------
(* The invariant, part by part.                                            *)


\* What the parts of a step do to the types.
LEMMA RequestTypes ==
  ASSUME TypeOK, NEW s \in Sessions
  PROVE  /\ Answered(s) => req' \in [Sessions -> Requests]
         /\ \A pc \in {"idle", "checking", "step", "ready", "sent", "settling"} :
               Goto(s, pc) => req' \in [Sessions -> Requests]
         /\ \A v \in Verdicts \cup {"denied", "unprepared"} :
               End(s, v) => req' \in [Sessions -> Requests]
         /\ \A v \in Verdicts, b \in BOOLEAN : Settled(s, v, b) => req' \in [Sessions -> Requests]
  <1>0. req \in [Sessions -> Requests] /\ req[s] \in Requests
    BY DEF TypeOK
  <1>1. Idle \in Requests
    BY PlanStarts DEF Idle, Requests
  <1>2. Answered(s) => req' \in [Sessions -> Requests]
    BY <1>0, <1>1 DEF Answered
  <1>3. ASSUME NEW pc \in {"idle", "checking", "step", "ready", "sent", "settling"}, Goto(s, pc)
        PROVE  req' \in [Sessions -> Requests]
    <2>1. [req[s] EXCEPT !.pc = pc] \in Requests
      BY <1>0 DEF Requests
    <2> QED BY <1>0, <1>3, <2>1 DEF Goto
  <1>4. ASSUME NEW v \in Verdicts \cup {"denied", "unprepared"}, End(s, v)
        PROVE  req' \in [Sessions -> Requests]
    <2>1. [req[s] EXCEPT !.pc = "settling", !.verdict = v] \in Requests
      BY <1>0 DEF Requests
    <2>2. req' = [req EXCEPT ![s] = [req[s] EXCEPT !.pc = "settling", !.verdict = v]]
      BY <1>0, <1>4 DEF End, Requests
    <2> QED BY <1>0, <2>1, <2>2
  <1>5. ASSUME NEW v \in Verdicts, NEW b \in BOOLEAN, Settled(s, v, b)
        PROVE  req' \in [Sessions -> Requests]
    <2> DEFINE known == IF v = "succeeded" THEN req[s].known \cup {req[s].at} ELSE req[s].known
    <2>1. req[s].at \in Steps /\ known \subseteq Steps
      BY <1>0 DEF Requests
    <2>2. [req[s] EXCEPT !.pc = "settling", !.known = known, !.verdict = v, !.degraded = ~b] \in Requests
      BY <1>0, <2>1 DEF Requests
    <2>3. req[s].at # Last => [req[s] EXCEPT !.pc = "step", !.at = After(req[s].at), !.known = known] \in Requests
      BY <1>0, <2>1, PlanGoesOn DEF Requests
    <2>4. \E q \in Requests : req' = [req EXCEPT ![s] = q]
      BY <1>5, <2>2, <2>3 DEF Settled
    <2> QED BY <1>0, <2>4
  <1> QED BY <1>2, <1>3, <1>4, <1>5

LEMMA OperationTypes ==
  ASSUME TypeOK, NEW s \in Sessions, NEW i \in Steps
  PROVE  /\ \A v \in Verdicts \cup {"executing"} :
               [op EXCEPT ![s].steps[i] = v] \in [Sessions -> Operations]
         /\ \A k \in Kinds \cup {"executing"} : [op EXCEPT ![s].status = k] \in [Sessions -> Operations]
         /\ [op EXCEPT ![s].dispatched = @ \cup {i}] \in [Sessions -> Operations]
  <1>0. op \in [Sessions -> Operations] /\ op[s] \in Operations
    BY DEF TypeOK
  <1>1. ASSUME NEW v \in Verdicts \cup {"executing"}
        PROVE  [op EXCEPT ![s].steps[i] = v] \in [Sessions -> Operations]
    <2>1. [op[s] EXCEPT !.steps[i] = v] \in Operations
      BY <1>0 DEF Operations
    <2> QED BY <1>0, <2>1
  <1>2. ASSUME NEW k \in Kinds \cup {"executing"}
        PROVE  [op EXCEPT ![s].status = k] \in [Sessions -> Operations]
    <2>1. [op[s] EXCEPT !.status = k] \in Operations
      BY <1>0 DEF Operations
    <2> QED BY <1>0, <2>1
  <1>3. [op EXCEPT ![s].dispatched = @ \cup {i}] \in [Sessions -> Operations]
    <2>1. [op[s] EXCEPT !.dispatched = @ \cup {i}] \in Operations
      BY <1>0 DEF Operations
    <2> QED BY <1>0, <2>1
  <1> QED BY <1>1, <1>2, <1>3

\* What the larger steps do to the rows.
LEMMA SettledEffect ==
  ASSUME TypeOK, NEW s \in Sessions, NEW v \in Verdicts, Settled(s, v, TRUE) \/ Settled(s, v, FALSE)
  PROVE  /\ \A t \in Sessions : t # s => req'[t] = req[t]
         /\ req'[s].known = IF v = "succeeded" THEN req[s].known \cup {req[s].at} ELSE req[s].known
         /\ \/ /\ v = "succeeded" /\ req[s].at # Last
               /\ req'[s].pc = "step" /\ req'[s].at = After(req[s].at)
            \/ /\ req'[s].pc = "settling" /\ req'[s].at = req[s].at /\ req'[s].verdict = v
               /\ v = "succeeded" /\ ~req'[s].degraded => req[s].at = Last
  <1> USE DEF TypeOK, Requests
  <1>1. CASE Settled(s, v, TRUE) /\ v = "succeeded" /\ req[s].at # Last BY <1>1 DEF Settled
  <1>2. CASE Settled(s, v, TRUE) /\ ~(v = "succeeded" /\ req[s].at # Last) BY <1>2 DEF Settled
  <1>3. CASE Settled(s, v, FALSE)
    <2> DEFINE known == IF v = "succeeded" THEN req[s].known \cup {req[s].at} ELSE req[s].known
    <2>1. req' = [req EXCEPT ![s] = [@ EXCEPT !.pc = "settling", !.known = known, !.verdict = v,
                                              !.degraded = TRUE]]
      BY <1>3 DEF Settled
    <2> HIDE DEF known
    <2>2. /\ req'[s].known = known /\ req'[s].pc = "settling" /\ req'[s].at = req[s].at
          /\ req'[s].verdict = v /\ req'[s].degraded
      BY <2>1
    <2> QED BY <2>1, <2>2 DEF known
  <1> QED BY <1>1, <1>2, <1>3

LEMMA AnswerEffect ==
  ASSUME TypeOK, NEW s \in Sessions, NEW v \in Verdicts, Answer(s, v) \/ AnswerDegraded(s, v)
  PROVE  /\ req[s].pc = "sent" /\ Verdict(req[s].at, v)
         /\ Settled(s, v, TRUE) \/ Settled(s, v, FALSE)
         /\ \A t \in Sessions : t # s => req'[t] = req[t]
         /\ \A t \in Sessions : op'[t].status = op[t].status /\ op'[t].dispatched = op[t].dispatched
         /\ UNCHANGED <<record, up, wire, applied, sent>>
  <1>a. Settled(s, v, TRUE) \/ Settled(s, v, FALSE)
    BY DEF Answer, AnswerDegraded
  <1>b. \A t \in Sessions : t # s => req'[t] = req[t]
    BY <1>a, SettledEffect
  <1> USE <1>a, <1>b DEF TypeOK, Operations, host, Quiet
  <1>1. CASE Answer(s, v) BY <1>1 DEF Answer
  <1>2. CASE AnswerDegraded(s, v)
    <2>1. op' = [op EXCEPT ![s].steps[req[s].at] = v] \/ op' = op
      BY <1>2 DEF AnswerDegraded
    <2>2. \A t \in Sessions : op'[t].status = op[t].status /\ op'[t].dispatched = op[t].dispatched
      BY <2>1
    <2> QED BY <1>2, <2>2 DEF AnswerDegraded
  <1> QED BY <1>1, <1>2

LEMMA DispatchEffect ==
  ASSUME TypeOK, NEW s \in Sessions, Dispatch(s)
  PROVE  /\ req[s].pc = "ready" /\ req[s].at \in Steps
         /\ req' = [req EXCEPT ![s].pc = "sent"]
         /\ \A t \in Sessions : op'[t].status = op[t].status
         /\ op'[s].dispatched = op[s].dispatched \cup {req[s].at}
         /\ \A t \in Sessions : t # s => op'[t].dispatched = op[t].dispatched
         /\ sent' = [sent EXCEPT ![req[s].at] = @ + 1]
         /\ wire' = wire \cup {req[s].at}
         /\ UNCHANGED <<record, up, applied>>
  BY DEF Dispatch, TypeOK, Operations, Requests, Goto

LEMMA RestartEffect ==
  ASSUME TypeOK, Restart
  PROVE  /\ ~up
         /\ \A s \in Sessions :
               /\ op'[s].dispatched = op[s].dispatched
               /\ op'[s].status = IF op[s].status # "executing" THEN op[s].status
                                  ELSE IF op[s].dispatched # {} THEN "outcome_unknown" ELSE "definitive_failed"
         /\ record'.status = IF record.status # "executing" THEN record.status
                             ELSE IF op[Home].status = "executing" /\ op[Home].dispatched = {}
                             THEN "failed" ELSE "outcome_unknown"
         /\ record'.remaining = record.remaining
         /\ UNCHANGED <<req, wire, applied, sent>>
  <1> USE DEF TypeOK, Operations, Records, host
  <1>1. ~up /\ UNCHANGED <<req, wire, applied, sent>>
    BY DEF Restart
  <1>2. ASSUME NEW s \in Sessions
        PROVE  /\ op'[s].dispatched = op[s].dispatched
               /\ op'[s].status = IF op[s].status # "executing" THEN op[s].status
                                  ELSE IF op[s].dispatched # {} THEN "outcome_unknown" ELSE "definitive_failed"
    BY DEF Restart, WasDispatched
  <1>3. /\ record'.status = IF record.status # "executing" THEN record.status
                            ELSE IF op[Home].status = "executing" /\ op[Home].dispatched = {}
                            THEN "failed" ELSE "outcome_unknown"
        /\ record'.remaining = record.remaining
    BY DEF Restart, WasDispatched
  <1> QED BY <1>1, <1>2, <1>3


LEMMA TypeNext == IInv /\ [Next]_vars => TypeOK'
  <1> SUFFICES ASSUME IInv, [Next]_vars PROVE TypeOK'
    OBVIOUS
  <1>0. TypeOK /\ RequestInv
    BY DEF IInv
  <1>a. \A s \in Sessions : req[s] \in Requests /\ req[s].at \in Steps
    BY <1>0 DEF TypeOK, Requests
  <1>b. /\ {MaxCrashes, MaxFaults} \subseteq Nat /\ crashes \in 0 .. MaxCrashes /\ faults \in 0 .. MaxFaults
        /\ record \in Records /\ op \in [Sessions -> Operations] /\ req \in [Sessions -> Requests]
        /\ up \in BOOLEAN /\ wire \subseteq Steps /\ applied \subseteq Steps /\ sent \in [Steps -> Nat]
    BY <1>0, UndoAssumption DEF TypeOK
  <1>c. \A k \in Final \cup {"executing", "expired", "gone"} :
           [record EXCEPT !.status = k] \in Records /\ [record EXCEPT !.due = TRUE] \in Records
    BY <1>b DEF Records
  <1>d. Expired \in Records
    BY <1>b DEF Records, Expired
  <1> USE <1>0, <1>b, RequestTypes, OperationTypes DEF db, host, Quiet
  <1>1. ASSUME NEW s \in Sessions, Begin(s) PROVE TypeOK'
    BY <1>1 DEF Begin, TypeOK
  <1>2. ASSUME NEW s \in Sessions, Refuse(s) PROVE TypeOK'
    BY <1>2 DEF Refuse, TypeOK
  <1>3. ASSUME NEW s \in Sessions, Start(s) PROVE TypeOK'
    <2>1. req' \in [Sessions -> Requests] /\ op' \in [Sessions -> Operations]
      BY <1>3, PlanStarts DEF Start
    <2> QED BY <1>3, <1>c, <2>1 DEF Start, TypeOK
  <1>4. ASSUME NEW s \in Sessions, StartLost(s) PROVE TypeOK'
    BY <1>4 DEF StartLost, TypeOK
  <1>5. ASSUME NEW s \in Sessions, PolicyDenies(s) PROVE TypeOK'
    BY <1>5 DEF PolicyDenies, TypeOK
  <1>6. ASSUME NEW s \in Sessions, Unprepared(s) PROVE TypeOK'
    BY <1>6 DEF Unprepared, TypeOK
  <1>7. ASSUME NEW s \in Sessions, BeginStep(s) PROVE TypeOK'
    BY <1>7, <1>a DEF BeginStep, TypeOK
  <1>8. ASSUME NEW s \in Sessions, NotDispatched(s) PROVE TypeOK'
    <2>1. "definitive_failed" \in Verdicts
      BY DEF Verdicts
    <2> QED BY <1>8, <1>a, <2>1 DEF NotDispatched, TypeOK
  <1>9. ASSUME NEW s \in Sessions, Dispatch(s) PROVE TypeOK'
    BY SMTT(30), <1>9, <1>a DEF Dispatch, TypeOK
  <1>10. ASSUME NEW s \in Sessions, NEW v \in Verdicts, Answer(s, v) PROVE TypeOK'
    BY <1>10, <1>a DEF Answer, TypeOK
  <1>11. ASSUME NEW s \in Sessions, NEW v \in Verdicts, AnswerDegraded(s, v) PROVE TypeOK'
    <2>a. op' = [op EXCEPT ![s].steps[req[s].at] = v] \/ op' = op
      BY <1>11 DEF AnswerDegraded
    <2>d. [op EXCEPT ![s].steps[req[s].at] = v] \in [Sessions -> Operations]
      BY <1>a
    <2>b. op' \in [Sessions -> Operations]
      BY <2>a, <2>d
    <2>c. req' \in [Sessions -> Requests]
      BY <1>11 DEF AnswerDegraded
    <2>1. req' \in [Sessions -> Requests] /\ op' \in [Sessions -> Operations]
      BY <2>b, <2>c
    <2> QED BY <1>11, <2>1 DEF AnswerDegraded, TypeOK
  <1>12. ASSUME NEW s \in Sessions, Settle(s) PROVE TypeOK'
    <2>1. Status(s) \in Final
      BY DEF Status, Final
    <2>2. Kind(Status(s)) \in Kinds
      BY DEF Kind, Kinds
    <2>3. RemainingAfter(s) \subseteq Refs
      BY DEF RemainingAfter
    <2>4. record' \in Records
      BY <1>12, <2>1, <2>3 DEF Settle, Records
    <2>5. op' \in [Sessions -> Operations] /\ req' \in [Sessions -> Requests]
      BY <1>12, <2>2, PlanStarts DEF Settle
    <2> QED BY <1>12, <2>4, <2>5 DEF Settle, TypeOK
  <1>13. ASSUME NEW s \in Sessions, SettleFails(s) PROVE TypeOK'
    <2>1. faults' \in 0 .. MaxFaults
      BY <1>13 DEF SettleFails
    <2> QED BY <1>13, <2>1 DEF SettleFails, TypeOK
  <1>14. ASSUME NEW s \in Sessions, RequestDies(s) PROVE TypeOK'
    BY <1>14 DEF RequestDies, TypeOK
  <1>15. CASE BeginExpired
    BY <1>15, <1>d DEF BeginExpired, TypeOK
  <1>16. CASE Due
    BY <1>16, <1>c DEF Due, TypeOK
  <1>17. CASE Prune
    <2>1. record' = Expired \/ record' = [record EXCEPT !.status = "gone"]
      BY <1>17 DEF Prune
    <2>2. record' \in Records
      BY <1>d, <2>1 DEF Records
    <2> QED BY <1>17, <2>2 DEF Prune, TypeOK
  <1>18. ASSUME NEW i \in Steps, HostDecides(i) PROVE TypeOK'
    BY <1>18 DEF HostDecides, TypeOK
  <1>19. CASE Crash
    <2>1. req' \in [Sessions -> Requests]
      BY <1>19, PlanStarts DEF Crash, Idle, Requests
    <2>2. crashes' \in 0 .. MaxCrashes
      BY <1>19 DEF Crash
    <2>3. up' \in BOOLEAN /\ UNCHANGED <<record, op, wire, applied, sent, faults>>
      BY <1>19 DEF Crash
    <2> QED BY <2>1, <2>2, <2>3 DEF TypeOK
  <1>20. CASE Restart
    <2>1. ASSUME NEW s \in Sessions
          PROVE  [op[s] EXCEPT !.steps = [i \in Steps |-> RecoveredStep(s, i)],
                               !.status = IF @ # "executing" THEN @
                                          ELSE IF WasDispatched(s) THEN "outcome_unknown" ELSE "definitive_failed"]
                 \in Operations
      <3>1. op[s] \in Operations
        BY <2>1
      <3>2. [i \in Steps |-> RecoveredStep(s, i)] \in [Steps -> Verdicts \cup {"none", "executing"}]
        BY <3>1 DEF RecoveredStep, Operations, Verdicts
      <3> QED BY <3>1, <3>2 DEF Operations, Kinds
    <2>2. op' \in [Sessions -> Operations]
      BY <1>20, <2>1 DEF Restart
    <2>3. record' \in Records
      BY <1>20 DEF Restart, Records, Final
    <2> QED BY <1>20, <2>2, <2>3 DEF Restart, TypeOK
  <1>21. CASE UNCHANGED vars
    BY <1>21 DEF vars, TypeOK
  <1> QED
    BY <1>1, <1>2, <1>3, <1>4, <1>5, <1>6, <1>7, <1>8, <1>9, <1>10, <1>11, <1>12, <1>13, <1>14,
       <1>15, <1>16, <1>17, <1>18, <1>19, <1>20, <1>21 DEF Next, Request

LEMMA ClaimNext == IInv /\ [Next]_vars => ClaimInv'
  <1> SUFFICES ASSUME IInv, [Next]_vars PROVE ClaimInv'
    OBVIOUS
  <1>0. TypeOK /\ ClaimInv
    BY DEF IInv
  <1> USE <1>0 DEF TypeOK, Operations, Requests, Records, ClaimInv, Active, Working, db,
        host, Quiet, Goto, Answered
  <1>1. ASSUME NEW s \in Sessions, Begin(s) PROVE ClaimInv'
    BY <1>1 DEF Begin
  <1>2. ASSUME NEW s \in Sessions, Refuse(s) PROVE ClaimInv'
    BY <1>2 DEF Refuse, Idle
  <1>3. ASSUME NEW s \in Sessions, Start(s) PROVE ClaimInv'
    BY <1>3 DEF Start, Usable
  <1>4. ASSUME NEW s \in Sessions, StartLost(s) PROVE ClaimInv'
    BY <1>4 DEF StartLost, Idle
  <1>5. ASSUME NEW s \in Sessions, PolicyDenies(s) PROVE ClaimInv'
    BY <1>5 DEF PolicyDenies, End
  <1>6. ASSUME NEW s \in Sessions, Unprepared(s) PROVE ClaimInv'
    BY <1>6 DEF Unprepared, End
  <1>7. ASSUME NEW s \in Sessions, BeginStep(s) PROVE ClaimInv'
    BY <1>7 DEF BeginStep
  <1>8. ASSUME NEW s \in Sessions, NotDispatched(s) PROVE ClaimInv'
    BY <1>8 DEF NotDispatched, End
  <1>9. ASSUME NEW s \in Sessions, Dispatch(s) PROVE ClaimInv'
    BY <1>9 DEF Dispatch
  <1>10. ASSUME NEW s \in Sessions, NEW v \in Verdicts, Answer(s, v) PROVE ClaimInv'
    BY <1>10 DEF Answer, Settled
  <1>11. ASSUME NEW s \in Sessions, NEW v \in Verdicts, AnswerDegraded(s, v) PROVE ClaimInv'
    <2>a. req[s].pc = "sent"
      BY <1>11, AnswerEffect
    <2>b. \A t \in Sessions : t # s => req'[t] = req[t]
      BY <1>11, AnswerEffect
    <2>2. \A t \in Sessions : /\ Active(t)' => Active(t)
                              /\ req[t].pc = "idle" => req'[t].pc = "idle"
      BY <2>a, <2>b
    <2>3. /\ \A t \in Sessions : op'[t].status = op[t].status /\ op'[t].dispatched = op[t].dispatched
          /\ UNCHANGED <<record, up>>
      BY <1>11, AnswerEffect
    <2> QED BY <2>2, <2>3
  <1>12. ASSUME NEW s \in Sessions, Settle(s) PROVE ClaimInv'
    BY <1>12 DEF Settle, Idle, Status, Kind
  <1>13. ASSUME NEW s \in Sessions, SettleFails(s) PROVE ClaimInv'
    BY <1>13 DEF SettleFails, Idle
  <1>14. ASSUME NEW s \in Sessions, RequestDies(s) PROVE ClaimInv'
    BY <1>14 DEF RequestDies, Idle
  <1>15. CASE BeginExpired
    BY <1>15 DEF BeginExpired, Expired
  <1>16. CASE Due
    BY <1>16 DEF Due
  <1>17. CASE Prune
    <2>1. UNCHANGED <<op, req, up>>
      BY <1>17 DEF Prune
    <2>2. CASE record.status = "available" /\ record' = Expired
      BY <2>1, <2>2 DEF Expired
    <2>3. CASE (\A s \in Sessions : req[s] = Idle) /\ record' = [record EXCEPT !.status = "gone"]
      BY <2>1, <2>3 DEF Idle
    <2> QED BY <1>17, <2>2, <2>3 DEF Prune
  <1>18. ASSUME NEW i \in Steps, HostDecides(i) PROVE ClaimInv'
    BY <1>18 DEF HostDecides
  <1>19. CASE Crash
    BY <1>19 DEF Crash, Idle
  <1>20. CASE Restart
    <2>1. \A s \in Sessions : ~Active(s)'
      BY <1>20, RestartEffect
    <2>2. /\ \A s \in Sessions : /\ op'[s].status = "none" <=> op[s].status = "none"
                                 /\ op'[s].dispatched = op[s].dispatched
          /\ record'.status \in {"available", "expired", "executing"} => record'.status = record.status
          /\ record'.remaining = record.remaining
          /\ UNCHANGED req
      BY <1>20, RestartEffect
    <2> QED BY <1>20, <2>1, <2>2, RestartEffect
  <1>21. CASE UNCHANGED vars
    BY <1>21 DEF vars
  <1> HIDE DEF TypeOK, Operations, Requests, Records, ClaimInv, Active, Working, db, host,
        Quiet, Goto, Answered
  <1> QED
    BY <1>1, <1>2, <1>3, <1>4, <1>5, <1>6, <1>7, <1>8, <1>9, <1>10, <1>11, <1>12, <1>13,
       <1>14, <1>15, <1>16, <1>17, <1>18, <1>19, <1>20, <1>21 DEF Next, Request

LEMMA SentNext == IInv /\ [Next]_vars => SentInv'
  <1> SUFFICES ASSUME IInv, [Next]_vars PROVE SentInv'
    OBVIOUS
  <1>0. TypeOK /\ ClaimInv /\ SentInv /\ RequestInv
    BY DEF IInv
  <1> USE <1>0 DEF TypeOK, Operations, Requests, Records, SentInv, Spent, db, host, Quiet,
        Goto, Answered
  <1>1. ASSUME NEW s \in Sessions, Begin(s) PROVE SentInv'
    BY <1>1 DEF Begin
  <1>2. ASSUME NEW s \in Sessions, Refuse(s) PROVE SentInv'
    BY <1>2 DEF Refuse
  <1>3. ASSUME NEW s \in Sessions, Start(s) PROVE SentInv'
    BY <1>3 DEF Start, Usable
  <1>4. ASSUME NEW s \in Sessions, StartLost(s) PROVE SentInv'
    BY <1>4 DEF StartLost
  <1>5. ASSUME NEW s \in Sessions, PolicyDenies(s) PROVE SentInv'
    BY <1>5 DEF PolicyDenies, End
  <1>6. ASSUME NEW s \in Sessions, Unprepared(s) PROVE SentInv'
    BY <1>6 DEF Unprepared, End
  <1>7. ASSUME NEW s \in Sessions, BeginStep(s) PROVE SentInv'
    BY <1>7 DEF BeginStep
  <1>8. ASSUME NEW s \in Sessions, NotDispatched(s) PROVE SentInv'
    BY <1>8 DEF NotDispatched, End
  <1>9. ASSUME NEW s \in Sessions, Dispatch(s) PROVE SentInv'
    <2>1. Spent = Before(req[s].at) /\ req[s].at \notin Spent /\ sent[req[s].at] = 0
      BY <1>9, DispatchEffect, NotBeforeItself DEF RequestInv
    <2>2. Spent' = Spent \cup {req[s].at}
      BY <1>9, <2>1, DispatchEffect
    <2>3. \A i \in Steps : /\ sent'[i] \in {0, 1}
                           /\ sent'[i] = 1 => \E t \in Sessions : i \in op'[t].dispatched
      <3> SUFFICES ASSUME NEW i \in Steps
                   PROVE  /\ sent'[i] \in {0, 1}
                          /\ sent'[i] = 1 => \E t \in Sessions : i \in op'[t].dispatched
        OBVIOUS
      <3>1. CASE i = req[s].at
        BY SMTT(30), <1>9, <2>1, <3>1, DispatchEffect
      <3>2. CASE i # req[s].at
        <4>1. sent'[i] = sent[i]
          BY <1>9, <3>2, DispatchEffect
        <4>2. \A t \in Sessions : op[t].dispatched \subseteq op'[t].dispatched
          BY <1>9, DispatchEffect
        <4> QED BY <4>1, <4>2
      <3> QED BY <3>1, <3>2
    <2> HIDE DEF Spent
    <2>4. \A t \in Sessions : op'[t].dispatched \subseteq Spent'
      BY ZenonT(30), <1>9, <2>2, DispatchEffect
    <2>5. wire' \cup applied' \subseteq Spent' /\ wire' \cap applied' = {}
      BY <1>9, <2>1, <2>2, DispatchEffect
    <2> QED BY <2>3, <2>4, <2>5
  <1>10. ASSUME NEW s \in Sessions, NEW v \in Verdicts, Answer(s, v) PROVE SentInv'
    BY <1>10 DEF Answer, Settled
  <1>11. ASSUME NEW s \in Sessions, NEW v \in Verdicts, AnswerDegraded(s, v) PROVE SentInv'
    BY <1>11, AnswerEffect
  <1>12. ASSUME NEW s \in Sessions, Settle(s) PROVE SentInv'
    BY <1>12 DEF Settle, Status, Kind
  <1>13. ASSUME NEW s \in Sessions, SettleFails(s) PROVE SentInv'
    BY <1>13 DEF SettleFails
  <1>14. ASSUME NEW s \in Sessions, RequestDies(s) PROVE SentInv'
    BY <1>14 DEF RequestDies
  <1>15. CASE BeginExpired
    BY <1>15 DEF BeginExpired, Expired
  <1>16. CASE Due
    BY <1>16 DEF Due
  <1>17. CASE Prune
    BY <1>17 DEF Prune, Expired, Final
  <1>18. ASSUME NEW i \in Steps, HostDecides(i) PROVE SentInv'
    BY <1>18 DEF HostDecides
  <1>19. CASE Crash
    BY <1>19 DEF Crash
  <1>20. CASE Restart
    BY <1>20, RestartEffect
  <1>21. CASE UNCHANGED vars
    BY <1>21 DEF vars
  <1> HIDE DEF TypeOK, Operations, Requests, Records, SentInv, Spent, db, host, Quiet, Goto,
        Answered
  <1> QED
    BY <1>1, <1>2, <1>3, <1>4, <1>5, <1>6, <1>7, <1>8, <1>9, <1>10, <1>11, <1>12, <1>13,
       <1>14, <1>15, <1>16, <1>17, <1>18, <1>19, <1>20, <1>21 DEF Next, Request

LEMMA AnswerKeeps ==
  ASSUME IInv, NEW s \in Sessions, NEW v \in Verdicts, Answer(s, v) \/ AnswerDegraded(s, v)
  PROVE  RequestInv'
  <1>0. TypeOK /\ ClaimInv /\ SentInv /\ RequestInv
    BY DEF IInv
  <1>1. /\ req[s].pc = "sent" /\ Verdict(req[s].at, v)
        /\ \A t \in Sessions : op'[t].status = op[t].status /\ op'[t].dispatched = op[t].dispatched
        /\ UNCHANGED <<record, up, wire, applied, sent>>
    BY <1>0, AnswerEffect
  <1>2. Settled(s, v, TRUE) \/ Settled(s, v, FALSE)
    BY <1>0, AnswerEffect
  <1> DEFINE i == req[s].at
             k == req[s].known
  <1>3. /\ i \in Steps /\ k = Before(i) /\ k \subseteq applied /\ Spent = k \cup {i}
        /\ wire \cup applied \subseteq Spent /\ wire \cap applied = {}
    BY <1>0, <1>1 DEF TypeOK, Requests, RequestInv, SentInv
  <1>4. Spent' = Spent
    BY <1>1 DEF Spent
  <1>5. ASSUME NEW t \in Sessions, t # s
        PROVE  req'[t] = req[t] /\ req[t].pc \in {"idle", "checking"}
    <2>1. ~Active(t)
      BY <1>0, <1>1, <1>5 DEF ClaimInv, Active, Working
    <2>2. req'[t] = req[t]
      BY <1>0, <1>2, <1>5, SettledEffect
    <2>3. req[t].pc \in {"idle", "checking", "step", "ready", "sent", "settling"}
      BY <1>0 DEF TypeOK, Requests
    <2> QED BY <2>1, <2>2, <2>3 DEF Active, Working
  <1>6. v = "succeeded" => wire = {} /\ applied = k \cup {i}
    BY <1>1, <1>3 DEF Verdict
  <1>7. v = "definitive_failed" => wire = {} /\ applied = k
    BY <1>1, <1>3 DEF Verdict
  <1>8. req'[s].known \subseteq applied
    BY <1>0, <1>2, <1>3, <1>6, SettledEffect
  <1>a. /\ req'[s].known = IF v = "succeeded" THEN k \cup {i} ELSE k
        /\ \/ /\ v = "succeeded" /\ i # Last
              /\ req'[s].pc = "step" /\ req'[s].at = After(i)
           \/ /\ req'[s].pc = "settling" /\ req'[s].at = i /\ req'[s].verdict = v
              /\ v = "succeeded" /\ ~req'[s].degraded => i = Last
    BY <1>0, <1>2, SettledEffect
  <1> HIDE DEF i, k
  <1>9. CASE req'[s].pc = "step"
    <2>1. v = "succeeded" /\ i # Last /\ req'[s].at = After(i) /\ req'[s].known = k \cup {i}
      BY <1>9, <1>a
    <2>2. Before(After(i)) = k \cup {i}
      BY <1>3, <2>1, PlanGoesOn
    <2>3. /\ req'[s].known = Before(req'[s].at)
          /\ wire' = {} /\ applied' = req'[s].known /\ Spent' = req'[s].known
      BY <1>1, <1>3, <1>4, <1>6, <2>1, <2>2
    <2>4. \A t \in Sessions : t # s => /\ req'[t].pc \in {"idle", "checking"}
                                       /\ req'[t].at = First /\ req'[t].known = {}
      BY <1>0, <1>5 DEF RequestInv
    <2> QED BY <1>9, <2>3, <2>4 DEF RequestInv
  <1>10. CASE req'[s].pc = "settling"
    <2>1. /\ req'[s].verdict = v /\ req'[s].at = i
          /\ req'[s].known = IF v = "succeeded" THEN k \cup {i} ELSE k
          /\ v = "succeeded" /\ ~req'[s].degraded => i = Last
      BY <1>10, <1>a
    <2>2. v = "succeeded" /\ ~req'[s].degraded => req'[s].known = Steps
      BY <1>3, <2>1, PlanEnds
    <2>3. v # "none" /\ (v # "outcome_unknown" => v \in {"succeeded", "definitive_failed"})
      BY DEF Verdicts
    <2>4. EndInv(s)'
      BY <1>1, <1>3, <1>6, <1>7, <1>8, <2>1, <2>2, <2>3 DEF EndInv
    <2> QED BY <1>0, <1>1, <1>4, <1>5, <1>10, <2>4 DEF RequestInv
  <1> QED BY <1>9, <1>10, <1>a


LEMMA RequestNext == IInv /\ [Next]_vars => RequestInv'
  <1> SUFFICES ASSUME IInv, [Next]_vars PROVE RequestInv'
    OBVIOUS
  <1>0. TypeOK /\ ClaimInv /\ SentInv /\ RequestInv
    BY DEF IInv
  <1> USE <1>0 DEF TypeOK, Operations, Requests, Records, RequestInv, EndInv, Spent, db,
        host, Quiet, Goto, Answered
  <1>1. ASSUME NEW s \in Sessions, Begin(s) PROVE RequestInv'
    BY <1>1 DEF Begin
  <1>2. ASSUME NEW s \in Sessions, Refuse(s) PROVE RequestInv'
    BY <1>2 DEF Refuse, Idle
  <1>3. ASSUME NEW s \in Sessions, Start(s) PROVE RequestInv'
    <2>1. /\ req[s].pc = "checking" /\ record.status = "available"
          /\ req' = [req EXCEPT ![s].pc = "step"] /\ UNCHANGED <<wire, applied, sent>>
      BY <1>3 DEF Start, Usable
    <2>2. \A t \in Sessions : op[t].dispatched = {} /\ ~Active(t)
      BY <2>1 DEF ClaimInv
    <2>3. Spent = {}
      BY <2>2 DEF SentInv
    <2>4. wire = {} /\ applied = {}
      BY <2>3 DEF SentInv
    <2>5. req[s].at = First /\ req[s].known = {}
      BY <2>1
    <2>6. Spent' = {} /\ wire' = {} /\ applied' = {}
      BY <2>1, <2>3, <2>4
    <2>7. req'[s].pc = "step" /\ req'[s].at = First /\ req'[s].known = {}
      BY <2>1, <2>5
    <2>8. ASSUME NEW t \in Sessions, t # s
          PROVE  req'[t] = req[t] /\ req'[t].pc \in {"idle", "checking"}
      <3>1. req'[t] = req[t] BY <2>1, <2>8
      <3> QED BY <2>2, <3>1 DEF Active, Working
    <2>9. \A t \in Sessions : t # s => req'[t].at = First /\ req'[t].known = {}
      BY <2>8
    <2> HIDE DEF Spent
    <2> QED BY <2>6, <2>7, <2>8, <2>9, PlanStarts
  <1>4. ASSUME NEW s \in Sessions, StartLost(s) PROVE RequestInv'
    BY <1>4 DEF StartLost, Idle
  <1>5. ASSUME NEW s \in Sessions, PolicyDenies(s) PROVE RequestInv'
    BY <1>5 DEF PolicyDenies, End
  <1>6. ASSUME NEW s \in Sessions, Unprepared(s) PROVE RequestInv'
    BY <1>6 DEF Unprepared, End
  <1>7. ASSUME NEW s \in Sessions, BeginStep(s) PROVE RequestInv'
    BY <1>7 DEF BeginStep
  <1>8. ASSUME NEW s \in Sessions, NotDispatched(s) PROVE RequestInv'
    BY <1>8 DEF NotDispatched, End
  <1>9. ASSUME NEW s \in Sessions, Dispatch(s) PROVE RequestInv'
    <2>1. Spent = Before(req[s].at) /\ req[s].at \notin Spent /\ sent[req[s].at] = 0
      BY <1>9, DispatchEffect, NotBeforeItself
    <2>2. Spent' = Spent \cup {req[s].at}
      BY <1>9, <2>1, DispatchEffect
    <2>3. \A t \in Sessions : t # s => ~Active(t)
      BY <1>9, DispatchEffect DEF ClaimInv, Active, Working
    <2> HIDE DEF Spent
    <2> QED BY SMTT(30), <1>9, <2>1, <2>2, <2>3, DispatchEffect DEF Active, Working
  <1>10. ASSUME NEW s \in Sessions, NEW v \in Verdicts, Answer(s, v) PROVE RequestInv'
    BY <1>10, AnswerKeeps DEF Answer, AnswerDegraded
  <1>11. ASSUME NEW s \in Sessions, NEW v \in Verdicts, AnswerDegraded(s, v) PROVE RequestInv'
    BY <1>11, AnswerKeeps DEF Answer, AnswerDegraded
  <1>12. ASSUME NEW s \in Sessions, Settle(s) PROVE RequestInv'
    BY <1>12 DEF Settle, Idle, Status, Kind
  <1>13. ASSUME NEW s \in Sessions, SettleFails(s) PROVE RequestInv'
    BY <1>13 DEF SettleFails, Idle
  <1>14. ASSUME NEW s \in Sessions, RequestDies(s) PROVE RequestInv'
    BY <1>14 DEF RequestDies, Idle
  <1>15. CASE BeginExpired
    BY <1>15 DEF BeginExpired, Expired
  <1>16. CASE Due
    BY <1>16 DEF Due
  <1>17. CASE Prune
    BY <1>17 DEF Prune, Expired, Final
  <1>18. ASSUME NEW i \in Steps, HostDecides(i) PROVE RequestInv'
    BY <1>18 DEF HostDecides
  <1>19. CASE Crash
    BY <1>19 DEF Crash, Idle
  <1>20. CASE Restart
    BY <1>20 DEF Restart, RecoveredStep, WasDispatched
  <1>21. CASE UNCHANGED vars
    BY <1>21 DEF vars
  <1> HIDE DEF TypeOK, Operations, Requests, Records, RequestInv, EndInv, Spent, db, host,
        Quiet, Goto, Answered
  <1> QED
    BY <1>1, <1>2, <1>3, <1>4, <1>5, <1>6, <1>7, <1>8, <1>9, <1>10, <1>11, <1>12, <1>13,
       <1>14, <1>15, <1>16, <1>17, <1>18, <1>19, <1>20, <1>21 DEF Next, Request

LEMMA FailedNext == IInv /\ [Next]_vars => FailedInv'
  <1> SUFFICES ASSUME IInv, [Next]_vars PROVE FailedInv'
    OBVIOUS
  <1>0. TypeOK /\ ClaimInv /\ SentInv /\ RequestInv /\ FailedInv
    BY DEF IInv
  <1> USE <1>0 DEF TypeOK, Operations, Requests, Records, FailedInv, db, host, Quiet, Goto,
        Answered
  <1>1. ASSUME NEW s \in Sessions, Begin(s) PROVE FailedInv'
    BY <1>1 DEF Begin
  <1>2. ASSUME NEW s \in Sessions, Refuse(s) PROVE FailedInv'
    BY <1>2 DEF Refuse
  <1>3. ASSUME NEW s \in Sessions, Start(s) PROVE FailedInv'
    BY <1>3 DEF Start, Usable
  <1>4. ASSUME NEW s \in Sessions, StartLost(s) PROVE FailedInv'
    BY <1>4 DEF StartLost
  <1>5. ASSUME NEW s \in Sessions, PolicyDenies(s) PROVE FailedInv'
    BY <1>5 DEF PolicyDenies, End
  <1>6. ASSUME NEW s \in Sessions, Unprepared(s) PROVE FailedInv'
    BY <1>6 DEF Unprepared, End
  <1>7. ASSUME NEW s \in Sessions, BeginStep(s) PROVE FailedInv'
    BY <1>7 DEF BeginStep
  <1>8. ASSUME NEW s \in Sessions, NotDispatched(s) PROVE FailedInv'
    BY <1>8 DEF NotDispatched, End
  <1>9. ASSUME NEW s \in Sessions, Dispatch(s) PROVE FailedInv'
    <2>1. \A t \in Sessions : op[t].status = "definitive_failed" => t # s /\ req[s].at \notin op[t].dispatched
      <3>1. op[s].status = "executing"
        BY <1>9, DispatchEffect DEF ClaimInv, Active, Working
      <3> QED BY <3>1 DEF ClaimInv
    <2> QED BY <1>9, <2>1, DispatchEffect
  <1>10. ASSUME NEW s \in Sessions, NEW v \in Verdicts, Answer(s, v) PROVE FailedInv'
    BY <1>10 DEF Answer, Settled
  <1>11. ASSUME NEW s \in Sessions, NEW v \in Verdicts, AnswerDegraded(s, v) PROVE FailedInv'
    BY <1>11, AnswerEffect
  <1>12. ASSUME NEW s \in Sessions, Settle(s) PROVE FailedInv'
    <2>1. /\ op' = [op EXCEPT ![s].status = Kind(Status(s))] /\ UNCHANGED <<wire, applied>>
          /\ EndInv(s)
      BY <1>12 DEF Settle, RequestInv
    <2>2. Kind(Status(s)) = "definitive_failed" => wire = {} /\ applied = {}
      <3>1. Status(s) \in {"undone", "partially_undone", "failed", "outcome_unknown"}
        BY DEF Status
      <3>2. Kind(Status(s)) = "definitive_failed" => Status(s) = "failed"
        BY <3>1 DEF Kind
      <3> QED BY <2>1, <3>2 DEF Status, EndInv
    <2> QED BY <2>1, <2>2
  <1>13. ASSUME NEW s \in Sessions, SettleFails(s) PROVE FailedInv'
    BY <1>13 DEF SettleFails
  <1>14. ASSUME NEW s \in Sessions, RequestDies(s) PROVE FailedInv'
    BY <1>14 DEF RequestDies
  <1>15. CASE BeginExpired
    BY <1>15 DEF BeginExpired, Expired
  <1>16. CASE Due
    BY <1>16 DEF Due
  <1>17. CASE Prune
    BY <1>17 DEF Prune, Expired, Final
  <1>18. ASSUME NEW i \in Steps, HostDecides(i) PROVE FailedInv'
    BY <1>18 DEF HostDecides
  <1>19. CASE Crash
    BY <1>19 DEF Crash
  <1>20. CASE Restart
    BY SMTT(30), <1>20, RestartEffect
  <1>21. CASE UNCHANGED vars
    BY <1>21 DEF vars
  <1> HIDE DEF TypeOK, Operations, Requests, Records, FailedInv, db, host, Quiet, Goto,
        Answered
  <1> QED
    BY <1>1, <1>2, <1>3, <1>4, <1>5, <1>6, <1>7, <1>8, <1>9, <1>10, <1>11, <1>12, <1>13,
       <1>14, <1>15, <1>16, <1>17, <1>18, <1>19, <1>20, <1>21 DEF Next, Request

LEMMA TruthNext == IInv /\ [Next]_vars => UndoIsTruthful'
  <1> SUFFICES ASSUME IInv, [Next]_vars PROVE UndoIsTruthful'
    OBVIOUS
  <1>0. /\ TypeOK /\ ClaimInv /\ SentInv /\ RequestInv /\ UndoIsTruthful
        /\ \A s \in Sessions : op'[s].status = "definitive_failed" => op'[s].dispatched \cap applied' = {}
    BY FailedNext DEF IInv, FailedInv
  <1> USE <1>0 DEF TypeOK, Operations, Requests, Records, Final, UndoIsTruthful, db, host, Quiet,
        Goto, Answered
  <1>1. ASSUME NEW s \in Sessions, Begin(s) PROVE UndoIsTruthful'
    BY <1>1 DEF Begin
  <1>2. ASSUME NEW s \in Sessions, Refuse(s) PROVE UndoIsTruthful'
    BY <1>2 DEF Refuse
  <1>3. ASSUME NEW s \in Sessions, Start(s) PROVE UndoIsTruthful'
    BY <1>3 DEF Start, Usable
  <1>4. ASSUME NEW s \in Sessions, StartLost(s) PROVE UndoIsTruthful'
    BY <1>4 DEF StartLost
  <1>5. ASSUME NEW s \in Sessions, PolicyDenies(s) PROVE UndoIsTruthful'
    BY <1>5 DEF PolicyDenies, End
  <1>6. ASSUME NEW s \in Sessions, Unprepared(s) PROVE UndoIsTruthful'
    BY <1>6 DEF Unprepared, End
  <1>7. ASSUME NEW s \in Sessions, BeginStep(s) PROVE UndoIsTruthful'
    BY <1>7 DEF BeginStep
  <1>8. ASSUME NEW s \in Sessions, NotDispatched(s) PROVE UndoIsTruthful'
    BY <1>8 DEF NotDispatched, End
  <1>9. ASSUME NEW s \in Sessions, Dispatch(s) PROVE UndoIsTruthful'
    <2>1. record.status = "executing"
      BY <1>9, DispatchEffect DEF ClaimInv, Active, Working
    <2> QED BY <1>9, <2>1, DispatchEffect
  <1>10. ASSUME NEW s \in Sessions, NEW v \in Verdicts, Answer(s, v) PROVE UndoIsTruthful'
    BY <1>10 DEF Answer, Settled
  <1>11. ASSUME NEW s \in Sessions, NEW v \in Verdicts, AnswerDegraded(s, v) PROVE UndoIsTruthful'
    BY <1>11, AnswerEffect
  <1>12. ASSUME NEW s \in Sessions, Settle(s) PROVE UndoIsTruthful'
    <2>1. /\ record'.status = Status(s) /\ record'.remaining = RemainingAfter(s)
          /\ UNCHANGED <<wire, applied>>
      BY <1>12 DEF Settle
    <2>2. req[s].known \subseteq applied /\ req[s].known \subseteq Steps /\ applied \subseteq Steps
      BY <1>12 DEF Settle, RequestInv, EndInv
    <2>3. Deleted(req[s].known) \subseteq Deleted(applied)
      BY <2>2, DeletedGrows
    <2>4. /\ req[s].verdict # "none"
          /\ req[s].verdict # "outcome_unknown" => wire = {} /\ applied = req[s].known
          /\ req[s].verdict = "succeeded" => req[s].at \in req[s].known
          /\ req[s].verdict = "succeeded" /\ ~req[s].degraded => req[s].known = Steps
      BY <1>12 DEF Settle, RequestInv, EndInv
    <2>5. Status(s) \in {"undone", "partially_undone", "failed", "outcome_unknown"}
      BY DEF Status
    <2>6. CASE Status(s) = "outcome_unknown"
      BY <2>1, <2>3, <2>6 DEF RemainingAfter
    <2>7. CASE Status(s) = "failed"
      <3>1. req[s].known = {} /\ wire = {} /\ applied = {}
        BY <2>4, <2>7 DEF Status
      <3> QED BY <2>1, <2>3, <2>7, <3>1 DEF RemainingAfter
    <2>8. CASE Status(s) = "partially_undone"
      <3>0. req[s].verdict \in Verdicts \cup {"none", "denied", "unprepared"}
        OBVIOUS
      <3>1. req[s].verdict # "outcome_unknown"
        BY <2>8 DEF Status
      <3>2. req[s].known # {}
        BY <2>4, <2>8, <3>0, <3>1 DEF Status, Verdicts
      <3>3. wire = {} /\ applied = req[s].known
        BY <2>4, <3>1
      <3> QED BY <2>1, <2>8, <3>2, <3>3 DEF RemainingAfter
    <2>9. CASE Status(s) = "undone"
      <3>1. req[s].verdict = "succeeded" /\ (RemainingAfter(s) = {} \/ ~req[s].degraded)
        BY <2>4, <2>9 DEF Status, Verdicts
      <3>2. RemainingAfter(s) = {}
        BY <2>4, <3>1, AllDeleted DEF RemainingAfter
      <3> QED BY <2>1, <2>4, <2>9, <3>1, <3>2 DEF RemainingAfter
    <2> QED BY <2>5, <2>6, <2>7, <2>8, <2>9
  <1>13. ASSUME NEW s \in Sessions, SettleFails(s) PROVE UndoIsTruthful'
    BY <1>13 DEF SettleFails
  <1>14. ASSUME NEW s \in Sessions, RequestDies(s) PROVE UndoIsTruthful'
    BY <1>14 DEF RequestDies
  <1>15. CASE BeginExpired
    BY <1>15 DEF BeginExpired, Expired
  <1>16. CASE Due
    BY <1>16 DEF Due
  <1>17. CASE Prune
    BY <1>17 DEF Prune, Expired, Final
  <1>18. ASSUME NEW i \in Steps, HostDecides(i) PROVE UndoIsTruthful'
    <2>1. record.status \notin {"failed", "partially_undone"}
      BY <1>18 DEF HostDecides
    <2>2. Deleted(applied) \subseteq Deleted(applied')
      <3>1. applied \in SUBSET Steps /\ applied' \in SUBSET Steps /\ applied \subseteq applied'
        BY <1>18 DEF HostDecides
      <3> HIDE DEF Deleted
      <3> QED BY <3>1, DeletedGrows
    <2> HIDE DEF Final
    <2> QED BY <1>18, <2>1, <2>2 DEF HostDecides
  <1>19. CASE Crash
    BY <1>19 DEF Crash
  <1>20. CASE Restart
    <2>1. UNCHANGED <<wire, applied>> /\ record'.remaining = record.remaining
      BY <1>20, RestartEffect
    <2>2. CASE record.status # "executing"
      BY <1>20, <2>1, <2>2, RestartEffect
    <2>3. CASE record.status = "executing" /\ op[Home].status = "executing" /\ op[Home].dispatched = {}
      <3>1. \A s \in Sessions : op[s].dispatched = {}
        BY <2>3, UndoAssumption DEF ClaimInv
      <3>2. Spent = {}
        BY <3>1 DEF SentInv, Spent
      <3>3. wire = {} /\ applied = {} /\ record.remaining = Refs
        BY <2>3, <3>2 DEF SentInv, ClaimInv
      <3> QED BY <1>20, <2>1, <2>3, <3>3, RestartEffect
    <2>4. CASE record.status = "executing" /\ ~(op[Home].status = "executing" /\ op[Home].dispatched = {})
      <3>1. record.remaining = Refs /\ record'.status = "outcome_unknown"
        BY <1>20, <2>4, RestartEffect DEF ClaimInv
      <3> QED BY <1>20, <2>1, <3>1
    <2> QED BY <2>2, <2>3, <2>4
  <1>21. CASE UNCHANGED vars
    BY <1>21 DEF vars
  <1> HIDE DEF TypeOK, Operations, Requests, Records, Final, UndoIsTruthful, db, host, Quiet, Goto,
        Answered
  <1> QED
    BY <1>1, <1>2, <1>3, <1>4, <1>5, <1>6, <1>7, <1>8, <1>9, <1>10, <1>11, <1>12, <1>13,
       <1>14, <1>15, <1>16, <1>17, <1>18, <1>19, <1>20, <1>21 DEF Next, Request

LEMMA OnceNext == IInv /\ [Next]_vars => ReversedOnce'
  <1> SUFFICES ASSUME IInv, [Next]_vars PROVE ReversedOnce'
    OBVIOUS
  <1>0. TypeOK /\ ClaimInv /\ SentInv /\ RequestInv /\ ReversedOnce
    BY DEF IInv
  <1> USE <1>0 DEF TypeOK, Operations, Requests, Records, ReversedOnce, db, host, Quiet,
        Goto, Answered
  <1>1. ASSUME NEW s \in Sessions, Begin(s) PROVE ReversedOnce'
    BY <1>1 DEF Begin
  <1>2. ASSUME NEW s \in Sessions, Refuse(s) PROVE ReversedOnce'
    BY <1>2 DEF Refuse
  <1>3. ASSUME NEW s \in Sessions, Start(s) PROVE ReversedOnce'
    BY <1>3 DEF Start
  <1>4. ASSUME NEW s \in Sessions, StartLost(s) PROVE ReversedOnce'
    BY <1>4 DEF StartLost
  <1>5. ASSUME NEW s \in Sessions, PolicyDenies(s) PROVE ReversedOnce'
    BY <1>5 DEF PolicyDenies, End
  <1>6. ASSUME NEW s \in Sessions, Unprepared(s) PROVE ReversedOnce'
    BY <1>6 DEF Unprepared, End
  <1>7. ASSUME NEW s \in Sessions, BeginStep(s) PROVE ReversedOnce'
    BY <1>7 DEF BeginStep
  <1>8. ASSUME NEW s \in Sessions, NotDispatched(s) PROVE ReversedOnce'
    BY <1>8 DEF NotDispatched, End
  <1>9. ASSUME NEW s \in Sessions, Dispatch(s) PROVE ReversedOnce'
    <2>1. Spent = Before(req[s].at) /\ applied = Before(req[s].at)
      BY <1>9, DispatchEffect DEF RequestInv
    <2>2. sent[req[s].at] = 0
      BY <1>9, <2>1, DispatchEffect, NotBeforeItself DEF Spent
    <2> QED BY <1>9, <2>1, <2>2, DispatchEffect
  <1>10. ASSUME NEW s \in Sessions, NEW v \in Verdicts, Answer(s, v) PROVE ReversedOnce'
    BY <1>10 DEF Answer, Settled
  <1>11. ASSUME NEW s \in Sessions, NEW v \in Verdicts, AnswerDegraded(s, v) PROVE ReversedOnce'
    BY <1>11 DEF AnswerDegraded, Settled
  <1>12. ASSUME NEW s \in Sessions, Settle(s) PROVE ReversedOnce'
    BY <1>12 DEF Settle
  <1>13. ASSUME NEW s \in Sessions, SettleFails(s) PROVE ReversedOnce'
    BY <1>13 DEF SettleFails
  <1>14. ASSUME NEW s \in Sessions, RequestDies(s) PROVE ReversedOnce'
    BY <1>14 DEF RequestDies
  <1>15. CASE BeginExpired
    BY <1>15 DEF BeginExpired
  <1>16. CASE Due
    BY <1>16 DEF Due
  <1>17. CASE Prune
    BY <1>17 DEF Prune
  <1>18. ASSUME NEW i \in Steps, HostDecides(i) PROVE ReversedOnce'
    BY <1>18 DEF HostDecides
  <1>19. CASE Crash
    BY <1>19 DEF Crash
  <1>20. CASE Restart
    BY <1>20 DEF Restart
  <1>21. CASE UNCHANGED vars
    BY <1>21 DEF vars
  <1> HIDE DEF TypeOK, Operations, Requests, Records, ReversedOnce, db, host, Quiet, Goto,
        Answered
  <1> QED
    BY <1>1, <1>2, <1>3, <1>4, <1>5, <1>6, <1>7, <1>8, <1>9, <1>10, <1>11, <1>12, <1>13,
       <1>14, <1>15, <1>16, <1>17, <1>18, <1>19, <1>20, <1>21 DEF Next, Request

LEMMA InvInit == Init => IInv
  <1> SUFFICES ASSUME Init PROVE IInv
    OBVIOUS
  <1>1. TypeOK
    <2>1. Idle \in Requests
      BY PlanStarts DEF Idle, Requests
    <2>2. NoOperation \in Operations
      BY DEF NoOperation, Operations
    <2>3. record \in Records
      BY DEF Init, Records
    <2> QED BY <2>1, <2>2, <2>3, UndoAssumption DEF Init, TypeOK
  <1>2. ClaimInv /\ FailedInv
    BY DEF Init, ClaimInv, FailedInv, NoOperation, Idle, Active, Working
  <1>3. SentInv
    BY DEF Init, SentInv, NoOperation, Spent
  <1>4. RequestInv
    BY DEF Init, RequestInv, Idle
  <1>5. UndoIsTruthful /\ ReversedOnce
    BY DEF Init, UndoIsTruthful, ReversedOnce, Final, NoOperation
  <1> QED BY <1>1, <1>2, <1>3, <1>4, <1>5 DEF IInv

LEMMA InvNext == IInv /\ [Next]_vars => IInv'
  BY TypeNext, ClaimNext, SentNext, RequestNext, FailedNext, TruthNext, OnceNext DEF IInv

-----------------------------------------------------------------------------
(* Every reachable state of the record, its operations and the requests is *)
(* well typed: a settlement stores only kinds its row admits.              *)
THEOREM TypesHold == Spec => []TypeOK
  <1>1. IInv => TypeOK BY DEF IInv
  <1> QED BY InvInit, InvNext, <1>1, PTL DEF Spec

(* The record of an undo never claims more nor less than what happened:    *)
(* through degraded journals, lost settlements, crashes and late answers.  *)
THEOREM UndosStayTruthful == Spec => []UndoIsTruthful
  <1>1. IInv => UndoIsTruthful BY DEF IInv
  <1> QED BY InvInit, InvNext, <1>1, PTL DEF Spec

(* However many sessions use the record, each deletion is sent at most     *)
(* once, and only when all that had to go before it is gone.               *)
THEOREM ReversalsHappenOnce == Spec => []ReversedOnce
  <1>1. IInv => ReversedOnce BY DEF IInv
  <1> QED BY InvInit, InvNext, <1>1, PTL DEF Spec
=============================================================================
