------------------------- MODULE CommitClaimsProofs -------------------------
(***************************************************************************)
(* The idempotency ledger keeps the commits of one intent apart, for every *)
(* number of sessions and crashes and for all periods that satisfy         *)
(* ClaimAssumption.                                                        *)
(***************************************************************************)
EXTENDS CommitClaims, TLAPS

\* How long a running commit may go without touching its claim.
Silence == Beat * (MaxMissed + 1)

Holder(c) == pc[c] = "committing" \/ (pc[c] = "returned" /\ bound[c])

\* A confirmation is used once, and only by the request that consumed it.
RequestInv == \A c \in Confs :
    /\ ~up => pc[c] = "idle"
    /\ pc[c] # "idle" => status[c] = "executing"
    /\ status[c] = "pending" \/ pc[c] = "started" => ~bound[c] /\ effects[c] = {}
    /\ status[c] = "pending" => result[c] = "none"
    /\ status[c] = "executing" => result[c] = "outcome_unknown"
    /\ pc[c] = "committing" => bound[c]
    /\ bound[c] => source[c] = c /\ result[c] # "none"
    /\ status[c] = "pending" \/ pc[c] = "started" => source[c] = c
    /\ pc[c] = "returned" => out[c] \in Final

\* Whoever holds the claim inserted it and touched it recently.
ClaimInv ==
    /\ row.at <= now
    /\ row.state = "done" => /\ row.from \in Confs
                             /\ source[row.from] = row.from /\ result[row.from] # "none"
    /\ \A c \in Confs : Holder(c) => row.state = "open" /\ owner = c /\ now <= row.at + Silence
    /\ \A c \in Confs : pc[c] = "committing" =>
         now <= beat[c] /\ missed[c] <= MaxMissed /\ beat[c] <= row.at + Beat * (missed[c] + 1)

\* A change is as old as the window, or the row still stands for it, unless its
\* commit failed.
Old(s) == now + Silence > s + Window
Covered(d, s) == row.state # "absent" /\ s <= row.at + Silence /\ \A c \in Confs : Holder(c) => c = d
CoverInv == \A d \in Confs : \A s \in effects[d] :
    s <= now /\ (d \in failed \/ Old(s) \/ Covered(d, s))

\* What is returned and stored is true of the commit it is about.
AnswerInv == \A c \in Confs :
    /\ pc[c] = "returned" /\ out[c] \in {"succeeded", "partial"} => effects[source[c]] # {}
    /\ pc[c] = "returned" /\ out[c] = "definitive_failed" =>
          effects[c] = {} \/ c \in failed
    /\ result[c] \in {"succeeded", "partial"} => effects[source[c]] # {}

IInv == TypeOK /\ RequestInv /\ ClaimInv /\ CoverInv /\ EffectsAreApart /\ AnswerInv /\ AnswersAreTruthful
-----------------------------------------------------------------------------
LEMMA Periods ==
    /\ Beat \in Nat \ {0} /\ TTL \in Nat /\ Window \in Nat /\ Retention \in Nat
    /\ MaxMissed \in Nat /\ Silence \in Nat
    /\ Silence <= Window /\ Window <= Retention /\ None \notin Confs
<1>1. {Beat, TTL, Window, Retention} \subseteq Nat \ {0} /\ MaxMissed \in Nat
  BY ClaimAssumption
<1>2. Silence \in Nat
  BY <1>1 DEF Silence
<1> QED
  BY <1>1, <1>2, ClaimAssumption DEF Silence

\* Silence is the longest of the gaps the heartbeat allows.
LEMMA Gaps ==
  ASSUME NEW m \in Nat, m <= MaxMissed
  PROVE  /\ Beat * (m + 1) <= Silence
         /\ Beat * (m + 1) + Beat = Beat * (m + 1 + 1)
         /\ Beat * (0 + 1) = Beat
         /\ Beat * (m + 1) \in Nat
  BY Periods DEF Silence

LEMMA InvInit == Init => IInv
<1> SUFFICES ASSUME Init PROVE IInv
  OBVIOUS
<1>1. TypeOK
  BY DEF Init, TypeOK, Status, Final, Row, Absent
<1>2. RequestInv /\ ClaimInv
  BY DEF Init, RequestInv, ClaimInv, Holder, Absent
<1>3. CoverInv /\ EffectsAreApart
  BY DEF Init, CoverInv, EffectsAreApart
<1>4. AnswerInv /\ AnswersAreTruthful
  BY DEF Init, AnswerInv, AnswersAreTruthful
<1> QED
  BY <1>1, <1>2, <1>3, <1>4 DEF IInv

LEMMA ConfirmStep == ASSUME IInv, NEW c \in Confs, Confirm(c) PROVE IInv'
<1> USE DEF Confirm, rows, memory, history
<1>1. TypeOK'
  BY Periods DEF IInv, TypeOK, Status, Final, Row, RequestInv, ClaimInv
<1>2. RequestInv'
  BY DEF IInv, TypeOK, RequestInv, Final, ClaimInv
<1>3. ClaimInv'
  BY Periods, Gaps DEF IInv, TypeOK, Row, RequestInv, ClaimInv, Holder
<1>4. CoverInv'
  BY Periods DEF IInv, TypeOK, Row, RequestInv, ClaimInv, CoverInv, AnswerInv, Old, Covered, Holder
<1>5. EffectsAreApart'
  BY DEF IInv, EffectsAreApart, Apart
<1>6. AnswerInv' /\ AnswersAreTruthful'
  BY DEF IInv, TypeOK, RequestInv, ClaimInv, AnswerInv, AnswersAreTruthful
<1> QED
  BY <1>1, <1>2, <1>3, <1>4, <1>5, <1>6 DEF IInv

LEMMA RefuseStep == ASSUME IInv, NEW c \in Confs, Refuse(c) PROVE IInv'
<1> USE DEF Refuse, Answer, rows, memory, history
<1>1. TypeOK'
  BY Periods DEF IInv, TypeOK, Status, Final, Row, RequestInv, ClaimInv
<1>2. RequestInv'
  BY DEF IInv, TypeOK, RequestInv, Final, ClaimInv
<1>3. ClaimInv'
  BY Periods, Gaps DEF IInv, TypeOK, Row, RequestInv, ClaimInv, Holder
<1>4. CoverInv'
  BY Periods DEF IInv, TypeOK, Row, RequestInv, ClaimInv, CoverInv, AnswerInv, Old, Covered, Holder
<1>5. EffectsAreApart'
  BY DEF IInv, EffectsAreApart, Apart
<1>6. AnswerInv' /\ AnswersAreTruthful'
  BY DEF IInv, TypeOK, RequestInv, ClaimInv, AnswerInv, AnswersAreTruthful
<1> QED
  BY <1>1, <1>2, <1>3, <1>4, <1>5, <1>6 DEF IInv

LEMMA ClaimWonStep == ASSUME IInv, NEW c \in Confs, ClaimWon(c) PROVE IInv'
<1> USE DEF ClaimWon, Free, Swept, rows, memory, history
<1>1. TypeOK'
  BY Periods DEF IInv, TypeOK, Status, Final, Row, RequestInv, ClaimInv
<1>2. RequestInv'
  BY DEF IInv, TypeOK, RequestInv, Final, ClaimInv
<1>3. ClaimInv'
  BY Periods, Gaps DEF IInv, TypeOK, Row, RequestInv, ClaimInv, Holder
<1>4. CoverInv'
  BY Periods DEF IInv, TypeOK, Row, RequestInv, ClaimInv, CoverInv, AnswerInv, Old, Covered, Holder
<1>5. EffectsAreApart'
  BY DEF IInv, EffectsAreApart, Apart
<1>6. AnswerInv' /\ AnswersAreTruthful'
  BY DEF IInv, TypeOK, RequestInv, ClaimInv, AnswerInv, AnswersAreTruthful
<1> QED
  BY <1>1, <1>2, <1>3, <1>4, <1>5, <1>6 DEF IInv

LEMMA ClaimUnboundStep == ASSUME IInv, NEW c \in Confs, ClaimUnbound(c) PROVE IInv'
<1> USE DEF ClaimUnbound, Answer, Free, Swept, rows, memory, history
<1>1. TypeOK'
  BY Periods DEF IInv, TypeOK, Status, Final, Row, RequestInv, ClaimInv
<1>2. RequestInv'
  BY DEF IInv, TypeOK, RequestInv, Final, ClaimInv
<1>3. ClaimInv'
  BY Periods, Gaps DEF IInv, TypeOK, Row, RequestInv, ClaimInv, Holder
<1>4. CoverInv'
  BY Periods DEF IInv, TypeOK, Row, RequestInv, ClaimInv, CoverInv, AnswerInv, Old, Covered, Holder
<1>5. EffectsAreApart'
  BY DEF IInv, EffectsAreApart, Apart
<1>6. AnswerInv' /\ AnswersAreTruthful'
  BY DEF IInv, TypeOK, RequestInv, ClaimInv, AnswerInv, AnswersAreTruthful
<1> QED
  BY <1>1, <1>2, <1>3, <1>4, <1>5, <1>6 DEF IInv

LEMMA ClaimReplaysStep == ASSUME IInv, NEW c \in Confs, ClaimReplays(c) PROVE IInv'
<1> USE DEF ClaimReplays, Answer, rows, memory, history
<1>1. TypeOK'
  BY Periods DEF IInv, TypeOK, Status, Final, Row, RequestInv, ClaimInv
<1>2. RequestInv'
  BY DEF IInv, TypeOK, RequestInv, Final, ClaimInv
<1>3. ClaimInv'
  BY Periods, Gaps DEF IInv, TypeOK, Row, RequestInv, ClaimInv, Holder
<1>4. CoverInv'
  BY Periods DEF IInv, TypeOK, Row, RequestInv, ClaimInv, CoverInv, AnswerInv, Old, Covered, Holder
<1>5. EffectsAreApart'
  BY DEF IInv, EffectsAreApart, Apart
<1>6. AnswerInv' /\ AnswersAreTruthful'
  BY DEF IInv, TypeOK, RequestInv, ClaimInv, AnswerInv, AnswersAreTruthful
<1> QED
  BY <1>1, <1>2, <1>3, <1>4, <1>5, <1>6 DEF IInv

LEMMA ClaimUnknownStep == ASSUME IInv, NEW c \in Confs, ClaimUnknown(c) PROVE IInv'
<1> USE DEF ClaimUnknown, Answer, rows, memory, history
<1>1. TypeOK'
  BY Periods DEF IInv, TypeOK, Status, Final, Row, RequestInv, ClaimInv
<1>2. RequestInv'
  BY DEF IInv, TypeOK, RequestInv, Final, ClaimInv
<1>3. ClaimInv'
  BY Periods, Gaps DEF IInv, TypeOK, Row, RequestInv, ClaimInv, Holder
<1>4. CoverInv'
  BY Periods DEF IInv, TypeOK, Row, RequestInv, ClaimInv, CoverInv, AnswerInv, Old, Covered, Holder
<1>5. EffectsAreApart'
  BY DEF IInv, EffectsAreApart, Apart
<1>6. AnswerInv' /\ AnswersAreTruthful'
  BY DEF IInv, TypeOK, RequestInv, ClaimInv, AnswerInv, AnswersAreTruthful
<1> QED
  BY <1>1, <1>2, <1>3, <1>4, <1>5, <1>6 DEF IInv

LEMMA ClaimInFlightStep == ASSUME IInv, NEW c \in Confs, ClaimInFlight(c) PROVE IInv'
<1> USE DEF ClaimInFlight, Answer, rows, memory, history
<1>1. TypeOK'
  BY Periods DEF IInv, TypeOK, Status, Final, Row, RequestInv, ClaimInv
<1>2. RequestInv'
  BY DEF IInv, TypeOK, RequestInv, Final, ClaimInv
<1>3. ClaimInv'
  BY Periods, Gaps DEF IInv, TypeOK, Row, RequestInv, ClaimInv, Holder
<1>4. CoverInv'
  BY Periods DEF IInv, TypeOK, Row, RequestInv, ClaimInv, CoverInv, AnswerInv, Old, Covered, Holder
<1>5. EffectsAreApart'
  BY DEF IInv, EffectsAreApart, Apart
<1>6. AnswerInv' /\ AnswersAreTruthful'
  BY DEF IInv, TypeOK, RequestInv, ClaimInv, AnswerInv, AnswersAreTruthful
<1> QED
  BY <1>1, <1>2, <1>3, <1>4, <1>5, <1>6 DEF IInv

LEMMA HeartbeatStep == ASSUME IInv, NEW c \in Confs, Heartbeat(c) PROVE IInv'
<1> USE DEF Heartbeat, Touched, rows, memory, history
<1>1. TypeOK'
  BY SMTT(30), Periods DEF IInv, TypeOK, Status, Final, Row, RequestInv, ClaimInv
<1>2. RequestInv'
  BY DEF IInv, TypeOK, RequestInv, Final, ClaimInv
<1>3. ClaimInv'
  BY Periods, Gaps DEF IInv, TypeOK, Row, RequestInv, ClaimInv, Holder
<1>4. CoverInv'
  BY Periods DEF IInv, TypeOK, Row, RequestInv, ClaimInv, CoverInv, AnswerInv, Old, Covered, Holder
<1>5. EffectsAreApart'
  BY DEF IInv, EffectsAreApart, Apart
<1>6. AnswerInv' /\ AnswersAreTruthful'
  BY DEF IInv, TypeOK, RequestInv, ClaimInv, AnswerInv, AnswersAreTruthful
<1> QED
  BY <1>1, <1>2, <1>3, <1>4, <1>5, <1>6 DEF IInv

LEMMA HeartbeatFailsStep == ASSUME IInv, NEW c \in Confs, HeartbeatFails(c) PROVE IInv'
<1> USE DEF HeartbeatFails, rows, memory, history
<1>1. TypeOK'
  BY Periods DEF IInv, TypeOK, Status, Final, Row, RequestInv, ClaimInv
<1>2. RequestInv'
  BY DEF IInv, TypeOK, RequestInv, Final, ClaimInv
<1>3. ClaimInv'
  BY SMTT(30), Periods, Gaps DEF IInv, TypeOK, Row, RequestInv, ClaimInv, Holder
<1>4. CoverInv'
  BY Periods DEF IInv, TypeOK, Row, RequestInv, ClaimInv, CoverInv, AnswerInv, Old, Covered, Holder
<1>5. EffectsAreApart'
  BY DEF IInv, EffectsAreApart, Apart
<1>6. AnswerInv' /\ AnswersAreTruthful'
  BY DEF IInv, TypeOK, RequestInv, ClaimInv, AnswerInv, AnswersAreTruthful
<1> QED
  BY <1>1, <1>2, <1>3, <1>4, <1>5, <1>6 DEF IInv

LEMMA EffectStep == ASSUME IInv, NEW c \in Confs, Effect(c) PROVE IInv'
<1> USE DEF Effect, rows, memory, history
<1>1. TypeOK'
  BY Periods DEF IInv, TypeOK, Status, Final, Row, RequestInv, ClaimInv
<1>2. RequestInv'
  BY DEF IInv, TypeOK, RequestInv, Final, ClaimInv
<1>3. ClaimInv'
  BY Periods, Gaps DEF IInv, TypeOK, Row, RequestInv, ClaimInv, Holder
<1>4. CoverInv'
  BY Periods DEF IInv, TypeOK, Row, RequestInv, ClaimInv, CoverInv, AnswerInv, Old, Covered, Holder
<1>5. EffectsAreApart'
  <2>1. \A d \in Confs : d # c =>
          /\ effects'[d] = effects[d]
          /\ \A s \in effects[d] : s <= now /\ (d \in failed \/ Old(s))
    BY DEF IInv, TypeOK, CoverInv, Covered, Holder
  <2>2. effects'[c] = effects[c] \cup {now} /\ effects \in [Confs -> SUBSET Nat]
    BY DEF IInv, TypeOK
  <2>3. ASSUME NEW d \in Confs, d # c, NEW s \in effects[d], d \notin failed
        PROVE  Apart(s, now) /\ s < now
    <3>1. Old(s) /\ s \in Nat /\ now \in Nat
      BY <2>1, <2>2, <2>3 DEF IInv, TypeOK
    <3> QED
      BY <3>1, Periods DEF Old, Apart, Silence
  <2>4. \A d, e \in Confs : d # c /\ e # c /\ d # e =>
           \A s \in effects'[d], t \in effects'[e] : s <= t =>
              Apart(s, t) \/ d \in failed \/ (s = t /\ e \in failed)
    BY <2>1 DEF IInv, EffectsAreApart
  <2>5. \A d \in Confs : d # c =>
           \A s \in effects'[d], t \in effects'[c] : s <= t =>
              Apart(s, t) \/ d \in failed \/ (s = t /\ c \in failed)
    BY <2>1, <2>2, <2>3 DEF IInv, EffectsAreApart
  <2>6. \A d \in Confs : d # c =>
           \A s \in effects'[c], t \in effects'[d] : s <= t =>
              Apart(s, t) \/ c \in failed \/ (s = t /\ d \in failed)
    <3> SUFFICES ASSUME NEW d \in Confs, d # c, NEW s \in effects'[c], NEW t \in effects'[d], s <= t
                 PROVE  Apart(s, t) \/ c \in failed \/ (s = t /\ d \in failed)
      OBVIOUS
    <3>1. CASE s \in effects[c]
      BY <2>1, <3>1 DEF IInv, EffectsAreApart
    <3>2. CASE s = now
      <4>1. t \in effects[d] /\ t \in Nat /\ now \in Nat /\ t <= now
        BY <2>1, <2>2 DEF IInv, TypeOK
      <4> QED BY <2>3, <3>2, <4>1
    <3> QED BY <2>2, <3>1, <3>2
  <2> QED
    BY <2>4, <2>5, <2>6 DEF EffectsAreApart, Apart
<1>6. AnswerInv' /\ AnswersAreTruthful'
  BY DEF IInv, TypeOK, RequestInv, ClaimInv, AnswerInv, AnswersAreTruthful
<1> QED
  BY <1>1, <1>2, <1>3, <1>4, <1>5, <1>6 DEF IInv

LEMMA SettleStep == ASSUME IInv, NEW c \in Confs, Settle(c) PROVE IInv'
<1> USE DEF Settle, Absent, rows, memory, history
<1>1. TypeOK'
  BY Periods DEF IInv, TypeOK, Status, Final, Row, RequestInv, ClaimInv
<1>2. RequestInv'
  BY DEF IInv, TypeOK, RequestInv, Final, ClaimInv
<1>3. ClaimInv'
  <2>1. CASE ~bound[c]
    <3>1. row' = row /\ UNCHANGED <<now, source, owner, beat, missed>>
      BY <2>1
    <3>2. \A d \in Confs : /\ Holder(d)' => Holder(d)
                           /\ pc'[d] = "committing" => pc[d] = "committing"
                           /\ result[d] # "none" => result'[d] # "none"
      BY <2>1 DEF IInv, TypeOK, RequestInv, Final, Holder
    <3> QED
      BY <3>1, <3>2 DEF IInv, ClaimInv
  <2>2. CASE bound[c]
    <3>1. \A d \in Confs : Holder(d) => d = c
      BY <2>2 DEF IInv, ClaimInv, Holder
    <3>2. \A d \in Confs : ~Holder(d)'
      BY <3>1 DEF IInv, TypeOK, Holder
    <3>3. row.state = "open"
      BY <2>2 DEF IInv, ClaimInv, Holder
    <3>4. row'.at <= now /\ (row'.state = "done" => row'.from = c /\ out[c] # "definitive_failed")
      BY <3>3 DEF IInv, TypeOK, ClaimInv, Row
    <3>5. result'[c] # "none" /\ source[c] = c
      BY <2>2 DEF IInv, TypeOK, RequestInv, Final
    <3> QED
      BY <3>2, <3>4, <3>5 DEF ClaimInv, Holder
  <2> QED
    BY <2>1, <2>2
<1>4. CoverInv'
  BY Periods DEF IInv, TypeOK, Row, RequestInv, ClaimInv, CoverInv, AnswerInv, Old, Covered, Holder
<1>5. EffectsAreApart'
  BY DEF IInv, EffectsAreApart, Apart
<1>6. AnswerInv' /\ AnswersAreTruthful'
  BY DEF IInv, TypeOK, RequestInv, ClaimInv, AnswerInv, AnswersAreTruthful
<1> QED
  BY <1>1, <1>2, <1>3, <1>4, <1>5, <1>6 DEF IInv

LEMMA SettleFailsStep == ASSUME IInv, NEW c \in Confs, SettleFails(c) PROVE IInv'
<1> USE DEF SettleFails, rows, memory, history
<1>1. TypeOK'
  BY Periods DEF IInv, TypeOK, Status, Final, Row, RequestInv, ClaimInv
<1>2. RequestInv'
  BY DEF IInv, TypeOK, RequestInv, Final, ClaimInv
<1>3. ClaimInv'
  BY Periods, Gaps DEF IInv, TypeOK, Row, RequestInv, ClaimInv, Holder
<1>4. CoverInv'
  BY Periods DEF IInv, TypeOK, Row, RequestInv, ClaimInv, CoverInv, AnswerInv, Old, Covered, Holder
<1>5. EffectsAreApart'
  BY DEF IInv, EffectsAreApart, Apart
<1>6. AnswerInv' /\ AnswersAreTruthful'
  BY DEF IInv, TypeOK, RequestInv, ClaimInv, AnswerInv, AnswersAreTruthful
<1> QED
  BY <1>1, <1>2, <1>3, <1>4, <1>5, <1>6 DEF IInv

LEMMA CloseStep == ASSUME IInv, NEW c \in Confs, NEW k \in {"cancelled", "expired"}, Close(c, k) PROVE IInv'
<1> USE DEF Close, rows, memory, history
<1>1. TypeOK'
  BY DEF IInv, TypeOK, Status, Final
<1>2. RequestInv'
  BY DEF IInv, TypeOK, RequestInv, Final
<1>3. ClaimInv'
  BY DEF IInv, TypeOK, RequestInv, ClaimInv, Holder
<1>4. CoverInv' /\ EffectsAreApart'
  BY DEF IInv, CoverInv, EffectsAreApart, Apart, Old, Covered, Holder
<1>5. AnswerInv' /\ AnswersAreTruthful'
  BY DEF IInv, TypeOK, AnswerInv, AnswersAreTruthful
<1> QED
  BY <1>1, <1>2, <1>3, <1>4, <1>5 DEF IInv

LEMMA ReturnStep == ASSUME IInv, NEW c \in Confs, NEW o \in Final, Return(c, o) PROVE IInv'
<1> USE DEF Return, Answer, Truthful, rows, memory, history
<1>1. /\ row.state = "open" /\ bound[c] /\ owner = c /\ now <= row.at + Silence
      /\ \A d \in Confs : Holder(d) => d = c
  BY DEF IInv, RequestInv, ClaimInv, Holder
<1>2. \/ UNCHANGED <<row, bound>>
      \/ o = "definitive_failed" /\ row' = Absent /\ bound' = [bound EXCEPT ![c] = FALSE]
  BY <1>1 DEF Released
<1>3. TypeOK'
  <2>1. row' \in Row
    BY <1>2 DEF IInv, TypeOK, Row, Absent
  <2>2. bound' \in [Confs -> BOOLEAN]
    BY <1>2 DEF IInv, TypeOK
  <2>3. out' \in [Confs -> Final \cup {"none"}]
    BY DEF IInv, TypeOK
  <2> QED
    BY <2>1, <2>2, <2>3 DEF IInv, TypeOK
<1>4. RequestInv'
  BY <1>2 DEF IInv, TypeOK, RequestInv
<1>5. ClaimInv'
  BY <1>1, <1>2 DEF IInv, TypeOK, ClaimInv, Holder, Absent
<1>6. CoverInv'
  BY <1>1, <1>2 DEF IInv, TypeOK, CoverInv, Old, Covered, Holder, Absent
<1>7. EffectsAreApart'
  <2>1. failed \subseteq failed' /\ effects' = effects
    OBVIOUS
  <2> QED BY <2>1 DEF IInv, EffectsAreApart, Apart
<1>8. AnswerInv' /\ AnswersAreTruthful'
  BY <1>1 DEF IInv, TypeOK, RequestInv, AnswerInv, AnswersAreTruthful
<1> QED
  BY <1>3, <1>4, <1>5, <1>6, <1>7, <1>8 DEF IInv

LEMMA PruneStep == ASSUME IInv, Prune PROVE IInv'
<1> USE DEF Prune, Absent, rows, memory, history
<1>1. TypeOK'
  BY DEF IInv, TypeOK, Row
<1>2. \A c \in Confs : ~Holder(c)
  BY Periods DEF IInv, TypeOK, Row, ClaimInv
<1>3. RequestInv'
  BY DEF IInv, RequestInv
<1>4. ClaimInv'
  BY <1>2 DEF IInv, TypeOK, ClaimInv, Holder
<1>5. CoverInv'
  BY Periods DEF IInv, TypeOK, Row, CoverInv, Old, Covered
<1>6. EffectsAreApart' /\ AnswerInv' /\ AnswersAreTruthful'
  BY DEF IInv, EffectsAreApart, Apart, AnswerInv, AnswersAreTruthful
<1> QED
  BY <1>1, <1>3, <1>4, <1>5, <1>6 DEF IInv

LEMMA TickStep == ASSUME IInv, Tick PROVE IInv'
<1> USE DEF Tick, rows, memory, history
<1>1. TypeOK'
  BY DEF IInv, TypeOK
<1>2. RequestInv'
  BY DEF IInv, RequestInv
<1>3. ClaimInv'
  <2>1. ASSUME NEW c \in Confs, pc[c] = "committing"
        PROVE  now + 1 <= beat[c] /\ now + 1 <= row.at + Silence
    <3>1. now + 1 <= beat[c] /\ missed[c] \in Nat /\ missed[c] <= MaxMissed /\ row.at \in Nat
      BY <2>1 DEF IInv, TypeOK, Row, ClaimInv
    <3>2. beat[c] <= row.at + Beat * (missed[c] + 1)
      BY <2>1 DEF IInv, ClaimInv
    <3>3. Beat * (missed[c] + 1) <= Silence /\ Beat * (missed[c] + 1) \in Nat
      BY <3>1, Gaps
    <3>4. now \in Nat /\ beat[c] \in Nat /\ Silence \in Nat
      BY Periods DEF IInv, TypeOK
    <3> QED
      BY <3>1, <3>2, <3>3, <3>4
  <2> QED
    BY <2>1 DEF IInv, TypeOK, Row, ClaimInv, Holder
<1>4. CoverInv'
  BY Periods DEF IInv, TypeOK, Row, CoverInv, Old, Covered, Holder
<1>5. EffectsAreApart' /\ AnswerInv' /\ AnswersAreTruthful'
  BY DEF IInv, EffectsAreApart, Apart, AnswerInv, AnswersAreTruthful
<1> QED
  BY <1>1, <1>2, <1>3, <1>4, <1>5 DEF IInv

LEMMA CrashStep == ASSUME IInv, Crash PROVE IInv'
<1> USE DEF Crash, rows, memory, history
<1>1. TypeOK'
  <2>1. up' \in BOOLEAN
    OBVIOUS
  <2> QED
    BY <2>1 DEF IInv, TypeOK
<1>2. \A c \in Confs : ~Holder(c)'
  BY DEF Holder
<1>3. RequestInv'
  BY DEF IInv, RequestInv
<1>4. ClaimInv'
  BY <1>2 DEF IInv, ClaimInv, Holder
<1>5. CoverInv'
  BY <1>2 DEF IInv, CoverInv, Old, Covered
<1>6. EffectsAreApart' /\ AnswerInv' /\ AnswersAreTruthful'
  BY DEF IInv, EffectsAreApart, Apart, AnswerInv, AnswersAreTruthful
<1> QED
  BY <1>1, <1>3, <1>4, <1>5, <1>6 DEF IInv

LEMMA RestartStep == ASSUME IInv, Restart PROVE IInv'
<1>1. /\ UNCHANGED <<now, crashes, result, pc, out, beat, missed, owner, effects, failed, source>>
      /\ up' = TRUE
      /\ status' = [c \in Confs |-> IF status[c] = "executing" THEN result[c] ELSE status[c]]
      /\ bound' = [c \in Confs |-> bound[c] /\ status[c] # "executing"]
      /\ \A c \in Confs : pc[c] = "idle"
  BY DEF Restart, Stranded, Recovered, memory, history, IInv, RequestInv
<1>2. \/ row' = row
      \/ row.state = "open" /\ \E c \in Confs : bound[c] /\ row' = [state |-> "done", from |-> c, at |-> now]
  BY DEF Restart, Stranded
<1>3. TypeOK'
  BY <1>1, <1>2 DEF IInv, TypeOK, RequestInv, Status, Final, Row
<1>4. RequestInv'
  BY <1>1 DEF IInv, TypeOK, RequestInv
<1>5. ClaimInv'
  BY <1>1, <1>2 DEF IInv, TypeOK, RequestInv, ClaimInv, Holder
<1>6. CoverInv'
  BY <1>1, <1>2, Periods DEF IInv, TypeOK, Row, ClaimInv, CoverInv, Old, Covered, Holder
<1>7. EffectsAreApart' /\ AnswerInv'
  BY <1>1 DEF IInv, EffectsAreApart, Apart, AnswerInv
<1>8. AnswersAreTruthful'
  BY <1>1 DEF IInv, RequestInv, AnswersAreTruthful
<1> QED
  BY <1>3, <1>4, <1>5, <1>6, <1>7, <1>8 DEF IInv

LEMMA InvNext == IInv /\ [Next]_vars => IInv'
<1> SUFFICES ASSUME IInv, [Next]_vars PROVE IInv'
  OBVIOUS
<1>1. CASE UNCHANGED vars \/ Done
  BY <1>1 DEF Done, vars, rows, memory, history, IInv, TypeOK, RequestInv, ClaimInv, CoverInv,
     Old, Covered,
         Holder, EffectsAreApart, Apart, AnswerInv, AnswersAreTruthful
<1>2. ASSUME NEW c \in Confs,
             \/ Confirm(c) \/ Refuse(c)
             \/ \E k \in {"cancelled", "expired"} : Close(c, k)
             \/ ClaimWon(c) \/ ClaimUnbound(c)
             \/ ClaimReplays(c) \/ ClaimUnknown(c) \/ ClaimInFlight(c)
             \/ Heartbeat(c) \/ HeartbeatFails(c) \/ Effect(c)
             \/ \E o \in Final : Return(c, o)
             \/ Settle(c) \/ SettleFails(c)
      PROVE  IInv'
  BY <1>2, ConfirmStep, RefuseStep, CloseStep, ClaimWonStep, ClaimUnboundStep, ClaimReplaysStep,
     ClaimUnknownStep, ClaimInFlightStep, HeartbeatStep, HeartbeatFailsStep, EffectStep, ReturnStep,
     SettleStep, SettleFailsStep
<1>3. CASE Prune \/ Tick \/ Crash \/ Restart
  BY <1>3, PruneStep, TickStep, CrashStep, RestartStep
<1> QED
  BY <1>1, <1>2, <1>3 DEF Next

(* The claim of a running commit is its own and recently touched, and the  *)
(* ledger row stands for every change younger than the window, except the  *)
(* changes of commits that failed, whose claim is released: the inductive  *)
(* invariant (commitViaAtomicLedger, claimIdempotency).                    *)
THEOREM ClaimInvariant == Spec => []IInv
<1> QED
  BY InvInit, InvNext, PTL DEF Spec

(* Rows, requests and histories keep their types; a confirmation ends as   *)
(* one of the kinds its outcome may have (settleConfirmation).             *)
THEOREM ClaimTypes == Spec => []TypeOK
<1>1. IInv => TypeOK
  BY DEF IInv
<1> QED
  BY <1>1, ClaimInvariant, PTL

(* A running commit never loses its claim, provided that Beat heartbeats   *)
(* MaxMissed times apart stay within the window (touchIdempotencyClaim).   *)
THEOREM CommitsKeepTheirClaim == Spec => []ClaimIsKept
<1>1. IInv => ClaimIsKept
  BY DEF IInv, ClaimInv, ClaimIsKept, Holder
<1> QED
  BY <1>1, ClaimInvariant, PTL

(* A change is followed by one of another commit of the intent only after  *)
(* the window, less the silence a running commit may keep, unless the      *)
(* first commit returned a definitive failure (claimIdempotency's sweep,   *)
(* commitViaAtomicLedger's release).                                       *)
THEOREM CommitsAreApart == Spec => []EffectsAreApart
<1>1. IInv => EffectsAreApart
  BY DEF IInv
<1> QED
  BY <1>1, ClaimInvariant, PTL

(* What a confirmation ends as is what the commit it reports returned, its *)
(* own or the replayed one: no success without a change, and no failure    *)
(* over a change that the commit itself did not call failed                *)
(* (settleConfirmation, recoverOrphanedRuns).                              *)
THEOREM ClaimAnswersAreTrue == Spec => []AnswersAreTruthful
<1>1. IInv => AnswersAreTruthful
  BY DEF IInv
<1> QED
  BY <1>1, ClaimInvariant, PTL
=============================================================================
