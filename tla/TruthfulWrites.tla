--------------------------- MODULE TruthfulWrites ---------------------------
(***************************************************************************)
(* What the mutation journal promises, without saying how: the writes of a *)
(* plan are issued at most once, in order, each only on top of effects     *)
(* that are there; Clockify decides each one in its own time; and what is  *)
(* reported about a write is never contradicted by what it did.  Write     *)
(* N + 1 is the optional one that takes an earlier effect back.            *)
(***************************************************************************)
EXTENDS Integers

CONSTANT N

Writes == 1 .. (N + 1)
Undo == N + 1

VARIABLES effect,  \* what Clockify did with each write
          report   \* what is on record about it

vars == <<effect, report>>

Init ==
    /\ effect = [w \in Writes |-> "idle"]
    /\ report = [w \in Writes |-> "open"]

\* A write goes out only while nothing final was said about it.
Issue(w) ==
    /\ effect[w] = "idle" /\ report[w] = "open"
    /\ IF w = Undo THEN \E v \in 1 .. N : effect[v] = "applied"
                   ELSE \A v \in 1 .. N : v < w => effect[v] = "applied"
    /\ effect' = [effect EXCEPT ![w] = "inflight"]
    /\ UNCHANGED report

Decide(w) ==
    /\ effect[w] = "inflight"
    /\ \E e \in {"applied", "refused"} : effect' = [effect EXCEPT ![w] = e]
    /\ UNCHANGED report

\* The reports that may follow an earlier one.
Honest(w, before, after) ==
    \/ after = before
    \/ after = "done" /\ before \in {"open", "unknown"} /\ effect[w] = "applied"
    \/ after = "failed" /\ before = "open" /\ effect[w] \in {"idle", "refused"}
    \/ after = "unknown" /\ before = "open"
    \/ after = "undone" /\ before = "done" /\ w # Undo /\ effect[Undo] = "applied"

\* A recovery may report on several writes at once.
Record ==
    /\ report' \in [Writes -> {"open", "done", "failed", "unknown", "undone"}]
    /\ \A w \in Writes : Honest(w, report[w], report'[w])
    /\ UNCHANGED effect

Next == (\E w \in Writes : Issue(w) \/ Decide(w)) \/ Record

Spec == Init /\ [][Next]_vars
=============================================================================
