------------------------------ MODULE Freshness ------------------------------
(***************************************************************************)
(* Case::since (crates/core/src/freshness.rs): how a case changed after a  *)
(* form was drawn from it, told from the case as it is now and two numbers *)
(* the form kept, the revision and the last seq it was drawn at.           *)
(***************************************************************************)
EXTENDS Case

(* How many of the events are at or below the form's seq: seqs rise.       *)
PartitionPoint(events, seq) ==
  CHOOSE k \in 0 .. Len(events) :
    \A i \in DOMAIN events : events[i].seq <= seq <=> i <= k

(* The events since. *)
EventsAfter(c, seq) ==
  SubSeq(c.events, PartitionPoint(c.events, seq) + 1, Len(c.events))

(* Mistake: a note or an amend, whatever it did to the state.              *)
KeptStateAny(c, e) == e.event \in {"note", "amend"}

(* A note or an amend that left the case in the state it has now. *)
KeptState(c, e) == e.event \in {"note", "amend"} /\ e.from = c.state

(* The states the case passed: the one before each event, then its own. *)
Walk(c, after) ==
  [i \in 1 .. Len(after) + 1 |->
     IF i <= Len(after) THEN after[i].from ELSE c.state]

(* Mistake: a state may come back.                                         *)
EachStateOften(walk) == DOMAIN walk # {}

(* No state comes back once the case has left it. *)
EachStateOnce(walk) ==
  \A i, j, k \in DOMAIN walk :
     i < j /\ j < k /\ walk[i] = walk[k] => walk[j] = walk[i]

(* Mistake: an amend of the question is not looked for.                    *)
SinceAnyAmend(c, revision, seq) ==
  LET after == EventsAfter(c, seq)
      walk  == Walk(c, after)
  IN CASE revision = c.revision -> "unchanged"
       [] revision > c.revision -> "changed"
       [] OTHER ->
            IF Len(after) # c.revision - revision THEN "changed"
            ELSE IF \A i \in DOMAIN after : KeptState(c, after[i])
                 THEN "unchanged"
                 ELSE IF EachStateOnce(walk) THEN "moved" ELSE "changed"

Since(c, revision, seq) ==
  LET after == EventsAfter(c, seq)
      walk  == Walk(c, after)
  IN CASE revision = c.revision -> "unchanged"
       [] revision > c.revision -> "changed"
       [] OTHER ->
            IF \/ Len(after) # c.revision - revision
               \/ c.amendSeq > seq /\ Opener(c.kind) # "human"
            THEN "changed"
            ELSE IF \A i \in DOMAIN after : KeptState(c, after[i])
                 THEN "unchanged"
                 ELSE IF None \notin {walk[i] : i \in DOMAIN walk}
                           /\ EachStateOnce(walk)
                      THEN "moved" ELSE "changed"

-----------------------------------------------------------------------------
(* Properties *)

(* The seq of the latest answer the case took, or 0: which answer stands,  *)
(* and whether another was given since.                                    *)
LastAnswer(c) ==
  LET answers == {e \in {c.events[i] : i \in DOMAIN c.events} :
                    e.event = "answer"}
  IN IF answers = {} THEN 0
     ELSE CHOOSE seq \in {e.seq : e \in answers} :
            \A e \in answers : e.seq <= seq

(***************************************************************************)
(* The freshness rule against its meaning: for every earlier revision of   *)
(* the case, unchanged means the state and question of then, with every    *)
(* state between the same, and moved means the question of then.           *)
(***************************************************************************)
CaseAt(n) == Fold(SubSeq(rows, 1, n))

SinceMeansIt ==
  case # None =>
    \A n \in 1 .. Len(rows) :
      LET was == CaseAt(n) IN
      was # None =>
        LET since == Since(case, was.revision, was.lastSeq) IN
        /\ since = "unchanged" =>
             /\ \A m \in n .. Len(rows) : CaseAt(m).state = case.state
             /\ LastAnswer(was) = LastAnswer(case)
        /\ since # "changed" /\ case.kind # "message" =>
             Question(was) = Question(case)

=============================================================================
