-------------------------------- MODULE Case --------------------------------
(***************************************************************************)
(* One case in one store: the rows the store keeps and the case they fold  *)
(* to, changed by the writer (Case::open, Case::append) and by rows that   *)
(* another build of cases put in the same store.                           *)
(***************************************************************************)
EXTENDS CaseRules

CONSTANTS
  MaxRows,      \* bound: the rows a case may have
  MaxGap,       \* bound: the seqs another build's row may leave out
  OpenInputs,   \* the open records tried
  AmendInputs,  \* the amend records tried
  StoredInputs  \* what another build stores, as records with their authors

ASSUME BoundsAssumption == MaxRows \in Nat /\ MaxGap \in Nat
ASSUME InputsAssumption ==
  /\ OpenInputs \subseteq Opens
  /\ AmendInputs \subseteq Amends
  /\ StoredInputs \subseteq [author : Authors, rec : Records \cup {Foreign}]
ASSUME NoneAssumption ==
  /\ None \notin Cases /\ None \notin Answers /\ None \notin Bodies
  /\ None \notin Rests /\ None \notin States /\ None \notin Nat

VARIABLES
  rows,   \* the rows the store keeps, in order
  case    \* the case they fold to, or None while no row is a valid open

caseVars == <<rows, case>>

CaseInit == rows = <<>> /\ case = None

(***************************************************************************)
(* The writer opens the case: its first row, numbered 1.                   *)
(***************************************************************************)
OpenCase(author, r) ==
  /\ rows = <<>>
  /\ OpenFits(author, r)
  /\ rows' = <<Row(1, author, r)>>
  /\ case' = Counted(Start(1, r), 1, 1)

(* Mistake: the writer counts the events the case took, not its rows.      *)
AppendToEvents(author, r, at) ==
  /\ case # None /\ at \in {None, case.revision} /\ Len(rows) < MaxRows
  /\ Fits(case, author, r, TRUE)
  /\ LET seq == case.lastSeq + 1 IN
       /\ rows' = Append(rows, Row(seq, author, r))
       /\ case' = Counted(Take(case, seq, r), Len(case.events) + 1, seq)

(* Mistake: the writer numbers a row by how many there are.                *)
AppendToCount(author, r, at) ==
  /\ case # None /\ at \in {None, case.revision} /\ Len(rows) < MaxRows
  /\ Fits(case, author, r, TRUE)
  /\ LET seq == Len(rows) + 1 IN
       /\ rows' = Append(rows, Row(seq, author, r))
       /\ case' = Counted(Take(case, seq, r), case.revision + 1, seq)

(***************************************************************************)
(* The writer appends: at the revision the writer read, when it says one,  *)
(* the event is checked against the case as it stands and numbered above   *)
(* every row.  A refused append changes nothing, so it is no step.         *)
(***************************************************************************)
AppendTo(author, r, at) ==
  /\ case # None
  /\ at \in {None, case.revision}
  /\ Len(rows) < MaxRows
  /\ Fits(case, author, r, TRUE)
  /\ LET seq == case.lastSeq + 1 IN
       /\ rows' = Append(rows, Row(seq, author, r))
       /\ case' = Counted(Take(case, seq, r), case.revision + 1, seq)

(***************************************************************************)
(* Another build appends: a row the replay takes or skips.  A skipped row  *)
(* still counts in the revision, and its seq is never used again.          *)
(***************************************************************************)
StoreRow(author, r, gap) ==
  /\ Len(rows) < MaxRows
  /\ LET row    == Row(LastSeq(rows) + 1 + gap, author, r)
         replay == Replay(case, row) IN
       /\ rows' = Append(rows, row)
       /\ case' = IF replay = None THEN None
                                  ELSE Counted(replay, Len(rows) + 1, row.seq)

-----------------------------------------------------------------------------
(* The answers a writer may give: of the case's kind, naming any amend. *)
AnswerInputs(c) ==
  [event : {"answer"}, amendSeq : 0 .. c.lastSeq + 1, drop : BOOLEAN,
   choice : IF c.kind = "decision" THEN 0 .. c.options + 1 ELSE {0},
   rows : IF c.kind = "approval" THEN SUBSET RowIds ELSE {{}},
   file : IF c.kind = "briefing" THEN SUBSET (1 .. Len(c.leftOut) + 1)
                                 ELSE {{}}]

OpenAny == \E author \in Authors, r \in OpenInputs : OpenCase(author, r)

(* An append that says the revision it read is this same step, or none;    *)
(* a form (Forms) says one.                                        *)
AppendAny(records) ==
  \E author \in Authors, r \in records : AppendTo(author, r, None)

Amend    == AppendAny(AmendInputs)
Answer   == case # None /\ AppendAny(AnswerInputs(case))
Pickup   == AppendAny(Pickups)
Note     == AppendAny(Notes)
Close    == AppendAny(Closes)
Withdraw == AppendAny({[event |-> "withdraw"]})
Park     == AppendAny({[event |-> "park"]})
Resume   == AppendAny({[event |-> "resume"]})

(* Another build's rows: of events a later one has, or by rules an older   *)
(* one kept, numbered with or without a gap.                               *)
Stored == \E put \in StoredInputs, gap \in 0 .. MaxGap :
             StoreRow(put.author, put.rec, gap)

CaseNext == \/ OpenAny \/ Amend \/ Answer \/ Pickup \/ Note \/ Close
            \/ Withdraw \/ Park \/ Resume \/ Stored

CaseSpec == CaseInit /\ [][CaseNext]_caseVars

-----------------------------------------------------------------------------
(* Properties *)

RowType == [seq : Nat, author : Authors,
            rec : Records \cup {Foreign}]

(* The rows are rows and the case they fold to is a case. *)
CaseTypeOK == /\ rows \in Seq(RowType)
              /\ case \in Cases \cup {None}

(***************************************************************************)
(* What the state says the case has.  A case waiting on the human stands   *)
(* on no answer and no pickup; one with an agent has what the agent took;  *)
(* only a stuck case is parked; a message is never asked and never         *)
(* answered.  A wait that prints an answer, the inbox's groups and the     *)
(* sweep's statuses all read these fields by the state alone.              *)
(***************************************************************************)
StateFits(c) ==
  /\ c.state \in {"open", "sent", "parked"} => c.answer = None /\ ~c.pickup
  /\ c.state = "answered" => c.answer # None /\ ~c.pickup
  /\ c.state \in {"pickedup", "closed"} =>
        c.pickup /\ (c.answer = None <=> c.kind = "message")
  /\ c.park <=> c.state = "parked"
  /\ c.close <=> c.state = "closed"
  /\ c.state = "parked" => c.kind = "stuck"
  /\ c.kind = "message" =>
        c.state \in {"sent", "pickedup", "closed", "withdrawn"} /\ c.answer = None
  /\ c.state = "sent" => c.kind = "message"

(* THE STATE IS THE WHOLE STORY: in every reachable case the state and     *)
(* the fields agree.                                                       *)
StateSaysWhatStands == case # None => StateFits(case)

(***************************************************************************)
(* The answer a case stands on was written by someone who saw the question *)
(* as it stands now (ST-04), and answers it: no amend since has moved the  *)
(* question, its choice names an option the case has, its verdicts cover   *)
(* exactly the rows the case has, and the items it files are in the list.  *)
(***************************************************************************)
AnswerFitsQuestion(c) ==
  c.answer # None => c.answer.amendSeq = c.amendSeq /\ AnswerOf(c, c.answer)

AnswerIsToTheQuestion == case # None => AnswerFitsQuestion(case)

(***************************************************************************)
(* The writer and the replay agree: the case the writer goes on from is    *)
(* the one any reader folds from the stored rows, though the writer keeps  *)
(* rules a replay does not and numbers rows another build left gaps in.    *)
(***************************************************************************)
ReplayAgrees == case = Fold(rows)

(***************************************************************************)
(* An answer in hand is let go only to ask again: the step that clears it  *)
(* leaves the case open, and was the agent's note or amend; while it       *)
(* stands, the question it answers does not change under it.               *)
(***************************************************************************)
AnswerIsKept ==
  [][case # None /\ case.answer # None =>
       \/ case'.answer = case.answer /\ Question(case') = Question(case)
       \/ /\ case'.answer = None /\ case'.state = "open"
          /\ rows'[Len(rows')].author = "agent"
          /\ rows'[Len(rows')].rec.event \in {"note", "amend"}]_caseVars

(***************************************************************************)
(* A number keeps its meaning: whatever is appended, the options and rows  *)
(* a case had are still there, so a choice made by number names the same   *)
(* option ever after.                                                      *)
(***************************************************************************)
QuestionOnlyGrows ==
  [][case # None => /\ case'.options >= case.options
                    /\ case.rows \subseteq case'.rows]_caseVars

=============================================================================
