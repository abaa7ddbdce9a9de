------------------------------ MODULE CaseRules ------------------------------
(***************************************************************************)
(* The rules of one case, as crates/core keeps them: what a record is,     *)
(* which records a case takes, and what a taken record does to it.  Every  *)
(* definition is a constant-level operator on a case, so that the writer   *)
(* (Case), the freshness rule (Freshness) and the forms drawn from a case  *)
(* (Forms) share one reading of crates/core/src/case.rs and rules.rs.      *)
(*                                                                         *)
(* Text is abstracted to what the rules tell apart.  An option is only     *)
(* counted, since an answer and an amend name it by its number; a row and  *)
(* a left-out item are names; a body is a member of Bodies; what is never  *)
(* part of the question (title, context, recommend, landed, links, labels) *)
(* is one value of Rests.  A record here reads, is not blank where its     *)
(* event wants text, and carries a valid actor: one that does not is       *)
(* refused before it reaches the case and changes nothing.                 *)
(***************************************************************************)
EXTENDS Naturals, Sequences, FiniteSets

CONSTANTS
  RowIds,   \* the ids an approval's rows may have
  Bodies,   \* the bodies a question may have
  Items,    \* the items a briefing may leave out
  Rests,    \* what a question says that an answer does not stand on
  None      \* no case, no answer, or a field left out

Kinds == {"decision", "approval", "signoff", "stuck", "question", "fyi",
          "message", "briefing"}

States == {"open", "answered", "pickedup", "closed", "withdrawn", "parked",
           "sent"}

Authors == {"agent", "human"}

EventTypes == {"open", "amend", "answer", "pickup", "note", "close",
               "withdraw", "park", "resume"}

(***************************************************************************)
(* The side that opens a kind, and so amends it.                           *)
(***************************************************************************)
Opener(kind) == IF kind = "message" THEN "human" ELSE "agent"

(***************************************************************************)
(* Whether a role writes an event on some case.                            *)
(***************************************************************************)
WrittenBy(event, author) ==
  \/ event \in {"pickup", "note", "close"} /\ author = "agent"
  \/ event \in {"answer", "park", "resume"} /\ author = "human"
  \/ event \in {"open", "amend", "withdraw"} /\ author \in Authors

-----------------------------------------------------------------------------
(* Records *)

Opens == [event : {"open"}, kind : Kinds, options : Nat,
          rows : SUBSET RowIds, body : Bodies \cup {None},
          leftOut : Seq(Items), rest : Rests]

(* An amend leaves a field alone with 0, {}, None or <<>>. *)
Amends == [event : {"amend"}, reopen : BOOLEAN, options : Nat,
           rows : SUBSET RowIds, body : Bodies \cup {None},
           leftOut : Seq(Items), rest : Rests \cup {None}]

(* Choice 0 of a decision is other, with a note.  rows are the ids given a *)
(* verdict, file the numbers of the left-out items filed.                  *)
Answers == [event : {"answer"}, amendSeq : Nat, drop : BOOLEAN,
            choice : Nat, rows : SUBSET RowIds, file : SUBSET Nat]

Pickups == [event : {"pickup"}]
Notes   == [event : {"note"}, reopen : BOOLEAN]
Closes  == [event : {"close"}, expired : BOOLEAN]
Plain   == [event : {"withdraw", "park", "resume"}]

Records == Opens \cup Amends \cup Answers \cup Pickups \cup Notes
             \cup Closes \cup Plain

(* The event of a row from a newer build, which this one cannot read. *)
Foreign == [event |-> "foreign"]

(* What the case remembers of a row it took: `from` is the state before. *)
Events == [seq : Nat, event : EventTypes, from : States \cup {None}]

Cases == [kind : Kinds, state : States, revision : Nat, lastSeq : Nat,
          amendSeq : Nat, options : Nat, rows : SUBSET RowIds,
          body : Bodies \cup {None}, leftOut : Seq(Items), rest : Rests,
          answer : Answers \cup {None}, pickup : BOOLEAN, park : BOOLEAN,
          close : BOOLEAN, events : Seq(Events)]

(* The question: what an answer is an answer to. *)
Question(c) == <<c.options, c.rows, c.body, c.leftOut>>

-----------------------------------------------------------------------------
(* Opening *)

(***************************************************************************)
(* Options go only on a decision, rows only on an approval, a left-out     *)
(* list only on a briefing.                                                *)
(***************************************************************************)
KindFields(kind, options, rows, leftOut) ==
  /\ options > 0 => kind = "decision"
  /\ rows # {} => kind = "approval"
  /\ leftOut # <<>> => kind = "briefing"

(* A left-out list names no item twice. *)
NoneTwice(leftOut) ==
  \A i, j \in DOMAIN leftOut : leftOut[i] = leftOut[j] => i = j

OpenFits(author, r) ==
  /\ r.event = "open"
  /\ author = Opener(r.kind)
  /\ KindFields(r.kind, r.options, r.rows, r.leftOut)
  /\ NoneTwice(r.leftOut)
  /\ r.kind = "decision" => r.options > 0
  /\ r.kind = "approval" => r.rows # {}
  /\ r.kind = "briefing" => r.body # None

(***************************************************************************)
(* A case waits first on the side that did not open it.                    *)
(***************************************************************************)
Start(seq, r) ==
  [kind |-> r.kind,
   state |-> IF Opener(r.kind) = "human" THEN "sent" ELSE "open",
   revision |-> 0, lastSeq |-> 0, amendSeq |-> 0,
   options |-> r.options, rows |-> r.rows, body |-> r.body,
   leftOut |-> r.leftOut, rest |-> r.rest,
   answer |-> None, pickup |-> FALSE, park |-> FALSE, close |-> FALSE,
   events |-> <<[seq |-> seq, event |-> "open", from |-> None]>>]

-----------------------------------------------------------------------------
(* Amending *)

(* What moves the case's amendSeq: the rest of a question is not asked. *)
ChangesQuestion(c, r) ==
  \/ r.options > 0
  \/ r.rows # {}
  \/ r.body \notin {None, c.body}
  \/ r.leftOut \notin {<<>>, c.leftOut}

AmendReopens(c) == c.state \in {"answered", "pickedup"}

(* Mistake: an amend of an answered case that need not reopen it.          *)
AmendFitsAnswered(c, author, r) ==
  /\ author = Opener(c.kind)
  /\ c.state \in {"open", "sent", "answered"}
  /\ r.reopen => AmendReopens(c)
  /\ KindFields(c.kind, r.options, r.rows, r.leftOut)
  /\ r.rows \cap c.rows = {}

AmendFits(c, author, r) ==
  /\ author = Opener(c.kind)
  /\ \/ c.state \in {"open", "sent"}
     \/ r.reopen /\ AmendReopens(c) /\ Opener(c.kind) = "agent"
  /\ r.reopen => AmendReopens(c)
  /\ KindFields(c.kind, r.options, r.rows, r.leftOut)
  /\ NoneTwice(r.leftOut)
  /\ r.rows \cap c.rows = {}
  /\ ChangesQuestion(c, r) \/ r.rest \notin {None, c.rest}

(* Mistake: a field the amend leaves alone is cleared.                     *)
AmendQuestionClears(c, r) ==
  [c EXCEPT !.options = @ + r.options, !.rows = @ \cup r.rows,
            !.body = IF r.body = None THEN @ ELSE r.body, !.rest = r.rest]

(* Mistake: an amend's options stand in place of the case's.               *)
AmendQuestionOptions(c, r) == [c EXCEPT !.options = r.options]

(* Mistake: an amend's rows stand in place of the case's.                  *)
AmendQuestionRows(c, r) ==
  [c EXCEPT !.rows = IF r.rows = {} THEN @ ELSE r.rows]

AmendQuestion(c, r) ==
  [c EXCEPT !.options = @ + r.options,
            !.rows = @ \cup r.rows,
            !.body = IF r.body = None THEN @ ELSE r.body,
            !.leftOut = IF r.leftOut = <<>> THEN @ ELSE r.leftOut,
            !.rest = IF r.rest = None THEN @ ELSE r.rest]

(* Mistake: a reopened case keeps its pickup.                              *)
ReopenPickedUp(c) == [c EXCEPT !.answer = None, !.state = "open"]

Reopen(c) ==
  [c EXCEPT !.answer = None, !.pickup = FALSE, !.state = "open"]

(* Mistake: the amend is numbered by the rows counted, not by its seq.     *)
AmendSeqCounted(c, seq, r) ==
  IF ChangesQuestion(c, r) THEN c.revision + 1 ELSE c.amendSeq

(* Where the amend's seq goes in the case it amends. *)
AmendSeqAfter(c, seq, r) ==
  IF ChangesQuestion(c, r) THEN seq ELSE c.amendSeq

(* Mistake: an amend that reopens leaves the answer in place.              *)
TakeAmendOnly(c, seq, r) ==
  [AmendQuestion(c, r) EXCEPT !.amendSeq = AmendSeqAfter(c, seq, r)]

TakeAmend(c, seq, r) ==
  LET amended ==
        [AmendQuestion(c, r) EXCEPT !.amendSeq = AmendSeqAfter(c, seq, r)]
  IN IF r.reopen THEN Reopen(amended) ELSE amended

-----------------------------------------------------------------------------
(* Answering *)

(***************************************************************************)
(* An answer of the right shape for the case's kind, to its question as it *)
(* stands: a choice among its options, a verdict on each of its rows,      *)
(* numbers in its left-out list.  A drop answers nothing.                  *)
(***************************************************************************)
AnswerOf(c, r) ==
  /\ r.choice > 0 => c.kind = "decision" /\ r.choice <= c.options
  /\ r.rows # {} => c.kind = "approval"
  /\ r.file # {} => c.kind = "briefing" /\ r.file \subseteq DOMAIN c.leftOut
  /\ r.drop => r.choice = 0 /\ r.rows = {} /\ r.file = {}
  /\ c.kind = "approval" /\ ~r.drop => r.rows = c.rows

(* Mistake: an answer that names an older amend is taken.                  *)
AnswerFitsStale(c, r) ==
  c.state = "open" /\ r.amendSeq <= c.amendSeq /\ AnswerOf(c, r)

AnswerFits(c, r) ==
  /\ r.amendSeq >= c.amendSeq
  /\ c.state = "open"
  /\ r.amendSeq <= c.amendSeq
  /\ AnswerOf(c, r)

TakeAnswer(c, r) == [c EXCEPT !.answer = r, !.state = "answered"]

-----------------------------------------------------------------------------
(* The other events *)

PickupFits(c) == c.state \in {"answered", "sent"}

TakePickup(c) == [c EXCEPT !.pickup = TRUE, !.state = "pickedup"]

(***************************************************************************)
(* A note on an answered or picked-up case asks again.  The writer wants   *)
(* it to say so; a stored one, from before `reopen`, reopens it silently.  *)
(***************************************************************************)
NoteFits(c, r, write) ==
  /\ c.state \in {"open", "answered", "pickedup"}
  /\ Opener(c.kind) = "agent"
  /\ write /\ c.state # "open" => r.reopen
  /\ r.reopen => c.state # "open"

TakeNote(c) == IF c.state = "open" THEN c ELSE Reopen(c)

CloseFits(c, r) ==
  /\ c.state = "pickedup"
  /\ r.expired => c.kind = "briefing"

TakeClose(c) == [c EXCEPT !.close = TRUE, !.state = "closed"]

(* Mistake: a human may withdraw a case in any state.                      *)
WithdrawFitsAny(c, author) == c.state = "open" \/ author = "human"

WithdrawFits(c, author) ==
  \/ c.state = "open"
  \/ author = "human" /\ c.state \in {"sent", "answered", "pickedup"}

TakeWithdraw(c) == [c EXCEPT !.state = "withdrawn"]

ParkFits(c) == c.state = "open" /\ c.kind = "stuck"

TakePark(c) == [c EXCEPT !.park = TRUE, !.state = "parked"]

(* Mistake: any stuck case resumes.                                        *)
ResumeFitsStuck(c) == c.kind = "stuck"

ResumeFits(c) == c.state = "parked"

(* Mistake: a resumed case keeps its park.                                 *)
TakeResumeParked(c) == [c EXCEPT !.state = "open"]

TakeResume(c) == [c EXCEPT !.park = FALSE, !.state = "open"]

-----------------------------------------------------------------------------
(***************************************************************************)
(* Whether case c takes record r by author: the author, then the state and *)
(* the record's rules.  write adds the rules only the writer applies.  An  *)
(* open is never taken, since the case has one, nor is an event this build *)
(* does not know.                                                          *)
(***************************************************************************)
Fits(c, author, r, write) ==
  /\ WrittenBy(r.event, author)
  /\ \/ r.event = "amend" /\ AmendFits(c, author, r)
     \/ r.event = "answer" /\ AnswerFits(c, r)
     \/ r.event = "pickup" /\ PickupFits(c)
     \/ r.event = "note" /\ NoteFits(c, r, write)
     \/ r.event = "close" /\ CloseFits(c, r)
     \/ r.event = "withdraw" /\ WithdrawFits(c, author)
     \/ r.event = "park" /\ ParkFits(c)
     \/ r.event = "resume" /\ ResumeFits(c)

Changed(c, seq, r) ==
  CASE r.event = "amend"    -> TakeAmend(c, seq, r)
    [] r.event = "answer"   -> TakeAnswer(c, r)
    [] r.event = "pickup"   -> TakePickup(c)
    [] r.event = "note"     -> TakeNote(c)
    [] r.event = "close"    -> TakeClose(c)
    [] r.event = "withdraw" -> TakeWithdraw(c)
    [] r.event = "park"     -> TakePark(c)
    [] r.event = "resume"   -> TakeResume(c)

(* The case with record r taken as the row numbered seq. *)
Take(c, seq, r) ==
  [Changed(c, seq, r) EXCEPT
     !.events = Append(@, [seq |-> seq, event |-> r.event, from |-> c.state])]

(* The case with its counts set to the rows it has. *)
Counted(c, revision, lastSeq) ==
  [c EXCEPT !.revision = revision, !.lastSeq = lastSeq]

-----------------------------------------------------------------------------
(* Replay *)

Row(seq, author, r) == [seq |-> seq, author |-> author, rec |-> r]

(***************************************************************************)
(* The next stored row, replayed on case c: the first valid open starts    *)
(* the case, and a row it cannot take is skipped.                          *)
(***************************************************************************)
Replay(c, row) ==
  CASE c = None /\ OpenFits(row.author, row.rec) -> Start(row.seq, row.rec)
    [] c = None /\ ~OpenFits(row.author, row.rec) -> None
    [] c # None /\ Fits(c, row.author, row.rec, FALSE) ->
         Take(c, row.seq, row.rec)
    [] c # None /\ ~Fits(c, row.author, row.rec, FALSE) -> c

(* The seq of the last row. *)
LastSeq(rows) == IF rows = <<>> THEN 0 ELSE rows[Len(rows)].seq

(* The highest seq there is, whichever row has it. *)
HighestSeq(rows) ==
  CHOOSE n \in {0} \cup {rows[i].seq : i \in DOMAIN rows} :
    \A i \in DOMAIN rows : rows[i].seq <= n

(* What the case is after each of the rows, with none yet counted.         *)
Replays(rows) ==
  LET upTo[n \in 0 .. Len(rows)] ==
        IF n = 0 THEN None ELSE Replay(upTo[n - 1], rows[n])
  IN upTo

(***************************************************************************)
(* The case that rows fold to, or None when none of them is a valid open.  *)
(* Its counts are of every row, the skipped ones included.                 *)
(***************************************************************************)
Fold(rows) ==
  LET folded == Replays(rows)[Len(rows)]
  IN IF folded = None THEN None
                      ELSE Counted(folded, Len(rows), HighestSeq(rows))

=============================================================================
