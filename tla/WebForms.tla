------------------------------ MODULE WebForms ------------------------------
(***************************************************************************)
(* The forms of the web inbox on one case (serve/web/static: case.ts,      *)
(* lists.ts, fresh.ts, page.ts, api.ts) over the API of serve (api.rs).    *)
(* The case view's forms share one set of marks; a row's withdraw has its  *)
(* own.  A form follows each case drawn, a send may be lost, slow, or      *)
(* answered after the page moved on, and a refusal brings the case as it   *)
(* is now.  What is typed is abstracted to the left-out items ticked.      *)
(***************************************************************************)
EXTENDS Freshness

CONSTANTS
  MaxReads,  \* bound: the reads of the page that serve answers
  MaxSends   \* bound: the sends out at once

ASSUME WebBounds == MaxReads \in Nat /\ MaxSends \in Nat

VARIABLES
  place,    \* where the case is shown: "case view" or "row"
  page,     \* the case as the page shows it, or None
  reading,  \* the case a read brings and the page has not drawn, or None
  reads,    \* the reads serve has answered
  marks,    \* what the forms carry, or None while there is no form
  outbox    \* the sends out, each numbered, or None

webVars == <<rows, case, place, page, reading, reads, marks, outbox>>
pageVars == <<place, page, reading, reads, marks, outbox>>

Slots == 1 .. MaxSends

(* What the human has had before them as the forms' case: a history value. *)
Seen(c) == [question |-> Question(c), lastAnswer |-> LastAnswer(c),
            state |-> c.state]

MarksOf(c) ==
  [revision |-> c.revision, amendSeq |-> c.amendSeq, seq |-> c.lastSeq,
   state |-> c.state, ticks |-> {}, meant |-> {}, seen |-> Seen(c)]

(* The marks of c with what is ticked left as it was.                      *)
MarksKeeping(was, c) == [MarksOf(c) EXCEPT !.ticks = was.ticks, !.meant = was.meant]

(* The marks of c on a form that kept what the human saw.                  *)
MarksAlong(was, c) == [MarksKeeping(was, c) EXCEPT !.seen = was.seen]

Unticked(m) == [m EXCEPT !.ticks = {}, !.meant = {}]

(***************************************************************************)
(* The page draws the case was, then is: a list of left-out items in the   *)
(* place of another takes no ticks, and a form of another state is drawn   *)
(* afresh.                                                                 *)
(***************************************************************************)
Redraw(m, was, is) ==
  IF is.leftOut = was.leftOut /\ is.state = was.state THEN m ELSE Unticked(m)

(* Mistake: a form in the same state takes every case drawn.               *)
RedrawnAlways(was, c) ==
  IF c.state # was.state THEN MarksOf(c) ELSE MarksAlong(was, c)

(***************************************************************************)
(* The case view's forms, once the case is c.  An edit of a message is     *)
(* keyed by its amendSeq: it is drawn afresh with the new body.            *)
(***************************************************************************)
Redrawn(was, c) ==
  IF c.state # was.state THEN MarksOf(c)
  ELSE IF Since(c, was.revision, was.seq) = "unchanged"
       THEN IF c.state = "sent" THEN MarksOf(c) ELSE MarksAlong(was, c)
       ELSE was

(* Mistake: a line takes any case in another state.                        *)
LineFollowsAny(was, c) ==
  IF c.revision <= was.revision THEN was
  ELSE IF c.state # was.state THEN MarksAlong(was, c)
  ELSE IF Since(c, was.revision, was.seq) = "unchanged"
       THEN MarksAlong(was, c) ELSE was

(* A row's open withdraw line, once the page's stream brings c.            *)
LineFollows(was, c) ==
  IF c.revision <= was.revision THEN was
  ELSE LET since == Since(c, was.revision, was.seq) IN
    IF c.state = was.state
    THEN IF since = "unchanged" THEN MarksAlong(was, c) ELSE was
    ELSE IF since = "moved" THEN MarksOf(c) ELSE [was EXCEPT !.state = c.state]

(* The states in which a row is listed with its agent. *)
InFlight == {"answered", "pickedup"}

(* The parts of a case an effect of the case view or of the row waits on.  *)
Effect(c) == IF place = "row" THEN <<c.revision, c.state>>
                              ELSE <<c.revision, c.state, c.amendSeq>>

(* The forms with marks m, once the page goes from the case was to is.     *)
Followed(m, was, is) ==
  IF m = None \/ Effect(is) = Effect(was) THEN m
  ELSE IF place = "row"
  THEN IF is.state \in InFlight THEN LineFollows(m, is) ELSE None
  ELSE Redrawn(Redraw(m, was, is), is)

WebInit ==
  /\ CaseInit
  /\ place \in {"case view", "row"}
  /\ page = None /\ reading = None /\ reads = 0 /\ marks = None
  /\ outbox = [i \in Slots |-> None]

(* Others write: agents, and the human from elsewhere. *)
OthersAppend == CaseNext /\ UNCHANGED pageVars

(***************************************************************************)
(* Serve answers a read for the page.  It is drawn later, if no later one  *)
(* takes its place.                                                        *)
(***************************************************************************)
ReadForPage ==
  /\ case # None /\ reads < MaxReads
  /\ reading' = case /\ reads' = reads + 1
  /\ UNCHANGED <<rows, case, place, page, marks, outbox>>

(* The sends of forms that are gone: they no longer move what is shown.    *)
LeftBehind ==
  [i \in Slots |-> IF outbox[i] = None THEN None
                  ELSE [outbox[i] EXCEPT !.mine = FALSE, !.holds = FALSE]]

(* The page draws the case read.  The case view's forms are there at once, *)
(* and a row no longer listed with its agent goes.                         *)
Draw ==
  /\ reading # None
  /\ page' = reading /\ reading' = None
  /\ marks' = IF page # None THEN Followed(marks, page, reading)
              ELSE IF place = "case view" THEN MarksOf(reading) ELSE None
  /\ outbox' = IF place = "row" /\ reading.state \notin InFlight THEN LeftBehind
               ELSE outbox
  /\ UNCHANGED <<rows, case, place, reads>>

(* The page is left. *)
Leave ==
  /\ page # None
  /\ page' = None /\ marks' = None /\ reading' = None
  /\ outbox' = LeftBehind
  /\ UNCHANGED <<rows, case, place, reads>>

(* The row's withdraw is pressed: its line opens, drawn from the row. *)
OpenLine ==
  /\ place = "row" /\ page # None /\ page.state \in InFlight
  /\ marks' = MarksOf(page) /\ marks' # marks
  /\ UNCHANGED <<rows, case, place, page, reading, reads, outbox>>

(* Keep: the line shuts. *)
ShutLine ==
  /\ place = "row" /\ marks # None
  /\ marks' = None
  /\ UNCHANGED <<rows, case, place, page, reading, reads, outbox>>

(* The human ticks or unticks a left-out item of the case as drawn. *)
Tick(n) ==
  /\ place = "case view" /\ page # None /\ page.state = "open"
  /\ n \in DOMAIN page.leftOut
  /\ LET on == n \notin marks.ticks
         item == {page.leftOut[n]} IN
       marks' = [marks EXCEPT
         !.ticks = IF on THEN @ \cup {n} ELSE @ \ {n},
         !.meant = IF on THEN @ \cup item ELSE @ \ item]
  /\ UNCHANGED <<rows, case, place, page, reading, reads, outbox>>

(***************************************************************************)
(* What the forms of the page can send.  The choices are those of the case *)
(* drawn; the amend an answer names is that of the marks.                  *)
(***************************************************************************)
SendRecords ==
  LET answer(drop, n, verdicts, file) ==
        [event |-> "answer", amendSeq |-> marks.amendSeq, drop |-> drop,
         choice |-> n, rows |-> verdicts, file |-> file]
      edits == {r \in AmendInputs : r.body \notin {None, page.body}}
  IN CASE page.state = "open" /\ page.kind # "message" ->
            {answer(FALSE, n, page.rows, marks.ticks \cap DOMAIN page.leftOut) :
               n \in 0 .. page.options}
            \cup (IF page.kind = "stuck" THEN {[event |-> "park"]}
                  ELSE {}) \cup {answer(TRUE, 0, {}, {})}
       [] page.state = "parked" -> {[event |-> "resume"]}
       [] page.state = "sent" -> edits \cup {[event |-> "withdraw"]}
       [] page.state \in InFlight -> {[event |-> "withdraw"]}
       [] OTHER -> {}

(***************************************************************************)
(* A send, at the marks' revision, from the page as it is drawn.  One while*)
(* another is out does nothing.                                            *)
(***************************************************************************)
SendWrite(i) ==
  /\ page # None /\ marks # None
  /\ \A j \in Slots : outbox[j] # None => ~outbox[j].holds
  /\ outbox[i] = None /\ \A j \in 1 .. i - 1 : outbox[j] # None
  /\ \E r \in SendRecords :
       outbox' = [outbox EXCEPT ![i] =
         [rec |-> r, revision |-> marks.revision, seen |-> marks.seen,
          meant |-> marks.meant, mine |-> TRUE, holds |-> TRUE,
          drawn |-> IF place = "row" THEN page ELSE None,
          reply |-> TRUE, result |-> "out", now |-> None]]
  /\ UNCHANGED <<rows, case, place, page, reading, reads, marks>>

(* Ten seconds pass: the send that is out lets the next go. *)
TenSeconds(i) ==
  /\ outbox[i] # None /\ outbox[i].holds
  /\ outbox' = [outbox EXCEPT ![i].holds = FALSE]
  /\ UNCHANGED <<rows, case, place, page, reading, reads, marks>>

(* The store refuses a write at another revision or for an older amend. *)
StaleWrite(s) ==
  \/ s.revision # case.revision
  \/ s.rec.event = "answer" /\ case.amendSeq > s.rec.amendSeq

(* Serve makes the write, or refuses it with the case as it is now; one    *)
(* whose page no longer listens is made all the same.                      *)
Serve(i) ==
  /\ outbox[i] # None /\ outbox[i].result = "out"
  /\ LET s == outbox[i]
         come(result) == [s EXCEPT !.result = result, !.now = case'] IN
       \/ /\ AppendTo("human", s.rec, s.revision)
          /\ outbox' = [outbox EXCEPT ![i] = IF s.reply THEN come("taken") ELSE None]
       \/ /\ \/ StaleWrite(s)
             \/ ~Fits(case, "human", s.rec, TRUE)
          /\ UNCHANGED <<rows, case>>
          /\ outbox' = [outbox EXCEPT ![i] = IF s.reply THEN come("refused") ELSE None]
  /\ UNCHANGED <<place, page, reading, reads, marks>>

(* The forms after a write that was made: the case as it left it.          *)
AfterTaken(m, after) ==
  IF place = "case view" /\ after.revision > m.revision
  THEN MarksKeeping(m, after) ELSE m

(* The page after a refusal: the case it brings, when no older. *)
WithRefused(current) ==
  IF place = "case view" /\ page # None /\ current.revision >= page.revision
  THEN current ELSE page

(* The forms after a refusal take the case it brings.  A row's line goes on*)
(* from there to the case as it was drawn when the send went.              *)
AfterRefused(m, current, drawn) ==
  IF place = "row" THEN LineFollows(MarksOf(current), drawn)
  ELSE IF current.revision >= m.revision THEN MarksKeeping(m, current) ELSE m

(* The sends out once that of i is over.  A send of the case view lets only*)
(* itself go, one of a row whichever holds.                                *)
Without(i) ==
  [j \in Slots |-> IF j = i THEN None
     ELSE IF place = "row" /\ outbox[i].mine /\ outbox[j] # None
          THEN [outbox[j] EXCEPT !.holds = FALSE] ELSE outbox[j]]

(* The answer of serve reaches the page. *)
Reply(i) ==
  /\ outbox[i] # None /\ outbox[i].result # "out"
  /\ LET s    == outbox[i]
         ours == s.mine /\ marks # None IN
       IF s.result = "taken"
       THEN /\ marks' = IF ours THEN AfterTaken(marks, s.now) ELSE marks
            /\ page' = page
       ELSE /\ page' = WithRefused(s.now)
            /\ LET m == IF ours THEN AfterRefused(marks, s.now, s.drawn) ELSE marks
               IN marks' = IF page = None \/ page' = page THEN m
                           ELSE Followed(m, page, page')
  /\ outbox' = Without(i)
  /\ UNCHANGED <<rows, case, place, reading, reads>>

(* Mistake: an answer that never came moves the form to the case as it is. *)
LoseTaking(i) ==
  /\ outbox[i] # None
  /\ marks' = IF outbox[i].mine /\ marks # None
              THEN MarksAlong(marks, case) ELSE marks
  /\ outbox' = [outbox EXCEPT ![i] = None]
  /\ UNCHANGED <<rows, case, place, page, reading, reads>>

(***************************************************************************)
(* Serve cannot be reached: the page gives up the send, which may have     *)
(* been written or may yet be, and keeps its marks.                        *)
(***************************************************************************)
Lose(i) ==
  /\ outbox[i] # None /\ outbox[i].reply
  /\ \/ outbox' = Without(i)
     \/ /\ outbox[i].result = "out"
        /\ outbox' = [Without(i) EXCEPT ![i] =
             [outbox[i] EXCEPT !.reply = FALSE, !.mine = FALSE, !.holds = FALSE]]
  /\ UNCHANGED <<rows, case, place, page, reading, reads, marks>>

WebNext ==
  \/ OthersAppend \/ ReadForPage \/ Draw \/ Leave \/ OpenLine \/ ShutLine
  \/ \E n \in 1 .. Cardinality(Items) : Tick(n)
  \/ \E i \in Slots :
       SendWrite(i) \/ TenSeconds(i) \/ Serve(i) \/ Reply(i) \/ Lose(i)

WebSpec == WebInit /\ [][WebNext]_webVars

-----------------------------------------------------------------------------
(* Properties *)

(* The step in which serve makes the write of a send. *)
Made(i) ==
  /\ outbox[i] # None /\ outbox[i].result = "out" /\ rows' # rows
  /\ outbox'[i] = None \/ outbox'[i].result = "taken"

(***************************************************************************)
(* IN-05 for the web inbox: an answer is recorded only on the question its *)
(* form last showed, with no answer given since: not twice by a send after *)
(* one whose outcome was not known, and not by one slower than ten seconds.*)
(***************************************************************************)
WebAnswerLandsAsShown ==
  [][\A i \in Slots : Made(i) /\ outbox[i].rec.event = "answer" =>
       /\ outbox[i].seen.question = Question(case)
       /\ outbox[i].seen.lastAnswer = LastAnswer(case)]_webVars

(***************************************************************************)
(* IN-06: a withdraw, of the case view or of a row, ends the case in the   *)
(* state the human was last shown, with the answer they were shown.        *)
(***************************************************************************)
WebWithdrawEndsWhatWasShown ==
  [][\A i \in Slots : Made(i) /\ outbox[i].rec.event = "withdraw" =>
       /\ outbox[i].seen.state = case.state
       /\ outbox[i].seen.lastAnswer = LastAnswer(case)]_webVars

(***************************************************************************)
(* "the ticks made against the old list go, rather than file other items"  *)
(* (case.ts): what a briefing's answer files is what the human ticked.     *)
(***************************************************************************)
WebFilesWhatWasTicked ==
  [][\A i \in Slots :
       Made(i) /\ outbox[i].rec.event = "answer" /\ ~outbox[i].rec.drop =>
         {case.leftOut[n] : n \in outbox[i].rec.file} = outbox[i].meant]_webVars

=============================================================================
