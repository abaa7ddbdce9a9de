-------------------------------- MODULE Forms --------------------------------
(***************************************************************************)
(* The terminal inbox's form on one case (crates/cli/src/commands/tui):    *)
(* the human answers, parks or withdraws from a form drawn on an earlier   *)
(* read, while agents and other inboxes go on writing to the case.  A form *)
(* follows each read by Case::since, a send is a write at the form's       *)
(* revision made in the background, and a stale one is shown the case and  *)
(* may be sent again.                                                      *)
(***************************************************************************)
EXTENDS Freshness

VARIABLES
  view,    \* the case as the inbox last read it
  form,    \* the form on it, or None
  sending  \* the write being sent for the form, or None

formVars == <<rows, case, view, form, sending>>

Acts == {"answer", "park", "withdraw"}

(* Mistake: a withdraw is offered until the case is withdrawn.             *)
ActFitsEnded(act, c) ==
  \/ act = "answer" /\ c.state = "open" /\ c.kind # "message"
  \/ act = "park" /\ c.state = "open" /\ c.kind = "stuck"
  \/ act = "withdraw" /\ c.state \notin {"open", "withdrawn"}

(***************************************************************************)
(* Whether a form's act fits the case.  The inbox offers no withdraw of an *)
(* open case: an answer drops it.                                          *)
(***************************************************************************)
ActFits(act, c) ==
  \/ act = "answer" /\ c.state = "open" /\ c.kind # "message"
  \/ act = "park" /\ c.state = "open" /\ c.kind = "stuck"
  \/ act = "withdraw" /\ c.state \in {"answered", "pickedup", "sent"}

(* What the human had before them when they last took the case in: a       *)
(* history value, which no action reads.                                   *)
Shown(c) == [question |-> Question(c), lastAnswer |-> LastAnswer(c)]

Drawn(act, c) ==
  [act |-> act, revision |-> c.revision, amendSeq |-> c.amendSeq,
   seq |-> c.lastSeq, options |-> c.options, rows |-> c.rows,
   leftOut |-> c.leftOut, ticks |-> {}, meant |-> {}, shown |-> Shown(c)]

(* The case's marks: what a send is checked against. *)
TakeMarks(f, c) ==
  [f EXCEPT !.revision = c.revision, !.amendSeq = c.amendSeq, !.seq = c.lastSeq]

(* Mistake: the ticks stay when the left-out list is another one.          *)
TakeOptionsTicked(f, c) == [f EXCEPT !.options = c.options, !.leftOut = c.leftOut]

(* The options of the case, and its left-out list: an item is filed by its *)
(* number, so another list takes no ticks.                                 *)
TakeOptions(f, c) ==
  [f EXCEPT !.options = c.options, !.leftOut = c.leftOut,
            !.ticks = IF f.leftOut = c.leftOut THEN @ ELSE {},
            !.meant = IF f.leftOut = c.leftOut THEN @ ELSE {}]

(* The form takes the case's marks when the case is unchanged, or moved to *)
(* another state the form fits; it can choose the options shown either way.*)
Follow(f, c) ==
  LET since == Since(c, f.revision, f.seq)
      take  == since = "unchanged" \/ (since = "moved" /\ ActFits(f.act, c))
  IN TakeOptions(IF take THEN TakeMarks(f, c) ELSE f, c)

(* After a send refused as stale the human is told to read it again. *)
Amended(f, c) ==
  [TakeOptions(TakeMarks(f, c), c) EXCEPT !.rows = c.rows, !.shown = Shown(c)]

(* What a read of c leaves of the form: a form with no write out goes when *)
(* the case no longer takes it.                                            *)
FollowForm(f, c, out) ==
  IF f = None THEN None
  ELSE IF ActFits(f.act, c) THEN Follow(f, c)
  ELSE IF out # None THEN f ELSE None

FormInit == CaseInit /\ view = None /\ form = None /\ sending = None

(* Others write, of which the inbox reads nothing yet. *)
OthersWrite == CaseNext /\ UNCHANGED <<view, form, sending>>

(* A poll: the inbox takes the case as it is, and the form follows it. *)
ReadCase ==
  /\ case # None /\ case # view
  /\ view' = case
  /\ form' = FollowForm(form, case, sending)
  /\ UNCHANGED <<rows, case, sending>>

(* The human opens a form on the case as shown. *)
StartForm(act) ==
  /\ view # None /\ form = None /\ ActFits(act, view)
  /\ form' = Drawn(act, view)
  /\ UNCHANGED <<rows, case, view, sending>>

CancelForm ==
  /\ form # None
  /\ form' = None
  /\ UNCHANGED <<rows, case, view, sending>>

(* The human ticks or unticks a left-out item; `meant` is the items they   *)
(* read at the numbers ticked, a history value.                            *)
TickItem(n) ==
  /\ form # None /\ form.act = "answer" /\ n \in DOMAIN form.leftOut
  /\ LET item == {form.leftOut[n]}
         on   == n \notin form.ticks IN
       form' = [form EXCEPT
                  !.ticks = IF on THEN @ \cup {n} ELSE @ \ {n},
                  !.meant = IF on THEN @ \cup item ELSE @ \ item]
  /\ UNCHANGED <<rows, case, view, sending>>

(* The records a form can send: of an answer, any choice it offers, a      *)
(* verdict on each row it shows, the items ticked, or a drop.              *)
FormRecords(f) ==
  IF f.act # "answer" THEN {[event |-> f.act]}
  ELSE {[event |-> "answer", amendSeq |-> f.amendSeq, drop |-> FALSE,
         choice |-> n, rows |-> f.rows, file |-> f.ticks] : n \in 0 .. f.options}
       \cup {[event |-> "answer", amendSeq |-> f.amendSeq, drop |-> TRUE,
              choice |-> 0, rows |-> {}, file |-> {}]}

(* Send: the record and the revision are taken now, and written later. *)
SendForm ==
  /\ form # None /\ sending = None
  /\ \E r \in FormRecords(form) :
        sending' = [rec |-> r, revision |-> form.revision,
                    shown |-> form.shown, meant |-> form.meant,
                    result |-> "out"]
  /\ UNCHANGED <<rows, case, view, form>>

(* The write reaches the store, which takes it or refuses it: as stale at  *)
(* another revision or for an older amend, and otherwise as not allowed.   *)
StaleSend(s) ==
  \/ s.revision # case.revision
  \/ s.rec.event = "answer" /\ case.amendSeq > s.rec.amendSeq

WriteSent ==
  /\ sending # None /\ sending.result = "out"
  /\ \/ /\ AppendTo("human", sending.rec, sending.revision)
        /\ sending' = [sending EXCEPT !.result = "taken"]
     \/ /\ \/ StaleSend(sending)
           \/ ~Fits(case, "human", sending.rec, TRUE)
        /\ sending' = [sending EXCEPT
             !.result = IF StaleSend(sending) THEN "stale" ELSE "refused"]
        /\ UNCHANGED <<rows, case>>
  /\ UNCHANGED <<view, form>>

(* The read after the write lands, with how the write went: update, then   *)
(* sent, then the form follows once more.                                  *)
Landed ==
  /\ sending # None /\ sending.result # "out"
  /\ view' = case
  /\ sending' = None
  /\ LET followed == FollowForm(form, case, sending)
         told == IF followed = None \/ sending.result = "taken" THEN None
                 ELSE IF sending.result = "stale" THEN Amended(followed, case)
                 ELSE followed
     IN form' = FollowForm(told, case, None)
  /\ UNCHANGED <<rows, case>>

FormNext == \/ OthersWrite \/ ReadCase \/ CancelForm \/ SendForm
            \/ WriteSent \/ Landed
            \/ \E act \in Acts : StartForm(act)
            \/ \E n \in 1 .. Cardinality(Items) : TickItem(n)

FormSpec == FormInit /\ [][FormNext]_formVars

-----------------------------------------------------------------------------
(* Properties *)

(* The step in which the store takes what the form sent. *)
Takes == /\ sending # None /\ sending' # None
         /\ sending.result = "out" /\ sending'.result = "taken"

(***************************************************************************)
(* IN-05: an answer lands only on the question the human had before them,  *)
(* and with no other answer given since, however many notes and amends the *)
(* form followed on the way.                                               *)
(***************************************************************************)
AnswerLandsAsAsked ==
  [][Takes /\ sending.rec.event = "answer" =>
         sending.shown = Shown(case)]_formVars

(***************************************************************************)
(* "On each read the inbox asks Case::since whether the case is still the  *)
(* one the human read, and takes the new revision only when it is"         *)
(* (freshness.rs): so a withdraw would end the answer the human saw.       *)
(***************************************************************************)
WithdrawEndsWhatWasSeen ==
  [][Takes /\ sending.rec.event = "withdraw" =>
         sending.shown.lastAnswer = LastAnswer(case)]_formVars

(***************************************************************************)
(* IN-06: a withdraw ends a case that asks what the human saw, and the     *)
(* answer they saw or one given since an agent picked theirs up: never one *)
(* given in place of an answer no agent took.                              *)
(***************************************************************************)
WithdrawPassesAPickup ==
  [][Takes /\ sending.rec.event = "withdraw" =>
         /\ case.kind # "message" => sending.shown.question = Question(case)
         /\ \/ sending.shown.lastAnswer = LastAnswer(case)
            \/ \E i \in DOMAIN case.events :
                 /\ case.events[i].event = "pickup"
                 /\ sending.shown.lastAnswer < case.events[i].seq
                 /\ case.events[i].seq < LastAnswer(case)]_formVars

(***************************************************************************)
(* A briefing's answer files what the human ticked: the numbers it carries *)
(* name, in the case that takes it, the very items they read when they     *)
(* ticked them, whatever list an amend put in their place meanwhile.       *)
(***************************************************************************)
FilesWhatWasTicked ==
  [][Takes /\ sending.rec.event = "answer" /\ ~sending.rec.drop =>
         {case.leftOut[n] : n \in sending.rec.file} = sending.meant]_formVars

(***************************************************************************)
(* A form is a promise the store can keep: one whose marks are the case's  *)
(* now would be taken.  What the form fits is what the writer allows.      *)
(***************************************************************************)
FreshFormIsTaken ==
  form # None /\ form.revision = case.revision /\ ActFits(form.act, case) =>
    \A r \in FormRecords(form) : Fits(case, "human", r, TRUE)

=============================================================================
