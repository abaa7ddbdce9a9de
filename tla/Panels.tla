-------------------------------- MODULE Panels --------------------------------
(***************************************************************************)
(* The terminal inbox (crates/cli/src/commands/tui): its answers, drafts,  *)
(* parks, withdraws and messages, the thread that reads and writes the     *)
(* store for it, and what quitting asks, while agents and other inboxes go *)
(* on writing.  How a form follows one case is Forms; here a row of a case *)
(* is one that a form on it follows or one that it does not.               *)
(*                                                                         *)
(* Which case is selected, the list's filters, the palette, the menus and  *)
(* help are left out: any case read can be acted on.  So is which field of *)
(* a form has the keys: esc or tab out of one comes first where a key is   *)
(* the form's.  A text is a number of its own, the later typed the higher, *)
(* and 0 when blank.                                                       *)
(***************************************************************************)
EXTENDS Integers, Sequences, FiniteSets

CONSTANTS
  Stuck,     \* the stuck cases, which are answered, dropped or parked
  Messages,  \* the messages, which are edited or withdrawn
  Nothing,   \* no form, message, write or read
  New,       \* in place of a case: a message not sent yet
  Unreadable,  \* a read that failed
  MaxRev,    \* bound: the revision of a case that is written to still
  MaxTexts   \* bound: the texts typed

VARIABLES
  store,     \* each case: its state, revision, and last row no form follows
  recorded,  \* the texts in the store: a history value
  view,      \* the cases as the inbox last read them
  form,      \* the form that has the keys
  drafts,    \* the answers the keys were taken out of, by case
  compose,   \* the message being written
  sending,   \* the write being sent, and how it went once the thread knows
  thread,    \* the thread: what it is asked, what it runs, what it gives
  quitting,  \* "no", "asking", "landing" a write, and "over"
  typed,     \* the last text typed
  flashed    \* the lines of the last step, and what each is about

panelVars == <<store, recorded, view, form, drafts, compose, sending, thread,
               quitting, typed, flashed>>

AllCases == Stuck \cup Messages
Acts == {"answer", "park", "withdraw"}

RowStates == {"open", "parked", "answered", "sent", "pickedup", "ended", "gone"}

(* What the variables hold when there is something in them. *)
Stores == [AllCases -> [state : RowStates, rev : Nat, mark : Nat]]
Forms == [key : AllCases, act : Acts, rev : Nat, text : Nat,
          asks : {"nothing", "drop", "discard", "withdraw"}]
Composes == [key : AllCases \cup {New}, rev : Nat, text : Nat, asks : BOOLEAN]
Writes == [key : AllCases \cup {New},
           what : {"answer", "drop", "park", "withdraw", "resume", "edit", "open"},
           rev : Nat, text : Nat, result : {"out", "taken", "stale", "refused"}]

(* The constants that stand for nothing, a new message and a failed read   *)
(* are none of these, nor each other.                                      *)
ASSUME ApartAssumption ==
  /\ New \notin AllCases /\ Nothing # Unreadable
  /\ Nothing \notin Forms \cup Composes \cup Writes \cup Stores
  /\ Unreadable \notin Stores
  /\ MaxRev \in Nat /\ MaxTexts \in Nat

(***************************************************************************)
(* The store                                                               *)
(***************************************************************************)

(* A row on a case, which a form drawn before it follows or does not. *)
Row(c, state, followed) ==
  [state |-> state, rev |-> c.rev + 1, mark |-> IF followed THEN c.mark ELSE c.rev + 1]

Gone == [state |-> "gone", rev |-> 0, mark |-> 0]

(* The states another's write may leave a case in, those a form follows it *)
(* to, and those of a case nothing is written to any more.                 *)
OthersLeave(k, state) ==
  CASE state = "open" -> {"open", "answered", "parked", "ended"}
    [] state = "parked" -> {"open"}
    [] state = "sent" -> {"sent", "pickedup", "ended"}
    [] state = "answered" -> {"open", "pickedup", "ended"}
    [] state = "pickedup" -> (IF k \in Stuck THEN {"open"} ELSE {}) \cup {"ended"}
    [] OTHER -> {}

FollowedTo == {<<"open", "open">>, <<"sent", "sent">>, <<"answered", "pickedup">>,
               <<"sent", "pickedup">>}

(* Act::fits, resumes and edits: what the screen offers on a case. *)
Fits(act, k, c) ==
  \/ act \in {"answer", "park"} /\ c.state = "open" /\ k \in Stuck
  \/ act = "withdraw" /\ c.state \in {"answered", "pickedup", "sent"}
  \/ act = "resume" /\ c.state = "parked"
  \/ act = "edit" /\ c.state = "sent"

(* What a human's write makes of a case. *)
Written(what, c) ==
  Row(c, [answer |-> "answered", drop |-> "answered", park |-> "parked",
          withdraw |-> "ended", resume |-> "open", edit |-> "sent"][what], FALSE)

(* Until the screen is over, which nothing more is seen of. *)
Running == quitting \notin {"over", "interrupted"}

(* Agents and other inboxes write to a case, or it is archived. *)
AnotherWrites(k) ==
  /\ Running /\ store[k].state # "gone" /\ store[k].rev < MaxRev
  /\ \/ \E state \in OthersLeave(k, store[k].state), followed \in BOOLEAN :
          /\ followed => <<store[k].state, state>> \in FollowedTo
          /\ store' = [store EXCEPT ![k] = Row(@, state, followed)]
     \/ store' = [store EXCEPT ![k] = Gone]
  /\ flashed' = {}
  /\ UNCHANGED <<recorded, view, form, drafts, compose, sending, thread, quitting, typed>>

(***************************************************************************)
(* The forms and drafts, as a read, a write and a key move them            *)
(***************************************************************************)

Drawn(k, act) ==
  [key |-> k, act |-> act, rev |-> view[k].rev, text |-> 0, asks |-> "nothing"]

(* Form::follow: a form takes the revision when it followed what was done; *)
(* a message's is followed by the human's own edits too.                   *)
Followed(f, c) ==
  IF f.key \in Messages \/ c.mark <= f.rev THEN [f EXCEPT !.rev = c.rev] ELSE f

(* The cases of the write being sent: what the read after it shows of them *)
(* is said by how the write went.                                          *)
BeingSent(w) == IF w = Nothing THEN {} ELSE {w.key} \ {New}

(* Mistake: a form is closed by the very write it sent, as by another's.   *)
GoesAlways(f, v, w) == f # Nothing /\ ~Fits(f.act, f.key, v[f.key])

(* Whether a form or draft goes with the read v while w is sent. *)
GoesAway(f, v, w) ==
  f # Nothing /\ ~Fits(f.act, f.key, v[f.key]) /\ f.key \notin BeingSent(w)

AfterRead(f, v, w) ==
  IF f = Nothing \/ GoesAway(f, v, w) THEN Nothing
  ELSE IF Fits(f.act, f.key, v[f.key]) THEN Followed(f, v[f.key]) ELSE f

Line(what, k, text) == [what |-> what, key |-> k, text |-> text]

FormLines(f, ds, v, w) ==
  {Line("not sent", g.key, g.text) :
     g \in {h \in {f} \cup {ds[k] : k \in AllCases} : GoesAway(h, v, w)}}

(* App::leave_panel: the answer becomes its case's draft, if it was        *)
(* touched.                                                                *)
Left(f, ds) ==
  IF f # Nothing /\ f.act = "answer" /\ f.text # 0
    THEN [ds EXCEPT ![f.key] = f] ELSE ds

(* App::follow_compose: an edit goes once the message is not as sent.      *)
EditGoes(c, v) == c # Nothing /\ c.key # New /\ v[c.key].state # "sent"

EditAfterRead(c, v) ==
  IF c = Nothing \/ EditGoes(c, v) THEN Nothing
  ELSE IF c.key # New /\ v[c.key].mark <= c.rev THEN [c EXCEPT !.rev = v[c.key].rev] ELSE c

EditLines(c, v) ==
  IF EditGoes(c, v) THEN {Line("edit not sent", c.key, c.text)} ELSE {}

NewMessage == [key |-> New, rev |-> 0, text |-> 0, asks |-> FALSE]
Edit(k, c) == [key |-> k, rev |-> c.rev, text |-> 0, asks |-> FALSE]

(* No key reaches the forms while quitting is asked about, or done. *)
Keys == quitting = "no"

ScreenOnly == UNCHANGED <<store, recorded, view, quitting>>

(* Whether a form or message holds all the keys; an answer does not. *)
Modal == compose # Nothing \/ (form # Nothing /\ form.act # "answer")

(* App::start: an answer that was left is taken up where it was. *)
StartForm(k, act) ==
  /\ Keys /\ ~Modal /\ Fits(act, k, view[k])
  /\ form # Nothing => form.asks = "nothing" /\ <<form.key, form.act>> # <<k, act>>
  /\ LET ds == Left(form, drafts)
     IN IF act = "answer" /\ ds[k] # Nothing
          THEN form' = ds[k] /\ drafts' = [ds EXCEPT ![k] = Nothing]
          ELSE form' = Drawn(k, act) /\ drafts' = ds
  /\ flashed' = {}
  /\ ScreenOnly /\ UNCHANGED <<compose, sending, thread, typed>>

(* Typing goes into the field, and the editor gives a text as typing does. *)
TypeInForm ==
  /\ Keys /\ form # Nothing /\ form.asks = "nothing" /\ typed < MaxTexts
  /\ typed' = typed + 1
  /\ form' = [form EXCEPT !.text = typed'] /\ flashed' = {}
  /\ ScreenOnly /\ UNCHANGED <<drafts, compose, sending, thread>>

(* Esc or tab take the keys out of an answer; a park or withdraw is left   *)
(* by esc, at once with nothing typed.                                     *)
LeaveForm ==
  /\ Keys /\ form # Nothing /\ form.asks = "nothing"
  /\ form.act # "answer" => form.text = 0
  /\ form' = Nothing /\ drafts' = Left(form, drafts) /\ flashed' = {}
  /\ ScreenOnly /\ UNCHANGED <<compose, sending, thread, typed>>

(* What a form asks before it goes on: of an answer, to drop the case or   *)
(* to discard what was typed; of the others, to discard it.                *)
AskInForm(what) ==
  /\ Keys /\ form # Nothing /\ form.asks = "nothing"
  /\ IF what = "drop" THEN form.act = "answer" ELSE form.text # 0
  /\ form' = [form EXCEPT !.asks = what] /\ flashed' = {}
  /\ ScreenOnly /\ UNCHANGED <<drafts, compose, sending, thread, typed>>

(***************************************************************************)
(* The writes                                                              *)
(***************************************************************************)

(* A write asked for goes to the thread, with the lines of before cleared; *)
(* while one is being sent another is not.                                 *)
Sends(k, what, rev, text) ==
  /\ rev <= MaxRev
  /\ IF sending # Nothing
       THEN /\ flashed' = {Line("wait", k, text)}
            /\ UNCHANGED <<sending, thread>>
       ELSE /\ sending' = [key |-> k, what |-> what, rev |-> rev, text |-> text,
                           result |-> "out"]
            /\ thread' = [thread EXCEPT !.asked = Append(@, "write")]
            /\ flashed' = {}

(* Enter, ctrl-s or a button: an answer needs its text, and a withdraw is  *)
(* asked about first.                                                      *)
SendForm ==
  /\ Keys /\ form # Nothing /\ form.asks = "nothing"
  /\ form.act = "answer" => form.text # 0
  /\ IF form.act = "withdraw"
       THEN /\ form' = [form EXCEPT !.asks = "withdraw"]
            /\ flashed' = {} /\ UNCHANGED <<sending, thread>>
       ELSE Sends(form.key, form.act, form.rev, form.text) /\ UNCHANGED form
  /\ ScreenOnly /\ UNCHANGED <<drafts, compose, typed>>

(* The answer to what a form asks: y goes on, any other key takes it back. *)
AnswerForm(yes) ==
  /\ Keys /\ form # Nothing /\ form.asks # "nothing"
  /\ IF yes /\ form.asks = "discard" THEN form' = Nothing
     ELSE form' = [form EXCEPT !.asks = "nothing"]
  /\ IF yes /\ form.asks # "discard" THEN Sends(form.key, form.asks, form.rev, form.text)
     ELSE flashed' = {} /\ UNCHANGED <<sending, thread>>
  /\ ScreenOnly /\ UNCHANGED <<drafts, compose, typed>>

Resume(k) ==
  /\ Keys /\ form = Nothing /\ compose = Nothing /\ Fits("resume", k, view[k])
  /\ Sends(k, "resume", view[k].rev, 0)
  /\ ScreenOnly /\ UNCHANGED <<form, drafts, compose, typed>>

(* A message is begun from the list, or out of an answer. *)
StartMessage(c) ==
  /\ Keys /\ ~Modal /\ (form # Nothing => form.asks = "nothing")
  /\ compose' = c /\ form' = Nothing /\ drafts' = Left(form, drafts) /\ flashed' = {}
  /\ ScreenOnly /\ UNCHANGED <<sending, thread, typed>>

StartEdit(k) == Fits("edit", k, view[k]) /\ StartMessage(Edit(k, view[k]))

TypeInMessage ==
  /\ Keys /\ compose # Nothing /\ ~compose.asks /\ typed < MaxTexts
  /\ typed' = typed + 1
  /\ compose' = [compose EXCEPT !.text = typed'] /\ flashed' = {}
  /\ ScreenOnly /\ UNCHANGED <<form, drafts, sending, thread>>

(* Esc leaves the message at once with nothing typed, and asks otherwise.  *)
LeaveMessage ==
  /\ Keys /\ compose # Nothing /\ ~compose.asks
  /\ compose' = IF compose.text = 0 THEN Nothing ELSE [compose EXCEPT !.asks = TRUE]
  /\ flashed' = {}
  /\ ScreenOnly /\ UNCHANGED <<form, drafts, sending, thread, typed>>

AnswerMessage(yes) ==
  /\ Keys /\ compose # Nothing /\ compose.asks
  /\ compose' = IF yes THEN Nothing ELSE [compose EXCEPT !.asks = FALSE]
  /\ flashed' = {}
  /\ ScreenOnly /\ UNCHANGED <<form, drafts, sending, thread, typed>>

(* A message with nothing typed, or an edit that changes nothing, is not   *)
(* sent.                                                                   *)
SendMessage ==
  /\ Keys /\ compose # Nothing /\ ~compose.asks /\ compose.text # 0
  /\ Sends(compose.key, IF compose.key = New THEN "open" ELSE "edit",
           compose.rev, compose.text)
  /\ ScreenOnly /\ UNCHANGED <<form, drafts, compose, typed>>

(***************************************************************************)
(* The thread                                                              *)
(***************************************************************************)

Idle == [asked |-> <<>>, wrote |-> FALSE, read |-> Nothing, after |-> FALSE]

(* Reader::busy: a read asked for has not been taken. *)
Busy == thread.asked # <<>> \/ thread.wrote \/ thread.read # Nothing

AskRead ==
  /\ quitting \in {"no", "asking"} /\ ~Busy
  /\ thread' = [thread EXCEPT !.asked = <<"read">>] /\ flashed' = {}
  /\ UNCHANGED <<store, recorded, view, form, drafts, compose, sending, quitting, typed>>

(* The store takes a write, or refuses it, as stale or, as when the case   *)
(* is gone, for a reason of its own.                                       *)
Results(w) ==
  {"refused"}
    \cup (IF w.key = New THEN {"taken"}
          ELSE IF store[w.key].state = "gone" THEN {}
          ELSE IF store[w.key].rev = w.rev THEN {"taken"} ELSE {"stale"})

ThreadWrites ==
  /\ Running /\ ~thread.wrote /\ thread.asked # <<>> /\ Head(thread.asked) = "write"
  /\ \E result \in Results(sending) :
       /\ sending' = [sending EXCEPT !.result = result]
       /\ store' = IF result # "taken" \/ sending.key = New THEN store
                   ELSE [store EXCEPT ![sending.key] = Written(sending.what, @)]
       /\ recorded' = IF result = "taken" THEN recorded \cup ({sending.text} \ {0}) ELSE recorded
  /\ thread' = [thread EXCEPT !.asked = Tail(@), !.wrote = TRUE] /\ flashed' = {}
  /\ UNCHANGED <<view, form, drafts, compose, quitting, typed>>

(* A read asked for, or the one after a write, gives the store as it is,   *)
(* or that it could not be read.                                           *)
ThreadReads ==
  /\ Running
  /\ thread.wrote \/ (thread.asked # <<>> /\ Head(thread.asked) = "read")
  /\ \E read \in {store, Unreadable} :
       thread' = [asked |-> IF thread.wrote THEN thread.asked ELSE Tail(thread.asked),
                  wrote |-> FALSE, read |-> read, after |-> thread.wrote]
  /\ flashed' = {}
  /\ UNCHANGED <<store, recorded, view, form, drafts, compose, sending, quitting, typed>>

(***************************************************************************)
(* How the read the thread gave leaves the screen                          *)
(***************************************************************************)

(* App::update: the forms, then the message, follow the read. *)
Updated(s, v, w) ==
  [form |-> AfterRead(s.form, v, w),
   drafts |-> [k \in AllCases |-> AfterRead(s.drafts[k], v, w)],
   compose |-> EditAfterRead(s.compose, v),
   lines |-> s.lines \cup FormLines(s.form, s.drafts, v, w) \cup EditLines(s.compose, v)]

(* Mistake: whatever has the keys goes with a write that was recorded.     *)
ClosedAny(f, w) == Nothing

(* What a recorded write leaves of a form, a draft or a message being      *)
(* written.                                                                *)
Closed(f, w) == IF f # Nothing /\ f.key = w.key THEN Nothing ELSE f

(* App::sent_message: a new message recorded closes whichever message is   *)
(* being written.                                                          *)
ClosedMessage(c, w) == IF w.key = New THEN Nothing ELSE Closed(c, w)

(* Form::amended, after a stale write: the case is taken as it is now. *)
Amended(f, v, w) ==
  IF f # Nothing /\ f.key = w.key /\ w.what # "edit" THEN [f EXCEPT !.rev = v[w.key].rev]
  ELSE f

(* App::sent and sent_message: how the write went. *)
Told(s, v, w) ==
  IF w.result = "taken"
    THEN [form |-> Closed(s.form, w),
          drafts |-> [k \in AllCases |-> Closed(s.drafts[k], w)],
          compose |-> ClosedMessage(s.compose, w),
          lines |-> s.lines \cup {Line("recorded", w.key, w.text)}]
  ELSE IF w.result = "stale" /\ v[w.key].state # "gone"
    THEN [form |-> Amended(s.form, v, w),
          drafts |-> [k \in AllCases |-> Amended(s.drafts[k], v, w)],
          compose |-> IF w.what = "edit" /\ s.compose # Nothing /\ s.compose.key = w.key
                        THEN Edit(w.key, v[w.key]) ELSE s.compose,
          lines |-> s.lines \cup {Line("not sent", w.key, w.text)}]
  ELSE [s EXCEPT !.lines = @ \cup {Line("not sent", w.key, w.text)}]

(* App::wrote: how it went, and then what no longer fits goes. *)
Wrote(s, v, w) ==
  LET told == Told(s, v, w)
  IN [form |-> AfterRead(told.form, v, Nothing),
      drafts |-> [k \in AllCases |-> AfterRead(told.drafts[k], v, Nothing)],
      compose |-> told.compose,
      lines |-> told.lines \cup FormLines(told.form, told.drafts, v, Nothing)]

(* Mistake: how a write went is told with any read taken after it.         *)
IsAfterAny(t) == sending # Nothing /\ sending.result # "out"

(* Reader::wrote: whether the read given is the one after the write.       *)
IsAfter(t) == t.after

(* The read the thread gave is taken; a failed one leaves the cases read   *)
(* before.  How a write went is told with the read after it.               *)
TakeRead ==
  /\ quitting \in {"no", "asking"} /\ thread.read # Nothing
  /\ LET s == [form |-> form, drafts |-> drafts, compose |-> compose, lines |-> {}]
         read == thread.read # Unreadable
         v == IF read THEN thread.read ELSE view
         updated == IF read THEN Updated(s, v, sending) ELSE s
         shown == IF IsAfter(thread) THEN Wrote(updated, v, sending) ELSE updated
     IN /\ view' = v
        /\ form' = shown.form /\ drafts' = shown.drafts /\ compose' = shown.compose
        /\ flashed' = shown.lines
  /\ sending' = IF IsAfter(thread) THEN Nothing ELSE sending
  /\ thread' = [asked |-> thread.asked, wrote |-> thread.wrote, read |-> Nothing,
                after |-> FALSE]
  /\ UNCHANGED <<store, recorded, quitting, typed>>

(***************************************************************************)
(* Quitting                                                                *)
(***************************************************************************)

(* Whether the write being sent is of what is typed there. *)
OnItsWay(k) == sending # Nothing /\ sending.key = k

(* App::ask_quit: what asks before it is lost. *)
AsksFirst ==
  \E f \in {form, compose} \cup {drafts[k] : k \in AllCases} :
     f # Nothing /\ f.text # 0 /\ ~OnItsWay(f.key)

(* The screen ends, and a write being sent is waited for but by ctrl-c. *)
Quits(ctrl) ==
  quitting' = IF ctrl THEN "interrupted" ELSE IF sending = Nothing THEN "over" ELSE "landing"

QuitOnly ==
  UNCHANGED <<store, recorded, view, form, drafts, compose, sending, thread, typed>>

(* q, or ctrl-c. *)
QuitKey(ctrl) ==
  /\ Keys
  /\ IF AsksFirst THEN quitting' = "asking" ELSE Quits(ctrl)
  /\ flashed' = {} /\ QuitOnly

AnswerQuit(yes) ==
  /\ quitting = "asking"
  /\ IF yes THEN Quits(FALSE) ELSE quitting' = "no"
  /\ flashed' = {} /\ QuitOnly

(* Esc on the list. *)
EscOnList ==
  /\ Keys /\ form = Nothing /\ compose = Nothing
  /\ Quits(FALSE) /\ flashed' = {} /\ QuitOnly

(* Once the screen is gone the write is waited for, and its text is given  *)
(* back if it was refused or has not landed in time.                       *)
Land ==
  /\ quitting = "landing" /\ quitting' = "over"
  /\ \/ thread.after /\ sending.result = "taken"
        /\ flashed' = {Line("recorded", sending.key, sending.text)}
     \/ thread.after /\ sending.result # "taken"
        /\ flashed' = {Line("given back", sending.key, sending.text)}
     \/ ~thread.after
        /\ flashed' = {Line("given back", sending.key, sending.text)}
  /\ QuitOnly

-----------------------------------------------------------------------------
First(k) == [state |-> IF k \in Stuck THEN "open" ELSE "sent", rev |-> 1, mark |-> 0]

(* The inbox has read a store with any of the cases. *)
PanelInit ==
  /\ \E here \in SUBSET AllCases : store = [k \in AllCases |-> IF k \in here THEN First(k) ELSE Gone]
  /\ view = store /\ recorded = {}
  /\ form = Nothing /\ drafts = [k \in AllCases |-> Nothing] /\ compose = Nothing
  /\ sending = Nothing /\ thread = Idle /\ quitting = "no" /\ typed = 0 /\ flashed = {}

PanelNext ==
  \/ TypeInForm \/ LeaveForm \/ SendForm
  \/ StartMessage(NewMessage) \/ TypeInMessage \/ LeaveMessage \/ SendMessage
  \/ AskRead \/ ThreadWrites \/ ThreadReads \/ TakeRead \/ EscOnList \/ Land
  \/ \E k \in AllCases : AnotherWrites(k) \/ Resume(k) \/ StartEdit(k)
  \/ \E k \in AllCases, act \in Acts : StartForm(k, act)
  \/ \E what \in {"drop", "discard"} : AskInForm(what)
  \/ \E yes \in BOOLEAN : AnswerForm(yes) \/ AnswerMessage(yes) \/ AnswerQuit(yes)
  \/ \E ctrl \in BOOLEAN : QuitKey(ctrl)

PanelSpec == PanelInit /\ [][PanelNext]_panelVars

-----------------------------------------------------------------------------
(* Properties *)

Typed(f) == f # Nothing /\ f.text # 0

(* What is typed on the screen: in an answer, its draft, a park, a         *)
(* withdraw or a message.                                                  *)
OnScreen ==
  {[key |-> f.key, act |-> f.act, text |-> f.text] :
     f \in {g \in {form} \cup {drafts[k] : k \in AllCases} : Typed(g)}}
    \cup {[key |-> c.key, act |-> "message", text |-> c.text] : c \in {d \in {compose} : Typed(d)}}

Leaves(h) ==
  ~\E g \in OnScreen' : g.key = h.key /\ g.act = h.act /\ g.text >= h.text

(* The human said yes to throwing away what has the keys. *)
ThrownAway(h) ==
  \/ form # Nothing /\ form.asks = "discard" /\ <<h.key, h.act>> = <<form.key, form.act>>
  \/ compose # Nothing /\ compose.asks /\ h.act = "message"

About(l, h) == l.key = h.key \/ (l.key = New /\ h.act = "message")

(***************************************************************************)
(* What was typed leaves the screen only thrown away by a yes, or with a   *)
(* line that says what was recorded or not sent of its case, or, for a     *)
(* message, of a message; and a write being sent when the human quit is    *)
(* recorded, or what was typed into it is given back.                      *)
(***************************************************************************)
TypedIsKept ==
  [][/\ \A h \in OnScreen :
          Leaves(h) => ThrownAway(h) \/ \E l \in flashed' : l.what # "wait" /\ About(l, h)
     /\ quitting = "landing" /\ quitting' = "over" =>
          sending.text \in recorded \cup {0} \/ \E l \in flashed' : l.what = "given back"]_panelVars

(***************************************************************************)
(* A line says that nothing was sent of an answer, a park or a withdraw    *)
(* only when what was typed into it is not in the store: the read that     *)
(* shows a case moved by the write being sent does not say so (TU-04).     *)
(***************************************************************************)
NotSentIsSo == \A l \in flashed : l.what = "not sent" => l.text \notin recorded

(* So it is of the edit of a message too. *)
NothingSentIsSo ==
  \A l \in flashed : l.what \in {"not sent", "edit not sent"} => l.text \notin recorded

(***************************************************************************)
(* How a write went is told with the case as the write left it: at the     *)
(* revision it made, if a read after it worked (TU-04).                    *)
(***************************************************************************)
ToldAsShown ==
  [][sending # Nothing /\ sending' = Nothing /\ sending.key # New
       /\ sending.result = "taken" /\ thread.read # Unreadable =>
          view'[sending.key].state = "gone" \/ view'[sending.key].rev > sending.rev]_panelVars

(***************************************************************************)
(* Quitting asks first when a form or a message has something typed that   *)
(* is not on its way in the write being sent (TU-08).                      *)
(***************************************************************************)
QuittingAsks ==
  [][quitting = "no" /\ quitting' \notin {"no", "asking"} =>
       \A h \in OnScreen : sending # Nothing /\ h.text = sending.text]_panelVars

=============================================================================
