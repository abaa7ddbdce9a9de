------------------------------- MODULE MCForms -------------------------------
(***************************************************************************)
(* Forms and WebForms on small inputs: a case of each kind a form differs  *)
(* on, and the amends that move what each shows.  A behaviour has one      *)
(* inbox's forms on the case; the other human writes of it are OthersWrite *)
(* and OthersAppend, which take any answer, park or withdraw.              *)
(***************************************************************************)
EXTENDS Forms, WebForms

CONSTANTS
  Longest,  \* bound: the rows of a case, by inbox and kind; 0 opens none
  b1, b2, i1, i2, r1, r2, t1, t2

VARIABLE inbox  \* the forms on the case: the terminal's, the web's view's or row's

inboxVars == <<formVars, webVars, inbox>>

MCBodies == {b1, b2}
MCItems == {i1, i2}
MCRowIds == {r1, r2}
MCRests == {t1, t2}

MCOpens ==
  {[event |-> "open", kind |-> kind,
    options |-> IF kind = "decision" THEN 1 ELSE 0,
    rows |-> IF kind = "approval" THEN {r1} ELSE {}, body |-> b1,
    leftOut |-> IF kind = "briefing" THEN <<i1>> ELSE <<>>,
    rest |-> t1] : kind \in {"decision", "approval", "stuck", "message", "briefing"}}

AmendOf(reopen, options, rs, body, leftOut, rest) ==
  [event |-> "amend", reopen |-> reopen, options |-> options, rows |-> rs,
   body |-> body, leftOut |-> leftOut, rest |-> rest]

(* A new body, option, row or left-out list, and more context, asked for   *)
(* again or not.                                                           *)
MCAmends ==
  {AmendOf(FALSE, 0, {}, b2, <<>>, None), AmendOf(FALSE, 1, {}, None, <<>>, None),
   AmendOf(FALSE, 0, {r2}, None, <<>>, None),
   AmendOf(FALSE, 0, {}, None, <<i2, i1>>, None),
   AmendOf(FALSE, 0, {}, None, <<>>, t2), AmendOf(TRUE, 0, {}, None, <<>>, t2)}

MCStored == {[author |-> "agent", rec |-> Foreign]}

ByKind(decision, approval, stuck, message, briefing) ==
  [decision |-> decision, approval |-> approval, stuck |-> stuck,
   message |-> message, briefing |-> briefing]

EachInbox ==
  [terminal |-> ByKind(3, 3, 6, 5, 3), web |-> ByKind(3, 3, 4, 4, 0),
   row |-> ByKind(0, 0, 4, 4, 0)]

AnAsk == [terminal |-> ByKind(0, 0, 6, 0, 0)]

WebBriefings == [web |-> ByKind(0, 0, 0, 0, 3)]

InboxInit ==
  /\ inbox \in DOMAIN Longest /\ FormInit /\ WebInit
  /\ (place = "case view") = (inbox = "web")

(* An ask of more than 4 rows, or 3 on a page of the web inbox, has only   *)
(* those that move it from turn to turn, and no drop.                      *)
Turns == {"open", "answer", "pickup", "note", "withdraw"}

FromTurnToTurn ==
  \A i \in DOMAIN rows' :
    /\ rows'[i].rec.event \in Turns
    /\ rows'[i].rec.event = "answer" => ~rows'[i].rec.drop

WithinLongest ==
  case' # None =>
    /\ Len(rows') <= Longest[inbox][case'.kind]
    /\ case'.kind = "stuck" /\ Len(rows') > (IF inbox = "web" THEN 3 ELSE 4) => FromTurnToTurn

(* Two sends are out at once of such an ask, each a withdraw or an answer  *)
(* that keeps it.                                                          *)
WithinSends ==
  outbox'[MaxSends] # None /\ MaxSends > 1 =>
    /\ case'.kind = "stuck" /\ FromTurnToTurn
    /\ \A i \in Slots : outbox'[i] # None =>
         /\ outbox'[i].rec.event \in Turns
         /\ outbox'[i].rec.event = "answer" => ~outbox'[i].rec.drop

OnTerminal ==
  /\ inbox = "terminal" /\ FormNext /\ WithinLongest
  /\ UNCHANGED <<pageVars, inbox>>

OnWeb ==
  /\ inbox \in {"web", "row"} /\ WebNext /\ WithinLongest /\ WithinSends
  /\ UNCHANGED <<view, form, sending, inbox>>

InboxNext == OnTerminal \/ OnWeb

InboxSpec == InboxInit /\ [][InboxNext]_inboxVars

-----------------------------------------------------------------------------
(* An answer lands on what the human saw, sent from either inbox.          *)
AnswersLand == AnswerLandsAsAsked /\ WebAnswerLandsAsShown

(* A withdraw ends what the human saw, sent from either inbox, or in the   *)
(* terminal's an answer given since an agent picked theirs up.             *)
WithdrawsLand == WithdrawPassesAPickup /\ WebWithdrawEndsWhatWasShown

=============================================================================
