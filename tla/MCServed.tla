------------------------------ MODULE MCServed -------------------------------
(***************************************************************************)
(* What goes between this machine and a server or a browser, each on a     *)
(* small instance: the requests to a far side (Requests), the pages that   *)
(* follow the store (Inbox), the notifications (Notices), the signing in   *)
(* and out (SignIn), and the case that all of them read and write (Case    *)
(* and Freshness).  They share no state: a behaviour is of one.            *)
(***************************************************************************)
EXTENDS Requests, Inbox, Notices, MCSignIn, MCCase, TLC

CONSTANTS u1, u2

VARIABLE part  \* the part that moves

(* One caller that calls and calls again, and two at once: over pipes      *)
(* either, over HTTP the first.                                            *)
OneAfterAnother == (u1 :> 3) @@ (u2 :> 0)
SideBySide == (u1 :> 1) @@ (u2 :> 1)
TwoPlans == {OneAfterAnother, SideBySide}

servedVars == <<part, caseVars, reqVars, inboxVars, noticeVars, signInVars>>

(* A part that does not move is at one of its first states. *)
ServedInit ==
  /\ part \in {"requests", "inbox", "notices", "sign-in", "case"}
  /\ ReqInit /\ InboxInit /\ NoticesInit /\ SignInInit /\ CaseInit
  /\ left = SideBySide => link = "pipe"
  /\ part # "requests" => left = SideBySide
  /\ part # "sign-in" => setup \in BothAtOnce

RequestsMove(A) ==
  part = "requests" /\ A /\ UNCHANGED <<part, caseVars, inboxVars, noticeVars, signInVars>>
InboxMoves(A) ==
  part = "inbox" /\ A /\ UNCHANGED <<part, caseVars, reqVars, noticeVars, signInVars>>
NoticesMove(A) ==
  part = "notices" /\ A /\ UNCHANGED <<part, caseVars, reqVars, inboxVars, signInVars>>
SignInMoves(A) ==
  part = "sign-in" /\ A /\ UNCHANGED <<part, caseVars, reqVars, inboxVars, noticeVars>>
CaseMoves(A) ==
  part = "case" /\ A /\ UNCHANGED <<part, reqVars, inboxVars, noticeVars, signInVars>>

ServedNext ==
  \/ RequestsMove(ReqNext) \/ InboxMoves(InboxNext) \/ NoticesMove(NoticesNext)
  \/ SignInMoves(SignInNext) \/ CaseMoves(CaseNext)

(* The fairness of the pages' part (InboxFairness), which asks nothing of  *)
(* the others.                                                             *)
ServedFairness ==
  /\ WF_servedVars(InboxMoves(ServeReads))
  /\ \A t \in Tabs :
       /\ WF_servedVars(InboxMoves(StreamStep(t))) /\ WF_servedVars(InboxMoves(Load(t)))
       /\ WF_servedVars(InboxMoves(Message(t))) /\ WF_servedVars(InboxMoves(Mail(t)))
       /\ WF_servedVars(InboxMoves(TakesLock(t))) /\ WF_servedVars(InboxMoves(Connects(t)))

ServedSpec == ServedInit /\ [][ServedNext]_servedVars /\ ServedFairness

=============================================================================
