-------------------------------- MODULE Lease --------------------------------
(***************************************************************************)
(* The locks of pickup waits on a forwarded store: the hold each wait      *)
(* keeps (crates/store-remote/src/hold.rs), the far side that has the lock *)
(* (crates/cli/src/dial.rs), and the requests between them, which are      *)
(* delayed, lost and answered too late.  All the waits here want one lock, *)
(* the same worker's, label's or id's; the store may not be made yet.      *)
(*                                                                         *)
(* Time is what is left of a lease, in ticks: each ClocksTick takes one    *)
(* from every clock that is right.  A hold reads two clocks, of which one  *)
(* may be wrong: the monotonic one stands still while the computer sleeps, *)
(* or the wall clock is set back.  The far side's clock is right.          *)
(***************************************************************************)
EXTENDS Integers

CONSTANTS
  Waits,      \* the waits that want the lock
  Third       \* a third of the far side's lease, in ticks

ASSUME TimesAssumption == Third \in Nat \ {0}

FullLease == 3 * Third

(* What a hold counts on: the lease less a third. *)
Good == 2 * Third

VARIABLES
  onDisk,    \* whether the store has been made
  wrong,     \* which clock of each wait's computer may be wrong
  phase,     \* where each wait's hold is
  hold,      \* what is left of each hold, by either clock
  pending,   \* what would be, were the request on its way answered now
  requests,  \* each wait's requests on their way to the far side
  answers,   \* and the far side's answers on their way back
  writing,   \* each wait's pickup, by the ticks since it was begun
  far        \* what the far side keeps for each wait

clientVars == <<phase, hold, pending>>
leaseVars == <<onDisk, wrong, phase, hold, pending, requests, answers, writing, far>>

Clocks == {"mono", "wall"}

Phases == {"new", "asking", "holding", "renewing", "lost", "done"}

(***************************************************************************)
(* A pickup on its way is of an age, 0 up to a third of a lease, and then  *)
(* Late.  Its wait may give it up, once its deadline or its connection is  *)
(* over, with the request still Adrift: it is stored at any time, or never.*)
(***************************************************************************)
Late == Third + 1
Adrift == Third + 2
Still == Third + 3

(* No call of a pickup goes on. *)
Over(w) == writing[w] \in {Adrift, Still}

(* A hold good from now on. *)
FullHold == [clock \in Clocks |-> Good]

Spent == [clock \in Clocks |-> 0]

(* What the far side has for a wait: a lease on the lock, or, given before *)
(* the store was made, a lease on no lock.                                 *)
Has == {"nothing", "lease", "lock"}

Unheld == [has |-> "nothing", left |-> 0, ended |-> FALSE]

Leased(w) == far[w].has # "nothing"
Locked(w) == far[w].has = "lock"

LeaseInit ==
  /\ onDisk \in BOOLEAN
  /\ wrong \in [Waits -> Clocks]
  /\ phase = [w \in Waits |-> "new"]
  /\ hold = [w \in Waits |-> Spent]
  /\ pending = [w \in Waits |-> Spent]
  /\ requests = [w \in Waits |-> {}]
  /\ answers = [w \in Waits |-> {}]
  /\ writing = [w \in Waits |-> Still]
  /\ far = [w \in Waits |-> Unheld]

(***************************************************************************)
(* Whether a wait counts its locks held: neither clock says its hold has   *)
(* run out, and nothing has said it is lost.                               *)
(***************************************************************************)
Counted(w) ==
  phase[w] \in {"holding", "renewing"} /\ \A clock \in Clocks : hold[w][clock] > 0

-----------------------------------------------------------------------------
(* The wait *)

Send(w, request) == requests' = [requests EXCEPT ![w] = @ \cup {request}]

(* A wait asks for the lock on a lease, counted from before it is sent.    *)
Ask(w) ==
  /\ phase[w] = "new"
  /\ Send(w, "lock")
  /\ phase' = [phase EXCEPT ![w] = "asking"]
  /\ pending' = [pending EXCEPT ![w] = FullHold]
  /\ UNCHANGED <<onDisk, wrong, hold, answers, writing, far>>

(* A renewal is due a third of a lease after the last was sent. *)
Due(w) == \E clock \in Clocks : hold[w][clock] <= Good - Third

(***************************************************************************)
(* The renewing thread sends the next renewal when it is due, even of a    *)
(* hold that has run out here, and waits for its answer.                   *)
(***************************************************************************)
Renew(w) ==
  /\ phase[w] = "holding" /\ Due(w)
  /\ Send(w, "renew")
  /\ phase' = [phase EXCEPT ![w] = "renewing"]
  /\ pending' = [pending EXCEPT ![w] = FullHold]
  /\ UNCHANGED <<onDisk, wrong, hold, answers, writing, far>>

(* Mistake: the hold is good from when the answer comes.                   *)
GrantedNow(w) ==
  /\ phase[w] \in {"asking", "renewing"}
  /\ "leased" \in answers[w]
  /\ answers' = [answers EXCEPT ![w] = {}]
  /\ phase' = [phase EXCEPT ![w] = "holding"]
  /\ hold' = [hold EXCEPT ![w] = FullHold]
  /\ pending' = [pending EXCEPT ![w] = Spent]
  /\ UNCHANGED <<onDisk, wrong, requests, writing, far>>

(* The answer gives a lease: the hold is good from when it was asked for.  *)
Granted(w) ==
  /\ phase[w] \in {"asking", "renewing"}
  /\ "leased" \in answers[w]
  /\ answers' = [answers EXCEPT ![w] = {}]
  /\ phase' = [phase EXCEPT ![w] = "holding"]
  /\ hold' = [hold EXCEPT ![w] = pending[w]]
  /\ pending' = [pending EXCEPT ![w] = Spent]
  /\ UNCHANGED <<onDisk, wrong, requests, writing, far>>

(***************************************************************************)
(* The lock or a renewal is refused, gets no answer in time, or the        *)
(* connection ends between renewals: the wait that asked fails, and a hold *)
(* is lost for good.  A request given up on may still arrive.              *)
(***************************************************************************)
Lose(w) ==
  /\ phase[w] \in {"asking", "holding", "renewing"}
  /\ phase' = [phase EXCEPT ![w] = IF @ = "asking" THEN "done" ELSE "lost"]
  /\ hold' = [hold EXCEPT ![w] = Spent]
  /\ pending' = [pending EXCEPT ![w] = Spent]
  /\ answers' = [answers EXCEPT ![w] = {}]
  /\ UNCHANGED <<onDisk, wrong, requests, writing, far>>

(* Mistake: the locks are let go while the call of a pickup goes on.       *)
ReleaseWriting(w) ==
  /\ phase[w] = "holding"
  /\ Send(w, "release")
  /\ phase' = [phase EXCEPT ![w] = "done"]
  /\ hold' = [hold EXCEPT ![w] = Spent]
  /\ UNCHANGED <<onDisk, wrong, pending, answers, writing, far>>

(***************************************************************************)
(* A wait that ends, or that a signal ends, lets the locks go: once the    *)
(* call of its pickup is over and no renewal is on its way, and counting   *)
(* them lost first.                                                        *)
(***************************************************************************)
Release(w) ==
  /\ phase[w] = "holding"
  /\ Over(w)
  /\ Send(w, "release")
  /\ phase' = [phase EXCEPT ![w] = "done"]
  /\ hold' = [hold EXCEPT ![w] = Spent]
  /\ UNCHANGED <<onDisk, wrong, pending, answers, writing, far>>

(* A wait is killed, or ends with its hold lost: it sends nothing.  Its    *)
(* pickup may be on its way.                                               *)
Die(w) ==
  /\ phase[w] # "done"
  /\ phase' = [phase EXCEPT ![w] = "done"]
  /\ hold' = [hold EXCEPT ![w] = Spent]
  /\ pending' = [pending EXCEPT ![w] = Spent]
  /\ answers' = [answers EXCEPT ![w] = {}]
  /\ UNCHANGED <<onDisk, wrong, requests, writing, far>>

(* The next wait by this name, once nothing is left of the last.           *)
StartAgain(w) ==
  /\ phase[w] = "done" /\ requests[w] = {} /\ writing[w] = Still /\ ~Leased(w)
  /\ phase' = [phase EXCEPT ![w] = "new"]
  /\ UNCHANGED <<onDisk, wrong, hold, pending, requests, answers, writing, far>>

(* A pickup of what the store has begins under the locks, over another     *)
(* connection.                                                             *)
PickUpBegins(w) ==
  /\ onDisk /\ Counted(w)
  /\ Over(w)
  /\ writing' = [writing EXCEPT ![w] = 0]
  /\ UNCHANGED <<onDisk, wrong, clientVars, requests, answers, far>>

(* It is stored or refused, or never arrives; its call, if it goes on,     *)
(* ends with it.                                                           *)
PickUpEnds(w) ==
  /\ writing[w] # Still
  /\ writing' = [writing EXCEPT ![w] = Still]
  /\ UNCHANGED <<onDisk, wrong, clientVars, requests, answers, far>>

(* The wait gets no answer and goes on, with a warning.  A pickup that it  *)
(* gave up before this one is followed no further.                         *)
GiveUp(w) ==
  /\ phase[w] # "done" /\ ~Over(w)
  /\ writing' = [writing EXCEPT ![w] = Adrift]
  /\ UNCHANGED <<onDisk, wrong, clientVars, requests, answers, far>>

-----------------------------------------------------------------------------
(* The far side *)

(* A request is read, and answered, for a wait that waits for the answer   *)
(* still; the answer may be lost on its way.                               *)
Serve(w, request, answer) ==
  /\ request \in requests[w] /\ ~far[w].ended
  /\ requests' = [requests EXCEPT ![w] = @ \ {request}]
  /\ \/ UNCHANGED answers
     \/ phase[w] \in {"asking", "renewing"} /\ answers' = [answers EXCEPT ![w] = answer]

(* Another process makes the store. *)
StoreIsMade ==
  /\ ~onDisk /\ onDisk' = TRUE
  /\ UNCHANGED <<wrong, clientVars, requests, answers, writing, far>>

(* What a wait is given that asks now. *)
Given == IF onDisk THEN "lock" ELSE "lease"

(* Mistake: the lock is taken though another wait's lease has it.          *)
FarLockAnyway(w) ==
  /\ Serve(w, "lock", {"leased"})
  /\ far' = [far EXCEPT ![w].has = Given, ![w].left = FullLease]
  /\ UNCHANGED <<onDisk, wrong, clientVars, writing>>

(***************************************************************************)
(* The lock is taken, when no other wait holds it, on a whole lease.  Of a *)
(* store not made yet there is no lock to take, and the lease is given.    *)
(***************************************************************************)
FarLock(w) ==
  /\ onDisk => \A other \in Waits : ~Locked(other)
  /\ Serve(w, "lock", {"leased"})
  /\ far' = [far EXCEPT ![w].has = Given, ![w].left = FullLease]
  /\ UNCHANGED <<onDisk, wrong, clientVars, writing>>

FarRenew(w) ==
  /\ Leased(w)
  /\ Serve(w, "renew", {"leased"})
  /\ far' = [far EXCEPT ![w].left = FullLease]
  /\ UNCHANGED <<onDisk, wrong, clientVars, writing>>

(* A lock another wait holds and a lease let go are refused, 409: the wait *)
(* takes either as Lose does.  A release lets go, of nothing when the      *)
(* lease ran out.                                                          *)
FarRefuse(w) ==
  /\ \/ onDisk /\ (\E other \in Waits : Locked(other)) /\ Serve(w, "lock", {})
     \/ ~Leased(w) /\ Serve(w, "renew", {})
  /\ UNCHANGED <<onDisk, wrong, clientVars, writing, far>>

FarRelease(w) ==
  /\ Serve(w, "release", {})
  /\ far' = [far EXCEPT ![w] = Unheld]
  /\ UNCHANGED <<onDisk, wrong, clientVars, writing>>

(* Mistake: nothing watches the lease once the connection has ended.       *)
FarLapseOpen(w) ==
  /\ Leased(w) /\ far[w].left = 0 /\ ~far[w].ended
  /\ far' = [far EXCEPT ![w] = Unheld]
  /\ UNCHANGED <<onDisk, wrong, clientVars, requests, answers, writing>>

(* The watch lets the lock go once the lease has run out. *)
FarLapse(w) ==
  /\ Leased(w) /\ far[w].left = 0
  /\ far' = [far EXCEPT ![w] = Unheld]
  /\ UNCHANGED <<onDisk, wrong, clientVars, requests, answers, writing>>

(***************************************************************************)
(* The connection ends, whatever the wait knows of it: nothing more is     *)
(* read from it, and a lock is kept until its lease runs out, as the wait  *)
(* asked, since its pickup may be on its way over another.                 *)
(***************************************************************************)
FarEnds(w) ==
  /\ Leased(w) \/ requests[w] # {}
  /\ ~far[w].ended
  /\ far' = [far EXCEPT ![w].ended = Leased(w)]
  /\ requests' = [requests EXCEPT ![w] = {}]
  /\ UNCHANGED <<onDisk, wrong, clientVars, answers, writing>>

-----------------------------------------------------------------------------
(* Time *)

Less(n) == IF n > 0 THEN n - 1 ELSE 0

(* A tick on the clocks of wait w, of which the wrong one may miss it.     *)
Ticked(w, left, missed) ==
  [clock \in Clocks |-> IF missed /\ clock = wrong[w] THEN left[clock]
                                                      ELSE Less(left[clock])]

(* A pickup once a tick more has passed: one that is Late stays so.        *)
Aged(age) == IF age < Late THEN age + 1 ELSE age

(* The wait has a hold, or asks for one. *)
Reckons(w) == phase[w] \in {"asking", "holding", "renewing"}

ClocksTick ==
  /\ \E asleep \in SUBSET {w \in Waits : Reckons(w)} :
       /\ hold' = [w \in Waits |-> Ticked(w, hold[w], w \in asleep)]
       /\ pending' = [w \in Waits |-> Ticked(w, pending[w], w \in asleep)]
  /\ writing' = [w \in Waits |-> Aged(writing[w])]
  /\ far' = [w \in Waits |-> [far[w] EXCEPT !.left = Less(@)]]
  /\ UNCHANGED <<onDisk, wrong, phase, requests, answers>>

(* The wrong clock is set back: it says the hold is good for as long again *)
(* as it ever was.  One set back further says no more than that here.      *)
SetBack(w) ==
  /\ wrong[w] = "wall" /\ phase[w] \in {"asking", "holding", "renewing"}
  /\ hold' = [hold EXCEPT ![w]["wall"] = Good]
  /\ pending' = [pending EXCEPT ![w]["wall"] = Good]
  /\ UNCHANGED <<onDisk, wrong, phase, requests, answers, writing, far>>

WaitStep(w) ==
  \/ Ask(w) \/ Renew(w) \/ Granted(w) \/ Lose(w) \/ Release(w) \/ Die(w)
  \/ StartAgain(w) \/ PickUpBegins(w) \/ PickUpEnds(w) \/ GiveUp(w) \/ SetBack(w)

FarStep(w) ==
  FarLock(w) \/ FarRenew(w) \/ FarRefuse(w) \/ FarRelease(w) \/ FarLapse(w) \/ FarEnds(w)

LeaseNext == ClocksTick \/ StoreIsMade \/ \E w \in Waits : WaitStep(w) \/ FarStep(w)

LeaseSpec == LeaseInit /\ [][LeaseNext]_leaseVars

-----------------------------------------------------------------------------
(* Properties *)

Lefts == [Clocks -> 0 .. Good]

(* Each wait's hold, messages, pickup and lock are of their kinds. *)
LeaseTypeOK ==
  /\ onDisk \in BOOLEAN
  /\ wrong \in [Waits -> Clocks]
  /\ phase \in [Waits -> Phases]
  /\ hold \in [Waits -> Lefts]
  /\ pending \in [Waits -> Lefts]
  /\ requests \in [Waits -> SUBSET {"lock", "renew", "release"}]
  /\ answers \in [Waits -> SUBSET {"leased"}]
  /\ writing \in [Waits -> 0 .. Still]
  /\ far \in [Waits -> [has : Has, left : 0 .. FullLease, ended : BOOLEAN]]

(***************************************************************************)
(* A wait stops before the far side lets go: while it counts its locks     *)
(* held, the far side has its lease, and with it the lock if there was one *)
(* to take when the wait asked, however long each request took, whichever  *)
(* were lost, and whether its computer slept or its wall clock was set     *)
(* back.                                                                   *)
(***************************************************************************)
HeldWhileCounted == \A w \in Waits : Counted(w) => Leased(w)

(***************************************************************************)
(* A pickup begun under the locks finds them held while it is on its way   *)
(* for no more than a third of a lease, even when its wait was killed, its *)
(* connection died or its lease was not renewed since; but not when its    *)
(* wait gave it up.                                                        *)
(***************************************************************************)
PickupUnderLock == \A w \in Waits : writing[w] \in 0 .. Third => Leased(w)

(* What a wait does under the locks: it counts on them, or its pickup is   *)
(* on its way, begun no more than a third of a lease ago and not given up. *)
Active(w) == Counted(w) \/ writing[w] \in 0 .. Third

(* Two waits never pick up under the same lock at once (AG-05), but for    *)
(* one that asked for it before the store was made.                        *)
OneAtATime ==
  \A v, w \in Waits : Active(v) /\ Active(w) =>
    v = w \/ \E early \in {v, w} : far[early].has = "lease"

(* Time passes, and the far side's watch runs. *)
LeaseFairness == WF_leaseVars(ClocksTick) /\ \A w \in Waits : WF_leaseVars(FarLapse(w))

FairLeaseSpec == LeaseSpec /\ LeaseFairness

(* A wait that has gone, however it went, does not keep the next one out:  *)
(* the far side lets its lock go.                                          *)
GoneLetsGo == \A w \in Waits : phase[w] = "done" /\ Leased(w) ~> ~Leased(w)

=============================================================================
