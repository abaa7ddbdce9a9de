------------------------------- MODULE MCLive --------------------------------
(***************************************************************************)
(* What must happen in the end, each part on a small instance: what waits  *)
(* tell their agent (Wait), the lock a wait keeps on a forwarded store     *)
(* (Lease) and the calls to a far side (Requests).  They share no state; a *)
(* behaviour here is of one.                                               *)
(***************************************************************************)
EXTENDS Wait, Requests, TLC

CONSTANTS a1, a2, m1, w1, u1, u2

VARIABLES part, onDisk, wrong, phase, hold, pending, requests, answers, writing, far

L == INSTANCE Lease WITH Waits <- {w1}, Third <- 2

OneAsk == {a1}
TwoAsks == {a1, a2}
OneMessage == {m1}
Either == BOOLEAN
NoLease == {FALSE}
ThreeRows == [lease \in NoLease |-> 3]

(* One caller that calls and calls again, and two at once.                 *)
OneAfterAnother == (u1 :> 2) @@ (u2 :> 0)
SideBySide == (u1 :> 1) @@ (u2 :> 1)
TwoPlans == {OneAfterAnother, SideBySide}

leaseVars == <<onDisk, wrong, phase, hold, pending, requests, answers, writing, far>>

liveVars == <<part, waitVars, leaseVars, reqVars>>

(* A part that does not move is at one of its first states; two at once    *)
(* call over pipes.                                                        *)
LiveInit ==
  /\ part \in {"wait", "lease", "requests"}
  /\ WaitInit /\ L!LeaseInit /\ ReqInit
  /\ part # "lease" => onDisk /\ wrong = [w \in {w1} |-> "mono"]
  /\ left = SideBySide => link = "pipe"
  /\ part # "requests" => left = SideBySide

OfWait(A) == part = "wait" /\ A /\ UNCHANGED <<part, leaseVars, reqVars>>
OfLease(A) == part = "lease" /\ A /\ UNCHANGED <<part, waitVars, reqVars>>
OfRequests(A) == part = "requests" /\ A /\ UNCHANGED <<part, waitVars, leaseVars>>

LiveNext ==
  OfWait(WaitNext) \/ OfLease(L!LeaseNext) \/ OfRequests(ReqNext)

(***************************************************************************)
(* The fairness of each part (Fairness, LeaseFairness and ReqFairness),    *)
(* which asks nothing of the others.                                       *)
(***************************************************************************)
LiveFairness ==
  /\ WF_liveVars(OfWait(StartWait)) /\ WF_liveVars(OfWait(GoesOn))
  /\ WF_liveVars(OfWait(CapComes)) /\ SF_liveVars(OfWait(ReadStore))
  /\ <>[][~OfWait(ReadFails)]_liveVars
  /\ WF_liveVars(OfLease(L!ClocksTick)) /\ WF_liveVars(OfLease(L!FarLapse(w1)))
  /\ \A u \in Callers : WF_liveVars(OfRequests(Client(u)))

LiveSpec == LiveInit /\ [][LiveNext]_liveVars /\ LiveFairness

(* A wait that has gone, however it went, does not keep the next one out:  *)
(* the far side lets its lock go.                                          *)
GoneLetsGo == L!GoneLetsGo

=============================================================================
