-------------------------------- MODULE MCWait -------------------------------
(***************************************************************************)
(* What an agent's waits tell it of a store that others write (Wait), with *)
(* a few cases, one blocking, one not, and messages; the locks they keep   *)
(* on a forwarded store (Lease); and the poller of a store's tables that   *)
(* they read by (Store).  They share no state: a behaviour here is of one. *)
(***************************************************************************)
EXTENDS Wait, Store, Lease, TLC

CONSTANTS
  Parts,  \* the parts that move in some behaviour of a run
  a1, a2, m1, w1, w2

VARIABLE part  \* the part that moves

OneAsk == {a1}
TwoAsks == {a1, a2}
OneMessage == {m1}
Either == BOOLEAN
OnALease == {TRUE}

(* A lapse may come between any two steps: fewer rows make as many cases.  *)
LessOnALease == [lease \in FarLapses |-> IF lease THEN 3 ELSE 4]

(* What a human does to the store by hand in one history.                  *)
EitherEdit == {{"put back", "remove"}, {"restore", "remove"}}

(* With both in one history VersionTellsStoresApart does not hold.         *)
BothEdits == {{"put back", "restore"}}

(* Two waits that want one lock, which nothing tells apart.                *)
Two == {w1, w2}

Alike == Permutations(Two)

readVars == <<part, waitVars, storeVars, leaseVars>>

(* A part that does not move is at one of its first states.  Bound: the    *)
(* same clock is the wrong one of both waits' computers.                   *)
ReadInit ==
  /\ part \in Parts /\ WaitInit /\ StoreInit /\ LeaseInit
  /\ part # "wait" => ~lapses
  /\ part # "poller" => "restore" \in edits
  /\ part # "lease" => onDisk /\ wrong = [w \in Waits |-> "mono"]
  /\ \A v, w \in Waits : wrong[v] = wrong[w]

WaitMoves == part = "wait" /\ WaitNext /\ UNCHANGED <<part, storeVars, leaseVars>>
PollerMoves == part = "poller" /\ StoreNext /\ UNCHANGED <<part, waitVars, leaseVars>>

(* Bound: one wait at most asks for the lock before the store is made.     *)
OneEarly ==
  ~onDisk => \A v, w \in Waits : phase[v] # "new" /\ phase[w] # "new" => v = w

(* Bound: a lease on no lock is not renewed, and its connection lasts.     *)
EarlyBriefly ==
  \A w \in Waits : far[w].has = "lease" => phase[w] # "renewing" /\ ~far[w].ended

(* Bound: one pickup at a time is late or given up.                        *)
OneAstray ==
  \A v, w \in Waits : writing[v] \in {Late, Adrift} /\ writing[w] \in {Late, Adrift} => v = w

LeaseMoves ==
  /\ part = "lease" /\ LeaseNext
  /\ OneEarly' /\ EarlyBriefly' /\ OneAstray'
  /\ UNCHANGED <<part, waitVars, storeVars>>

ReadSpec == ReadInit /\ [][WaitMoves \/ PollerMoves \/ LeaseMoves]_readVars

=============================================================================
