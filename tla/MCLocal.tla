------------------------------- MODULE MCLocal -------------------------------
(***************************************************************************)
(* The parts that keep processes out of each other's way on one machine,   *)
(* each on a small instance: the locks of waits (Locks), the connections   *)
(* to a store's file, the runs that write many cases, the sessions         *)
(* listening, and the terminal inbox with its thread (Panels).  They share *)
(* no state, so what the interleavings of two of them do is what each does *)
(* alone: a behaviour here is of one part.                                 *)
(***************************************************************************)
EXTENDS Locks, Connections, Sweep, Listening, Panels, TLC

CONSTANTS
  Moving,  \* the parts that move in some behaviour of a run
  w1, w2

VARIABLE part  \* the part that moves

(* Two waits, processes or ids of waits, which nothing tells apart. *)
Two == {w1, w2}

Alike == Permutations(Two)

Parts == {"locks", "connections", "sweep", "listening", "panels"}

(* A part that does not move is at one of its first states. *)
LocalInit ==
  /\ part \in Moving
  /\ LocksInit /\ ConnInit /\ SweepInit /\ ListeningInit /\ PanelInit
  /\ part # "locks" => ~stored
  /\ part # "connections" => path = NoFile
  /\ {k \in AllCases : store[k] # Gone} \in
       IF part = "panels" THEN {Stuck, Messages} ELSE {{}}

LocksMove ==
  /\ part = "locks" /\ LocksNext
  /\ UNCHANGED <<part, connVars, sweepVars, listeningVars, panelVars>>
ConnectionsMove ==
  /\ part = "connections" /\ ConnNext
  /\ UNCHANGED <<part, locksVars, sweepVars, listeningVars, panelVars>>
SweepMoves ==
  /\ part = "sweep" /\ SweepNext
  /\ UNCHANGED <<part, locksVars, connVars, listeningVars, panelVars>>
ListeningMoves ==
  /\ part = "listening" /\ ListeningNext
  /\ UNCHANGED <<part, locksVars, connVars, sweepVars, panelVars>>

(* The more that is typed, the fewer rows on the case: on an ask, 3 in all. *)
WithinMost ==
  /\ \A k \in Stuck : store'[k].rev + typed' <= 3
  /\ \A k \in Messages : store'[k].rev + typed' <= 4

PanelsMove ==
  /\ part = "panels" /\ PanelNext /\ WithinMost
  /\ UNCHANGED <<part, locksVars, connVars, sweepVars, listeningVars>>

LocalNext ==
  \/ LocksMove \/ ConnectionsMove \/ SweepMoves \/ ListeningMoves
  \/ PanelsMove

localVars ==
  <<part, locksVars, connVars, sweepVars, listeningVars, panelVars>>

LocalSpec == LocalInit /\ [][LocalNext]_localVars

=============================================================================
