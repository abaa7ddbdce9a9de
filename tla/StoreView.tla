------------------------------ MODULE StoreView ------------------------------
(***************************************************************************)
(* What a poller of a store promises: the cases it gives are those the     *)
(* store had at one moment, that of its last read, and none after a read   *)
(* that failed.  What is stored is anyone's to change, in any way.         *)
(***************************************************************************)
CONSTANT Nothing  \* what a poller gives that has read no store

VARIABLES
  stored,  \* the cases the store has, with their rows
  given    \* the cases the poller gives

viewVars == <<stored, given>>

ViewInit == given = Nothing

(* Writes and hand edits: the poller goes on giving what it read.          *)
Change == UNCHANGED given

Poll == given' = stored /\ UNCHANGED stored

PollFails == given' = Nothing /\ UNCHANGED stored

ViewNext == Change \/ Poll \/ PollFails

ViewSpec == ViewInit /\ [][ViewNext]_viewVars

=============================================================================
