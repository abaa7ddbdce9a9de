------------------------------- MODULE Locks -------------------------------
(***************************************************************************)
(* The locks a pickup wait holds on what it picks up, on one machine       *)
(* (crates/cli/src/commands/wait/lock.rs): an advisory lock on a file for  *)
(* each worker, label or id it names, in a directory beside the store.     *)
(* A wait that finds one of them held refuses to start.  The system lets   *)
(* go of a process's locks when it ends, however it ends.                  *)
(*                                                                         *)
(* A scope is its place in the order the code sorts them by.  A wait is a  *)
(* process, which runs once.                                               *)
(***************************************************************************)
EXTENDS Integers, Sequences

CONSTANTS
    Takers,     \* the pickup waits that take them, one process each
    Scopes,     \* the workers, labels and ids, by their place in the order
    Nobody      \* no wait

ASSUME LocksAssumption == Scopes \subseteq Nat /\ Nobody \notin Takers

VARIABLES
    stored,     \* whether the store is there
    locked,     \* the wait that holds the lock on each scope's file
    says,       \* the wait each file says it is held by
    at,         \* the step each wait is at
    left,       \* the scopes each has yet to lock
    scope,      \* the scope each tried last
    by,         \* the wait that held it, for one refused
    named       \* the wait its refusal names

locksVars == <<stored, locked, says, at, left, scope, by, named>>

NoScope == -1

LocksInit ==
    /\ stored \in BOOLEAN
    /\ locked = [s \in Scopes |-> Nobody] /\ says = [s \in Scopes |-> Nobody]
    /\ at = [w \in Takers |-> "new"] /\ left = [w \in Takers |-> {}]
    /\ scope = [w \in Takers |-> NoScope] /\ by = [w \in Takers |-> Nobody]
    /\ named = [w \in Takers |-> Nobody]

(* Every file a process has open closes with it, and its lock goes.        *)
LetGo(w) == [s \in Scopes |-> IF locked[s] = w THEN Nobody ELSE locked[s]]

(* Mistake: the scopes are taken as they were given, not in one order.     *)
NextScopeAny(w, s) == s \in left[w]

(* The next file is that of the first scope left, in the one order.        *)
NextScope(w, s) == s \in left[w] /\ \A r \in left[w] : s <= r

-----------------------------------------------------------------------------

(* The store's first open makes it. *)
MakeStore ==
    /\ ~stored
    /\ stored' = TRUE
    /\ UNCHANGED <<locked, says, at, left, scope, by, named>>

(***************************************************************************)
(* A wait starts: before the store is there it takes no locks, as it makes *)
(* no directory either.  A scope named twice is locked once, and a wait    *)
(* that names none holds none.                                             *)
(***************************************************************************)
StartUnlocked(w) ==
    /\ at[w] = "new" /\ ~stored
    /\ at' = [at EXCEPT ![w] = "waits"]
    /\ UNCHANGED <<stored, locked, says, left, scope, by, named>>

StartTaking(w) ==
    /\ at[w] = "new" /\ stored
    /\ \E scopes \in SUBSET Scopes :
         /\ left' = [left EXCEPT ![w] = scopes]
         /\ at' = [at EXCEPT ![w] = IF scopes = {} THEN "waits" ELSE "try"]
    /\ UNCHANGED <<stored, locked, says, scope, by, named>>

(* A free lock is taken; what the file said stays until it is cleared.     *)
TryLock(w) ==
    /\ at[w] = "try"
    /\ \E s \in Scopes :
         /\ NextScope(w, s) /\ locked[s] = Nobody
         /\ locked' = [locked EXCEPT ![s] = w]
         /\ scope' = [scope EXCEPT ![w] = s]
    /\ at' = [at EXCEPT ![w] = "clear"]
    /\ UNCHANGED <<stored, says, left, by, named>>

(* One that another holds is refused. *)
TryHeld(w) ==
    /\ at[w] = "try"
    /\ \E s \in Scopes :
         /\ NextScope(w, s) /\ locked[s] # Nobody
         /\ scope' = [scope EXCEPT ![w] = s]
         /\ by' = [by EXCEPT ![w] = locked[s]]
    /\ at' = [at EXCEPT ![w] = "ask"]
    /\ UNCHANGED <<stored, locked, says, left, named>>

(* It reads who the file says holds it, which just after a lock was taken   *)
(* may be the last that did, and its own locks go.                         *)
Refuse(w) ==
    /\ at[w] = "ask"
    /\ at' = [at EXCEPT ![w] = "refused"]
    /\ named' = [named EXCEPT ![w] = says[scope[w]]]
    /\ locked' = LetGo(w)
    /\ UNCHANGED <<stored, says, left, scope, by>>

ClearFile(w) ==
    /\ at[w] = "clear"
    /\ says' = [says EXCEPT ![scope[w]] = Nobody]
    /\ at' = [at EXCEPT ![w] = "write"]
    /\ UNCHANGED <<stored, locked, left, scope, by, named>>

WriteFile(w) ==
    /\ at[w] = "write"
    /\ says' = [says EXCEPT ![scope[w]] = w]
    /\ left' = [left EXCEPT ![w] = @ \ {scope[w]}]
    /\ at' = [at EXCEPT ![w] = IF left[w] = {scope[w]} THEN "waits" ELSE "try"]
    /\ UNCHANGED <<stored, locked, scope, by, named>>

(***************************************************************************)
(* A wait ends: it printed its cases, a file or the directory could not be *)
(* made or written, or it was killed.                                      *)
(***************************************************************************)
End(w) ==
    /\ at[w] \notin {"new", "refused", "over"}
    /\ at' = [at EXCEPT ![w] = "over"]
    /\ locked' = LetGo(w)
    /\ UNCHANGED <<stored, says, left, scope, by, named>>

LocksNext ==
    \/ MakeStore
    \/ \E w \in Takers :
         \/ StartUnlocked(w) \/ StartTaking(w)
         \/ TryLock(w) \/ TryHeld(w) \/ Refuse(w)
         \/ ClearFile(w) \/ WriteFile(w)
         \/ End(w)

LocksSpec == LocksInit /\ [][LocksNext]_locksVars

-----------------------------------------------------------------------------

Steps == {"new", "try", "clear", "write", "waits", "ask", "refused", "over"}

(* Types: what the locks' state is made of. *)
LocksTypeOK ==
    /\ stored \in BOOLEAN
    /\ locked \in [Scopes -> Takers \cup {Nobody}]
    /\ says \in [Scopes -> Takers \cup {Nobody}]
    /\ at \in [Takers -> Steps]
    /\ left \in [Takers -> SUBSET Scopes]
    /\ scope \in [Takers -> Scopes \cup {NoScope}]
    /\ by \in [Takers -> Takers \cup {Nobody}]
    /\ named \in [Takers -> Takers \cup {Nobody}]

WasRefused(w) == at[w] \in {"ask", "refused"}

(***************************************************************************)
(* No two waits each take a lock and refuse each other, whatever scopes    *)
(* they share and in whatever order they were named (lock.rs, `take`: "so  *)
(* that two waits on the same scopes cannot each take one and refuse each  *)
(* other").                                                                *)
(***************************************************************************)
NeverEachOther ==
    \A v, w \in Takers :
        WasRefused(v) /\ WasRefused(w) /\ by[v] = w => by[w] # v

=============================================================================
