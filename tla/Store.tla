-------------------------------- MODULE Store --------------------------------
(***************************************************************************)
(* The SQLite store (crates/store-sqlite) as its version and its poller    *)
(* see it: the cases and events tables with their AUTOINCREMENT counters,  *)
(* the archive, and the removal and gone logs the triggers keep.  A write  *)
(* is one transaction, so one step.  Beside the program, a human edits the *)
(* file: puts a case back from the archive, restores an older copy of the  *)
(* file, or removes it so that the next open makes it again.               *)
(*                                                                         *)
(* A case's rows are told apart by their change and their time, which is   *)
(* all that the version and the poller read of them; what they fold to is  *)
(* Case's.                                                                 *)
(***************************************************************************)
EXTENDS Naturals, FiniteSets, Functions

CONSTANTS
  MaxChange,  \* bound: the events and removals the store numbers
  MaxKey,     \* bound: the cases opened in one store
  MaxClock,   \* bound: the times the clock shows
  MaxId,      \* bound: the stores made at the path
  HandEdits,  \* the sets of edits, one of which a human makes in a history:
              \* of "put back", "restore" and "remove"
  None

VARIABLES
  db,          \* the file's tables, or None when there is no store
  copy,        \* a copy of the file a human kept, or None
  edits,       \* the edits a human makes
  ids,         \* the store ids given so far
  storeClock,  \* the time events and removals are stamped with (0 is no time)
  poller       \* the poller's version and cases

storeVars == <<db, copy, edits, ids, storeClock, poller>>

-----------------------------------------------------------------------------
(* The tables *)

Changes == 1 .. MaxChange
CaseKeys == 1 .. MaxKey

(* Events and removals are functions of the changes they hold. *)
EmptyTable == [c \in {} |-> None]

NewDb(id) ==
  [id |-> id, change |-> 0, key |-> 0, cases |-> {}, events |-> EmptyTable,
   archive |-> {}, archived |-> EmptyTable, removed |-> EmptyTable,
   gone |-> EmptyTable]

With(table, c, row) == [x \in DOMAIN table \cup {c} |->
                          IF x = c THEN row ELSE table[x]]

ChangesOf(table, key) == {c \in DOMAIN table : table[c].key = key}

(* A table with the rows at changes cs of another put in. *)
Merged(table, from, cs) == [x \in DOMAIN table \cup cs |->
                              IF x \in cs THEN from[x] ELSE table[x]]

Without(table, cs) == Restrict(table, DOMAIN table \ cs)

(* The rows of each case: what a reader folds. *)
RowsOf(d, key) == {<<c, d.events[c].at>> : c \in ChangesOf(d.events, key)}

CasesOf(d) == [key \in d.cases |-> RowsOf(d, key)]

(* No store reads as a store with no cases. *)
Stored == IF db = None THEN [key \in {} |-> {}] ELSE CasesOf(db)

-----------------------------------------------------------------------------
(* Writes *)

StoreInit ==
  /\ db = None /\ copy = None /\ edits \in HandEdits /\ ids = 0 /\ storeClock = 1
  /\ poller = [version |-> None, cases |-> [key \in {} |-> {}]]

(* The first create makes the tables in a transaction of its own; its      *)
(* case, or another process's, is a write after.                           *)
MakeStore ==
  /\ db = None /\ ids < MaxId
  /\ ids' = ids + 1
  /\ db' = NewDb(ids')
  /\ UNCHANGED <<copy, edits, storeClock, poller>>

(* A case opened: the next key, and its first event. *)
Create ==
  /\ db # None /\ db.change < MaxChange /\ db.key < MaxKey
  /\ db' = [db EXCEPT
              !.change = @ + 1, !.key = @ + 1, !.cases = @ \cup {db.key + 1},
              !.events = With(@, db.change + 1,
                              [key |-> db.key + 1, at |-> storeClock])]
  /\ UNCHANGED <<copy, edits, ids, storeClock, poller>>

(* An event appended to a case, stamped under the lock. *)
AppendRow(key) ==
  /\ db # None /\ key \in db.cases /\ db.change < MaxChange
  /\ db' = [db EXCEPT
              !.change = @ + 1,
              !.events = With(@, db.change + 1, [key |-> key, at |-> storeClock])]
  /\ UNCHANGED <<copy, edits, ids, storeClock, poller>>

(* Mistake: the events a delete takes are not logged.                      *)
TakenOutUnlogged(d, key) ==
  [d EXCEPT
     !.change = @ + 1,
     !.cases = @ \ {key},
     !.events = Without(@, ChangesOf(d.events, key)),
     !.removed = With(@, d.change + 1, [key |-> key, at |-> storeClock])]

(* The triggers' part of taking a case out: each event not kept in the     *)
(* archive is logged as gone, then the case is logged as removed, at the   *)
(* next change.                                                            *)
TakenOut(d, key) ==
  LET rows == ChangesOf(d.events, key)
      lost == rows \ DOMAIN d.archived IN
  [d EXCEPT
     !.change = @ + 1,
     !.cases = @ \ {key},
     !.events = Without(@, rows),
     !.gone = Merged(@, d.events, lost \ DOMAIN @),
     !.removed = With(@, d.change + 1, [key |-> key, at |-> storeClock])]

(* The case and its rows copied to the archive tables. *)
Archived(d, key) ==
  [d EXCEPT
     !.archive = @ \cup {key},
     !.archived = Merged(@, d.events, ChangesOf(d.events, key))]

Archive(key) ==
  /\ db # None /\ key \in db.cases /\ db.change < MaxChange
  /\ key \notin db.archive
  /\ db' = TakenOut(Archived(db, key), key)
  /\ UNCHANGED <<copy, edits, ids, storeClock, poller>>

Delete(key) ==
  /\ db # None /\ key \in db.cases /\ db.change < MaxChange
  /\ db' = TakenOut(db, key)
  /\ UNCHANGED <<copy, edits, ids, storeClock, poller>>

-----------------------------------------------------------------------------
(* Hand edits, and time *)

(* A case put back from the archive, which may go on holding it: its rows  *)
(* keep their changes, so no counter moves.                                *)
PutBack(key, kept) ==
  /\ "put back" \in edits
  /\ db # None /\ key \in db.archive \ db.cases
  /\ LET rows == ChangesOf(db.archived, key) IN
       db' = [db EXCEPT
                !.cases = @ \cup {key},
                !.events = Merged(@, db.archived, rows),
                !.archive = IF kept THEN @ ELSE @ \ {key},
                !.archived = IF kept THEN @ ELSE Without(@, rows)]
  /\ UNCHANGED <<copy, edits, ids, storeClock, poller>>

KeepCopy ==
  /\ "restore" \in edits
  /\ db # None
  /\ copy' = db
  /\ UNCHANGED <<db, edits, ids, storeClock, poller>>

(* The copy put back over the store.  The clock has moved on since the     *)
(* rows it loses: read.rs names a row stamped with the very time of the    *)
(* row it replaces as the one case its tag cannot tell.                    *)
Restore ==
  /\ copy # None /\ storeClock < MaxClock
  /\ db' = copy /\ storeClock' = storeClock + 1
  /\ UNCHANGED <<copy, edits, ids, poller>>

LoseStore ==
  /\ "remove" \in edits
  /\ db # None
  /\ db' = None
  /\ UNCHANGED <<copy, edits, ids, storeClock, poller>>

Tick ==
  /\ storeClock < MaxClock
  /\ storeClock' = storeClock + 1
  /\ UNCHANGED <<db, copy, edits, ids, poller>>

-----------------------------------------------------------------------------
(* Versions and changes: read.rs *)

(* Mistake: the log of what a delete took is not read.                     *)
TagKept(d, c) ==
  IF c \in DOMAIN d.events THEN d.events[c].at
  ELSE IF c \in DOMAIN d.archived THEN d.archived[c].at
  ELSE IF c \in DOMAIN d.removed THEN d.removed[c].at
  ELSE 0

(* The time of the row that holds a change, wherever it is now; 0 for none.*)
Tag(d, c) ==
  IF c \in DOMAIN d.events THEN d.events[c].at
  ELSE IF c \in DOMAIN d.archived THEN d.archived[c].at
  ELSE IF c \in DOMAIN d.removed THEN d.removed[c].at
  ELSE IF c \in DOMAIN d.gone THEN d.gone[c].at
  ELSE 0

NoStore == [id |-> 0, change |-> 0, key |-> 0, count |-> 0, tag |-> 0]

(* Mistake: a version does not say how many cases there are.               *)
VersionUncounted(d) ==
  IF d = None THEN NoStore
  ELSE [id |-> d.id, change |-> d.change, key |-> d.key, count |-> 0,
        tag |-> Tag(d, d.change)]

(* Mistake: a version does not say when its change was.                    *)
VersionUntagged(d) ==
  IF d = None THEN NoStore
  ELSE [id |-> d.id, change |-> d.change, key |-> d.key,
        count |-> Cardinality(d.cases), tag |-> 0]

VersionOf(d) ==
  IF d = None THEN NoStore
  ELSE [id |-> d.id, change |-> d.change, key |-> d.key,
        count |-> Cardinality(d.cases), tag |-> Tag(d, d.change)]

(* A version of this store that its change counter has reached. *)
Reached(from, d) ==
  from # None /\ d # None /\ from.id = d.id /\ from.change <= d.change

RemovedAfter(d, c) == {d.removed[x].key : x \in {x \in DOMAIN d.removed : x > c}}

ChangedAfter(d, c) ==
  {d.events[x].key : x \in {x \in DOMAIN d.events : x > c}} \cap d.cases

(* Mistake: the cases there were are not counted.                          *)
WholeUncounted(d, from) ==
  /\ Tag(d, from.change) = from.tag
  /\ ChangedAfter(d, from.change) \cap RemovedAfter(d, from.change) = {}

(* Mistake: the row at the version's change is not looked at.              *)
WholeUntagged(d, from) ==
  LET old(keys) == {k \in keys : k <= from.key}
      removed == RemovedAfter(d, from.change)
      changed == ChangedAfter(d, from.change) IN
  /\ Cardinality(old(d.cases)) + Cardinality(old(removed)) = from.count
  /\ d.cases \ old(d.cases) = changed \ old(changed)
  /\ changed \cap removed = {}

(* Whether the rows and removals since a version are all that changed. *)
Whole(d, from) ==
  LET old(keys) == {k \in keys : k <= from.key}
      new(keys) == {k \in keys : k > from.key}
      removed == RemovedAfter(d, from.change)
      changed == ChangedAfter(d, from.change) IN
  /\ Tag(d, from.change) = from.tag
  /\ Cardinality(old(d.cases)) + Cardinality(old(removed)) = from.count
  /\ Cardinality(new(d.cases)) = Cardinality(new(changed))
  /\ changed \cap removed = {}

(* The cases a poller has after a read of what changed since its version:  *)
(* the same, those with the changed put in and the removed taken out, or   *)
(* every case.                                                             *)
Polled(d, from, cases) ==
  IF from = VersionOf(d) THEN cases
  ELSE IF Reached(from, d) /\ Whole(d, from)
    THEN LET removed == RemovedAfter(d, from.change)
             changed == ChangedAfter(d, from.change) IN
         [key \in (DOMAIN cases \ removed) \cup changed |->
            IF key \in changed THEN RowsOf(d, key) ELSE cases[key]]
    ELSE IF d = None THEN [key \in {} |-> {}] ELSE CasesOf(d)

Poll ==
  /\ poller' = [version |-> VersionOf(db),
                cases |-> Polled(db, poller.version, poller.cases)]
  /\ UNCHANGED <<db, copy, edits, ids, storeClock>>

PollFails ==
  /\ poller' = [version |-> None, cases |-> [key \in {} |-> {}]]
  /\ UNCHANGED <<db, copy, edits, ids, storeClock>>

-----------------------------------------------------------------------------
StoreNext ==
  \/ MakeStore \/ Create
  \/ \E key \in CaseKeys : AppendRow(key) \/ Archive(key) \/ Delete(key)
  \/ \E key \in CaseKeys, kept \in BOOLEAN : PutBack(key, kept)
  \/ KeepCopy \/ Restore \/ LoseStore \/ Tick
  \/ Poll \/ PollFails

StoreSpec == StoreInit /\ [][StoreNext]_storeVars

-----------------------------------------------------------------------------
(* Properties *)

(* Two states never share a version: while the store is at the version the *)
(* poller read, its cases are the ones the poller gives.                   *)
VersionTellsStoresApart ==
  poller.version = VersionOf(db) => poller.cases = Stored

(* Every change the counter has given is held by a row, in the store, the  *)
(* archive or a log, so the tag of a version taken at it can be found      *)
(* again; no two rows hold one change, but an event and its archived copy. *)
EveryChangeIsFound ==
  db # None =>
    /\ \A c \in 1 .. db.change : Tag(db, c) # 0
    /\ DOMAIN db.removed \cap (DOMAIN db.events \cup DOMAIN db.archived
                               \cup DOMAIN db.gone) = {}
    /\ DOMAIN db.gone \cap (DOMAIN db.events \cup DOMAIN db.archived) = {}
    /\ \A c \in DOMAIN db.events \cap DOMAIN db.archived :
         db.events[c] = db.archived[c]

(* The poller refines StoreView: whatever is written, archived, deleted or *)
(* edited by hand between two polls, a poll gives the cases of the store   *)
(* at that moment, although it folds only those that changed.              *)
View == INSTANCE StoreView WITH
          stored <- Stored,
          given <- IF poller.version = None THEN None ELSE poller.cases,
          Nothing <- None

PollerGivesTheStore == View!ViewSpec

=============================================================================
