----------------------------- MODULE Listening -----------------------------
(***************************************************************************)
(* The sessions that take messages, and what each says it is doing: the    *)
(* tables `waits` and `doing` of a local store (store-sqlite/listen.rs,    *)
(* core/listening.rs), the heartbeats of `cases wait` (cli/commands/wait.rs*)
(* `Listening`) and `cases doing`.  A wait may stop, cleanly or not, be    *)
(* held up past its heartbeat, or find its store failing for a worker.     *)
(*                                                                         *)
(* Times are in heartbeats.  A write that fails writes nothing, as a local *)
(* store's does.                                                           *)
(***************************************************************************)
EXTENDS Integers, FiniteSets, FiniteSetsExt

CONSTANTS
    Workers,
    WaitIds,    \* the waits that may run, by the id each makes
    Lines,      \* the doing lines
    NoLine,     \* no line
    MaxTime,    \* the last time of the clock (a bound)
    MaxFails    \* how often a write fails (a bound)

ASSUME ListeningAssumption == NoLine \notin Lines /\ MaxTime \in Nat /\ MaxFails \in Nat

VARIABLES
    now,        \* the time
    rows,       \* the table `waits`: the row of each wait and worker
    doing,      \* the table `doing`: each worker's line
    wait,       \* each wait's process
    fails,
    said,       \* history: the line each worker said last, while listed
    unbroken    \* history: since when each has been listed without a break

listeningVars == <<now, rows, doing, wait, fails, said, unbroken>>

Heartbeat == 1
Lapse == 3 * Heartbeat
Never == -1

(* One row for each wait and worker: since when, and when it was heard.    *)
NoRow == [since |-> Never, heard |-> Never]
NoWait == [at |-> "new", workers |-> {}, line |-> NoLine, given |-> {}, left |-> {},
           due |-> 0]

ListeningInit ==
    /\ now = 0 /\ fails = 0
    /\ rows = [id \in WaitIds \X Workers |-> NoRow]
    /\ doing = [w \in Workers |-> NoLine]
    /\ wait = [i \in WaitIds |-> NoWait]
    /\ said = [w \in Workers |-> NoLine]
    /\ unbroken = [w \in Workers |-> Never]

-----------------------------------------------------------------------------

HeardInTime(row, at) == row.heard # Never /\ at - row.heard <= Lapse

RowsOf(table, w) == {table[<<i, w>>] : i \in WaitIds} \ {NoRow}

ListedAt(table, w, at) == \E row \in RowsOf(table, w) : HeardInTime(row, at)

Since(table, w, at) == Min({row.since : row \in {row \in RowsOf(table, w) : HeardInTime(row, at)}})

(* The rows left once those that have lapsed are deleted.                  *)
Kept == [id \in WaitIds \X Workers |-> IF HeardInTime(rows[id], now) THEN rows[id] ELSE NoRow]

(* Mistake: the line of a worker that has lapsed is left.                  *)
LinesKeptAll == doing

(* And the lines left: those of workers with a row.                        *)
LinesKept == [w \in Workers |-> IF RowsOf(Kept, w) = {} THEN NoLine ELSE doing[w]]

(***************************************************************************)
(* A wait starts for its workers, with the line it says at first.          *)
(***************************************************************************)
StartWait(i, workers, line) ==
    /\ wait[i].at = "new"
    /\ wait' = [wait EXCEPT ![i] = [NoWait EXCEPT !.at = "rest", !.workers = workers,
                                                  !.line = line, !.due = now]]
    /\ UNCHANGED <<now, rows, doing, fails, said, unbroken>>

(* A beat is due: each worker is recorded, in a write of its own.          *)
StartBeat(i) ==
    /\ wait[i].at = "rest" /\ now >= wait[i].due
    /\ wait' = [wait EXCEPT ![i].at = "beat", ![i].left = wait[i].workers]
    /\ UNCHANGED <<now, rows, doing, fails, said, unbroken>>

(* Mistake: every beat gives the line the wait started with.               *)
GivesAlways(i, w) == wait[i].line # NoLine

(* The line goes on a worker's first record alone.                         *)
Gives(i, w) == wait[i].line # NoLine /\ w \notin wait[i].given

(***************************************************************************)
(* `Db::listen`: the lapsed rows go, the wait's row is put, and it has     *)
(* listened as long as any other of its worker's.                          *)
(***************************************************************************)
Listen(i, w) ==
    LET others == RowsOf(Kept, w)
        since == IF others = {} THEN now ELSE Min({row.since : row \in others})
        line == IF Gives(i, w) THEN wait[i].line ELSE LinesKept[w]
        last == wait[i].left = {w} IN
    /\ wait[i].at = "beat" /\ w \in wait[i].left
    /\ rows' = [Kept EXCEPT ![<<i, w>>] = [since |-> since, heard |-> now]]
    /\ doing' = [LinesKept EXCEPT ![w] = line]
    /\ said' = [said EXCEPT ![w] = IF w \notin wait[i].given /\ wait[i].line # NoLine
                                   THEN wait[i].line ELSE @]
    /\ unbroken' = [unbroken EXCEPT ![w] = IF @ = Never THEN now ELSE @]
    /\ wait' = [wait EXCEPT ![i].given = @ \cup {w}, ![i].left = @ \ {w},
                            ![i].at = IF last THEN "rest" ELSE "beat",
                            ![i].due = IF last THEN now + Heartbeat ELSE @]
    /\ UNCHANGED <<now, fails>>

(***************************************************************************)
(* The write fails: about this worker alone, so the rest are recorded      *)
(* still, or of the store, so they are not.  The next beat is a RETRY      *)
(* later, which is a heartbeat.                                            *)
(***************************************************************************)
ListenFails(i, w, alone) ==
    LET left == IF alone THEN wait[i].left \ {w} ELSE {} IN
    /\ wait[i].at = "beat" /\ w \in wait[i].left /\ fails < MaxFails
    /\ fails' = fails + 1
    /\ wait' = [wait EXCEPT ![i].left = left,
                            ![i].at = IF left = {} THEN "rest" ELSE "beat",
                            ![i].due = IF left = {} THEN now + Heartbeat ELSE @]
    /\ UNCHANGED <<now, rows, doing, said, unbroken>>

(* A wait ends or is killed: its rows stay, to lapse.                      *)
EndWait(i) ==
    /\ wait[i].at \in {"rest", "beat"}
    /\ wait' = [wait EXCEPT ![i] = [NoWait EXCEPT !.at = "over"]]
    /\ UNCHANGED <<now, rows, doing, fails, said, unbroken>>

(***************************************************************************)
(* `cases doing`: refused for a worker that is not listening.  It is no    *)
(* sign that one is, so no row is refreshed.                               *)
(***************************************************************************)
SetDoing(w, line) ==
    /\ ListedAt(rows, w, now)
    /\ doing' = [doing EXCEPT ![w] = line]
    /\ said' = [said EXCEPT ![w] = line]
    /\ UNCHANGED <<now, rows, wait, fails, unbroken>>

(* Time passes; a worker no longer listed has its history end.             *)
TimePasses ==
    /\ now < MaxTime
    /\ now' = now + 1
    /\ said' = [w \in Workers |-> IF ListedAt(rows, w, now') THEN said[w] ELSE NoLine]
    /\ unbroken' = [w \in Workers |-> IF ListedAt(rows, w, now') THEN unbroken[w] ELSE Never]
    /\ UNCHANGED <<rows, doing, wait, fails>>

ListeningNext ==
    \/ \E i \in WaitIds :
         \/ \E workers \in (SUBSET Workers) \ {{}}, line \in Lines \cup {NoLine} :
                StartWait(i, workers, line)
         \/ StartBeat(i) \/ EndWait(i)
         \/ \E w \in Workers :
              Listen(i, w) \/ ListenFails(i, w, TRUE) \/ ListenFails(i, w, FALSE)
    \/ \E w \in Workers, line \in Lines \cup {NoLine} : SetDoing(w, line)
    \/ TimePasses

ListeningSpec == ListeningInit /\ [][ListeningNext]_listeningVars

-----------------------------------------------------------------------------

(* Types: what the tables and the waits are. *)
ListeningTypeOK ==
    /\ now \in 0 .. MaxTime
    /\ \A id \in WaitIds \X Workers :
        rows[id].since \in Never .. now /\ rows[id].heard \in Never .. now
    /\ doing \in [Workers -> Lines \cup {NoLine}]
    /\ \A i \in WaitIds : wait[i].at \in {"new", "rest", "beat", "over"}

(***************************************************************************)
(* The inbox lists a worker as listening since it began to, across as many *)
(* waits as follow one another within the lapse and however they ended,    *)
(* and with the line it said last: no later heartbeat puts an earlier line *)
(* back, and one that listens again after a break starts afresh            *)
(* (`Db::listeners`, `Listening::beat`; ST-16, AG-17).                     *)
(***************************************************************************)
ListedTruly ==
    \A w \in Workers :
        ListedAt(rows, w, now) =>
            Since(rows, w, now) = unbroken[w] /\ doing[w] = said[w]
=============================================================================
