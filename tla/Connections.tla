---------------------------- MODULE Connections ----------------------------
(***************************************************************************)
(* Processes that share the store's file by its path, each with one        *)
(* connection (crates/store-sqlite/src/db.rs, schema.rs): how a connection *)
(* is kept, closed and opened again as the file at the path is made,       *)
(* removed or replaced under it, and how two processes make one store.     *)
(*                                                                         *)
(* A file is a number, as its device and inode are: no file has another's  *)
(* while a process has it open.  What SQLite does under its lock on a file *)
(* is one step.                                                            *)
(***************************************************************************)
EXTENDS Integers, FiniteSets

CONSTANTS
    Processes,
    Tries,      \* how often a call opens the file: 3 in the code
    MaxFiles,   \* the files ever at the path (a bound)
    MaxCalls,   \* the reads and writes of all processes (a bound)
    MaxEdits    \* the times a human removes or replaces the file (a bound)

ASSUME ConnectionsAssumption ==
    Tries \in Nat \ {0} /\ MaxFiles \in Nat \ {0} /\ MaxCalls \in Nat /\ MaxEdits \in Nat

VARIABLES
    path,       \* the file at the path
    beside,     \* the file whose -wal and -shm are beside the path
    file,       \* what each file is, and the writes stored in it
    made,       \* how many files there have been
    edits,      \* how often a human has edited the path
    calls,      \* how many calls have begun
    proc,       \* each process: its call, the step it is at, its connection
    acked       \* history: the writes that returned stored

connVars == <<path, beside, file, made, edits, calls, proc, acked>>

NoFile == 0
Files == 1 .. MaxFiles

NoConn == [on |-> NoFile, recorded |-> NoFile]
Resting(conn) ==
    [at |-> "rest", call |-> "read", row |-> 0, conn |-> conn, before |-> NoFile,
     tries |-> 0, since |-> 0]

(* `old` is a store an older cases made, `newer` one a newer cases made.   *)
FileKinds == {"empty", "other", "newer", "old", "store"}
NewFile(kind) == [kind |-> kind, rows |-> {}]

(* There is no file yet, or a file of any kind. *)
ConnInit ==
    /\ \/ path = NoFile /\ made = 0 /\ file = [f \in Files |-> NewFile("empty")]
       \/ path = 1 /\ made = 1
          /\ \E kind \in FileKinds :
                 file = [f \in Files |-> NewFile(IF f = 1 THEN kind ELSE "empty")]
    /\ beside = NoFile /\ edits = 0 /\ calls = 0
    /\ proc = [p \in Processes |-> Resting(NoConn)]
    /\ acked = {}

-----------------------------------------------------------------------------

At(p, step) == proc[p].at = step
Goes(p, step) == proc' = [proc EXCEPT ![p].at = step]
Holds(p, f) == proc[p].conn.on = f

(***************************************************************************)
(* Process p closes its connection.  SQLite deletes the -wal and -shm with *)
(* the last connection to a file, when the file is at the path still.      *)
(***************************************************************************)
BesideWithout(p) ==
    LET f == proc[p].conn.on IN
    IF /\ f # NoFile /\ beside = f /\ path = f
       /\ \A q \in Processes \ {p} : ~Holds(q, f)
    THEN NoFile ELSE beside

(* The call ends, with its answer or an error: the next finds conn open.   *)
Ends(p, conn) == proc' = [proc EXCEPT ![p] = Resting(conn)]

(* Mistake: a connection is kept, whatever is at the path now.             *)
KeepsAny(p) == proc[p].conn.on # NoFile

(* The connection is kept while the file at the path is the one it recorded.*)
Keeps(p) == proc[p].conn.on # NoFile /\ proc[p].conn.recorded = path

Calling(p, call, step, conn) ==
    proc' = [proc EXCEPT ![p] = [Resting(conn) EXCEPT !.at = step, !.call = call,
                                                      !.row = calls + 1, !.since = edits]]

(***************************************************************************)
(* A call begins with a look at the path, and uses the connection kept or  *)
(* closes it.  With no file there, a create goes on to make the store, and *)
(* any other call finds none.                                              *)
(***************************************************************************)
CallKeeps(p, call) ==
    /\ At(p, "rest") /\ calls < MaxCalls /\ calls' = calls + 1
    /\ Keeps(p)
    /\ Calling(p, call, "transact", proc[p].conn)
    /\ UNCHANGED <<path, beside, file, made, edits, acked>>

CallOpens(p, call) ==
    /\ At(p, "rest") /\ calls < MaxCalls /\ calls' = calls + 1
    /\ ~Keeps(p)
    /\ beside' = BesideWithout(p)
    /\ IF path # NoFile THEN Calling(p, call, "before", NoConn)
       ELSE IF call = "create" THEN Calling(p, call, "leftovers", NoConn)
       ELSE Ends(p, NoConn)
    /\ UNCHANGED <<path, file, made, edits, acked>>

(* Mistake: nothing looks for what a removed store left.                   *)
NoLookForLeftovers(p) ==
    /\ At(p, "leftovers")
    /\ Goes(p, "make")
    /\ UNCHANGED <<path, beside, file, made, edits, calls, acked>>

(***************************************************************************)
(* A store is not made while a -wal or -shm of one removed is beside the   *)
(* path, unless another process has made the store since.                  *)
(***************************************************************************)
CheckLeftovers(p) ==
    /\ At(p, "leftovers")
    /\ IF beside = NoFile \/ path # NoFile THEN Goes(p, "make") ELSE Ends(p, NoConn)
    /\ UNCHANGED <<path, beside, file, made, edits, calls, acked>>

(* Mistake: a file another process made first is made anew.                *)
MakeFileAnew(p) ==
    /\ At(p, "make") /\ made < MaxFiles
    /\ path' = made + 1 /\ made' = made + 1
    /\ file' = [file EXCEPT ![made + 1] = NewFile("empty")]
    /\ Goes(p, "before")
    /\ UNCHANGED <<beside, edits, calls, acked>>

(* An empty file is made, unless there is one already.                     *)
MakeFile(p) ==
    /\ At(p, "make")
    /\ \/ path = NoFile /\ made < MaxFiles
          /\ path' = made + 1 /\ made' = made + 1
          /\ file' = [file EXCEPT ![made + 1] = NewFile("empty")]
       \/ path # NoFile /\ UNCHANGED <<path, made, file>>
    /\ Goes(p, "before")
    /\ UNCHANGED <<beside, edits, calls, acked>>

(***************************************************************************)
(* Opening: the file at the path before, the connection to the file there  *)
(* by then, its schema, and the file at the path after.                    *)
(***************************************************************************)
LookBefore(p) ==
    /\ At(p, "before")
    /\ IF path = NoFile THEN Ends(p, NoConn)
       ELSE proc' = [proc EXCEPT ![p].at = "connect", ![p].before = path]
    /\ UNCHANGED <<path, beside, file, made, edits, calls, acked>>

(* SQLite never makes the file, and fails when it is not there.            *)
Connect(p) ==
    /\ At(p, "connect")
    /\ IF path = NoFile THEN Ends(p, NoConn)
       ELSE proc' = [proc EXCEPT ![p].at = "setup", ![p].conn.on = path]
    /\ UNCHANGED <<path, beside, file, made, edits, calls, acked>>

(* A connection in use has its -wal beside the path.                       *)
BesideWith(f) == IF beside = NoFile /\ path = f THEN f ELSE beside

(***************************************************************************)
(* The schema: made in an empty file by a create, once, whoever gets the   *)
(* lock first; what an older cases made is upgraded, or left for now.      *)
(***************************************************************************)
Setup(p) ==
    LET f == proc[p].conn.on
        kind == file[f].kind
        ready == kind \in {"old", "store"} \/ (kind = "empty" /\ proc[p].call = "create") IN
    /\ At(p, "setup")
    /\ IF ready
       THEN /\ \E to \in {"store"} \cup ({kind} \cap {"old"}) :
                   file' = [file EXCEPT ![f].kind = to]
            /\ beside' = BesideWith(f)
            /\ Goes(p, "after")
       ELSE /\ Ends(p, NoConn)
            /\ beside' = BesideWithout(p)
            /\ UNCHANGED file
    /\ UNCHANGED <<path, made, edits, calls, acked>>

LookAfter(p) ==
    /\ At(p, "after")
    /\ \/ /\ path = proc[p].before
          /\ proc' = [proc EXCEPT ![p].at = "transact", ![p].conn.recorded = path]
          /\ UNCHANGED beside
       \/ /\ path # proc[p].before /\ proc[p].tries < Tries - 1
          /\ proc' = [proc EXCEPT ![p].at = "before", ![p].conn = NoConn, ![p].tries = @ + 1]
          /\ beside' = BesideWithout(p)
       \/ /\ path # proc[p].before /\ proc[p].tries = Tries - 1
          /\ Ends(p, NoConn)
          /\ beside' = BesideWithout(p)
    /\ UNCHANGED <<path, file, made, edits, calls, acked>>

(* A read or write in a transaction, on a version this cases reads.        *)
Transact(p) ==
    LET f == proc[p].conn.on
        row == proc[p].row IN
    /\ At(p, "transact")
    /\ IF proc[p].call # "read" /\ file[f].kind \in {"old", "store"}
       THEN /\ file' = [file EXCEPT ![f].rows = @ \cup {row}]
            /\ acked' = acked \cup {[row |-> row, since |-> proc[p].since]}
       ELSE UNCHANGED <<file, acked>>
    /\ beside' = BesideWith(f)
    /\ Ends(p, proc[p].conn)
    /\ UNCHANGED <<path, made, edits, calls>>

(***************************************************************************)
(* A call fails: another writer holds the lock too long, or the disk       *)
(* fails.  A connection that was not kept yet is closed.                   *)
(***************************************************************************)
Fail(p) ==
    /\ proc[p].at \in {"make", "connect", "setup", "after", "transact"}
    /\ Ends(p, IF At(p, "transact") THEN proc[p].conn ELSE NoConn)
    /\ beside' = IF At(p, "transact") THEN beside ELSE BesideWithout(p)
    /\ UNCHANGED <<path, file, made, edits, calls, acked>>

-----------------------------------------------------------------------------

(* A human removes the file: the store alone, or with its -wal and -shm.   *)
Remove ==
    /\ edits < MaxEdits /\ path # NoFile
    /\ path' = NoFile /\ edits' = edits + 1
    /\ beside' \in {beside, NoFile}
    /\ UNCHANGED <<file, made, calls, proc, acked>>

(* Or puts another file in its place, with no -wal of the last one.        *)
Replace ==
    /\ edits < MaxEdits /\ made < MaxFiles
    /\ path' = made + 1 /\ made' = made + 1
    /\ \E kind \in {"empty", "store"} : file' = [file EXCEPT ![made + 1] = NewFile(kind)]
    /\ edits' = edits + 1
    /\ beside' = NoFile
    /\ UNCHANGED <<calls, proc, acked>>

(* A newer cases changes the schema of the store. *)
Newer ==
    /\ edits < MaxEdits /\ path # NoFile /\ file[path].kind \in {"old", "store"}
    /\ file' = [file EXCEPT ![path].kind = "newer"]
    /\ edits' = edits + 1
    /\ UNCHANGED <<path, beside, made, calls, proc, acked>>

ConnNext ==
    \/ \E p \in Processes :
         \/ \E call \in {"read", "append", "create"} : CallKeeps(p, call) \/ CallOpens(p, call)
         \/ CheckLeftovers(p) \/ MakeFile(p)
         \/ LookBefore(p) \/ Connect(p) \/ Setup(p) \/ LookAfter(p)
         \/ Transact(p) \/ Fail(p)
    \/ Remove \/ Replace \/ Newer

ConnSpec == ConnInit /\ [][ConnNext]_connVars

-----------------------------------------------------------------------------

Places ==
    {"rest", "leftovers", "make", "before", "connect", "setup", "after", "transact"}

(* Types: what the path, the files and the processes are. *)
ConnTypeOK ==
    /\ path \in 0 .. made /\ beside \in 0 .. made /\ made \in 0 .. MaxFiles
    /\ \A f \in Files : file[f].kind \in FileKinds
    /\ \A p \in Processes :
        /\ proc[p].at \in Places
        /\ proc[p].conn.on \in 0 .. made /\ proc[p].conn.recorded \in 0 .. made

(***************************************************************************)
(* A write that returned is in the store at the path, as long as no human  *)
(* has touched the path since the write began: however many processes made *)
(* the store at once, and whatever was removed or replaced before it, it   *)
(* was not written to the old file (db.rs, `Db`: "never writes to the old  *)
(* file").                                                                 *)
(***************************************************************************)
StoredIsThere ==
    \A write \in acked :
        write.since = edits => path # NoFile /\ write.row \in file[path].rows

(***************************************************************************)
(* No file is made at the path while what a store removed before it left   *)
(* is beside it (db.rs, `check_leftovers`), unless a human touched the     *)
(* path since the call that makes it began.                                *)
(***************************************************************************)
MadeWithNothingBeside ==
    [][\A p \in Processes :
         path = NoFile /\ path' # NoFile /\ proc[p].since = edits /\ At(p, "make")
             /\ proc'[p] # proc[p] => beside = NoFile]_connVars
=============================================================================
