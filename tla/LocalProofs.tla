----------------------------- MODULE LocalProofs -----------------------------
(***************************************************************************)
(* What keeps processes out of each other's way: those that make and open  *)
(* a store's file (Connections), the runs that write many of its cases     *)
(* (Sweep), the waits that say in it who listens (Listening), and the      *)
(* locks of waits, on one machine (Locks) and on a forwarded store (Lease).*)
(***************************************************************************)
EXTENDS Connections, Sweep, Listening, Locks, Lease, TLAPS

-----------------------------------------------------------------------------
(***************************************************************************)
(* Of Connections, for any number of processes, files, calls and edits: a  *)
(* write that returned is in the store at the path until a human touches   *)
(* it, and no store is made with what an older one left beside it.         *)
(*                                                                         *)
(* The argument: no file is at the path twice, so the one there before and *)
(* after a connection was opened was there throughout, and the connection  *)
(* is to it.  Only a human takes it away.                                  *)
(***************************************************************************)

Calls == {"read", "append", "create"}

ConnTyped ==
    /\ path \in Nat /\ beside \in Nat /\ made \in 0 .. MaxFiles
    /\ edits \in Nat /\ calls \in Nat
    /\ file \in [Files -> [kind : FileKinds, rows : SUBSET Nat]]
    /\ proc \in [Processes ->
                    [at : Places, call : Calls, row : Nat,
                     conn : [on : Nat, recorded : Nat],
                     before : Nat, tries : Nat, since : Nat]]
    /\ acked \subseteq [row : Nat, since : Nat]

(* The file at the path is the last one made, and no name is of a later one.*)
PathIsNewest ==
    /\ path \in {NoFile, made} /\ beside <= made
    /\ \A p \in Processes : proc[p].conn.on <= made /\ proc[p].conn.recorded <= made

(* No call and no write stored began after more edits than there were.     *)
SinceIsPast ==
    /\ \A p \in Processes : proc[p].since <= edits
    /\ \A write \in acked : write.since <= edits

(***************************************************************************)
(* A connection being opened is to the file found there first or to one    *)
(* made later; one kept is to the file it recorded, and while a transaction*)
(* is under way and no human touches the path, to the file at the path.    *)
(***************************************************************************)
ConnIsSo(p) ==
    LET conn == proc[p].conn IN
    /\ At(p, "connect") => proc[p].before \in 1 .. made
    /\ proc[p].at \in {"setup", "after"} =>
          proc[p].before \in 1 .. made /\ conn.on >= proc[p].before
    /\ proc[p].at \in {"rest", "transact"} => conn.on \in {NoFile, conn.recorded}
    /\ At(p, "transact") => conn.on # NoFile
    /\ At(p, "transact") /\ proc[p].since = edits => conn.on = path
    /\ At(p, "make") /\ proc[p].since = edits => beside = NoFile \/ path # NoFile

ConnInv ==
    ConnTyped /\ PathIsNewest /\ SinceIsPast /\ (\A p \in Processes : ConnIsSo(p)) /\ StoredIsThere

-----------------------------------------------------------------------------

(* A store is there at first or is not, with nobody connected to it.       *)
LEMMA ConnInitially == ConnInit => ConnInv
  <1> SUFFICES ASSUME ConnInit PROVE ConnInv
    OBVIOUS
  <1> USE ConnectionsAssumption
  <1>1. ConnTyped
    BY DEF ConnInit, ConnTyped, Files, FileKinds, NewFile, Resting, NoConn, NoFile, Places, Calls
  <1>2. PathIsNewest /\ SinceIsPast /\ StoredIsThere
    BY DEF ConnInit, PathIsNewest, SinceIsPast, StoredIsThere, Resting, NoConn, NoFile
  <1>3. \A p \in Processes : ConnIsSo(p)
    BY DEF ConnInit, ConnIsSo, At, Resting, NoConn, NoFile
  <1> QED BY <1>1, <1>2, <1>3 DEF ConnInv

(* What is beside the path is only ever the file at the path, or nothing.  *)
LEMMA BesideMoves ==
    ASSUME ConnInv, NEW p \in Processes
    PROVE  /\ BesideWithout(p) \in {beside, NoFile}
           /\ \A f \in Nat : f # NoFile => BesideWith(f) \in {beside} \cup ({path} \ {NoFile})
  BY DEF BesideWithout, BesideWith

(* What a process is: the step it is at, its call, its connection. *)
ProcOK(r) ==
    r \in [at : Places, call : Calls, row : Nat, conn : [on : Nat, recorded : Nat],
           before : Nat, tries : Nat, since : Nat]

(***************************************************************************)
(* A step of one process that leaves the path, the files made and the edits*)
(* alone disturbs no other process, nor a write that is stored.            *)
(***************************************************************************)
LEMMA OthersStay ==
    ASSUME ConnInv, NEW p \in Processes, NEW new,
           proc' = [proc EXCEPT ![p] = new], ProcOK(new),
           path' = path, made' = made, edits' = edits, calls' \in Nat,
           beside' \in {beside, NoFile} \cup ({path} \ {NoFile}),
           file' \in [Files -> [kind : FileKinds, rows : SUBSET Nat]],
           acked' \subseteq [row : Nat, since : Nat],
           new.conn.on <= made, new.conn.recorded <= made, new.since <= edits,
           ConnIsSo(p)',
           \A f \in Files : file[f].rows \subseteq file'[f].rows,
           \A write \in acked' \ acked :
              /\ write.since <= edits
              /\ write.since = edits => path # NoFile /\ write.row \in file'[path].rows
    PROVE  ConnInv'
  <1> USE ConnectionsAssumption
  <1>1. ConnTyped' /\ proc'[p] = new /\ \A q \in Processes \ {p} : proc'[q] = proc[q]
    BY DEF ConnInv, ConnTyped, ProcOK, NoFile
  <1>2. PathIsNewest' /\ SinceIsPast'
    BY <1>1 DEF ConnInv, PathIsNewest, SinceIsPast, ConnTyped, NoFile
  <1>3. ASSUME NEW q \in Processes PROVE ConnIsSo(q)'
    <2>1. CASE q = p
      BY <2>1
    <2>2. CASE q # p
      BY <2>2, <1>1, <1>3 DEF ConnInv, ConnIsSo, At, NoFile
    <2> QED BY <2>1, <2>2
  <1>4. StoredIsThere'
    <2> SUFFICES ASSUME NEW write \in acked', write.since = edits
                 PROVE  path # NoFile /\ write.row \in file'[path].rows
      BY DEF StoredIsThere
    <2>1. path # NoFile => path \in Files
      BY DEF ConnInv, PathIsNewest, ConnTyped, Files, NoFile
    <2> QED BY <2>1 DEF ConnInv, StoredIsThere
  <1> QED BY <1>1, <1>2, <1>3, <1>4 DEF ConnInv

(* What the steps that end a call, or begin one, make of its process.      *)
LEMMA Ended ==
    ASSUME ConnInv, NEW p \in Processes,
           NEW conn \in {NoConn, proc[p].conn}
    PROVE  /\ ProcOK(Resting(conn)) /\ Resting(conn).conn = conn
           /\ Resting(conn).at = "rest" /\ Resting(conn).since = 0
           /\ conn.on <= made /\ conn.recorded <= made /\ 0 <= edits
           /\ proc[p].at \in {"rest", "transact"} => conn.on \in {NoFile, conn.recorded}
           /\ NoConn.on = NoFile /\ NoConn.recorded = NoFile
  BY DEF ConnInv, ConnTyped, PathIsNewest, ConnIsSo, At, ProcOK, Resting, NoConn, NoFile,
         Places, Calls

(* The call of one process ends, and nothing is in the way.                *)
LEMMA EndsWell ==
    ASSUME ConnInv, NEW p \in Processes, NEW conn \in {NoConn, proc[p].conn},
           Ends(p, conn),
           conn = NoConn \/ proc[p].at \in {"rest", "transact"},
           path' = path, made' = made, edits' = edits, calls' \in Nat,
           beside' \in {beside, NoFile} \cup ({path} \ {NoFile}),
           file' \in [Files -> [kind : FileKinds, rows : SUBSET Nat]],
           acked' \subseteq [row : Nat, since : Nat],
           \A f \in Files : file[f].rows \subseteq file'[f].rows,
           \A write \in acked' \ acked :
              /\ write.since <= edits
              /\ write.since = edits => path # NoFile /\ write.row \in file'[path].rows
    PROVE  ConnInv'
  <1>1. proc' = [proc EXCEPT ![p] = Resting(conn)] /\ proc'[p] = Resting(conn)
    BY DEF Ends, ConnInv, ConnTyped
  <1>2. ConnIsSo(p)'
    BY <1>1, Ended DEF ConnIsSo, At, NoFile
  <1> QED BY <1>1, <1>2, Ended, OthersStay

(* A call begins, on the connection kept or on none.                       *)
LEMMA CallBegins ==
    ASSUME ConnInv, NEW p \in Processes, NEW call \in Calls,
           CallKeeps(p, call) \/ CallOpens(p, call)
    PROVE  ConnInv'
  <1>1. /\ path' = path /\ made' = made /\ edits' = edits /\ calls' \in Nat
        /\ file' = file /\ acked' = acked
        /\ beside' \in {beside, NoFile} \cup ({path} \ {NoFile})
        /\ file \in [Files -> [kind : FileKinds, rows : SUBSET Nat]]
        /\ acked \subseteq [row : Nat, since : Nat]
    BY BesideMoves DEF CallKeeps, CallOpens, ConnInv, ConnTyped
  <1>2. ASSUME NEW step \in Places, NEW conn \in {NoConn, proc[p].conn},
               Calling(p, call, step, conn),
               \/ step \in {"before", "leftovers"}
               \/ step = "transact" /\ conn = proc[p].conn /\ At(p, "rest") /\ Keeps(p)
        PROVE  ConnInv'
    <2> DEFINE new == [Resting(conn) EXCEPT !.at = step, !.call = call,
                                            !.row = calls + 1, !.since = edits]
    <2>1. ProcOK(new)
      <3> DEFINE S == [at : Places, call : Calls, row : Nat, conn : [on : Nat, recorded : Nat],
                       before : Nat, tries : Nat, since : Nat]
      <3>1. ASSUME NEW r \in S
            PROVE  [r EXCEPT !.at = step, !.call = call, !.row = calls + 1, !.since = edits] \in S
        <4>1. calls + 1 \in Nat /\ edits \in Nat
          BY DEF ConnInv, ConnTyped
        <4>2. [r EXCEPT !.at = step] \in S
          OBVIOUS
        <4>3. [r EXCEPT !.at = step, !.call = call] \in S
          BY <4>2
        <4>4. [r EXCEPT !.at = step, !.call = call, !.row = calls + 1] \in S
          BY <4>1, <4>3
        <4> QED BY <4>1, <4>4
      <3>2. Resting(conn) \in S
        BY Ended DEF ProcOK
      <3> QED BY <3>1, <3>2 DEF ProcOK
    <2>2. new.conn = conn /\ new.at = step /\ new.since = edits
      BY DEF Resting
    <2>3. proc' = [proc EXCEPT ![p] = new] /\ proc'[p] = new
      BY <1>2 DEF Calling, ConnInv, ConnTyped
    <2> HIDE DEF new
    <2>4. ConnIsSo(p)'
      BY <1>1, <1>2, <2>2, <2>3, Ended DEF ConnIsSo, At, Keeps, NoFile
    <2>5. edits <= edits
      BY DEF ConnInv, ConnTyped
    <2> QED BY <1>1, <2>1, <2>2, <2>3, <2>4, <2>5, Ended, OthersStay
  <1>3. CASE CallKeeps(p, call)
    BY <1>3, <1>2 DEF CallKeeps, Places
  <1>4. CASE CallOpens(p, call)
    <2>1. CASE Ends(p, NoConn)
      BY <2>1, <1>1, EndsWell
    <2> QED BY <1>2, <1>4, <2>1 DEF CallOpens, Places
  <1> QED BY <1>3, <1>4

(* A process goes on to the next step of its call, and nothing else moves. *)
LEMMA ConnGoesOn ==
    ASSUME ConnInv, NEW p \in Processes, NEW new,
           proc' = [proc EXCEPT ![p] = new], ProcOK(new),
           path' = path, made' = made, edits' = edits, calls' = calls, acked' = acked,
           beside' \in {beside, NoFile} \cup ({path} \ {NoFile}),
           file' \in [Files -> [kind : FileKinds, rows : SUBSET Nat]],
           \A f \in Files : file[f].rows \subseteq file'[f].rows,
           new.conn.on <= made, new.conn.recorded <= made, new.since = proc[p].since,
           ConnIsSo(p)'
    PROVE  ConnInv'
  <1>1. calls' \in Nat /\ acked' \subseteq [row : Nat, since : Nat] /\ new.since <= edits
    BY DEF ConnInv, ConnTyped, SinceIsPast
  <1> QED BY <1>1, OthersStay

(* It goes on by its step alone.                                           *)
LEMMA StepsOn ==
    ASSUME ConnInv, NEW p \in Processes, NEW step \in {"make", "before", "after"},
           Goes(p, step),
           step = "after" => At(p, "setup"),
           step = "make" => beside = NoFile \/ path # NoFile,
           path' = path, made' = made, edits' = edits, calls' = calls, acked' = acked,
           beside' \in {beside, NoFile} \cup ({path} \ {NoFile}),
           file' \in [Files -> [kind : FileKinds, rows : SUBSET Nat]],
           \A f \in Files : file[f].rows \subseteq file'[f].rows
    PROVE  ConnInv'
  <1> DEFINE new == [proc[p] EXCEPT !.at = step]
  <1>1. proc' = [proc EXCEPT ![p] = new] /\ proc'[p] = new
    BY DEF Goes, ConnInv, ConnTyped
  <1>2. ProcOK(new)
    BY DEF ProcOK, ConnInv, ConnTyped, Places
  <1>3. new.at = step /\ new.conn = proc[p].conn /\ new.since = proc[p].since
        /\ new.before = proc[p].before
    BY DEF ConnInv, ConnTyped
  <1> HIDE DEF new
  <1>4. ConnIsSo(p)'
    BY <1>1, <1>3 DEF ConnIsSo, At, ConnInv, NoFile
  <1>5. new.conn.on <= made /\ new.conn.recorded <= made
    BY <1>3 DEF ConnInv, PathIsNewest
  <1> QED BY <1>1, <1>2, <1>3, <1>4, <1>5, ConnGoesOn

(* A step of a process alone leaves the store as it is.                    *)
LEMMA Alone ==
    ASSUME ConnInv, UNCHANGED <<path, file, made, edits, calls, acked>>
    PROVE  /\ path' = path /\ made' = made /\ edits' = edits /\ acked' = acked
           /\ calls' = calls /\ calls' \in Nat
           /\ file' \in [Files -> [kind : FileKinds, rows : SUBSET Nat]]
           /\ acked' \subseteq [row : Nat, since : Nat]
           /\ \A f \in Files : file[f].rows \subseteq file'[f].rows
  BY DEF ConnInv, ConnTyped

(* Before the store is made, and once it is.                               *)
LEMMA Makes ==
    ASSUME ConnInv, NEW p \in Processes, CheckLeftovers(p) \/ MakeFile(p)
    PROVE  ConnInv'
  <1> USE ConnectionsAssumption
  <1>1. CASE CheckLeftovers(p)
    <2>1. UNCHANGED <<path, file, made, edits, calls, acked>> /\ beside' = beside
      BY <1>1 DEF CheckLeftovers
    <2>2. CASE Ends(p, NoConn)
      BY <2>1, <2>2, Alone, EndsWell
    <2> QED BY <1>1, <2>1, <2>2, Alone, StepsOn DEF CheckLeftovers
  <1>2. CASE MakeFile(p)
    <2>1. CASE path # NoFile
      <3>1. UNCHANGED <<path, file, made, edits, calls, acked>> /\ beside' = beside
        BY <1>2, <2>1 DEF MakeFile
      <3> QED BY <3>1, <1>2, Alone, StepsOn DEF MakeFile
    <2>2. CASE path = NoFile
      <3>1. /\ path' = made + 1 /\ made' = made + 1 /\ made < MaxFiles
            /\ file' = [file EXCEPT ![made + 1] = NewFile("empty")]
            /\ beside' = beside /\ edits' = edits /\ calls' = calls /\ acked' = acked
            /\ proc' = [proc EXCEPT ![p].at = "before"]
        BY <1>2, <2>2 DEF MakeFile, Goes
      <3>2. ConnTyped'
        <4>1. NewFile("empty") \in [kind : FileKinds, rows : SUBSET Nat]
          BY DEF NewFile, FileKinds
        <4>2. file' \in [Files -> [kind : FileKinds, rows : SUBSET Nat]]
          BY <3>1, <4>1 DEF ConnInv, ConnTyped
        <4> QED BY <3>1, <4>2 DEF ConnInv, ConnTyped, Places
      <3>3. PathIsNewest' /\ SinceIsPast'
        BY <3>1 DEF ConnInv, ConnTyped, PathIsNewest, SinceIsPast
      <3>4. \A q \in Processes : ConnIsSo(q)'
        BY <3>1, <2>2 DEF ConnInv, ConnTyped, ConnIsSo, At, NoFile
      <3>5. StoredIsThere'
        BY <3>1, <2>2 DEF ConnInv, StoredIsThere
      <3> QED BY <3>2, <3>3, <3>4, <3>5 DEF ConnInv
    <2> QED BY <2>1, <2>2
  <1> QED BY <1>1, <1>2

(* A connection opens, to the file at the path.                            *)
LEMMA OpensIt ==
    ASSUME ConnInv, NEW p \in Processes, LookBefore(p) \/ Connect(p)
    PROVE  ConnInv'
  <1>1. UNCHANGED <<path, file, made, edits, calls, acked>> /\ beside' = beside
    BY DEF LookBefore, Connect
  <1>2. CASE Ends(p, NoConn)
    BY <1>1, <1>2, Alone, EndsWell
  <1>3. CASE LookBefore(p) /\ path # NoFile
    <2> DEFINE new == [proc[p] EXCEPT !.at = "connect", !.before = path]
    <2>1. proc' = [proc EXCEPT ![p] = new] /\ proc'[p] = new
      BY <1>3 DEF LookBefore, ConnInv, ConnTyped
    <2>2. ProcOK(new) /\ new.at = "connect" /\ new.before = path
          /\ new.conn = proc[p].conn /\ new.since = proc[p].since
      BY DEF ProcOK, ConnInv, ConnTyped, Places
    <2> HIDE DEF new
    <2>3. ConnIsSo(p)' /\ new.conn.on <= made /\ new.conn.recorded <= made
      BY <1>1, <1>3, <2>1, <2>2 DEF ConnIsSo, At, ConnInv, ConnTyped, PathIsNewest, NoFile
    <2> QED BY <1>1, <2>1, <2>2, <2>3, Alone, ConnGoesOn
  <1>4. CASE Connect(p) /\ path # NoFile
    <2> DEFINE new == [proc[p] EXCEPT !.at = "setup", !.conn = [@ EXCEPT !.on = path]]
    <2>1. proc' = [proc EXCEPT ![p] = new] /\ proc'[p] = new
      BY <1>4, ZenonT(30) DEF Connect, ConnInv, ConnTyped
    <2>2. ProcOK(new) /\ new.at = "setup" /\ new.before = proc[p].before /\ new.conn.on = path
          /\ new.conn.recorded = proc[p].conn.recorded /\ new.since = proc[p].since
      BY DEF ProcOK, ConnInv, ConnTyped, Places
    <2> HIDE DEF new
    <2>3. ConnIsSo(p)' /\ new.conn.on <= made /\ new.conn.recorded <= made
      BY <1>1, <1>4, <2>1, <2>2
         DEF ConnIsSo, At, Connect, ConnInv, ConnTyped, PathIsNewest, NoFile
    <2> QED BY <1>1, <2>1, <2>2, <2>3, Alone, ConnGoesOn
  <1> QED BY <1>2, <1>3, <1>4 DEF LookBefore, Connect

(* Its schema is made, or is no cases' at all.                             *)
LEMMA SetsUp ==
    ASSUME ConnInv, NEW p \in Processes, Setup(p)
    PROVE  ConnInv'
  <1> DEFINE f == proc[p].conn.on
  <1>1. /\ path' = path /\ made' = made /\ edits' = edits /\ acked' = acked
        /\ calls' = calls /\ calls' \in Nat
        /\ acked' \subseteq [row : Nat, since : Nat]
    BY DEF Setup, ConnInv, ConnTyped
  <1>2. CASE Ends(p, NoConn) /\ file' = file /\ beside' = BesideWithout(p)
    BY <1>1, <1>2, BesideMoves, EndsWell DEF ConnInv, ConnTyped
  <1>3. CASE Goes(p, "after")
    <2>1. At(p, "setup") /\ f \in Nat /\ f # NoFile
      BY DEF Setup, ConnInv, ConnTyped, ConnIsSo, At, NoFile
    <2>2. beside' = BesideWith(f)
      BY <1>3, <2>1 DEF Setup, Goes, Ends, Resting, ConnInv, ConnTyped, At
    <2>3. PICK to \in FileKinds : file' = [file EXCEPT ![f].kind = to]
      <3>1. proc'[p].at = "after"
        BY <1>3 DEF Goes, ConnInv, ConnTyped
      <3>2. ~Ends(p, NoConn)
        BY <3>1 DEF Ends, Resting, ConnInv, ConnTyped
      <3>. QED
        BY <3>2 DEF Setup, FileKinds
    <2>4. file' \in [Files -> [kind : FileKinds, rows : SUBSET Nat]]
          /\ \A g \in Files : file[g].rows \subseteq file'[g].rows
      BY <2>3 DEF ConnInv, ConnTyped
    <2> QED BY <1>1, <1>3, <2>1, <2>2, <2>4, BesideMoves, StepsOn
  <1> QED BY <1>2, <1>3 DEF Setup

(* The file there after is the one there before, or the call starts over.  *)
LEMMA LooksAgain ==
    ASSUME ConnInv, NEW p \in Processes, LookAfter(p)
    PROVE  ConnInv'
  <1>1. UNCHANGED <<path, file, made, edits, calls, acked>>
        /\ beside' \in {beside, NoFile} \cup ({path} \ {NoFile})
    BY BesideMoves DEF LookAfter
  <1>2. CASE Ends(p, NoConn)
    BY <1>1, <1>2, Alone, EndsWell
  <1>3. CASE path = proc[p].before
             /\ proc' = [proc EXCEPT ![p].at = "transact", ![p].conn.recorded = path]
    <2> DEFINE new == [proc[p] EXCEPT !.at = "transact", !.conn = [@ EXCEPT !.recorded = path]]
    <2>1. proc' = [proc EXCEPT ![p] = new] /\ proc'[p] = new
      BY <1>3 DEF ConnInv, ConnTyped
    <2>2. ProcOK(new) /\ new.at = "transact" /\ new.conn.recorded = path
          /\ new.conn.on = proc[p].conn.on /\ new.since = proc[p].since
      BY DEF ProcOK, ConnInv, ConnTyped, Places
    <2> HIDE DEF new
    <2>3. ConnIsSo(p)' /\ new.conn.on <= made /\ new.conn.recorded <= made
      BY <1>1, <1>3, <2>1, <2>2
         DEF ConnIsSo, At, LookAfter, ConnInv, ConnTyped, PathIsNewest, NoFile
    <2> QED BY <1>1, <2>1, <2>2, <2>3, Alone, ConnGoesOn
  <1>4. CASE proc' = [proc EXCEPT ![p].at = "before", ![p].conn = NoConn, ![p].tries = @ + 1]
    <2> DEFINE new == [proc[p] EXCEPT !.at = "before", !.conn = NoConn, !.tries = @ + 1]
    <2>1. proc' = [proc EXCEPT ![p] = new] /\ proc'[p] = new
      BY <1>4 DEF ConnInv, ConnTyped
    <2>2. ProcOK(new) /\ new.at = "before" /\ new.conn = NoConn /\ new.since = proc[p].since
      <3>1. NoConn \in [on : Nat, recorded : Nat]
        BY DEF NoConn, NoFile
      <3>2. proc[p].tries + 1 \in Nat
        BY DEF ConnInv, ConnTyped
      <3> QED BY <3>1, <3>2 DEF ProcOK, ConnInv, ConnTyped, Places
    <2> HIDE DEF new
    <2>3. ConnIsSo(p)' /\ new.conn.on <= made /\ new.conn.recorded <= made
      BY <2>1, <2>2, Ended DEF ConnIsSo, At, NoFile
    <2> QED BY <1>1, <2>1, <2>2, <2>3, Alone, ConnGoesOn
  <1> QED BY <1>2, <1>3, <1>4 DEF LookAfter

(* A write is stored in the file at the path, when no human touched it.    *)
LEMMA Transacts ==
    ASSUME ConnInv, NEW p \in Processes, Transact(p)
    PROVE  ConnInv'
  <1> USE ConnectionsAssumption
  <1> DEFINE f == proc[p].conn.on
             row == proc[p].row
             write == [row |-> row, since |-> proc[p].since]
  <1>1. path' = path /\ made' = made /\ edits' = edits /\ calls' \in Nat
        /\ Ends(p, proc[p].conn) /\ At(p, "transact") /\ beside' = BesideWith(f)
    BY DEF Transact, ConnInv, ConnTyped
  <1>2. f \in Files /\ f # NoFile /\ f \in Nat
    BY <1>1 DEF ConnInv, ConnTyped, ConnIsSo, PathIsNewest, Files, NoFile
  <1>3. CASE UNCHANGED <<file, acked>>
    BY <1>1, <1>2, <1>3, BesideMoves, EndsWell DEF ConnInv, ConnTyped, At
  <1>4. CASE file' = [file EXCEPT ![f].rows = @ \cup {row}] /\ acked' = acked \cup {write}
    <2>1. row \in Nat /\ proc[p].since \in Nat /\ proc[p].since <= edits
      BY DEF ConnInv, ConnTyped, SinceIsPast
    <2>2. file' \in [Files -> [kind : FileKinds, rows : SUBSET Nat]]
          /\ (\A g \in Files : file[g].rows \subseteq file'[g].rows) /\ row \in file'[f].rows
      BY <1>2, <1>4, <2>1 DEF ConnInv, ConnTyped
    <2>3. acked' \subseteq [row : Nat, since : Nat]
      BY <1>4, <2>1 DEF ConnInv, ConnTyped
    <2>4. write.since = edits => path # NoFile /\ write.row \in file'[path].rows
      BY <1>1, <1>2, <2>2 DEF ConnInv, ConnIsSo
    <2>5. beside' \in {beside, NoFile} \cup ({path} \ {NoFile})
      BY <1>1, <1>2, BesideMoves
    <2>6. \A w \in acked' \ acked :
             /\ w.since <= edits
             /\ w.since = edits => path # NoFile /\ w.row \in file'[path].rows
      BY <1>4, <2>1, <2>4
    <2> QED BY <1>1, <2>2, <2>3, <2>5, <2>6, EndsWell DEF At
  <1> QED BY <1>3, <1>4 DEF Transact

(* A call that fails leaves the store as it was.                           *)
LEMMA Fails ==
    ASSUME ConnInv, NEW p \in Processes, Fail(p)
    PROVE  ConnInv'
  <1>1. UNCHANGED <<path, file, made, edits, calls, acked>>
        /\ beside' \in {beside, NoFile} \cup ({path} \ {NoFile})
    BY BesideMoves DEF Fail
  <1> QED BY <1>1, Alone, EndsWell DEF Fail, At

(* What a human does at the path makes an edit of it, so that nothing is   *)
(* asked of any call or write that began before.                           *)
LEMMA HumanEdits ==
    ASSUME ConnInv, Remove \/ Replace \/ Newer
    PROVE  ConnInv'
  <1> USE ConnectionsAssumption
  <1>1. edits' = edits + 1 /\ calls' = calls /\ proc' = proc /\ acked' = acked
        /\ made' \in {made, made + 1} /\ path' \in {NoFile, path, made'}
        /\ (made' = made \/ path' = made') /\ made' <= MaxFiles
        /\ beside' \in {beside, NoFile}
    BY DEF Remove, Replace, Newer, ConnInv, ConnTyped
  <1>2. ConnTyped'
    <2>1. file' \in [Files -> [kind : FileKinds, rows : SUBSET Nat]]
      BY DEF Remove, Replace, Newer, ConnInv, ConnTyped, NewFile, FileKinds
    <2> QED BY <1>1, <2>1 DEF ConnInv, ConnTyped, NoFile
  <1>3. PathIsNewest'
    BY <1>1 DEF ConnInv, ConnTyped, PathIsNewest, NoFile
  <1>4. SinceIsPast'
    BY <1>1 DEF ConnInv, ConnTyped, SinceIsPast
  <1>5. \A p \in Processes : ConnIsSo(p)'
    BY <1>1 DEF ConnInv, ConnTyped, ConnIsSo, At, SinceIsPast
  <1>6. StoredIsThere'
    BY <1>1 DEF ConnInv, ConnTyped, StoredIsThere, SinceIsPast
  <1> QED BY <1>2, <1>3, <1>4, <1>5, <1>6 DEF ConnInv

-----------------------------------------------------------------------------

(***************************************************************************)
(* A connection kept is to the file it recorded, and to the one at the path*)
(* while no human touches it: what `Db` keeps and opens again (db.rs).     *)
(***************************************************************************)
THEOREM ConnectedToThePath == ConnSpec => []ConnInv
  <1>1. ConnInv /\ [ConnNext]_connVars => ConnInv'
    <2> SUFFICES ASSUME ConnInv, [ConnNext]_connVars PROVE ConnInv'
      OBVIOUS
    <2>1. CASE UNCHANGED connVars
      BY <2>1 DEF connVars, ConnInv, ConnTyped, PathIsNewest, SinceIsPast, ConnIsSo, At,
                  StoredIsThere
    <2>2. CASE Remove \/ Replace \/ Newer
      BY <2>2, HumanEdits
    <2>3. ASSUME NEW p \in Processes,
                 \/ \E call \in {"read", "append", "create"} :
                       CallKeeps(p, call) \/ CallOpens(p, call)
                 \/ CheckLeftovers(p) \/ MakeFile(p)
                 \/ LookBefore(p) \/ Connect(p) \/ Setup(p) \/ LookAfter(p)
                 \/ Transact(p) \/ Fail(p)
          PROVE  ConnInv'
      BY <2>3, CallBegins, Makes, OpensIt, SetsUp, LooksAgain, Transacts, Fails DEF Calls
    <2> QED BY <2>1, <2>2, <2>3 DEF ConnNext
  <1> QED BY <1>1, ConnInitially, PTL DEF ConnSpec

(* The path, the files and the processes are what they should be.          *)
THEOREM ConnectionsTyped == ConnSpec => []ConnTypeOK
  <1>1. ConnInv => ConnTypeOK
    BY DEF ConnInv, ConnTyped, PathIsNewest, ConnTypeOK, NoFile
  <1> QED BY <1>1, ConnectedToThePath, PTL

(***************************************************************************)
(* A write that returned is in the store at the path, as long as no human  *)
(* has touched the path since it began.                                    *)
(***************************************************************************)
THEOREM WritesAreThere == ConnSpec => []StoredIsThere
  <1>1. ConnInv => StoredIsThere
    BY DEF ConnInv
  <1> QED BY <1>1, ConnectedToThePath, PTL

(***************************************************************************)
(* No store is made with what a removed one left beside the path, unless a *)
(* human touched the path since the call that makes it began.              *)
(***************************************************************************)
THEOREM NothingLeftBeside == ConnSpec => MadeWithNothingBeside
  <1>1. ConnInv /\ [ConnNext]_connVars =>
          [\A p \in Processes :
              path = NoFile /\ path' # NoFile /\ proc[p].since = edits /\ At(p, "make")
                  /\ proc'[p] # proc[p] => beside = NoFile]_connVars
    BY DEF ConnInv, ConnIsSo
  <1> QED BY <1>1, ConnectedToThePath, PTL DEF ConnSpec, MadeWithNothingBeside

-----------------------------------------------------------------------------
(***************************************************************************)
(* A run of many writes ends only what is stale, for any cases, any number *)
(* of runs at once, and any age: what it writes is as it read it, since    *)
(* the revision is, and so is as old as it was then.                       *)
(***************************************************************************)

CaseRows ==
    [state : States, revision : Nat, at : Nat, picked : Int,
     by : Jobs \cup {"others"}]
Items == [key : Cases, revision : Nat]
PassRows == [on : BOOLEAN, job : Jobs, now : Nat, left : SUBSET Items]

SweepTyped ==
    /\ clock \in Nat /\ latest \in Nat
    /\ cases \in [Cases -> CaseRows]
    /\ pass \in [Passes -> PassRows]

(* The clock was never later than latest, and no run read it later. *)
LatestIsLatest == clock <= latest /\ \A p \in Passes : pass[p].now <= latest

(* An item a run has yet to write was read at a revision the case has had, *)
(* and a case that still has it, and is there, is as the run took it.      *)
AsRead(p, item) ==
    /\ item.revision <= cases[item.key].revision
    /\ (item.revision = cases[item.key].revision /\ cases[item.key].state # "removed")
          => Takes(pass[p].job, item.key, pass[p].now)

ReadsHold == \A p \in Passes : \A item \in pass[p].left : AsRead(p, item)

SweepInv == SweepTyped /\ LatestIsLatest /\ ReadsHold

-----------------------------------------------------------------------------
(* A moved case has its next revision and keeps its kind.                  *)
LEMMA MovedCase ==
    ASSUME clock \in Nat, NEW c \in CaseRows, NEW to \in States, NEW who \in Jobs \cup {"others"}
    PROVE  /\ MovedTo(c, to, who) \in CaseRows
           /\ MovedTo(c, to, who).revision = c.revision + 1
           /\ MovedTo(c, to, who).by = who
  <1>1. Picked(c, to) \in Int
    BY DEF Picked, CaseRows, NeverPicked
  <1> QED BY <1>1 DEF MovedTo, CaseRows

(* A case that moves on is no more at a revision a run read it at.         *)
LEMMA MovesPastReads ==
    ASSUME SweepInv, NEW k \in Cases,
           NEW c \in CaseRows, c.revision = cases[k].revision + 1,
           cases' = [cases EXCEPT ![k] = c],
           NEW p \in Passes, NEW item \in pass[p].left,
           pass'[p].job = pass[p].job, pass'[p].now = pass[p].now
    PROVE  AsRead(p, item)'
  <1>1. item \in Items /\ pass[p] \in PassRows /\ cases[item.key] \in CaseRows /\ cases[k] \in CaseRows
    BY DEF SweepInv, SweepTyped, PassRows, Items
  <1>2. AsRead(p, item)
    BY DEF SweepInv, ReadsHold
  <1>3. CASE item.key = k
    <2>1. cases'[item.key] = c
      BY <1>1, <1>3 DEF Items, SweepInv, SweepTyped
    <2>2. item.revision <= cases[k].revision /\ item.revision \in Nat /\ cases[k].revision \in Nat
      BY <1>1, <1>2, <1>3 DEF AsRead, Items, CaseRows
    <2> QED BY <2>1, <2>2 DEF AsRead
  <1>4. CASE item.key # k
    <2>1. cases'[item.key] = cases[item.key]
      BY <1>1, <1>4 DEF Items, SweepInv, SweepTyped
    <2> QED BY <1>2, <2>1, Zenon DEF AsRead, Takes, StaleBriefing, Elapsed
  <1> QED BY <1>3, <1>4

(* A case a run reads is of one of its cases, as it is. *)
LEMMA ReadAsItIs ==
    ASSUME SweepTyped, NEW p \in Passes, NEW job \in Jobs, StartPass(p, job)
    PROVE  /\ pass' \in [Passes -> PassRows]
           /\ pass'[p].now = clock
           /\ \A item \in pass'[p].left : AsRead(p, item)'
           /\ \A q \in Passes : q # p => pass'[q] = pass[q]
  <1> DEFINE read == {[key |-> k, revision |-> cases[k].revision] :
                        k \in {k \in Cases : Takes(job, k, clock)}}
  <1>1. pass' = [pass EXCEPT ![p] = [on |-> TRUE, job |-> job, now |-> clock, left |-> read]]
    BY DEF StartPass
  <1>2. read \in SUBSET Items
    BY DEF SweepTyped, CaseRows, Items
  <1>3. pass'[p] = [on |-> TRUE, job |-> job, now |-> clock, left |-> read]
    BY <1>1 DEF SweepTyped
  <1>4. pass'[p] \in PassRows
    BY <1>2, <1>3 DEF SweepTyped, PassRows
  <1>5. pass' \in [Passes -> PassRows] /\ \A q \in Passes : q # p => pass'[q] = pass[q]
    BY <1>1, <1>3, <1>4 DEF SweepTyped
  <1>6. ASSUME NEW item \in read PROVE AsRead(p, item)'
    <2>1. PICK k \in Cases : Takes(job, k, clock) /\ item = [key |-> k, revision |-> cases[k].revision]
      OBVIOUS
    <2>2. cases' = cases /\ clock' = clock /\ cases[k].revision \in Nat
      BY DEF StartPass, SweepTyped, CaseRows
    <2>3. item.key = k /\ item.revision = cases[k].revision
      BY <2>1
    <2>4. pass'[p].job = job /\ pass'[p].now = clock
      BY <1>3
    <2>5. Takes(job, k, clock)'
      BY <2>1, <2>2, Zenon DEF Takes, StaleBriefing, Elapsed
    <2>6. item.revision <= cases'[item.key].revision
      BY <2>2, <2>3
    <2>7. Takes(pass[p].job, item.key, pass[p].now)'
      BY <2>2, <2>3, <2>4, <2>5, Zenon DEF Takes, StaleBriefing, Elapsed
    <2> QED BY <2>6, <2>7, Zenon DEF AsRead
  <1> QED BY <1>3, <1>5, <1>6

(* A case removed is no more as any run read it.                           *)
LEMMA RemovedIsNotRead ==
    ASSUME SweepInv, NEW k \in Cases, NEW job \in Jobs,
           cases' = [cases EXCEPT ![k].state = "removed", ![k].by = job]
    PROVE  /\ cases' \in [Cases -> CaseRows]
           /\ \A p \in Passes : \A item \in pass[p].left :
                pass'[p].job = pass[p].job /\ pass'[p].now = pass[p].now => AsRead(p, item)'
  <1>1. cases[k] \in CaseRows /\ cases \in [Cases -> CaseRows]
    BY DEF SweepInv, SweepTyped
  <1> DEFINE c == [cases[k] EXCEPT !.state = "removed", !.by = job]
  <1>2. cases' = [cases EXCEPT ![k] = c]
    BY <1>1
  <1>3. c \in CaseRows /\ c.state = "removed" /\ c.revision = cases[k].revision
    BY <1>1 DEF CaseRows, States
  <1> HIDE DEF c
  <1>4. cases' \in [Cases -> CaseRows]
    BY <1>1, <1>2, <1>3
  <1>5. ASSUME NEW p \in Passes, NEW item \in pass[p].left,
               pass'[p].job = pass[p].job, pass'[p].now = pass[p].now
        PROVE  AsRead(p, item)'
    <2>1. item \in Items /\ AsRead(p, item)
      BY DEF SweepInv, SweepTyped, PassRows, ReadsHold
    <2>2. CASE item.key = k
      BY <1>1, <1>2, <1>3, <2>1, <2>2 DEF AsRead
    <2>3. CASE item.key # k
      <3>1. cases'[item.key] = cases[item.key]
        BY <1>1, <1>2, <2>1, <2>3 DEF Items
      <3> QED BY <1>5, <2>1, <3>1, Zenon DEF AsRead, Takes, StaleBriefing, Elapsed
    <2> QED BY <2>2, <2>3
  <1> QED BY <1>4, <1>5

(* A run that goes on has one item fewer, and is otherwise as it was. *)
LEMMA GoesOnWithTheRest ==
    ASSUME SweepTyped, NEW p \in Passes, NEW item \in pass[p].left, GoesOn(p, item)
    PROVE  /\ pass' \in [Passes -> PassRows]
           /\ \A q \in Passes : /\ pass'[q].job = pass[q].job /\ pass'[q].now = pass[q].now
                               /\ pass'[q].left \subseteq pass[q].left
  <1> DEFINE rest == [on |-> pass[p].left # {item}, job |-> pass[p].job, now |-> pass[p].now,
                      left |-> pass[p].left \ {item}]
  <1>1. pass[p] \in PassRows
    BY DEF SweepTyped
  <1>2. pass' = [pass EXCEPT ![p] = rest]
    BY DEF GoesOn, SweepTyped
  <1>3. rest \in PassRows
    BY <1>1 DEF PassRows
  <1> QED BY <1>2, <1>3 DEF SweepTyped

(* What each run took holds on while the cases stay and its items do. *)
LEMMA ReadsStay ==
    ASSUME SweepInv, cases' = cases,
           \A q \in Passes : /\ pass'[q].job = pass[q].job /\ pass'[q].now = pass[q].now
                            /\ pass'[q].left \subseteq pass[q].left
    PROVE  ReadsHold'
  <1> SUFFICES ASSUME NEW q \in Passes, NEW item \in pass'[q].left PROVE AsRead(q, item)'
    BY DEF ReadsHold
  <1>1. AsRead(q, item)
    BY DEF SweepInv, ReadsHold
  <1> QED BY <1>1, Zenon DEF AsRead, Takes, StaleBriefing, Elapsed

-----------------------------------------------------------------------------
(* The inductive invariant holds throughout.                               *)
THEOREM SweepInvariant == SweepSpec => []SweepInv
  <1>1. SweepInit => SweepInv
    <2> SUFFICES ASSUME SweepInit PROVE SweepInv OBVIOUS
    <2>1. SweepTyped
      BY DEF SweepInit, SweepTyped, CaseRows, PassRows, States, Jobs, NeverPicked
    <2>2. LatestIsLatest /\ ReadsHold
      BY DEF SweepInit, LatestIsLatest, ReadsHold
    <2> QED BY <2>1, <2>2 DEF SweepInv
  <1>2. SweepInv /\ [SweepNext]_sweepVars => SweepInv'
    <2> SUFFICES ASSUME SweepInv, [SweepNext]_sweepVars PROVE SweepInv' OBVIOUS
    <2> USE DEF SweepInv
    <2>0. clock \in Nat /\ latest \in Nat /\ clock <= latest
          /\ \A q \in Passes : pass[q].now \in Nat /\ pass[q].now <= latest
      BY DEF SweepTyped, LatestIsLatest, PassRows
    <2>1. ASSUME NEW k \in Cases, OthersWrite(k) PROVE SweepInv'
      <3>1. PICK to \in States : cases' = [cases EXCEPT ![k] = MovedTo(cases[k], to, "others")]
        <4>1. PICK move \in Moves : cases' = [cases EXCEPT ![k] = MovedTo(cases[k], move[2], "others")]
          BY <2>1 DEF OthersWrite
        <4>2. move[2] \in States
          BY <4>1 DEF Moves, States
        <4> QED BY <4>1, <4>2
      <3>2. cases[k] \in CaseRows /\ pass' = pass /\ clock' = clock /\ latest' = latest
        BY <2>1 DEF OthersWrite, SweepTyped
      <3> DEFINE c == MovedTo(cases[k], to, "others")
      <3>3. c \in CaseRows /\ c.revision = cases[k].revision + 1
        BY <2>0, <3>2, MovedCase
      <3> HIDE DEF c
      <3>4. cases' = [cases EXCEPT ![k] = c]
        BY <3>1 DEF c
      <3>5. ReadsHold'
        BY <3>2, <3>3, <3>4, MovesPastReads DEF ReadsHold
      <3> QED BY <3>2, <3>3, <3>4, <3>5 DEF SweepTyped, LatestIsLatest
    <2>2. CASE ClockTick \/ ClockSetBack
      <3>1. cases' = cases /\ pass' = pass
        BY <2>2 DEF ClockTick, ClockSetBack
      <3>2. clock' \in Nat /\ latest' \in Nat /\ clock' <= latest' /\ latest <= latest'
        BY <2>0, <2>2 DEF ClockTick, ClockSetBack
      <3>3. ReadsHold'
        BY <3>1, ReadsStay
      <3> QED BY <2>0, <3>1, <3>2, <3>3 DEF SweepTyped, LatestIsLatest
    <2>3. ASSUME NEW p \in Passes, NEW job \in Jobs, StartPass(p, job) PROVE SweepInv'
      <3>1. clock' = clock /\ latest' = latest /\ cases' = cases
        BY <2>3 DEF StartPass
      <3>2. /\ pass' \in [Passes -> PassRows] /\ pass'[p].now = clock
            /\ \A item \in pass'[p].left : AsRead(p, item)'
            /\ \A q \in Passes : q # p => pass'[q] = pass[q]
        BY <2>3, ReadAsItIs
      <3>3. ASSUME NEW q \in Passes, NEW item \in pass'[q].left PROVE AsRead(q, item)'
        <4>1. CASE q = p
          BY <3>2, <3>3, <4>1
        <4>2. CASE q # p
          <5>1. pass'[q] = pass[q] /\ AsRead(q, item)
            BY <3>2, <3>3, <4>2 DEF ReadsHold
          <5> QED BY <3>1, <5>1, Zenon DEF AsRead, Takes, StaleBriefing, Elapsed
        <4> QED BY <4>1, <4>2
      <3>4. \A q \in Passes : pass'[q].now <= latest
        BY <2>0, <3>2
      <3> QED BY <3>1, <3>2, <3>3, <3>4 DEF SweepTyped, LatestIsLatest, ReadsHold
    <2>4. ASSUME NEW p \in Passes, NEW item \in pass[p].left, WriteNext(p, item) PROVE SweepInv'
      <3> DEFINE k == item.key
                 job == pass[p].job
      <3>1. item \in Items /\ k \in Cases /\ job \in Jobs /\ cases[k] \in CaseRows
        BY DEF SweepTyped, PassRows, Items
      <3>2. GoesOn(p, item) /\ clock' = clock /\ latest' = latest
        BY <2>4 DEF WriteNext
      <3>3. /\ pass' \in [Passes -> PassRows]
            /\ \A q \in Passes : /\ pass'[q].job = pass[q].job /\ pass'[q].now = pass[q].now
                                /\ pass'[q].left \subseteq pass[q].left
        BY <3>2, GoesOnWithTheRest
      <3>4. cases' \in [Cases -> CaseRows] /\ ReadsHold'
        <4>1. CASE \E to \in {"closed", "withdrawn"} :
                     cases' = [cases EXCEPT ![k] = MovedTo(cases[k], to, job)]
          <5>1. PICK to \in {"closed", "withdrawn"} :
                       cases' = [cases EXCEPT ![k] = MovedTo(cases[k], to, job)]
            BY <4>1
          <5> DEFINE c == MovedTo(cases[k], to, job)
          <5>2. c \in CaseRows /\ c.revision = cases[k].revision + 1
            <6>1. to \in States /\ job \in Jobs \cup {"others"} /\ clock \in Nat
              BY <2>0, <3>1 DEF States
            <6> HIDE DEF job
            <6> QED BY <3>1, <6>1, MovedCase
          <5>3. cases' = [cases EXCEPT ![k] = c]
            BY <5>1
          <5> HIDE DEF c, k, job
          <5>4. ReadsHold'
            BY <3>1, <3>3, <5>2, <5>3, MovesPastReads DEF ReadsHold
          <5> QED BY <3>1, <5>2, <5>3, <5>4 DEF SweepTyped
        <4>2. CASE cases' = [cases EXCEPT ![k].state = "removed", ![k].by = job]
          <5> HIDE DEF k, job
          <5> QED BY <3>1, <3>3, <4>2, RemovedIsNotRead DEF ReadsHold
        <4> QED BY <2>4, <4>1, <4>2 DEF WriteNext
      <3> QED BY <2>0, <3>2, <3>3, <3>4 DEF SweepTyped, LatestIsLatest
    <2>5. ASSUME NEW p \in Passes, NEW item \in pass[p].left, LeaveNext(p, item) PROVE SweepInv'
      <3>1. GoesOn(p, item) /\ clock' = clock /\ latest' = latest /\ cases' = cases
        BY <2>5 DEF LeaveNext
      <3>2. /\ pass' \in [Passes -> PassRows]
            /\ \A q \in Passes : /\ pass'[q].job = pass[q].job /\ pass'[q].now = pass[q].now
                                /\ pass'[q].left \subseteq pass[q].left
        BY <3>1, GoesOnWithTheRest
      <3>3. ReadsHold'
        BY <3>1, <3>2, ReadsStay
      <3> QED BY <2>0, <3>1, <3>2, <3>3 DEF SweepTyped, LatestIsLatest
    <2>6. ASSUME NEW p \in Passes, StopPass(p) PROVE SweepInv'
      <3>1. clock' = clock /\ latest' = latest /\ cases' = cases
        BY <2>6 DEF StopPass
      <3> DEFINE stopped == [on |-> FALSE, job |-> pass[p].job, now |-> pass[p].now, left |-> {}]
      <3>2. pass' = [pass EXCEPT ![p] = stopped] /\ stopped \in PassRows
        <4>1. pass[p] \in PassRows
          BY DEF SweepTyped
        <4> QED BY <2>6, <4>1 DEF StopPass, SweepTyped, PassRows
      <3>3. /\ pass' \in [Passes -> PassRows]
            /\ \A q \in Passes : /\ pass'[q].job = pass[q].job /\ pass'[q].now = pass[q].now
                                /\ pass'[q].left \subseteq pass[q].left
        BY <3>2 DEF SweepTyped
      <3>4. ReadsHold'
        BY <3>1, <3>3, ReadsStay
      <3> QED BY <2>0, <3>1, <3>3, <3>4 DEF SweepTyped, LatestIsLatest
    <2>7. CASE UNCHANGED sweepVars
      <3>1. clock' = clock /\ latest' = latest /\ cases' = cases /\ pass' = pass
        BY <2>7 DEF sweepVars
      <3>2. ReadsHold'
        BY <3>1, ReadsStay
      <3> QED BY <3>1, <3>2 DEF SweepTyped, LatestIsLatest
    <2> QED BY <2>1, <2>2, <2>3, <2>4, <2>5, <2>6, <2>7 DEF SweepNext
  <1> QED BY <1>1, <1>2, PTL DEF SweepSpec

-----------------------------------------------------------------------------
(* A case written by a run was as the run took it when it was written.     *)
LEMMA WrittenWasTaken ==
    ASSUME SweepInv, NEW p \in Passes, NEW item \in pass[p].left, WriteNext(p, item),
           NEW k \in Cases, NEW job \in Jobs, WrittenBy(k, job)
    PROVE  /\ Takes(job, k, pass[p].now)
           /\ pass[p].now <= latest /\ pass[p].now \in Int /\ latest \in Int
           /\ cases[k] \in CaseRows
  <1>1. /\ pass[p] \in PassRows /\ item \in Items
        /\ cases[k] \in CaseRows /\ cases[item.key] \in CaseRows
        /\ pass[p].now \in Nat /\ pass[p].now <= latest /\ latest \in Nat
    BY DEF SweepInv, SweepTyped, LatestIsLatest, PassRows, Items
  <1>2. PICK c : cases' = [cases EXCEPT ![item.key] = c] /\ c.by = pass[p].job
    <2>1. CASE \E to \in {"closed", "withdrawn"} :
                 cases' = [cases EXCEPT ![item.key] = MovedTo(cases[item.key], to, pass[p].job)]
      <3>1. PICK to \in {"closed", "withdrawn"} :
               cases' = [cases EXCEPT ![item.key] = MovedTo(cases[item.key], to, pass[p].job)]
        BY <2>1
      <3>2. MovedTo(cases[item.key], to, pass[p].job).by = pass[p].job
        BY DEF MovedTo
      <3> QED BY <3>1, <3>2
    <2>2. CASE cases' = [cases EXCEPT ![item.key].state = "removed", ![item.key].by = pass[p].job]
      <3>1. cases' = [cases EXCEPT ![item.key] =
                        [cases[item.key] EXCEPT !.state = "removed", !.by = pass[p].job]]
        BY <1>1, <2>2 DEF SweepInv, SweepTyped
      <3>2. [cases[item.key] EXCEPT !.state = "removed", !.by = pass[p].job].by = pass[p].job
        BY <1>1 DEF CaseRows
      <3> QED BY <3>1, <3>2
    <2> QED BY <2>1, <2>2 DEF WriteNext
  <1>3. k = item.key /\ job = pass[p].job
    BY <1>1, <1>2 DEF WrittenBy, SweepInv, SweepTyped, Items
  <1>4. AsRead(p, item) /\ item.revision = cases[k].revision /\ cases[k].state # "removed"
    BY <1>3 DEF SweepInv, ReadsHold, WriteNext, WrittenAt
  <1>5. Takes(job, k, pass[p].now)
    BY <1>3, <1>4, Zenon DEF AsRead
  <1> QED BY <1>1, <1>5

(***************************************************************************)
(* A run ends no case taken up again since it read the store: what it      *)
(* closes, withdraws or prunes is still what it took, and as old.          *)
(***************************************************************************)
THEOREM RunsEndOnlyTheStale == SweepSpec => EndsOnlyTheStale
  <1> DEFINE Stale(k) ==
         /\ WrittenBy(k, "expire") =>
              /\ k \in Briefings /\ cases[k].state = "pickedup"
              /\ latest - cases[k].picked >= After
         /\ WrittenBy(k, "sweep") =>
              cases[k].state = "open" /\ latest - cases[k].at >= After
         /\ WrittenBy(k, "sweep in flight") =>
              cases[k].state # "parked" /\ latest - cases[k].at >= After
         /\ WrittenBy(k, "prune") =>
              cases[k].state \in {"closed", "withdrawn"} /\ latest - cases[k].at >= After
  <1>1. SweepInv /\ [SweepNext]_sweepVars => [\A k \in Cases : Stale(k)]_sweepVars
    <2> SUFFICES ASSUME SweepInv, SweepNext, NEW k \in Cases PROVE Stale(k)
      OBVIOUS
    <2>1. CASE \E p \in Passes : \E item \in pass[p].left : WriteNext(p, item)
      <3>1. PICK p \in Passes : \E item \in pass[p].left : WriteNext(p, item)
        BY <2>1
      <3>2. PICK item \in pass[p].left : WriteNext(p, item)
        BY <3>1
      <3>3. ASSUME NEW job \in Jobs, WrittenBy(k, job)
            PROVE  /\ Takes(job, k, pass[p].now)
                   /\ pass[p].now <= latest /\ pass[p].now \in Int /\ latest \in Int
                   /\ cases[k] \in CaseRows
        BY <3>2, <3>3, WrittenWasTaken
      <3>4. After \in Int
        BY SweepAssumption
      <3>5. ASSUME WrittenBy(k, "expire")
            PROVE  /\ k \in Briefings /\ cases[k].state = "pickedup"
                   /\ latest - cases[k].picked >= After
        <4>1. /\ Takes("expire", k, pass[p].now) /\ cases[k] \in CaseRows
              /\ pass[p].now <= latest /\ pass[p].now \in Int /\ latest \in Int
          BY <3>3, <3>5, Zenon DEF Jobs
        <4> QED BY <3>4, <4>1 DEF Takes, StaleBriefing, Elapsed, CaseRows
      <3>6. ASSUME WrittenBy(k, "sweep")
            PROVE  cases[k].state = "open" /\ latest - cases[k].at >= After
        <4>1. /\ Takes("sweep", k, pass[p].now) /\ cases[k] \in CaseRows
              /\ pass[p].now <= latest /\ pass[p].now \in Int /\ latest \in Int
          BY <3>3, <3>6, Zenon DEF Jobs
        <4> QED BY <3>4, <4>1 DEF Takes, Elapsed, CaseRows
      <3>7. ASSUME WrittenBy(k, "sweep in flight")
            PROVE  cases[k].state # "parked" /\ latest - cases[k].at >= After
        <4>1. /\ Takes("sweep in flight", k, pass[p].now) /\ cases[k] \in CaseRows
              /\ pass[p].now <= latest /\ pass[p].now \in Int /\ latest \in Int
          BY <3>3, <3>7, Zenon DEF Jobs
        <4> QED BY <3>4, <4>1 DEF Takes, Elapsed, CaseRows
      <3>8. ASSUME WrittenBy(k, "prune")
            PROVE  cases[k].state \in {"closed", "withdrawn"} /\ latest - cases[k].at >= After
        <4>1. /\ Takes("prune", k, pass[p].now) /\ cases[k] \in CaseRows
              /\ pass[p].now <= latest /\ pass[p].now \in Int /\ latest \in Int
          BY <3>3, <3>8, Zenon DEF Jobs
        <4> QED BY <3>4, <4>1 DEF Takes, Elapsed, CaseRows
      <3> QED BY <3>5, <3>6, <3>7, <3>8
    <2>2. CASE cases' = cases
      BY <2>2 DEF WrittenBy
    <2>3. ASSUME NEW m \in Cases, OthersWrite(m) PROVE Stale(k)
      <3>1. PICK to : cases' = [cases EXCEPT ![m] = MovedTo(cases[m], to, "others")]
        BY <2>3 DEF OthersWrite
      <3>2. cases'[k] = cases[k] \/ cases'[k].by = "others"
        BY <3>1 DEF MovedTo, SweepInv, SweepTyped
      <3> QED BY <3>2 DEF WrittenBy
    <2>4. CASE ClockTick \/ ClockSetBack
      BY <2>2, <2>4 DEF ClockTick, ClockSetBack
    <2>5. CASE \E p \in Passes :
                 \/ \E job \in Jobs : StartPass(p, job)
                 \/ \E item \in pass[p].left : LeaveNext(p, item)
                 \/ StopPass(p)
      <3>1. cases' = cases
        BY <2>5 DEF StartPass, LeaveNext, StopPass
      <3> QED BY <2>2, <3>1
    <2> QED BY <2>1, <2>3, <2>4, <2>5 DEF SweepNext
  <1>2. SweepSpec => [][\A k \in Cases : Stale(k)]_sweepVars
    BY <1>1, SweepInvariant, PTL DEF SweepSpec
  <1> QED BY <1>2 DEF EndsOnlyTheStale

-----------------------------------------------------------------------------
(***************************************************************************)
(* Of Listening, for any number of workers and waits, and however long     *)
(* they run: since when the inbox says that a worker listens, and what it  *)
(* says that it does.                                                      *)
(***************************************************************************)

Rows == [since : Int, heard : Nat \cup {Never}]

WaitStates ==
  [at : {"new", "rest", "beat", "over"}, workers : SUBSET Workers, line : Lines \cup {NoLine},
   given : SUBSET Workers, left : SUBSET Workers, due : Nat]

ListeningTyped ==
  /\ now \in 0 .. MaxTime
  /\ rows \in [WaitIds \X Workers -> Rows]
  /\ \A id \in WaitIds \X Workers :
        rows[id].since \in Never .. now /\ rows[id].heard \in Never .. now
  /\ wait \in [WaitIds -> WaitStates]
  /\ doing \in [Workers -> Lines \cup {NoLine}]
  /\ said \in [Workers -> Lines \cup {NoLine}]
  /\ unbroken \in [Workers -> Never .. now]

(* A worker's rows heard of in time, of a table at a time. *)
HeardRows(table, w, moment) == {row \in RowsOf(table, w) : HeardInTime(row, moment)}

(***************************************************************************)
(* All the rows of a worker heard of in time say since when it is listed;  *)
(* one that is listed does what it said last, and of one that is not,      *)
(* nothing is kept.                                                        *)
(***************************************************************************)
WorkerIsSo(w) ==
  /\ \A row \in HeardRows(rows, w, now) : row.since = unbroken[w] /\ unbroken[w] # Never
  /\ ListedAt(rows, w, now) => doing[w] = said[w]
  /\ ~ListedAt(rows, w, now) => unbroken[w] = Never /\ said[w] = NoLine

ListeningInv == ListeningTyped /\ \A w \in Workers : WorkerIsSo(w)

-----------------------------------------------------------------------------
(* The rows *)

LEMMA MinOfOne ==
  ASSUME NEW n \in Int
  PROVE  Min({n}) = n
BY DEF Min

(* The rows heard of in time, one by one. *)
LEMMA HeardRowsAre ==
  ASSUME NEW table \in [WaitIds \X Workers -> Rows], NEW w \in Workers, NEW moment
  PROVE  /\ HeardRows(table, w, moment)
              = {row \in {table[<<i, w>>] : i \in WaitIds} : HeardInTime(row, moment)}
         /\ ListedAt(table, w, moment) <=> HeardRows(table, w, moment) # {}
         /\ ListedAt(table, w, moment) <=> \E i \in WaitIds : HeardInTime(table[<<i, w>>], moment)
<1>1. ~HeardInTime(NoRow, moment)
  BY DEF HeardInTime, NoRow
<1>. QED
  BY <1>1 DEF HeardRows, RowsOf, ListedAt

(* Those kept are those heard of in time. *)
LEMMA KeptIs ==
  ASSUME ListeningTyped, NEW w \in Workers
  PROVE  /\ Kept \in [WaitIds \X Workers -> Rows]
         /\ RowsOf(Kept, w) = HeardRows(rows, w, now)
         /\ \A i \in WaitIds :
              /\ HeardInTime(Kept[<<i, w>>], now) <=> HeardInTime(rows[<<i, w>>], now)
              /\ HeardInTime(Kept[<<i, w>>], now) => Kept[<<i, w>>] = rows[<<i, w>>]
<1>1. NoRow \in Rows /\ ~HeardInTime(NoRow, now)
  BY DEF NoRow, Rows, Never, HeardInTime
<1>2. Kept \in [WaitIds \X Workers -> Rows]
  BY <1>1 DEF Kept, ListeningTyped
<1>3. \A i \in WaitIds : Kept[<<i, w>>] = (IF HeardInTime(rows[<<i, w>>], now) THEN rows[<<i, w>>] ELSE NoRow)
  BY DEF Kept
<1>4. RowsOf(Kept, w) = {row \in {rows[<<i, w>>] : i \in WaitIds} : HeardInTime(row, now)}
  BY <1>1, <1>3 DEF RowsOf
<1>5. RowsOf(Kept, w) = HeardRows(rows, w, now)
  BY <1>4, HeardRowsAre DEF ListeningTyped
<1>. QED
  BY <1>1, <1>2, <1>3, <1>5

(* Of rows that are so, the least since is that of each. *)
LEMMA SinceIs ==
  ASSUME ListeningInv, NEW w \in Workers, HeardRows(rows, w, now) # {}
  PROVE  /\ {row.since : row \in HeardRows(rows, w, now)} = {unbroken[w]}
         /\ Min({row.since : row \in HeardRows(rows, w, now)}) = unbroken[w]
         /\ unbroken[w] \in 0 .. now
<1>1. \A row \in HeardRows(rows, w, now) : row.since = unbroken[w] /\ unbroken[w] # Never
  BY DEF ListeningInv, WorkerIsSo
<1>2. unbroken[w] \in 0 .. now
  BY <1>1 DEF ListeningInv, ListeningTyped, Never
<1>3. {row.since : row \in HeardRows(rows, w, now)} = {unbroken[w]}
  BY <1>1
<1>4. Min({unbroken[w]}) = unbroken[w]
  BY <1>2, MinOfOne
<1>. QED
  BY <1>2, <1>3, <1>4

-----------------------------------------------------------------------------
(* Steps *)

(* What moves neither the rows, nor the time, nor what was said. *)
LEMMA NothingSaid ==
  ASSUME ListeningInv, UNCHANGED <<now, rows, doing, said, unbroken>>,
         wait' \in [WaitIds -> WaitStates]
  PROVE  ListeningInv'
<1>1. ListeningTyped'
  BY DEF ListeningInv, ListeningTyped
<1>2. \A w \in Workers : WorkerIsSo(w)'
  BY DEF ListeningInv, WorkerIsSo, HeardRows, RowsOf, ListedAt, HeardInTime
<1>. QED
  BY <1>1, <1>2 DEF ListeningInv

LEMMA Records ==
  ASSUME ListeningInv, NEW i \in WaitIds, NEW w \in Workers, Listen(i, w)
  PROVE  ListeningInv'
<1>. DEFINE others == RowsOf(Kept, w)
            least == Min({row.since : row \in others})
            since == IF others = {} THEN now ELSE least
            new == [since |-> since, heard |-> now]
            line == IF Gives(i, w) THEN wait[i].line ELSE LinesKept[w]
            first == IF w \notin wait[i].given /\ wait[i].line # NoLine
                     THEN wait[i].line ELSE said[w]
            began == IF unbroken[w] = Never THEN now ELSE unbroken[w]
<1>1. /\ rows' = [Kept EXCEPT ![<<i, w>>] = new] /\ doing' = [LinesKept EXCEPT ![w] = line]
      /\ said' = [said EXCEPT ![w] = first] /\ unbroken' = [unbroken EXCEPT ![w] = began]
      /\ UNCHANGED now
  BY DEF Listen
<1>2. /\ ListeningTyped /\ now \in Nat /\ wait[i] \in WaitStates
      /\ wait[i].line \in Lines \cup {NoLine}
  <2>1. wait[i] \in WaitStates
    BY DEF ListeningInv, ListeningTyped
  <2>. QED
    BY <2>1 DEF ListeningInv, ListeningTyped, WaitStates
<1>3. others = HeardRows(rows, w, now)
  BY <1>2, KeptIs
<1>4. since = began /\ began \in 0 .. now
  <2>1. CASE others = {}
    <3>1. ~ListedAt(rows, w, now)
      BY <1>2, <1>3, <2>1, HeardRowsAre DEF ListeningTyped
    <3>2. unbroken[w] = Never
      BY <3>1 DEF ListeningInv, WorkerIsSo
    <3>. QED
      BY <1>2, <2>1, <3>2
  <2>2. CASE others # {}
    <3>1. least = unbroken[w] /\ unbroken[w] \in 0 .. now
      BY <1>3, <2>2, SinceIs
    <3>. HIDE DEF others
    <3>2. unbroken[w] # Never
      BY <3>1 DEF Never
    <3>. QED
      BY <2>2, <3>1, <3>2
  <2>. QED
    BY <2>1, <2>2
<1>. HIDE DEF since, began
<1>5. new \in Rows /\ HeardInTime(new, now) /\ new.since = began /\ new.heard = now
  BY <1>2, <1>4 DEF Rows, HeardInTime, Lapse, Heartbeat, Never
<1>. HIDE DEF new
<1>6. /\ rows' \in [WaitIds \X Workers -> Rows]
      /\ \A j \in WaitIds, u \in Workers :
           rows'[<<j, u>>] = IF j = i /\ u = w THEN new ELSE Kept[<<j, u>>]
  <2>1. Kept \in [WaitIds \X Workers -> Rows]
    BY <1>2, KeptIs
  <2>. QED
    BY <1>1, <1>5, <2>1
<1>7. LinesKept \in [Workers -> Lines \cup {NoLine}]
  BY <1>2 DEF LinesKept, ListeningTyped
<1>8. line \in Lines \cup {NoLine} /\ first \in Lines \cup {NoLine}
  BY <1>2, <1>7 DEF ListeningTyped
<1>9. line = first
  <2>1. CASE Gives(i, w)
    BY <2>1 DEF Gives
  <2>2. CASE ~Gives(i, w)
    <3>1. line = LinesKept[w] /\ first = said[w]
      BY <2>2 DEF Gives
    <3>2. LinesKept[w] = said[w]
      <4>1. ListedAt(rows, w, now) <=> others # {}
        BY <1>2, <1>3, HeardRowsAre DEF ListeningTyped
      <4>2. LinesKept[w] = (IF others = {} THEN NoLine ELSE doing[w])
        BY DEF LinesKept
      <4>. QED
        BY <4>1, <4>2 DEF ListeningInv, WorkerIsSo
    <3>. QED
      BY <3>1, <3>2
  <2>. QED
    BY <2>1, <2>2
<1>. HIDE DEF line, first, others
<1>10. /\ \A u \in Workers : doing'[u] = IF u = w THEN line ELSE LinesKept[u]
       /\ \A u \in Workers : said'[u] = IF u = w THEN first ELSE said[u]
       /\ \A u \in Workers : unbroken'[u] = IF u = w THEN began ELSE unbroken[u]
  BY <1>1, <1>2, <1>7 DEF ListeningTyped
<1>11. ListeningTyped'
  <2>1. wait' \in [WaitIds -> WaitStates]
    <3>. DEFINE moment == IF wait[i].left = {w} THEN "rest" ELSE "beat"
                due == IF wait[i].left = {w} THEN now + Heartbeat ELSE wait[i].due
                next == [wait[i] EXCEPT !.given = wait[i].given \cup {w},
                                        !.left = wait[i].left \ {w}, !.at = moment, !.due = due]
    <3>1. wait' = [wait EXCEPT ![i] = next]
      BY <1>2 DEF Listen, WaitStates, ListeningTyped
    <3>2. moment \in {"new", "rest", "beat", "over"} /\ due \in Nat
      BY <1>2 DEF WaitStates, Heartbeat
    <3>. HIDE DEF moment, due
    <3>3. next \in WaitStates
      BY <1>2, <3>2 DEF WaitStates
    <3>. HIDE DEF next
    <3>. QED
      BY <1>2, <3>1, <3>3 DEF ListeningTyped
  <2>2. \A id \in WaitIds \X Workers :
          rows'[id].since \in Never .. now' /\ rows'[id].heard \in Never .. now'
    <3>1. new.since \in Never .. now /\ new.heard \in Never .. now
      BY <1>2, <1>4, <1>5 DEF Never
    <3>2. NoRow.since \in Never .. now /\ NoRow.heard \in Never .. now
      BY <1>2 DEF NoRow, Never
    <3>3. \A id \in WaitIds \X Workers : Kept[id] = rows[id] \/ Kept[id] = NoRow
      BY DEF Kept
    <3>4. \A id \in WaitIds \X Workers : rows'[id] = new \/ rows'[id] = Kept[id]
      BY <1>1, <1>2, KeptIs
    <3>. QED
      BY <1>1, <1>2, <3>1, <3>2, <3>3, <3>4 DEF ListeningTyped
  <2>. QED
    <3>1. unbroken' \in [Workers -> Never .. now]
      BY <1>1, <1>2, <1>4 DEF ListeningTyped, Never
    <3>. QED
      BY <1>1, <1>2, <1>6, <1>7, <1>8, <2>1, <2>2, <3>1 DEF ListeningTyped
<1>12. ASSUME NEW u \in Workers PROVE WorkerIsSo(u)'
  <2>1. /\ HeardRows(rows, u, now)'
             = {row \in {rows'[<<j, u>>] : j \in WaitIds} : HeardInTime(row, now)}
        /\ ListedAt(rows, u, now)' <=> \E j \in WaitIds : HeardInTime(rows'[<<j, u>>], now)
    <3>1. /\ HeardRows(rows', u, now)
               = {row \in {rows'[<<j, u>>] : j \in WaitIds} : HeardInTime(row, now)}
          /\ ListedAt(rows', u, now) <=> \E j \in WaitIds : HeardInTime(rows'[<<j, u>>], now)
      BY <1>6, HeardRowsAre, ZenonT(30)
    <3>. QED
      BY <1>1, <3>1 DEF HeardRows, RowsOf, ListedAt, HeardInTime
  <2>2. /\ HeardRows(rows, u, now)
             = {row \in {rows[<<j, u>>] : j \in WaitIds} : HeardInTime(row, now)}
        /\ ListedAt(rows, u, now) <=> \E j \in WaitIds : HeardInTime(rows[<<j, u>>], now)
    BY <1>2, HeardRowsAre, ZenonT(30) DEF ListeningTyped
  <2>3. \A j \in WaitIds :
          /\ HeardInTime(Kept[<<j, u>>], now) <=> HeardInTime(rows[<<j, u>>], now)
          /\ HeardInTime(Kept[<<j, u>>], now) => Kept[<<j, u>>] = rows[<<j, u>>]
    BY <1>2, KeptIs
  <2>4. /\ \A row \in HeardRows(rows, u, now) : row.since = unbroken[u] /\ unbroken[u] # Never
        /\ ListedAt(rows, u, now) => doing[u] = said[u]
        /\ ~ListedAt(rows, u, now) => unbroken[u] = Never /\ said[u] = NoLine
    BY DEF ListeningInv, WorkerIsSo
  <2>5. CASE u = w
    <3>1. \A j \in WaitIds : HeardInTime(rows'[<<j, u>>], now) => rows'[<<j, u>>].since = began
      <4>. SUFFICES ASSUME NEW j \in WaitIds, HeardInTime(rows'[<<j, u>>], now), j # i
                    PROVE  rows'[<<j, u>>].since = began
        BY <1>5, <1>6, <2>5
      <4>1. rows'[<<j, u>>] = rows[<<j, u>>] /\ HeardInTime(rows[<<j, u>>], now)
        BY <1>6, <2>3
      <4>2. rows[<<j, u>>] \in HeardRows(rows, u, now)
        BY <2>2, <4>1
      <4>3. rows[<<j, u>>].since = unbroken[u] /\ unbroken[u] # Never
        BY <2>4, <4>2
      <4>. QED
        BY <2>5, <4>1, <4>3 DEF began
    <3>2. began # Never
      BY <1>4 DEF Never
    <3>3. ListedAt(rows, u, now)'
      BY <1>5, <1>6, <2>1, <2>5
    <3>4. unbroken'[u] = began /\ doing'[u] = said'[u]
      BY <1>9, <1>10, <2>5
    <3>5. \A row \in HeardRows(rows, u, now)' : row.since = began
      BY <2>1, <3>1
    <3>. QED
      BY <3>2, <3>3, <3>4, <3>5 DEF WorkerIsSo
  <2>6. CASE u # w
    <3>1. \A j \in WaitIds : rows'[<<j, u>>] = Kept[<<j, u>>]
      BY <1>6, <2>6
    <3>2. /\ \A j \in WaitIds : HeardInTime(rows'[<<j, u>>], now) <=> HeardInTime(rows[<<j, u>>], now)
          /\ \A j \in WaitIds : HeardInTime(rows'[<<j, u>>], now) => rows'[<<j, u>>] = rows[<<j, u>>]
      BY <2>3, <3>1
    <3>3. /\ HeardRows(rows, u, now)' \subseteq HeardRows(rows, u, now)
          /\ ListedAt(rows, u, now)' <=> ListedAt(rows, u, now)
      BY <2>1, <2>2, <3>2
    <3>4. said'[u] = said[u] /\ unbroken'[u] = unbroken[u] /\ doing'[u] = LinesKept[u]
      BY <1>10, <2>6
    <3>5. ListedAt(rows, u, now) => LinesKept[u] = doing[u]
      <4>1. RowsOf(Kept, u) = HeardRows(rows, u, now)
        BY <1>2, KeptIs
      <4>2. ListedAt(rows, u, now) <=> HeardRows(rows, u, now) # {}
        BY <1>2, HeardRowsAre DEF ListeningTyped
      <4>. QED
        BY <4>1, <4>2 DEF LinesKept
    <3>. QED
      BY <2>4, <3>3, <3>4, <3>5 DEF WorkerIsSo
  <2>. QED
    BY <2>5, <2>6
<1>. QED
  BY <1>11, <1>12 DEF ListeningInv

LEMMA Says ==
  ASSUME ListeningInv, NEW w \in Workers, NEW line \in Lines \cup {NoLine}, SetDoing(w, line)
  PROVE  ListeningInv'
<1>1. /\ ListedAt(rows, w, now)
      /\ doing' = [doing EXCEPT ![w] = line] /\ said' = [said EXCEPT ![w] = line]
      /\ UNCHANGED <<now, rows, wait, unbroken>>
  BY DEF SetDoing
<1>2. ListeningTyped'
  BY <1>1 DEF ListeningInv, ListeningTyped
<1>3. ASSUME NEW u \in Workers PROVE WorkerIsSo(u)'
  <2>1. /\ HeardRows(rows, u, now)' = HeardRows(rows, u, now)
        /\ ListedAt(rows, u, now)' <=> ListedAt(rows, u, now)
    BY <1>1 DEF HeardRows, RowsOf, ListedAt, HeardInTime
  <2>2. /\ u # w => doing'[u] = doing[u] /\ said'[u] = said[u]
        /\ u = w => doing'[u] = said'[u]
    BY <1>1 DEF ListeningInv, ListeningTyped
  <2>3. WorkerIsSo(u)
    BY DEF ListeningInv
  <2>. QED
    BY <1>1, <2>1, <2>2, <2>3 DEF WorkerIsSo
<1>. QED
  BY <1>2, <1>3 DEF ListeningInv

LEMMA TimeGoesBy ==
  ASSUME ListeningInv, TimePasses
  PROVE  ListeningInv'
<1>1. /\ now' = now + 1 /\ now < MaxTime /\ UNCHANGED <<rows, doing, wait>>
      /\ said' = [w \in Workers |-> IF ListedAt(rows, w, now') THEN said[w] ELSE NoLine]
      /\ unbroken' = [w \in Workers |-> IF ListedAt(rows, w, now') THEN unbroken[w] ELSE Never]
  BY DEF TimePasses
<1>2. ListeningTyped /\ now \in Nat /\ rows \in [WaitIds \X Workers -> Rows]
  BY DEF ListeningInv, ListeningTyped
<1>3. ListeningTyped'
  <2>1. now' \in 0 .. MaxTime
    BY <1>1, <1>2, ListeningAssumption DEF ListeningTyped
  <2>2. \A id \in WaitIds \X Workers :
          rows'[id].since \in Never .. now' /\ rows'[id].heard \in Never .. now'
    BY <1>1, <1>2 DEF ListeningTyped, Never
  <2>3. said' \in [Workers -> Lines \cup {NoLine}]
    BY <1>1, <1>2 DEF ListeningTyped
  <2>4. unbroken' \in [Workers -> Never .. now']
    BY <1>1, <1>2 DEF ListeningTyped, Never
  <2>. QED
    BY <1>1, <1>2, <2>1, <2>2, <2>3, <2>4 DEF ListeningTyped
<1>4. ASSUME NEW w \in Workers PROVE WorkerIsSo(w)'
  <2>1. \A row \in Rows : HeardInTime(row, now + 1) => HeardInTime(row, now)
    BY <1>2 DEF HeardInTime, Rows, Lapse, Heartbeat, Never
  <2>2. HeardRows(rows, w, now + 1) \subseteq HeardRows(rows, w, now)
    <3>1. RowsOf(rows, w) \subseteq Rows
      BY <1>2 DEF RowsOf
    <3>. QED
      BY <2>1, <3>1 DEF HeardRows
  <2>3. /\ ListedAt(rows, w, now) <=> HeardRows(rows, w, now) # {}
        /\ ListedAt(rows, w, now + 1) <=> HeardRows(rows, w, now + 1) # {}
    BY <1>2, HeardRowsAre
  <2>4. /\ HeardRows(rows, w, now)' = HeardRows(rows, w, now + 1)
        /\ ListedAt(rows, w, now)' <=> ListedAt(rows, w, now + 1)
    BY <1>1 DEF HeardRows, RowsOf, ListedAt, HeardInTime
  <2>5. /\ said'[w] = (IF ListedAt(rows, w, now + 1) THEN said[w] ELSE NoLine)
        /\ unbroken'[w] = (IF ListedAt(rows, w, now + 1) THEN unbroken[w] ELSE Never)
    BY <1>1
  <2>6. WorkerIsSo(w)
    BY DEF ListeningInv
  <2>. QED
    BY <1>1, <2>2, <2>3, <2>4, <2>5, <2>6 DEF WorkerIsSo
<1>. QED
  BY <1>3, <1>4 DEF ListeningInv

-----------------------------------------------------------------------------
(* The theorems *)

LEMMA ListeningStarts == ListeningInit => ListeningInv
<1>. SUFFICES ASSUME ListeningInit PROVE ListeningInv
  OBVIOUS
<1>1. NoRow \in Rows /\ NoWait \in WaitStates /\ NoRow.since = Never /\ NoRow.heard = Never
  BY DEF NoRow, NoWait, Rows, WaitStates, Never
<1>2. rows \in [WaitIds \X Workers -> Rows] /\ \A id \in WaitIds \X Workers : rows[id] = NoRow
  BY <1>1 DEF ListeningInit
<1>3. ListeningTyped
  BY <1>1, <1>2, ListeningAssumption DEF ListeningInit, ListeningTyped, Never
<1>4. ASSUME NEW w \in Workers PROVE WorkerIsSo(w)
  <2>1. RowsOf(rows, w) = {}
    BY <1>2 DEF RowsOf
  <2>. QED
    BY <2>1 DEF WorkerIsSo, HeardRows, ListedAt, ListeningInit
<1>. QED
  BY <1>3, <1>4 DEF ListeningInv

(* A wait's own steps. *)
LEMMA WaitsMove ==
  ASSUME ListeningInv, NEW i \in WaitIds,
         \/ \E workers \in (SUBSET Workers) \ {{}}, line \in Lines \cup {NoLine} :
              StartWait(i, workers, line)
         \/ StartBeat(i) \/ EndWait(i)
         \/ \E w \in Workers : ListenFails(i, w, TRUE) \/ ListenFails(i, w, FALSE)
  PROVE  ListeningInv'
<1>1. /\ wait \in [WaitIds -> WaitStates] /\ wait[i] \in WaitStates /\ now \in Nat
      /\ NoWait \in WaitStates
  BY DEF ListeningInv, ListeningTyped, NoWait, WaitStates
<1>2. ASSUME NEW next \in WaitStates, wait' = [wait EXCEPT ![i] = next],
             UNCHANGED <<now, rows, doing, said, unbroken>>
      PROVE  ListeningInv'
  <2>1. wait' \in [WaitIds -> WaitStates]
    BY <1>1, <1>2
  <2>. QED
    BY <1>2, <2>1, NothingSaid
<1>3. ASSUME NEW workers \in (SUBSET Workers) \ {{}}, NEW line \in Lines \cup {NoLine},
             StartWait(i, workers, line)
      PROVE  ListeningInv'
  <2>. DEFINE next == [NoWait EXCEPT !.at = "rest", !.workers = workers, !.line = line,
                                     !.due = now]
  <2>1. wait' = [wait EXCEPT ![i] = next] /\ UNCHANGED <<now, rows, doing, said, unbroken>>
    BY <1>3 DEF StartWait
  <2>2. next \in WaitStates
    BY <1>1 DEF NoWait, WaitStates
  <2>. HIDE DEF next
  <2>. QED
    BY <1>2, <2>1, <2>2
<1>4. CASE StartBeat(i)
  <2>. DEFINE next == [wait[i] EXCEPT !.at = "beat", !.left = wait[i].workers]
  <2>1. wait' = [wait EXCEPT ![i] = next] /\ UNCHANGED <<now, rows, doing, said, unbroken>>
    BY <1>1, <1>4 DEF StartBeat, WaitStates
  <2>2. next \in WaitStates
    BY <1>1 DEF WaitStates
  <2>. HIDE DEF next
  <2>. QED
    BY <1>2, <2>1, <2>2
<1>5. CASE EndWait(i)
  <2>. DEFINE next == [NoWait EXCEPT !.at = "over"]
  <2>1. wait' = [wait EXCEPT ![i] = next] /\ UNCHANGED <<now, rows, doing, said, unbroken>>
    BY <1>5 DEF EndWait
  <2>2. next \in WaitStates
    BY <1>1 DEF NoWait, WaitStates
  <2>. HIDE DEF next
  <2>. QED
    BY <1>2, <2>1, <2>2
<1>6. ASSUME NEW w \in Workers, NEW alone \in BOOLEAN, ListenFails(i, w, alone)
      PROVE  ListeningInv'
  <2>. DEFINE rest == IF alone THEN wait[i].left \ {w} ELSE {}
              moment == IF rest = {} THEN "rest" ELSE "beat"
              due == IF rest = {} THEN now + Heartbeat ELSE wait[i].due
              next == [wait[i] EXCEPT !.left = rest, !.at = moment, !.due = due]
  <2>1. wait' = [wait EXCEPT ![i] = next] /\ UNCHANGED <<now, rows, doing, said, unbroken>>
    BY <1>1, <1>6, ZenonT(30) DEF ListenFails, WaitStates
  <2>2. rest \in SUBSET Workers /\ moment \in {"new", "rest", "beat", "over"} /\ due \in Nat
    BY <1>1 DEF WaitStates, Heartbeat
  <2>. HIDE DEF rest, moment, due
  <2>3. next \in WaitStates
    BY <1>1, <2>2 DEF WaitStates
  <2>. HIDE DEF next
  <2>. QED
    BY <1>2, <2>1, <2>3
<1>. QED
  BY <1>3, <1>4, <1>5, <1>6

LEMMA ListeningSteps == ListeningInv /\ [ListeningNext]_listeningVars => ListeningInv'
<1>. SUFFICES ASSUME ListeningInv, [ListeningNext]_listeningVars PROVE ListeningInv'
  OBVIOUS
<1>1. ASSUME NEW i \in WaitIds, NEW w \in Workers, Listen(i, w)
      PROVE  ListeningInv'
  BY <1>1, Records
<1>2. ASSUME NEW w \in Workers, NEW line \in Lines \cup {NoLine}, SetDoing(w, line)
      PROVE  ListeningInv'
  BY <1>2, Says
<1>3. CASE TimePasses
  BY <1>3, TimeGoesBy
<1>4. CASE UNCHANGED listeningVars
  <2>1. UNCHANGED <<now, rows, doing, wait, said, unbroken>>
    BY <1>4 DEF listeningVars
  <2>2. wait' \in [WaitIds -> WaitStates]
    BY <2>1 DEF ListeningInv, ListeningTyped
  <2>. QED
    BY <2>1, <2>2, NothingSaid
<1>. QED
  BY <1>1, <1>2, <1>3, <1>4, WaitsMove DEF ListeningNext

(***************************************************************************)
(* The table of waits says one thing of a worker, whichever of its rows is *)
(* read and however many of its waits write them, and it says what is so.  *)
(***************************************************************************)
THEOREM ListenersAreSo == ListeningSpec => []ListeningInv
BY ListeningStarts, ListeningSteps, PTL DEF ListeningSpec

(* The tables hold times that have been, and lines that were given. *)
THEOREM ListeningTypes == ListeningSpec => []ListeningTypeOK
<1>1. ListeningInv => ListeningTypeOK
  <2>. SUFFICES ASSUME ListeningInv PROVE ListeningTypeOK
    OBVIOUS
  <2>1. \A i \in WaitIds : wait[i].at \in {"new", "rest", "beat", "over"}
    BY DEF ListeningInv, ListeningTyped, WaitStates
  <2>. QED
    BY <2>1 DEF ListeningInv, ListeningTyped, ListeningTypeOK
<1>. QED
  BY <1>1, ListenersAreSo, PTL

(***************************************************************************)
(* A worker is listed as listening since it began to, across the waits     *)
(* that follow one another within the lapse, and with the line it said     *)
(* last.                                                                   *)
(***************************************************************************)
THEOREM ListedIsTrue == ListeningSpec => []ListedTruly
<1>1. ListeningInv => ListedTruly
  <2>. SUFFICES ASSUME ListeningInv, NEW w \in Workers, ListedAt(rows, w, now)
                PROVE  Since(rows, w, now) = unbroken[w] /\ doing[w] = said[w]
    BY DEF ListedTruly
  <2>1. HeardRows(rows, w, now) # {}
    BY HeardRowsAre DEF ListeningInv, ListeningTyped
  <2>2. Since(rows, w, now) = unbroken[w]
    BY <2>1, SinceIs DEF Since, HeardRows
  <2>. QED
    BY <2>2 DEF ListeningInv, WorkerIsSo
<1>. QED
  BY <1>1, ListenersAreSo, PTL

-----------------------------------------------------------------------------
(***************************************************************************)
(* Of Locks, for any number of waits and scopes, no two waits refuse each  *)
(* other: a wait is refused at a scope past every scope it holds, so the   *)
(* refusals among waits rise through the scopes and never come back.  Of   *)
(* Lease, a wait never counts on locks the far side let go of, for any     *)
(* number of waits, any length of lease and any delay of a pickup up to a  *)
(* third.                                                                  *)
(***************************************************************************)

(* The locks on one machine *)

(***************************************************************************)
(* A wait that holds a lock is running; what it holds is before what it    *)
(* has left to take, and before the scope it is refused at.                *)
(***************************************************************************)
HoldsBefore ==
    \A w \in Takers, s \in Scopes :
        locked[s] = w =>
            /\ at[w] \in {"try", "clear", "write", "waits", "ask"}
            /\ at[w] = "try" => s \notin left[w]
            /\ at[w] \in {"clear", "write"} /\ s # scope[w] => s \notin left[w]
            /\ \A r \in left[w] : s <= r
            /\ at[w] = "ask" => s < scope[w]

(* The file a wait is at is that of a scope it has to take and has locked. *)
AtItsFile ==
    \A w \in Takers :
        /\ at[w] \in {"clear", "write"} => scope[w] \in left[w]
        /\ WasRefused(w) => scope[w] \in Scopes /\ by[w] \in Takers
        /\ at[w] \in {"new", "waits"} => left[w] = {}

(***************************************************************************)
(* The wait that refused v holds the scope still, or is over, or was       *)
(* refused at a later scope.                                               *)
(***************************************************************************)
RefusalsRise ==
    \A v \in Takers :
        WasRefused(v) =>
            \/ locked[scope[v]] = by[v]
            \/ at[by[v]] = "over"
            \/ at[by[v]] = "refused" /\ scope[v] < scope[by[v]]

LocksInv == LocksTypeOK /\ HoldsBefore /\ AtItsFile /\ RefusalsRise

-----------------------------------------------------------------------------

(* Initially no lock is held and no wait refused (lock.rs, `take`).        *)
LEMMA LocksInitially == LocksInit => LocksInv
  BY LocksAssumption
     DEF LocksInit, LocksInv, LocksTypeOK, HoldsBefore, AtItsFile, RefusalsRise, Steps,
         WasRefused, NoScope

(* Each step of a wait keeps the invariant (lock.rs, `take`).              *)
LEMMA LocksStep ==
    ASSUME LocksInv, [LocksNext]_locksVars
    PROVE  LocksInv'
<1> USE LocksAssumption DEF LocksInv, LocksTypeOK, Steps
<1>1. CASE MakeStore
  BY <1>1 DEF MakeStore, HoldsBefore, AtItsFile, RefusalsRise, WasRefused
<1>2. CASE UNCHANGED locksVars
  BY <1>2 DEF locksVars, HoldsBefore, AtItsFile, RefusalsRise, WasRefused
<1>3. ASSUME NEW w \in Takers, StartUnlocked(w)
       PROVE  LocksInv'
  <2>1. LocksTypeOK'
    BY <1>3 DEF StartUnlocked
  <2>2. HoldsBefore'
    BY <1>3 DEF StartUnlocked, HoldsBefore, AtItsFile
  <2>3. AtItsFile'
    BY <1>3 DEF StartUnlocked, AtItsFile, WasRefused
  <2>4. RefusalsRise'
    BY <1>3 DEF StartUnlocked, HoldsBefore, AtItsFile, RefusalsRise, WasRefused
  <2> QED BY <2>1, <2>2, <2>3, <2>4
<1>4. ASSUME NEW w \in Takers, StartTaking(w)
       PROVE  LocksInv'
  <2>1. LocksTypeOK'
    BY <1>4 DEF StartTaking
  <2>2. HoldsBefore'
    BY <1>4 DEF StartTaking, HoldsBefore, AtItsFile
  <2>3. AtItsFile'
    <3>1. PICK scopes \in SUBSET Scopes :
             /\ left' = [left EXCEPT ![w] = scopes]
             /\ at' = [at EXCEPT ![w] = IF scopes = {} THEN "waits" ELSE "try"]
      BY <1>4 DEF StartTaking
    <3> QED BY <3>1, <1>4 DEF StartTaking, AtItsFile, WasRefused
  <2>4. RefusalsRise'
    BY <1>4 DEF StartTaking, HoldsBefore, AtItsFile, RefusalsRise, WasRefused
  <2> QED BY <2>1, <2>2, <2>3, <2>4
<1>5. ASSUME NEW w \in Takers, TryLock(w)
       PROVE  LocksInv'
  <2>1. LocksTypeOK'
    BY <1>5 DEF TryLock, NextScope
  <2>2. HoldsBefore'
    <3>1. PICK s \in Scopes :
             /\ s \in left[w] /\ \A r \in left[w] : s <= r
             /\ locked' = [locked EXCEPT ![s] = w]
             /\ scope' = [scope EXCEPT ![w] = s]
      BY <1>5 DEF TryLock, NextScope
    <3>2. ASSUME NEW v \in Takers, NEW r \in Scopes, locked'[r] = v
          PROVE  /\ at'[v] \in {"try", "clear", "write", "waits", "ask"}
                 /\ at'[v] = "try" => r \notin left'[v]
                 /\ at'[v] \in {"clear", "write"} /\ r # scope'[v] => r \notin left'[v]
                 /\ \A q \in left'[v] : r <= q
                 /\ at'[v] = "ask" => r < scope'[v]
      <4>1. CASE v = w /\ r = s
        BY <3>1, <4>1, <1>5 DEF TryLock
      <4>2. CASE v = w /\ r # s
        BY <3>1, <3>2, <4>2, <1>5 DEF TryLock, HoldsBefore
      <4>3. CASE v # w
        <5>1. locked[r] = v
          BY <3>1, <3>2, <4>3, <1>5
        <5> QED BY <3>1, <5>1, <4>3, <1>5 DEF TryLock, HoldsBefore
      <4> QED BY <4>1, <4>2, <4>3
    <3> QED BY <3>2 DEF HoldsBefore
  <2>3. AtItsFile'
    BY <1>5 DEF TryLock, NextScope, AtItsFile, WasRefused
  <2>4. RefusalsRise'
    BY <1>5 DEF TryLock, NextScope, HoldsBefore, AtItsFile, RefusalsRise, WasRefused
  <2> QED BY <2>1, <2>2, <2>3, <2>4
<1>6. ASSUME NEW w \in Takers, TryHeld(w)
       PROVE  LocksInv'
  <2>1. LocksTypeOK'
    BY <1>6 DEF TryHeld, NextScope
  <2>2. HoldsBefore'
    <3>1. PICK s \in Scopes :
             /\ s \in left[w] /\ \A r \in left[w] : s <= r
             /\ scope' = [scope EXCEPT ![w] = s]
      BY <1>6 DEF TryHeld, NextScope
    <3>2. ASSUME NEW r \in Scopes, locked[r] = w
          PROVE  r < s
      BY <3>1, <3>2, <1>6 DEF TryHeld, HoldsBefore
    <3>3. ASSUME NEW v \in Takers, NEW r \in Scopes, locked'[r] = v
          PROVE  /\ at'[v] \in {"try", "clear", "write", "waits", "ask"}
                 /\ at'[v] = "try" => r \notin left'[v]
                 /\ at'[v] \in {"clear", "write"} /\ r # scope'[v] => r \notin left'[v]
                 /\ \A q \in left'[v] : r <= q
                 /\ at'[v] = "ask" => r < scope'[v]
      <4>1. CASE v = w
        BY <3>1, <3>2, <3>3, <4>1, <1>6 DEF TryHeld, HoldsBefore
      <4>2. CASE v # w
        BY <3>1, <3>3, <4>2, <1>6 DEF TryHeld, HoldsBefore
      <4> QED BY <4>1, <4>2
    <3> QED BY <3>3 DEF HoldsBefore
  <2>3. AtItsFile'
    BY <1>6 DEF TryHeld, NextScope, AtItsFile, WasRefused
  <2>4. RefusalsRise'
    BY <1>6 DEF TryHeld, NextScope, HoldsBefore, AtItsFile, RefusalsRise, WasRefused
  <2> QED BY <2>1, <2>2, <2>3, <2>4
<1>7. ASSUME NEW w \in Takers, Refuse(w)
       PROVE  LocksInv'
  <2>1. LocksTypeOK'
    <3>1. says[scope[w]] \in Takers \cup {Nobody}
      BY <1>7 DEF Refuse, AtItsFile, WasRefused
    <3> QED BY <3>1, <1>7 DEF Refuse, LetGo
  <2>2. HoldsBefore'
    BY <1>7 DEF Refuse, LetGo, HoldsBefore, AtItsFile
  <2>3. AtItsFile'
    BY <1>7 DEF Refuse, LetGo, AtItsFile, WasRefused
  <2>4. RefusalsRise'
    <3>1. ASSUME NEW v \in Takers, WasRefused(v)'
          PROVE  \/ locked'[scope'[v]] = by'[v]
                 \/ at'[by'[v]] = "over"
                 \/ at'[by'[v]] = "refused" /\ scope'[v] < scope'[by'[v]]
      <4>1. WasRefused(v) /\ scope[v] \in Scopes /\ by[v] \in Takers
        BY <3>1, <1>7 DEF Refuse, WasRefused, AtItsFile
      <4>2. CASE by[v] = w /\ locked[scope[v]] = w
        BY <4>1, <4>2, <1>7 DEF Refuse, HoldsBefore
      <4>3. CASE by[v] # w
        BY <4>1, <4>3, <1>7 DEF Refuse, LetGo, RefusalsRise
      <4>4. CASE by[v] = w /\ locked[scope[v]] # w
        BY <4>1, <4>4, <1>7 DEF Refuse, RefusalsRise
      <4> QED BY <4>2, <4>3, <4>4
    <3> QED BY <3>1 DEF RefusalsRise
  <2> QED BY <2>1, <2>2, <2>3, <2>4
<1>8. ASSUME NEW w \in Takers, ClearFile(w)
       PROVE  LocksInv'
  <2>1. LocksTypeOK'
    <3>1. at' \in [Takers -> Steps]
      BY <1>8 DEF ClearFile
    <3>2. says' \in [Scopes -> Takers \cup {Nobody}]
      BY <1>8 DEF ClearFile
    <3> QED BY <3>1, <3>2, <1>8 DEF ClearFile
  <2>2. HoldsBefore'
    BY <1>8 DEF ClearFile, HoldsBefore, AtItsFile
  <2>3. AtItsFile'
    BY <1>8 DEF ClearFile, AtItsFile, WasRefused
  <2>4. RefusalsRise'
    BY <1>8 DEF ClearFile, HoldsBefore, AtItsFile, RefusalsRise, WasRefused
  <2> QED BY <2>1, <2>2, <2>3, <2>4
<1>9. ASSUME NEW w \in Takers, WriteFile(w)
       PROVE  LocksInv'
  <2>1. LocksTypeOK'
    BY <1>9 DEF WriteFile
  <2>2. HoldsBefore'
    BY <1>9 DEF WriteFile, HoldsBefore, AtItsFile
  <2>3. AtItsFile'
    BY <1>9 DEF WriteFile, AtItsFile, WasRefused
  <2>4. RefusalsRise'
    BY <1>9 DEF WriteFile, HoldsBefore, AtItsFile, RefusalsRise, WasRefused
  <2> QED BY <2>1, <2>2, <2>3, <2>4
<1>10. ASSUME NEW w \in Takers, End(w)
       PROVE  LocksInv'
  <2>1. LocksTypeOK'
    BY <1>10 DEF End, LetGo
  <2>2. HoldsBefore'
    BY <1>10 DEF End, LetGo, HoldsBefore, AtItsFile
  <2>3. AtItsFile'
    BY <1>10 DEF End, LetGo, AtItsFile, WasRefused
  <2>4. RefusalsRise'
    BY <1>10 DEF End, LetGo, HoldsBefore, AtItsFile, RefusalsRise, WasRefused
  <2> QED BY <2>1, <2>2, <2>3, <2>4
<1> QED
  BY <1>1, <1>2, <1>3, <1>4, <1>5, <1>6, <1>7, <1>8, <1>9, <1>10 DEF LocksNext

(***************************************************************************)
(* What `take` says of its one order: no two waits each take a lock and    *)
(* refuse each other.                                                      *)
(***************************************************************************)
THEOREM WaitsNeverRefuseEachOther == LocksSpec => []NeverEachOther
<1>1. LocksInv => NeverEachOther
  <2> SUFFICES ASSUME LocksInv, NEW v \in Takers, NEW w \in Takers,
                      WasRefused(v), WasRefused(w), by[v] = w, by[w] = v
               PROVE  FALSE
    BY DEF NeverEachOther
  <2>1. ASSUME NEW u \in Takers, NEW x \in Takers, WasRefused(u), WasRefused(x), by[u] = x
        PROVE  scope[u] < scope[x]
    <3>1. scope[u] \in Scopes /\ at[x] # "over"
      BY <2>1 DEF LocksInv, AtItsFile, WasRefused
    <3>2. CASE locked[scope[u]] = x
      BY <2>1, <3>1, <3>2 DEF LocksInv, HoldsBefore, WasRefused
    <3> QED BY <2>1, <3>1, <3>2 DEF LocksInv, RefusalsRise
  <2>2. scope[v] \in Nat /\ scope[w] \in Nat
    BY LocksAssumption DEF LocksInv, AtItsFile
  <2> QED BY <2>1, <2>2
<1>2. LocksSpec => []LocksInv
  BY LocksInitially, LocksStep, PTL DEF LocksSpec
<1> QED
  BY <1>1, <1>2, PTL

(* The types of the locks' state hold in every state of `take`'s steps.    *)
THEOREM LocksTyped == LocksSpec => []LocksTypeOK
<1>1. LocksInv => LocksTypeOK
  BY DEF LocksInv
<1> QED
  BY <1>1, LocksInitially, LocksStep, PTL DEF LocksSpec

-----------------------------------------------------------------------------
(* The locks on a forwarded store, and the hold and the lease on them *)


(* The clock of wait w that is right. *)
Right(w) == IF wrong[w] = "mono" THEN "wall" ELSE "mono"

(***************************************************************************)
(* The far side's lease has at least a third more to run than the hold, by *)
(* the clock that is right.                                                *)
(***************************************************************************)
Outlasts(w, much) == Leased(w) /\ far[w].left >= much + Third

(* A hold that has not run out, and one that the answer on its way would   *)
(* give, are outlasted.                                                    *)
HoldOutlasted(w) ==
  phase[w] \in {"holding", "renewing"} /\ hold[w][Right(w)] > 0
    => Outlasts(w, hold[w][Right(w)])

AnswerOutlasted(w) ==
  /\ phase[w] \in {"asking", "renewing"}
  /\ "leased" \in answers[w] /\ pending[w][Right(w)] > 0
  => Outlasts(w, pending[w][Right(w)])

(* A pickup on its way is a third of a lease old before the lease ends.    *)
PickupOutlasted(w) ==
  writing[w] \in 0 .. Third => Leased(w) /\ far[w].left + writing[w] > Third

(* A wait has one request on its way at a time, answered at most once, and *)
(* sends the release last, once the call of its pickup is over.            *)
InOrder(w) ==
  /\ phase[w] \in {"new", "holding"} => requests[w] = {}
  /\ phase[w] \notin {"asking", "renewing"} => answers[w] = {}
  /\ phase[w] = "asking" => requests[w] \subseteq {"lock"}
  /\ phase[w] = "renewing" => requests[w] \subseteq {"renew"}
  /\ phase[w] \in {"asking", "renewing"} /\ answers[w] # {} => requests[w] = {}
  /\ "release" \in requests[w] => phase[w] = "done" /\ Over(w)

OneHolds == \A v, w \in Waits : Locked(v) /\ Locked(w) => v = w

Fine(w) ==
  HoldOutlasted(w) /\ AnswerOutlasted(w) /\ PickupOutlasted(w) /\ InOrder(w)

LeaseInv == LeaseTypeOK /\ (\A w \in Waits : Fine(w)) /\ OneHolds

-----------------------------------------------------------------------------
(* The times the leases are made of. *)
LEMMA Times ==
  /\ Third \in Nat /\ Third > 0
  /\ FullLease = Good + Third /\ Good \in Nat /\ FullLease \in Nat /\ Good > 0
  /\ Late = Third + 1 /\ Adrift = Third + 2 /\ Still = Third + 3
BY TimesAssumption DEF FullLease, Good, Late, Adrift, Still

(* The right clock is a clock, and not the wrong one. *)
LEMMA RightIsRight ==
  ASSUME LeaseTypeOK, NEW w \in Waits
  PROVE  Right(w) \in Clocks /\ Right(w) # wrong[w]
BY DEF LeaseTypeOK, Right, Clocks

(* What a clock says is left of a hold is a number, and at most Good. *)
LEMMA LeftsCount ==
  ASSUME LeaseTypeOK, NEW w \in Waits
  PROVE  /\ hold[w][Right(w)] \in 0 .. Good
         /\ pending[w][Right(w)] \in 0 .. Good
         /\ \A k \in Clocks : hold[w][k] \in 0 .. Good
BY RightIsRight DEF LeaseTypeOK, Lefts

(* What was fine of a wait that a step left alone still is. *)
LEMMA Untouched ==
  ASSUME NEW w \in Waits, Fine(w),
         wrong'[w] = wrong[w], phase'[w] = phase[w], hold'[w] = hold[w],
         pending'[w] = pending[w], requests'[w] = requests[w],
         answers'[w] = answers[w], writing'[w] = writing[w], far'[w] = far[w]
  PROVE  Fine(w)'
BY DEF Fine, HoldOutlasted, AnswerOutlasted, PickupOutlasted, InOrder, Outlasts, Right,
       Leased, Over

-----------------------------------------------------------------------------
(* The variables keep their types. *)
LEMMA TypeStep ==
  ASSUME LeaseTypeOK, LeaseNext
  PROVE  LeaseTypeOK'
<1>. USE DEF LeaseTypeOK
<1>1. FullHold \in Lefts /\ Spent \in Lefts
  BY Times DEF FullHold, Spent, Lefts
<1>2. CASE ClocksTick
  <2>1. \A n \in 0 .. Good : Less(n) \in 0 .. Good
    BY Times DEF Less
  <2>2. \A n \in 0 .. FullLease : Less(n) \in 0 .. FullLease
    BY Times DEF Less
  <2>3. ASSUME NEW w \in Waits, NEW much \in Lefts, NEW missed \in BOOLEAN
        PROVE  Ticked(w, much, missed) \in Lefts
    BY <2>1 DEF Ticked, Lefts
  <2>4. PICK asleep \in SUBSET Waits :
          /\ hold' = [w \in Waits |-> Ticked(w, hold[w], w \in asleep)]
          /\ pending' = [w \in Waits |-> Ticked(w, pending[w], w \in asleep)]
    BY <1>2 DEF ClocksTick
  <2>5. ASSUME NEW w \in Waits
        PROVE  /\ Ticked(w, hold[w], w \in asleep) \in Lefts
               /\ Ticked(w, pending[w], w \in asleep) \in Lefts
    <3>1. hold[w] \in Lefts /\ pending[w] \in Lefts /\ (w \in asleep) \in BOOLEAN
      OBVIOUS
    <3>. QED
      BY <2>3, <3>1
  <2>6. hold' \in [Waits -> Lefts] /\ pending' \in [Waits -> Lefts]
    BY <2>4, <2>5
  <2>7. ASSUME NEW w \in Waits
        PROVE  Aged(writing[w]) \in 0 .. Still
    <3>1. writing[w] \in 0 .. Still
      OBVIOUS
    <3>. HIDE DEF LeaseTypeOK
    <3>. QED
      BY <3>1, Times DEF Aged
  <2>8. writing' \in [Waits -> 0 .. Still]
    BY <1>2, <2>7 DEF ClocksTick
  <2>9. far' \in [Waits -> [has : Has, left : 0 .. FullLease, ended : BOOLEAN]]
    BY <1>2, <2>2 DEF ClocksTick
  <2>. QED
    BY <1>2, <2>6, <2>8, <2>9 DEF ClocksTick
<1>3. ASSUME NEW w \in Waits, WaitStep(w)
      PROVE  LeaseTypeOK'
  <2>1. CASE Ask(w)
    BY <1>1, <2>1 DEF Ask, Send, Phases
  <2>2. CASE Renew(w)
    BY <1>1, <2>2 DEF Renew, Send, Phases
  <2>3. CASE Granted(w)
    BY <1>1, <2>3 DEF Granted, Phases
  <2>4. CASE Lose(w)
    BY <1>1, <2>4 DEF Lose, Phases
  <2>5. CASE Release(w)
    BY <1>1, <2>5 DEF Release, Send, Phases
  <2>6. CASE Die(w)
    BY <1>1, <2>6 DEF Die, Phases
  <2>7. CASE StartAgain(w)
    BY <2>7, Times DEF StartAgain, Phases, Unheld
  <2>8. CASE PickUpBegins(w)
    BY <2>8, Times DEF PickUpBegins, clientVars
  <2>9. CASE PickUpEnds(w)
    BY <2>9, Times DEF PickUpEnds, clientVars
  <2>10. CASE GiveUp(w)
    BY <2>10, Times DEF GiveUp, clientVars
  <2>11. CASE SetBack(w)
    BY <2>11, Times DEF SetBack, Lefts, Clocks
  <2>. QED
    BY <1>3, <2>1, <2>2, <2>3, <2>4, <2>5, <2>6, <2>7, <2>8, <2>9, <2>10, <2>11 DEF WaitStep
<1>4. ASSUME NEW w \in Waits, FarStep(w)
      PROVE  LeaseTypeOK'
  <2>1. ASSUME NEW request, NEW answer \in SUBSET {"leased"}, Serve(w, request, answer)
        PROVE  /\ requests' \in [Waits -> SUBSET {"lock", "renew", "release"}]
               /\ answers' \in [Waits -> SUBSET {"leased"}]
    <3>1. requests' \in [Waits -> SUBSET {"lock", "renew", "release"}]
      BY <2>1 DEF Serve
    <3>2. CASE answers' = answers
      BY <3>1, <3>2
    <3>3. CASE answers' = [answers EXCEPT ![w] = answer]
      BY <3>1, <3>3
    <3>. QED
      BY <2>1, <3>2, <3>3 DEF Serve
  <2>2. FullLease \in 0 .. FullLease /\ 0 \in 0 .. FullLease
    BY Times
  <2>3. far' \in [Waits -> [has : Has, left : 0 .. FullLease, ended : BOOLEAN]]
    <3>1. CASE FarLock(w)
      <4>1. Given \in Has
        BY DEF Given, Has
      <4>2. far' = [far EXCEPT ![w].has = Given, ![w].left = FullLease]
        BY <3>1 DEF FarLock
      <4>. QED
        BY <2>2, <4>1, <4>2
    <3>2. CASE FarRenew(w)
      BY <2>2, <3>2 DEF FarRenew
    <3>3. CASE FarRefuse(w)
      BY <3>3 DEF FarRefuse
    <3>4. CASE FarRelease(w)
      BY <2>2, <3>4 DEF FarRelease, Unheld, Has
    <3>5. CASE FarLapse(w)
      BY <2>2, <3>5 DEF FarLapse, Unheld, Has
    <3>6. CASE FarEnds(w)
      <4>1. Leased(w) \in BOOLEAN
        BY DEF Leased
      <4>2. far' = [far EXCEPT ![w].ended = Leased(w)]
        BY <3>6 DEF FarEnds
      <4>. QED
        BY <4>1, <4>2
    <3>. QED
      BY <1>4, <3>1, <3>2, <3>3, <3>4, <3>5, <3>6 DEF FarStep
  <2>4. UNCHANGED <<onDisk, wrong, clientVars, writing>>
    BY <1>4 DEF FarStep, FarLock, FarRenew, FarRefuse, FarRelease, FarLapse, FarEnds
  <2>5. /\ requests' \in [Waits -> SUBSET {"lock", "renew", "release"}]
        /\ answers' \in [Waits -> SUBSET {"leased"}]
    BY <1>4, <2>1 DEF FarStep, FarLock, FarRenew, FarRefuse, FarRelease, FarLapse, FarEnds
  <2>. QED
    BY <2>3, <2>4, <2>5 DEF clientVars
<1>5. CASE StoreIsMade
  BY <1>5 DEF StoreIsMade, clientVars
<1>. QED
  BY <1>2, <1>3, <1>4, <1>5 DEF LeaseNext

-----------------------------------------------------------------------------
(* A step of one wait, or of the far side for it, leaves the others alone. *)
LEMMA OthersAlone ==
  ASSUME LeaseTypeOK, NEW w \in Waits, NEW v \in Waits, v # w, Fine(v),
         WaitStep(w) \/ FarStep(w)
  PROVE  Fine(v)'
<1>. USE DEF LeaseTypeOK, clientVars, Send, Serve
<1>1. CASE WaitStep(w)
  BY <1>1, Untouched
     DEF WaitStep, Ask, Renew, Granted, Lose, Release, Die, StartAgain, PickUpBegins, PickUpEnds, GiveUp, SetBack
<1>2. CASE FarStep(w)
  <2>1. requests'[v] = requests[v] /\ answers'[v] = answers[v]
    BY <1>2 DEF FarStep, FarLock, FarRenew, FarRefuse, FarRelease, FarLapse, FarEnds
  <2>2. far'[v] = far[v]
    BY <1>2 DEF FarStep, FarLock, FarRenew, FarRefuse, FarRelease, FarLapse, FarEnds
  <2>3. UNCHANGED <<onDisk, wrong, phase, hold, pending, writing>>
    BY <1>2 DEF FarStep, FarLock, FarRenew, FarRefuse, FarRelease, FarLapse, FarEnds
  <2>. QED
    BY <2>1, <2>2, <2>3, Untouched
<1>. QED
  BY <1>1, <1>2

(* What a wait does keeps its hold outlasted. *)
LEMMA WaitKeepsFine ==
  ASSUME LeaseTypeOK, NEW w \in Waits, Fine(w), WaitStep(w)
  PROVE  Fine(w)'
<1>. DEFINE R == Right(w)
<1>0. R \in Clocks /\ hold[w][R] \in 0 .. Good /\ pending[w][R] \in 0 .. Good
  BY RightIsRight, LeftsCount
<1>1. far[w].left \in 0 .. FullLease /\ writing[w] \in 0 .. Still
  BY DEF LeaseTypeOK
<1>2. ASSUME wrong' = wrong PROVE Right(w)' = R
  BY <1>2 DEF Right
<1>. USE DEF LeaseTypeOK, Fine, HoldOutlasted, AnswerOutlasted, PickupOutlasted, InOrder, Outlasts,
             Leased, Over
<1>. HIDE DEF R
<1>3. CASE Ask(w)
  BY <1>2, <1>3 DEF Ask, Send
<1>4. CASE Renew(w)
  BY <1>2, <1>4 DEF Renew, Send, R
<1>5. CASE Granted(w)
  BY <1>2, <1>5 DEF Granted, R
<1>6. CASE Lose(w)
  BY <1>2, <1>6 DEF Lose
<1>7. CASE Release(w)
  BY <1>2, <1>7 DEF Release, Send
<1>8. CASE Die(w)
  BY <1>2, <1>8 DEF Die
<1>9. CASE StartAgain(w)
  BY <1>2, <1>9 DEF StartAgain
<1>10. CASE PickUpBegins(w)
  <2>1. Outlasts(w, hold[w][R]) /\ hold[w][R] > 0
    BY <1>0, <1>10 DEF PickUpBegins, Counted, R
  <2>2. Leased(w) /\ far[w].left > Third
    BY <1>0, <1>1, <2>1, Times
  <2>3. UNCHANGED <<wrong, phase, hold, pending, requests, answers, far>>
    BY <1>10 DEF PickUpBegins, clientVars
  <2>4. HoldOutlasted(w)' /\ AnswerOutlasted(w)'
    BY <1>2, <2>3 DEF R
  <2>5. PickupOutlasted(w)'
    BY <1>1, <1>10, <2>2, <2>3, Times DEF PickUpBegins, clientVars
  <2>6. InOrder(w)'
    BY <1>10, <2>3 DEF PickUpBegins, Counted
  <2>. QED
    BY <2>4, <2>5, <2>6
<1>11. CASE PickUpEnds(w)
  BY <1>2, <1>11, Times DEF PickUpEnds, clientVars, R
<1>13. CASE GiveUp(w)
  BY <1>2, <1>13, Times DEF GiveUp, clientVars, R
<1>12. CASE SetBack(w)
  <2>1. R = "mono"
    BY <1>12 DEF SetBack, R, Right
  <2>2. hold'[w][R] = hold[w][R] /\ pending'[w][R] = pending[w][R]
    BY <1>12, <2>1 DEF SetBack, Lefts
  <2>. QED
    BY <1>2, <1>12, <2>2 DEF SetBack, R
<1>. QED
  BY <1>3, <1>4, <1>5, <1>6, <1>7, <1>8, <1>9, <1>10, <1>11, <1>12, <1>13
     DEF WaitStep

(* What the far side does for a wait keeps its hold outlasted. *)
LEMMA FarKeepsFine ==
  ASSUME LeaseTypeOK, NEW w \in Waits, Fine(w), FarStep(w)
  PROVE  Fine(w)'
<1>. DEFINE R == Right(w)
<1>0. R \in Clocks /\ hold[w][R] \in 0 .. Good /\ pending[w][R] \in 0 .. Good
  BY RightIsRight, LeftsCount
<1>1. far[w].left \in 0 .. FullLease /\ writing[w] \in 0 .. Still
  BY DEF LeaseTypeOK
<1>2. UNCHANGED <<onDisk, wrong, phase, hold, pending, writing>>
  BY DEF FarStep, FarLock, FarRenew, FarRefuse, FarRelease, FarLapse, FarEnds, clientVars
<1>3. Right(w)' = R
  BY <1>2 DEF Right
<1>. USE DEF LeaseTypeOK, Fine, HoldOutlasted, AnswerOutlasted, PickupOutlasted, InOrder, Outlasts,
             Leased, Over
<1>. HIDE DEF R
<1>4. CASE FarLock(w)
  BY <1>0, <1>1, <1>2, <1>3, <1>4, Times DEF FarLock, Serve, Given, R
<1>5. CASE FarRenew(w)
  BY <1>0, <1>1, <1>2, <1>3, <1>5, Times DEF FarRenew, Serve, R
<1>6. CASE FarRefuse(w)
  BY <1>2, <1>3, <1>6 DEF FarRefuse, Serve, R
<1>7. CASE FarRelease(w)
  BY <1>2, <1>3, <1>7, Times DEF FarRelease, Serve, Unheld, R
<1>8. CASE FarLapse(w)
  BY <1>0, <1>1, <1>2, <1>3, <1>8, Times DEF FarLapse, Unheld, clientVars, R
<1>9. CASE FarEnds(w)
  BY <1>2, <1>3, <1>9 DEF FarEnds, clientVars, R
<1>. QED
  BY <1>4, <1>5, <1>6, <1>7, <1>8, <1>9 DEF FarStep

(* Time passes, and the lease outlasts what the hold has left by then.     *)
LEMMA TickKeepsFine ==
  ASSUME LeaseTypeOK, NEW w \in Waits, Fine(w), ClocksTick
  PROVE  Fine(w)'
<1>. DEFINE R == Right(w)
<1>0. /\ R \in Clocks /\ R # wrong[w]
      /\ hold[w][R] \in 0 .. Good /\ pending[w][R] \in 0 .. Good
  BY RightIsRight, LeftsCount
<1>1. far[w].left \in 0 .. FullLease /\ writing[w] \in 0 .. Still
  BY DEF LeaseTypeOK
<1>2. UNCHANGED <<wrong, phase, requests, answers>>
  BY DEF ClocksTick
<1>3. Right(w)' = R
  BY <1>2 DEF Right
<1>4. hold'[w][R] = Less(hold[w][R]) /\ pending'[w][R] = Less(pending[w][R])
  BY <1>0 DEF ClocksTick, Ticked
<1>5. writing'[w] = Aged(writing[w])
  BY DEF ClocksTick
<1>6. far'[w].has = far[w].has /\ far'[w].left = Less(far[w].left)
  BY DEF ClocksTick, LeaseTypeOK
<1>. HIDE DEF R
<1>7. HoldOutlasted(w)'
  BY <1>0, <1>1, <1>2, <1>3, <1>4, <1>6, Times DEF Fine, HoldOutlasted, Outlasts, Leased, Less, R
<1>8. AnswerOutlasted(w)'
  BY <1>0, <1>1, <1>2, <1>3, <1>4, <1>6, Times DEF Fine, AnswerOutlasted, Outlasts, Leased, Less, R
<1>9. PickupOutlasted(w)'
  BY <1>1, <1>5, <1>6, Times DEF Fine, PickupOutlasted, Leased, Less, Aged
<1>10. InOrder(w)'
  BY <1>1, <1>2, <1>5, Times DEF Fine, InOrder, Over, Aged
<1>. QED
  BY <1>7, <1>8, <1>9, <1>10 DEF Fine

(* The lock goes to one wait at a time. *)
LEMMA OneHoldsStep ==
  ASSUME LeaseTypeOK, OneHolds, LeaseNext
  PROVE  OneHolds'
<1>1. CASE ClocksTick
  <2>1. \A w \in Waits : far'[w].has = far[w].has
    BY <1>1 DEF ClocksTick, LeaseTypeOK
  <2>. QED
    BY <2>1 DEF OneHolds, Locked
<1>2. ASSUME NEW w \in Waits, WaitStep(w)
      PROVE  OneHolds'
  <2>1. \A v \in Waits : Locked(v)' => Locked(v)
    BY <1>2 DEF LeaseTypeOK, clientVars, Locked, WaitStep, Ask, Renew, Granted, Lose, Release,
                Die, StartAgain, PickUpBegins, PickUpEnds, GiveUp, SetBack
  <2>. QED
    BY <2>1 DEF OneHolds
<1>3. ASSUME NEW w \in Waits, FarStep(w)
      PROVE  OneHolds'
  <2>1. CASE FarLock(w)
    <3>1. onDisk => \A v \in Waits : ~Locked(v)
      BY <2>1 DEF FarLock
    <3>2. \A v \in Waits : Locked(v)' => (onDisk /\ v = w) \/ Locked(v)
      BY <2>1 DEF FarLock, Given, Locked, LeaseTypeOK
    <3>. QED
      BY <3>1, <3>2 DEF OneHolds
  <2>2. CASE ~FarLock(w)
    <3>1. \A v \in Waits : Locked(v)' => Locked(v)
      <4>. USE DEF LeaseTypeOK, Locked
      <4>1. CASE FarRenew(w)
        BY <4>1 DEF FarRenew
      <4>2. CASE FarRefuse(w)
        BY <4>2 DEF FarRefuse
      <4>3. CASE FarRelease(w)
        BY <4>3 DEF FarRelease, Unheld
      <4>4. CASE FarLapse(w)
        BY <4>4 DEF FarLapse, Unheld
      <4>5. CASE FarEnds(w)
        BY <4>5 DEF FarEnds
      <4>. QED
        BY <1>3, <2>2, <4>1, <4>2, <4>3, <4>4, <4>5 DEF FarStep
    <3>. QED
      BY <3>1 DEF OneHolds
  <2>. QED
    BY <2>1, <2>2
<1>4. CASE StoreIsMade
  BY <1>4 DEF StoreIsMade, OneHolds, Locked
<1>. QED
  BY <1>1, <1>2, <1>3, <1>4 DEF LeaseNext

-----------------------------------------------------------------------------
(* The invariant holds at first. *)
LEMMA LeaseInvInit ==
  ASSUME LeaseInit
  PROVE  LeaseInv
<1>1. LeaseTypeOK
  BY Times DEF LeaseInit, LeaseTypeOK, Lefts, Spent, Phases, Unheld, Has
<1>2. \A w \in Waits : Fine(w)
  BY Times DEF LeaseInit, Fine, HoldOutlasted, AnswerOutlasted, PickupOutlasted, InOrder, Over
<1>3. OneHolds
  BY DEF LeaseInit, OneHolds, Locked, Unheld
<1>. QED
  BY <1>1, <1>2, <1>3 DEF LeaseInv

(* Every step keeps it. *)
LEMMA LeaseInvStep ==
  ASSUME LeaseInv, [LeaseNext]_leaseVars
  PROVE  LeaseInv'
<1>1. CASE UNCHANGED leaseVars
  <2>1. LeaseTypeOK' /\ OneHolds'
    BY <1>1 DEF LeaseInv, LeaseTypeOK, OneHolds, Locked, leaseVars
  <2>2. \A w \in Waits : Fine(w)'
    BY <1>1, Untouched DEF LeaseInv, leaseVars
  <2>. QED
    BY <2>1, <2>2 DEF LeaseInv
<1>2. CASE LeaseNext
  <2>1. LeaseTypeOK' /\ OneHolds'
    BY <1>2, TypeStep, OneHoldsStep DEF LeaseInv
  <2>2. ASSUME NEW v \in Waits
        PROVE  Fine(v)'
    <3>1. CASE ClocksTick
      BY <3>1, TickKeepsFine DEF LeaseInv
    <3>2. ASSUME NEW w \in Waits, WaitStep(w) \/ FarStep(w)
          PROVE  Fine(v)'
      <4>1. CASE v = w
        BY <3>2, <4>1, WaitKeepsFine, FarKeepsFine DEF LeaseInv
      <4>2. CASE v # w
        BY <3>2, <4>2, OthersAlone DEF LeaseInv
      <4>. QED
        BY <4>1, <4>2
    <3>3. CASE StoreIsMade
      BY <3>3, Untouched DEF StoreIsMade, clientVars, LeaseInv
    <3>. QED
      BY <1>2, <3>1, <3>2, <3>3 DEF LeaseNext
  <2>. QED
    BY <2>1, <2>2 DEF LeaseInv
<1>. QED
  BY <1>1, <1>2

(* Every lease outlasts the hold that counts on it, throughout.            *)
THEOREM LeaseOutlastsHold == LeaseSpec => []LeaseInv
<1>1. LeaseInit => LeaseInv
  BY LeaseInvInit
<1>2. LeaseInv /\ [LeaseNext]_leaseVars => LeaseInv'
  BY LeaseInvStep
<1>. QED
  BY <1>1, <1>2, PTL DEF LeaseSpec

(* The hold, the messages and the locks of every wait keep their kinds.    *)
THEOREM LeaseTypes == LeaseSpec => []LeaseTypeOK
<1>1. LeaseInv => LeaseTypeOK
  BY DEF LeaseInv
<1>. QED
  BY <1>1, LeaseOutlastsHold, PTL

(* A wait that counts its locks held has them (hold.rs, Standing::left).   *)
THEOREM WaitStopsFirst == LeaseSpec => []HeldWhileCounted
<1>1. LeaseInv => HeldWhileCounted
  <2>. SUFFICES ASSUME LeaseInv, NEW w \in Waits, Counted(w)
                PROVE  Leased(w)
    BY DEF HeldWhileCounted
  <2>1. Right(w) \in Clocks
    BY RightIsRight DEF LeaseInv
  <2>. QED
    BY <2>1 DEF LeaseInv, Fine, HoldOutlasted, Outlasts, Counted
<1>. QED
  BY <1>1, LeaseOutlastsHold, PTL

(* A pickup on its way has the lock for a third of a lease, unless it was  *)
(* given up (hold.rs, Standing::left; forward.rs, FarLocks::write).        *)
THEOREM PickupsUnderLock == LeaseSpec => []PickupUnderLock
<1>1. LeaseInv => PickupUnderLock
  BY DEF LeaseInv, Fine, PickupOutlasted, PickupUnderLock
<1>. QED
  BY <1>1, LeaseOutlastsHold, PTL

(* However many waits want one lock, one of them at a time picks up under  *)
(* it (AG-05), but for those that asked before the store was made.         *)
THEOREM OneWaitAtATime == LeaseSpec => []OneAtATime
<1>1. LeaseInv /\ HeldWhileCounted /\ PickupUnderLock => OneAtATime
  <2>. SUFFICES ASSUME LeaseInv, HeldWhileCounted, PickupUnderLock,
                       NEW v \in Waits, NEW w \in Waits, Active(v), Active(w),
                       far[v].has # "lease", far[w].has # "lease"
                PROVE  v = w
    BY DEF OneAtATime
  <2>1. Leased(v) /\ Leased(w)
    BY DEF HeldWhileCounted, PickupUnderLock, Active
  <2>2. far[v].has \in Has /\ far[w].has \in Has
    BY DEF LeaseInv, LeaseTypeOK
  <2>3. Locked(v) /\ Locked(w)
    BY <2>1, <2>2 DEF Leased, Locked, Has
  <2>. QED
    BY <2>3 DEF LeaseInv, OneHolds
<1>. QED
  BY <1>1, LeaseOutlastsHold, WaitStopsFirst, PickupsUnderLock, PTL

=============================================================================
