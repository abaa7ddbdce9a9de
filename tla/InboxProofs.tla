----------------------------- MODULE InboxProofs -----------------------------
(***************************************************************************)
(* What an inbox shows, for any number of tabs, faults and changes of the  *)
(* store: no page shows older cases than its stream told it of (Inbox),    *)
(* and each notification is shown once, and none passed by (Notices).      *)
(***************************************************************************)
EXTENDS Inbox, Notices, FiniteSetTheorems, SequenceTheorems, WellFoundedInduction, TLAPS

-----------------------------------------------------------------------------
(* The inductive invariant *)

Versions == 0 .. store

Loads == [overtaken : BOOLEAN, read : [waiting : Versions, others : Versions]]

Pages ==
  [alive : BOOLEAN, version : Versions, dropped : BOOLEAN, loads : Seq(Loads),
   shown : [waiting : Versions, others : Versions], problem : BOOLEAN]

Senders ==
  [on : BOOLEAN, after : Versions, phase : {"look", "waiting", "sending", "gap"},
   unseen : BOOLEAN, message : Versions]

Sources == [state : {"closed", "connecting", "open"}, last : Versions, url : Versions]

InboxTyped ==
  /\ store \in 1 .. MaxStore /\ up \in BOOLEAN /\ snapshot \in Versions
  /\ sender \in [Tabs -> Senders] /\ wire \in [Tabs -> Seq(Versions)]
  /\ source \in [Tabs -> Sources]
  /\ holder \in Tabs \cup {NoTab}
  /\ tab \in [Tabs -> Pages]
  /\ mail \in [Tabs -> Seq(Versions \cup {Dropped})]

(* A read that may yet be shown is of no store before the version told.    *)
Reading(load, version) ==
  /\ load.read.others # NoVersion => load.read.waiting # NoVersion
  /\ ~load.overtaken =>
       /\ load.read.waiting = NoVersion \/ load.read.waiting >= version
       /\ load.read.others = NoVersion \/ load.read.others >= version

(***************************************************************************)
(* A page reads its lists in two reads at most, the first overtaken by the *)
(* second; one with no read that may be shown shows what it was told of,   *)
(* or that it could not read it.                                           *)
(***************************************************************************)
PageIsSo(tb) ==
  /\ Len(tb.loads) <= 2
  /\ Len(tb.loads) = 2 => tb.loads[1].overtaken
  /\ \A i \in 1 .. Len(tb.loads) : Reading(tb.loads[i], tb.version)
  /\ (\A i \in 1 .. Len(tb.loads) : tb.loads[i].overtaken) /\ ~tb.problem =>
       tb.shown.waiting >= tb.version /\ tb.shown.others >= tb.version

(* One tab has a stream, the holder's, and serve's end is on while it is open. *)
StreamIsSo(t) ==
  /\ source[t].state # "closed" <=> holder = t
  /\ sender[t].on <=> source[t].state = "open"
  /\ Len(wire[t]) <= WireSize

(* A tab that has closed reads nothing, and has no stream to be told by. *)
TabIsSo(t) ==
  IF tab[t].alive THEN PageIsSo(tab[t]) ELSE tab[t].loads = <<>> /\ holder # t

InboxInv ==
  /\ InboxTyped
  /\ \A t \in Tabs : StreamIsSo(t) /\ TabIsSo(t)

-----------------------------------------------------------------------------
(* The reads of a page *)

(* What a page has without one of its reads is the others. *)
LEMMA WithoutIs ==
  ASSUME NEW S, NEW loads \in Seq(S), NEW i \in 1 .. Len(loads)
  PROVE  /\ Without(loads, i) \in Seq(S) /\ Len(Without(loads, i)) = Len(loads) - 1
         /\ Len(loads) = 2 => Without(loads, i)[1] = loads[3 - i]
<1>. DEFINE before == SubSeq(loads, 1, i - 1)
            after == SubSeq(loads, i + 1, Len(loads))
<1>1. i \in Nat /\ Len(loads) \in Nat /\ i >= 1 /\ i <= Len(loads)
  OBVIOUS
<1>2. /\ before \in Seq(S) /\ Len(before) = i - 1
      /\ \A j \in 1 .. i - 1 : before[j] = loads[j]
  <2>1. \A j \in 1 .. i - 1 : loads[j] \in S
    BY <1>1
  <2>. QED
    BY <1>1, <2>1, SubSeqProperties
<1>3. /\ after \in Seq(S) /\ Len(after) = Len(loads) - i
      /\ \A j \in 1 .. Len(loads) - i : after[j] = loads[j + i]
  <2>1. \A j \in i + 1 .. Len(loads) : loads[j] \in S
    BY <1>1
  <2>2. /\ after \in Seq(S)
        /\ Len(after) = IF i + 1 <= Len(loads) THEN Len(loads) - (i + 1) + 1 ELSE 0
        /\ \A j \in 1 .. Len(loads) - (i + 1) + 1 : after[j] = loads[(i + 1) + j - 1]
    BY <1>1, <2>1, SubSeqProperties
  <2>. QED
    BY <1>1, <2>2
<1>. HIDE DEF before, after
<1>4. Without(loads, i) = before \o after
  BY DEF Without, before, after
<1>5. /\ before \o after \in Seq(S) /\ Len(before \o after) = Len(loads) - 1
      /\ \A j \in 1 .. Len(before) + Len(after) :
           (before \o after)[j] = IF j <= Len(before) THEN before[j] ELSE after[j - Len(before)]
  <2>1. /\ before \o after \in Seq(S) /\ Len(before \o after) = Len(before) + Len(after)
        /\ \A j \in 1 .. Len(before) + Len(after) :
             (before \o after)[j] = IF j <= Len(before) THEN before[j] ELSE after[j - Len(before)]
    BY <1>2, <1>3, ConcatProperties
  <2>2. Len(before) + Len(after) = Len(loads) - 1
    BY <1>1, <1>2, <1>3
  <2>. QED
    BY <2>1, <2>2
<1>6. CASE Len(loads) = 2 /\ i = 1
  <2>1. Len(before) = 0 /\ Len(after) = 1 /\ after[1] = loads[2]
    BY <1>2, <1>3, <1>6
  <2>2. (before \o after)[1] = loads[2]
    BY <1>5, <2>1
  <2>. QED
    BY <1>4, <1>5, <1>6, <2>2
<1>7. CASE Len(loads) = 2 /\ i = 2
  <2>1. Len(before) = 1 /\ Len(after) = 0 /\ before[1] = loads[1]
    BY <1>2, <1>3, <1>7
  <2>2. (before \o after)[1] = loads[1]
    BY <1>5, <2>1
  <2>. QED
    BY <1>4, <1>5, <1>7, <2>2
<1>8. Len(loads) = 2 => i = 1 \/ i = 2
  BY <1>1
<1>. QED
  BY <1>4, <1>5, <1>6, <1>7, <1>8

(* A page whose reads are so, whatever it was told since they began. *)
Loadable(tb) ==
  /\ Len(tb.loads) <= 2
  /\ \A i \in 1 .. Len(tb.loads) :
       tb.loads[i].read.others # NoVersion => tb.loads[i].read.waiting # NoVersion

(* A page that reads again has the new read, and one overtaken at most. *)
LEMMA LoadingIs ==
  ASSUME InboxTyped, NEW tb \in Pages, Loadable(tb)
  PROVE  /\ Loading(tb) \in Pages /\ PageIsSo(Loading(tb))
         /\ Loading(tb).version = tb.version /\ Loading(tb).alive = tb.alive
         /\ Loading(tb).dropped = tb.dropped
<1>1. /\ tb.loads \in Seq(Loads) /\ Len(tb.loads) \in Nat /\ Len(tb.loads) <= 2
      /\ DOMAIN tb.loads = 1 .. Len(tb.loads)
  <2>1. tb.loads \in Seq(Loads)
    BY DEF Pages
  <2>2. Len(tb.loads) <= 2
    BY DEF Loadable
  <2>3. Len(tb.loads) \in Nat /\ DOMAIN tb.loads = 1 .. Len(tb.loads)
    BY <2>1
  <2>. QED
    BY <2>1, <2>2, <2>3
<1>. DEFINE whole == {i \in DOMAIN tb.loads : tb.loads[i].read.others # NoVersion}
            last == CHOOSE i \in whole : \A j \in whole : j <= i
            kept == [tb.loads[last] EXCEPT !.overtaken = TRUE]
<1>2. NewLoad \in Loads /\ NewLoad.overtaken = FALSE
      /\ NewLoad.read.others = NoVersion /\ NewLoad.read.waiting = NoVersion
  BY DEF NewLoad, NoLists, Loads, Versions, NoVersion, InboxTyped
<1>3. CASE whole = {}
  <2>1. Loading(tb) = [tb EXCEPT !.loads = <<NewLoad>>]
    BY <1>3 DEF Loading
  <2>2. <<NewLoad>> \in Seq(Loads) /\ Len(<<NewLoad>>) = 1 /\ <<NewLoad>>[1] = NewLoad
    BY <1>2
  <2>3. Loading(tb) \in Pages /\ Loading(tb).loads = <<NewLoad>>
        /\ Loading(tb).version = tb.version /\ Loading(tb).alive = tb.alive
        /\ Loading(tb).dropped = tb.dropped
    BY <2>1, <2>2 DEF Pages
  <2>. QED
    BY <1>2, <2>2, <2>3 DEF PageIsSo, Reading
<1>4. CASE whole # {}
  <2>1. last \in whole
    <3>1. whole \subseteq {1, 2}
      BY <1>1
    <3>2. \E i \in whole : \A j \in whole : j <= i
      <4>. HIDE DEF whole
      <4>1. CASE 2 \in whole
        BY <3>1, <4>1
      <4>2. CASE 2 \notin whole
        <5>1. whole = {1}
          BY <1>4, <3>1, <4>2
        <5>. QED
          BY <5>1
      <4>. QED
        BY <4>1, <4>2
    <3>. HIDE DEF whole
    <3>. QED
      BY <3>2
  <2>2. last \in 1 .. Len(tb.loads) /\ tb.loads[last] \in Loads
    <3>. HIDE DEF last
    <3>. QED
      BY <1>1, <2>1
  <2>3. /\ kept \in Loads /\ kept.overtaken = TRUE
        /\ kept.read.others # NoVersion => kept.read.waiting # NoVersion
    <3>. HIDE DEF last
    <3>. QED
      BY <2>2 DEF Loadable, Loads
  <2>4. Loading(tb) = [tb EXCEPT !.loads = <<kept, NewLoad>>]
    BY <1>4 DEF Loading
  <2>. HIDE DEF kept
  <2>5. /\ <<kept, NewLoad>> \in Seq(Loads) /\ Len(<<kept, NewLoad>>) = 2
        /\ <<kept, NewLoad>>[1] = kept /\ <<kept, NewLoad>>[2] = NewLoad
    BY <1>2, <2>3
  <2>6. Loading(tb) \in Pages /\ Loading(tb).loads = <<kept, NewLoad>>
        /\ Loading(tb).version = tb.version /\ Loading(tb).alive = tb.alive
        /\ Loading(tb).dropped = tb.dropped
    BY <2>4, <2>5 DEF Pages
  <2>. QED
    BY <1>2, <2>3, <2>5, <2>6 DEF PageIsSo, Reading
<1>. QED
  BY <1>3, <1>4

(* A page told of a version reads again, and is so of that version. *)
LEMMA SeenIs ==
  ASSUME InboxTyped, NEW tb \in Pages, PageIsSo(tb), NEW v \in Versions
  PROVE  /\ Seen(tb, v) \in Pages /\ PageIsSo(Seen(tb, v))
         /\ Seen(tb, v).alive = tb.alive
<1>1. CASE v = tb.version
  BY <1>1 DEF Seen
<1>2. CASE v # tb.version
  <2>. DEFINE told == [tb EXCEPT !.version = v]
  <2>1. told \in Pages /\ told.loads = tb.loads /\ told.alive = tb.alive
    BY DEF Pages
  <2>2. Seen(tb, v) = Loading(told)
    BY <1>2 DEF Seen
  <2>. HIDE DEF told
  <2>3. Loadable(told)
    BY <2>1 DEF Loadable, PageIsSo, Reading
  <2>. QED
    BY <2>1, <2>2, <2>3, LoadingIs
<1>. QED
  BY <1>1, <1>2

(* A page without one of its reads, that says what became of it. *)
Ended(tb, i, drawn, problem) ==
  [tb EXCEPT !.loads = Without(tb.loads, i), !.shown = drawn, !.problem = problem]

LEMMA EndsRead ==
  ASSUME InboxTyped, NEW tb \in Pages, PageIsSo(tb), NEW i \in DOMAIN tb.loads,
         NEW drawn \in [waiting : Versions, others : Versions], NEW problem \in BOOLEAN,
         tb.loads[i].overtaken => drawn = tb.shown /\ problem = tb.problem,
         ~tb.loads[i].overtaken /\ ~problem =>
           drawn.waiting >= tb.version /\ drawn.others >= tb.version
  PROVE  LET after == Ended(tb, i, drawn, problem)
         IN  after \in Pages /\ PageIsSo(after) /\ after.alive = tb.alive
<1>. DEFINE after == Ended(tb, i, drawn, problem)
            loads == Without(tb.loads, i)
<1>1. /\ tb.loads \in Seq(Loads) /\ Len(tb.loads) \in Nat /\ i \in 1 .. Len(tb.loads)
      /\ Len(tb.loads) = 1 \/ Len(tb.loads) = 2
  <2>1. tb.loads \in Seq(Loads)
    BY DEF Pages
  <2>2. Len(tb.loads) <= 2
    BY DEF PageIsSo
  <2>3. Len(tb.loads) \in Nat /\ DOMAIN tb.loads = 1 .. Len(tb.loads)
    BY <2>1
  <2>4. i \in 1 .. Len(tb.loads)
    BY <2>3
  <2>5. \A n \in Nat : n <= 2 /\ i \in 1 .. n => n = 1 \/ n = 2
    OBVIOUS
  <2>. QED
    BY <2>1, <2>2, <2>3, <2>4, <2>5
<1>2. /\ loads \in Seq(Loads) /\ Len(loads) = Len(tb.loads) - 1
      /\ Len(tb.loads) = 2 => loads[1] = tb.loads[3 - i]
  BY <1>1, WithoutIs
<1>. HIDE DEF loads
<1>3. /\ after \in Pages /\ after.alive = tb.alive /\ after.loads = loads /\ after.shown = drawn
      /\ after.problem = problem /\ after.version = tb.version
  BY <1>2 DEF Pages, loads, Ended
<1>. HIDE DEF after
<1>4. ASSUME tb.loads[i].overtaken
      PROVE  PageIsSo(after)
  <2>1. after.shown = tb.shown /\ after.problem = tb.problem
    BY <1>3, <1>4
  <2>2. CASE Len(tb.loads) = 1
    <3>1. i = 1 /\ Len(after.loads) = 0
      BY <1>1, <1>2, <1>3, <2>2
    <3>2. (\A n \in 1 .. Len(tb.loads) : tb.loads[n].overtaken)
      BY <1>4, <2>2, <3>1
    <3>. QED
      BY <1>3, <2>1, <3>1, <3>2 DEF PageIsSo
  <2>3. CASE Len(tb.loads) = 2
    <3>1. /\ Len(after.loads) = 1 /\ after.loads[1] = tb.loads[3 - i] /\ 3 - i \in 1 .. 2
          /\ i \in 1 .. 2
      BY <1>1, <1>2, <1>3, <2>3
    <3>2. Reading(after.loads[1], after.version)
      BY <1>3, <2>3, <3>1 DEF PageIsSo
    <3>3. after.loads[1].overtaken => \A n \in 1 .. Len(tb.loads) : tb.loads[n].overtaken
      BY <1>4, <2>3, <3>1
    <3>4. (\A n \in 1 .. Len(tb.loads) : tb.loads[n].overtaken) /\ ~tb.problem =>
             tb.shown.waiting >= tb.version /\ tb.shown.others >= tb.version
      BY DEF PageIsSo
    <3>. QED
      BY <1>3, <2>1, <3>1, <3>2, <3>3, <3>4 DEF PageIsSo
  <2>. QED
    BY <1>1, <2>2, <2>3
<1>5. ASSUME ~tb.loads[i].overtaken
      PROVE  PageIsSo(after)
  <2>1. ~after.problem => after.shown.waiting >= after.version /\ after.shown.others >= after.version
    BY <1>3, <1>5
  <2>2. CASE Len(tb.loads) = 1
    <3>1. Len(after.loads) = 0
      BY <1>1, <1>2, <1>3, <2>2
    <3>. QED
      BY <1>3, <2>1, <3>1 DEF PageIsSo
  <2>3. CASE Len(tb.loads) = 2
    <3>1. /\ Len(after.loads) = 1 /\ after.loads[1] = tb.loads[3 - i] /\ 3 - i \in 1 .. 2
      BY <1>1, <1>2, <1>3, <2>3
    <3>2. Reading(after.loads[1], after.version)
      BY <1>3, <2>3, <3>1 DEF PageIsSo
    <3>. QED
      BY <1>3, <2>1, <3>1, <3>2 DEF PageIsSo
  <2>. QED
    BY <1>1, <2>2, <2>3
<1>. QED
  BY <1>3, <1>4, <1>5 DEF after, loads

-----------------------------------------------------------------------------
(* Steps *)

(* A step that moves no tab and no lock leaves the tabs as they are. *)
LEMMA TabsStay ==
  ASSUME InboxInv, UNCHANGED <<store, holder, tab>>, InboxTyped',
         \A t \in Tabs : StreamIsSo(t)'
  PROVE  InboxInv'
<1>1. \A t \in Tabs : TabIsSo(t)'
  BY DEF InboxInv, TabIsSo
<1>. QED
  BY <1>1 DEF InboxInv

(* A step may give one page another that is so. *)
LEMMA PageMoves ==
  ASSUME InboxInv, UNCHANGED <<store, holder>>, NEW t \in Tabs, tab[t].alive,
         NEW tb \in Pages, PageIsSo(tb), tb.alive, tab' = [tab EXCEPT ![t] = tb]
  PROVE  /\ tab' \in [Tabs -> Pages'] /\ \A u \in Tabs : TabIsSo(u)'
<1>1. tab' \in [Tabs -> Pages] /\ Pages' = Pages
  BY DEF InboxInv, InboxTyped, Pages, Loads, Versions
<1>2. \A u \in Tabs : tab'[u] = IF u = t THEN tb ELSE tab[u]
  BY DEF InboxInv, InboxTyped
<1>3. \A u \in Tabs : TabIsSo(u)'
  BY <1>2 DEF InboxInv, TabIsSo
<1>. QED
  BY <1>1, <1>3

(* The streams stay as they are. *)
LEMMA StreamsStay ==
  ASSUME InboxInv, UNCHANGED <<store, up, snapshot, sender, wire, source, holder>>,
         mail' \in [Tabs -> Seq(Versions \cup {Dropped})],
         NEW t \in Tabs, tab[t].alive,
         NEW tb \in Pages, PageIsSo(tb), tb.alive, tab' = [tab EXCEPT ![t] = tb]
  PROVE  InboxInv'
<1>1. tab' \in [Tabs -> Pages'] /\ \A u \in Tabs : TabIsSo(u)'
  BY PageMoves
<1>2. Versions' = Versions /\ Senders' = Senders /\ Sources' = Sources /\ Pages' = Pages
  BY DEF Versions, Senders, Sources, Pages, Loads
<1>3. InboxTyped'
  BY <1>1, <1>2 DEF InboxInv, InboxTyped
<1>4. \A u \in Tabs : StreamIsSo(u)'
  BY DEF InboxInv, StreamIsSo
<1>. QED
  BY <1>1, <1>3, <1>4 DEF InboxInv

LEMMA StoreMovesOn == InboxInv /\ StoreMoves => InboxInv'
<1>. SUFFICES ASSUME InboxInv, StoreMoves PROVE InboxInv'
  OBVIOUS
<1>1. store \in Nat /\ store' = store + 1 /\ store' \in 1 .. MaxStore
  BY InboxAssumption DEF InboxInv, InboxTyped, StoreMoves
<1>2. Versions \subseteq Versions'
  BY <1>1 DEF Versions
<1>. HIDE DEF Versions
<1>3. Loads \subseteq Loads'
  BY <1>2 DEF Loads
<1>4. Seq(Loads) \subseteq Seq(Loads') /\ Seq(Versions) \subseteq Seq(Versions')
      /\ Seq(Versions \cup {Dropped}) \subseteq Seq(Versions' \cup {Dropped})
  BY <1>2, <1>3
<1>5. Pages \subseteq Pages' /\ Senders \subseteq Senders' /\ Sources \subseteq Sources'
  BY <1>2, <1>3, <1>4 DEF Pages, Senders, Sources
<1>6. InboxTyped'
  BY <1>1, <1>2, <1>4, <1>5 DEF InboxInv, InboxTyped, StoreMoves
<1>7. \A t \in Tabs : StreamIsSo(t)'
  BY DEF InboxInv, StreamIsSo, StoreMoves
<1>8. \A t \in Tabs : TabIsSo(t)'
  BY DEF InboxInv, TabIsSo, StoreMoves
<1>. QED
  BY <1>6, <1>7, <1>8 DEF InboxInv

(* A read of the store marks what the streams have not seen. *)
LEMMA ReadIs ==
  ASSUME InboxTyped, Read, UNCHANGED store
  PROVE  /\ snapshot' \in Versions
         /\ sender' \in [Tabs -> Senders]
         /\ \A t \in Tabs : sender'[t].on = sender[t].on
<1>1. snapshot' = store /\ store \in Versions
  BY DEF Read, InboxTyped, Versions
<1>2. CASE snapshot = store
  BY <1>1, <1>2 DEF Read, Published, InboxTyped
<1>3. CASE snapshot # store
  <2>1. sender' = [t \in Tabs |-> [sender[t] EXCEPT !.unseen = @ \/ sender[t].on]]
    BY <1>3 DEF Read, Published
  <2>. QED
    BY <1>1, <2>1 DEF InboxTyped, Senders
<1>. QED
  BY <1>2, <1>3

LEMMA ServeReadsSo == InboxInv /\ ServeReads => InboxInv'
<1>. SUFFICES ASSUME InboxInv, ServeReads PROVE InboxInv'
  OBVIOUS
<1>1. /\ Read /\ InboxTyped
      /\ UNCHANGED <<store, up, wire, source, holder, tab, mail>>
  BY DEF ServeReads, InboxInv
<1>2. InboxTyped'
  BY <1>1, ReadIs DEF InboxTyped, Versions, Senders, Sources, Pages, Loads
<1>3. \A t \in Tabs : StreamIsSo(t)'
  BY <1>1, ReadIs DEF InboxInv, StreamIsSo
<1>. QED
  BY <1>1, <1>2, <1>3, TabsStay

LEMMA Streams == InboxInv /\ (\E t \in Tabs : StreamStep(t)) => InboxInv'
<1>. SUFFICES ASSUME InboxInv, NEW t \in Tabs, StreamStep(t) PROVE InboxInv'
  OBVIOUS
<1>1. /\ InboxTyped /\ sender \in [Tabs -> Senders] /\ snapshot \in Versions
      /\ wire \in [Tabs -> Seq(Versions)] /\ sender[t] \in Senders
      /\ wire[t] \in Seq(Versions) /\ Len(wire[t]) \in Nat /\ NoVersion \in Versions
  <2>1. sender \in [Tabs -> Senders] /\ wire \in [Tabs -> Seq(Versions)]
    BY DEF InboxInv, InboxTyped
  <2>2. sender[t] \in Senders
    BY <2>1
  <2>3. wire[t] \in Seq(Versions) /\ Len(wire[t]) \in Nat
    BY <2>1
  <2>4. InboxTyped /\ snapshot \in Versions
    BY DEF InboxInv, InboxTyped
  <2>5. NoVersion \in Versions
    BY <2>4 DEF InboxTyped, Versions, NoVersion
  <2>. QED
    BY <2>1, <2>2, <2>3, <2>4, <2>5
<1>2. UNCHANGED <<store, up, snapshot, source, holder, tab, mail, faults>>
  BY DEF StreamStep, Look, SendVersion, GapEnds, Moved
<1>3. ASSUME sender' \in [Tabs -> Senders], wire' \in [Tabs -> Seq(Versions)],
             \A u \in Tabs : sender'[u].on = sender[u].on /\ Len(wire'[u]) <= WireSize
      PROVE  InboxInv'
  <2>1. InboxTyped'
    BY <1>1, <1>2, <1>3 DEF InboxTyped, Versions, Senders, Sources, Pages, Loads
  <2>2. \A u \in Tabs : StreamIsSo(u)'
    BY <1>2, <1>3 DEF InboxInv, StreamIsSo
  <2>. QED
    BY <1>2, <2>1, <2>2, TabsStay
<1>4. ASSUME NEW s \in Senders, s.on = sender[t].on, sender' = [sender EXCEPT ![t] = s],
             wire' = wire
      PROVE  InboxInv'
  <2>1. sender' \in [Tabs -> Senders] /\ \A u \in Tabs : sender'[u].on = sender[u].on
    BY <1>1, <1>4
  <2>2. \A u \in Tabs : Len(wire'[u]) <= WireSize
    BY <1>4 DEF InboxInv, StreamIsSo
  <2>. QED
    BY <1>1, <1>3, <1>4, <2>1, <2>2
<1>5. ASSUME NEW v \in Versions, Sends(t, v), Len(wire[t]) < WireSize
      PROVE  InboxInv'
  <2>. DEFINE unseen == sender[t].unseen /\ sender[t].phase = "sending"
              s == [sender[t] EXCEPT !.phase = "gap", !.after = v, !.message = NoVersion,
                                     !.unseen = unseen]
  <2>1. sender' = [sender EXCEPT ![t] = s] /\ wire' = [wire EXCEPT ![t] = Append(wire[t], v)]
    BY <1>5 DEF Sends
  <2>2. s \in Senders /\ s.on = sender[t].on
    BY <1>1 DEF Senders
  <2>. HIDE DEF s
  <2>3. Append(wire[t], v) \in Seq(Versions) /\ Len(Append(wire[t], v)) = Len(wire[t]) + 1
    BY <1>1, AppendProperties
  <2>4. Len(Append(wire[t], v)) <= WireSize
    BY <1>1, <1>5, <2>3 DEF WireSize
  <2>5. \A u \in Tabs : Len(wire'[u]) <= WireSize
    BY <1>1, <2>1, <2>4 DEF InboxInv, StreamIsSo
  <2>6. sender' \in [Tabs -> Senders] /\ \A u \in Tabs : sender'[u].on = sender[u].on
    BY <1>1, <2>1, <2>2
  <2>7. wire' \in [Tabs -> Seq(Versions)]
    BY <1>1, <2>1, <2>3
  <2>. QED
    BY <1>3, <2>5, <2>6, <2>7
<1>6. CASE Look(t)
  <2>1. CASE snapshot = sender[t].after
    <3>. DEFINE s == [sender[t] EXCEPT !.phase = "waiting", !.unseen = FALSE]
    <3>1. sender' = [sender EXCEPT ![t] = s] /\ wire' = wire
      BY <1>1, <1>6, <2>1 DEF Look
    <3>2. s \in Senders /\ s.on = sender[t].on
      BY <1>1 DEF Senders
    <3>. QED
      BY <1>4, <3>1, <3>2
  <2>2. CASE snapshot # sender[t].after /\ Len(wire[t]) < WireSize
    BY <1>1, <1>5, <1>6, <2>2 DEF Look
  <2>3. CASE snapshot # sender[t].after /\ ~(Len(wire[t]) < WireSize)
    <3>. DEFINE s == [sender[t] EXCEPT !.phase = "sending", !.unseen = FALSE,
                                       !.message = snapshot]
    <3>1. sender' = [sender EXCEPT ![t] = s] /\ wire' = wire
      BY <1>1, <1>6, <2>3 DEF Look
    <3>2. s \in Senders /\ s.on = sender[t].on
      BY <1>1 DEF Senders
    <3>. QED
      BY <1>4, <3>1, <3>2
  <2>. QED
    BY <2>1, <2>2, <2>3
<1>7. CASE SendVersion(t)
  <2>1. sender[t].message \in Versions
    BY <1>1 DEF Senders
  <2>. QED
    BY <1>5, <1>7, <2>1 DEF SendVersion
<1>8. CASE GapEnds(t) \/ Moved(t)
  <2>. DEFINE s == [sender[t] EXCEPT !.phase = "look"]
  <2>1. sender' = [sender EXCEPT ![t] = s] /\ wire' = wire
    BY <1>8 DEF GapEnds, Moved, AfterGap
  <2>2. s \in Senders /\ s.on = sender[t].on
    BY <1>1 DEF Senders
  <2>. QED
    BY <1>4, <2>1, <2>2
<1>. QED
  BY <1>6, <1>7, <1>8 DEF StreamStep

(* The tabs a message is told to keep their mail typed. *)
LEMMA TellsIs ==
  ASSUME InboxTyped, NEW others, NEW message \in Versions \cup {Dropped}
  PROVE  Tells(others, message) \in [Tabs -> Seq(Versions \cup {Dropped})]
<1>1. \A u \in Tabs : /\ mail[u] \in Seq(Versions \cup {Dropped})
                     /\ Append(mail[u], message) \in Seq(Versions \cup {Dropped})
  BY AppendProperties DEF InboxTyped
<1>. QED
  BY <1>1 DEF Tells

(* A page is typed, and one whose tab is closed reads nothing. *)
LEMMA PageOf ==
  ASSUME InboxInv, NEW t \in Tabs
  PROVE  /\ tab[t] \in Pages /\ tab \in [Tabs -> Pages]
         /\ tab[t].alive => PageIsSo(tab[t]) /\ Loadable(tab[t])
         /\ tab[t].loads # <<>> => tab[t].alive
         /\ source[t].state # "closed" => tab[t].alive
         /\ mail \in [Tabs -> Seq(Versions \cup {Dropped})]
BY DEF InboxInv, InboxTyped, TabIsSo, StreamIsSo, PageIsSo, Loadable, Reading

LEMMA ReadsListSo ==
  ASSUME InboxInv, NEW t \in Tabs, NEW i \in DOMAIN tab[t].loads,
         NEW list \in DOMAIN NoLists, ReadsList(t, i, list)
  PROVE  InboxInv'
<1>1. /\ Read /\ InboxTyped /\ UNCHANGED <<store, up, wire, source, holder, mail>>
      /\ tab[t].loads[i].read[list] = NoVersion
      /\ list = "others" => tab[t].loads[i].read.waiting # NoVersion
      /\ tab' = [tab EXCEPT ![t].loads[i].read[list] = store]
  BY DEF ReadsList, InboxInv
<1>2. /\ list = "waiting" \/ list = "others"
      /\ tab[t].loads \in Seq(Loads) /\ tab[t] \in Pages /\ tab[t].alive
      /\ PageIsSo(tab[t]) /\ tab \in [Tabs -> Pages]
  <2>1. tab[t] \in Pages /\ tab[t].loads # <<>>
    BY PageOf
  <2>. QED
    BY <2>1, PageOf DEF NoLists, Pages
<1>3. i \in 1 .. Len(tab[t].loads) /\ tab[t].loads[i] \in Loads /\ Len(tab[t].loads) \in Nat
  BY <1>2
<1>. DEFINE read == [tab[t].loads[i].read EXCEPT ![list] = store]
            load == [tab[t].loads[i] EXCEPT !.read = read]
            loads == [tab[t].loads EXCEPT ![i] = load]
            tb == [tab[t] EXCEPT !.loads = loads]
<1>4. tab' = [tab EXCEPT ![t] = tb]
  BY <1>1, <1>2
<1>5. store \in Versions /\ store >= 1
  BY <1>1 DEF InboxTyped, Versions, Senders, Sources
<1>6. /\ read \in [waiting : Versions, others : Versions]
      /\ list = "waiting" => read.waiting = store /\ read.others = tab[t].loads[i].read.others
      /\ list = "others" => read.others = store /\ read.waiting = tab[t].loads[i].read.waiting
  BY <1>2, <1>3, <1>5 DEF Loads
<1>. HIDE DEF read
<1>7. load \in Loads /\ load.read = read /\ load.overtaken = tab[t].loads[i].overtaken
  BY <1>3, <1>6 DEF Loads
<1>. HIDE DEF load
<1>8. /\ loads \in Seq(Loads) /\ Len(loads) = Len(tab[t].loads) /\ loads[i] = load
      /\ \A j \in 1 .. Len(tab[t].loads) : j # i => loads[j] = tab[t].loads[j]
  <2>1. loads \in Seq(Loads) /\ Len(loads) = Len(tab[t].loads)
    BY <1>2, <1>3, <1>7, ExceptSeq
  <2>. QED
    BY <1>2, <1>3, <2>1
<1>. HIDE DEF loads
<1>9. /\ tb \in Pages /\ tb.loads = loads /\ tb.version = tab[t].version /\ tb.alive
      /\ tb.problem = tab[t].problem /\ tb.shown = tab[t].shown
  BY <1>2, <1>8 DEF Pages
<1>. HIDE DEF tb
<1>10. Reading(load, tb.version)
  <2>1. Reading(tab[t].loads[i], tab[t].version)
    BY <1>2, <1>3 DEF PageIsSo
  <2>2. tab[t].version <= store
    BY <1>2, <1>5 DEF Pages, Versions
  <2>3. CASE list = "waiting"
    BY <1>1, <1>5, <1>6, <1>7, <1>9, <2>1, <2>2, <2>3 DEF Reading, NoVersion
  <2>4. CASE list = "others"
    BY <1>1, <1>5, <1>6, <1>7, <1>9, <2>1, <2>2, <2>4 DEF Reading, NoVersion
  <2>. QED
    BY <1>2, <2>3, <2>4
<1>11. PageIsSo(tb)
  <2>1. \A j \in 1 .. Len(tb.loads) :
          Reading(tb.loads[j], tb.version) /\ tb.loads[j].overtaken = tab[t].loads[j].overtaken
    BY <1>2, <1>7, <1>8, <1>9, <1>10 DEF PageIsSo
  <2>2. Len(tb.loads) = Len(tab[t].loads)
    BY <1>8, <1>9
  <2>. QED
    BY <1>2, <1>9, <2>1, <2>2 DEF PageIsSo
<1>12. tab' \in [Tabs -> Pages'] /\ \A u \in Tabs : TabIsSo(u)'
  BY <1>1, <1>2, <1>4, <1>9, <1>11, PageMoves
<1>13. InboxTyped'
  BY <1>1, <1>12, ReadIs DEF InboxTyped, Versions, Senders, Sources
<1>14. \A u \in Tabs : StreamIsSo(u)'
  BY <1>1, ReadIs DEF InboxInv, StreamIsSo
<1>. QED
  BY <1>12, <1>13, <1>14 DEF InboxInv

LEMMA Loaded == InboxInv /\ (\E t \in Tabs : Load(t)) => InboxInv'
<1>. SUFFICES ASSUME InboxInv, NEW t \in Tabs, NEW i \in DOMAIN tab[t].loads,
                     \/ \E list \in DOMAIN NoLists : ReadsList(t, i, list)
                     \/ Shows(t, i) \/ LoadFails(t, i)
              PROVE  InboxInv'
  BY DEF Load
<1>1. /\ tab[t] \in Pages /\ tab \in [Tabs -> Pages] /\ tab[t].alive /\ PageIsSo(tab[t])
      /\ tab[t].loads \in Seq(Loads) /\ tab[t].loads[i] \in Loads /\ InboxTyped
      /\ mail \in [Tabs -> Seq(Versions \cup {Dropped})]
  <2>1. tab[t] \in Pages /\ tab[t].loads \in Seq(Loads)
    BY PageOf DEF Pages
  <2>2. tab[t].loads # <<>>
    OBVIOUS
  <2>3. tab[t].alive
    BY <2>2, PageOf
  <2>4. tab[t].loads[i] \in Loads
    BY <2>1
  <2>. QED
    BY <2>1, <2>3, <2>4, PageOf DEF InboxInv
<1>2. Reading(tab[t].loads[i], tab[t].version)
  <2>1. i \in 1 .. Len(tab[t].loads)
    BY <1>1
  <2>. QED
    BY <1>1, <2>1 DEF PageIsSo
<1>3. CASE \E list \in DOMAIN NoLists : ReadsList(t, i, list)
  BY <1>3, ReadsListSo
<1>4. ASSUME NEW drawn \in [waiting : Versions, others : Versions], NEW problem \in BOOLEAN,
             tab[t].loads[i].overtaken => drawn = tab[t].shown /\ problem = tab[t].problem,
             ~tab[t].loads[i].overtaken /\ ~problem =>
               drawn.waiting >= tab[t].version /\ drawn.others >= tab[t].version,
             tab' = [tab EXCEPT ![t] = Ended(tab[t], i, drawn, problem)],
             UNCHANGED <<store, up, snapshot, sender, wire, source, holder, mail>>
      PROVE  InboxInv'
  <2>. DEFINE after == Ended(tab[t], i, drawn, problem)
  <2>1. after \in Pages /\ PageIsSo(after) /\ after.alive = tab[t].alive
    BY <1>1, <1>4, EndsRead
  <2>2. tab' = [tab EXCEPT ![t] = after]
    BY <1>4
  <2>. HIDE DEF after
  <2>3. mail' \in [Tabs -> Seq(Versions \cup {Dropped})]
    BY <1>1, <1>4
  <2>. QED
    BY <1>1, <1>4, <2>1, <2>2, <2>3, StreamsStay
<1>5. CASE Shows(t, i)
  <2>. DEFINE drawn == IF IsLatest(tab[t], i) THEN tab[t].loads[i].read ELSE tab[t].shown
              problem == IF IsLatest(tab[t], i) THEN FALSE ELSE tab[t].problem
  <2>1. /\ tab' = [tab EXCEPT ![t] = Ended(tab[t], i, drawn, problem)]
        /\ UNCHANGED <<store, up, snapshot, sender, wire, source, holder, mail>>
        /\ tab[t].loads[i].read.others # NoVersion
    BY <1>1, <1>5 DEF Shows, Ended
  <2>2. drawn \in [waiting : Versions, others : Versions]
    BY <1>1 DEF Pages, Loads
  <2>3. problem \in BOOLEAN
    BY <1>1 DEF Pages
  <2>4. tab[t].loads[i].overtaken => drawn = tab[t].shown /\ problem = tab[t].problem
    BY DEF IsLatest
  <2>5. ~tab[t].loads[i].overtaken /\ ~problem =>
          drawn.waiting >= tab[t].version /\ drawn.others >= tab[t].version
    BY <1>2, <2>1 DEF IsLatest, Reading
  <2>. HIDE DEF drawn, problem
  <2>. QED
    BY <1>4, <2>1, <2>2, <2>3, <2>4, <2>5
<1>6. CASE LoadFails(t, i)
  <2>. DEFINE problem == IF IsLatest(tab[t], i) THEN TRUE ELSE tab[t].problem
  <2>1. tab[t].shown \in [waiting : Versions, others : Versions]
    BY <1>1 DEF Pages
  <2>2. /\ tab' = [tab EXCEPT ![t] = Ended(tab[t], i, tab[t].shown, problem)]
        /\ UNCHANGED <<store, up, snapshot, sender, wire, source, holder, mail>>
    BY <1>1, <1>6, ZenonT(30) DEF LoadFails, Pages, Ended
  <2>3. problem \in BOOLEAN
    BY <1>1 DEF Pages
  <2>4. /\ tab[t].loads[i].overtaken => problem = tab[t].problem
        /\ ~tab[t].loads[i].overtaken => problem
    BY DEF IsLatest
  <2>. HIDE DEF problem
  <2>. QED
    BY <1>4, <2>1, <2>2, <2>3, <2>4
<1>. QED
  BY <1>3, <1>5, <1>6

LEMMA Told == InboxInv /\ (\E t \in Tabs : Message(t) \/ Mail(t) \/ Minute(t)) => InboxInv'
<1>. SUFFICES ASSUME InboxInv, NEW t \in Tabs, Message(t) \/ Mail(t) \/ Minute(t)
              PROVE  InboxInv'
  OBVIOUS
<1>1. /\ tab[t] \in Pages /\ tab \in [Tabs -> Pages] /\ InboxTyped
      /\ mail \in [Tabs -> Seq(Versions \cup {Dropped})]
      /\ tab[t].alive => PageIsSo(tab[t]) /\ Loadable(tab[t])
  BY PageOf DEF InboxInv
<1>2. CASE Message(t)
  <2>. DEFINE version == Head(wire[t])
  <2>1. /\ source[t].state = "open" /\ wire[t] # <<>>
        /\ wire' = [wire EXCEPT ![t] = Tail(wire[t])]
        /\ source' = [source EXCEPT ![t].last = version]
        /\ mail' = Tells(Tabs \ {t}, version)
        /\ tab' = [tab EXCEPT ![t] = Seen(tab[t], version)]
        /\ UNCHANGED <<store, up, snapshot, sender, holder>>
    BY <1>2 DEF Message
  <2>2. /\ wire[t] \in Seq(Versions) /\ version \in Versions /\ Tail(wire[t]) \in Seq(Versions)
        /\ Len(wire[t]) \in Nat /\ Len(Tail(wire[t])) = Len(wire[t]) - 1
    <3>1. wire[t] \in Seq(Versions)
      BY <1>1 DEF InboxTyped
    <3>. QED
      BY <2>1, <3>1, HeadTailProperties
  <2>. HIDE DEF version
  <2>3. tab[t].alive
    <3>1. source[t].state # "closed"
      BY <2>1
    <3>. QED
      BY <3>1, PageOf
  <2>. DEFINE seen == Seen(tab[t], version)
  <2>4. seen \in Pages /\ PageIsSo(seen) /\ seen.alive
    BY <1>1, <2>2, <2>3, SeenIs
  <2>5. tab' = [tab EXCEPT ![t] = seen]
    BY <2>1
  <2>. HIDE DEF seen
  <2>6. tab' \in [Tabs -> Pages'] /\ \A u \in Tabs : TabIsSo(u)'
    BY <2>1, <2>3, <2>4, <2>5, PageMoves
  <2>7. mail' \in [Tabs -> Seq(Versions \cup {Dropped})]
    BY <1>1, <2>1, <2>2, TellsIs
  <2>8. wire' \in [Tabs -> Seq(Versions)]
    BY <1>1, <2>1, <2>2 DEF InboxTyped
  <2>9. InboxTyped'
    <3>1. Versions' = Versions /\ Senders' = Senders /\ Sources' = Sources
      BY <2>1 DEF Versions, Senders, Sources
    <3>2. source' \in [Tabs -> Sources]
      BY <1>1, <2>1, <2>2 DEF InboxTyped, Sources
    <3>. QED
      BY <1>1, <2>1, <2>6, <2>7, <2>8, <3>1, <3>2 DEF InboxTyped
  <2>10. \A u \in Tabs : StreamIsSo(u)'
    <3>. SUFFICES ASSUME NEW u \in Tabs PROVE StreamIsSo(u)'
      OBVIOUS
    <3>1. source'[u].state = source[u].state
      BY <1>1, <2>1 DEF InboxTyped
    <3>2. Len(wire'[u]) <= WireSize
      BY <1>1, <2>1, <2>2 DEF InboxInv, InboxTyped, StreamIsSo, WireSize
    <3>. QED
      BY <2>1, <3>1, <3>2 DEF InboxInv, StreamIsSo
  <2>. QED
    BY <2>6, <2>9, <2>10 DEF InboxInv
<1>3. CASE Mail(t)
  <2>. DEFINE message == Head(mail[t])
              tb == IF message = Dropped THEN Loading(tab[t]) ELSE Seen(tab[t], message)
  <2>1. /\ tab[t].alive /\ mail[t] # <<>>
        /\ mail' = [mail EXCEPT ![t] = Tail(mail[t])]
        /\ tab' = [tab EXCEPT ![t] = tb]
        /\ UNCHANGED <<store, up, snapshot, sender, wire, source, holder>>
    BY <1>3 DEF Mail
  <2>2. /\ message \in Versions \cup {Dropped}
        /\ Tail(mail[t]) \in Seq(Versions \cup {Dropped})
    <3>1. mail[t] \in Seq(Versions \cup {Dropped})
      BY <1>1
    <3>. QED
      BY <2>1, <3>1, HeadTailProperties
  <2>. HIDE DEF message
  <2>3. tb \in Pages /\ PageIsSo(tb) /\ tb.alive
    <3>1. CASE message = Dropped
      BY <1>1, <2>1, <3>1, LoadingIs
    <3>2. CASE message # Dropped
      BY <1>1, <2>1, <2>2, <3>2, SeenIs
    <3>. QED
      BY <3>1, <3>2
  <2>. HIDE DEF tb
  <2>4. mail' \in [Tabs -> Seq(Versions \cup {Dropped})]
    BY <1>1, <2>1, <2>2
  <2>. QED
    BY <2>1, <2>3, <2>4, StreamsStay
<1>4. CASE Minute(t)
  <2>. DEFINE tb == Loading(tab[t])
  <2>1. /\ tab[t].alive /\ tab' = [tab EXCEPT ![t] = tb]
        /\ UNCHANGED <<store, up, snapshot, sender, wire, source, holder, mail>>
    BY <1>4 DEF Minute
  <2>2. tb \in Pages /\ PageIsSo(tb) /\ tb.alive
    BY <1>1, <2>1, LoadingIs
  <2>. HIDE DEF tb
  <2>3. mail' \in [Tabs -> Seq(Versions \cup {Dropped})]
    BY <1>1, <2>1
  <2>. QED
    BY <2>1, <2>2, <2>3, StreamsStay
<1>. QED
  BY <1>2, <1>3, <1>4

LEMMA NothingIs ==
  ASSUME InboxTyped
  PROVE  NoVersion \in Versions /\ store \in Versions /\ NoSender \in Senders
         /\ NoSource \in Sources /\ NoSender.on = FALSE /\ NoSource.state = "closed"
<1>1. NoVersion \in Versions /\ store \in Versions
  BY DEF InboxTyped, Versions, NoVersion
<1>. QED
  BY <1>1 DEF NoSender, NoSource, Senders, Sources

LEMMA Opens ==
  ASSUME InboxInv, NEW t \in Tabs, TakesLock(t) \/ ConnectFails(t)
  PROVE  InboxInv'
<1>1. /\ InboxTyped /\ tab \in [Tabs -> Pages] /\ tab[t] \in Pages
      /\ source \in [Tabs -> Sources] /\ NoVersion \in Versions /\ tab[t].version \in Versions
  BY PageOf, NothingIs DEF InboxInv, InboxTyped, Pages
<1>2. CASE TakesLock(t)
  <2>. DEFINE opened == [state |-> "connecting", last |-> NoVersion, url |-> tab[t].version]
  <2>1. /\ holder = NoTab /\ tab[t].alive /\ holder' = t
        /\ source' = [source EXCEPT ![t] = opened]
        /\ UNCHANGED <<store, up, snapshot, sender, wire, tab, mail>>
    BY <1>2 DEF TakesLock
  <2>2. opened \in Sources /\ opened.state = "connecting"
    BY <1>1 DEF Sources
  <2>. HIDE DEF opened
  <2>3. source' \in [Tabs -> Sources]
    BY <1>1, <2>1, <2>2
  <2>4. /\ Sources' = Sources /\ Senders' = Senders
        /\ Versions' = Versions /\ Pages' = Pages
    BY <2>1 DEF Sources, Senders, Versions, Pages, Loads
  <2>5. InboxTyped'
    BY <1>1, <2>1, <2>3, <2>4 DEF InboxTyped
  <2>6. \A u \in Tabs : StreamIsSo(u)'
    <3>. SUFFICES ASSUME NEW u \in Tabs PROVE StreamIsSo(u)'
      OBVIOUS
    <3>1. source[u].state = "closed" /\ sender[u].on = FALSE /\ Len(wire[u]) <= WireSize
      BY <1>1, <2>1, NoTabAssumption DEF InboxInv, StreamIsSo, InboxTyped
    <3>2. CASE u = t
      BY <1>1, <2>1, <2>2, <3>1, <3>2 DEF StreamIsSo
    <3>3. CASE u # t
      BY <1>1, <2>1, <3>1, <3>3 DEF StreamIsSo
    <3>. QED
      BY <3>2, <3>3
  <2>7. \A u \in Tabs : TabIsSo(u)'
    BY <2>1 DEF InboxInv, TabIsSo
  <2>. QED
    BY <2>5, <2>6, <2>7 DEF InboxInv
<1>3. CASE ConnectFails(t)
  <2>. DEFINE tb == [tab[t] EXCEPT !.dropped = TRUE]
  <2>1. /\ source[t].state = "connecting" /\ tab' = [tab EXCEPT ![t] = tb]
        /\ UNCHANGED <<store, up, snapshot, sender, wire, source, holder, mail>>
    BY <1>1, <1>3 DEF ConnectFails
  <2>2. tab[t].alive /\ PageIsSo(tab[t]) /\ mail \in [Tabs -> Seq(Versions \cup {Dropped})]
    <3>1. source[t].state # "closed"
      BY <2>1
    <3>. QED
      BY <3>1, PageOf
  <2>3. /\ tb \in Pages /\ tb.alive /\ tb.loads = tab[t].loads /\ tb.version = tab[t].version
        /\ tb.shown = tab[t].shown /\ tb.problem = tab[t].problem
    BY <1>1, <2>2 DEF Pages
  <2>. HIDE DEF tb
  <2>4. PageIsSo(tb)
    BY <2>2, <2>3 DEF PageIsSo
  <2>5. mail' \in [Tabs -> Seq(Versions \cup {Dropped})]
    BY <2>1, <2>2
  <2>. QED
    BY <2>1, <2>2, <2>3, <2>4, <2>5, StreamsStay
<1>. QED
  BY <1>2, <1>3

(* serve's end of a stream is on from the moment serve takes it. *)
LEMMA ConnectsSo ==
  ASSUME InboxInv, NEW t \in Tabs, Connects(t)
  PROVE  InboxInv'
<1>. DEFINE from == IF source[t].last # NoVersion THEN source[t].last ELSE source[t].url
            opened == [NoSender EXCEPT !.on = TRUE, !.after = from]
            tb == IF tab[t].dropped THEN [Loading(tab[t]) EXCEPT !.dropped = FALSE] ELSE tab[t]
            src == [source[t] EXCEPT !.state = "open"]
<1>1. /\ source[t].state = "connecting" /\ source' = [source EXCEPT ![t] = src]
      /\ snapshot' = store /\ sender' = [Published(sender) EXCEPT ![t] = opened]
      /\ tab' = [tab EXCEPT ![t] = tb]
      /\ mail' = IF tab[t].dropped THEN Tells(Tabs \ {t}, Dropped) ELSE mail
      /\ UNCHANGED <<store, up, wire, holder>>
  BY DEF Connects
<1>2. /\ InboxTyped /\ tab \in [Tabs -> Pages] /\ tab[t] \in Pages
      /\ source \in [Tabs -> Sources] /\ source[t] \in Sources
      /\ sender \in [Tabs -> Senders]
      /\ mail \in [Tabs -> Seq(Versions \cup {Dropped})]
      /\ tab[t].alive /\ PageIsSo(tab[t]) /\ Loadable(tab[t])
  <2>1. source[t].state # "closed"
    BY <1>1
  <2>2. source \in [Tabs -> Sources] /\ sender \in [Tabs -> Senders] /\ InboxTyped
    BY DEF InboxInv, InboxTyped
  <2>3. source[t] \in Sources
    BY <2>2
  <2>4. tab[t].alive
    BY <2>1, PageOf
  <2>. QED
    BY <2>2, <2>3, <2>4, PageOf
<1>3. /\ opened \in Senders /\ opened.on = TRUE
  <2>1. from \in Versions
    BY <1>2 DEF Sources
  <2>. HIDE DEF from
  <2>. QED
    BY <1>2, <2>1, NothingIs DEF Senders
<1>4. tb \in Pages /\ PageIsSo(tb) /\ tb.alive
  <2>1. CASE tab[t].dropped
    <3>. DEFINE loading == Loading(tab[t])
    <3>1. loading \in Pages /\ PageIsSo(loading) /\ loading.alive
      BY <1>2, LoadingIs
    <3>2. tb = [loading EXCEPT !.dropped = FALSE]
      BY <2>1
    <3>. HIDE DEF loading, tb
    <3>3. /\ tb \in Pages /\ tb.alive /\ tb.loads = loading.loads
          /\ tb.version = loading.version /\ tb.shown = loading.shown
          /\ tb.problem = loading.problem
      BY <3>1, <3>2 DEF Pages
    <3>4. PageIsSo(tb)
      BY <3>1, <3>3 DEF PageIsSo
    <3>. QED
      BY <3>3, <3>4
  <2>2. CASE ~tab[t].dropped
    BY <1>2, <2>2
  <2>. QED
    BY <2>1, <2>2
<1>5. src \in Sources /\ src.state = "open"
  BY <1>2 DEF Sources
<1>6. /\ Published(sender) \in [Tabs -> Senders]
      /\ \A u \in Tabs : Published(sender)[u].on = sender[u].on
  BY <1>2 DEF Published, Senders
<1>7. mail' \in [Tabs -> Seq(Versions \cup {Dropped})]
  BY <1>1, <1>2, TellsIs
<1>. HIDE DEF opened, tb, src
<1>8. Sources' = Sources /\ Versions' = Versions /\ Pages' = Pages /\ Senders' = Senders
  BY <1>1 DEF Sources, Versions, Pages, Loads, Senders
<1>9. tab' \in [Tabs -> Pages'] /\ \A u \in Tabs : TabIsSo(u)'
  BY <1>1, <1>2, <1>4, PageMoves
<1>10. /\ source' \in [Tabs -> Sources]
       /\ \A u \in Tabs : source'[u] = IF u = t THEN src ELSE source[u]
  BY <1>1, <1>2, <1>5
<1>11. /\ sender' \in [Tabs -> Senders]
       /\ \A u \in Tabs : sender'[u].on = IF u = t THEN TRUE ELSE sender[u].on
  BY <1>1, <1>3, <1>6
<1>12. InboxTyped'
  <2>1. snapshot' \in Versions'
    BY <1>1, <1>2, <1>8, NothingIs
  <2>. QED
    BY <1>1, <1>2, <1>7, <1>8, <1>9, <1>10, <1>11, <2>1 DEF InboxTyped
<1>13. \A u \in Tabs : StreamIsSo(u)'
  BY <1>1, <1>5, <1>10, <1>11 DEF InboxInv, StreamIsSo
<1>. QED
  BY <1>9, <1>12, <1>13 DEF InboxInv

(* The streams that drop are open ones, and each of their tabs has the lock. *)
LEMMA Drops ==
  ASSUME InboxInv, NEW ts, \A t \in ts : t \in Tabs /\ source[t].state = "open",
         DropStreams(ts), up' \in BOOLEAN, snapshot' \in Versions,
         UNCHANGED <<store, holder, mail>>
  PROVE  InboxInv'
<1>1. /\ InboxTyped /\ tab \in [Tabs -> Pages] /\ source \in [Tabs -> Sources]
      /\ sender \in [Tabs -> Senders] /\ wire \in [Tabs -> Seq(Versions)]
      /\ mail \in [Tabs -> Seq(Versions \cup {Dropped})]
  BY DEF InboxInv, InboxTyped
<1>2. Sources' = Sources /\ Versions' = Versions /\ Pages' = Pages /\ Senders' = Senders
  BY DEF Sources, Versions, Pages, Loads, Senders
<1>3. /\ \A t \in Tabs : sender'[t] = (IF t \in ts THEN NoSender ELSE sender[t])
      /\ \A t \in Tabs : wire'[t] = (IF t \in ts THEN <<>> ELSE wire[t])
      /\ \A t \in Tabs : source'[t] = (IF t \in ts THEN [source[t] EXCEPT !.state = "connecting"]
                                       ELSE source[t])
      /\ \A t \in Tabs : tab'[t] = (IF t \in ts THEN [tab[t] EXCEPT !.dropped = TRUE] ELSE tab[t])
  BY DEF DropStreams
<1>4. /\ sender' \in [Tabs -> Senders] /\ wire' \in [Tabs -> Seq(Versions)]
  BY <1>1, NothingIs DEF DropStreams
<1>5. /\ \A t \in Tabs : [source[t] EXCEPT !.state = "connecting"] \in Sources
      /\ \A t \in Tabs : [source[t] EXCEPT !.state = "connecting"].state = "connecting"
  BY <1>1 DEF Sources
<1>6. \A t \in Tabs : [tab[t] EXCEPT !.dropped = TRUE] \in Pages
  BY <1>1, ZenonT(30) DEF Pages
<1>7. source' \in [Tabs -> Sources] /\ tab' \in [Tabs -> Pages]
  BY <1>1, <1>5, <1>6 DEF DropStreams
<1>8. InboxTyped'
  BY <1>1, <1>2, <1>4, <1>7 DEF InboxTyped
<1>9. \A t \in Tabs : StreamIsSo(t)'
  <2>. SUFFICES ASSUME NEW t \in Tabs PROVE StreamIsSo(t)'
    OBVIOUS
  <2>1. CASE t \in ts
    <3>1. Len(<<>>) <= WireSize
      BY DEF WireSize
    <3>2. source'[t].state = "connecting" /\ sender'[t].on = FALSE /\ wire'[t] = <<>>
      BY <1>1, <1>3, <1>5, <2>1, NothingIs
    <3>3. holder = t
      BY <2>1 DEF InboxInv, StreamIsSo
    <3>. QED
      BY <3>1, <3>2, <3>3 DEF StreamIsSo
  <2>2. CASE t \notin ts
    BY <1>3, <2>2, ZenonT(30) DEF InboxInv, StreamIsSo
  <2>. QED
    BY <2>1, <2>2
<1>10. \A t \in Tabs : TabIsSo(t)'
  <2>. SUFFICES ASSUME NEW t \in Tabs PROVE TabIsSo(t)'
    OBVIOUS
  <2>1. /\ tab'[t].alive = tab[t].alive /\ tab'[t].loads = tab[t].loads
        /\ tab'[t].version = tab[t].version /\ tab'[t].shown = tab[t].shown
        /\ tab'[t].problem = tab[t].problem
    BY <1>1, <1>3, ZenonT(30) DEF Pages
  <2>. QED
    BY <2>1 DEF InboxInv, TabIsSo, PageIsSo
<1>. QED
  BY <1>8, <1>9, <1>10 DEF InboxInv

LEMMA ServeStopsSo == InboxInv /\ (ServeStops \/ \E t \in Tabs : StreamDrops(t)) => InboxInv'
<1>. SUFFICES ASSUME InboxInv PROVE ServeStops \/ (\E t \in Tabs : StreamDrops(t)) => InboxInv'
  OBVIOUS
<1>1. InboxTyped /\ up \in BOOLEAN /\ snapshot \in Versions /\ NoVersion \in Versions
  BY NothingIs DEF InboxInv, InboxTyped
<1>2. ASSUME ServeStops PROVE InboxInv'
  <2>. DEFINE ts == {t \in Tabs : source[t].state = "open"}
  <2>1. /\ DropStreams(ts) /\ up' = FALSE /\ snapshot' = NoVersion
        /\ UNCHANGED <<store, holder, mail>>
    BY <1>2 DEF ServeStops
  <2>2. \A t \in ts : t \in Tabs /\ source[t].state = "open"
    OBVIOUS
  <2>. HIDE DEF ts
  <2>3. up' \in BOOLEAN /\ snapshot' \in Versions
    BY <1>1, <2>1
  <2>. QED
    BY <2>1, <2>2, <2>3, Drops
<1>3. ASSUME NEW t \in Tabs, StreamDrops(t) PROVE InboxInv'
  <2>. DEFINE ts == {t}
  <2>1. /\ DropStreams(ts) /\ source[t].state = "open"
        /\ UNCHANGED <<store, up, snapshot, holder, mail>>
    BY <1>3 DEF StreamDrops
  <2>2. \A u \in ts : u \in Tabs /\ source[u].state = "open"
    BY <2>1
  <2>. HIDE DEF ts
  <2>3. up' \in BOOLEAN /\ snapshot' \in Versions
    BY <1>1, <2>1
  <2>. QED
    BY <2>1, <2>2, <2>3, Drops
<1>. QED
  BY <1>2, <1>3

LEMMA ServeStartsSo == InboxInv /\ ServeStarts => InboxInv'
<1>. SUFFICES ASSUME InboxInv, ServeStarts PROVE InboxInv'
  OBVIOUS
<1>1. up' = TRUE /\ UNCHANGED <<store, snapshot, sender, wire, source, holder, tab, mail>>
  BY DEF ServeStarts
<1>2. InboxTyped'
  BY <1>1 DEF InboxInv, InboxTyped, Versions, Senders, Sources, Pages, Loads
<1>3. \A t \in Tabs : StreamIsSo(t)'
  BY <1>1 DEF InboxInv, StreamIsSo
<1>. QED
  BY <1>1, <1>2, <1>3, TabsStay

LEMMA TabClosesSo ==
  ASSUME InboxInv, NEW t \in Tabs, TabCloses(t)
  PROVE  InboxInv'
<1>. DEFINE tb == [tab[t] EXCEPT !.alive = FALSE, !.loads = <<>>]
<1>1. /\ tab[t].alive /\ tab' = [tab EXCEPT ![t] = tb]
      /\ holder' = (IF holder = t THEN NoTab ELSE holder)
      /\ source' = [source EXCEPT ![t] = NoSource] /\ sender' = [sender EXCEPT ![t] = NoSender]
      /\ wire' = [wire EXCEPT ![t] = <<>>] /\ mail' = [mail EXCEPT ![t] = <<>>]
      /\ UNCHANGED <<store, up, snapshot>>
  BY DEF TabCloses
<1>2. /\ InboxTyped /\ tab \in [Tabs -> Pages] /\ tab[t] \in Pages
      /\ source \in [Tabs -> Sources] /\ sender \in [Tabs -> Senders]
      /\ wire \in [Tabs -> Seq(Versions)]
      /\ mail \in [Tabs -> Seq(Versions \cup {Dropped})] /\ holder \in Tabs \cup {NoTab}
  BY PageOf DEF InboxInv, InboxTyped
<1>3. Sources' = Sources /\ Versions' = Versions /\ Pages' = Pages /\ Senders' = Senders
  BY <1>1 DEF Sources, Versions, Pages, Loads, Senders
<1>4. tb \in Pages /\ tb.alive = FALSE /\ tb.loads = <<>>
  <2>1. <<>> \in Seq(Loads) /\ FALSE \in BOOLEAN
    OBVIOUS
  <2>. QED
    BY <1>2, <2>1 DEF Pages
<1>. HIDE DEF tb
<1>5. tab' \in [Tabs -> Pages] /\ \A u \in Tabs : tab'[u] = IF u = t THEN tb ELSE tab[u]
  BY <1>1, <1>2, <1>4
<1>6. /\ source' \in [Tabs -> Sources] /\ sender' \in [Tabs -> Senders]
      /\ \A u \in Tabs : /\ source'[u] = IF u = t THEN NoSource ELSE source[u]
                         /\ sender'[u] = IF u = t THEN NoSender ELSE sender[u]
  BY <1>1, <1>2, NothingIs
<1>7. /\ wire' \in [Tabs -> Seq(Versions)]
      /\ \A u \in Tabs : wire'[u] = IF u = t THEN <<>> ELSE wire[u]
  BY <1>1, <1>2
<1>8. mail' \in [Tabs -> Seq(Versions \cup {Dropped})]
  BY <1>1, <1>2
<1>9. holder' \in Tabs \cup {NoTab} /\ holder' # t /\ (holder # t => holder' = holder)
  BY <1>1, <1>2, NoTabAssumption
<1>10. InboxTyped'
  BY <1>1, <1>2, <1>3, <1>5, <1>6, <1>7, <1>8, <1>9 DEF InboxTyped
<1>11. \A u \in Tabs : StreamIsSo(u)'
  <2>. SUFFICES ASSUME NEW u \in Tabs PROVE StreamIsSo(u)'
    OBVIOUS
  <2>1. CASE u = t
    <3>1. Len(<<>>) <= WireSize
      BY DEF WireSize
    <3>2. /\ source'[u].state = "closed" /\ sender'[u].on = FALSE /\ Len(wire'[u]) <= WireSize
          /\ holder' # u
      BY <1>2, <1>6, <1>7, <1>9, <2>1, <3>1, NothingIs
    <3>. QED
      BY <3>2 DEF StreamIsSo
  <2>2. CASE u # t
    <3>1. source'[u] = source[u] /\ sender'[u] = sender[u] /\ wire'[u] = wire[u]
      BY <1>6, <1>7, <2>2
    <3>2. holder' = u <=> holder = u
      BY <1>1, <2>2, NoTabAssumption
    <3>. QED
      BY <3>1, <3>2 DEF InboxInv, StreamIsSo
  <2>. QED
    BY <2>1, <2>2
<1>12. \A u \in Tabs : TabIsSo(u)'
  <2>. SUFFICES ASSUME NEW u \in Tabs PROVE TabIsSo(u)'
    OBVIOUS
  <2>1. CASE u = t
    BY <1>4, <1>5, <1>9, <2>1 DEF TabIsSo
  <2>2. CASE u # t
    BY <1>1, <1>5, <2>2, NoTabAssumption DEF InboxInv, TabIsSo
  <2>. QED
    BY <2>1, <2>2
<1>. QED
  BY <1>10, <1>11, <1>12 DEF InboxInv

-----------------------------------------------------------------------------
(* The theorems *)

LEMMA InboxStarts == InboxInit => InboxInv
<1>. SUFFICES ASSUME InboxInit PROVE InboxInv
  OBVIOUS
<1>1. store = 1 /\ store \in 1 .. MaxStore
  BY InboxAssumption DEF InboxInit
<1>2. NoVersion \in Versions /\ 1 \in Versions
  BY <1>1 DEF Versions, NoVersion
<1>3. NoSender \in Senders /\ NoSource \in Sources /\ NoSender.on = FALSE
      /\ NoSource.state = "closed"
  BY <1>2 DEF NoSender, NoSource, Senders, Sources
<1>. DEFINE page == [alive |-> TRUE, version |-> NoVersion, dropped |-> FALSE, loads |-> <<>>,
                     shown |-> [waiting |-> 1, others |-> 1], problem |-> FALSE]
<1>4. page \in Pages
  <2>1. <<>> \in Seq(Loads) /\ TRUE \in BOOLEAN /\ FALSE \in BOOLEAN
    OBVIOUS
  <2>. QED
    BY <1>2, <2>1 DEF Pages
<1>5. PageIsSo(page) /\ page.alive
  BY DEF PageIsSo, NoVersion
<1>6. tab = [t \in Tabs |-> page]
  BY DEF InboxInit
<1>. HIDE DEF page
<1>7. <<>> \in Seq(Versions) /\ <<>> \in Seq(Versions \cup {Dropped})
  OBVIOUS
<1>8. InboxTyped
  <2>1. up \in BOOLEAN /\ snapshot \in Versions /\ holder \in Tabs \cup {NoTab}
    BY <1>2 DEF InboxInit
  <2>2. sender \in [Tabs -> Senders] /\ source \in [Tabs -> Sources]
    BY <1>3 DEF InboxInit
  <2>3. wire \in [Tabs -> Seq(Versions)] /\ mail \in [Tabs -> Seq(Versions \cup {Dropped})]
    BY <1>7 DEF InboxInit
  <2>. QED
    BY <1>1, <1>4, <1>6, <2>1, <2>2, <2>3 DEF InboxTyped
<1>9. \A t \in Tabs : StreamIsSo(t)
  <2>1. Len(<<>>) <= WireSize
    BY DEF WireSize
  <2>. QED
    BY <1>3, <2>1, NoTabAssumption DEF InboxInit, StreamIsSo
<1>10. \A t \in Tabs : TabIsSo(t)
  BY <1>5, <1>6 DEF TabIsSo
<1>. QED
  BY <1>8, <1>9, <1>10 DEF InboxInv

LEMMA InboxSteps == InboxInv /\ [InboxNext]_inboxVars => InboxInv'
<1>. SUFFICES ASSUME InboxInv, [InboxNext]_inboxVars PROVE InboxInv'
  OBVIOUS
<1>1. CASE StoreMoves \/ ServeReads \/ ServeStops \/ ServeStarts
  BY <1>1, StoreMovesOn, ServeReadsSo, ServeStopsSo, ServeStartsSo
<1>2. ASSUME NEW t \in Tabs,
             \/ StreamStep(t) \/ Load(t) \/ Message(t) \/ Mail(t) \/ Minute(t)
             \/ TakesLock(t) \/ Connects(t) \/ ConnectFails(t) \/ StreamDrops(t)
             \/ TabCloses(t)
      PROVE  InboxInv'
  <2>1. CASE StreamStep(t)
    BY <2>1, Streams
  <2>2. CASE Load(t)
    BY <2>2, Loaded
  <2>3. CASE Message(t) \/ Mail(t) \/ Minute(t)
    BY <2>3, Told
  <2>4. CASE TakesLock(t) \/ ConnectFails(t)
    BY <2>4, Opens
  <2>5. CASE Connects(t)
    BY <2>5, ConnectsSo
  <2>6. CASE StreamDrops(t)
    BY <2>6, ServeStopsSo
  <2>7. CASE TabCloses(t)
    BY <2>7, TabClosesSo
  <2>. QED
    BY <1>2, <2>1, <2>2, <2>3, <2>4, <2>5, <2>6, <2>7
<1>3. CASE UNCHANGED inboxVars
  <2>1. UNCHANGED <<store, up, snapshot, sender, wire, source, holder, tab, mail>>
    BY <1>3 DEF inboxVars
  <2>2. InboxTyped'
    BY <2>1 DEF InboxInv, InboxTyped, Versions, Senders, Sources, Pages, Loads
  <2>3. \A t \in Tabs : StreamIsSo(t)'
    BY <2>1 DEF InboxInv, StreamIsSo
  <2>. QED
    BY <2>1, <2>2, <2>3, TabsStay
<1>. QED
  BY <1>1, <1>2, <1>3 DEF InboxNext

(***************************************************************************)
(* The pages of an inbox and the streams that tell them are always so: one *)
(* stream, at most two reads, and of these only the last may be shown.     *)
(***************************************************************************)
THEOREM PagesAreSo == InboxSpec => []InboxInv
BY InboxStarts, InboxSteps, PTL DEF InboxSpec

(***************************************************************************)
(* One tab of a browser holds the stream, serve's end of it is on exactly  *)
(* while it is open, and a page makes at most two reads that count.        *)
(***************************************************************************)
THEOREM OneStream == InboxSpec => []InboxTypeOK
<1>1. InboxInv => InboxTypeOK
  <2>. SUFFICES ASSUME InboxInv PROVE InboxTypeOK
    OBVIOUS
  <2>1. store \in 1 .. MaxStore /\ snapshot \in 0 .. store
    BY DEF InboxInv, InboxTyped, Versions
  <2>2. \A t \in Tabs : Len(tab[t].loads) <= 2
    <3>1. Len(<<>>) <= 2
      OBVIOUS
    <3>. QED
      BY <3>1 DEF InboxInv, TabIsSo, PageIsSo
  <2>. QED
    BY <2>1, <2>2 DEF InboxInv, StreamIsSo, InboxTypeOK
<1>. QED
  BY <1>1, PagesAreSo, PTL

(***************************************************************************)
(* A page at rest, that does not say it could not read, shows both of its  *)
(* lists of the last version it was told or a later one, whatever order    *)
(* its reads were answered in and whichever of them was overtaken.         *)
(***************************************************************************)
THEOREM NeverOlder == InboxSpec => []NeverOlderThanTold
<1>1. InboxInv => NeverOlderThanTold
  <2>. SUFFICES ASSUME InboxInv, NEW t \in Tabs, tab[t].alive, tab[t].loads = <<>>,
                       ~tab[t].problem
                PROVE  tab[t].shown.waiting >= tab[t].version
                       /\ tab[t].shown.others >= tab[t].version
    BY DEF NeverOlderThanTold
  <2>1. Len(tab[t].loads) = 0
    OBVIOUS
  <2>. QED
    BY <2>1 DEF InboxInv, TabIsSo, PageIsSo
<1>. QED
  BY <1>1, PagesAreSo, PTL

-----------------------------------------------------------------------------
(***************************************************************************)
(* Notifications: the inductive invariant                                  *)
(***************************************************************************)
EventNames == {"open", "note", "amend", "answer", "park", "resume"}
Standings == {"none", "open", "answered", "parked"}
Happenings == [event : EventNames, from : Standings, to : Standings, at : Nat]

CaseIds == Keys \X Nat
Items == [id : Nat, case : CaseIds, seq : Nat]
Cursors == [boot : Nat, id : Nat, from : Nat]
Given == [boot : Nat, latest : Nat, items : SUBSET Items]

NoticesTyped ==
  /\ events \in Nat /\ cases \in [Keys -> Seq(Happenings)]
  /\ engine \in [read : BOOLEAN, seen : SUBSET [id : CaseIds, count : Nat]]
  /\ feed \in [boot : Nat \ {0}, latest : Nat, items : Seq(Items)]
  /\ cursor \in Cursors
  /\ asker \in [Askers -> [phase : {"idle", "asked", "answered"}, have : Cursors,
                           page : Given]]
  /\ landings \in Seq(Items)

(* The feed keeps the latest, as many as it has place for. *)
FeedIsSo ==
  /\ Len(feed.items) = IF feed.latest < FeedSize THEN feed.latest ELSE FeedSize
  /\ \A i \in 1 .. Len(feed.items) :
       feed.items[i].id = feed.latest - Len(feed.items) + i

(* A case is known by its key and the time of its first event, which is past, *)
(* so that no case that opens is one that was.                                *)
OpenedBefore == \A k \in Keys : cases[k] # <<>> => cases[k][1].at < events

SeenOnce == \A s1, s2 \in engine.seen : s1.id = s2.id => s1 = s2

(* A case that was notified and is in the store was seen up to there. *)
LandedIsSeen ==
  /\ ~engine.read => landings = <<>>
  /\ \A i \in 1 .. Len(landings) :
       /\ landings[i].case[2] < events
       /\ \A k \in Keys :
            cases[k] # <<>> /\ CaseId(k) = landings[i].case =>
              /\ landings[i].seq <= Len(cases[k])
              /\ \E s \in engine.seen : s.id = CaseId(k) /\ landings[i].seq <= s.count

(* A page given to a tab has what came after the number the tab asked after,  *)
(* but for what the feed had dropped.                                         *)
GivenIsSo(t) ==
  LET page == asker[t].page IN
  asker[t].phase = "answered" =>
    /\ page.boot <= feed.boot
    /\ page.boot = feed.boot => page.latest <= feed.latest
    /\ \A id \in Nat :
         asker[t].have.id < id /\ page.latest - FeedSize < id /\ id <= page.latest =>
           \E item \in page.items : item.id = id

NoticesInv ==
  /\ NoticesTyped /\ FeedIsSo /\ OpenedBefore /\ SeenOnce /\ LandedIsSeen
  /\ cursor.boot <= feed.boot
  /\ \A t \in Askers : GivenIsSo(t)
  /\ NoticedOnce /\ NonePassedBy

-----------------------------------------------------------------------------
(* The order of keys, and the event that put a case on the human *)

Below == {pair \in Nat \X Nat : pair[1] < pair[2]}

LEMMA LeastNatural ==
  ASSUME NEW T, T \subseteq Nat, T # {}
  PROVE  \E least \in T : \A n \in T : least <= n
<1>1. IsWellFoundedOn(Below, Nat)
  <2>1. OpToRel(<, Nat) = Below
    BY DEF OpToRel, Below
  <2>. QED
    BY <2>1, NatLessThanWellFounded
<1>2. PICK least \in T : \A n \in T : ~ (<<n, least>> \in Below)
  BY <1>1, WFMin
<1>3. ASSUME NEW n \in T
      PROVE  least <= n
  <2>1. least \in Nat /\ n \in Nat
    OBVIOUS
  <2>2. n < least => <<n, least>> \in Below
    BY <2>1 DEF Below
  <2>. QED
    BY <1>2, <2>1, <2>2
<1>. QED
  BY <1>3

Ordered(ks, f) ==
  f \in [1 .. Cardinality(ks) -> ks] /\ \A i, j \in 1 .. Cardinality(ks) : i < j => f[i] < f[j]

(* Any finite set of numbers has an order: the least, then the others. *)
LEMMA OrderExists ==
  ASSUME NEW ks \in SUBSET Nat, IsFiniteSet(ks)
  PROVE  \E f : Ordered(ks, f)
<1>. DEFINE Unordered == {n \in Nat : \E S \in SUBSET Nat : /\ IsFiniteSet(S) /\ Cardinality(S) = n
                                               /\ ~ \E f : Ordered(S, f)}
<1>1. ASSUME Unordered # {} PROVE FALSE
  <2>1. PICK n \in Unordered : \A m \in Unordered : n <= m
    BY <1>1, LeastNatural
  <2>2. PICK S \in SUBSET Nat : IsFiniteSet(S) /\ Cardinality(S) = n /\ ~ \E f : Ordered(S, f)
    BY <2>1
  <2>3. CASE S = {}
    <3>1. Cardinality(S) = 0
      BY <2>3, FS_EmptySet
    <3>2. Ordered(S, [i \in 1 .. 0 |-> 0])
      BY <3>1 DEF Ordered
    <3> QED BY <3>2, <2>2
  <2>4. CASE S # {}
    <3>1. PICK least \in S : \A k \in S : least <= k
      BY <2>4, LeastNatural
    <3>. DEFINE others == S \ {least}
    <3>2. IsFiniteSet(others) /\ Cardinality(others) = n - 1 /\ others \in SUBSET Nat
      BY <2>2, <3>1, FS_RemoveElement
    <3>3. Cardinality(others) \in Nat
      BY <3>2, FS_CardinalityType
    <3>4. n - 1 \in Nat /\ n \in Nat
      BY <3>2, <3>3, <2>1
    <3>5. n - 1 \notin Unordered
      BY <2>1, <3>4
    <3>6. PICK f : Ordered(others, f)
      BY <3>2, <3>4, <3>5
    <3>. HIDE DEF others
    <3>. DEFINE g == [i \in 1 .. n |-> IF i = 1 THEN least ELSE f[i - 1]]
    <3>7. \A i \in 1 .. n : i # 1 => i - 1 \in 1 .. n - 1 /\ f[i - 1] \in others
      BY <3>6, <3>2, <3>4 DEF Ordered
    <3>8. \A k \in others : k \in S /\ least < k
      BY <3>1, <2>2 DEF others
    <3>9. g \in [1 .. n -> S]
      BY <3>7, <3>8, <3>1
    <3>10. ASSUME NEW i \in 1 .. n, NEW j \in 1 .. n, i < j PROVE g[i] < g[j]
      <4>1. j # 1 /\ g[j] = f[j - 1] /\ f[j - 1] \in others
        BY <3>10, <3>7, <3>4
      <4>2. CASE i = 1
        BY <4>1, <4>2, <3>8, <3>4
      <4>3. CASE i # 1
        <5>1. g[i] = f[i - 1] /\ i - 1 \in 1 .. n - 1 /\ j - 1 \in 1 .. n - 1 /\ i - 1 < j - 1
          BY <4>3, <4>1, <3>7, <3>10, <3>4
        <5> QED BY <5>1, <4>1, <3>6, <3>2 DEF Ordered
      <4> QED BY <4>2, <4>3
    <3>11. Ordered(S, g)
      BY <3>9, <3>10, <2>2 DEF Ordered
    <3> QED BY <3>11, <2>2
  <2> QED BY <2>3, <2>4
<1>2. Cardinality(ks) \in Nat
  BY FS_CardinalityType
<1> QED BY <1>1, <1>2

LEMMA KeyOrder ==
  ASSUME NEW ks \in SUBSET Nat, IsFiniteSet(ks)
  PROVE  /\ Cardinality(ks) \in Nat
         /\ InKeyOrder(ks) \in [1 .. Cardinality(ks) -> ks]
         /\ \A i, j \in 1 .. Cardinality(ks) : InKeyOrder(ks)[i] = InKeyOrder(ks)[j] => i = j
<1>1. Cardinality(ks) \in Nat
  BY FS_CardinalityType
<1>2. PICK f : Ordered(ks, f)
  BY OrderExists
<1>3. f \in [1 .. Cardinality(ks) -> ks] /\ \A i, j \in DOMAIN f : i < j => f[i] < f[j]
  BY <1>2 DEF Ordered
<1>4. /\ InKeyOrder(ks) \in [1 .. Cardinality(ks) -> ks]
      /\ \A i, j \in DOMAIN InKeyOrder(ks) : i < j => InKeyOrder(ks)[i] < InKeyOrder(ks)[j]
  BY <1>3 DEF InKeyOrder
<1>. DEFINE g == InKeyOrder(ks)
<1>. HIDE DEF g
<1>5. ASSUME NEW i \in 1 .. Cardinality(ks), NEW j \in 1 .. Cardinality(ks), g[i] = g[j]
      PROVE  i = j
  <2>1. DOMAIN g = 1 .. Cardinality(ks) /\ g[i] \in Nat
    BY <1>4 DEF g
  <2>2. ~ (i < j) /\ ~ (j < i)
    BY <1>4, <1>5, <2>1 DEF g
  <2> QED BY <2>2, <1>1
<1> QED BY <1>1, <1>4, <1>5 DEF g

(* The event that put a case on the human is one of the case's, if any did. *)
LEMMA OnTheHumanIsOne ==
  ASSUME NEW h \in Seq(Happenings), h # <<>>
  PROVE  OnTheHuman(h) \in 0 .. Len(h)
<1>. DEFINE n == Len(h)
            Puts(i) == i = 1 \/ ~(h[i].event \in {"note", "amend"} /\ h[i].from = "open")
            Backs == {m \in 0 .. n - 1 : Puts(n - m)}
<1>1. n \in Nat /\ n >= 1 /\ DOMAIN h = 1 .. n
  OBVIOUS
<1>2. n - 1 \in Backs /\ Backs \subseteq Nat
  BY <1>1
<1>. HIDE DEF n
<1>3. PICK back \in Backs : \A m \in Backs : back <= m
  BY <1>2, LeastNatural
<1>4. n - back \in DOMAIN h /\ Puts(n - back)
  BY <1>1, <1>3
<1>5. ASSUME NEW j \in n - back + 1 .. n
      PROVE  h[j].event \in {"note", "amend"} /\ h[j].from = "open"
  <2>1. n - j \in 0 .. n - 1 /\ n - j < back /\ n - (n - j) = j
    BY <1>1, <1>3, <1>5
  <2>2. n - j \notin Backs
    BY <2>1, <1>3
  <2> QED BY <2>1, <2>2
<1>6. PutThere(h) \in DOMAIN h
  BY <1>4, <1>5 DEF PutThere, n
<1>. DEFINE at == PutThere(h)
            notes == {j \in at + 1 .. n : h[j].event = "note"}
<1>7. at \in 1 .. n
  BY <1>6, <1>1
<1>. HIDE DEF at
<1>8. notes # {} => (CHOOSE j \in notes : \A i \in notes : j <= i) \in 1 .. n
  <2>1. notes \subseteq Nat /\ notes \subseteq 1 .. n
    BY <1>7, <1>1
  <2>2. notes # {} => \E j \in notes : \A i \in notes : j <= i
    BY <2>1, LeastNatural
  <2> QED BY <2>1, <2>2
<1>. DEFINE noted == CHOOSE j \in notes : \A i \in notes : j <= i
<1>. USE DEF at
<1>9. OnTheHuman(h) = IF Last(h).to # "open" THEN 0
                      ELSE IF h[at].event = "resume" THEN IF notes = {} THEN 0 ELSE noted
                      ELSE IF h[at].event \in {"open", "note", "amend"} THEN at ELSE 0
  BY Zenon DEF OnTheHuman, n
<1>. HIDE DEF at
<1>. HIDE DEF notes
<1>10. 0 \in 0 .. n /\ at \in 0 .. n /\ (notes # {} => noted \in 0 .. n)
  BY <1>1, <1>7, <1>8
<1>. HIDE DEF noted
<1> QED BY <1>9, <1>10 DEF n

-----------------------------------------------------------------------------
(* What a read makes *)

LEMMA CaseIs ==
  ASSUME NoticesTyped, NEW k \in Keys, cases[k] # <<>>
  PROVE  /\ cases[k] \in Seq(Happenings) /\ Len(cases[k]) \in Nat \ {0}
         /\ cases[k][1] \in Happenings /\ cases[k][1].at \in Nat
         /\ CaseId(k) \in CaseIds /\ CaseId(k)[1] = k /\ CaseId(k)[2] = cases[k][1].at
<1>1. cases[k] \in Seq(Happenings)
  BY DEF NoticesTyped
<1>2. Len(cases[k]) \in Nat \ {0}
  BY <1>1, EmptySeq
<1>3. cases[k][1] \in Happenings
  BY <1>1, <1>2
<1>4. cases[k][1].at \in Nat
  BY <1>3 DEF Happenings
<1> QED BY <1>1, <1>2, <1>3, <1>4 DEF CaseId, CaseIds

LEMMA LandedIsFinite ==
  Landed \in SUBSET Nat /\ IsFiniteSet(Landed) /\ Landed \subseteq Present
<1>1. Landed \subseteq Present /\ Present \subseteq Keys
  BY DEF Landed, Present
<1> QED BY <1>1, NoticesAssumption, FS_Subset

(* What is new is told once: of one case each, past what was seen of it. *)
NewsIsSo ==
  /\ NewItems \in Seq(Items)
  /\ \A i \in 1 .. Len(NewItems) :
       /\ NewItems[i].id = feed.latest + i
       /\ \E k \in Present :
            /\ NewItems[i].case = CaseId(k) /\ NewItems[i].seq = OnTheHuman(cases[k])
            /\ OnTheHuman(cases[k]) \in 0 .. Len(cases[k])
            /\ engine.read /\ Observes /\ OnTheHuman(cases[k]) > Count(k)
  /\ \A i, j \in 1 .. Len(NewItems) : NewItems[i].case = NewItems[j].case => i = j

LEMMA NewsOfRead ==
  ASSUME NoticesTyped
  PROVE  NewsIsSo
<1>1. CASE ~Observes
  <2>1. NewItems = <<>>
    BY <1>1 DEF NewItems
  <2> QED BY <2>1 DEF NewsIsSo
<1>2. CASE Observes
  <2>. DEFINE ks == InKeyOrder(Landed)
              n == Cardinality(Landed)
  <2>1. /\ n \in Nat /\ ks \in [1 .. n -> Landed]
        /\ \A i, j \in 1 .. n : ks[i] = ks[j] => i = j
    BY LandedIsFinite, KeyOrder
  <2>2. NewItems = [i \in DOMAIN ks |-> [id |-> feed.latest + i, case |-> CaseId(ks[i]),
                                       seq |-> OnTheHuman(cases[ks[i]])]]
    BY <1>2 DEF NewItems
  <2>. HIDE DEF ks, n
  <2>3. ASSUME NEW i \in 1 .. n
        PROVE  /\ ks[i] \in Present /\ ks[i] \in Keys /\ engine.read
               /\ OnTheHuman(cases[ks[i]]) > Count(ks[i])
               /\ CaseId(ks[i]) \in CaseIds /\ CaseId(ks[i])[1] = ks[i]
               /\ OnTheHuman(cases[ks[i]]) \in 0 .. Len(cases[ks[i]])
    <3>1. ks[i] \in Landed
      BY <2>1
    <3>2. /\ ks[i] \in Present /\ ks[i] \in Keys /\ engine.read
          /\ OnTheHuman(cases[ks[i]]) > Count(ks[i]) /\ cases[ks[i]] # <<>>
      BY <3>1 DEF Landed, Present
    <3>3. /\ cases[ks[i]] \in Seq(Happenings)
          /\ CaseId(ks[i]) \in CaseIds /\ CaseId(ks[i])[1] = ks[i]
      BY <3>2, CaseIs
    <3>4. OnTheHuman(cases[ks[i]]) \in 0 .. Len(cases[ks[i]])
      BY <3>2, <3>3, OnTheHumanIsOne
    <3> QED BY <3>2, <3>3, <3>4
  <2>4. feed.latest \in Nat
    BY DEF NoticesTyped
  <2>5. \A i \in 1 .. n : Len(cases[ks[i]]) \in Nat
    BY <2>3 DEF NoticesTyped
  <2>6. NewItems \in Seq(Items) /\ Len(NewItems) = n
    BY <2>1, <2>2, <2>3, <2>4, <2>5 DEF Items
  <2>7. \A i \in 1 .. n : NewItems[i] = [id |-> feed.latest + i, case |-> CaseId(ks[i]),
                                       seq |-> OnTheHuman(cases[ks[i]])]
    BY <2>1, <2>2
  <2>8. \A i \in 1 .. Len(NewItems) :
       /\ NewItems[i].id = feed.latest + i
       /\ \E k \in Present :
            /\ NewItems[i].case = CaseId(k) /\ NewItems[i].seq = OnTheHuman(cases[k])
            /\ OnTheHuman(cases[k]) \in 0 .. Len(cases[k])
            /\ engine.read /\ Observes /\ OnTheHuman(cases[k]) > Count(k)
    BY <2>3, <2>6, <2>7, <1>2
  <2>9. \A i, j \in 1 .. Len(NewItems) : NewItems[i].case = NewItems[j].case => i = j
    BY <2>1, <2>3, <2>6, <2>7
  <2> QED BY <2>6, <2>8, <2>9 DEF NewsIsSo
<1> QED BY <1>1, <1>2

(* The last of a sequence, as many as there is place for. *)
LEMMA LastOfIs ==
  ASSUME NEW S, NEW s \in Seq(S), NEW n \in Nat
  PROVE  /\ LastOf(s, n) \in Seq(S)
         /\ Len(LastOf(s, n)) = IF Len(s) < n THEN Len(s) ELSE n
         /\ \A i \in 1 .. Len(LastOf(s, n)) :
              LastOf(s, n)[i] = s[Len(s) - Len(LastOf(s, n)) + i]
<1>1. Len(s) \in Nat
  OBVIOUS
<1>2. CASE Len(s) > n
  <2>1. LastOf(s, n) = SubSeq(s, Len(s) - n + 1, Len(s))
    BY <1>2 DEF LastOf
  <2>2. Len(s) - n + 1 \in 1 .. Len(s) + 1
    BY <1>1, <1>2
  <2>3. /\ SubSeq(s, Len(s) - n + 1, Len(s)) \in Seq(S)
        /\ Len(SubSeq(s, Len(s) - n + 1, Len(s))) = n
        /\ \A i \in 1 .. n : SubSeq(s, Len(s) - n + 1, Len(s))[i] = s[Len(s) - n + 1 + i - 1]
    BY <1>1, <1>2, <2>2, SubSeqProperties
  <2>4. \A i \in 1 .. n : Len(s) - n + 1 + i - 1 = Len(s) - n + i
    BY <1>1
  <2> QED BY <2>1, <2>3, <2>4, <1>1, <1>2
<1>3. CASE ~(Len(s) > n)
  <2>. DEFINE whole == SubSeq(s, 1, Len(s))
  <2>1. LastOf(s, n) = whole
    BY <1>3 DEF LastOf
  <2>2. /\ whole \in Seq(S) /\ Len(whole) = Len(s)
        /\ \A i \in 1 .. Len(s) : whole[i] = s[i]
    BY <1>1
  <2>. HIDE DEF whole
  <2>3. \A i \in 1 .. Len(whole) : Len(s) - Len(whole) + i = i
    BY <1>1, <2>2
  <2>4. Len(whole) = IF Len(s) < n THEN Len(s) ELSE n
    BY <1>1, <1>3, <2>2
  <2> QED BY <2>1, <2>2, <2>3, <2>4
<1> QED BY <1>2, <1>3

(* The feed after a read is the one before, and what is new. *)
QueueIsSo ==
  /\ Queued \in [boot : Nat \ {0}, latest : Nat, items : Seq(Items)]
  /\ Queued.boot = feed.boot /\ Queued.latest = feed.latest + Len(NewItems)
  /\ Len(Queued.items) = IF Queued.latest < FeedSize THEN Queued.latest ELSE FeedSize
  /\ \A i \in 1 .. Len(Queued.items) :
       Queued.items[i].id = Queued.latest - Len(Queued.items) + i

LEMMA QueueOfRead ==
  ASSUME NoticesTyped, FeedIsSo
  PROVE  QueueIsSo
<1>. DEFINE all == feed.items \o NewItems
            kept == LastOf(all, FeedSize)
<1>1. /\ feed.items \in Seq(Items) /\ NewItems \in Seq(Items) /\ FeedSize \in Nat
      /\ feed.latest \in Nat /\ feed.boot \in Nat \ {0}
      /\ feed = [boot |-> feed.boot, latest |-> feed.latest, items |-> feed.items]
  BY NewsOfRead, NoticesAssumption DEF NewsIsSo, NoticesTyped
<1>2. /\ all \in Seq(Items) /\ Len(all) = Len(feed.items) + Len(NewItems)
      /\ \A i \in 1 .. Len(all) : all[i] = IF i <= Len(feed.items) THEN feed.items[i]
                                          ELSE NewItems[i - Len(feed.items)]
  BY <1>1
<1>3. /\ Queued.boot = feed.boot /\ Queued.latest = feed.latest + Len(NewItems)
      /\ Queued.items = kept
      /\ Queued = [boot |-> feed.boot, latest |-> feed.latest + Len(NewItems), items |-> kept]
  <2>1. feed \in [boot : Nat \ {0}, latest : Nat, items : Seq(Items)]
    BY DEF NoticesTyped
  <2>2. Queued = [feed EXCEPT !.latest = feed.latest + Len(NewItems), !.items = kept]
    BY <2>1 DEF Queued
  <2>. HIDE DEF kept
  <2> QED BY <2>1, <2>2
<1>4. \A i \in 1 .. Len(all) : all[i].id = feed.latest - Len(feed.items) + i
  <2>1. \A i \in 1 .. Len(NewItems) : NewItems[i].id = feed.latest + i
    BY NewsOfRead DEF NewsIsSo
  <2>2. \A i \in 1 .. Len(feed.items) : feed.items[i].id = feed.latest - Len(feed.items) + i
    BY DEF FeedIsSo
  <2>3. Len(feed.items) \in Nat /\ Len(NewItems) \in Nat /\ Len(feed.items) \in Int
    BY <1>1
  <2>. HIDE DEF all
  <2>4. ASSUME NEW i \in 1 .. Len(all)
        PROVE  all[i].id = feed.latest - Len(feed.items) + i
    <3>1. CASE i <= Len(feed.items)
      BY <3>1, <1>2, <2>2, <2>3
    <3>2. CASE ~(i <= Len(feed.items))
      <4>1. i - Len(feed.items) \in 1 .. Len(NewItems)
        BY <3>2, <1>2, <2>3
      <4>2. all[i].id = feed.latest + (i - Len(feed.items))
        BY <4>1, <2>1, <3>2, <1>2
      <4> QED BY <4>2, <2>3, <1>1
    <3> QED BY <3>1, <3>2
  <2> QED BY <2>4
<1>. HIDE DEF all
<1>5. /\ kept \in Seq(Items) 
      /\ Len(kept) = IF Len(all) < FeedSize THEN Len(all) ELSE FeedSize
      /\ \A i \in 1 .. Len(kept) : kept[i] = all[Len(all) - Len(kept) + i]
  <2>1. all \in Seq(Items) /\ FeedSize \in Nat
    BY <1>1, <1>2
  <2> QED BY <2>1, LastOfIs
<1>. HIDE DEF kept
<1>6. Len(feed.items) = IF feed.latest < FeedSize THEN feed.latest ELSE FeedSize
  BY DEF FeedIsSo
<1>7. Len(all) \in Nat /\ Len(NewItems) \in Nat
  BY <1>1, <1>2
<1>8. Len(kept) = IF Queued.latest < FeedSize THEN Queued.latest ELSE FeedSize
  BY <1>1, <1>2, <1>3, <1>5, <1>6, <1>7
<1>9. ASSUME NEW i \in 1 .. Len(kept)
      PROVE  kept[i].id = Queued.latest - Len(kept) + i
  <2>1. Len(all) - Len(kept) + i \in 1 .. Len(all)
    BY <1>1, <1>5, <1>7
  <2>2. kept[i].id = feed.latest - Len(feed.items) + (Len(all) - Len(kept) + i)
    BY <2>1, <1>4, <1>5
  <2>3. Len(kept) \in Nat /\ Len(feed.items) \in Nat
    BY <1>1, <1>5
  <2> QED BY <2>2, <2>3, <1>1, <1>2, <1>3, <1>7
<1>10. Queued \in [boot : Nat \ {0}, latest : Nat, items : Seq(Items)]
  BY <1>1, <1>3, <1>5, <1>7
<1> QED BY <1>3, <1>8, <1>9, <1>10 DEF QueueIsSo

(* What the engine has seen after a read. *)
LEMMA ObservedIs ==
  ASSUME NoticesTyped, SeenOnce
  PROVE  /\ Observed \in [read : BOOLEAN, seen : SUBSET [id : CaseIds, count : Nat]]
         /\ \A s1, s2 \in Observed.seen : s1.id = s2.id => s1 = s2
         /\ ~Observed.read => ~engine.read
         /\ Observes => /\ Observed.read
                        /\ \A k \in Present : \E s \in Observed.seen :
                             s.id = CaseId(k) /\ s.count = Len(cases[k])
         /\ ~Observes => Observed = engine
<1>1. CASE ~Observes
  BY <1>1 DEF Observed, NoticesTyped, SeenOnce
<1>2. CASE Observes
  <2>. DEFINE saw(k) == [id |-> CaseId(k), count |-> Len(cases[k])]
  <2>1. Observed = [read |-> TRUE, seen |-> {saw(k) : k \in Present}]
    BY <1>2 DEF Observed
  <2>2. ASSUME NEW k \in Present
        PROVE  k \in Keys /\ CaseId(k) \in CaseIds /\ CaseId(k)[1] = k /\ Len(cases[k]) \in Nat
    <3>1. k \in Keys /\ cases[k] # <<>>
      BY DEF Present
    <3> QED BY <3>1, CaseIs
  <2>3. Observed \in [read : BOOLEAN, seen : SUBSET [id : CaseIds, count : Nat]]
    BY <2>1, <2>2
  <2>4. \A s1, s2 \in Observed.seen : s1.id = s2.id => s1 = s2
    BY <2>1, <2>2
  <2>5. \A k \in Present : \E s \in Observed.seen : s.id = CaseId(k) /\ s.count = Len(cases[k])
    <3>1. \A k \in Present : saw(k) \in Observed.seen
      BY <2>1
    <3>2. \A k \in Present : saw(k).id = CaseId(k) /\ saw(k).count = Len(cases[k])
      OBVIOUS
    <3> QED BY <3>1, <3>2, Zenon
  <2> QED BY <1>2, <2>1, <2>3, <2>4, <2>5
<1> QED BY <1>1, <1>2

-----------------------------------------------------------------------------
(* Each step keeps the invariant *)

LEMMA NoticesInitInv == NoticesInit => NoticesInv
<1>. SUFFICES ASSUME NoticesInit PROVE NoticesInv
  OBVIOUS
<1>. USE DEF NoticesInit
<1>1. NoticesTyped
  BY DEF NoticesTyped, NotRead, NoCursor, Idle, NoPage, Cursors, Given
<1>2. FeedIsSo
  BY NoticesAssumption DEF FeedIsSo
<1>3. OpenedBefore /\ SeenOnce /\ LandedIsSeen
  BY DEF OpenedBefore, SeenOnce, LandedIsSeen, NotRead
<1>4. cursor.boot <= feed.boot /\ \A t \in Askers : GivenIsSo(t)
  BY DEF NoCursor, Idle, GivenIsSo
<1>5. NoticedOnce /\ NonePassedBy
  BY DEF NoticedOnce, NonePassedBy, NoCursor
<1> QED BY <1>1, <1>2, <1>3, <1>4, <1>5 DEF NoticesInv

(* What a step of the store leaves alone. *)
LEMMA StoreOnlyKeeps ==
  ASSUME NoticesInv, UNCHANGED storeOnly
  PROVE  /\ FeedIsSo' /\ SeenOnce' /\ cursor'.boot <= feed'.boot
         /\ \A t \in Askers : GivenIsSo(t)'
         /\ NoticedOnce' /\ NonePassedBy'
<1>. USE DEF storeOnly, NoticesInv
<1>1. FeedIsSo' /\ SeenOnce' /\ cursor'.boot <= feed'.boot
  BY DEF FeedIsSo, SeenOnce
<1>2. \A t \in Askers : GivenIsSo(t)'
  BY DEF GivenIsSo
<1>3. NoticedOnce' /\ NonePassedBy'
  BY DEF NoticedOnce, NonePassedBy
<1> QED BY <1>1, <1>2, <1>3

(* An event is written: of a case that goes on, or of one that opens. *)
LEMMA WriteKeeps ==
  ASSUME NoticesInv, NEW k \in Keys, NEW event \in EventNames, NEW from \in Standings,
         NEW to \in Standings, WritesEvent(k, event, from, to)
  PROVE  NoticesInv'
<1>. DEFINE new == Event(event, from, to)
<1>1. /\ events' = events + 1 /\ cases' = [cases EXCEPT ![k] = Append(@, new)]
      /\ UNCHANGED storeOnly
  BY DEF WritesEvent
<1>2. /\ NoticesTyped /\ OpenedBefore /\ LandedIsSeen /\ events \in Nat
      /\ cases \in [Keys -> Seq(Happenings)]
  BY DEF NoticesInv, NoticesTyped
<1>3. new \in Happenings /\ new.at = events
  BY <1>2 DEF Event, Happenings
<1>. HIDE DEF new
<1>4. NoticesTyped'
  BY <1>1, <1>2, <1>3 DEF NoticesTyped, storeOnly
<1>5. ASSUME NEW j \in Keys, cases'[j] # <<>>
      PROVE  \/ /\ cases[j] # <<>> /\ CaseId(j)' = CaseId(j) /\ cases'[j][1].at = cases[j][1].at
             \/ CaseId(j)'[2] = events /\ cases'[j][1].at = events
  <2>1. CASE j # k
    <3>1. cases'[j] = cases[j]
      BY <2>1, <1>1, <1>2
    <3> QED BY <3>1, <1>5 DEF CaseId
  <2>2. CASE j = k
    <3>1. cases'[j] = Append(cases[j], new) /\ cases[j] \in Seq(Happenings)
      BY <2>2, <1>1, <1>2
    <3>2. CASE cases[j] = <<>>
      <4>1. cases'[j][1] = new
        BY <3>1, <3>2, <1>3
      <4> QED BY <4>1, <1>3 DEF CaseId
    <3>3. CASE cases[j] # <<>>
      <4>1. Len(cases[j]) \in Nat \ {0}
        BY <3>1, <3>3, EmptySeq
      <4>2. cases'[j][1] = cases[j][1]
        BY <3>1, <4>1, <1>3
      <4> QED BY <4>2, <3>3 DEF CaseId
    <3> QED BY <3>2, <3>3
  <2> QED BY <2>1, <2>2
<1>6. OpenedBefore'
  <2>1. ASSUME NEW j \in Keys, cases'[j] # <<>> PROVE cases'[j][1].at < events'
    <3>1. cases[j] # <<>> => cases[j][1].at \in Nat /\ cases[j][1].at < events
      BY <1>2, CaseIs DEF OpenedBefore
    <3> QED BY <3>1, <2>1, <1>1, <1>2, <1>5
  <2> QED BY <2>1 DEF OpenedBefore
<1>7. LandedIsSeen'
  <2>1. engine' = engine /\ landings' = landings
    BY <1>1 DEF storeOnly
  <2>2. landings \in Seq(Items)
    BY <1>2 DEF NoticesTyped
  <2>3. ASSUME NEW i \in 1 .. Len(landings)
        PROVE  /\ landings[i].case[2] < events'
               /\ \A j \in Keys :
                    cases'[j] # <<>> /\ CaseId(j)' = landings[i].case =>
                      /\ landings[i].seq <= Len(cases'[j])
                      /\ \E s \in engine.seen : s.id = CaseId(j)' /\ landings[i].seq <= s.count
    <3>1. landings[i].case[2] \in Nat /\ landings[i].case[2] < events
      <4>1. landings[i] \in Items
        BY <2>2
      <4> QED BY <4>1, <1>2 DEF Items, CaseIds, LandedIsSeen
    <3>2. ASSUME NEW j \in Keys, cases'[j] # <<>>, CaseId(j)' = landings[i].case
          PROVE  /\ landings[i].seq <= Len(cases'[j])
                 /\ \E s \in engine.seen : s.id = CaseId(j)' /\ landings[i].seq <= s.count
      <4>1. cases[j] # <<>> /\ CaseId(j)' = CaseId(j)
        BY <1>5, <3>1, <3>2, <1>2
      <4>2. Len(cases[j]) \in Nat /\ Len(cases'[j]) >= Len(cases[j])
        BY <1>1, <1>2, <1>3
      <4>3. landings[i].seq \in Nat
        <5>1. landings[i] \in Items
          BY <2>2
        <5> QED BY <5>1 DEF Items
      <4>4. /\ landings[i].seq <= Len(cases[j])
            /\ \E s \in engine.seen : s.id = CaseId(j) /\ landings[i].seq <= s.count
        BY <4>1, <3>2, <1>2 DEF LandedIsSeen
      <4>5. Len(cases'[j]) \in Nat
        BY <1>4 DEF NoticesTyped
      <4>6. landings[i].seq <= Len(cases'[j])
        BY <4>2, <4>3, <4>4, <4>5
      <4> QED BY <4>1, <4>4, <4>6
    <3> QED BY <3>1, <3>2, <1>1, <1>2
  <2> QED BY <2>1, <2>3, <1>2 DEF LandedIsSeen
<1> QED BY <1>1, <1>4, <1>6, <1>7, StoreOnlyKeeps DEF NoticesInv

(* Cases leave the store. *)
LEMMA LeaveKeeps ==
  ASSUME NoticesInv, NEW ks \in SUBSET Keys, Leaves(ks)
  PROVE  NoticesInv'
<1>1. /\ cases' = [k \in Keys |-> IF k \in ks THEN <<>> ELSE cases[k]]
      /\ events' = events /\ UNCHANGED storeOnly
  BY DEF Leaves
<1>2. NoticesTyped /\ OpenedBefore /\ LandedIsSeen
  BY DEF NoticesInv
<1>3. NoticesTyped'
  BY <1>1, <1>2 DEF NoticesTyped, storeOnly
<1>4. \A k \in Keys : cases'[k] # <<>> => cases'[k] = cases[k]
  BY <1>1
<1>5. OpenedBefore'
  BY <1>1, <1>2, <1>4 DEF OpenedBefore
<1>6. LandedIsSeen'
  BY <1>1, <1>2, <1>4 DEF LandedIsSeen, CaseId, storeOnly
<1> QED BY <1>1, <1>3, <1>5, <1>6, StoreOnlyKeeps DEF NoticesInv

(* The store is moved from its path, or put back. *)
LEMMA MoveKeeps ==
  ASSUME NoticesInv, UNCHANGED <<cases, events>>, UNCHANGED storeOnly
  PROVE  NoticesInv'
<1>1. NoticesTyped' /\ OpenedBefore' /\ LandedIsSeen'
  BY DEF NoticesInv, NoticesTyped, OpenedBefore, LandedIsSeen, CaseId, storeOnly
<1> QED BY <1>1, StoreOnlyKeeps DEF NoticesInv

(* A read tells once what landed: what was told before was seen, and is not   *)
(* past what was seen.                                                        *)
LEMMA ReadTellsOnce ==
  ASSUME NoticesInv, Reads, UNCHANGED <<cases, file, events>>
  PROVE  landings' \in Seq(Items) /\ LandedIsSeen' /\ NoticedOnce' /\ SeenOnce'
<1>1. /\ NoticesTyped /\ SeenOnce /\ LandedIsSeen /\ NoticedOnce /\ OpenedBefore
      /\ engine' = Observed /\ landings' = landings \o NewItems
  BY DEF NoticesInv, Reads
<1>2. landings \in Seq(Items) /\ NewItems \in Seq(Items) /\ NewsIsSo
  BY <1>1, NewsOfRead DEF NoticesTyped, NewsIsSo
<1>. DEFINE n == Len(landings)
<1>3. /\ n \in Nat /\ Len(NewItems) \in Nat /\ landings' \in Seq(Items)
      /\ Len(landings') = n + Len(NewItems)
      /\ \A i \in 1 .. n : landings'[i] = landings[i]
      /\ \A i \in n + 1 .. Len(landings') :
           i - n \in 1 .. Len(NewItems) /\ landings'[i] = NewItems[i - n]
  BY <1>1, <1>2
<1>. HIDE DEF n
<1>4. SeenOnce'
  BY <1>1, ObservedIs DEF SeenOnce
(* What was told of a case that is there was seen up to what is told now. *)
<1>5. ASSUME NEW k \in Present, NEW i \in 1 .. n, CaseId(k) = landings[i].case
      PROVE  landings[i].seq <= Count(k) /\ Count(k) \in Nat /\ landings[i].seq \in Nat
  <2>1. k \in Keys /\ cases[k] # <<>>
    BY DEF Present
  <2>2. PICK s \in engine.seen : s.id = CaseId(k) /\ landings[i].seq <= s.count
    BY <2>1, <1>1, <1>5 DEF LandedIsSeen, n
  <2>3. s \in SeenOf(k) /\ \A r \in SeenOf(k) : r = s
    BY <2>2, <1>1 DEF SeenOf, SeenOnce
  <2>4. Count(k) = s.count
    BY <2>3 DEF Count
  <2>5. s.count \in Nat
    BY <2>2, <1>1 DEF NoticesTyped
  <2>6. landings[i] \in Items
    BY <1>2 DEF n
  <2> QED BY <2>2, <2>4, <2>5, <2>6 DEF Items
(* Each new one is of a case that is there, past what was seen of it. *)
<1>6. ASSUME NEW i \in 1 .. Len(NewItems)
      PROVE  \E k \in Present :
               /\ k \in Keys /\ cases[k] # <<>> /\ NewItems[i].case = CaseId(k)
               /\ NewItems[i].seq > Count(k) /\ NewItems[i].seq \in Nat
               /\ NewItems[i].seq <= Len(cases[k]) /\ Observes
               /\ CaseId(k)[2] < events
  <2>1. PICK k \in Present :
            /\ NewItems[i].case = CaseId(k) /\ NewItems[i].seq = OnTheHuman(cases[k])
            /\ OnTheHuman(cases[k]) \in 0 .. Len(cases[k])
            /\ Observes /\ OnTheHuman(cases[k]) > Count(k)
    BY <1>2 DEF NewsIsSo
  <2>2. k \in Keys /\ cases[k] # <<>>
    BY DEF Present
  <2>3. CaseId(k)[2] < events
    BY <2>2, <1>1, CaseIs DEF OpenedBefore
  <2>4. Len(cases[k]) \in Nat
    BY <2>2, <1>1, CaseIs
  <2> QED BY <2>1, <2>2, <2>3, <2>4
<1>7. ASSUME NEW i \in 1 .. Len(landings'), NEW j \in 1 .. Len(landings'),
             landings'[i].case = landings'[j].case, landings'[i].seq = landings'[j].seq
      PROVE  i = j
  <2>1. ASSUME NEW old \in 1 .. n, NEW new \in 1 .. Len(NewItems),
               landings[old].case = NewItems[new].case
        PROVE  landings[old].seq # NewItems[new].seq
    BY <2>1, <1>5, <1>6
  <2>2. CASE i \in 1 .. n /\ j \in 1 .. n
    <3>1. i \in DOMAIN landings /\ j \in DOMAIN landings
      BY <2>2, <1>2 DEF n
    <3> QED BY <3>1, <2>2, <1>1, <1>3, <1>7 DEF NoticedOnce
  <2>3. CASE i \in 1 .. n /\ j \in n + 1 .. Len(landings')
    BY <2>1, <2>3, <1>3, <1>7
  <2>4. CASE i \in n + 1 .. Len(landings') /\ j \in 1 .. n
    BY <2>1, <2>4, <1>3, <1>7
  <2>5. CASE i \in n + 1 .. Len(landings') /\ j \in n + 1 .. Len(landings')
    <3>1. /\ i - n \in 1 .. Len(NewItems) /\ j - n \in 1 .. Len(NewItems)
          /\ NewItems[i - n].case = NewItems[j - n].case
      BY <2>5, <1>3, <1>7
    <3>2. i - n = j - n
      BY <3>1, <1>2 DEF NewsIsSo
    <3> QED BY <3>2, <1>3
  <2> QED BY <2>2, <2>3, <2>4, <2>5, <1>3
<1>8. NoticedOnce'
  <2>1. DOMAIN landings' = 1 .. Len(landings')
    BY <1>3
  <2> QED BY <2>1, <1>7 DEF NoticedOnce
<1>9. ~engine'.read => landings' = <<>>
  <2>1. ASSUME ~engine'.read PROVE landings' = <<>>
    <3>1. ~engine.read /\ ~Observes
      BY <2>1, <1>1, ObservedIs
    <3>2. landings = <<>> /\ NewItems = <<>>
      BY <3>1, <1>1 DEF LandedIsSeen, NewItems
    <3> QED BY <3>2, <1>1
  <2> QED BY <2>1
<1>10. ASSUME NEW i \in 1 .. Len(landings')
       PROVE  /\ landings'[i].case[2] < events
              /\ \A k \in Keys :
                   cases[k] # <<>> /\ CaseId(k) = landings'[i].case =>
                     /\ landings'[i].seq <= Len(cases[k])
                     /\ \E s \in Observed.seen : s.id = CaseId(k) /\ landings'[i].seq <= s.count
  <2>1. landings'[i].case[2] < events
    <3>1. CASE i \in 1 .. n
      BY <3>1, <1>1, <1>3 DEF LandedIsSeen, n
    <3>2. CASE i \in n + 1 .. Len(landings')
      <4>1. i - n \in 1 .. Len(NewItems) /\ landings'[i] = NewItems[i - n]
        BY <3>2, <1>3
      <4>2. PICK k \in Present : NewItems[i - n].case = CaseId(k) /\ CaseId(k)[2] < events
        BY <4>1, <1>6
      <4> QED BY <4>1, <4>2
    <3> QED BY <3>1, <3>2, <1>3
  <2>2. ASSUME NEW k \in Keys, cases[k] # <<>>, CaseId(k) = landings'[i].case
        PROVE  /\ landings'[i].seq <= Len(cases[k])
               /\ \E s \in Observed.seen : s.id = CaseId(k) /\ landings'[i].seq <= s.count
    <3>1. CASE ~Observes
      <4>1. NewItems = <<>> /\ Observed = engine
        BY <3>1, <1>1, ObservedIs DEF NewItems
      <4>2. i \in 1 .. n /\ landings'[i] = landings[i]
        BY <4>1, <1>3
      <4> QED BY <4>1, <4>2, <2>2, <1>1 DEF LandedIsSeen, n
    <3>2. CASE Observes /\ k \in Present
      <4>1. PICK s \in Observed.seen : s.id = CaseId(k) /\ s.count = Len(cases[k])
        BY <3>2, <1>1, ObservedIs
      <4>2. landings'[i].seq <= Len(cases[k])
        <5>1. CASE i \in 1 .. n
          BY <5>1, <2>2, <1>1, <1>3 DEF LandedIsSeen, n
        <5>2. CASE i \in n + 1 .. Len(landings')
          <6>1. PICK j \in Present : /\ j \in Keys /\ cases[j] # <<>>
                                    /\ landings'[i].case = CaseId(j)
                                    /\ landings'[i].seq <= Len(cases[j])
            BY <5>2, <1>3, <1>6
          <6>2. j = k
            BY <6>1, <2>2, <1>1, CaseIs
          <6> QED BY <6>1, <6>2
        <5> QED BY <5>1, <5>2, <1>3
      <4> QED BY <4>1, <4>2
    <3>3. CASE Observes /\ k \notin Present
      <4>1. file # "there" /\ ~engine.read
        BY <3>3, <2>2 DEF Present, Observes
      <4>2. n = 0
        BY <4>1, <1>1 DEF LandedIsSeen, n
      <4>3. Len(NewItems) = 0
        BY <4>1, <1>2, <1>3 DEF NewsIsSo
      <4> QED BY <4>2, <4>3, <1>3
    <3> QED BY <3>1, <3>2, <3>3
  <2> QED BY <2>1, <2>2
<1>11. LandedIsSeen'
  BY <1>1, <1>9, <1>10 DEF LandedIsSeen, CaseId
<1> QED BY <1>3, <1>4, <1>8, <1>11

(* A read leaves the tabs' number, what was shown, and the pages given as they *)
(* are, and the feed goes on.                                                 *)
LEMMA ReadGoesOn ==
  ASSUME NoticesInv, Reads
  PROVE  /\ feed'.boot = feed.boot /\ feed'.latest \in Nat /\ feed.latest \in Nat
         /\ feed.latest <= feed'.latest /\ FeedIsSo'
         /\ feed' \in [boot : Nat \ {0}, latest : Nat, items : Seq(Items)]
         /\ engine' \in [read : BOOLEAN, seen : SUBSET [id : CaseIds, count : Nat]]
<1>1. NoticesTyped /\ FeedIsSo /\ SeenOnce /\ feed' = Queued /\ engine' = Observed
  BY DEF NoticesInv, Reads
<1>2. QueueIsSo
  BY <1>1, QueueOfRead
<1>3. Len(NewItems) \in Nat /\ feed.latest \in Nat
  BY <1>1, NewsOfRead DEF NewsIsSo, NoticesTyped
<1>4. FeedIsSo'
  BY <1>1, <1>2 DEF QueueIsSo, FeedIsSo
<1> QED BY <1>1, <1>2, <1>3, <1>4, ObservedIs DEF QueueIsSo

(* A page given before stays so as the feed goes on. *)
LEMMA GivenGoesOn ==
  ASSUME NoticesInv, NEW t \in Askers, asker'[t] = asker[t],
         feed'.boot = feed.boot, feed'.latest \in Nat, feed.latest <= feed'.latest
  PROVE  GivenIsSo(t)'
<1>1. GivenIsSo(t) /\ asker[t].page.latest \in Nat /\ feed.latest \in Nat
  BY DEF NoticesInv, NoticesTyped, Given
<1> QED BY <1>1 DEF GivenIsSo

LEMMA NonePassedGoesOn ==
  ASSUME NoticesInv, UNCHANGED <<cursor, shown>>,
         feed'.boot = feed.boot, feed'.latest \in Nat, feed.latest <= feed'.latest
  PROVE  NonePassedBy'
<1>1. /\ NonePassedBy /\ feed.latest \in Nat /\ cursor.id \in Nat /\ cursor.from \in Nat
      /\ FeedSize \in Nat
  BY NoticesAssumption DEF NoticesInv, NoticesTyped, Cursors
<1> QED BY <1>1 DEF NonePassedBy

LEMMA TickKeeps ==
  ASSUME NoticesInv, ServeTicks
  PROVE  NoticesInv'
<1>1. Reads /\ UNCHANGED <<cases, file, events, pref, cursor, asker, away, shown>>
  BY DEF ServeTicks
<1>2. landings' \in Seq(Items) /\ LandedIsSeen' /\ NoticedOnce' /\ SeenOnce'
  BY <1>1, ReadTellsOnce
<1>3. NoticesTyped'
  BY <1>1, <1>2, ReadGoesOn DEF NoticesInv, NoticesTyped
<1>4. \A t \in Askers : GivenIsSo(t)'
  BY <1>1, ReadGoesOn, GivenGoesOn
<1>5. NonePassedBy'
  BY <1>1, ReadGoesOn, NonePassedGoesOn
<1>6. FeedIsSo' /\ OpenedBefore' /\ cursor'.boot <= feed'.boot
  BY <1>1, ReadGoesOn DEF NoticesInv, OpenedBefore
<1> QED BY <1>2, <1>3, <1>4, <1>5, <1>6 DEF NoticesInv

LEMMA RestartKeeps ==
  ASSUME NoticesInv, ServeRestarts
  PROVE  NoticesInv'
<1>1. /\ feed' = [boot |-> feed.boot + 1, latest |-> 0, items |-> <<>>]
      /\ engine' = NotRead /\ landings' = <<>>
      /\ UNCHANGED <<cases, file, events, pref, cursor, asker, away, shown>>
  BY DEF ServeRestarts
<1>2. NoticesTyped /\ feed.boot \in Nat \ {0} /\ cursor.boot \in Nat /\ cursor.boot <= feed.boot
  BY DEF NoticesInv, NoticesTyped, Cursors
<1>3. NoticesTyped'
  BY <1>1, <1>2 DEF NoticesTyped, NotRead
<1>4. FeedIsSo' /\ OpenedBefore' /\ SeenOnce' /\ LandedIsSeen' /\ NoticedOnce'
  BY <1>1, NoticesAssumption
     DEF NoticesInv, FeedIsSo, OpenedBefore, SeenOnce, LandedIsSeen, NoticedOnce, NotRead
<1>5. cursor'.boot < feed'.boot /\ NonePassedBy'
  BY <1>1, <1>2 DEF NonePassedBy
<1>6. ASSUME NEW t \in Askers PROVE GivenIsSo(t)'
  <2>1. asker'[t] = asker[t] /\ GivenIsSo(t) /\ asker[t].page.boot \in Nat
    BY <1>1 DEF NoticesInv, NoticesTyped, Given
  <2> QED BY <2>1, <1>1, <1>2 DEF GivenIsSo
<1> QED BY <1>2, <1>1, <1>3, <1>4, <1>5, <1>6 DEF NoticesInv

(* A tab that is not answered has no page. *)
LEMMA AskKeeps ==
  ASSUME NoticesInv, NEW t \in Askers,
         UNCHANGED <<cases, events, engine, feed, shown, landings>>,
         cursor' \in {cursor, NoCursor},
         asker' = asker \/ \E have \in Cursors, phase \in {"idle", "asked"} :
                            asker' = [asker EXCEPT ![t] = [phase |-> phase, have |-> have,
                                                           page |-> NoPage]]
  PROVE  NoticesInv'
<1>1. NoticesTyped /\ cursor.boot <= feed.boot /\ feed.boot \in Nat \ {0}
  BY DEF NoticesInv, NoticesTyped
<1>2. NoPage \in Given /\ NoCursor \in Cursors
  BY DEF NoPage, Given, NoCursor, Cursors
<1>3. NoticesTyped'
  <2>. DEFINE Tab == [phase : {"idle", "asked", "answered"}, have : Cursors, page : Given]
  <2>1. \A have \in Cursors, phase \in {"idle", "asked"} :
          [phase |-> phase, have |-> have, page |-> NoPage] \in Tab
    BY <1>2
  <2>2. asker \in [Askers -> Tab]
    BY <1>1 DEF NoticesTyped
  <2>. HIDE DEF Tab
  <2>3. asker' \in [Askers -> Tab]
    BY <2>1, <2>2
  <2>4. cursor' \in Cursors
    BY <1>1, <1>2 DEF NoticesTyped
  <2> QED BY <2>3, <2>4, <1>1 DEF NoticesTyped, Tab
<1>4. ASSUME NEW u \in Askers PROVE GivenIsSo(u)'
  <2>1. GivenIsSo(u)
    BY DEF NoticesInv
  <2>2. asker'[u] = asker[u] \/ asker'[u].phase \in {"idle", "asked"}
    BY <1>1 DEF NoticesTyped
  <2> QED BY <2>1, <2>2 DEF GivenIsSo
<1>5. cursor'.boot <= feed'.boot /\ NonePassedBy'
  <2>1. CASE cursor' = cursor
    BY <2>1, <1>1 DEF NoticesInv, NonePassedBy
  <2>2. CASE cursor' = NoCursor
    BY <2>2, <1>1 DEF NoCursor, NonePassedBy
  <2> QED BY <2>1, <2>2
<1>6. FeedIsSo' /\ OpenedBefore' /\ SeenOnce' /\ LandedIsSeen' /\ NoticedOnce'
  BY DEF NoticesInv, FeedIsSo, OpenedBefore, SeenOnce, LandedIsSeen, NoticedOnce, CaseId
<1> QED BY <1>3, <1>4, <1>5, <1>6 DEF NoticesInv

(* serve's answer: the items after the number asked for, which are all but    *)
(* what was dropped.                                                          *)
LEMMA AnswerKeeps ==
  ASSUME NoticesInv, NEW t \in Askers, AnswersTab(t)
  PROVE  NoticesInv'
<1>. DEFINE page == [boot |-> Queued.boot, latest |-> Queued.latest,
                     items |-> {item \in ToSet(Queued.items) : item.id > asker[t].have.id}]
<1>1. /\ Reads /\ UNCHANGED <<cases, file, events, pref, cursor, away, shown>>
      /\ asker' = [asker EXCEPT ![t].phase = "answered", ![t].page = page]
      /\ feed' = Queued
  BY DEF AnswersTab, Reads
<1>2. NoticesTyped /\ FeedIsSo /\ asker[t].have.id \in Nat /\ FeedSize \in Nat
  BY NoticesAssumption DEF NoticesInv, NoticesTyped, Cursors
<1>3. QueueIsSo
  BY <1>2, QueueOfRead
<1>4. landings' \in Seq(Items) /\ LandedIsSeen' /\ NoticedOnce' /\ SeenOnce'
  BY <1>1, ReadTellsOnce
<1>5. /\ DOMAIN Queued.items = 1 .. Len(Queued.items) /\ Len(Queued.items) \in Nat
      /\ \A i \in 1 .. Len(Queued.items) : Queued.items[i] \in Items
  BY <1>3 DEF QueueIsSo
<1>6. page \in Given
  <2>1. \A item \in ToSet(Queued.items) : item \in Items
    BY <1>5 DEF ToSet
  <2> QED BY <2>1, <1>3 DEF Given, QueueIsSo
<1>7. ASSUME NEW id \in Nat, asker[t].have.id < id, page.latest - FeedSize < id,
             id <= page.latest
      PROVE  \E item \in page.items : item.id = id
  <2>. DEFINE i == id - page.latest + Len(Queued.items)
  <2>1. page.latest = Queued.latest /\ Queued.latest \in Nat
    BY <1>3 DEF QueueIsSo
  <2>2. i \in 1 .. Len(Queued.items)
    BY <2>1, <1>2, <1>3, <1>5, <1>7 DEF QueueIsSo
  <2>3. Queued.items[i].id = id
    <3>1. Queued.items[i].id = Queued.latest - Len(Queued.items) + i
      BY <2>2, <1>3 DEF QueueIsSo
    <3> QED BY <3>1, <2>1, <1>5
  <2>4. Queued.items[i] \in ToSet(Queued.items)
    BY <2>2, <1>5 DEF ToSet
  <2>. HIDE DEF i
  <2> QED BY <2>3, <2>4, <1>7
<1>. HIDE DEF page
<1>8. asker' = [asker EXCEPT ![t] = [asker[t] EXCEPT !.phase = "answered", !.page = page]]
  BY <1>1, <1>2 DEF NoticesTyped
<1>9. NoticesTyped'
  <2>. DEFINE Tab == [phase : {"idle", "asked", "answered"}, have : Cursors, page : Given]
  <2>1. asker \in [Askers -> Tab]
    BY <1>2 DEF NoticesTyped
  <2>2. [asker[t] EXCEPT !.phase = "answered", !.page = page] \in Tab
    BY <2>1, <1>6
  <2>. HIDE DEF Tab
  <2>3. asker' \in [Askers -> Tab]
    BY <2>1, <2>2, <1>8
  <2> QED BY <2>3, <1>1, <1>2, <1>4, ReadGoesOn DEF NoticesTyped, Tab
<1>10. ASSUME NEW u \in Askers PROVE GivenIsSo(u)'
  <2>1. CASE u = t
    <3>1. asker'[t].page = page /\ asker'[t].have = asker[t].have
      BY <1>2, <1>8 DEF NoticesTyped
    <3>2. page.boot = feed'.boot /\ page.latest = feed'.latest
      BY <1>1 DEF page
    <3>3. feed'.boot \in Nat /\ feed'.latest \in Nat
      BY <1>9 DEF NoticesTyped
    <3> QED BY <2>1, <3>1, <3>2, <3>3, <1>7 DEF GivenIsSo
  <2>2. CASE u # t
    <3>1. asker'[u] = asker[u]
      BY <2>2, <1>2, <1>8 DEF NoticesTyped
    <3> QED BY <3>1, <1>1, ReadGoesOn, GivenGoesOn
  <2> QED BY <2>1, <2>2
<1>11. NonePassedBy'
  BY <1>1, ReadGoesOn, NonePassedGoesOn
<1>12. FeedIsSo' /\ OpenedBefore' /\ cursor'.boot <= feed'.boot
  BY <1>1, ReadGoesOn DEF NoticesInv, OpenedBefore
<1> QED BY <1>4, <1>9, <1>10, <1>11, <1>12 DEF NoticesInv

(* A tab takes its page: the number it kept was not moved past what it asked  *)
(* after, so what it shows and what was dropped is all there is between.      *)
LEMMA TakeKeeps ==
  ASSUME NoticesInv, NEW t \in Askers, Takes(t)
  PROVE  NoticesInv'
<1>. DEFINE page == asker[t].page
            have == asker[t].have
            news == {item \in page.items : item.id > cursor.id}
<1>1. /\ asker[t].phase = "answered" /\ asker' = [asker EXCEPT ![t] = Idle]
      /\ UNCHANGED <<cases, file, events, engine, feed, pref, away, landings>>
  BY DEF Takes
<1>2. /\ NoticesTyped /\ page \in Given /\ have \in Cursors /\ cursor \in Cursors
      /\ feed.boot \in Nat \ {0} /\ feed.latest \in Nat /\ FeedSize \in Nat
      /\ GivenIsSo(t) /\ cursor.boot <= feed.boot /\ NonePassedBy
  BY NoticesAssumption DEF NoticesInv, NoticesTyped
<1>3. Idle \in [phase : {"idle", "asked", "answered"}, have : Cursors, page : Given]
  BY DEF Idle, NoCursor, NoPage, Cursors, Given
<1>4. \A u \in Askers : GivenIsSo(u)'
  <2>1. \A u \in Askers : asker'[u] = asker[u] \/ asker'[u] = Idle
    BY <1>1, <1>2 DEF NoticesTyped
  <2>2. Idle.phase # "answered"
    BY DEF Idle
  <2> QED BY <2>1, <2>2, <1>1 DEF NoticesInv, GivenIsSo
<1>5. FeedIsSo' /\ OpenedBefore' /\ SeenOnce' /\ LandedIsSeen' /\ NoticedOnce'
  BY <1>1 DEF NoticesInv, FeedIsSo, OpenedBefore, SeenOnce, LandedIsSeen, NoticedOnce, CaseId
<1>6. page.boot \in Nat /\ page.latest \in Nat /\ page.boot <= feed.boot
  BY <1>1, <1>2 DEF Given, GivenIsSo
<1>7. cursor' \in Cursors /\ cursor'.boot <= feed.boot /\ NonePassedBy'
  <2>1. CASE cursor' \in {[boot |-> page.boot, id |-> page.latest, from |-> page.latest],
                          [boot |-> page.boot, id |-> 0, from |-> 0]}
    BY <2>1, <1>6 DEF Cursors, NonePassedBy
  <2>2. CASE UNCHANGED <<cursor, shown>>
    BY <2>2, <1>1, <1>2 DEF NonePassedBy
  <2>3. CASE /\ ~(cursor # NoCursor /\ cursor.boot # page.boot)
             /\ ~AskedPast(have) /\ ~(cursor.id >= page.latest)
             /\ shown' = shown \union {<<page.boot, item.id>> : item \in news}
             /\ cursor' = [cursor EXCEPT !.id = page.latest]
             /\ cursor # NoCursor
    <3>1. /\ cursor.boot = page.boot /\ cursor' \in Cursors
          /\ cursor'.boot = cursor.boot /\ cursor'.id = page.latest
          /\ cursor'.from = cursor.from
      BY <2>3, <1>2, <1>6 DEF Cursors
    <3>2. have.id <= cursor.id /\ have.id \in Nat /\ cursor.id \in Nat /\ cursor.from \in Nat
      BY <2>3, <1>2 DEF AskedPast, Cursors, NoCursor
    <3>3. ASSUME cursor'.boot = feed'.boot, NEW id \in cursor'.from + 1 .. cursor'.id
          PROVE  <<feed'.boot, id>> \in shown' \/ id <= feed'.latest - FeedSize
      <4>1. id \in Nat /\ page.boot = feed.boot /\ id <= page.latest
        BY <3>1, <3>2, <3>3, <1>1, <1>6
      <4>2. page.latest <= feed.latest
        BY <4>1, <1>1, <1>2 DEF GivenIsSo
      <4>3. CASE id <= cursor.id
        BY <4>1, <4>3, <3>1, <3>2, <3>3, <1>1, <1>2, <2>3 DEF NonePassedBy
      <4>4. CASE id > cursor.id /\ id <= page.latest - FeedSize
        BY <4>2, <4>4, <4>1, <1>1, <1>2, <1>6
      <4>5. CASE id > cursor.id /\ ~(id <= page.latest - FeedSize)
        <5>1. have.id < id /\ page.latest - FeedSize < id
          BY <4>1, <4>5, <3>2, <1>2, <1>6
        <5>2. PICK item \in page.items : item.id = id
          BY <5>1, <4>1, <1>1, <1>2 DEF GivenIsSo
        <5>3. <<page.boot, id>> \in shown'
          BY <5>2, <4>5, <2>3
        <5> QED BY <5>3, <4>1, <1>1
      <4> QED BY <4>3, <4>4, <4>5, <4>1, <3>2
    <3> QED BY <3>1, <3>3, <1>1, <1>2 DEF NonePassedBy
  <2> QED BY <2>1, <2>2, <2>3 DEF Takes
<1>8. NoticesTyped'
  BY <1>1, <1>2, <1>3, <1>7 DEF NoticesTyped
<1> QED BY <1>1, <1>4, <1>5, <1>7, <1>8 DEF NoticesInv

LEMMA NoticesStep == NoticesInv /\ [NoticesNext]_noticeVars => NoticesInv'
<1>. SUFFICES ASSUME NoticesInv, [NoticesNext]_noticeVars PROVE NoticesInv'
  OBVIOUS
<1>1. ASSUME NEW k \in Keys, OpensCase(k) PROVE NoticesInv'
  <2>1. WritesEvent(k, "open", "none", "open")
    BY <1>1 DEF OpensCase
  <2>2. "open" \in EventNames /\ "none" \in Standings /\ "open" \in Standings
    BY DEF EventNames, Standings
  <2> QED BY <2>1, <2>2, WriteKeeps
<1>2. ASSUME NEW k \in Keys, GoesOn(k) PROVE NoticesInv'
  <2>. DEFINE state == Last(cases[k]).to
  <2>1. state \in Standings
    <3>1. cases[k] \in Seq(Happenings) /\ Len(cases[k]) \in Nat \ {0}
      BY <1>2, CaseIs DEF GoesOn, NoticesInv
    <3>2. cases[k][Len(cases[k])] \in Happenings
      BY <3>1
    <3> QED BY <3>2 DEF Last, Happenings
  <2>2. \E event \in {"note", "amend", "answer", "park", "resume"},
           from, to \in {state, "open", "answered", "parked"} :
             WritesEvent(k, event, from, to)
    BY <1>2, Zenon DEF GoesOn
  <2>3. PICK event \in {"note", "amend", "answer", "park", "resume"},
             from \in {state, "open", "answered", "parked"},
             to \in {state, "open", "answered", "parked"} :
               WritesEvent(k, event, from, to)
    BY <2>2
  <2>. HIDE DEF state
  <2>4. event \in EventNames /\ from \in Standings /\ to \in Standings
    BY <2>1 DEF EventNames, Standings
  <2> QED BY <2>3, <2>4, WriteKeeps
<1>3. ASSUME NEW ks \in SUBSET Keys, Leaves(ks) PROVE NoticesInv'
  BY <1>3, LeaveKeeps
<1>4. CASE MovedAway \/ PutBack
  BY <1>4, MoveKeeps DEF MovedAway, PutBack
<1>5. CASE ServeTicks
  BY <1>5, TickKeeps
<1>6. CASE ServeRestarts
  BY <1>6, RestartKeeps
<1>7. CASE TurnsPref
  <2>1. UNCHANGED <<cases, events, engine, feed, shown, landings>> /\ cursor' = cursor
        /\ asker' = asker
    BY <1>7 DEF TurnsPref
  <2>2. FeedIsSo' /\ OpenedBefore' /\ SeenOnce' /\ LandedIsSeen' /\ NoticedOnce'
        /\ NonePassedBy' /\ NoticesTyped' /\ \A t \in Askers : GivenIsSo(t)'
    BY <2>1, ZenonT(30) DEF NoticesInv, FeedIsSo, OpenedBefore, SeenOnce, LandedIsSeen, NoticedOnce,
                NonePassedBy, NoticesTyped, GivenIsSo, CaseId
  <2> QED BY <2>1, <2>2 DEF NoticesInv
<1>8. ASSUME NEW t \in Askers, Asks(t) PROVE NoticesInv'
  <2>1. cursor \in Cursors
    BY DEF NoticesInv, NoticesTyped
  <2>2. CASE pref
    <3>1. cursor' = cursor /\ UNCHANGED <<cases, events, engine, feed, shown, landings>>
          /\ asker' = [asker EXCEPT ![t] = [phase |-> "asked", have |-> cursor,
                                            page |-> NoPage]]
      BY <1>8, <2>2 DEF Asks, Idle
    <3> QED BY <3>1, <2>1, AskKeeps
  <2>3. CASE ~pref
    <3>1. cursor' = NoCursor /\ asker' = asker
          /\ UNCHANGED <<cases, events, engine, feed, shown, landings>>
      BY <1>8, <2>3 DEF Asks
    <3> QED BY <3>1, AskKeeps
  <2> QED BY <2>2, <2>3
<1>9. ASSUME NEW t \in Askers, NoReply(t) PROVE NoticesInv'
  <2>1. NoCursor \in Cursors
    BY DEF NoCursor, Cursors
  <2>2. UNCHANGED <<cases, events, engine, feed, shown, landings>> /\ cursor' = cursor
        /\ asker' = [asker EXCEPT ![t] = [phase |-> "idle", have |-> NoCursor,
                                          page |-> NoPage]]
    BY <1>9 DEF NoReply, Idle
  <2> QED BY <2>1, <2>2, AskKeeps
<1>10. ASSUME NEW t \in Askers, AnswersTab(t) PROVE NoticesInv'
  BY <1>10, AnswerKeeps
<1>11. ASSUME NEW t \in Askers, Takes(t) PROVE NoticesInv'
  BY <1>11, TakeKeeps
<1>12. CASE UNCHANGED noticeVars
  <2>1. UNCHANGED <<cases, events>> /\ UNCHANGED storeOnly
    BY <1>12 DEF noticeVars, storeOnly
  <2> QED BY <2>1, MoveKeeps
<1>13. \A k \in Keys : {k} \in SUBSET Keys
  OBVIOUS
<1> QED BY <1>1, <1>2, <1>3, <1>4, <1>5, <1>6, <1>7, <1>8, <1>9, <1>10, <1>11, <1>12, <1>13
        DEF NoticesNext

(* EachNoticedOnce: no two notifications are of one event of one case, and    *)
(* the tabs show each there is place for (serve/notify.rs, options.ts).       *)
THEOREM NoticesOnce == NoticesSpec => []EachNoticedOnce
<1>1. NoticesInv => EachNoticedOnce
  BY DEF NoticesInv, EachNoticedOnce
<1> QED BY <1>1, NoticesInitInv, NoticesStep, PTL DEF NoticesSpec

=============================================================================
