------------------------------- MODULE Inbox -------------------------------
(***************************************************************************)
(* The inbox in a browser, and how its pages follow the store: serve reads *)
(* the store, publishes what moved, and tells one tab by an event stream;  *)
(* that tab tells the others; each reads its lists again.                  *)
(*                                                                         *)
(* The store is its version, which rises with every change: a read of it   *)
(* gives the version it was at.  A page's two lists, of the cases that     *)
(* wait and of the others, are read by requests of their own, and so may   *)
(* be of two versions.                                                     *)
(***************************************************************************)
EXTENDS Integers, Sequences, FiniteSets

CONSTANTS
    Tabs,       \* the tabs of one browser
    MaxStore,   \* the last version of the store (a bound)
    MaxFaults   \* how often serve stops, a stream drops, a read fails, a tab
                \* closes or a minute passes (a bound)

ASSUME InboxAssumption == MaxStore \in Nat \ {0} /\ MaxFaults \in Nat

VARIABLES
    store,      \* the store's version
    up,         \* whether serve runs
    snapshot,   \* the version of the snapshot serve's watch published last
    sender,     \* serve's end of each tab's stream: the task `send`
    wire,       \* the messages on their way on each stream
    source,     \* each tab's end of its stream, its EventSource
    holder,     \* the tab that holds the lock "cases-stream"
    tab,        \* what each tab has
    mail,       \* what each tab was told over the channel "cases-store"
    faults

inboxVars == <<store, up, snapshot, sender, wire, source, holder, tab, mail, faults>>

NoTab == "no tab"

ASSUME NoTabAssumption == NoTab \notin Tabs

Dropped == -1                \* told in place of a version: a stream dropped
NoVersion == 0                  \* no version: MISSING, or none had yet
WireSize == 1                \* the messages a stream holds, of mpsc::channel(1)

NoSender == [on |-> FALSE, after |-> NoVersion, phase |-> "look", unseen |-> FALSE,
             message |-> NoVersion]
NoSource == [state |-> "closed", last |-> NoVersion, url |-> NoVersion]
NoLists == [waiting |-> NoVersion, others |-> NoVersion]
NewLoad == [overtaken |-> FALSE, read |-> NoLists]

(* The tabs have read the store once, and serve has told them of nothing.  *)
InboxInit ==
    /\ store = 1 /\ up = TRUE /\ snapshot = NoVersion
    /\ sender = [t \in Tabs |-> NoSender]
    /\ wire = [t \in Tabs |-> <<>>]
    /\ source = [t \in Tabs |-> NoSource]
    /\ holder = NoTab
    /\ tab = [t \in Tabs |-> [alive |-> TRUE, version |-> NoVersion, dropped |-> FALSE,
                              loads |-> <<>>,
                              shown |-> [waiting |-> 1, others |-> 1],
                              problem |-> FALSE]]
    /\ mail = [t \in Tabs |-> <<>>]
    /\ faults = 0

Fault == faults < MaxFaults /\ faults' = faults + 1

StoreMoves ==
    /\ store < MaxStore /\ store' = store + 1
    /\ UNCHANGED <<up, snapshot, sender, wire, source, holder, tab, mail, faults>>

-----------------------------------------------------------------------------
(* serve: its watch, which each API read goes through too, and its streams.*)

Published(senders) ==
    IF snapshot = store THEN senders
    ELSE [t \in Tabs |-> [senders[t] EXCEPT !.unseen = @ \/ senders[t].on]]

(* A read of the store publishes a snapshot, if it has moved.              *)
Read == snapshot' = store /\ sender' = Published(sender)

ServeReads ==
    /\ up /\ Read
    /\ UNCHANGED <<store, up, wire, source, holder, tab, mail, faults>>

Sends(t, v) ==
    /\ wire' = [wire EXCEPT ![t] = Append(@, v)]
    /\ sender' = [sender EXCEPT ![t].phase = "gap", ![t].after = v,
                                ![t].message = NoVersion,
                                ![t].unseen = (@ /\ sender[t].phase = "sending")]

(* The top of the loop of `send`: it takes the version as it is, which     *)
(* marks the snapshot seen, and sends it once the last message has gone.   *)
(* Then it waits out a gap.                                                *)
Look(t) ==
    /\ sender[t].on /\ sender[t].phase = "look"
    /\ CASE snapshot = sender[t].after ->
               /\ sender' = [sender EXCEPT ![t].phase = "waiting", ![t].unseen = FALSE]
               /\ UNCHANGED wire
         [] snapshot # sender[t].after /\ Len(wire[t]) < WireSize -> Sends(t, snapshot)
         [] OTHER ->
               /\ sender' = [sender EXCEPT ![t].phase = "sending", ![t].unseen = FALSE,
                                           ![t].message = snapshot]
               /\ UNCHANGED wire
    /\ UNCHANGED <<store, up, snapshot, source, holder, tab, mail, faults>>

SendVersion(t) ==
    /\ sender[t].on /\ sender[t].phase = "sending" /\ Len(wire[t]) < WireSize
    /\ Sends(t, sender[t].message)
    /\ UNCHANGED <<store, up, snapshot, source, holder, tab, mail, faults>>

(* Mistake: what was published during the gap is taken as seen.            *)
AfterGapWaits(s) == [s EXCEPT !.phase = "waiting", !.unseen = FALSE]

(* The gap over, it looks again: a snapshot may have been published in it. *)
AfterGap(s) == [s EXCEPT !.phase = "look"]

GapEnds(t) ==
    /\ sender[t].on /\ sender[t].phase = "gap"
    /\ sender' = [sender EXCEPT ![t] = AfterGap(@)]
    /\ UNCHANGED <<store, up, snapshot, wire, source, holder, tab, mail, faults>>

Moved(t) ==
    /\ sender[t].on /\ sender[t].phase = "waiting" /\ sender[t].unseen
    /\ sender' = [sender EXCEPT ![t].phase = "look"]
    /\ UNCHANGED <<store, up, snapshot, wire, source, holder, tab, mail, faults>>

-----------------------------------------------------------------------------
(* A tab: what it reads, and what makes it read.                           *)

(* Every read of a page overtakes those before it, which then change       *)
(* nothing: of them, the last is kept whose answers were all on their way. *)
Loading(tb) ==
    LET whole == {i \in DOMAIN tb.loads : tb.loads[i].read.others # NoVersion}
        last == CHOOSE i \in whole : \A j \in whole : j <= i
    IN  [tb EXCEPT !.loads =
           IF whole = {} THEN <<NewLoad>>
           ELSE <<[tb.loads[last] EXCEPT !.overtaken = TRUE], NewLoad>>]

(* Mistake: a read that was overtaken is shown.                            *)
IsLatestAny(tb, i) == TRUE

IsLatest(tb, i) == ~tb.loads[i].overtaken

Without(loads, i) == SubSeq(loads, 1, i - 1) \o SubSeq(loads, i + 1, Len(loads))

(* The two are read at once; which is read first makes no difference here. *)
ReadsList(t, i, list) ==
    /\ up /\ tab[t].loads[i].read[list] = NoVersion
    /\ list = "others" => tab[t].loads[i].read.waiting # NoVersion
    /\ Read
    /\ tab' = [tab EXCEPT ![t].loads[i].read[list] = store]
    /\ UNCHANGED <<store, up, wire, source, holder, mail, faults>>

(* Both lists are there: they are shown, unless another read began since.  *)
Shows(t, i) ==
    /\ tab[t].loads[i].read.others # NoVersion
    /\ tab' = [tab EXCEPT
          ![t].loads = Without(@, i),
          ![t].shown = IF IsLatest(tab[t], i) THEN tab[t].loads[i].read ELSE @,
          ![t].problem = IF IsLatest(tab[t], i) THEN FALSE ELSE @]
    /\ UNCHANGED <<store, up, snapshot, sender, wire, source, holder, mail, faults>>

(* serve cannot be reached, or it cannot read the store.                   *)
LoadFails(t, i) ==
    /\ IF up THEN Fault ELSE UNCHANGED faults
    /\ tab' = [tab EXCEPT
          ![t].loads = Without(@, i),
          ![t].problem = IF IsLatest(tab[t], i) THEN TRUE ELSE @]
    /\ UNCHANGED <<store, up, snapshot, sender, wire, source, holder, mail>>

Load(t) ==
    \E i \in DOMAIN tab[t].loads :
       \/ \E list \in DOMAIN NoLists : ReadsList(t, i, list)
       \/ Shows(t, i)
       \/ LoadFails(t, i)

(* The tab is told the version `v`, by its stream or by another tab.       *)
Seen(tb, v) == IF v = tb.version THEN tb ELSE Loading([tb EXCEPT !.version = v])

Tells(others, message) ==
    [u \in Tabs |-> IF u \in others /\ tab[u].alive THEN Append(mail[u], message)
                    ELSE mail[u]]

(* A message of the stream: the tab passes it on, and reads what it shows. *)
Message(t) ==
    /\ source[t].state = "open" /\ wire[t] # <<>>
    /\ wire' = [wire EXCEPT ![t] = Tail(@)]
    /\ source' = [source EXCEPT ![t].last = Head(wire[t])]
    /\ mail' = Tells(Tabs \ {t}, Head(wire[t]))
    /\ tab' = [tab EXCEPT ![t] = Seen(@, Head(wire[t]))]
    /\ UNCHANGED <<store, up, snapshot, sender, holder, faults>>

(* The holder also says so when a stream that had dropped is back.         *)
Mail(t) ==
    /\ tab[t].alive /\ mail[t] # <<>>
    /\ mail' = [mail EXCEPT ![t] = Tail(@)]
    /\ tab' = [tab EXCEPT ![t] = IF Head(mail[t]) = Dropped THEN Loading(@)
                                 ELSE Seen(@, Head(mail[t]))]
    /\ UNCHANGED <<store, up, snapshot, sender, wire, source, holder, faults>>

(* Once a minute every page is read again.                                 *)
Minute(t) ==
    /\ tab[t].alive /\ tab[t].loads = <<>> /\ Fault
    /\ tab' = [tab EXCEPT ![t] = Loading(@)]
    /\ UNCHANGED <<store, up, snapshot, sender, wire, source, holder, mail>>

(* The lock goes to a tab that waits for it, which opens a stream from the *)
(* version it has.                                                         *)
TakesLock(t) ==
    /\ holder = NoTab /\ tab[t].alive
    /\ holder' = t
    /\ source' = [source EXCEPT ![t] = [state |-> "connecting", last |-> NoVersion,
                                        url |-> tab[t].version]]
    /\ UNCHANGED <<store, up, snapshot, sender, wire, tab, mail, faults>>

(* serve takes the stream: it reads the store, and sends from the id the   *)
(* browser has, or else from the address's `after`.  The tab reads again   *)
(* what may have failed as an earlier stream dropped.                      *)
Connects(t) ==
    /\ source[t].state = "connecting" /\ up
    /\ source' = [source EXCEPT ![t].state = "open"]
    /\ snapshot' = store
    /\ sender' = [Published(sender) EXCEPT ![t] =
                    [NoSender EXCEPT !.on = TRUE,
                       !.after = IF source[t].last # NoVersion THEN source[t].last
                                 ELSE source[t].url]]
    /\ tab' = [tab EXCEPT ![t] = IF @.dropped THEN [Loading(@) EXCEPT !.dropped = FALSE]
                                 ELSE @]
    /\ mail' = IF tab[t].dropped THEN Tells(Tabs \ {t}, Dropped) ELSE mail
    /\ UNCHANGED <<store, up, wire, holder, faults>>

(* The streams of `ts` end: the browser connects them again by itself.     *)
DropStreams(ts) ==
    /\ sender' = [t \in Tabs |-> IF t \in ts THEN NoSender ELSE sender[t]]
    /\ wire' = [t \in Tabs |-> IF t \in ts THEN <<>> ELSE wire[t]]
    /\ source' = [t \in Tabs |-> IF t \in ts
                                 THEN [source[t] EXCEPT !.state = "connecting"]
                                 ELSE source[t]]
    /\ tab' = [t \in Tabs |-> IF t \in ts THEN [tab[t] EXCEPT !.dropped = TRUE]
                              ELSE tab[t]]

StreamDrops(t) ==
    /\ Fault /\ source[t].state = "open"
    /\ DropStreams({t})
    /\ UNCHANGED <<store, up, snapshot, holder, mail>>

ConnectFails(t) ==
    /\ source[t].state = "connecting" /\ ~up /\ ~tab[t].dropped
    /\ tab' = [tab EXCEPT ![t].dropped = TRUE]
    /\ UNCHANGED <<store, up, snapshot, sender, wire, source, holder, mail, faults>>

ServeStops ==
    /\ Fault /\ up
    /\ up' = FALSE /\ snapshot' = NoVersion
    /\ DropStreams({t \in Tabs : source[t].state = "open"})
    /\ UNCHANGED <<store, holder, mail>>

ServeStarts ==
    /\ ~up /\ up' = TRUE
    /\ UNCHANGED <<store, snapshot, sender, wire, source, holder, tab, mail, faults>>

TabCloses(t) ==
    /\ Fault /\ tab[t].alive
    /\ tab' = [tab EXCEPT ![t].alive = FALSE, ![t].loads = <<>>]
    /\ holder' = IF holder = t THEN NoTab ELSE holder
    /\ source' = [source EXCEPT ![t] = NoSource]
    /\ sender' = [sender EXCEPT ![t] = NoSender]
    /\ wire' = [wire EXCEPT ![t] = <<>>]
    /\ mail' = [mail EXCEPT ![t] = <<>>]
    /\ UNCHANGED <<store, up, snapshot>>

StreamStep(t) == Look(t) \/ SendVersion(t) \/ GapEnds(t) \/ Moved(t)

InboxNext ==
    \/ StoreMoves \/ ServeReads \/ ServeStops \/ ServeStarts
    \/ \E t \in Tabs :
          \/ StreamStep(t) \/ Load(t) \/ Message(t) \/ Mail(t) \/ Minute(t)
          \/ TakesLock(t) \/ Connects(t) \/ ConnectFails(t) \/ StreamDrops(t)
          \/ TabCloses(t)

(* serve reads the store each second and its tasks run; a request is       *)
(* answered or fails; the browser passes messages on, gives the lock to    *)
(* the next tab and connects a stream again.  Nothing is asked of the      *)
(* read of every minute.                                                   *)
InboxFairness ==
    /\ WF_inboxVars(ServeReads)
    /\ \A t \in Tabs :
          /\ WF_inboxVars(StreamStep(t)) /\ WF_inboxVars(Load(t))
          /\ WF_inboxVars(Message(t)) /\ WF_inboxVars(Mail(t))
          /\ WF_inboxVars(TakesLock(t)) /\ WF_inboxVars(Connects(t))

InboxSpec == InboxInit /\ [][InboxNext]_inboxVars /\ InboxFairness

-----------------------------------------------------------------------------
(* One tab holds a stream, and only an open stream carries messages.       *)
InboxTypeOK ==
    /\ store \in 1..MaxStore /\ snapshot \in 0..store
    /\ \A t \in Tabs :
          /\ (source[t].state # "closed") <=> (holder = t)
          /\ sender[t].on <=> (source[t].state = "open")
          /\ Len(wire[t]) <= WireSize
          /\ Len(tab[t].loads) <= 2

(* A page never shows older cases than the stream told it of (watch.rs):   *)
(* once it has read after the last version it was told, both of its lists  *)
(* are of that version or a later one, whatever read was overtaken.        *)
NeverOlderThanTold ==
    \A t \in Tabs :
       tab[t].alive /\ tab[t].loads = <<>> /\ ~tab[t].problem =>
          /\ tab[t].shown.waiting >= tab[t].version
          /\ tab[t].shown.others >= tab[t].version

(* Every page comes to show the store as it is, both lists of it, or says  *)
(* that it cannot read it, by the stream alone: whatever changed in a gap, *)
(* was on a stream that dropped, or came as the holding tab went.          *)
PagesCatchUp ==
    <>[](up => \A t \in Tabs :
           tab[t].alive => \/ tab[t].shown = [waiting |-> store, others |-> store]
                           \/ tab[t].problem)
=============================================================================
