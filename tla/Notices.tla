------------------------------ MODULE Notices ------------------------------
(***************************************************************************)
(* Desktop notifications: serve's engine tells, read by read, which cases  *)
(* newly landed on the human and numbers them in a feed; the tabs of a     *)
(* browser ask for the feed past a number they share, and show what is     *)
(* new.  serve may start again, with a feed that starts again too.         *)
(***************************************************************************)
EXTENDS Integers, Sequences, FiniteSets, SequencesExt

CONSTANTS
    Keys,       \* the keys of cases, numbers from 1
    Askers,     \* the tabs that ask for notifications
    FeedSize,   \* how many notifications the feed keeps (FEED_SIZE)
    MaxEvents,  \* how many events are written (a bound)
    MaxBoots,   \* how often serve starts (a bound)
    MaxAway     \* how often the store is moved away or made again, or the
                \* notifications are turned off (a bound)

ASSUME NoticesAssumption ==
    /\ Keys \subseteq Nat /\ IsFiniteSet(Keys)
    /\ {FeedSize, MaxEvents, MaxBoots, MaxAway} \subseteq Nat

VARIABLES
    cases,      \* the store's cases: each case's events, none if it is not there
    file,       \* "there", or "away": moved from the path, to be put back
    events,     \* how many events were written, which tells the time
    engine,     \* serve's: has it read, and what it has seen of each case
    feed,       \* serve's: its boot id, the latest number, the items kept
    pref,       \* whether notifications are on in the browser
    cursor,     \* the number kept in localStorage, with its boot, or none
    asker,      \* what each tab is doing
    away,
    shown,      \* the notifications shown, by boot and number
    landings    \* the events notified since serve started, in order

noticeVars == <<cases, file, events, engine, feed, pref, cursor, asker, away,
                shown, landings>>
storeOnly == <<engine, feed, pref, cursor, asker, shown, landings>>

NoCursor == [boot |-> 0, id |-> 0, from |-> 0]
NotRead == [read |-> FALSE, seen |-> {}]
NoPage == [boot |-> 0, latest |-> 0, items |-> {}]
Idle == [phase |-> "idle", have |-> NoCursor, page |-> NoPage]

NoticesInit ==
    /\ cases = [k \in Keys |-> <<>>] /\ file = "there" /\ events = 0
    /\ engine = NotRead
    /\ feed = [boot |-> 1, latest |-> 0, items |-> <<>>]
    /\ pref = TRUE /\ cursor = NoCursor
    /\ asker = [t \in Askers |-> Idle]
    /\ away = 0 /\ shown = {} /\ landings = <<>>

-----------------------------------------------------------------------------
(* The store.  An event has the state it was written on and the state it   *)
(* left, and its time, which tells one case of a key from another.         *)

Event(event, from, to) == [event |-> event, from |-> from, to |-> to, at |-> events]

WritesEvent(k, event, from, to) ==
    /\ events < MaxEvents /\ events' = events + 1
    /\ cases' = [cases EXCEPT ![k] = Append(@, Event(event, from, to))]
    /\ UNCHANGED <<file, away>> /\ UNCHANGED storeOnly

OpensCase(k) ==
    /\ file = "there" /\ cases[k] = <<>>
    /\ \A j \in Keys : j < k => cases[j] # <<>>
    /\ WritesEvent(k, "open", "none", "open")

GoesOn(k) ==
    /\ file = "there" /\ cases[k] # <<>>
    /\ LET state == Last(cases[k]).to
       IN  \/ \E event \in {"note", "amend"} : WritesEvent(k, event, state, state)
           \/ state = "answered" /\ WritesEvent(k, "note", state, "open")
           \/ state = "open" /\ WritesEvent(k, "answer", state, "answered")
           \/ state = "open" /\ WritesEvent(k, "park", state, "parked")
           \/ state = "parked" /\ WritesEvent(k, "resume", state, "open")

Away == away < MaxAway /\ away' = away + 1

(* A case leaves the store, or every case does as the store is made again, *)
(* with keys that start again.                                             *)
Leaves(ks) ==
    /\ Away /\ file = "there" /\ \E k \in ks : cases[k] # <<>>
    /\ cases' = [k \in Keys |-> IF k \in ks THEN <<>> ELSE cases[k]]
    /\ UNCHANGED <<file, events>> /\ UNCHANGED storeOnly

MovedAway ==
    /\ Away /\ file = "there" /\ file' = "away"
    /\ UNCHANGED <<cases, events>> /\ UNCHANGED storeOnly

PutBack ==
    /\ file = "away" /\ file' = "there"
    /\ UNCHANGED <<cases, events, away>> /\ UNCHANGED storeOnly

-----------------------------------------------------------------------------
(* serve's engine.                                                         *)

(* The last event that is not a note or an amend on the open case.         *)
PutThere(h) ==
    CHOOSE i \in DOMAIN h :
       /\ i = 1 \/ ~(h[i].event \in {"note", "amend"} /\ h[i].from = "open")
       /\ \A j \in i + 1..Len(h) : h[j].event \in {"note", "amend"} /\ h[j].from = "open"

(* The event that put the case `h` on the human and notifies, or 0: it was *)
(* opened, or reopened, or noted for the first time since it was resumed.  *)
OnTheHuman(h) ==
    LET at == PutThere(h)
        notes == {j \in at + 1..Len(h) : h[j].event = "note"}
    IN  IF Last(h).to # "open" THEN 0
        ELSE IF h[at].event = "resume"
             THEN IF notes = {} THEN 0 ELSE CHOOSE j \in notes : \A i \in notes : j <= i
        ELSE IF h[at].event \in {"open", "note", "amend"} THEN at ELSE 0

CaseId(k) == <<k, cases[k][1].at>>
Present == IF file = "there" THEN {k \in Keys : cases[k] # <<>>} ELSE {}

SeenOf(k) == {s \in engine.seen : s.id = CaseId(k)}
Count(k) == IF SeenOf(k) = {} THEN 0 ELSE (CHOOSE s \in SeenOf(k) : TRUE).count

(* What landed since the last read: the event that notifies is new.        *)
Landed ==
    IF ~engine.read THEN {}
    ELSE {k \in Present : OnTheHuman(cases[k]) > Count(k)}

(* The cases come in the order of their keys. *)
InKeyOrder(ks) ==
    CHOOSE f \in [1..Cardinality(ks) -> ks] : \A i, j \in DOMAIN f : i < j => f[i] < f[j]

(* Mistake: a store that goes missing is taken as a read of no cases.      *)
ObservesAlways == TRUE

(* A store that goes missing leaves the engine as it was.                  *)
Observes == file = "there" \/ ~engine.read

Observed ==
    IF ~Observes THEN engine
    ELSE [read |-> TRUE, seen |-> {[id |-> CaseId(k), count |-> Len(cases[k])] : k \in Present}]

NewItems ==
    IF ~Observes THEN <<>>
    ELSE LET ks == InKeyOrder(Landed)
         IN  [i \in DOMAIN ks |-> [id |-> feed.latest + i, case |-> CaseId(ks[i]),
                                   seq |-> OnTheHuman(cases[ks[i]])]]

LastOf(seq, n) == SubSeq(seq, IF Len(seq) > n THEN Len(seq) - n + 1 ELSE 1, Len(seq))

Queued == [feed EXCEPT !.latest = @ + Len(NewItems),
                       !.items = LastOf(@ \o NewItems, FeedSize)]

(* A read of the store: what landed is numbered and queued.                *)
Reads ==
    /\ engine' = Observed
    /\ feed' = Queued
    /\ landings' = landings \o NewItems

ServeTicks ==
    /\ Reads
    /\ UNCHANGED <<cases, file, events, pref, cursor, asker, away, shown>>

ServeRestarts ==
    /\ feed.boot < MaxBoots
    /\ feed' = [boot |-> feed.boot + 1, latest |-> 0, items |-> <<>>]
    /\ engine' = NotRead /\ landings' = <<>>
    /\ UNCHANGED <<cases, file, events, pref, cursor, asker, away, shown>>

-----------------------------------------------------------------------------
(* A tab: `check`, every few seconds, in three steps.                      *)

TurnsPref ==
    /\ IF pref THEN Away ELSE UNCHANGED away
    /\ pref' = ~pref
    /\ UNCHANGED <<cases, file, events, engine, feed, cursor, asker, shown, landings>>

Asks(t) ==
    /\ asker[t].phase = "idle"
    /\ IF pref
       THEN /\ asker' = [asker EXCEPT ![t] = [Idle EXCEPT !.phase = "asked", !.have = cursor]]
            /\ UNCHANGED cursor
       ELSE cursor' = NoCursor /\ UNCHANGED asker
    /\ UNCHANGED <<cases, file, events, engine, feed, pref, away, shown, landings>>

(* serve reads the store first, then gives the items after the number.     *)
AnswersTab(t) ==
    /\ asker[t].phase = "asked"
    /\ Reads
    /\ asker' = [asker EXCEPT ![t].phase = "answered",
          ![t].page = [boot |-> Queued.boot, latest |-> Queued.latest,
                       items |-> {item \in ToSet(Queued.items) :
                                    item.id > asker[t].have.id}]]
    /\ UNCHANGED <<cases, file, events, pref, cursor, away, shown>>

NoReply(t) ==
    /\ asker[t].phase = "asked"
    /\ asker' = [asker EXCEPT ![t] = Idle]
    /\ UNCHANGED <<cases, file, events, engine, feed, pref, cursor, away, shown, landings>>

(* Mistake: the tab does not look whether the number it asked after is still *)
(* the one kept.                                                           *)
AskedPastAny(have) == FALSE

(* It asked after a number that another tab has since moved or started     *)
(* again, and so may lack items.                                           *)
AskedPast(have) ==
    have # NoCursor /\ (have.boot # cursor.boot \/ have.id > cursor.id)

(* The number is read again: another tab may have shown these.  A tab with *)
(* none starts at the latest; one of another boot starts at 0.             *)
Takes(t) ==
    LET page == asker[t].page
        news == {item \in page.items : item.id > cursor.id}
    IN  /\ asker[t].phase = "answered"
        /\ asker' = [asker EXCEPT ![t] = Idle]
        /\ CASE cursor = NoCursor ->
                  /\ cursor' = [boot |-> page.boot, id |-> page.latest, from |-> page.latest]
                  /\ UNCHANGED shown
             [] cursor # NoCursor /\ cursor.boot # page.boot ->
                  /\ cursor' = [boot |-> page.boot, id |-> 0, from |-> 0]
                  /\ UNCHANGED shown
             [] OTHER ->
                  IF AskedPast(asker[t].have) \/ cursor.id >= page.latest
                  THEN UNCHANGED <<cursor, shown>>
                  ELSE /\ shown' = shown \union {<<page.boot, item.id>> : item \in news}
                       /\ cursor' = [cursor EXCEPT !.id = page.latest]
        /\ UNCHANGED <<cases, file, events, engine, feed, pref, away, landings>>

NoticesNext ==
    \/ \E k \in Keys : OpensCase(k) \/ GoesOn(k) \/ Leaves({k})
    \/ Leaves(Keys) \/ MovedAway \/ PutBack
    \/ ServeTicks \/ ServeRestarts \/ TurnsPref
    \/ \E t \in Askers : Asks(t) \/ AnswersTab(t) \/ NoReply(t) \/ Takes(t)

NoticesSpec == NoticesInit /\ [][NoticesNext]_noticeVars

-----------------------------------------------------------------------------
(* What put a case on the human is notified once while serve runs, though  *)
(* the store goes missing and comes back, or is made again with the same   *)
(* keys: no two notifications are of one event of one case.                *)
NoticedOnce ==
    \A i, j \in DOMAIN landings :
       landings[i].case = landings[j].case /\ landings[i].seq = landings[j].seq => i = j

(* The number the tabs share never passes a notification that none of them *)
(* showed, since they started to show them, but for those the feed dropped *)
(* before they asked: whatever other tabs did while one waited for an      *)
(* answer, and however often serve started again.                          *)
NonePassedBy ==
    cursor.boot = feed.boot =>
       \A id \in cursor.from + 1..cursor.id :
          <<feed.boot, id>> \in shown \/ id <= feed.latest - FeedSize

(* Each notification is noticed by one tab, and none is passed by. *)
EachNoticedOnce == NoticedOnce /\ NonePassedBy

=============================================================================
