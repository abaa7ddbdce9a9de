-------------------------------- MODULE Wait ---------------------------------
(***************************************************************************)
(* `cases wait --for agent --pickup` (crates/cli/src/commands/wait.rs), as *)
(* one agent runs it: wait after wait, each given the next_since the last  *)
(* one printed, while humans and other sessions go on writing.  A wait     *)
(* reads the store, takes the messages sent to it, and gives its cases at  *)
(* once or, when it lingers, once it has collected for a while; what it    *)
(* gives is picked up and printed line by line.  On a forwarded store its  *)
(* locks are on a lease, which may run out under it.                       *)
(*                                                                         *)
(* A case here is its last event and where it stands: the moves between    *)
(* states are those CaseRules has, without their data.  The clock gives    *)
(* each row a later time than the row before it.                           *)
(***************************************************************************)
EXTENDS Naturals, FiniteSets, FiniteSetsExt

CONSTANTS
  Asks,       \* the cases of the agent's own, opened before its first wait
  Blocking,   \* the asks that are blocking
  Messages,   \* the messages a human may send it
  Lingers,    \* how it waits: whether a wait may linger before it gives
  FarLapses,  \* where its store is: whether its locks are on a lease that may run out
  MaxTime     \* bound: the rows written, for each of these

ASSUME BlockingAssumption == Blocking \subseteq Asks
ASSUME ApartAssumption == Asks \cap Messages = {}
ASSUME LingersAssumption == Lingers \subseteq BOOLEAN
ASSUME BoundAssumption == FarLapses \subseteq BOOLEAN /\ MaxTime \in [FarLapses -> Nat]

VARIABLES
  lapses,  \* whether its locks are on a lease, for the whole behaviour
  clock,   \* the time of the last row written
  cases,   \* each case as the store has it
  since,   \* what the agent gives its next wait as --since
  wait,    \* the wait running, or where the last one ended
  unsure,  \* the pickups that got no answer, which may be stored yet
  heard    \* history: what the agent was told, which no action reads

waitVars == <<lapses, clock, cases, since, wait, unsure, heard>>

Keys == Asks \cup Messages

Move(from, author, event, to) ==
  [from |-> from, author |-> author, event |-> event, to |-> to]

(* An agent's note stands for its amend too, which moves the same states.  *)
AskMoves ==
  {Move("open", "human", "answer", "answered"), Move("open", "human", "park", "parked"),
   Move("parked", "human", "resume", "open"), Move("open", "agent", "note", "open"),
   Move("answered", "agent", "pickup", "pickedup"), Move("pickedup", "agent", "close", "closed")}
  \cup [from : {"answered", "pickedup"}, author : {"agent"}, event : {"note"}, to : {"open"}]
  \cup [from : {"open", "answered", "pickedup"}, author : {"human"},
        event : {"withdraw"}, to : {"withdrawn"}]
  \cup {Move("open", "agent", "withdraw", "withdrawn")}

MessageMoves ==
  {Move("unsent", "human", "open", "sent"), Move("sent", "human", "amend", "sent"),
   Move("sent", "agent", "pickup", "pickedup"), Move("pickedup", "agent", "close", "closed")}
  \cup [from : {"sent", "pickedup"}, author : {"human"}, event : {"withdraw"}, to : {"withdrawn"}]

Moves(k) == IF k \in Asks THEN AskMoves ELSE MessageMoves

(***************************************************************************)
(* Case c after move m by `by`: ours is this agent's, which picked it up.  *)
(***************************************************************************)
Moved(c, m, ours) ==
  [state |-> m.to, event |-> m.event, author |-> m.author, from |-> m.from,
   revision |-> c.revision + 1, at |-> clock + 1,
   ours |-> IF m.event = "pickup" THEN ours ELSE c.ours]

WriteMove(k, m, ours) ==
  /\ clock < MaxTime[lapses]
  /\ m \in Moves(k) /\ m.from = cases[k].state
  /\ clock' = clock + 1 /\ UNCHANGED lapses
  /\ cases' = [cases EXCEPT ![k] = Moved(@, m, ours)]

OurPickup(k) == WriteMove(k, Move(cases[k].state, "agent", "pickup", "pickedup"), TRUE)

-----------------------------------------------------------------------------
(* Whose turn *)

(***************************************************************************)
(* The agent's turn: its last event is a human answer, park, resume or     *)
(* withdraw, but for a message taken back before any agent had it.         *)
(***************************************************************************)
AgentTurn(c) ==
  /\ c.author = "human"
  /\ c.event \in {"answer", "park", "resume", "withdraw"}
  /\ c.from # "sent"

(* Mistake: an event is new only by appearing after the first read.        *)
FreshAppeared(w, k) == w.seen[k].revision > w.first[k]

(* Mistake: an event at the time of --since is new.                        *)
FreshAtSince(w, k) ==
  w.seen[k].revision > w.first[k] \/ w.seen[k].at >= w.since

(***************************************************************************)
(* The event case k was last seen with is new to wait w: not in its first  *)
(* read, or after --since.  A case's rows only rise, so the first read's   *)
(* events of a case are those up to the revision it had then.              *)
(***************************************************************************)
Fresh(w, k) == w.seen[k].revision > w.first[k] \/ w.seen[k].at > w.since

(* The line the wait gives for case k, as it was seen. *)
Turn(w, k, taken) ==
  [key |-> k, revision |-> w.seen[k].revision, at |-> w.seen[k].at,
   state |-> w.seen[k].state, taken |-> taken, fresh |-> taken \/ Fresh(w, k)]

(* A withdraw is the agent's turn while it is new. *)
AskTurns(w) ==
  {Turn(w, k, FALSE) : k \in {k \in Asks :
     AgentTurn(w.seen[k]) /\ (w.seen[k].event = "withdraw" => Fresh(w, k))}}

(* The messages it took that the human has withdrawn since. *)
Withdrawn(w) ==
  {Turn(w, k, FALSE) : k \in {k \in Messages :
     /\ w.seen[k].state = "withdrawn" /\ w.seen[k].ours
     /\ AgentTurn(w.seen[k]) /\ Fresh(w, k)}}

KeysOf(turns) == {turn.key : turn \in turns}

Woke(w) ==
  w.taken # {} \/ Withdrawn(w) # {} \/ \E turn \in AskTurns(w) : turn.fresh

Urgent(w) ==
  \/ Withdrawn(w) # {}
  \/ \E turn \in AskTurns(w) :
       /\ turn.fresh
       /\ \/ w.seen[turn.key].event = "withdraw"
          \/ w.seen[turn.key].event = "answer" /\ turn.key \in Blocking

StillOpen(w) == \E k \in Asks : w.seen[k].state = "open"

(* Mistake: a message withdrawn is given as it was taken too.              *)
GiveTwice(w) == AskTurns(w) \cup Withdrawn(w) \cup w.taken

(***************************************************************************)
(* What the wait gives: a message taken and then withdrawn as withdrawn.   *)
(***************************************************************************)
Give(w) ==
  AskTurns(w) \cup Withdrawn(w)
    \cup {turn \in w.taken : turn.key \notin KeysOf(Withdrawn(w))}

-----------------------------------------------------------------------------
(* The wait *)

Unread == [k \in Keys |-> 0]

Idle == [phase |-> "idle"]

WaitInit ==
  /\ lapses \in FarLapses
  /\ clock = 0
  /\ cases = [k \in Keys |->
       [state |-> IF k \in Asks THEN "open" ELSE "unsent", event |-> "open",
        author |-> IF k \in Asks THEN "agent" ELSE "human", from |-> "none",
        revision |-> IF k \in Asks THEN 1 ELSE 0, at |-> 0, ours |-> FALSE]]
  /\ since = 0
  /\ wait = Idle
  /\ unsure = {} /\ heard = {}

(* A human writes, or another session of the agent's does. *)
OthersMove ==
  /\ \E k \in Keys : \E m \in Moves(k) : WriteMove(k, m, FALSE)
  /\ UNCHANGED <<since, wait, unsure, heard>>

(* The agent waits (again) with what the last wait that printed gave.      *)
StartWait ==
  /\ wait = Idle
  /\ \E lingers \in Lingers :
       wait' = [phase |-> "read", since |-> since, lingers |-> lingers,
                first |-> Unread, readOnce |-> FALSE, seen |-> cases, left |-> {},
                taken |-> {}, collecting |-> FALSE, capped |-> FALSE, collected |-> {},
                lapsed |-> FALSE]
  /\ UNCHANGED <<lapses, clock, cases, since, unsure, heard>>

(* The first read's events are those of the store as it found it. *)
First(w) == IF w.readOnce THEN w.first ELSE [k \in Keys |-> cases[k].revision]

(***************************************************************************)
(* A read of the store: a snapshot, from which the messages sent to the    *)
(* wait are taken one by one.                                              *)
(***************************************************************************)
ReadStore ==
  /\ wait.phase = "read" /\ ~wait.lapsed
  /\ wait' = [wait EXCEPT !.phase = "find", !.seen = cases, !.readOnce = TRUE,
                          !.first = First(wait),
                          !.left = {k \in Messages : cases[k].state = "sent"}]
  /\ UNCHANGED <<lapses, clock, cases, since, unsure, heard>>

(***************************************************************************)
(* A message is picked up at the revision it was read at, before any line  *)
(* is printed; its turn is of the message's own last event.                *)
(***************************************************************************)
TakeMessage(k) ==
  /\ wait.phase = "find" /\ ~wait.lapsed
  /\ k \in wait.left
  /\ cases[k].revision = wait.seen[k].revision
  /\ OurPickup(k)
  /\ wait' = [wait EXCEPT !.left = @ \ {k}, !.taken = @ \cup {Turn(wait, k, TRUE)}]
  /\ UNCHANGED <<since, unsure, heard>>

(* Another session took it, the human edited or withdrew it, or the store  *)
(* cannot be written: it is tried again at the next read.                  *)
TakeRefused(k) ==
  /\ wait.phase = "find" /\ ~wait.lapsed
  /\ k \in wait.left
  /\ wait' = [wait EXCEPT !.left = @ \ {k}]
  /\ UNCHANGED <<lapses, clock, cases, since, unsure, heard>>

(***************************************************************************)
(* A forwarded store's answer does not come.  The wait says on stderr that *)
(* the pickup may or may not have been stored, and goes on without it.     *)
(***************************************************************************)
TakeUnsure(k) ==
  /\ lapses /\ wait.phase = "find" /\ ~wait.lapsed
  /\ k \in wait.left
  /\ wait' = [wait EXCEPT !.left = @ \ {k}]
  /\ unsure' = unsure \cup {[key |-> k, revision |-> wait.seen[k].revision]}
  /\ UNCHANGED <<lapses, clock, cases, since, heard>>

(* A pickup that got no answer is stored, at once or late, or, when the    *)
(* case has moved on, never.                                               *)
StoredUnsure(k) ==
  /\ [key |-> k, revision |-> cases[k].revision] \in unsure
  /\ OurPickup(k)
  /\ UNCHANGED <<since, wait, unsure, heard>>

Latest(turns, floor) == Max({turn.at : turn \in turns} \cup {floor})

(***************************************************************************)
(* The wait ends its loop with turns to print.  next_since is the latest   *)
(* time among them, or the --since given.                                  *)
(***************************************************************************)
Printing(w, turns) ==
  [phase |-> "print", queue |-> turns, next |-> Latest(turns, w.since),
   lapsed |-> w.lapsed]

(***************************************************************************)
(* The wait gives what it has once it woke: at once, or when it lingers    *)
(* once its quiet time or its timeout has come, which may be now, or its   *)
(* cap has.                                                                *)
(***************************************************************************)
GiveCases ==
  /\ wait.phase = "find" /\ wait.left = {}
  /\ Woke(wait)
  /\ wait' = Printing(wait, Give(wait))
  /\ UNCHANGED <<lapses, clock, cases, since, unsure, heard>>

(* Mistake: events that go on coming put off the end of the linger.        *)
RestUncapped ==
  /\ wait.phase = "find" /\ wait.left = {}
  /\ Woke(wait) => wait.lingers /\ ~Urgent(wait) /\ StillOpen(wait)
  /\ wait' = [wait EXCEPT !.phase = "read", !.collecting = Woke(wait), !.capped = FALSE,
                          !.collected = IF Woke(wait) THEN Give([wait EXCEPT !.taken = {}])
                                                      ELSE {}]
  /\ UNCHANGED <<lapses, clock, cases, since, unsure, heard>>

(***************************************************************************)
(* The wait reads again: nothing woke it, or it goes on collecting, which  *)
(* its cap, something urgent or nothing left open would end.               *)
(***************************************************************************)
Rest ==
  /\ wait.phase = "find" /\ wait.left = {}
  /\ Woke(wait) => wait.lingers /\ ~wait.capped /\ ~Urgent(wait) /\ StillOpen(wait)
  /\ wait' = [wait EXCEPT !.phase = "read", !.collecting = Woke(wait), !.capped = FALSE,
                          !.collected = IF Woke(wait) THEN Give([wait EXCEPT !.taken = {}])
                                                      ELSE {}]
  /\ UNCHANGED <<lapses, clock, cases, since, unsure, heard>>

(* The cap comes, counted from the first event it collected. *)
CapComes ==
  /\ wait.phase \in {"read", "find"} /\ wait.collecting /\ ~wait.capped
  /\ wait' = [wait EXCEPT !.capped = TRUE]
  /\ UNCHANGED <<lapses, clock, cases, since, unsure, heard>>

(* The timeout passed with nothing collected, or a first read failed. *)
TimesOut ==
  /\ wait.phase = "read" /\ ~wait.collecting
  /\ wait' = Idle
  /\ UNCHANGED <<lapses, clock, cases, since, unsure, heard>>

(* Mistake: a wait that fails gives the messages it took alone.            *)
FailedTaken(w, timeout) ==
  IF w.taken = {} /\ ~timeout THEN Idle ELSE Printing(w, w.taken)

(***************************************************************************)
(* How a wait ends whose read failed: with an error when it took nothing,  *)
(* and with all it has when it took messages or its timeout came.          *)
(***************************************************************************)
Failed(w, timeout) ==
  IF w.taken = {} /\ ~timeout THEN Idle ELSE Printing(w, w.collected \cup w.taken)

(* A read after the first fails for good, or the timeout comes while the   *)
(* store cannot be reached, which a wait that collects gives its cases at. *)
ReadFails ==
  /\ wait.phase = "read" /\ wait.readOnce /\ ~wait.lapsed
  /\ \E timeout \in {FALSE, wait.collecting} : wait' = Failed(wait, timeout)
  /\ UNCHANGED <<lapses, clock, cases, since, unsure, heard>>

(* The lease on the far side's locks runs out. *)
Lapse ==
  /\ lapses /\ wait.phase # "idle" /\ ~wait.lapsed
  /\ wait' = [wait EXCEPT !.lapsed = TRUE]
  /\ UNCHANGED <<lapses, clock, cases, since, unsure, heard>>

(***************************************************************************)
(* Found lapsed before a read, or at one of the messages it read, to be    *)
(* taken or not: the wait gives the messages it took, or fails with none.  *)
(***************************************************************************)
Stop ==
  /\ \/ wait.phase = "read"
     \/ wait.phase = "find" /\ \E k \in Messages : wait.seen[k].state # "unsent"
  /\ wait.lapsed
  /\ wait' = IF wait.taken = {} THEN Idle ELSE Printing(wait, wait.taken)
  /\ UNCHANGED <<lapses, clock, cases, since, unsure, heard>>

-----------------------------------------------------------------------------
(* Printing *)

Told(turn) == [key |-> turn.key, revision |-> turn.revision]

(* The turns are printed in the order of their events. *)
IsNext(turn) == turn \in wait.queue /\ \A other \in wait.queue : turn.at <= other.at

Line(turn) ==
  /\ heard' = heard \cup {Told(turn)}
  /\ wait' = [wait EXCEPT !.queue = @ \ {turn}]

(* Mistake: the pickup names no revision.                                  *)
PickUpNow(turn) == cases[turn.key].state = "answered" /\ OurPickup(turn.key)

(* An answered case is picked up just before its line, at the revision it  *)
(* was read at.                                                            *)
PickUp(turn) ==
  /\ cases[turn.key].revision = turn.revision
  /\ OurPickup(turn.key)

PrintPicked ==
  /\ wait.phase = "print" /\ ~wait.lapsed
  /\ \E turn \in wait.queue :
       IsNext(turn) /\ turn.state = "answered" /\ PickUp(turn) /\ Line(turn)
  /\ UNCHANGED <<since, unsure>>

(* Any other case, and an answered one whose pickup is refused or fails,   *)
(* or whose locks have lapsed, is printed as it was read.                  *)
PrintAsRead ==
  /\ wait.phase = "print"
  /\ \E turn \in wait.queue : IsNext(turn) /\ Line(turn)
  /\ UNCHANGED <<lapses, clock, cases, since, unsure>>

(* So is one whose pickup got no answer, and may be stored yet. *)
PrintUnsure ==
  /\ lapses /\ wait.phase = "print" /\ ~wait.lapsed
  /\ \E turn \in wait.queue :
       /\ IsNext(turn) /\ turn.state = "answered" /\ Line(turn)
       /\ unsure' = unsure \cup {Told(turn)}
  /\ UNCHANGED <<lapses, clock, cases, since>>

(* The last line is out: the agent has the next_since on it. *)
EndPrint ==
  /\ wait.phase = "print" /\ wait.queue = {}
  /\ since' = wait.next
  /\ wait' = Idle
  /\ UNCHANGED <<lapses, clock, cases, unsure, heard>>

GoesOn ==
  \/ ReadStore \/ GiveCases \/ Rest \/ Stop \/ PrintPicked \/ PrintAsRead
  \/ PrintUnsure \/ EndPrint
  \/ \E k \in Messages : TakeMessage(k) \/ TakeRefused(k) \/ TakeUnsure(k)

WaitNext ==
  \/ OthersMove \/ StartWait \/ GoesOn \/ CapComes \/ TimesOut \/ ReadFails
  \/ Lapse \/ \E k \in Keys : StoredUnsure(k)

WaitSpec == WaitInit /\ [][WaitNext]_waitVars

-----------------------------------------------------------------------------
(* Properties *)

Heard(k) == [key |-> k, revision |-> cases[k].revision] \in heard

(* What the agent must hear of: a turn on its own case, or on a message    *)
(* that one of its waits took.                                             *)
Owed(k) == AgentTurn(cases[k]) /\ (k \in Messages => cases[k].ours)

(***************************************************************************)
(* No wait passes a turn by: one the agent has not heard of is one that    *)
(* the running wait still wakes on or is about to print, or is later than  *)
(* the --since its next wait is given.  So the docs have it of every way a *)
(* wait ends; not so of one whose lease lapsed.                            *)
(***************************************************************************)
NonePassed ==
  \A k \in Keys : Owed(k) /\ ~Heard(k) =>
    \/ wait.phase = "idle" /\ cases[k].at > since
    \/ /\ wait.phase \in {"read", "find"}
       /\ \/ cases[k].at > wait.since
          \/ wait.readOnce /\ cases[k].revision > wait.first[k]
    \/ /\ wait.phase = "print"
       /\ \/ cases[k].at > wait.next
          \/ \E turn \in wait.queue : turn.key = k /\ turn.revision = cases[k].revision

(***************************************************************************)
(* Nothing is lost between waits whose locks cannot lapse: those that      *)
(* linger, fail, time out or race with other sessions never move           *)
(* next_since past a turn the agent has not heard of (AG-04, AG-16, AG-18).*)
(***************************************************************************)
NothingLost == ~lapses => NonePassed

(***************************************************************************)
(* What the agent's waits picked up, it is given as it was when picked up: *)
(* the answer printed is the one the pickup says was read (AG-05, AG-12),  *)
(* and no message is taken and then dropped (AG-16), but where the wait    *)
(* said that this pickup may have been stored.                             *)
(***************************************************************************)
PickedUpIsGiven ==
  \A k \in Keys : cases[k].ours /\ cases[k].event = "pickup" =>
    LET read(turn) == turn.key = k /\ turn.revision = cases[k].revision - 1 IN
      \/ \E told \in heard : read(told)
      \/ wait.phase \in {"read", "find"} /\ \E turn \in wait.taken : read(turn)
      \/ wait.phase = "print" /\ \E turn \in wait.queue : read(turn)
      \/ \E sent \in unsure : read(sent)

(***************************************************************************)
(* A case is on one line of a wait: a message withdrawn after it was taken *)
(* is not printed as an instruction as well, and what a failed wait had    *)
(* collected holds no message it took.                                     *)
(***************************************************************************)
OneLineEach ==
  wait.phase = "print" =>
    \A one, other \in wait.queue : one.key = other.key => one = other

(***************************************************************************)
(* An event is new to one wait only: the next, given the next_since of the *)
(* last, does not wake again on what the last one printed.                 *)
(***************************************************************************)
NewOnce ==
  [][wait.phase = "print" /\ wait'.phase = "print" =>
       \A turn \in wait.queue \ wait'.queue : turn.fresh => Told(turn) \notin heard]_waitVars

(***************************************************************************)
(* The waiting goes on: the agent waits again after a wait ends, a wait    *)
(* that runs goes on, and its cap comes.  The store is reached now and     *)
(* then, no timeout is too short for a read, and from some time on no read *)
(* fails for good.                                                         *)
(***************************************************************************)
Fairness ==
  /\ WF_waitVars(StartWait) /\ WF_waitVars(GoesOn) /\ WF_waitVars(CapComes)
  /\ SF_waitVars(ReadStore)
  /\ <>[][~ReadFails]_waitVars

FairWaitSpec == WaitSpec /\ Fairness

(***************************************************************************)
(* Every turn is heard of: once a human has answered, parked, resumed or   *)
(* withdrawn, the agent hears of it, or it is its turn no more.            *)
(***************************************************************************)
EveryTurnIsHeard == \A k \in Keys : Owed(k) ~> (Heard(k) \/ ~Owed(k))

=============================================================================
