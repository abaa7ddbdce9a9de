----------------------------- MODULE ReadProofs -----------------------------
(***************************************************************************)
(* What is read of a store that others write: that waits lose nothing and  *)
(* tell it once (Wait), for any cases, messages, sessions and lapses; and  *)
(* that every change is found again, that no two states share a version,   *)
(* and that a poller gives the store, StoreView (Store), for any number of *)
(* cases, changes, stores at the path and times.                           *)
(***************************************************************************)
EXTENDS Wait, Store, WellFoundedInduction, FiniteSetTheorems, TLAPS

-----------------------------------------------------------------------------
(* Waits *)

(* The inductive invariant *)

(* The words of a case: where it stands, its events and their authors. *)
Words ==
  {"unsent", "sent", "open", "parked", "answered", "pickedup", "closed", "withdrawn",
   "answer", "park", "resume", "note", "amend", "pickup", "close", "withdraw",
   "agent", "human", "none"}

CaseRecs ==
  [state : Words, event : Words, author : Words, from : Words,
   revision : Nat, at : Nat, ours : BOOLEAN]

Turns ==
  [key : Keys, revision : Nat, at : Nat, state : Words, taken : BOOLEAN, fresh : BOOLEAN]

Running ==
  [phase : {"read", "find"}, since : Nat, lingers : BOOLEAN, first : [Keys -> Nat],
   readOnce : BOOLEAN, seen : [Keys -> CaseRecs], left : SUBSET Messages,
   taken : SUBSET Turns, collecting : BOOLEAN, capped : BOOLEAN, collected : SUBSET Turns,
   lapsed : BOOLEAN]

Printings == [phase : {"print"}, queue : SUBSET Turns, next : Nat, lapsed : BOOLEAN]

Tellings == [key : Keys, revision : Nat]

WaitTyped ==
  /\ lapses \in BOOLEAN /\ clock \in Nat /\ since \in 0 .. clock
  /\ cases \in [Keys -> CaseRecs]
  /\ heard \subseteq Tellings /\ unsure \subseteq Tellings
  /\ wait \in {Idle} \cup Running \cup Printings

(* A message is sent once, and never again after it was taken. *)
Gone(c) == c.state \notin {"unsent", "sent"}

(***************************************************************************)
(* A case is where its last event left it, and what moves a message is not *)
(* what moves an ask.                                                      *)
(***************************************************************************)
CaseIsSo(k) ==
  /\ cases[k].at <= clock
  /\ cases[k].event = "pickup" => cases[k].state = "pickedup"
  /\ cases[k].event = "withdraw" => cases[k].state = "withdrawn"
  /\ k \in Messages => cases[k].event \notin {"answer", "park", "resume"}

(* What a wait saw of a case is the case, or the case has moved on since.  *)
SeenIsSo(k) ==
  /\ wait.seen[k] = cases[k] \/ wait.seen[k].revision < cases[k].revision
  /\ wait.seen[k].at <= cases[k].at
  /\ k \in Messages /\ Gone(wait.seen[k]) => Gone(cases[k])
  /\ k \in Messages /\ wait.seen[k].state = "withdrawn" => wait.seen[k] = cases[k]
  /\ wait.readOnce /\ wait.seen[k].revision > wait.first[k] => wait.seen[k].at > since
  /\ [key |-> k, revision |-> wait.seen[k].revision] \in heard => wait.seen[k].at <= since

(* A case that moved on since moved after all that the wait knows of.      *)
Later(k) ==
  wait.seen[k] # cases[k] =>
    /\ cases[k].at > since
    /\ \A j \in Keys : cases[k].at > wait.seen[j].at
    /\ \A turn \in wait.taken : cases[k].at > turn.at

(* A turn is of an event the case had; if its last, at the time of that.   *)
TurnIsSo(turn) ==
  LET c == cases[turn.key] IN
  /\ turn.at <= clock
  /\ turn.revision <= c.revision
  /\ turn.revision = c.revision => turn.at = c.at
  /\ turn.key \in Messages => Gone(c)
  /\ turn.fresh => Told(turn) \notin heard

OneEach(turns) == \A one, other \in turns : one.key = other.key => one = other

(* What a wait that reads again has collected is what it saw, of asks only. *)
CollectedIsSo ==
  /\ wait.taken # {} => wait.collecting
  /\ ~wait.collecting => wait.collected = {}
  /\ wait.collecting => wait.collected = AskTurns(wait)
  /\ Withdrawn(wait) = {} \/ ~wait.readOnce
  /\ wait.readOnce /\ (\E turn \in AskTurns(wait) : turn.fresh) => wait.collecting

RunIsSo ==
  /\ wait.since = since
  /\ wait.phase = "find" => wait.readOnce
  /\ \A k \in Keys : SeenIsSo(k) /\ Later(k)
  /\ OneEach(wait.taken)
  /\ \A turn \in wait.taken : turn.key \in Messages /\ TurnIsSo(turn)
  /\ wait.phase = "read" => CollectedIsSo

PrintIsSo ==
  /\ wait.next \in since .. clock
  /\ OneEach(wait.queue)
  /\ \A turn \in wait.queue : TurnIsSo(turn) /\ turn.at <= wait.next

(* Where the agent has got to: what it was told is no later. *)
ToldUpTo == IF wait.phase = "print" THEN wait.next ELSE since

HeardIsSo ==
  \A told \in heard :
    /\ told.revision <= cases[told.key].revision
    /\ told.key \in Messages => Gone(cases[told.key])
    /\ told.revision = cases[told.key].revision => cases[told.key].at <= ToldUpTo

(* What no wait whose locks cannot lapse passes by. *)
Unpassed ==
  \A k \in Keys : Owed(k) /\ ~Heard(k) =>
    IF wait.phase = "print"
    THEN \/ cases[k].at > wait.next
         \/ \E turn \in wait.queue : turn.key = k /\ turn.revision = cases[k].revision
    ELSE cases[k].at > since

WaitInv ==
  /\ WaitTyped
  /\ wait # Idle /\ wait.lapsed => lapses
  /\ \A k \in Keys : CaseIsSo(k)
  /\ wait \in Running => RunIsSo
  /\ wait \in Printings => PrintIsSo
  /\ HeardIsSo
  /\ ~lapses => Unpassed
  /\ PickedUpIsGiven

-----------------------------------------------------------------------------
(* Naturals, of which any that are have a least *)

Below == {pair \in Nat \X Nat : pair[1] < pair[2]}

LEMMA LeastNatural ==
  ASSUME NEW T, T \subseteq Nat, T # {}
  PROVE  \E least \in T : \A n \in T : least <= n
<1>1. IsWellFoundedOn(Below, Nat)
  <2>1. OpToRel(<, Nat) = Below
    BY DEF OpToRel, Below
  <2>. QED
    BY <2>1, NatLessThanWellFounded
<1>2. PICK least \in T : \A n \in T : ~ (<<n, least>> \in Below)
  BY <1>1, WFMin
<1>3. ASSUME NEW n \in T
      PROVE  least <= n
  <2>1. least \in Nat /\ n \in Nat
    OBVIOUS
  <2>2. n < least => <<n, least>> \in Below
    BY <2>1 DEF Below
  <2>. QED
    BY <1>2, <2>1, <2>2
<1>. QED
  BY <1>3

-----------------------------------------------------------------------------
(* How a case moves *)

(* Some case of the store has moved on by one row, at a time of its own. *)
MovedOn(k) ==
  /\ clock' = clock + 1 /\ clock' \in Nat /\ lapses' = lapses
  /\ cases' \in [Keys -> CaseRecs]
  /\ \A j \in Keys : j # k => cases'[j] = cases[j]
  /\ cases'[k].revision = cases[k].revision + 1 /\ cases'[k].at = clock + 1
  /\ k \in Messages => (Gone(cases[k]) => Gone(cases'[k])) /\ cases[k].state # "withdrawn"
  /\ \A j \in Keys : CaseIsSo(j)'

(* What is in a move's place is what its sets give it. *)
LEMMA MovesAre ==
  ASSUME NEW k \in Keys, NEW m \in Moves(k)
  PROVE  /\ m.from \in Words /\ m.author \in Words /\ m.event \in Words /\ m.to \in Words
         /\ m.event = "pickup" => m.to = "pickedup" /\ m.from \in {"answered", "sent"}
         /\ m.event = "withdraw" => m.to = "withdrawn"
         /\ k \in Messages =>
              /\ m.event \notin {"answer", "park", "resume"} /\ m.from # "withdrawn"
              /\ m.from \notin {"unsent", "sent"} => m.to \notin {"unsent", "sent"}
              /\ m.event = "pickup" => m.from = "sent"
<1>1. CASE k \in Asks
  <2>1. k \notin Messages /\ m \in AskMoves
    BY <1>1, ApartAssumption DEF Moves
  <2>2. CASE m \in [from : {"answered", "pickedup"}, author : {"agent"}, event : {"note"},
                    to : {"open"}]
    BY <2>1, <2>2 DEF Words
  <2>3. CASE m \in [from : {"open", "answered", "pickedup"}, author : {"human"},
                    event : {"withdraw"}, to : {"withdrawn"}]
    BY <2>3 DEF Words
  <2>. QED
    BY <2>1, <2>2, <2>3 DEF AskMoves, Move, Words
<1>2. CASE k \notin Asks
  <2>1. m \in MessageMoves
    BY <1>2 DEF Moves
  <2>2. CASE m \in [from : {"sent", "pickedup"}, author : {"human"}, event : {"withdraw"},
                    to : {"withdrawn"}]
    BY <2>2 DEF Words
  <2>. QED
    BY <2>1, <2>2 DEF MessageMoves, Move, Words
<1>. QED
  BY <1>1, <1>2

(* A row written moves one case on, and no other. *)
LEMMA WriteMoves ==
  ASSUME WaitInv, NEW k \in Keys, NEW m, NEW ours \in BOOLEAN, WriteMove(k, m, ours)
  PROVE  /\ MovedOn(k) /\ m \in Moves(k) /\ m.from = cases[k].state
         /\ cases'[k].event = m.event /\ cases'[k].author = m.author /\ cases'[k].state = m.to
         /\ m.event = "pickup" => cases'[k].ours = ours
<1>1. /\ m \in Moves(k) /\ m.from = cases[k].state /\ clock' = clock + 1 /\ lapses' = lapses
      /\ cases' = [cases EXCEPT ![k] = Moved(cases[k], m, ours)]
  BY DEF WriteMove
<1>2. clock \in Nat /\ cases \in [Keys -> CaseRecs] /\ \A j \in Keys : CaseIsSo(j)
  BY DEF WaitInv, WaitTyped
<1>3. cases[k].revision \in Nat /\ cases[k].ours \in BOOLEAN
  BY <1>2 DEF CaseRecs
<1>4. Moved(cases[k], m, ours) \in CaseRecs
  BY <1>1, <1>2, <1>3, MovesAre DEF Moved, CaseRecs
<1>5. cases'[k] = Moved(cases[k], m, ours) /\ \A j \in Keys : j # k => cases'[j] = cases[j]
  BY <1>1, <1>2
<1>6. cases' \in [Keys -> CaseRecs]
  BY <1>1, <1>2, <1>4
<1>7. /\ cases'[k].revision = cases[k].revision + 1 /\ cases'[k].at = clock + 1
      /\ cases'[k].event = m.event /\ cases'[k].author = m.author /\ cases'[k].state = m.to
      /\ m.event = "pickup" => cases'[k].ours = ours
  BY <1>5 DEF Moved
<1>8. \A j \in Keys : CaseIsSo(j)'
  <2>. SUFFICES ASSUME NEW j \in Keys PROVE CaseIsSo(j)'
    OBVIOUS
  <2>1. CASE j = k
    BY <1>1, <1>2, <1>7, <2>1, MovesAre DEF CaseIsSo
  <2>2. CASE j # k
    <3>1. cases[j].at \in Nat
      BY <1>2 DEF CaseRecs
    <3>. QED
      BY <1>1, <1>2, <1>5, <2>2, <3>1 DEF CaseIsSo
  <2>. QED
    BY <2>1, <2>2
<1>9. k \in Messages => (Gone(cases[k]) => Gone(cases'[k])) /\ cases[k].state # "withdrawn"
  BY <1>1, <1>7, MovesAre DEF Gone
<1>. QED
  BY <1>1, <1>2, <1>5, <1>6, <1>7, <1>8, <1>9 DEF MovedOn

(* A turn that was so is so after a case moved on. *)
LEMMA TurnsStay ==
  ASSUME WaitInv, NEW k \in Keys, MovedOn(k), NEW turn \in Turns, TurnIsSo(turn),
         turn.fresh => Told(turn) \notin heard'
  PROVE  TurnIsSo(turn)'
<1>1. /\ turn.key \in Keys /\ turn.revision \in Nat /\ turn.at \in Nat
      /\ clock \in Nat /\ \A j \in Keys : cases[j].revision \in Nat
  BY DEF Turns, WaitInv, WaitTyped, CaseRecs
<1>. QED
  BY <1>1 DEF TurnIsSo, MovedOn

(* What the wait has seen stays so after a case moved on. *)
LEMMA SeenStays ==
  ASSUME WaitInv, NEW k \in Keys, MovedOn(k), wait \in Running, since' = since, heard' = heard,
         wait'.seen = wait.seen, wait'.readOnce = wait.readOnce, wait'.first = wait.first
  PROVE  \A j \in Keys :
           /\ SeenIsSo(j)'
           /\ (\A turn \in wait'.taken : turn.at <= clock /\ turn.at \in Nat
                 /\ (j # k /\ wait.seen[j] # cases[j] => cases[j].at > turn.at)) => Later(j)'
<1>. SUFFICES ASSUME NEW j \in Keys
              PROVE  /\ SeenIsSo(j)'
                     /\ (\A turn \in wait'.taken : turn.at <= clock /\ turn.at \in Nat
                           /\ (j # k /\ wait.seen[j] # cases[j] => cases[j].at > turn.at))
                          => Later(j)'
  OBVIOUS
<1>1. /\ SeenIsSo(j) /\ Later(j) /\ \A i \in Keys : SeenIsSo(i) /\ CaseIsSo(i)
  BY DEF WaitInv, RunIsSo
<1>2. /\ clock \in Nat /\ since \in Nat /\ since <= clock
      /\ \A i \in Keys : /\ wait.seen[i].revision \in Nat /\ wait.seen[i].at \in Nat
                         /\ cases[i].revision \in Nat /\ cases[i].at \in Nat
  BY DEF WaitInv, WaitTyped, CaseRecs, Running
<1>3. ASSUME NEW i \in Keys
      PROVE  wait.seen[i].at <= clock
  <2>1. wait.seen[i].at <= cases[i].at /\ cases[i].at <= clock
    BY <1>1 DEF SeenIsSo, CaseIsSo
  <2>. QED
    BY <1>2, <2>1
<1>4. SeenIsSo(j)'
  <2>1. CASE j = k
    BY <1>1, <1>2, <2>1 DEF SeenIsSo, CaseIsSo, MovedOn
  <2>2. CASE j # k
    BY <1>1, <2>2 DEF SeenIsSo, MovedOn
  <2>. QED
    BY <2>1, <2>2
<1>5. ASSUME \A turn \in wait'.taken : turn.at <= clock /\ turn.at \in Nat
                /\ (j # k /\ wait.seen[j] # cases[j] => cases[j].at > turn.at)
      PROVE  Later(j)'
  <2>1. CASE j = k
    BY <1>2, <1>3, <1>5, <2>1 DEF Later, MovedOn
  <2>2. CASE j # k
    BY <1>1, <1>5, <2>2 DEF Later, MovedOn
  <2>. QED
    BY <2>1, <2>2
<1>. QED
  BY <1>4, <1>5

(* What the agent was told stays so after a case moved on. *)
LEMMA HeardStays ==
  ASSUME WaitInv, NEW k \in Keys, MovedOn(k), heard' = heard, ToldUpTo' = ToldUpTo
  PROVE  HeardIsSo'
<1>. SUFFICES ASSUME NEW told \in heard
              PROVE  /\ told.revision <= cases'[told.key].revision
                     /\ told.key \in Messages => Gone(cases'[told.key])
                     /\ told.revision = cases'[told.key].revision =>
                          cases'[told.key].at <= ToldUpTo'
  BY DEF HeardIsSo
<1>1. told.key \in Keys /\ told.revision \in Nat /\ cases[told.key].revision \in Nat
  BY DEF WaitInv, WaitTyped, CaseRecs, Tellings
<1>2. /\ told.revision <= cases[told.key].revision
      /\ told.key \in Messages => Gone(cases[told.key])
      /\ told.revision = cases[told.key].revision => cases[told.key].at <= ToldUpTo
  BY DEF WaitInv, HeardIsSo
<1>. QED
  BY <1>1, <1>2 DEF MovedOn

(* The phases tell the records of a wait apart. *)
LEMMA Phases ==
  ASSUME WaitTyped
  PROVE  /\ wait \in Running <=> wait.phase \in {"read", "find"}
         /\ wait \in Printings <=> wait.phase = "print"
         /\ wait = Idle <=> wait.phase = "idle"
  BY DEF WaitTyped, Running, Printings, Idle

-----------------------------------------------------------------------------
(* Others write *)

(* A case moves on beside the wait, not picked up for it but where it is   *)
(* not sure of having done so.                                             *)
LEMMA MovesBeside ==
  ASSUME WaitInv, NEW k \in Keys, MovedOn(k), UNCHANGED <<since, wait, unsure, heard>>,
         cases'[k].event = "pickup" /\ cases'[k].ours =>
           [key |-> k, revision |-> cases[k].revision] \in unsure
  PROVE  WaitInv'
<1>3. since' = since /\ wait' = wait /\ heard' = heard /\ unsure' = unsure
  OBVIOUS
<1>4. MovedOn(k)
  OBVIOUS
<1>5. WaitTyped'
  BY <1>3, <1>4 DEF WaitInv, WaitTyped, MovedOn
<1>6. wait \in Running => RunIsSo'
  <2>. SUFFICES ASSUME wait \in Running PROVE RunIsSo'
    OBVIOUS
  <2>1. RunIsSo /\ wait.taken \subseteq Turns
    BY DEF WaitInv, Running
  <2>2. \A turn \in wait.taken : turn.at <= clock /\ turn.at \in Nat
    BY <2>1 DEF RunIsSo, TurnIsSo, Turns
  <2>3. \A j \in Keys : Later(j)
    BY <2>1 DEF RunIsSo
  <2>4. \A j \in Keys : SeenIsSo(j)' /\ Later(j)'
    BY <1>3, <1>4, <2>2, <2>3, SeenStays DEF Later
  <2>5. ASSUME NEW turn \in wait.taken PROVE TurnIsSo(turn)'
    <3>1. TurnIsSo(turn) /\ turn \in Turns
      BY <2>1 DEF RunIsSo
    <3>2. turn.fresh => Told(turn) \notin heard'
      BY <1>3, <3>1 DEF TurnIsSo
    <3>. QED
      BY <1>4, <3>1, <3>2, TurnsStay
  <2>6. wait.phase = "read" => CollectedIsSo'
    BY <1>3, <2>1 DEF RunIsSo, CollectedIsSo
  <2>. QED
    BY <1>3, <2>1, <2>4, <2>5, <2>6 DEF RunIsSo
<1>7. wait \in Printings => PrintIsSo'
  <2>. SUFFICES ASSUME wait \in Printings PROVE PrintIsSo'
    OBVIOUS
  <2>1. PrintIsSo /\ wait.queue \subseteq Turns /\ wait.next \in Nat /\ since \in Nat /\ clock \in Nat
    BY DEF WaitInv, WaitTyped, Printings
  <2>2. ASSUME NEW turn \in wait.queue PROVE TurnIsSo(turn)'
    <3>1. TurnIsSo(turn) /\ turn \in Turns
      BY <2>1 DEF PrintIsSo
    <3>2. turn.fresh => Told(turn) \notin heard'
      BY <1>3, <3>1 DEF TurnIsSo
    <3>. QED
      BY <1>4, <3>1, <3>2, TurnsStay
  <2>3. wait.next \in since .. clock'
    BY <1>4, <2>1 DEF PrintIsSo, MovedOn
  <2>. QED
    BY <1>3, <2>1, <2>2, <2>3 DEF PrintIsSo
<1>8. HeardIsSo'
  <2>1. ToldUpTo' = ToldUpTo
    BY <1>3 DEF ToldUpTo
  <2>. QED
    BY <1>3, <1>4, <2>1, HeardStays
<1>9. ~lapses' => Unpassed'
  <2>. SUFFICES ASSUME ~lapses', NEW j \in Keys, Owed(j)', ~Heard(j)'
                PROVE  IF wait.phase = "print"
                       THEN \/ cases'[j].at > wait.next
                            \/ \E turn \in wait.queue :
                                 turn.key = j /\ turn.revision = cases'[j].revision
                       ELSE cases'[j].at > since
    BY <1>3 DEF Unpassed
  <2>1. CASE j = k
    <3>1. since \in Nat /\ since <= clock /\ clock \in Nat
      BY DEF WaitInv, WaitTyped
    <3>2. wait.phase = "print" => wait.next <= clock /\ wait.next \in Nat
      BY <3>1, Phases DEF WaitInv, PrintIsSo
    <3>. QED
      BY <1>4, <2>1, <3>1, <3>2 DEF MovedOn
  <2>2. CASE j # k
    <3>1. cases'[j] = cases[j] /\ lapses' = lapses
      BY <1>4, <2>2 DEF MovedOn
    <3>2. Owed(j) /\ ~Heard(j)
      BY <1>3, <3>1 DEF Owed, Heard
    <3>. QED
      BY <3>1, <3>2 DEF WaitInv, Unpassed
  <2>. QED
    BY <2>1, <2>2
<1>10. PickedUpIsGiven'
  <2>. SUFFICES ASSUME NEW j \in Keys, cases'[j].ours, cases'[j].event = "pickup"
                PROVE  LET read(turn) == turn.key = j /\ turn.revision = cases'[j].revision - 1 IN
                         \/ \E told \in heard : read(told)
                         \/ wait.phase \in {"read", "find"} /\ \E turn \in wait.taken : read(turn)
                         \/ wait.phase = "print" /\ \E turn \in wait.queue : read(turn)
                         \/ \E sent \in unsure : read(sent)
    BY <1>3 DEF PickedUpIsGiven
  <2>1. CASE j = k
    <3>1. cases[k].revision \in Nat /\ cases'[k].revision = cases[k].revision + 1
      BY <1>4 DEF WaitInv, WaitTyped, CaseRecs, MovedOn
    <3>2. cases'[k].revision - 1 = cases[k].revision
      BY <3>1
    <3>. QED
      BY <2>1, <3>2
  <2>2. CASE j # k
    <3>1. cases'[j] = cases[j]
      BY <1>4, <2>2 DEF MovedOn
    <3>. QED
      BY <3>1 DEF WaitInv, PickedUpIsGiven
  <2>. QED
    BY <2>1, <2>2
<1>11. \A j \in Keys : CaseIsSo(j)'
  BY <1>4 DEF MovedOn
<1>12. wait' # Idle /\ wait'.lapsed => lapses'
  BY <1>3, <1>4 DEF MovedOn, WaitInv
<1>. QED
  BY <1>3, <1>5, <1>6, <1>7, <1>8, <1>9, <1>10, <1>11, <1>12 DEF WaitInv

LEMMA OthersMoveOn == WaitInv /\ OthersMove => WaitInv'
<1>. SUFFICES ASSUME WaitInv, OthersMove PROVE WaitInv'
  OBVIOUS
<1>1. PICK k \in Keys : \E m \in Moves(k) : WriteMove(k, m, FALSE)
  BY DEF OthersMove
<1>2. PICK m \in Moves(k) : WriteMove(k, m, FALSE)
  BY <1>1
<1>3. /\ MovedOn(k) /\ cases'[k].event = m.event
      /\ m.event = "pickup" => cases'[k].ours = FALSE
  BY <1>2, WriteMoves
<1>4. UNCHANGED <<since, wait, unsure, heard>>
  BY DEF OthersMove
<1>. QED
  BY <1>3, <1>4, MovesBeside

LEMMA StoredLate == WaitInv /\ (\E k \in Keys : StoredUnsure(k)) => WaitInv'
<1>. SUFFICES ASSUME WaitInv, NEW k \in Keys, StoredUnsure(k) PROVE WaitInv'
  OBVIOUS
<1>. DEFINE m == Move(cases[k].state, "agent", "pickup", "pickedup")
<1>1. WriteMove(k, m, TRUE) /\ [key |-> k, revision |-> cases[k].revision] \in unsure
  BY DEF StoredUnsure, OurPickup
<1>2. TRUE \in BOOLEAN
  OBVIOUS
<1>. HIDE DEF m
<1>3. MovedOn(k)
  BY <1>1, <1>2, WriteMoves
<1>4. UNCHANGED <<since, wait, unsure, heard>>
  BY DEF StoredUnsure
<1>. QED
  BY <1>1, <1>3, <1>4, MovesBeside

-----------------------------------------------------------------------------
(* What a wait gives *)

(* A turn of what the wait saw is so. *)
LEMMA TurnsSeen ==
  ASSUME WaitInv, wait \in Running, wait.readOnce, NEW k \in Keys,
         k \in Messages => Gone(wait.seen[k])
  PROVE  LET turn == Turn(wait, k, FALSE) IN
         /\ turn \in Turns /\ turn.key = k /\ turn.at = wait.seen[k].at
         /\ turn.revision = wait.seen[k].revision
         /\ TurnIsSo(turn)
<1>. DEFINE turn == Turn(wait, k, FALSE)
<1>1. /\ SeenIsSo(k) /\ CaseIsSo(k) /\ wait.since = since /\ wait.seen[k] \in CaseRecs
      /\ since \in Nat /\ clock \in Nat /\ wait.first[k] \in Nat /\ cases[k] \in CaseRecs
  BY DEF WaitInv, RunIsSo, Running, WaitTyped
<1>2. Fresh(wait, k) \in BOOLEAN
  BY DEF Fresh
<1>3. /\ turn.key = k /\ turn.at = wait.seen[k].at /\ turn.revision = wait.seen[k].revision
      /\ turn.fresh = Fresh(wait, k) /\ turn \in Turns
  BY <1>1, <1>2 DEF Turn, Turns, CaseRecs
<1>4. Fresh(wait, k) => wait.seen[k].at > since
  BY <1>1 DEF Fresh, SeenIsSo
<1>5. Fresh(wait, k) => Told(turn) \notin heard
  <2>. HIDE DEF turn
  <2>1. Told(turn) = [key |-> k, revision |-> wait.seen[k].revision]
    BY <1>3 DEF Told
  <2>2. wait.seen[k].at \in Nat /\ since \in Nat
    BY <1>1 DEF CaseRecs
  <2>3. [key |-> k, revision |-> wait.seen[k].revision] \in heard => wait.seen[k].at <= since
    BY <1>1 DEF SeenIsSo
  <2>. QED
    BY <1>4, <2>1, <2>2, <2>3
<1>6. TurnIsSo(turn)
  <2>. HIDE DEF turn
  <2>. QED
    BY <1>1, <1>3, <1>5 DEF TurnIsSo, SeenIsSo, CaseIsSo, CaseRecs
<1>. QED
  BY <1>3, <1>6

(* So are those it would give, one of a case. *)
LEMMA GivesIt ==
  ASSUME WaitInv, wait \in Running, wait.readOnce
  PROVE  LET turns == AskTurns(wait) \cup Withdrawn(wait) IN
         /\ turns \subseteq Turns /\ OneEach(turns)
         /\ \A turn \in turns : TurnIsSo(turn) /\ turn.at = wait.seen[turn.key].at
         /\ \A turn \in AskTurns(wait) : turn.key \in Asks
         /\ \A turn \in Withdrawn(wait) :
              turn.key \in Messages /\ wait.seen[turn.key].state = "withdrawn"
<1>. DEFINE turns == AskTurns(wait) \cup Withdrawn(wait)
<1>1. ASSUME NEW turn \in AskTurns(wait)
      PROVE  turn.key \in Asks /\ turn = Turn(wait, turn.key, FALSE)
  BY DEF AskTurns, Turn
<1>2. ASSUME NEW turn \in Withdrawn(wait)
      PROVE  turn.key \in Messages /\ turn = Turn(wait, turn.key, FALSE)
             /\ wait.seen[turn.key].state = "withdrawn"
  BY DEF Withdrawn, Turn
<1>3. ASSUME NEW turn \in turns
      PROVE  turn \in Turns /\ TurnIsSo(turn) /\ turn.at = wait.seen[turn.key].at
  <2>1. turn.key \in Keys /\ turn = Turn(wait, turn.key, FALSE)
    BY <1>1, <1>2 DEF Keys
  <2>2. turn.key \in Messages => Gone(wait.seen[turn.key])
    BY <1>1, <1>2, ApartAssumption DEF Gone
  <2>. QED
    BY <2>1, <2>2, TurnsSeen
<1>4. OneEach(turns)
  <2>1. \A turn \in turns : turn = Turn(wait, turn.key, FALSE)
    BY <1>1, <1>2
  <2>. QED
    BY <2>1 DEF OneEach
<1>. QED
  BY <1>1, <1>2, <1>3, <1>4

(* A turn the agent must hear of, unmoved since it was seen, is one given. *)
LEMMA OwedIsGiven ==
  ASSUME WaitInv, wait \in Running, wait.readOnce, ~lapses,
         NEW k \in Keys, Owed(k), ~Heard(k), wait.seen[k] = cases[k]
  PROVE  \E turn \in AskTurns(wait) \cup Withdrawn(wait) :
           /\ turn.key = k /\ turn.revision = cases[k].revision /\ turn.fresh
           /\ k \in Messages => turn \in Withdrawn(wait)
<1>1. cases[k].at > since /\ wait.since = since
  BY Phases DEF WaitInv, Unpassed, RunIsSo
<1>2. Fresh(wait, k)
  BY <1>1 DEF Fresh
<1>3. CASE k \in Messages
  <2>1. CaseIsSo(k) /\ AgentTurn(cases[k]) /\ cases[k].ours
    BY <1>3 DEF WaitInv, Owed
  <2>2. cases[k].state = "withdrawn"
    BY <1>3, <2>1 DEF CaseIsSo, AgentTurn
  <2>3. Turn(wait, k, FALSE) \in Withdrawn(wait)
    BY <1>2, <1>3, <2>1, <2>2 DEF Withdrawn
  <2>. QED
    BY <1>2, <2>3 DEF Turn
<1>4. CASE k \in Asks
  <2>1. AgentTurn(cases[k])
    BY DEF Owed
  <2>2. Turn(wait, k, FALSE) \in AskTurns(wait)
    BY <1>2, <1>4, <2>1 DEF AskTurns
  <2>3. /\ Turn(wait, k, FALSE).key = k /\ Turn(wait, k, FALSE).fresh
        /\ Turn(wait, k, FALSE).revision = cases[k].revision
    BY <1>2 DEF Turn
  <2>4. k \notin Messages
    BY <1>4, ApartAssumption
  <2>. QED
    BY <2>2, <2>3, <2>4
<1>. QED
  BY <1>3, <1>4 DEF Keys

(* Turns that are no later than now have a latest. *)
LEMMA LatestIs ==
  ASSUME NEW turns, NEW last \in Nat, NEW floor \in 0 .. last,
         \A turn \in turns : turn.at \in 0 .. last
  PROVE  /\ Latest(turns, floor) \in floor .. last
         /\ \A turn \in turns : turn.at <= Latest(turns, floor)
         /\ Latest(turns, floor) = floor \/ \E turn \in turns : turn.at = Latest(turns, floor)
<1>. DEFINE times == {turn.at : turn \in turns} \cup {floor}
            T == {last - n : n \in times}
<1>1. times \subseteq 0 .. last /\ floor \in times
  OBVIOUS
<1>2. T \subseteq Nat /\ T # {}
  BY <1>1
<1>. HIDE DEF times
<1>3. PICK least \in T : \A n \in T : least <= n
  <2>. HIDE DEF T
  <2>. QED
    BY <1>2, LeastNatural
<1>4. PICK most \in times : least = last - most
  OBVIOUS
<1>5. \A n \in times : most >= n
  <2>. SUFFICES ASSUME NEW n \in times PROVE most >= n
    OBVIOUS
  <2>1. last - n \in T /\ n \in Nat /\ most \in Nat
    BY <1>1
  <2>2. last - most <= last - n
    BY <1>3, <1>4, <2>1
  <2>. QED
    BY <2>1, <2>2
<1>6. Max(times) \in times /\ \A n \in times : Max(times) >= n
  BY <1>5 DEF Max
<1>7. Latest(turns, floor) = Max(times)
  BY DEF Latest, times
<1>8. Max(times) \in 0 .. last /\ Max(times) >= floor
  BY <1>1, <1>6
<1>9. \A turn \in turns : turn.at \in times
  BY DEF times
<1>10. Max(times) = floor \/ \E turn \in turns : turn.at = Max(times)
  BY <1>6 DEF times
<1>. QED
  BY <1>1, <1>6, <1>7, <1>8, <1>9, <1>10

(* A wait ends its loop with these turns to print: they are of what it saw *)
(* or took, and hold what it took and what the agent must hear of.         *)
LEMMA PrintsSo ==
  ASSUME WaitInv, wait \in Running, UNCHANGED <<lapses, clock, cases, since, unsure, heard>>,
         NEW turns, turns \subseteq Turns, wait' = Printing(wait, turns),
         OneEach(turns), \A turn \in turns : TurnIsSo(turn),
         ~lapses => \A k \in Keys : Owed(k) /\ ~Heard(k) =>
           \/ cases[k].at > since /\ \A turn \in turns : cases[k].at > turn.at
           \/ \E turn \in turns : turn.key = k /\ turn.revision = cases[k].revision,
         \A turn \in wait.taken : turn \in turns \/ cases[turn.key].event # "pickup"
  PROVE  WaitInv'
<1>1. /\ lapses' = lapses /\ clock' = clock /\ cases' = cases /\ since' = since /\ heard' = heard
      /\ unsure' = unsure
      /\ clock \in Nat /\ since \in 0 .. clock /\ wait.since = since /\ wait.lapsed \in BOOLEAN
      /\ wait.phase \in {"read", "find"} /\ wait # Idle
  BY DEF WaitInv, WaitTyped, RunIsSo, Running, Idle
<1>2. \A turn \in turns : turn.at \in 0 .. clock
  BY <1>1 DEF TurnIsSo, Turns
<1>. DEFINE next == Latest(turns, since)
<1>3. /\ next \in since .. clock /\ \A turn \in turns : turn.at <= next
      /\ next = since \/ \E turn \in turns : turn.at = next
  BY <1>1, <1>2, LatestIs
<1>. HIDE DEF next
<1>4. next \in Nat
  BY <1>1, <1>3
<1>5. /\ wait'.phase = "print" /\ wait'.queue = turns /\ wait'.next = next
      /\ wait'.lapsed = wait.lapsed /\ wait' \in Printings
  BY <1>1, <1>4 DEF Printing, Printings, next
<1>6. WaitTyped'
  BY <1>1, <1>5 DEF WaitInv, WaitTyped
<1>7. wait' \notin Running /\ wait' # Idle
  BY <1>5 DEF Running, Idle
<1>8. PrintIsSo'
  <2>1. \A turn \in turns : TurnIsSo(turn)'
    BY <1>1 DEF TurnIsSo
  <2>2. OneEach(wait'.queue)
    BY <1>5
  <2>. QED
    BY <1>1, <1>3, <1>5, <2>1, <2>2 DEF PrintIsSo, OneEach
<1>9. HeardIsSo'
  <2>1. ToldUpTo = since /\ ToldUpTo' = next
    BY <1>1, <1>5 DEF ToldUpTo
  <2>2. \A k \in Keys : cases[k].at \in Nat
    BY DEF WaitInv, WaitTyped, CaseRecs
  <2>3. \A told \in heard : told.key \in Keys
    BY DEF WaitInv, WaitTyped, Tellings
  <2>. QED
    BY <1>1, <1>3, <1>4, <2>1, <2>2, <2>3 DEF WaitInv, HeardIsSo
<1>10. ~lapses' => Unpassed'
  <2>. SUFFICES ASSUME ~lapses, NEW k \in Keys, Owed(k), ~Heard(k)
                PROVE  \/ cases[k].at > next
                       \/ \E turn \in turns : turn.key = k /\ turn.revision = cases[k].revision
    BY <1>1, <1>5 DEF Unpassed, Owed, Heard
  <2>. QED
    BY <1>3
<1>11. PickedUpIsGiven'
  <2>. SUFFICES ASSUME NEW k \in Keys, cases[k].ours, cases[k].event = "pickup"
                PROVE  \/ \E told \in heard : told.key = k /\ told.revision = cases[k].revision - 1
                       \/ \E turn \in turns : turn.key = k /\ turn.revision = cases[k].revision - 1
                       \/ \E sent \in unsure : sent.key = k /\ sent.revision = cases[k].revision - 1
    BY <1>1, <1>5 DEF PickedUpIsGiven
  <2>. QED
    BY <1>1 DEF WaitInv, PickedUpIsGiven
<1>12. \A k \in Keys : CaseIsSo(k)'
  BY <1>1 DEF WaitInv, CaseIsSo
<1>. QED
  BY <1>1, <1>5, <1>6, <1>7, <1>8, <1>9, <1>10, <1>11, <1>12 DEF WaitInv

(* A wait over with nothing to print took nothing, or the agent was told.  *)
LEMMA EndsSo ==
  ASSUME WaitInv, wait \in Running, UNCHANGED <<lapses, clock, cases, since, unsure, heard>>,
         wait' = Idle, wait.taken = {}
  PROVE  WaitInv'
<1>1. /\ lapses' = lapses /\ clock' = clock /\ cases' = cases /\ since' = since /\ heard' = heard
      /\ unsure' = unsure /\ wait.phase \in {"read", "find"} /\ wait'.phase = "idle"
      /\ wait' \notin Running /\ wait' \notin Printings
  BY DEF Running, Printings, Idle
<1>2. WaitTyped'
  BY <1>1 DEF WaitInv, WaitTyped
<1>3. HeardIsSo'
  BY <1>1 DEF WaitInv, HeardIsSo, ToldUpTo
<1>4. ~lapses' => Unpassed'
  BY <1>1 DEF WaitInv, Unpassed, Owed, Heard
<1>5. PickedUpIsGiven'
  BY <1>1 DEF WaitInv, PickedUpIsGiven
<1>6. \A k \in Keys : CaseIsSo(k)'
  BY <1>1 DEF WaitInv, CaseIsSo
<1>. QED
  BY <1>1, <1>2, <1>3, <1>4, <1>5, <1>6 DEF WaitInv

(* A wait that goes on, with what it saw and took as it was. *)
LEMMA RunsOn ==
  ASSUME WaitInv, UNCHANGED <<lapses, clock, cases, since, heard>>,
         unsure \subseteq unsure', unsure' \subseteq unsure \cup Tellings,
         wait \in Running \cup {Idle}, wait' \in Running, RunIsSo',
         wait'.lapsed => lapses, wait \in Running => wait.taken \subseteq wait'.taken
  PROVE  WaitInv'
<1>1. /\ lapses' = lapses /\ clock' = clock /\ cases' = cases /\ since' = since /\ heard' = heard
      /\ wait.phase # "print" /\ wait'.phase \in {"read", "find"} /\ wait' \notin Printings
  BY DEF Running, Printings, Idle
<1>2. WaitTyped'
  BY <1>1 DEF WaitInv, WaitTyped
<1>3. HeardIsSo'
  BY <1>1 DEF WaitInv, HeardIsSo, ToldUpTo
<1>4. ~lapses' => Unpassed'
  BY <1>1 DEF WaitInv, Unpassed, Owed, Heard
<1>5. PickedUpIsGiven'
  <2>1. wait = Idle => wait.phase = "idle"
    BY DEF Idle
  <2>. QED
    BY <1>1, <2>1 DEF WaitInv, PickedUpIsGiven
<1>6. \A k \in Keys : CaseIsSo(k)'
  BY <1>1 DEF WaitInv, CaseIsSo
<1>. QED
  BY <1>1, <1>2, <1>3, <1>4, <1>5, <1>6 DEF WaitInv

-----------------------------------------------------------------------------
(* The wait *)

LEMMA Starts == WaitInv /\ StartWait => WaitInv'
<1>. SUFFICES ASSUME WaitInv, StartWait PROVE WaitInv'
  OBVIOUS
<1>1. PICK lingers \in Lingers :
        wait' = [phase |-> "read", since |-> since, lingers |-> lingers,
                 first |-> Unread, readOnce |-> FALSE, seen |-> cases, left |-> {},
                 taken |-> {}, collecting |-> FALSE, capped |-> FALSE, collected |-> {},
                 lapsed |-> FALSE]
  BY DEF StartWait
<1>2. /\ wait = Idle /\ UNCHANGED <<lapses, clock, cases, since, unsure, heard>>
      /\ since \in Nat /\ cases \in [Keys -> CaseRecs] /\ lingers \in BOOLEAN
  BY LingersAssumption DEF StartWait, WaitInv, WaitTyped
<1>3. Unread \in [Keys -> Nat]
  BY DEF Unread
<1>4. wait' \in Running
  BY <1>1, <1>2, <1>3 DEF Running
<1>5. \A k \in Keys : SeenIsSo(k)' /\ Later(k)'
  <2>. SUFFICES ASSUME NEW k \in Keys PROVE SeenIsSo(k)' /\ Later(k)'
    OBVIOUS
  <2>1. cases[k].at \in Nat /\ wait'.seen = cases /\ cases' = cases /\ wait'.readOnce = FALSE
    BY <1>1, <1>2 DEF CaseRecs
  <2>2. [key |-> k, revision |-> cases[k].revision] \in heard => cases[k].at <= since
    BY <1>2 DEF WaitInv, HeardIsSo, ToldUpTo, Idle
  <2>. QED
    BY <1>2, <2>1, <2>2 DEF SeenIsSo, Later
<1>6. CollectedIsSo'
  BY <1>1 DEF CollectedIsSo
<1>7. RunIsSo'
  BY <1>1, <1>2, <1>5, <1>6 DEF RunIsSo, OneEach
<1>. QED
  BY <1>1, <1>2, <1>4, <1>7, RunsOn DEF Running, Idle

LEMMA Reads == WaitInv /\ ReadStore => WaitInv'
<1>. SUFFICES ASSUME WaitInv, ReadStore PROVE WaitInv'
  OBVIOUS
<1>. DEFINE left == {k \in Messages : cases[k].state = "sent"}
<1>1. /\ wait' = [wait EXCEPT !.phase = "find", !.seen = cases, !.readOnce = TRUE,
                              !.first = First(wait), !.left = left]
      /\ UNCHANGED <<lapses, clock, cases, since, unsure, heard>> /\ wait.phase = "read"
  BY DEF ReadStore
<1>2. /\ wait \in Running /\ cases \in [Keys -> CaseRecs] /\ since \in Nat /\ RunIsSo
  BY <1>1, Phases DEF WaitInv, WaitTyped
<1>3. First(wait) \in [Keys -> Nat]
  BY <1>2 DEF First, Running, CaseRecs
<1>. DEFINE first == First(wait)
<1>. HIDE DEF left, first
<1>4. /\ wait' \in Running /\ wait'.phase = "find" /\ wait'.seen = cases /\ wait'.readOnce = TRUE
      /\ wait'.first = first /\ wait'.taken = wait.taken /\ wait'.since = wait.since
      /\ wait'.lapsed = wait.lapsed
  <2>1. left \subseteq Messages
    BY DEF left
  <2>2. first \in [Keys -> Nat]
    BY <1>3 DEF first
  <2>. QED
    BY <1>1, <1>2, <2>1, <2>2 DEF Running, first
<1>5. \A k \in Keys : SeenIsSo(k)' /\ Later(k)'
  <2>. SUFFICES ASSUME NEW k \in Keys PROVE SeenIsSo(k)' /\ Later(k)'
    OBVIOUS
  <2>1. cases[k].at \in Nat /\ cases[k].revision \in Nat /\ cases' = cases
    BY <1>1, <1>2 DEF CaseRecs
  <2>2. [key |-> k, revision |-> cases[k].revision] \in heard => cases[k].at <= since
    BY <1>1, <1>2 DEF WaitInv, HeardIsSo, ToldUpTo
  <2>3. cases[k].revision > first[k] => cases[k].at > since
    <3>1. CASE wait.readOnce
      <4>1. first = wait.first /\ SeenIsSo(k) /\ Later(k)
        BY <1>2, <3>1 DEF First, RunIsSo, first
      <4>. QED
        BY <3>1, <4>1 DEF SeenIsSo, Later
    <3>2. CASE ~wait.readOnce
      <4>1. first[k] = cases[k].revision
        BY <3>2 DEF First, first
      <4>. QED
        BY <2>1, <4>1
    <3>. QED
      BY <3>1, <3>2
  <2>. QED
    BY <1>1, <1>4, <2>1, <2>2, <2>3 DEF SeenIsSo, Later
<1>6. \A turn \in wait.taken : turn.key \in Messages /\ TurnIsSo(turn)'
  BY <1>1, <1>2 DEF RunIsSo, TurnIsSo
<1>7. RunIsSo'
  BY <1>1, <1>2, <1>4, <1>5, <1>6 DEF RunIsSo, OneEach
<1>. QED
  BY <1>1, <1>2, <1>4, <1>7, RunsOn DEF WaitInv, Running, Idle

LEMMA Takes == WaitInv /\ (\E k \in Messages : TakeMessage(k)) => WaitInv'
<1>. SUFFICES ASSUME WaitInv, NEW k \in Messages, TakeMessage(k) PROVE WaitInv'
  OBVIOUS
<1>0. PICK new : new = Turn(wait, k, TRUE)
  OBVIOUS
<1>1. /\ wait.phase = "find" /\ k \in wait.left /\ cases[k].revision = wait.seen[k].revision
      /\ wait' = [wait EXCEPT !.left = wait.left \ {k}, !.taken = wait.taken \cup {new}]
      /\ since' = since /\ heard' = heard /\ unsure' = unsure /\ OurPickup(k)
  BY <1>0 DEF TakeMessage
<1>2. k \in Keys /\ wait \in Running /\ RunIsSo
  BY <1>1, Phases DEF Keys, WaitInv
<1>3. /\ MovedOn(k) /\ cases[k].state = "sent" /\ cases'[k].event = "pickup"
      /\ cases'[k].author = "agent" /\ cases'[k].state = "pickedup"
  <2>1. TRUE \in BOOLEAN
    OBVIOUS
  <2>. DEFINE m == Move(cases[k].state, "agent", "pickup", "pickedup")
  <2>2. WriteMove(k, m, TRUE) /\ m.event = "pickup" /\ m.to = "pickedup" /\ m.author = "agent"
    BY <1>1 DEF OurPickup, Move
  <2>. HIDE DEF m
  <2>3. /\ MovedOn(k) /\ m \in Moves(k) /\ m.from = cases[k].state
        /\ cases'[k].event = m.event /\ cases'[k].author = m.author /\ cases'[k].state = m.to
    BY <1>2, <2>1, <2>2, WriteMoves
  <2>. QED
    BY <1>2, <2>2, <2>3, MovesAre
<1>4. wait.seen[k] = cases[k]
  <2>1. SeenIsSo(k) /\ cases[k].revision \in Nat
    BY <1>2 DEF WaitInv, WaitTyped, RunIsSo, CaseRecs
  <2>. QED
    BY <1>1, <2>1 DEF SeenIsSo
<1>5. /\ new \in Turns /\ new.key = k /\ new.revision = cases[k].revision /\ new.at = cases[k].at
      /\ new.fresh = TRUE /\ Told(new) = [key |-> k, revision |-> cases[k].revision]
  <2>1. cases[k] \in CaseRecs
    BY <1>2 DEF WaitInv, WaitTyped
  <2>. QED
    BY <1>0, <1>2, <1>4, <2>1 DEF Turn, Turns, Told, CaseRecs
<1>6. /\ wait' \in Running /\ wait'.phase = "find" /\ wait'.seen = wait.seen
      /\ wait'.readOnce = wait.readOnce /\ wait'.first = wait.first
      /\ wait'.taken = wait.taken \cup {new} /\ wait'.since = wait.since
      /\ wait'.lapsed = wait.lapsed
  BY <1>1, <1>2, <1>5 DEF Running
<1>7. Told(new) \notin heard
  BY <1>3, <1>5 DEF WaitInv, HeardIsSo, Gone
<1>8. \A turn \in wait.taken : turn \in Turns /\ TurnIsSo(turn) /\ turn.key \in Messages /\ turn.key # k
  BY <1>2, <1>3 DEF RunIsSo, TurnIsSo, Gone, Running
<1>9. \A turn \in wait'.taken : turn.key \in Messages /\ TurnIsSo(turn)'
  <2>1. \A turn \in wait.taken : TurnIsSo(turn)'
    <3>. SUFFICES ASSUME NEW turn \in wait.taken PROVE TurnIsSo(turn)'
      OBVIOUS
    <3>1. turn.fresh => Told(turn) \notin heard'
      BY <1>1, <1>8 DEF TurnIsSo
    <3>. QED
      BY <1>2, <1>3, <1>8, <3>1, TurnsStay
  <2>2. TurnIsSo(new)'
    <3>1. cases[k].at <= clock /\ cases[k].at \in Nat /\ clock \in Nat /\ cases[k].revision \in Nat
      BY <1>2 DEF WaitInv, WaitTyped, CaseIsSo, CaseRecs
    <3>2. cases'[k].revision = cases[k].revision + 1 /\ clock' = clock + 1
      BY <1>3 DEF MovedOn
    <3>. QED
      BY <1>1, <1>3, <1>5, <1>7, <3>1, <3>2 DEF TurnIsSo, Gone
  <2>. QED
    BY <1>5, <1>6, <1>8, <2>1, <2>2
<1>10. OneEach(wait'.taken)
  BY <1>2, <1>5, <1>6, <1>8 DEF RunIsSo, OneEach
<1>11. \A j \in Keys : SeenIsSo(j)' /\ Later(j)'
  <2>1. \A turn \in wait'.taken : turn.at <= clock /\ turn.at \in Nat
    <3>1. \A turn \in wait.taken : turn.at <= clock /\ turn.at \in Nat
      BY <1>8 DEF TurnIsSo, Turns
    <3>2. new.at <= clock /\ new.at \in Nat
      BY <1>2, <1>5 DEF WaitInv, CaseIsSo, Turns
    <3>. QED
      BY <1>6, <3>1, <3>2
  <2>2. \A j \in Keys : wait.seen[j] # cases[j] => \A turn \in wait'.taken : cases[j].at > turn.at
    BY <1>2, <1>4, <1>5, <1>6 DEF RunIsSo, Later
  <2>. QED
    BY <1>1, <1>2, <1>3, <1>6, <2>1, <2>2, SeenStays
<1>12. RunIsSo'
  BY <1>1, <1>2, <1>6, <1>9, <1>10, <1>11 DEF RunIsSo
<1>13. WaitTyped'
  BY <1>1, <1>3, <1>6 DEF WaitInv, WaitTyped, MovedOn
<1>14. HeardIsSo'
  <2>1. ToldUpTo' = ToldUpTo
    BY <1>1, <1>6 DEF ToldUpTo
  <2>. QED
    BY <1>1, <1>2, <1>3, <2>1, HeardStays
<1>15. ~lapses' => Unpassed'
  <2>. SUFFICES ASSUME ~lapses', NEW j \in Keys, Owed(j)', ~Heard(j)'
                PROVE  cases'[j].at > since
    BY <1>1, <1>6 DEF Unpassed
  <2>1. j # k
    BY <1>3 DEF Owed, AgentTurn
  <2>2. cases'[j] = cases[j] /\ lapses' = lapses
    BY <1>3, <2>1 DEF MovedOn
  <2>3. Owed(j) /\ ~Heard(j)
    BY <1>1, <2>2 DEF Owed, Heard
  <2>. QED
    BY <1>1, <2>2, <2>3 DEF WaitInv, Unpassed
<1>16. PickedUpIsGiven'
  <2>. SUFFICES ASSUME NEW j \in Keys, cases'[j].ours, cases'[j].event = "pickup"
                PROVE  \/ \E told \in heard :
                            told.key = j /\ told.revision = cases'[j].revision - 1
                       \/ \E turn \in wait'.taken :
                            turn.key = j /\ turn.revision = cases'[j].revision - 1
                       \/ \E sent \in unsure :
                            sent.key = j /\ sent.revision = cases'[j].revision - 1
    BY <1>1, <1>6 DEF PickedUpIsGiven
  <2>1. CASE j = k
    <3>1. cases'[k].revision - 1 = cases[k].revision
      <4>1. cases[k].revision \in Nat /\ cases'[k].revision = cases[k].revision + 1
        BY <1>2, <1>3 DEF WaitInv, WaitTyped, CaseRecs, MovedOn
      <4>. QED
        BY <4>1
    <3>. QED
      BY <1>5, <1>6, <2>1, <3>1
  <2>2. CASE j # k
    <3>1. cases'[j] = cases[j]
      BY <1>3, <2>2 DEF MovedOn
    <3>. QED
      BY <1>1, <1>6, <3>1 DEF WaitInv, PickedUpIsGiven
  <2>. QED
    BY <2>1, <2>2
<1>17. \A j \in Keys : CaseIsSo(j)'
  BY <1>3 DEF MovedOn
<1>18. /\ wait' \notin Printings /\ (wait' # Idle /\ wait'.lapsed => lapses')
  <2>1. wait # Idle /\ lapses' = lapses
    BY <1>2, <1>3 DEF MovedOn, Running, Idle
  <2>. QED
    BY <1>6, <2>1 DEF WaitInv, Printings
<1>. QED
  BY <1>12, <1>13, <1>14, <1>15, <1>16, <1>17, <1>18 DEF WaitInv

LEMMA TakesNot == WaitInv /\ (\E k \in Messages : TakeRefused(k)) => WaitInv'
<1>. SUFFICES ASSUME WaitInv, NEW k \in Messages, TakeRefused(k) PROVE WaitInv'
  OBVIOUS
<1>1. /\ wait.phase = "find" /\ wait' = [wait EXCEPT !.left = wait.left \ {k}]
      /\ UNCHANGED <<lapses, clock, cases, since, unsure, heard>>
  BY DEF TakeRefused
<1>2. wait \in Running /\ RunIsSo
  BY <1>1, Phases DEF WaitInv
<1>3. /\ wait' \in Running /\ wait'.phase = "find" /\ wait'.seen = wait.seen
      /\ wait'.readOnce = wait.readOnce /\ wait'.first = wait.first
      /\ wait'.taken = wait.taken /\ wait'.since = wait.since /\ wait'.lapsed = wait.lapsed
  BY <1>1, <1>2 DEF Running
<1>4. RunIsSo'
  BY <1>1, <1>2, <1>3 DEF RunIsSo, SeenIsSo, Later, TurnIsSo, OneEach
<1>. QED
  BY <1>1, <1>2, <1>3, <1>4, RunsOn DEF WaitInv, Running, Idle

(* It may be that its pickup is stored. *)
LEMMA TakesUnsure == WaitInv /\ (\E k \in Messages : TakeUnsure(k)) => WaitInv'
<1>. SUFFICES ASSUME WaitInv, NEW k \in Messages, TakeUnsure(k) PROVE WaitInv'
  OBVIOUS
<1>. DEFINE sent == [key |-> k, revision |-> wait.seen[k].revision]
<1>1. /\ wait.phase = "find" /\ wait' = [wait EXCEPT !.left = wait.left \ {k}]
      /\ UNCHANGED <<lapses, clock, cases, since, heard>> /\ unsure' = unsure \cup {sent}
  BY DEF TakeUnsure
<1>2. wait \in Running /\ RunIsSo
  BY <1>1, Phases DEF WaitInv
<1>3. sent \in Tellings
  BY <1>2 DEF Tellings, Running, CaseRecs, Keys
<1>. HIDE DEF sent
<1>4. /\ wait' \in Running /\ wait'.phase = "find" /\ wait'.seen = wait.seen
      /\ wait'.readOnce = wait.readOnce /\ wait'.first = wait.first
      /\ wait'.taken = wait.taken /\ wait'.since = wait.since /\ wait'.lapsed = wait.lapsed
  BY <1>1, <1>2 DEF Running
<1>5. RunIsSo'
  BY <1>1, <1>2, <1>4 DEF RunIsSo, SeenIsSo, Later, TurnIsSo, OneEach
<1>6. unsure \subseteq unsure' /\ unsure' \subseteq unsure \cup Tellings
  BY <1>1, <1>3
<1>. QED
  BY <1>1, <1>2, <1>4, <1>5, <1>6, RunsOn DEF WaitInv, Running, Idle

(* What a wait gives depends on what it saw and when it began. *)
LEMMA SameTurns ==
  ASSUME NEW w, NEW v, v.seen = w.seen, v.first = w.first, v.since = w.since
  PROVE  AskTurns(v) = AskTurns(w) /\ Withdrawn(v) = Withdrawn(w)
  BY DEF AskTurns, Withdrawn, Turn, Fresh

LEMMA Gives == WaitInv /\ GiveCases => WaitInv'
<1>. SUFFICES ASSUME WaitInv, GiveCases PROVE WaitInv'
  OBVIOUS
<1>. DEFINE given == AskTurns(wait) \cup Withdrawn(wait)
            kept == {turn \in wait.taken : turn.key \notin KeysOf(Withdrawn(wait))}
            turns == given \cup kept
<1>1. /\ wait.phase = "find" /\ wait' = Printing(wait, turns)
      /\ UNCHANGED <<lapses, clock, cases, since, unsure, heard>>
  BY DEF GiveCases, Give
<1>2. wait \in Running /\ RunIsSo /\ wait.readOnce
  BY <1>1, Phases DEF WaitInv, RunIsSo
<1>3. \A turn \in wait.taken : turn \in Turns /\ TurnIsSo(turn) /\ turn.key \in Messages
  BY <1>2 DEF RunIsSo, Running
<1>4. /\ given \subseteq Turns /\ OneEach(given)
      /\ \A turn \in given : TurnIsSo(turn) /\ turn.at = wait.seen[turn.key].at
      /\ \A turn \in AskTurns(wait) : turn.key \in Asks
      /\ \A turn \in Withdrawn(wait) :
           turn.key \in Messages /\ wait.seen[turn.key].state = "withdrawn"
  BY <1>2, GivesIt
<1>5. OneEach(turns)
  <2>. SUFFICES ASSUME NEW one \in given, NEW other \in kept PROVE one.key # other.key
    BY <1>2, <1>4 DEF OneEach, RunIsSo
  <2>1. one \in Withdrawn(wait) => one.key \in KeysOf(Withdrawn(wait))
    BY DEF KeysOf
  <2>. QED
    BY <1>3, <1>4, <2>1, ApartAssumption
<1>6. turns \subseteq Turns /\ \A turn \in turns : TurnIsSo(turn)
  BY <1>3, <1>4
<1>7. ASSUME ~lapses, NEW k \in Keys, Owed(k), ~Heard(k)
      PROVE  \/ cases[k].at > since /\ \A turn \in turns : cases[k].at > turn.at
             \/ \E turn \in turns : turn.key = k /\ turn.revision = cases[k].revision
  <2>1. CASE wait.seen[k] = cases[k]
    BY <1>2, <1>7, <2>1, OwedIsGiven
  <2>2. CASE wait.seen[k] # cases[k]
    <3>1. Later(k) /\ \A turn \in given : turn.key \in Keys
      BY <1>2, <1>4 DEF RunIsSo, Turns
    <3>. QED
      BY <1>4, <2>2, <3>1 DEF Later
  <2>. QED
    BY <2>1, <2>2
<1>8. ASSUME NEW turn \in wait.taken, turn \notin turns
      PROVE  cases[turn.key].event # "pickup"
  <2>1. PICK gone \in Withdrawn(wait) : gone.key = turn.key
    BY <1>8 DEF KeysOf
  <2>2. turn.key \in Messages /\ turn.key \in Keys /\ wait.seen[turn.key].state = "withdrawn"
    BY <1>4, <2>1 DEF Keys
  <2>3. cases[turn.key].state = "withdrawn"
    BY <1>2, <2>2 DEF RunIsSo, SeenIsSo
  <2>. QED
    BY <2>2, <2>3 DEF WaitInv, CaseIsSo
<1>. HIDE DEF turns
<1>. QED
  BY <1>1, <1>2, <1>5, <1>6, <1>7, <1>8, PrintsSo

LEMMA Rests == WaitInv /\ Rest => WaitInv'
<1>. SUFFICES ASSUME WaitInv, Rest PROVE WaitInv'
  OBVIOUS
<1>. DEFINE collected == IF Woke(wait) THEN Give([wait EXCEPT !.taken = {}]) ELSE {}
            woke == Woke(wait)
<1>1. /\ wait.phase = "find" /\ wait.left = {} /\ (Woke(wait) => ~Urgent(wait))
      /\ wait' = [wait EXCEPT !.phase = "read", !.collecting = woke, !.capped = FALSE,
                              !.collected = collected]
      /\ UNCHANGED <<lapses, clock, cases, since, unsure, heard>>
  BY DEF Rest
<1>2. wait \in Running /\ RunIsSo /\ wait.readOnce
  BY <1>1, Phases DEF WaitInv, RunIsSo
<1>3. Withdrawn(wait) = {}
  BY <1>1 DEF Woke, Urgent
<1>4. Give([wait EXCEPT !.taken = {}]) = AskTurns(wait)
  <2>. DEFINE v == [wait EXCEPT !.taken = {}]
  <2>1. v.seen = wait.seen /\ v.first = wait.first /\ v.since = wait.since /\ v.taken = {}
    BY <1>2 DEF Running
  <2>. HIDE DEF v
  <2>2. AskTurns(v) = AskTurns(wait) /\ Withdrawn(v) = {}
    BY <1>3, <2>1, SameTurns
  <2>3. Give(v) = AskTurns(wait)
    BY <2>1, <2>2 DEF Give
  <2>. QED
    BY <2>3 DEF v
<1>5. collected \subseteq Turns /\ woke \in BOOLEAN
  <2>1. AskTurns(wait) \subseteq Turns
    BY <1>2, GivesIt
  <2>. QED
    BY <1>4, <2>1 DEF Woke
<1>6. /\ woke <=> (wait.taken # {} \/ \E turn \in AskTurns(wait) : turn.fresh)
      /\ collected = IF woke THEN AskTurns(wait) ELSE {}
  BY <1>3, <1>4 DEF Woke
<1>. HIDE DEF collected, woke
<1>7. /\ wait' \in Running /\ wait'.phase = "read" /\ wait'.seen = wait.seen
      /\ wait'.readOnce = wait.readOnce /\ wait'.first = wait.first
      /\ wait'.taken = wait.taken /\ wait'.since = wait.since /\ wait'.lapsed = wait.lapsed
      /\ wait'.collecting = woke /\ wait'.collected = collected
  BY <1>1, <1>2, <1>5 DEF Running
<1>8. CollectedIsSo'
  <2>1. AskTurns(wait') = AskTurns(wait) /\ Withdrawn(wait') = {}
    BY <1>3, <1>7, SameTurns
  <2>2. CollectedIsSo' <=>
          /\ wait'.taken # {} => wait'.collecting
          /\ ~wait'.collecting => wait'.collected = {}
          /\ wait'.collecting => wait'.collected = AskTurns(wait')
          /\ Withdrawn(wait') = {} \/ ~wait'.readOnce
          /\ wait'.readOnce /\ (\E turn \in AskTurns(wait') : turn.fresh) => wait'.collecting
    BY DEF CollectedIsSo, AskTurns, Withdrawn, Turn, Fresh, AgentTurn
  <2>. QED
    BY <1>5, <1>6, <1>7, <2>1, <2>2
<1>9. RunIsSo'
  BY <1>1, <1>2, <1>7, <1>8 DEF RunIsSo, SeenIsSo, Later, TurnIsSo, OneEach
<1>. QED
  BY <1>1, <1>2, <1>7, <1>9, RunsOn DEF WaitInv, Running, Idle

LEMMA TimesOutSo == WaitInv /\ TimesOut => WaitInv'
<1>. SUFFICES ASSUME WaitInv, TimesOut PROVE WaitInv'
  OBVIOUS
<1>1. /\ wait.phase = "read" /\ ~wait.collecting /\ wait' = Idle
      /\ UNCHANGED <<lapses, clock, cases, since, unsure, heard>>
  BY DEF TimesOut
<1>2. wait \in Running /\ CollectedIsSo
  BY <1>1, Phases DEF WaitInv, RunIsSo
<1>. QED
  BY <1>1, <1>2, EndsSo DEF CollectedIsSo

(* With what it took alone to print, when its locks have lapsed. *)
LEMMA Stops == WaitInv /\ Stop => WaitInv'
<1>. SUFFICES ASSUME WaitInv, Stop PROVE WaitInv'
  OBVIOUS
<1>1. /\ wait.phase \in {"read", "find"} /\ wait.lapsed
      /\ wait' = IF wait.taken = {} THEN Idle ELSE Printing(wait, wait.taken)
      /\ UNCHANGED <<lapses, clock, cases, since, unsure, heard>>
  BY DEF Stop
<1>2. wait \in Running /\ RunIsSo
  BY <1>1, Phases DEF WaitInv
<1>3. CASE wait.taken = {}
  BY <1>1, <1>2, <1>3, EndsSo
<1>4. CASE wait.taken # {}
  <2>1. wait.taken \subseteq Turns /\ OneEach(wait.taken) /\ \A turn \in wait.taken : TurnIsSo(turn)
    BY <1>2 DEF RunIsSo, Running
  <2>2. lapses
    BY <1>1, <1>2 DEF WaitInv, Running, Idle
  <2>. QED
    BY <1>1, <1>2, <1>4, <2>1, <2>2, PrintsSo
<1>. QED
  BY <1>3, <1>4

LEMMA FailsSo == WaitInv /\ ReadFails => WaitInv'
<1>. SUFFICES ASSUME WaitInv, ReadFails PROVE WaitInv'
  OBVIOUS
<1>. DEFINE turns == wait.collected \cup wait.taken
<1>1. PICK timeout \in {FALSE, wait.collecting} : wait' = Failed(wait, timeout)
  BY DEF ReadFails
<1>2. /\ wait.phase = "read" /\ wait.readOnce
      /\ UNCHANGED <<lapses, clock, cases, since, unsure, heard>>
  BY DEF ReadFails
<1>3. wait \in Running /\ RunIsSo /\ CollectedIsSo
  BY <1>2, Phases DEF WaitInv, RunIsSo
<1>4. CASE wait.taken = {} /\ ~timeout
  <2>1. wait' = Idle
    BY <1>1, <1>4 DEF Failed
  <2>. QED
    BY <1>2, <1>3, <1>4, <2>1, EndsSo
<1>5. CASE ~(wait.taken = {} /\ ~timeout)
  <2>1. wait' = Printing(wait, turns)
    BY <1>1, <1>5 DEF Failed
  <2>2. wait.collecting /\ wait.collected = AskTurns(wait) /\ Withdrawn(wait) = {}
    BY <1>2, <1>3, <1>5 DEF CollectedIsSo
  <2>3. \A turn \in wait.taken : turn \in Turns /\ TurnIsSo(turn) /\ turn.key \in Messages
    BY <1>3 DEF RunIsSo, Running
  <2>4. /\ AskTurns(wait) \subseteq Turns
        /\ OneEach(AskTurns(wait) \cup Withdrawn(wait))
        /\ \A turn \in AskTurns(wait) :
             TurnIsSo(turn) /\ turn.at = wait.seen[turn.key].at /\ turn.key \in Asks
    BY <1>2, <1>3, GivesIt
  <2>5. OneEach(turns)
    <3>1. \A one \in AskTurns(wait), other \in wait.taken : one.key # other.key
      BY <2>3, <2>4, ApartAssumption
    <3>2. OneEach(AskTurns(wait)) /\ OneEach(wait.taken)
      BY <1>3, <2>4 DEF OneEach, RunIsSo
    <3>. QED
      BY <2>2, <3>1, <3>2 DEF OneEach
  <2>6. turns \subseteq Turns /\ \A turn \in turns : TurnIsSo(turn)
    BY <2>2, <2>3, <2>4
  <2>7. ASSUME ~lapses, NEW k \in Keys, Owed(k), ~Heard(k)
        PROVE  \/ cases[k].at > since /\ \A turn \in turns : cases[k].at > turn.at
               \/ \E turn \in turns : turn.key = k /\ turn.revision = cases[k].revision
    <3>1. CASE wait.seen[k] = cases[k]
      BY <1>2, <1>3, <2>2, <2>7, <3>1, OwedIsGiven
    <3>2. CASE wait.seen[k] # cases[k]
      <4>1. Later(k) /\ \A turn \in AskTurns(wait) : turn.key \in Keys
        BY <1>3, <2>4 DEF RunIsSo, Turns
      <4>. QED
        BY <2>2, <2>4, <3>2, <4>1 DEF Later
    <3>. QED
      BY <3>1, <3>2
  <2>. HIDE DEF turns
  <2>8. \A turn \in wait.taken : turn \in turns
    BY DEF turns
  <2>. QED
    BY <1>2, <1>3, <2>1, <2>5, <2>6, <2>7, <2>8, PrintsSo
<1>. QED
  BY <1>4, <1>5

(* What a wait has collected is so whether or not its lease or cap is up.  *)
LEMMA StaysCollected ==
  ASSUME CollectedIsSo, wait'.seen = wait.seen, wait'.first = wait.first,
         wait'.since = wait.since, wait'.readOnce = wait.readOnce, wait'.taken = wait.taken,
         wait'.collecting = wait.collecting, wait'.collected = wait.collected
  PROVE  CollectedIsSo'
<1>1. AskTurns(wait') = AskTurns(wait) /\ Withdrawn(wait') = Withdrawn(wait)
  BY SameTurns
<1>2. CollectedIsSo' <=>
        /\ wait'.taken # {} => wait'.collecting
        /\ ~wait'.collecting => wait'.collected = {}
        /\ wait'.collecting => wait'.collected = AskTurns(wait')
        /\ Withdrawn(wait') = {} \/ ~wait'.readOnce
        /\ wait'.readOnce /\ (\E turn \in AskTurns(wait') : turn.fresh) => wait'.collecting
  BY DEF CollectedIsSo, AskTurns, Withdrawn, Turn, Fresh, AgentTurn
<1>. QED
  BY <1>1, <1>2 DEF CollectedIsSo

LEMMA CapSo == WaitInv /\ CapComes => WaitInv'
<1>. SUFFICES ASSUME WaitInv, CapComes PROVE WaitInv'
  OBVIOUS
<1>1. /\ wait.phase \in {"read", "find"} /\ wait' = [wait EXCEPT !.capped = TRUE]
      /\ UNCHANGED <<lapses, clock, cases, since, unsure, heard>>
  BY DEF CapComes
<1>2. wait \in Running /\ RunIsSo
  BY <1>1, Phases DEF WaitInv
<1>3. /\ wait' \in Running /\ wait'.phase = wait.phase /\ wait'.seen = wait.seen
      /\ wait'.readOnce = wait.readOnce /\ wait'.first = wait.first
      /\ wait'.taken = wait.taken /\ wait'.since = wait.since /\ wait'.lapsed = wait.lapsed
      /\ wait'.collecting = wait.collecting /\ wait'.collected = wait.collected
  BY <1>1, <1>2 DEF Running
<1>4. CollectedIsSo => CollectedIsSo'
  BY <1>3, StaysCollected
<1>5. RunIsSo'
  BY <1>1, <1>2, <1>3, <1>4 DEF RunIsSo, SeenIsSo, Later, TurnIsSo, OneEach
<1>. QED
  BY <1>1, <1>2, <1>3, <1>5, RunsOn DEF WaitInv, Running, Idle

LEMMA Lapses == WaitInv /\ Lapse => WaitInv'
<1>. SUFFICES ASSUME WaitInv, Lapse PROVE WaitInv'
  OBVIOUS
<1>1. /\ lapses /\ wait.phase # "idle" /\ wait' = [wait EXCEPT !.lapsed = TRUE]
      /\ lapses' = lapses /\ clock' = clock /\ cases' = cases /\ since' = since /\ heard' = heard
      /\ unsure' = unsure
  BY DEF Lapse
<1>2. wait \in Running \cup Printings
  BY <1>1, Phases DEF WaitInv, Idle, WaitTyped
<1>3. CASE wait \in Running
  <2>1. /\ wait' \in Running /\ wait'.phase = wait.phase /\ wait'.seen = wait.seen
        /\ wait'.readOnce = wait.readOnce /\ wait'.first = wait.first
        /\ wait'.taken = wait.taken /\ wait'.since = wait.since
        /\ wait'.collecting = wait.collecting /\ wait'.collected = wait.collected
    BY <1>1, <1>3 DEF Running
  <2>2. RunIsSo
    BY <1>3 DEF WaitInv
  <2>5. CollectedIsSo => CollectedIsSo'
    BY <2>1, StaysCollected
  <2>6. RunIsSo'
    BY <1>1, <2>1, <2>2, <2>5 DEF RunIsSo, SeenIsSo, Later, TurnIsSo, OneEach
  <2>. QED
    BY <1>1, <1>3, <2>1, <2>6, RunsOn
<1>4. CASE wait \in Printings
  <2>1. /\ wait' \in Printings /\ wait'.phase = "print" /\ wait'.queue = wait.queue
        /\ wait'.next = wait.next /\ wait.phase = "print" /\ wait' \notin Running
    BY <1>1, <1>4 DEF Printings, Running
  <2>2. WaitTyped'
    BY <1>1, <2>1 DEF WaitInv, WaitTyped
  <2>3. PrintIsSo'
    BY <1>1, <1>4, <2>1 DEF WaitInv, PrintIsSo, TurnIsSo, OneEach
  <2>4. HeardIsSo'
    BY <1>1, <2>1 DEF WaitInv, HeardIsSo, ToldUpTo
  <2>5. PickedUpIsGiven'
    BY <1>1, <2>1 DEF WaitInv, PickedUpIsGiven
  <2>6. \A k \in Keys : CaseIsSo(k)'
    BY <1>1 DEF WaitInv, CaseIsSo
  <2>. QED
    BY <1>1, <2>1, <2>2, <2>3, <2>4, <2>5, <2>6 DEF WaitInv
<1>. QED
  BY <1>2, <1>3, <1>4

-----------------------------------------------------------------------------
(* The lines *)

(* A line is out: of the case as it stands, or as it was just picked up.   *)
LEMMA LinesOut ==
  ASSUME WaitInv, wait.phase = "print", NEW turn \in wait.queue, Line(turn),
         since' = since, lapses' = lapses,
         unsure \subseteq unsure', unsure' \subseteq unsure \cup Tellings,
         \/ clock' = clock /\ cases' = cases
         \/ /\ MovedOn(turn.key) /\ cases[turn.key].revision = turn.revision
            /\ cases'[turn.key].event = "pickup" /\ cases'[turn.key].author = "agent"
  PROVE  WaitInv'
<1>1. wait \in Printings /\ PrintIsSo /\ wait.queue \subseteq Turns /\ turn \in Turns
  BY Phases DEF WaitInv, Printings
<1>2. heard' = heard \cup {Told(turn)} /\ wait' = [wait EXCEPT !.queue = wait.queue \ {turn}]
  BY DEF Line
<1>3. /\ wait' \in Printings /\ wait'.phase = "print" /\ wait'.queue = wait.queue \ {turn}
      /\ wait'.next = wait.next /\ wait'.lapsed = wait.lapsed /\ wait' \notin Running
      /\ wait # Idle
  BY <1>1, <1>2 DEF Printings, Running, Idle
<1>4. turn.key \in Keys /\ turn.revision \in Nat /\ turn.at \in Nat /\ TurnIsSo(turn) /\ turn.at <= wait.next
        /\ wait.next \in Nat
  BY <1>1 DEF Turns, PrintIsSo, Printings
<1>5. Told(turn) \in Tellings /\ Told(turn).key = turn.key
        /\ Told(turn).revision = turn.revision
  BY <1>4 DEF Told, Tellings
<1>6. \A other \in wait.queue \ {turn} : other.key # turn.key /\ Told(other) # Told(turn)
  BY <1>1 DEF PrintIsSo, OneEach, Told
<1>7. \A told \in heard : told.key \in Keys /\ told.revision \in Nat
  BY DEF WaitInv, WaitTyped, Tellings
<1>8. \A k \in Keys : cases[k].revision \in Nat /\ cases[k].at \in Nat
  BY DEF WaitInv, WaitTyped, CaseRecs
<1>9. /\ \A k \in Keys : cases'[k] = cases[k] \/ (k = turn.key /\ MovedOn(turn.key))
      /\ \A k \in Keys : CaseIsSo(k)'
      /\ cases' \in [Keys -> CaseRecs] /\ clock' \in Nat /\ clock' >= clock
  BY <1>4 DEF MovedOn, WaitInv, WaitTyped, CaseIsSo
<1>10. WaitTyped'
  BY <1>2, <1>3, <1>5, <1>9 DEF WaitInv, WaitTyped
<1>11. PrintIsSo'
  <2>1. ASSUME NEW other \in wait.queue \ {turn} PROVE TurnIsSo(other)'
    <3>1. TurnIsSo(other) /\ other \in Turns
      BY <1>1 DEF PrintIsSo
    <3>2. other.fresh => Told(other) \notin heard'
      BY <1>2, <1>6, <3>1 DEF TurnIsSo
    <3>3. CASE clock' = clock /\ cases' = cases
      BY <3>1, <3>2, <3>3 DEF TurnIsSo
    <3>4. CASE MovedOn(turn.key)
      BY <1>4, <3>1, <3>2, <3>4, TurnsStay
    <3>. QED
      BY <3>3, <3>4
  <2>2. wait.next \in since .. clock'
    <3>1. wait.next \in since .. clock /\ clock \in Nat /\ since \in Nat
      BY <1>1 DEF PrintIsSo, WaitInv, WaitTyped
    <3>. QED
      BY <1>9, <3>1
  <2>. QED
    BY <1>1, <1>3, <2>1, <2>2 DEF PrintIsSo, OneEach
<1>12. HeardIsSo'
  <2>. SUFFICES ASSUME NEW told \in heard \cup {Told(turn)}
                PROVE  /\ told.revision <= cases'[told.key].revision
                       /\ told.key \in Messages => Gone(cases'[told.key])
                       /\ told.revision = cases'[told.key].revision =>
                            cases'[told.key].at <= wait.next
    BY <1>2, <1>3 DEF HeardIsSo, ToldUpTo
  <2>1. /\ told.key \in Keys /\ told.revision \in Nat
        /\ told.revision <= cases[told.key].revision
        /\ told.key \in Messages => Gone(cases[told.key])
        /\ told.revision = cases[told.key].revision => cases[told.key].at <= wait.next
    <3>1. CASE told \in heard
      BY <1>7, <3>1 DEF WaitInv, HeardIsSo, ToldUpTo
    <3>2. CASE told = Told(turn)
      BY <1>4, <1>5, <3>2 DEF TurnIsSo
    <3>. QED
      BY <3>1, <3>2
  <2>2. CASE cases'[told.key] = cases[told.key]
    BY <2>1, <2>2
  <2>3. CASE told.key = turn.key /\ MovedOn(turn.key)
    BY <1>8, <2>1, <2>3 DEF MovedOn
  <2>. QED
    BY <1>9, <2>1, <2>2, <2>3
<1>13. ~lapses' => Unpassed'
  <2>. SUFFICES ASSUME ~lapses, NEW k \in Keys, Owed(k)', ~Heard(k)'
                PROVE  \/ cases'[k].at > wait.next
                       \/ \E other \in wait.queue \ {turn} :
                            other.key = k /\ other.revision = cases'[k].revision
    BY <1>3 DEF Unpassed
  <2>1. cases'[k] = cases[k]
    BY <1>9 DEF Owed, AgentTurn
  <2>2. Owed(k) /\ ~Heard(k) /\ [key |-> k, revision |-> cases[k].revision] # Told(turn)
    BY <1>2, <2>1 DEF Owed, Heard
  <2>3. \/ cases[k].at > wait.next
        \/ \E other \in wait.queue : other.key = k /\ other.revision = cases[k].revision
    BY <2>2 DEF WaitInv, Unpassed
  <2>. QED
    BY <2>1, <2>2, <2>3 DEF Told
<1>14. PickedUpIsGiven'
  <2>. SUFFICES ASSUME NEW k \in Keys, cases'[k].ours, cases'[k].event = "pickup"
                PROVE  \/ \E told \in heard \cup {Told(turn)} :
                            told.key = k /\ told.revision = cases'[k].revision - 1
                       \/ \E other \in wait.queue \ {turn} :
                            other.key = k /\ other.revision = cases'[k].revision - 1
                       \/ \E sent \in unsure :
                            sent.key = k /\ sent.revision = cases'[k].revision - 1
    BY <1>2, <1>3 DEF PickedUpIsGiven
  <2>1. CASE cases'[k] = cases[k]
    <3>1. \/ \E told \in heard : told.key = k /\ told.revision = cases[k].revision - 1
          \/ \E other \in wait.queue : other.key = k /\ other.revision = cases[k].revision - 1
          \/ \E sent \in unsure : sent.key = k /\ sent.revision = cases[k].revision - 1
      BY <2>1 DEF WaitInv, PickedUpIsGiven
    <3>. QED
      BY <1>5, <2>1, <3>1
  <2>2. CASE cases'[k] # cases[k]
    <3>1. k = turn.key /\ MovedOn(turn.key) /\ cases[k].revision = turn.revision
      BY <1>9, <2>2
    <3>2. cases'[k].revision - 1 = turn.revision
      BY <1>8, <3>1 DEF MovedOn
    <3>. QED
      BY <1>5, <3>1, <3>2
  <2>. QED
    BY <2>1, <2>2
<1>. QED
  BY <1>3, <1>9, <1>10, <1>11, <1>12, <1>13, <1>14 DEF WaitInv

LEMMA Prints == WaitInv /\ (PrintPicked \/ PrintAsRead \/ PrintUnsure) => WaitInv'
<1>. SUFFICES ASSUME WaitInv, PrintPicked \/ PrintAsRead \/ PrintUnsure PROVE WaitInv'
  OBVIOUS
<1>1. CASE PrintAsRead
  BY <1>1, LinesOut DEF PrintAsRead
<1>2. CASE PrintPicked
  <2>1. PICK turn \in wait.queue : PickUp(turn) /\ Line(turn)
    BY <1>2 DEF PrintPicked
  <2>2. wait.phase = "print" /\ since' = since /\ unsure' = unsure
    BY <1>2 DEF PrintPicked
  <2>3. turn.key \in Keys
    BY <2>1, <2>2, Phases DEF WaitInv, Printings, Turns
  <2>. DEFINE k == turn.key
              m == Move(cases[k].state, "agent", "pickup", "pickedup")
  <2>4. WriteMove(k, m, TRUE) /\ m.event = "pickup" /\ m.author = "agent"
        /\ cases[k].revision = turn.revision
    BY <2>1 DEF PickUp, OurPickup, Move
  <2>5. TRUE \in BOOLEAN
    OBVIOUS
  <2>. HIDE DEF m
  <2>6. MovedOn(k) /\ cases'[k].event = "pickup" /\ cases'[k].author = "agent"
    BY <2>3, <2>4, <2>5, WriteMoves
  <2>7. lapses' = lapses
    BY <2>6 DEF MovedOn
  <2>. QED
    BY <2>1, <2>2, <2>4, <2>6, <2>7, LinesOut
<1>3. CASE PrintUnsure
  <2>1. PICK turn \in wait.queue : Line(turn) /\ unsure' = unsure \cup {Told(turn)}
    BY <1>3 DEF PrintUnsure
  <2>2. wait.phase = "print" /\ UNCHANGED <<lapses, clock, cases, since>>
    BY <1>3 DEF PrintUnsure
  <2>3. Told(turn) \in Tellings
    BY <2>1, <2>2, Phases DEF WaitInv, Printings, Turns, Told, Tellings
  <2>. QED
    BY <2>1, <2>2, <2>3, LinesOut
<1>. QED
  BY <1>1, <1>2, <1>3

LEMMA Ends == WaitInv /\ EndPrint => WaitInv'
<1>. SUFFICES ASSUME WaitInv, EndPrint PROVE WaitInv'
  OBVIOUS
<1>1. /\ wait.phase = "print" /\ wait.queue = {} /\ since' = wait.next /\ wait' = Idle
      /\ lapses' = lapses /\ clock' = clock /\ cases' = cases /\ heard' = heard
      /\ unsure' = unsure /\ wait' \notin Running /\ wait' \notin Printings /\ wait'.phase = "idle"
  BY DEF EndPrint, Running, Printings, Idle
<1>2. PrintIsSo /\ clock \in Nat /\ since \in Nat
  BY <1>1, Phases DEF WaitInv, WaitTyped
<1>3. WaitTyped'
  BY <1>1, <1>2 DEF WaitInv, WaitTyped, PrintIsSo
<1>4. HeardIsSo'
  BY <1>1 DEF WaitInv, HeardIsSo, ToldUpTo
<1>5. ~lapses' => Unpassed'
  BY <1>1 DEF WaitInv, Unpassed, Owed, Heard
<1>6. PickedUpIsGiven'
  BY <1>1 DEF WaitInv, PickedUpIsGiven
<1>7. \A k \in Keys : CaseIsSo(k)'
  BY <1>1 DEF WaitInv, CaseIsSo
<1>. QED
  BY <1>1, <1>3, <1>4, <1>5, <1>6, <1>7 DEF WaitInv

-----------------------------------------------------------------------------
(* What holds *)

LEMMA WaitInitially == WaitInit => WaitInv
<1>. SUFFICES ASSUME WaitInit PROVE WaitInv
  OBVIOUS
<1>1. /\ lapses \in BOOLEAN /\ clock = 0 /\ since = 0 /\ wait = Idle /\ unsure = {} /\ heard = {}
      /\ cases = [k \in Keys |->
           [state |-> IF k \in Asks THEN "open" ELSE "unsent", event |-> "open",
            author |-> IF k \in Asks THEN "agent" ELSE "human", from |-> "none",
            revision |-> IF k \in Asks THEN 1 ELSE 0, at |-> 0, ours |-> FALSE]]
  BY BoundAssumption DEF WaitInit
<1>2. wait \notin Running /\ wait \notin Printings
  BY <1>1 DEF Running, Printings, Idle
<1>3. WaitTyped
  <2>1. cases \in [Keys -> CaseRecs]
    BY <1>1 DEF CaseRecs, Words
  <2>2. since \in 0 .. clock /\ heard \subseteq Tellings /\ unsure \subseteq Tellings
    BY <1>1
  <2>. QED
    BY <1>1, <2>1, <2>2 DEF WaitTyped
<1>4. \A k \in Keys : CaseIsSo(k) /\ ~Owed(k) /\ cases[k].event # "pickup"
  BY <1>1 DEF CaseIsSo, Owed, AgentTurn
<1>. QED
  BY <1>1, <1>2, <1>3, <1>4 DEF WaitInv, HeardIsSo, Unpassed, PickedUpIsGiven

(***************************************************************************)
(* What a wait has seen, taken and collected, and what its agent was told, *)
(* is of the cases as they stood (wait.rs, `Waiting` and its loop).        *)
(***************************************************************************)
THEOREM WaitsAreSo == WaitSpec => []WaitInv
<1>1. WaitInv /\ [WaitNext]_waitVars => WaitInv'
  <2>. SUFFICES ASSUME WaitInv, [WaitNext]_waitVars PROVE WaitInv'
    OBVIOUS
  <2>1. CASE GoesOn
    BY <2>1, Reads, Gives, Rests, Stops, Prints, Ends, Takes, TakesNot, TakesUnsure DEF GoesOn
  <2>2. CASE \/ OthersMove \/ StartWait \/ CapComes \/ TimesOut \/ ReadFails \/ Lapse
             \/ \E k \in Keys : StoredUnsure(k)
    BY <2>2, OthersMoveOn, StoredLate, Starts, CapSo, TimesOutSo, FailsSo, Lapses
  <2>3. CASE UNCHANGED waitVars
    <3>1. UNCHANGED <<lapses, clock, cases, since, unsure, heard, wait>>
      BY <2>3 DEF waitVars
    <3>2. CASE wait \in Running
      <4>1. RunIsSo'
        BY <3>1, <3>2 DEF WaitInv, RunIsSo, SeenIsSo, Later, TurnIsSo, OneEach, CollectedIsSo,
             AskTurns, Withdrawn, Turn, Fresh, AgentTurn
      <4>2. wait # Idle
        BY <3>2 DEF Running, Idle
      <4>. QED
        BY <3>1, <3>2, <4>1, <4>2, RunsOn DEF WaitInv
    <3>3. CASE wait \notin Running
      <4>1. wait \in Printings => PrintIsSo'
        BY <3>1 DEF WaitInv, PrintIsSo, TurnIsSo, OneEach
      <4>2. WaitTyped' /\ HeardIsSo' /\ PickedUpIsGiven' /\ (~lapses' => Unpassed')
            /\ \A k \in Keys : CaseIsSo(k)'
        BY <3>1 DEF WaitInv, WaitTyped, HeardIsSo, ToldUpTo, PickedUpIsGiven, Unpassed, Owed,
             Heard, AgentTurn, CaseIsSo
      <4>. QED
        BY <3>1, <3>3, <4>1, <4>2 DEF WaitInv
    <3>. QED
      BY <3>2, <3>3
  <2>. QED
    BY <2>1, <2>2, <2>3 DEF WaitNext
<1>. QED
  BY <1>1, WaitInitially, PTL DEF WaitSpec

(***************************************************************************)
(* Of any number of cases, written to by whomever, no wait whose locks     *)
(* cannot lapse passes a turn by.                                          *)
(***************************************************************************)
THEOREM NothingIsLost == WaitSpec => []NothingLost
<1>1. WaitInv => NothingLost
  <2>. SUFFICES ASSUME WaitInv, ~lapses, NEW k \in Keys, Owed(k), ~Heard(k)
                PROVE  \/ wait.phase = "idle" /\ cases[k].at > since
                       \/ /\ wait.phase \in {"read", "find"}
                          /\ \/ cases[k].at > wait.since
                             \/ wait.readOnce /\ cases[k].revision > wait.first[k]
                       \/ /\ wait.phase = "print"
                          /\ \/ cases[k].at > wait.next
                             \/ \E turn \in wait.queue :
                                  turn.key = k /\ turn.revision = cases[k].revision
    BY DEF NothingLost, NonePassed
  <2>1. IF wait.phase = "print"
        THEN \/ cases[k].at > wait.next
             \/ \E turn \in wait.queue : turn.key = k /\ turn.revision = cases[k].revision
        ELSE cases[k].at > since
    BY DEF WaitInv, Unpassed
  <2>2. wait.phase \in {"read", "find"} => wait.since = since
    BY Phases DEF WaitInv, RunIsSo
  <2>3. wait.phase \in {"idle", "read", "find", "print"}
    BY Phases DEF WaitInv, WaitTyped
  <2>. QED
    BY <2>1, <2>2, <2>3
<1>. QED
  BY <1>1, WaitsAreSo, PTL

(* What a wait picked up, its agent is given as it was when picked up. *)
THEOREM PickupsAreGiven == WaitSpec => []PickedUpIsGiven
<1>1. WaitInv => PickedUpIsGiven
  BY DEF WaitInv
<1>. QED
  BY <1>1, WaitsAreSo, PTL

(* A case is on one line of a wait. *)
THEOREM OneLineForEach == WaitSpec => []OneLineEach
<1>1. WaitInv => OneLineEach
  BY Phases DEF WaitInv, PrintIsSo, OneEach, OneLineEach
<1>. QED
  BY <1>1, WaitsAreSo, PTL

(* What one wait printed as new, no later wait prints as new. *)
THEOREM NewToOneWait == WaitSpec => NewOnce
<1>1. WaitInv /\ [WaitNext]_waitVars =>
        [wait.phase = "print" /\ wait'.phase = "print" =>
           \A turn \in wait.queue \ wait'.queue : turn.fresh => Told(turn) \notin heard]_waitVars
  <2>1. WaitInv /\ wait.phase = "print" =>
          \A turn \in wait.queue : turn.fresh => Told(turn) \notin heard
    BY Phases DEF WaitInv, PrintIsSo, TurnIsSo
  <2>. QED
    BY <2>1
<1>. QED
  BY <1>1, WaitsAreSo, PTL DEF WaitSpec, NewOnce

-----------------------------------------------------------------------------
(* The store's versions *)

Versions == [id : Nat, change : Nat, key : Nat, count : Nat, tag : Nat]

(* The value that stands for no version is none.                           *)
NoneIsNoVersion == None \notin Versions

(***************************************************************************)
(* In one history a human puts cases back from the archive or restores a   *)
(* copy of the file, not both: with both, two states may share a version.  *)
(***************************************************************************)
NotBoth == \A e \in HandEdits : "put back" \in e => "restore" \notin e

-----------------------------------------------------------------------------
(* The tables *)

Rows == [key : Nat, at : Nat]
Tables == UNION {[cs -> Rows] : cs \in SUBSET Nat}

Dbs == [id : Nat, change : Nat, key : Nat, cases : SUBSET Nat, events : Tables,
        archive : SUBSET Nat, archived : Tables, removed : Tables, gone : Tables]

(* A table's rows are at changes given, and at times that have been.       *)
TableIsSo(table, change, time) ==
  /\ DOMAIN table \subseteq 1 .. change
  /\ \A c \in DOMAIN table : table[c].at \in 1 .. time

(***************************************************************************)
(* Each change given is held by one row, in the store, the archive or a    *)
(* log, or by an event and its archived copy.                              *)
(***************************************************************************)
HeldOnce(d) ==
  /\ 1 .. d.change \subseteq DOMAIN d.events \cup DOMAIN d.archived
                             \cup DOMAIN d.removed \cup DOMAIN d.gone
  /\ DOMAIN d.removed \cap (DOMAIN d.events \cup DOMAIN d.archived \cup DOMAIN d.gone) = {}
  /\ DOMAIN d.gone \cap (DOMAIN d.events \cup DOMAIN d.archived) = {}
  /\ \A c \in DOMAIN d.events \cap DOMAIN d.archived : d.events[c] = d.archived[c]

(* The tables of one of the stores made, by a time. *)
DbIsSo(d, stores, time) ==
  /\ d \in Dbs
  /\ d.id \in 1 .. stores
  /\ d.cases \subseteq 1 .. d.key /\ d.archive \subseteq 1 .. d.key
  /\ TableIsSo(d.events, d.change, time) /\ TableIsSo(d.archived, d.change, time)
  /\ TableIsSo(d.removed, d.change, time) /\ TableIsSo(d.gone, d.change, time)
  /\ HeldOnce(d)

TablesInv ==
  /\ ids \in Nat /\ storeClock \in Nat \ {0}
  /\ db # None => DbIsSo(db, ids, storeClock)
  /\ copy # None => DbIsSo(copy, ids, storeClock)

(***************************************************************************)
(* What a write or a case put back leaves of what there was: the changes   *)
(* given have their times, removals stay logged, and the rows of a case up *)
(* to then stay, or its removal is logged at the next change.              *)
(***************************************************************************)
SameRows(e, d, key) ==
  /\ key \in e.cases
  /\ \A c \in 1 .. d.change :
       /\ c \in ChangesOf(e.events, key) <=> c \in ChangesOf(d.events, key)
       /\ c \in ChangesOf(d.events, key) => e.events[c] = d.events[c]

Follows(e, d, time) ==
  /\ e.id = d.id /\ e.change \in {d.change, d.change + 1} /\ d.key <= e.key
  /\ \A c \in Nat : c <= d.change => Tag(e, c) = Tag(d, c)
  /\ e.change = d.change + 1 => Tag(e, e.change) = time
  /\ \A c \in DOMAIN d.removed : c \in DOMAIN e.removed /\ e.removed[c] = d.removed[c]
  /\ \A key \in d.cases :
       \/ SameRows(e, d, key)
       \/ /\ e.change = d.change + 1 /\ e.change \in DOMAIN e.removed
          /\ e.removed[e.change].key = key

LEMMA TableOf ==
  ASSUME NEW table \in Tables
  PROVE  DOMAIN table \subseteq Nat /\ \A c \in DOMAIN table : table[c] \in Rows
BY DEF Tables

(* A change given has one row, whose time is its tag. *)
LEMMA TagIs ==
  ASSUME NEW d, NEW stores \in Nat, NEW time \in Nat \ {0}, DbIsSo(d, stores, time)
  PROVE  /\ \A c \in 1 .. d.change : Tag(d, c) \in 1 .. time
         /\ \A c \in Nat \ 1 .. d.change : Tag(d, c) = 0
BY DEF DbIsSo, Dbs, TableIsSo, HeldOnce, Tag

(* A new event, of a case there is or of the next key. *)
WithRow(d, next, known, key, time) ==
  [d EXCEPT !.change = @ + 1, !.key = next, !.cases = known,
            !.events = With(@, d.change + 1, [key |-> key, at |-> time])]

LEMMA RowGiven ==
  ASSUME NEW d, NEW stores \in Nat, NEW time \in Nat \ {0}, DbIsSo(d, stores, time),
         NEW next \in {d.key, d.key + 1}, NEW known \in SUBSET (1 .. next),
         d.cases \subseteq known, NEW key \in Nat,
         NEW e, e = WithRow(d, next, known, key, time)
  PROVE  DbIsSo(e, stores, time) /\ Follows(e, d, time)
<1>. DEFINE row == [key |-> key, at |-> time]
<1>1. /\ d \in Dbs /\ d.change \in Nat /\ d.key \in Nat /\ d.events \in Tables /\ row \in Rows
      /\ d.change + 1 \in Nat /\ next \in Nat /\ d.removed \in Tables
  BY DEF DbIsSo, Dbs, Rows
<1>2. /\ e.id = d.id /\ e.change = d.change + 1 /\ e.key = next /\ e.cases = known
      /\ e.events = With(d.events, d.change + 1, row)
      /\ e.archive = d.archive /\ e.archived = d.archived
      /\ e.removed = d.removed /\ e.gone = d.gone
  BY <1>1 DEF Dbs, WithRow
<1>. HIDE DEF row
<1>3. /\ e.events \in Tables /\ DOMAIN e.events = DOMAIN d.events \cup {d.change + 1}
      /\ e.events[d.change + 1] = row
      /\ \A x \in DOMAIN d.events : x # d.change + 1 => e.events[x] = d.events[x]
  <2>1. DOMAIN d.events \subseteq Nat /\ \A x \in DOMAIN d.events : d.events[x] \in Rows
    BY <1>1, TableOf
  <2>2. e.events \in [DOMAIN d.events \cup {d.change + 1} -> Rows]
    BY <1>1, <1>2, <2>1 DEF With
  <2>3. e.events \in Tables
    BY <1>1, <2>1, <2>2 DEF Tables
  <2>. QED
    BY <1>1, <1>2, <2>1, <2>3 DEF With
<1>4. e \in Dbs
  <2>1. known \in SUBSET Nat
    BY <1>1
  <2>. QED
    BY <1>1, <1>2, <1>3, <2>1 DEF Dbs, WithRow, row
<1>5. /\ DOMAIN d.events \subseteq 1 .. d.change /\ DOMAIN d.archived \subseteq 1 .. d.change
      /\ DOMAIN d.removed \subseteq 1 .. d.change /\ DOMAIN d.gone \subseteq 1 .. d.change
  BY DEF DbIsSo, TableIsSo
<1>6. DbIsSo(e, stores, time)
  <2>1. TableIsSo(e.events, e.change, time)
    BY <1>1, <1>2, <1>3, <1>5 DEF DbIsSo, TableIsSo, row
  <2>2. /\ TableIsSo(e.archived, e.change, time) /\ TableIsSo(e.removed, e.change, time)
        /\ TableIsSo(e.gone, e.change, time)
    BY <1>1, <1>2, <1>5 DEF DbIsSo, TableIsSo
  <2>3. HeldOnce(e)
    BY <1>1, <1>2, <1>3, <1>5 DEF DbIsSo, HeldOnce
  <2>. QED
    <3>1. e.cases \subseteq 1 .. e.key /\ e.archive \subseteq 1 .. e.key
      BY <1>1, <1>2 DEF DbIsSo
    <3>2. e.id \in 1 .. stores
      BY <1>2 DEF DbIsSo
    <3>. QED
      BY <1>4, <2>1, <2>2, <2>3, <3>1, <3>2 DEF DbIsSo
<1>7. \A c \in Nat : c <= d.change => Tag(e, c) = Tag(d, c)
  BY <1>1, <1>2, <1>3, <1>5 DEF Tag
<1>8. Tag(e, e.change) = time
  <2>1. e.change \in DOMAIN e.events /\ e.events[e.change] = row /\ row.at = time
    BY <1>2, <1>3 DEF row
  <2>. QED
    BY <2>1 DEF Tag
<1>9. \A k \in d.cases : SameRows(e, d, k)
  BY <1>1, <1>2, <1>3, <1>5 DEF SameRows, ChangesOf
<1>. QED
  BY <1>1, <1>2, <1>6, <1>7, <1>8, <1>9 DEF Follows

(* A case taken out, once archived or not. *)
LEMMA ArchivedIs ==
  ASSUME NEW d, NEW stores \in Nat, NEW time \in Nat \ {0}, DbIsSo(d, stores, time),
         NEW key \in d.cases, NEW e, e = Archived(d, key)
  PROVE  /\ DbIsSo(e, stores, time)
         /\ e.id = d.id /\ e.change = d.change /\ e.key = d.key /\ e.cases = d.cases
         /\ e.events = d.events /\ e.removed = d.removed
         /\ \A c \in Nat : Tag(e, c) = Tag(d, c)
<1>. DEFINE rows == ChangesOf(d.events, key)
<1>1. /\ d \in Dbs /\ d.change \in Nat /\ d.events \in Tables /\ d.archived \in Tables
      /\ key \in Nat /\ rows \subseteq DOMAIN d.events
  BY DEF DbIsSo, Dbs, ChangesOf
<1>2. /\ e.id = d.id /\ e.change = d.change /\ e.key = d.key /\ e.cases = d.cases
      /\ e.events = d.events /\ e.archive = d.archive \cup {key}
      /\ e.archived = Merged(d.archived, d.events, rows)
      /\ e.removed = d.removed /\ e.gone = d.gone
  BY <1>1 DEF Dbs, Archived
<1>. HIDE DEF rows
<1>3. /\ e.archived \in Tables /\ DOMAIN e.archived = DOMAIN d.archived \cup rows
      /\ \A x \in rows : e.archived[x] = d.events[x]
      /\ \A x \in DOMAIN d.archived \ rows : e.archived[x] = d.archived[x]
  <2>1. /\ DOMAIN d.events \subseteq Nat /\ \A x \in DOMAIN d.events : d.events[x] \in Rows
        /\ DOMAIN d.archived \subseteq Nat /\ \A x \in DOMAIN d.archived : d.archived[x] \in Rows
    BY <1>1, TableOf
  <2>2. e.archived \in [DOMAIN d.archived \cup rows -> Rows]
    BY <1>1, <1>2, <2>1 DEF Merged
  <2>3. e.archived \in Tables
    BY <1>1, <2>1, <2>2 DEF Tables
  <2>. QED
    BY <1>1, <1>2, <2>1, <2>3 DEF Merged
<1>4. e \in Dbs
  <2>1. e = [d EXCEPT !.archive = @ \cup {key}, !.archived = e.archived]
    BY <1>1, <1>2 DEF Archived, rows
  <2>. QED
    BY <1>1, <1>2, <1>3, <2>1 DEF Dbs
<1>5. TableIsSo(e.archived, e.change, time)
  BY <1>1, <1>2, <1>3 DEF DbIsSo, TableIsSo
<1>6. HeldOnce(e)
  BY <1>1, <1>2, <1>3 DEF DbIsSo, HeldOnce
<1>7. \A c \in Nat : Tag(e, c) = Tag(d, c)
  BY <1>1, <1>2, <1>3 DEF DbIsSo, HeldOnce, Tag
<1>. QED
  BY <1>2, <1>4, <1>5, <1>6, <1>7 DEF DbIsSo

LEMMA TakenOutIs ==
  ASSUME NEW d, NEW stores \in Nat, DbIsSo(d, stores, storeClock), storeClock \in Nat \ {0},
         NEW key \in d.cases, NEW e, e = TakenOut(d, key)
  PROVE  DbIsSo(e, stores, storeClock) /\ Follows(e, d, storeClock)
<1>. DEFINE rows == ChangesOf(d.events, key)
            lost == (rows \ DOMAIN d.archived) \ DOMAIN d.gone
            row == [key |-> key, at |-> storeClock]
<1>1. /\ d \in Dbs /\ d.change \in Nat /\ d.change + 1 \in Nat /\ key \in Nat
      /\ d.events \in Tables /\ d.removed \in Tables /\ d.gone \in Tables /\ row \in Rows
      /\ rows \subseteq DOMAIN d.events /\ lost \subseteq DOMAIN d.events
  BY DEF DbIsSo, Dbs, ChangesOf, Rows
<1>2. /\ e.id = d.id /\ e.change = d.change + 1 /\ e.key = d.key /\ e.cases = d.cases \ {key}
      /\ e.events = Without(d.events, rows)
      /\ e.archive = d.archive /\ e.archived = d.archived
      /\ e.removed = With(d.removed, d.change + 1, row)
      /\ e.gone = Merged(d.gone, d.events, lost)
  BY <1>1 DEF Dbs, TakenOut
<1>3. /\ e.events \in Tables /\ DOMAIN e.events = DOMAIN d.events \ rows
      /\ \A x \in DOMAIN d.events \ rows : e.events[x] = d.events[x]
      /\ e.removed \in Tables /\ DOMAIN e.removed = DOMAIN d.removed \cup {d.change + 1}
      /\ e.removed[d.change + 1] = row
      /\ \A x \in DOMAIN d.removed : x # d.change + 1 => e.removed[x] = d.removed[x]
      /\ e.gone \in Tables /\ DOMAIN e.gone = DOMAIN d.gone \cup lost
      /\ \A x \in lost : e.gone[x] = d.events[x]
      /\ \A x \in DOMAIN d.gone \ lost : e.gone[x] = d.gone[x]
  <2>. HIDE DEF rows, lost, row
  <2>1. /\ DOMAIN d.events \subseteq Nat /\ \A x \in DOMAIN d.events : d.events[x] \in Rows
        /\ DOMAIN d.removed \subseteq Nat /\ \A x \in DOMAIN d.removed : d.removed[x] \in Rows
        /\ DOMAIN d.gone \subseteq Nat /\ \A x \in DOMAIN d.gone : d.gone[x] \in Rows
    BY <1>1, TableOf
  <2>2. /\ e.events \in Tables /\ DOMAIN e.events = DOMAIN d.events \ rows
        /\ \A x \in DOMAIN d.events \ rows : e.events[x] = d.events[x]
    <3>1. e.events \in [DOMAIN d.events \ rows -> Rows]
      BY <1>2, <2>1 DEF Without, Restrict
    <3>2. e.events \in Tables
      BY <2>1, <3>1 DEF Tables
    <3>. QED
      BY <1>2, <3>2 DEF Without, Restrict
  <2>3. /\ e.removed \in Tables /\ DOMAIN e.removed = DOMAIN d.removed \cup {d.change + 1}
        /\ e.removed[d.change + 1] = row
        /\ \A x \in DOMAIN d.removed : x # d.change + 1 => e.removed[x] = d.removed[x]
    <3>1. e.removed \in [DOMAIN d.removed \cup {d.change + 1} -> Rows]
      BY <1>1, <1>2, <2>1 DEF With
    <3>2. e.removed \in Tables
      BY <1>1, <2>1, <3>1 DEF Tables
    <3>. QED
      BY <1>1, <1>2, <2>1, <3>2 DEF With
  <2>4. /\ e.gone \in Tables /\ DOMAIN e.gone = DOMAIN d.gone \cup lost
        /\ \A x \in lost : e.gone[x] = d.events[x]
        /\ \A x \in DOMAIN d.gone \ lost : e.gone[x] = d.gone[x]
    <3>1. e.gone \in [DOMAIN d.gone \cup lost -> Rows]
      BY <1>1, <1>2, <2>1 DEF Merged
    <3>2. e.gone \in Tables
      BY <1>1, <2>1, <3>1 DEF Tables
    <3>. QED
      BY <1>1, <1>2, <2>1, <3>2 DEF Merged
  <2>. QED
    BY <2>2, <2>3, <2>4
<1>4. e \in Dbs
  <2>1. e = [d EXCEPT !.change = d.change + 1, !.cases = d.cases \ {key}, !.events = e.events,
                      !.gone = e.gone, !.removed = e.removed]
    BY <1>1, <1>2 DEF TakenOut, Dbs
  <2>2. d.cases \ {key} \in SUBSET Nat
    BY <1>1 DEF Dbs
  <2>. HIDE DEF rows, lost, row
  <2>. QED
    BY <1>1, <1>3, <2>1, <2>2 DEF Dbs
<1>5. /\ DOMAIN d.events \subseteq 1 .. d.change /\ DOMAIN d.archived \subseteq 1 .. d.change
      /\ DOMAIN d.removed \subseteq 1 .. d.change /\ DOMAIN d.gone \subseteq 1 .. d.change
      /\ \A x \in DOMAIN d.events : d.events[x].at \in 1 .. storeClock
      /\ \A x \in DOMAIN d.archived : d.archived[x].at \in 1 .. storeClock
      /\ \A x \in DOMAIN d.removed : d.removed[x].at \in 1 .. storeClock
      /\ \A x \in DOMAIN d.gone : d.gone[x].at \in 1 .. storeClock
  BY DEF DbIsSo, TableIsSo
<1>6. HeldOnce(d) /\ storeClock \in Nat \ {0}
  BY DEF DbIsSo
<1>. /\ row.at = storeClock /\ row.key = key
  OBVIOUS
<1>7. rows = {x \in DOMAIN d.events : d.events[x].key = key}
  BY DEF ChangesOf
<1>8. lost = (rows \ DOMAIN d.archived) \ DOMAIN d.gone
  OBVIOUS
<1>. HIDE DEF rows, lost, row
<1>9. /\ TableIsSo(e.events, e.change, storeClock) /\ TableIsSo(e.archived, e.change, storeClock)
      /\ TableIsSo(e.removed, e.change, storeClock) /\ TableIsSo(e.gone, e.change, storeClock)
  <2>1. TableIsSo(e.events, e.change, storeClock) /\ TableIsSo(e.archived, e.change, storeClock)
    BY <1>1, <1>2, <1>3, <1>5, <1>6 DEF TableIsSo
  <2>2. TableIsSo(e.removed, e.change, storeClock)
    BY <1>1, <1>2, <1>3, <1>5, <1>6 DEF TableIsSo
  <2>3. TableIsSo(e.gone, e.change, storeClock)
    BY <1>1, <1>2, <1>3, <1>5, <1>6 DEF TableIsSo
  <2>. QED
    BY <2>1, <2>2, <2>3
<1>10. HeldOnce(e)
  BY <1>1, <1>2, <1>3, <1>5, <1>6, <1>8 DEF HeldOnce
<1>11. \A c \in Nat : c <= d.change => Tag(e, c) = Tag(d, c)
  <2>. SUFFICES ASSUME NEW c \in Nat, c <= d.change PROVE Tag(e, c) = Tag(d, c)
    OBVIOUS
  <2>1. c \in DOMAIN e.removed <=> c \in DOMAIN d.removed
    BY <1>1, <1>3
  <2>2. c \in DOMAIN d.removed => e.removed[c] = d.removed[c]
    BY <1>1, <1>3
  <2>3. CASE c \in DOMAIN e.events
    BY <1>3, <2>3 DEF Tag
  <2>4. CASE c \notin DOMAIN e.events /\ c \in DOMAIN d.archived
    <3>1. c \in DOMAIN d.events => d.events[c] = d.archived[c]
      BY <1>6, <2>4 DEF HeldOnce
    <3>. QED
      BY <1>2, <2>4, <3>1 DEF Tag
  <2>5. CASE c \in lost
    <3>1. /\ c \in DOMAIN d.events /\ c \notin DOMAIN e.events /\ c \notin DOMAIN e.archived
          /\ c \notin DOMAIN e.removed /\ c \in DOMAIN e.gone /\ e.gone[c] = d.events[c]
      BY <1>1, <1>2, <1>3, <1>6, <1>8, <2>1, <2>5 DEF HeldOnce
    <3>. QED
      BY <3>1 DEF Tag
  <2>6. CASE c \notin DOMAIN d.events /\ c \notin DOMAIN d.archived
    <3>1. c \notin lost /\ c \notin DOMAIN e.events /\ c \notin DOMAIN e.archived
      BY <1>1, <1>2, <1>3, <2>6
    <3>2. /\ c \in DOMAIN e.gone <=> c \in DOMAIN d.gone
          /\ c \in DOMAIN d.gone => e.gone[c] = d.gone[c]
      BY <1>3, <3>1
    <3>. QED
      BY <2>1, <2>2, <2>6, <3>1, <3>2 DEF Tag
  <2>7. c \notin DOMAIN d.gone \/ c \notin DOMAIN d.events
    BY <1>6 DEF HeldOnce
  <2>. QED
    BY <1>3, <1>8, <2>3, <2>4, <2>5, <2>6, <2>7
<1>12. Tag(e, e.change) = storeClock
  BY <1>1, <1>2, <1>3, <1>5 DEF Tag
<1>13. \A k \in d.cases \ {key} : SameRows(e, d, k)
  <2>. SUFFICES ASSUME NEW k \in d.cases, k # key PROVE SameRows(e, d, k)
    OBVIOUS
  <2>. QED
    BY <1>2, <1>3, <1>7 DEF SameRows, ChangesOf
<1>14. \A x \in DOMAIN d.removed : x \in DOMAIN e.removed /\ e.removed[x] = d.removed[x]
  BY <1>1, <1>3, <1>5
<1>15. d.cases \ {key} \subseteq 1 .. d.key /\ d.archive \subseteq 1 .. d.key /\ d.id \in 1 .. stores /\ d.key \in Nat
  BY DEF DbIsSo, Dbs
<1>. QED
  BY <1>1, <1>2, <1>3, <1>4, <1>9, <1>10, <1>11, <1>12, <1>13, <1>14, <1>15 DEF DbIsSo, Follows

(* A case put back from the archive. *)
LEMMA PutBackIs ==
  ASSUME NEW d, NEW stores \in Nat, NEW time \in Nat \ {0}, DbIsSo(d, stores, time),
         NEW key \in d.archive \ d.cases, NEW e \in Dbs,
         e.id = d.id, e.change = d.change, e.key = d.key, e.cases = d.cases \cup {key},
         e.archive \subseteq d.archive, e.removed = d.removed, e.gone = d.gone,
         e.events = Merged(d.events, d.archived, ChangesOf(d.archived, key)),
         \/ e.archived = d.archived
         \/ e.archived = Without(d.archived, ChangesOf(d.archived, key))
  PROVE  DbIsSo(e, stores, time) /\ Follows(e, d, time)
<1>. DEFINE rows == ChangesOf(d.archived, key)
<1>1. /\ d \in Dbs /\ HeldOnce(d) /\ d.change \in Nat
      /\ rows = {x \in DOMAIN d.archived : d.archived[x].key = key}
  BY DEF DbIsSo, Dbs, ChangesOf
<1>2. /\ DOMAIN e.events = DOMAIN d.events \cup rows
      /\ \A x \in rows : e.events[x] = d.archived[x]
      /\ \A x \in DOMAIN d.events \ rows : e.events[x] = d.events[x]
  BY DEF Merged
<1>3. /\ DOMAIN e.archived \subseteq DOMAIN d.archived
      /\ DOMAIN d.archived \subseteq DOMAIN e.archived \cup rows
      /\ \A x \in DOMAIN e.archived : e.archived[x] = d.archived[x]
  BY DEF Without, Restrict
<1>. HIDE DEF rows
<1>4. /\ TableIsSo(e.events, e.change, time) /\ TableIsSo(e.archived, e.change, time)
      /\ TableIsSo(e.removed, e.change, time) /\ TableIsSo(e.gone, e.change, time)
  BY <1>1, <1>2, <1>3 DEF DbIsSo, TableIsSo
<1>5. HeldOnce(e)
  BY <1>1, <1>2, <1>3 DEF HeldOnce
<1>6. DbIsSo(e, stores, time)
  BY <1>4, <1>5 DEF DbIsSo
<1>7. \A c \in Nat : Tag(e, c) = Tag(d, c)
  BY <1>1, <1>2, <1>3 DEF HeldOnce, Tag
<1>8. \A k \in d.cases : SameRows(e, d, k)
  <2>. SUFFICES ASSUME NEW k \in d.cases PROVE SameRows(e, d, k)
    OBVIOUS
  <2>1. k # key /\ k \in e.cases
    OBVIOUS
  <2>2. \A x \in DOMAIN d.events \cap rows : d.events[x].key = key
    BY <1>1 DEF HeldOnce
  <2>3. \A x \in rows : e.events[x].key = key
    BY <1>1, <1>2
  <2>. QED
    BY <1>1, <1>2, <2>1, <2>2, <2>3 DEF SameRows, ChangesOf
<1>. QED
  BY <1>1, <1>6, <1>7, <1>8 DEF Follows, Dbs

(* A store of one made at a time is one of those made by a later time. *)
LEMMA StaysSo ==
  ASSUME NEW d, NEW stores \in Nat, NEW time \in Nat \ {0}, DbIsSo(d, stores, time),
         NEW more \in Nat, stores <= more, NEW later \in Nat, time <= later
  PROVE  DbIsSo(d, more, later)
<1>1. d.id \in 1 .. more
  BY DEF DbIsSo, Dbs
<1>2. \A table : TableIsSo(table, d.change, time) => TableIsSo(table, d.change, later)
  BY DEF TableIsSo
<1>. QED
  BY <1>1, <1>2 DEF DbIsSo

LEMMA NewDbIs ==
  ASSUME NEW stores \in Nat \ {0}, NEW time \in Nat \ {0}
  PROVE  DbIsSo(NewDb(stores), stores, time)
<1>1. EmptyTable \in [{} -> Rows] /\ DOMAIN EmptyTable = {}
  BY DEF EmptyTable
<1>2. EmptyTable \in Tables
  BY <1>1 DEF Tables
<1>. QED
  BY <1>1, <1>2 DEF NewDb, DbIsSo, Dbs, TableIsSo, HeldOnce

-----------------------------------------------------------------------------
(***************************************************************************)
(* The writes of a store there is: one of its rows is new, or a case is    *)
(* taken out.                                                              *)
(***************************************************************************)
Writes ==
  Create \/ \E key \in CaseKeys : AppendRow(key) \/ Archive(key) \/ Delete(key)

LEMMA WriteIs ==
  ASSUME TablesInv, Writes
  PROVE  /\ db # None /\ DbIsSo(db', ids, storeClock) /\ Follows(db', db, storeClock)
         /\ db'.change = db.change + 1
         /\ UNCHANGED <<copy, edits, ids, storeClock, poller>>
<1>. ids \in Nat /\ storeClock \in Nat \ {0} /\ (db # None => DbIsSo(db, ids, storeClock))
  BY DEF TablesInv
<1>1. CASE Create
  <2>. DEFINE known == db.cases \cup {db.key + 1}
  <2>1. db # None /\ UNCHANGED <<copy, edits, ids, storeClock, poller>>
    BY <1>1 DEF Create
  <2>2. db \in Dbs /\ db.key \in Nat /\ db.cases \subseteq 1 .. db.key /\ db.change \in Nat
    BY <2>1 DEF DbIsSo, Dbs
  <2>3. db' = WithRow(db, db.key + 1, known, db.key + 1, storeClock)
    BY <1>1 DEF Create, WithRow
  <2>4. known \in SUBSET (1 .. db.key + 1) /\ db.cases \subseteq known
    BY <2>2
  <2>5. db'.change = db.change + 1
    BY <2>2, <2>3 DEF WithRow, Dbs
  <2>. HIDE DEF known
  <2>6. DbIsSo(db', ids, storeClock) /\ Follows(db', db, storeClock)
    <3>1. DbIsSo(db, ids, storeClock) /\ db.key + 1 \in {db.key, db.key + 1} /\ db.key + 1 \in Nat
      BY <2>1, <2>2
    <3>. QED
      BY <2>3, <2>4, <3>1, RowGiven, Zenon
  <2>. QED
    BY <2>1, <2>5, <2>6
<1>2. CASE \E key \in CaseKeys : AppendRow(key)
  <2>. PICK key \in CaseKeys : AppendRow(key)
    BY <1>2
  <2>1. db # None /\ key \in db.cases /\ UNCHANGED <<copy, edits, ids, storeClock, poller>>
    BY DEF AppendRow
  <2>2. /\ db \in Dbs /\ db.key \in Nat /\ db.cases \subseteq 1 .. db.key
        /\ db.change \in Nat /\ key \in Nat
    BY <2>1 DEF DbIsSo, Dbs
  <2>3. db' = WithRow(db, db.key, db.cases, key, storeClock)
    BY <2>2 DEF AppendRow, WithRow, Dbs
  <2>4. db'.change = db.change + 1
    BY <2>2, <2>3 DEF WithRow, Dbs
  <2>5. DbIsSo(db', ids, storeClock) /\ Follows(db', db, storeClock)
    BY <2>1, <2>2, <2>3, RowGiven
  <2>. QED
    BY <2>1, <2>4, <2>5
<1>3. CASE \E key \in CaseKeys : Archive(key)
  <2>. PICK key \in CaseKeys : Archive(key)
    BY <1>3
  <2>. DEFINE kept == Archived(db, key)
  <2>1. /\ db # None /\ key \in db.cases /\ UNCHANGED <<copy, edits, ids, storeClock, poller>>
        /\ db' = TakenOut(kept, key)
    BY DEF Archive
  <2>2. /\ DbIsSo(kept, ids, storeClock)
        /\ kept.id = db.id /\ kept.change = db.change /\ kept.key = db.key
        /\ kept.cases = db.cases /\ kept.events = db.events /\ kept.removed = db.removed
        /\ \A c \in Nat : Tag(kept, c) = Tag(db, c)
    BY <2>1, ArchivedIs
  <2>. HIDE DEF kept
  <2>3. DbIsSo(db', ids, storeClock) /\ Follows(db', kept, storeClock)
    BY <2>1, <2>2, TakenOutIs
  <2>4. Follows(db', db, storeClock)
    BY <2>2, <2>3 DEF Follows, SameRows
  <2>5. db'.change = db.change + 1
    BY <2>1, <2>2 DEF TakenOut, DbIsSo, Dbs
  <2>. QED
    BY <2>1, <2>3, <2>4, <2>5
<1>4. CASE \E key \in CaseKeys : Delete(key)
  <2>. PICK key \in CaseKeys : Delete(key)
    BY <1>4
  <2>1. /\ db # None /\ key \in db.cases /\ UNCHANGED <<copy, edits, ids, storeClock, poller>>
        /\ db' = TakenOut(db, key)
    BY DEF Delete
  <2>2. DbIsSo(db', ids, storeClock) /\ Follows(db', db, storeClock)
    BY <2>1, TakenOutIs
  <2>3. db'.change = db.change + 1
    BY <2>1 DEF TakenOut, DbIsSo, Dbs
  <2>. QED
    BY <2>1, <2>2, <2>3
<1>. QED
  BY <1>1, <1>2, <1>3, <1>4 DEF Writes

LEMMA HandIs ==
  ASSUME TablesInv, NEW key \in CaseKeys, NEW kept \in BOOLEAN, PutBack(key, kept)
  PROVE  /\ db # None /\ DbIsSo(db', ids, storeClock) /\ Follows(db', db, storeClock)
         /\ "put back" \in edits /\ UNCHANGED <<copy, edits, ids, storeClock, poller>>
<1>. DEFINE rows == ChangesOf(db.archived, key)
<1>1. /\ db # None /\ key \in db.archive \ db.cases /\ "put back" \in edits
      /\ UNCHANGED <<copy, edits, ids, storeClock, poller>>
      /\ db' = [db EXCEPT !.cases = db.cases \cup {key},
                          !.events = Merged(db.events, db.archived, rows),
                          !.archive = IF kept THEN db.archive ELSE db.archive \ {key},
                          !.archived = IF kept THEN db.archived ELSE Without(db.archived, rows)]
  BY DEF PutBack
<1>2. DbIsSo(db, ids, storeClock) /\ ids \in Nat /\ storeClock \in Nat \ {0}
  BY <1>1 DEF TablesInv
<1>3. db \in Dbs /\ db.events \in Tables /\ db.archived \in Tables /\ rows \subseteq DOMAIN db.archived
  BY <1>2 DEF DbIsSo, Dbs, ChangesOf
<1>. HIDE DEF rows
<1>4. /\ db'.id = db.id /\ db'.change = db.change /\ db'.key = db.key
      /\ db'.cases = db.cases \cup {key} /\ db'.archive \subseteq db.archive
      /\ db'.removed = db.removed /\ db'.gone = db.gone
      /\ db'.events = Merged(db.events, db.archived, rows)
      /\ db'.archived = db.archived \/ db'.archived = Without(db.archived, rows)
  BY <1>1, <1>3 DEF Dbs
<1>5. db'.events \in Tables /\ db'.archived \in Tables
  <2>1. /\ DOMAIN db.events \subseteq Nat /\ \A x \in DOMAIN db.events : db.events[x] \in Rows
        /\ DOMAIN db.archived \subseteq Nat
        /\ \A x \in DOMAIN db.archived : db.archived[x] \in Rows
    BY <1>3, TableOf
  <2>2. /\ Merged(db.events, db.archived, rows) \in [DOMAIN db.events \cup rows -> Rows]
        /\ Without(db.archived, rows) \in [DOMAIN db.archived \ rows -> Rows]
    BY <1>3, <2>1 DEF Merged, Without, Restrict
  <2>3. Merged(db.events, db.archived, rows) \in Tables /\ Without(db.archived, rows) \in Tables
    BY <1>3, <2>1, <2>2 DEF Tables
  <2>. QED
    BY <1>3, <1>4, <2>3, Zenon
<1>6. db' \in Dbs
  <2>1. db' = [db EXCEPT !.cases = db'.cases, !.events = db'.events,
                         !.archive = db'.archive, !.archived = db'.archived]
    BY <1>1, <1>3 DEF Dbs
  <2>2. db'.cases \in SUBSET Nat /\ db'.archive \in SUBSET Nat
    BY <1>1, <1>2, <1>4 DEF DbIsSo, Dbs
  <2>. QED
    BY <1>3, <1>5, <2>1, <2>2 DEF Dbs
<1>7. DbIsSo(db', ids, storeClock) /\ Follows(db', db, storeClock)
  BY <1>1, <1>2, <1>4, <1>6, PutBackIs, ZenonT(30) DEF rows
<1>. QED
  BY <1>1, <1>7

LEMMA TablesStaySo ==
  ASSUME TablesInv, [StoreNext]_storeVars
  PROVE  TablesInv'
<1>. ids \in Nat /\ storeClock \in Nat \ {0}
  BY DEF TablesInv
<1>1. CASE Writes
  BY <1>1, WriteIs DEF TablesInv
<1>2. CASE \E key \in CaseKeys, kept \in BOOLEAN : PutBack(key, kept)
  BY <1>2, HandIs DEF TablesInv
<1>3. CASE MakeStore
  <2>1. ids' = ids + 1 /\ db' = NewDb(ids + 1) /\ copy' = copy /\ storeClock' = storeClock
    BY <1>3 DEF MakeStore
  <2>2. DbIsSo(NewDb(ids + 1), ids + 1, storeClock)
    BY NewDbIs
  <2>3. copy # None => DbIsSo(copy, ids + 1, storeClock)
    BY StaysSo DEF TablesInv
  <2>. QED
    BY <2>1, <2>2, <2>3 DEF TablesInv
<1>4. CASE KeepCopy \/ LoseStore
  BY <1>4 DEF KeepCopy, LoseStore, TablesInv
<1>5. CASE Restore \/ Tick
  <2>1. /\ ids' = ids /\ storeClock' = storeClock + 1 /\ copy' = copy
        /\ db' = db \/ (copy # None /\ db' = copy)
    BY <1>5 DEF Restore, Tick
  <2>2. ASSUME NEW d, DbIsSo(d, ids, storeClock) PROVE DbIsSo(d, ids, storeClock + 1)
    BY <2>2, StaysSo
  <2>3. copy # None => DbIsSo(copy, ids, storeClock + 1)
    BY <2>2 DEF TablesInv
  <2>4. db # None => DbIsSo(db, ids, storeClock + 1)
    BY <2>2 DEF TablesInv
  <2>. QED
    BY <2>1, <2>3, <2>4 DEF TablesInv
<1>6. CASE Poll \/ PollFails \/ UNCHANGED storeVars
  BY <1>6 DEF Poll, PollFails, storeVars, TablesInv
<1>. QED
  BY <1>1, <1>2, <1>3, <1>4, <1>5, <1>6 DEF StoreNext, Writes

(***************************************************************************)
(* The tables of the store, and of a copy of its file, hold each change    *)
(* given once: what the triggers and the counters keep (schema.sql).       *)
(***************************************************************************)
THEOREM TablesAreSo == StoreSpec => []TablesInv
<1>1. StoreInit => TablesInv
  BY DEF StoreInit, TablesInv
<1>. QED
  BY <1>1, TablesStaySo, PTL DEF StoreSpec

(***************************************************************************)
(* Whatever is written, archived, deleted, put back or restored, a change  *)
(* given is found again, in one place.                                     *)
(***************************************************************************)
THEOREM ChangesAreFound == StoreSpec => []EveryChangeIsFound
<1>1. TablesInv => EveryChangeIsFound
  <2>. SUFFICES ASSUME TablesInv, db # None PROVE EveryChangeIsFound
    BY DEF EveryChangeIsFound
  <2>1. DbIsSo(db, ids, storeClock) /\ ids \in Nat /\ storeClock \in Nat \ {0}
    BY DEF TablesInv
  <2>2. \A c \in 1 .. db.change : Tag(db, c) \in 1 .. storeClock
    BY <2>1, TagIs
  <2>3. HeldOnce(db)
    BY <2>1 DEF DbIsSo
  <2>. QED
    BY <2>2, <2>3 DEF EveryChangeIsFound, HeldOnce
<1>. QED
  BY <1>1, TablesAreSo, PTL

-----------------------------------------------------------------------------
(***************************************************************************)
(* The poller.  The store of the id of its version has either grown from   *)
(* what it was then, or was put back, and then has another row at the      *)
(* change of the version, stamped later, or has not yet given the change.  *)
(***************************************************************************)
RowsTo(d, key, change) ==
  {<<c, d.events[c].at>> : c \in {c \in ChangesOf(d.events, key) : c <= change}}

(* The cases of the version are removed since, or have their rows of then. *)
Grown(d, v, known) ==
  /\ v.change <= d.change /\ v.key <= d.key
  /\ \A key \in DOMAIN known :
       \/ key \in RemovedAfter(d, v.change)
       \/ key \in d.cases /\ known[key] = RowsTo(d, key, v.change)

Apart(d, v) == d.change < v.change \/ Tag(d, v.change) > v.tag

(* A version counts the cases that are given with it. *)
VersionIsSo(v, known, stores, time) ==
  /\ v \in Versions /\ v.id <= stores /\ v.tag <= time
  /\ known = [key \in DOMAIN known |-> known[key]]
  /\ DOMAIN known \subseteq 1 .. v.key /\ v.count = Cardinality(DOMAIN known)

PollerIsSo ==
  LET v == poller.version IN
  /\ v = None => poller.cases = [key \in {} |-> {}]
  /\ v # None =>
       /\ VersionIsSo(v, poller.cases, ids, storeClock)
       /\ db # None /\ db.id = v.id =>
            \/ Grown(db, v, poller.cases)
            \/ "restore" \in edits /\ v.tag < storeClock /\ Apart(db, v)
       /\ copy # None /\ copy.id = v.id => Grown(copy, v, poller.cases) \/ Apart(copy, v)

(* A copy is of the store as it was, unless the store was removed since.   *)
CopyIsSo ==
  copy # None =>
    /\ "restore" \in edits
    /\ db # None /\ db.id = copy.id => copy = db \/ copy.change < db.change

PollerInv ==
  /\ TablesInv /\ ("put back" \in edits => "restore" \notin edits)
  /\ CopyIsSo /\ PollerIsSo

-----------------------------------------------------------------------------
(* What a version tells *)

(* The version of a store is of the cases it has.                          *)
LEMMA VersionIs ==
  ASSUME NEW d, NEW stores \in Nat, NEW time \in Nat \ {0}, DbIsSo(d, stores, time), d # None
  PROVE  /\ VersionIsSo(VersionOf(d), CasesOf(d), stores, time)
         /\ Grown(d, VersionOf(d), CasesOf(d))
         /\ VersionOf(d).id = d.id /\ VersionOf(d).change = d.change
<1>. DEFINE v == VersionOf(d)
<1>1. /\ d \in Dbs /\ d.id \in Nat /\ d.id <= stores /\ d.change \in Nat /\ d.key \in Nat
      /\ d.cases \subseteq 1 .. d.key
  BY DEF DbIsSo, Dbs
<1>2. Cardinality(d.cases) \in Nat
  <2>1. IsFiniteSet(1 .. d.key)
    BY <1>1, FS_Interval
  <2>2. IsFiniteSet(d.cases)
    BY <1>1, <2>1, FS_Subset
  <2>. QED
    BY <2>2, FS_CardinalityType
<1>3. Tag(d, d.change) \in 0 .. time
  BY <1>1, TagIs
<1>4. /\ v \in Versions /\ v.id = d.id /\ v.change = d.change /\ v.key = d.key
      /\ v.count = Cardinality(d.cases) /\ v.tag = Tag(d, d.change)
  BY <1>1, <1>2, <1>3 DEF VersionOf, Versions
<1>. HIDE DEF v
<1>5. /\ DOMAIN CasesOf(d) = d.cases
      /\ CasesOf(d) = [key \in d.cases |-> CasesOf(d)[key]]
      /\ \A key \in d.cases : CasesOf(d)[key] = RowsOf(d, key)
  BY DEF CasesOf
<1>6. VersionIsSo(v, CasesOf(d), stores, time)
  BY <1>1, <1>3, <1>4, <1>5 DEF VersionIsSo
<1>7. \A key \in d.cases : RowsOf(d, key) = RowsTo(d, key, d.change)
  <2>1. \A key : ChangesOf(d.events, key) = {c \in ChangesOf(d.events, key) : c <= d.change}
    BY <1>1 DEF DbIsSo, TableIsSo, ChangesOf
  <2>. QED
    BY <2>1 DEF RowsOf, RowsTo
<1>8. Grown(d, v, CasesOf(d))
  BY <1>1, <1>4, <1>5, <1>7 DEF Grown
<1>. QED
  BY <1>4, <1>6, <1>8 DEF v

(* A store that has grown, at the same version: nothing was removed since, *)
(* and there are as many cases.                                            *)
LEMMA SameVersion ==
  ASSUME NEW d, NEW stores \in Nat, NEW time \in Nat \ {0}, DbIsSo(d, stores, time), d # None,
         NEW v, NEW known, VersionIsSo(v, known, stores, time), Grown(d, v, known),
         v = VersionOf(d)
  PROVE  known = CasesOf(d)
<1>1. /\ d.change \in Nat /\ d.key \in Nat /\ d.cases \subseteq 1 .. d.key
      /\ DOMAIN d.removed \subseteq 1 .. d.change /\ DOMAIN d.events \subseteq 1 .. d.change
  BY DEF DbIsSo, Dbs, TableIsSo
<1>2. v.change = d.change /\ v.count = Cardinality(d.cases)
  BY DEF VersionOf
<1>3. RemovedAfter(d, v.change) = {}
  BY <1>1, <1>2 DEF RemovedAfter
<1>4. DOMAIN known \subseteq d.cases
  BY <1>3 DEF Grown
<1>5. DOMAIN known = d.cases
  <2>0. 1 \in Int /\ d.key \in Int
    BY <1>1
  <2>1. IsFiniteSet(1 .. d.key)
    BY <2>0, FS_Interval
  <2>2. IsFiniteSet(d.cases)
    BY <1>1, <2>1, FS_Subset
  <2>3. Cardinality(DOMAIN known) = Cardinality(d.cases)
    BY <1>2 DEF VersionIsSo
  <2>. QED
    BY <1>4, <2>2, <2>3, FS_Subset
<1>6. ASSUME NEW key \in d.cases PROVE known[key] = RowsOf(d, key)
  <2>1. known[key] = RowsTo(d, key, d.change)
    BY <1>2, <1>3, <1>5 DEF Grown
  <2>2. ChangesOf(d.events, key) = {c \in ChangesOf(d.events, key) : c <= d.change}
    BY <1>1 DEF ChangesOf
  <2>. QED
    BY <2>1, <2>2 DEF RowsOf, RowsTo
<1>. QED
  BY <1>5, <1>6 DEF CasesOf, VersionIsSo

(* A store put back is told: it is not at the version, and its tag at the  *)
(* change of the version, if it has given it, is another.                  *)
LEMMA ApartIsTold ==
  ASSUME NEW d, NEW stores \in Nat, NEW time \in Nat \ {0}, DbIsSo(d, stores, time), d # None,
         NEW v \in Versions, Apart(d, v)
  PROVE  v # VersionOf(d) /\ ~(Reached(v, d) /\ Whole(d, v))
<1>1. d.change \in Nat /\ v.change \in Nat /\ v.tag \in Nat
  BY DEF DbIsSo, Dbs, Versions
<1>2. Tag(d, v.change) \in Nat
  BY <1>1, TagIs
<1>3. v # VersionOf(d)
  BY <1>1, <1>2 DEF Apart, VersionOf
<1>4. ASSUME Reached(v, d), Whole(d, v) PROVE FALSE
  <2>1. v.change <= d.change
    BY <1>4 DEF Reached
  <2>2. Tag(d, v.change) = v.tag
    BY <1>4 DEF Whole
  <2>. QED
    BY <1>1, <1>2, <2>1, <2>2 DEF Apart
<1>. QED
  BY <1>3, <1>4

(***************************************************************************)
(* A store that has grown, whose rows and removals since are all that      *)
(* changed.  Each case of the version is still there or removed since, so  *)
(* when the two counts add up to that of the version, none is both, and    *)
(* none else of the keys of then is there.                                 *)
(***************************************************************************)
LEMMA WholeIsAll ==
  ASSUME NEW d, NEW stores \in Nat, NEW time \in Nat \ {0}, DbIsSo(d, stores, time),
         NEW v, NEW known, VersionIsSo(v, known, stores, time), Grown(d, v, known),
         v # VersionOf(d), Reached(v, d), Whole(d, v)
  PROVE  Polled(d, v, known) = CasesOf(d)
<1>. DEFINE removed == RemovedAfter(d, v.change)
            changed == ChangedAfter(d, v.change)
            Old(keys) == {k \in keys : k <= v.key}
            New(keys) == {k \in keys : k > v.key}
<1>1. /\ d.change \in Nat /\ d.key \in Nat /\ d.cases \subseteq 1 .. d.key
      /\ v.key \in Nat /\ v.change \in Nat /\ DOMAIN known \subseteq 1 .. v.key
      /\ v.count = Cardinality(DOMAIN known)
      /\ DOMAIN d.events \subseteq Nat /\ DOMAIN d.removed \subseteq Nat
      /\ \A x \in DOMAIN d.removed : d.removed[x].key \in Nat
  BY DEF DbIsSo, Dbs, VersionIsSo, Versions, Tables, Rows, TableIsSo
<1>2. /\ Cardinality(Old(d.cases)) + Cardinality(Old(removed)) = Cardinality(DOMAIN known)
      /\ Cardinality(New(d.cases)) = Cardinality(New(changed))
      /\ changed \cap removed = {}
  BY <1>1 DEF Whole
<1>3. changed \subseteq d.cases /\ removed \subseteq Nat
  BY <1>1 DEF ChangedAfter, RemovedAfter
<1>4. \A key \in DOMAIN known :
        key \in removed \/ (key \in d.cases /\ known[key] = RowsTo(d, key, v.change))
  BY DEF Grown
<1>5. ASSUME NEW key \in d.cases \ changed PROVE RowsTo(d, key, v.change) = RowsOf(d, key)
  <2>1. \A c \in ChangesOf(d.events, key) : c <= v.change
    BY <1>1, <1>5 DEF ChangedAfter, ChangesOf
  <2>2. ChangesOf(d.events, key) = {c \in ChangesOf(d.events, key) : c <= v.change}
    BY <2>1
  <2>. QED
    BY <2>2 DEF RowsOf, RowsTo
<1>. HIDE DEF removed, changed
<1>6. /\ IsFiniteSet(Old(d.cases)) /\ IsFiniteSet(New(d.cases)) /\ IsFiniteSet(Old(removed))
      /\ IsFiniteSet(1 .. v.key)
  <2>1. IsFiniteSet(1 .. d.key) /\ IsFiniteSet(0 .. v.key) /\ IsFiniteSet(1 .. v.key)
    <3>1. d.key \in Int /\ v.key \in Int /\ 0 \in Int /\ 1 \in Int
      BY <1>1
    <3>. QED
      BY <3>1, FS_Interval, Zenon
  <2>2. Old(d.cases) \in SUBSET (1 .. d.key) /\ New(d.cases) \in SUBSET (1 .. d.key)
    BY <1>1
  <2>3. Old(removed) \in SUBSET (0 .. v.key)
    <3>1. \A k \in removed : k \in Nat /\ (k <= v.key => k \in 0 .. v.key)
      BY <1>1, <1>3
    <3>. QED
      BY <3>1
  <2>. HIDE DEF Old, New
  <2>. QED
    BY <2>1, <2>2, <2>3, FS_Subset
<1>7. DOMAIN known \subseteq Old(d.cases) \cup Old(removed)
  BY <1>1, <1>4
<1>8. /\ DOMAIN known = Old(d.cases) \cup Old(removed)
      /\ Old(d.cases) \cap Old(removed) = {}
  <2>. DEFINE both == Old(d.cases) \cup Old(removed)
              shared == Old(d.cases) \cap Old(removed)
  <2>. HIDE DEF Old, New
  <2>1. /\ IsFiniteSet(both)
        /\ Cardinality(both) = Cardinality(Old(d.cases)) + Cardinality(Old(removed))
                                  - Cardinality(shared)
    BY <1>6, FS_Union
  <2>2. IsFiniteSet(shared)
    BY <1>6, FS_Intersection
  <2>3. DOMAIN known \in SUBSET both
    BY <1>7
  <2>. HIDE DEF both, shared
  <2>4. /\ Cardinality(both) \in Nat /\ Cardinality(shared) \in Nat
        /\ Cardinality(Old(d.cases)) \in Nat /\ Cardinality(Old(removed)) \in Nat
    BY <1>6, <2>1, <2>2, FS_CardinalityType
  <2>5. /\ Cardinality(DOMAIN known) <= Cardinality(both)
        /\ Cardinality(DOMAIN known) = Cardinality(both) => DOMAIN known = both
    BY <2>1, <2>3, FS_Subset
  <2>6. Cardinality(DOMAIN known) \in Nat
    BY <1>2, <2>4
  <2>7. Cardinality(both) = Cardinality(DOMAIN known) /\ Cardinality(shared) = 0
    BY <1>2, <2>1, <2>4, <2>5, <2>6
  <2>8. shared = {}
    BY <2>2, <2>7, FS_EmptySet
  <2>. QED
    BY <2>5, <2>7, <2>8 DEF both, shared
<1>9. New(changed) = New(d.cases)
  <2>1. New(changed) \in SUBSET New(d.cases)
    BY <1>3
  <2>. HIDE DEF Old, New
  <2>. QED
    BY <1>2, <1>6, <2>1, FS_Subset
<1>10. d.cases = (DOMAIN known \ removed) \cup changed
  <2>1. \A key \in d.cases : key <= v.key \/ key > v.key
    BY <1>1
  <2>2. \A key \in d.cases : key \in (DOMAIN known \ removed) \cup changed
    BY <1>8, <1>9, <2>1
  <2>3. (DOMAIN known \ removed) \cup changed \subseteq d.cases
    BY <1>3, <1>4
  <2>. QED
    BY <2>2, <2>3
<1>11. \A key \in d.cases : RowsOf(d, key) = IF key \in changed THEN RowsOf(d, key) ELSE known[key]
  BY <1>4, <1>5, <1>10
<1>12. CasesOf(d) = [key \in (DOMAIN known \ removed) \cup changed |->
                       IF key \in changed THEN RowsOf(d, key) ELSE known[key]]
  BY <1>10, <1>11 DEF CasesOf
<1>. QED
  BY <1>12 DEF Polled, removed, changed

(* What the store becomes by a write goes on having grown, or apart.       *)
LEMMA GrowsOn ==
  ASSUME NEW d, NEW e, NEW stores \in Nat, NEW time \in Nat \ {0},
         DbIsSo(d, stores, time), DbIsSo(e, stores, time), Follows(e, d, time),
         NEW v, NEW known, VersionIsSo(v, known, stores, time), Grown(d, v, known)
  PROVE  Grown(e, v, known)
<1>1. /\ v.change \in Nat /\ v.key \in Nat /\ d.change \in Nat /\ d.key \in Nat
      /\ e.change \in Nat /\ e.key \in Nat
      /\ v.change <= d.change /\ v.key <= d.key /\ d.change <= e.change /\ d.key <= e.key
  BY DEF DbIsSo, Dbs, VersionIsSo, Versions, Grown, Follows
<1>2. RemovedAfter(d, v.change) \subseteq RemovedAfter(e, v.change)
  BY DEF RemovedAfter, Follows
<1>3. ASSUME NEW key \in d.cases, SameRows(e, d, key)
      PROVE  key \in e.cases /\ RowsTo(e, key, v.change) = RowsTo(d, key, v.change)
  <2>1. {c \in ChangesOf(e.events, key) : c <= v.change}
          = {c \in ChangesOf(d.events, key) : c <= v.change}
    <3>1. DOMAIN d.events \subseteq 1 .. d.change /\ DOMAIN e.events \subseteq 1 .. e.change
      BY DEF DbIsSo, TableIsSo
    <3>2. \A c \in DOMAIN e.events \cup DOMAIN d.events : c <= v.change => c \in 1 .. d.change
      BY <1>1, <3>1
    <3>3. ChangesOf(e.events, key) \subseteq DOMAIN e.events /\ ChangesOf(d.events, key) \subseteq DOMAIN d.events
      BY DEF ChangesOf
    <3>. QED
      BY <1>3, <3>2, <3>3 DEF SameRows
  <2>2. \A c \in {c \in ChangesOf(d.events, key) : c <= v.change} : e.events[c] = d.events[c]
    BY <1>1, <1>3 DEF SameRows, DbIsSo, TableIsSo, ChangesOf
  <2>. QED
    BY <1>3, <2>1, <2>2 DEF RowsTo, SameRows
<1>4. ASSUME NEW key \in d.cases, e.change = d.change + 1, e.change \in DOMAIN e.removed,
             e.removed[e.change].key = key
      PROVE  key \in RemovedAfter(e, v.change)
  BY <1>1, <1>4 DEF RemovedAfter
<1>5. ASSUME NEW key \in DOMAIN known
      PROVE  \/ key \in RemovedAfter(e, v.change)
             \/ key \in e.cases /\ known[key] = RowsTo(e, key, v.change)
  <2>1. CASE key \in RemovedAfter(d, v.change)
    BY <1>2, <2>1
  <2>2. CASE key \in d.cases /\ known[key] = RowsTo(d, key, v.change)
    BY <1>3, <1>4, <2>2 DEF Follows
  <2>. QED
    BY <2>1, <2>2 DEF Grown
<1>. QED
  BY <1>1, <1>5 DEF Grown

LEMMA StaysApart ==
  ASSUME NEW d, NEW e, NEW stores \in Nat, NEW time \in Nat \ {0},
         DbIsSo(d, stores, time), DbIsSo(e, stores, time), Follows(e, d, time),
         e.change = d.change + 1, NEW v \in Versions, v.tag < time, Apart(d, v)
  PROVE  Apart(e, v)
<1>1. v.change \in Nat /\ v.tag \in Nat /\ d.change \in Nat
  BY DEF Versions, DbIsSo, Dbs
<1>2. v.change <= d.change => Tag(e, v.change) = Tag(d, v.change)
  BY <1>1 DEF Follows
<1>3. Tag(e, d.change + 1) = time
  BY DEF Follows
<1>4. CASE v.change = d.change + 1
  BY <1>3, <1>4 DEF Apart
<1>. QED
  BY <1>1, <1>2, <1>4 DEF Apart

-----------------------------------------------------------------------------
(* The steps *)

LEMMA NoStoreIs ==
  ASSUME NEW stores \in Nat, NEW time \in Nat \ {0}
  PROVE  VersionIsSo(NoStore, [key \in {} |-> {}], stores, time)
<1>1. DOMAIN [key \in {} |-> {}] = {} /\ Cardinality({}) = 0
  BY FS_EmptySet
<1>. QED
  BY <1>1 DEF VersionIsSo, NoStore, Versions

LEMMA VersionTyped ==
  ASSUME TablesInv
  PROVE  VersionOf(db) \in Versions
<1>1. CASE db = None
  BY <1>1 DEF VersionOf, NoStore, Versions
<1>2. CASE db # None
  BY <1>2, VersionIs DEF TablesInv, VersionIsSo
<1>. QED
  BY <1>1, <1>2

(* What a poll gives is what is stored, whatever it reads of it.           *)
LEMMA PolledIs ==
  ASSUME NoneIsNoVersion, PollerInv
  PROVE  Polled(db, poller.version, poller.cases) = Stored
<1>. DEFINE v == poller.version
            known == poller.cases
<1>1. /\ ids \in Nat /\ storeClock \in Nat \ {0} /\ (db # None => DbIsSo(db, ids, storeClock))
      /\ PollerIsSo
  BY DEF PollerInv, TablesInv
<1>2. VersionOf(db) \in Versions
  BY VersionTyped DEF PollerInv
<1>3. CASE v = None
  <2>1. v # VersionOf(db) /\ ~Reached(v, db)
    BY <1>2, <1>3 DEF NoneIsNoVersion, Reached
  <2>. QED
    BY <2>1 DEF Polled, Stored
<1>4. CASE v # None /\ db = None
  <2>1. ~Reached(v, db)
    BY <1>4 DEF Reached
  <2>2. ASSUME v = VersionOf(db) PROVE known = [key \in {} |-> {}]
    <3>1. v.key = 0
      BY <1>4, <2>2 DEF VersionOf, NoStore
    <3>2. DOMAIN known \subseteq 1 .. v.key /\ known = [key \in DOMAIN known |-> known[key]]
      BY <1>1, <1>4 DEF PollerIsSo, VersionIsSo
    <3>3. DOMAIN known = {}
      BY <3>1, <3>2
    <3>. QED
      BY <3>2, <3>3
  <2>. QED
    BY <1>4, <2>1, <2>2 DEF Polled, Stored
<1>5. CASE v # None /\ db # None
  <2>1. DbIsSo(db, ids, storeClock) /\ VersionIsSo(v, known, ids, storeClock) /\ v \in Versions
    BY <1>1, <1>5 DEF PollerIsSo, VersionIsSo
  <2>2. v = VersionOf(db) \/ Reached(v, db) => db.id = v.id
    BY <1>5 DEF Reached, VersionOf
  <2>3. db.id = v.id => Grown(db, v, known) \/ Apart(db, v)
    BY <1>1, <1>5 DEF PollerIsSo
  <2>4. Apart(db, v) => v # VersionOf(db) /\ ~(Reached(v, db) /\ Whole(db, v))
    BY <1>1, <1>5, <2>1, ApartIsTold
  <2>5. CASE v = VersionOf(db)
    <3>1. Grown(db, v, known)
      BY <2>2, <2>3, <2>4, <2>5
    <3>2. known = CasesOf(db)
      BY <1>1, <1>5, <2>1, <2>5, <3>1, SameVersion
    <3>. QED
      BY <1>5, <2>5, <3>2 DEF Polled, Stored
  <2>6. CASE v # VersionOf(db) /\ Reached(v, db) /\ Whole(db, v)
    <3>1. Grown(db, v, known)
      BY <2>2, <2>3, <2>4, <2>6
    <3>2. Polled(db, v, known) = CasesOf(db)
      BY <1>1, <2>1, <2>6, <3>1, WholeIsAll
    <3>. QED
      BY <1>5, <3>2 DEF Stored
  <2>7. CASE v # VersionOf(db) /\ ~(Reached(v, db) /\ Whole(db, v))
    BY <1>5, <2>7 DEF Polled, Stored
  <2>. QED
    BY <2>5, <2>6, <2>7
<1>. QED
  BY <1>3, <1>4, <1>5

(* A version of a store of one made at a time.                             *)
LEMMA VersionStaysSo ==
  ASSUME NEW v, NEW known, NEW stores \in Nat, NEW time \in Nat, VersionIsSo(v, known, stores, time),
         NEW more \in Nat, stores <= more, NEW later \in Nat, time <= later
  PROVE  VersionIsSo(v, known, more, later)
BY DEF VersionIsSo, Versions

LEMMA WritesKeepPoller ==
  ASSUME PollerInv, Writes
  PROVE  CopyIsSo' /\ PollerIsSo'
<1>1. /\ ids \in Nat /\ storeClock \in Nat \ {0} /\ DbIsSo(db, ids, storeClock) /\ db # None
      /\ DbIsSo(db', ids, storeClock) /\ Follows(db', db, storeClock) /\ db'.change = db.change + 1
      /\ UNCHANGED <<copy, edits, ids, storeClock, poller>>
  BY WriteIs DEF PollerInv, TablesInv
<1>2. db'.id = db.id /\ db.change \in Nat
  BY <1>1 DEF Follows, DbIsSo, Dbs
<1>3. CopyIsSo'
  <2>1. copy # None => copy.change \in Nat
    BY DEF PollerInv, TablesInv, DbIsSo, Dbs
  <2>2. copy # None =>
          "restore" \in edits /\ (db.id = copy.id => copy = db \/ copy.change < db.change)
    BY <1>1 DEF CopyIsSo, PollerInv
  <2>3. copy # None /\ db'.id = copy.id => copy.change < db'.change
    BY <1>1, <1>2, <2>1, <2>2
  <2>. QED
    BY <1>1, <2>2, <2>3 DEF CopyIsSo
<1>4. ASSUME poller.version # None, db.id = poller.version.id
      PROVE  \/ Grown(db', poller.version, poller.cases)
             \/ /\ "restore" \in edits /\ poller.version.tag < storeClock
                /\ Apart(db', poller.version)
  <2>1. /\ VersionIsSo(poller.version, poller.cases, ids, storeClock) /\ poller.version \in Versions
        /\ \/ Grown(db, poller.version, poller.cases)
           \/ /\ "restore" \in edits /\ poller.version.tag < storeClock
              /\ Apart(db, poller.version)
    BY <1>1, <1>4 DEF PollerInv, PollerIsSo, VersionIsSo
  <2>2. CASE Grown(db, poller.version, poller.cases)
    BY <1>1, <2>1, <2>2, GrowsOn
  <2>3. CASE /\ "restore" \in edits /\ poller.version.tag < storeClock
             /\ Apart(db, poller.version)
    BY <1>1, <2>1, <2>3, StaysApart
  <2>. QED
    BY <2>1, <2>2, <2>3
<1>5. PollerIsSo'
  BY <1>1, <1>2, <1>4 DEF PollerInv, PollerIsSo
<1>. QED
  BY <1>3, <1>5

LEMMA PollKeepsPoller ==
  ASSUME NoneIsNoVersion, PollerInv, Poll
  PROVE  CopyIsSo' /\ PollerIsSo'
<1>1. /\ poller'.version = VersionOf(db) /\ poller'.cases = Stored
      /\ UNCHANGED <<db, copy, edits, ids, storeClock>>
  BY PolledIs DEF Poll
<1>2. /\ ids \in Nat /\ storeClock \in Nat \ {0} /\ (db # None => DbIsSo(db, ids, storeClock))
      /\ (copy # None => DbIsSo(copy, ids, storeClock)) /\ CopyIsSo
  BY DEF PollerInv, TablesInv
<1>3. CopyIsSo'
  BY <1>1, <1>2 DEF CopyIsSo
<1>4. CASE db = None
  <2>1. VersionOf(db) = NoStore /\ Stored = [key \in {} |-> {}]
    BY <1>4 DEF VersionOf, Stored
  <2>2. VersionIsSo(NoStore, [key \in {} |-> {}], ids, storeClock)
    BY <1>2, NoStoreIs
  <2>3. copy # None => copy.id # NoStore.id
    BY <1>2 DEF DbIsSo, NoStore
  <2>. QED
    BY <1>1, <1>3, <1>4, <2>1, <2>2, <2>3 DEF PollerIsSo
<1>5. CASE db # None
  <2>1. /\ VersionIsSo(VersionOf(db), CasesOf(db), ids, storeClock)
        /\ Grown(db, VersionOf(db), CasesOf(db))
        /\ VersionOf(db).id = db.id /\ VersionOf(db).change = db.change
    BY <1>2, <1>5, VersionIs
  <2>2. VersionOf(db) # None
    BY <2>1 DEF VersionIsSo, NoneIsNoVersion
  <2>3. Stored = CasesOf(db)
    BY <1>5 DEF Stored
  <2>4. ASSUME copy # None, copy.id = db.id
        PROVE  Grown(copy, VersionOf(db), CasesOf(db)) \/ Apart(copy, VersionOf(db))
    BY <1>2, <1>5, <2>1, <2>4 DEF CopyIsSo, Apart
  <2>5. PollerIsSo'
    BY <1>1, <2>1, <2>2, <2>3, <2>4 DEF PollerIsSo
  <2>. QED
    BY <1>3, <2>5
<1>. QED
  BY <1>4, <1>5

LEMMA PollerStaysSo ==
  ASSUME NoneIsNoVersion, PollerInv, [StoreNext]_storeVars
  PROVE  PollerInv'
<1>1. TablesInv'
  BY TablesStaySo DEF PollerInv
<1>2. edits' = edits
  BY WriteIs DEF StoreNext, Create, AppendRow, Archive, Delete, MakeStore, PutBack, KeepCopy,
                 Restore, LoseStore, Tick, Poll, PollFails, storeVars
<1>3. /\ ids \in Nat /\ storeClock \in Nat \ {0} /\ (db # None => DbIsSo(db, ids, storeClock))
      /\ (copy # None => DbIsSo(copy, ids, storeClock)) /\ CopyIsSo /\ PollerIsSo
      /\ ("put back" \in edits => "restore" \notin edits)
  BY DEF PollerInv, TablesInv
<1>4. ASSUME NEW more \in Nat, ids <= more, NEW later \in Nat, storeClock <= later,
             poller.version # None
      PROVE  VersionIsSo(poller.version, poller.cases, more, later)
  BY <1>3, <1>4, VersionStaysSo DEF PollerIsSo
<1>5. poller.version # None =>
        /\ VersionIsSo(poller.version, poller.cases, ids, storeClock + 1)
        /\ poller.version.tag \in Nat /\ poller.version.tag <= storeClock
  <2>1. ids \in Nat /\ ids <= ids /\ storeClock + 1 \in Nat /\ storeClock <= storeClock + 1
    <3>1. ids \in Nat /\ storeClock \in Nat
      BY <1>3
    <3>. QED
      BY <3>1
  <2>. QED
    BY <1>3, <1>4, <2>1 DEF PollerIsSo, VersionIsSo, Versions
<1>6. CASE Writes
  BY <1>6, WritesKeepPoller, <1>1, <1>2 DEF PollerInv
<1>7. CASE \E key \in CaseKeys, kept \in BOOLEAN : PutBack(key, kept)
  <2>1. /\ db # None /\ DbIsSo(db', ids, storeClock) /\ Follows(db', db, storeClock)
        /\ "put back" \in edits /\ UNCHANGED <<copy, edits, ids, storeClock, poller>>
    BY <1>7, HandIs DEF PollerInv
  <2>2. copy = None /\ db'.id = db.id
    BY <1>3, <2>1 DEF CopyIsSo, Follows
  <2>3. ASSUME poller.version # None, db.id = poller.version.id
        PROVE  Grown(db', poller.version, poller.cases)
    <3>1. /\ VersionIsSo(poller.version, poller.cases, ids, storeClock)
          /\ Grown(db, poller.version, poller.cases)
      BY <1>3, <2>1, <2>3 DEF PollerIsSo
    <3>. QED
      BY <1>3, <2>1, <3>1, GrowsOn
  <2>4. PollerIsSo'
    BY <1>3, <2>1, <2>2, <2>3 DEF PollerIsSo
  <2>. QED
    BY <1>1, <1>3, <2>1, <2>2, <2>4 DEF PollerInv, CopyIsSo
<1>8. CASE MakeStore
  <2>1. /\ db = None /\ ids' = ids + 1 /\ db' = NewDb(ids + 1)
        /\ UNCHANGED <<copy, edits, storeClock, poller>>
    BY <1>8 DEF MakeStore
  <2>2. db'.id = ids + 1
    BY <2>1 DEF NewDb
  <2>3. copy # None => copy.id # db'.id
    <3>1. copy # None => copy.id \in 1 .. ids
      BY <1>3 DEF DbIsSo
    <3>2. ids \in Nat
      BY <1>3
    <3>. QED
      BY <2>2, <3>1, <3>2
  <2>4. poller.version # None => poller.version.id # db'.id
    <3>1. poller.version # None => poller.version.id \in Nat /\ poller.version.id <= ids
      BY <1>3 DEF PollerIsSo, VersionIsSo, Versions
    <3>2. ids \in Nat
      BY <1>3
    <3>. QED
      BY <2>2, <3>1, <3>2
  <2>5. poller.version # None => VersionIsSo(poller.version, poller.cases, ids + 1, storeClock)
    <3>1. ids + 1 \in Nat /\ ids <= ids + 1 /\ storeClock \in Nat /\ storeClock <= storeClock
      <4>1. ids \in Nat /\ storeClock \in Nat
        BY <1>3
      <4>. QED
        BY <4>1
    <3>. QED
      BY <1>4, <3>1, Zenon
  <2>6. PollerIsSo'
    BY <1>3, <2>1, <2>4, <2>5 DEF PollerIsSo
  <2>7. CopyIsSo'
    BY <1>3, <2>1, <2>3 DEF CopyIsSo
  <2>. QED
    BY <1>1, <1>3, <2>1, <2>6, <2>7 DEF PollerInv
<1>9. CASE KeepCopy
  <2>1. db # None /\ "restore" \in edits /\ copy' = db /\ UNCHANGED <<db, edits, ids, storeClock, poller>>
    BY <1>9 DEF KeepCopy
  <2>2. CopyIsSo' /\ PollerIsSo'
    BY <1>3, <2>1 DEF CopyIsSo, PollerIsSo
  <2>. QED
    BY <1>1, <1>3, <2>1, <2>2 DEF PollerInv
<1>10. CASE Restore
  <2>1. /\ copy # None /\ db' = copy /\ storeClock' = storeClock + 1
        /\ UNCHANGED <<copy, edits, ids, poller>>
    BY <1>10 DEF Restore
  <2>2. CopyIsSo'
    BY <1>3, <2>1 DEF CopyIsSo
  <2>3. poller.version # None =>
          /\ VersionIsSo(poller.version, poller.cases, ids, storeClock + 1)
          /\ poller.version.tag < storeClock + 1
    <3>1. storeClock \in Nat
      BY <1>3
    <3>. QED
      BY <1>5, <3>1
  <2>4. PollerIsSo'
    BY <1>3, <2>1, <2>3 DEF CopyIsSo, PollerIsSo
  <2>. QED
    BY <1>1, <1>3, <2>1, <2>2, <2>4 DEF PollerInv
<1>11. CASE LoseStore
  <2>1. db' = None /\ UNCHANGED <<copy, edits, ids, storeClock, poller>>
    BY <1>11 DEF LoseStore
  <2>2. CopyIsSo' /\ PollerIsSo'
    BY <1>3, <2>1 DEF CopyIsSo, PollerIsSo
  <2>. QED
    BY <1>1, <1>3, <2>1, <2>2 DEF PollerInv
<1>12. CASE Tick
  <2>1. storeClock' = storeClock + 1 /\ UNCHANGED <<db, copy, edits, ids, poller>>
    BY <1>12 DEF Tick
  <2>2. poller.version # None =>
          /\ VersionIsSo(poller.version, poller.cases, ids, storeClock + 1)
          /\ poller.version.tag < storeClock => poller.version.tag < storeClock + 1
    <3>1. storeClock \in Nat
      BY <1>3
    <3>. QED
      BY <1>5, <3>1
  <2>3. CopyIsSo' /\ PollerIsSo'
    BY <1>3, <2>1, <2>2 DEF CopyIsSo, PollerIsSo
  <2>. QED
    BY <1>1, <1>3, <2>1, <2>3 DEF PollerInv
<1>13. CASE Poll
  BY <1>1, <1>2, <1>3, <1>13, PollKeepsPoller DEF PollerInv
<1>14. CASE PollFails \/ UNCHANGED storeVars
  <2>1. /\ UNCHANGED <<db, copy, edits, ids, storeClock>>
        /\ \/ poller'.version = None /\ poller'.cases = [key \in {} |-> {}]
           \/ poller' = poller
    BY <1>14 DEF PollFails, storeVars
  <2>2. CopyIsSo' /\ PollerIsSo'
    BY <1>3, <2>1 DEF CopyIsSo, PollerIsSo
  <2>. QED
    BY <1>1, <1>3, <2>1, <2>2 DEF PollerInv
<1>. QED
  BY <1>6, <1>7, <1>8, <1>9, <1>10, <1>11, <1>12, <1>13, <1>14 DEF StoreNext, Writes

-----------------------------------------------------------------------------
(* The theorems *)

(***************************************************************************)
(* The store has grown from what the poller's version is of, or was put    *)
(* back and shows it, as long as a human does not do both of putting cases *)
(* back and restoring a copy (read.rs names what a version is told by).    *)
(***************************************************************************)
THEOREM PollerIsKept == ASSUME NoneIsNoVersion, NotBoth PROVE StoreSpec => []PollerInv
<1>1. StoreInit => PollerInv
  <2>. SUFFICES ASSUME StoreInit PROVE PollerInv
    OBVIOUS
  <2>1. /\ db = None /\ copy = None /\ ids = 0 /\ storeClock = 1 /\ edits \in HandEdits
        /\ poller.version = None /\ poller.cases = [key \in {} |-> {}]
    BY DEF StoreInit
  <2>2. TablesInv /\ CopyIsSo
    BY <2>1 DEF TablesInv, CopyIsSo
  <2>3. PollerIsSo
    BY <2>1 DEF PollerIsSo
  <2>. QED
    BY <2>1, <2>2, <2>3 DEF PollerInv, NotBoth
<1>2. PollerInv /\ [StoreNext]_storeVars => PollerInv'
  BY PollerStaysSo
<1>. QED
  BY <1>1, <1>2, PTL DEF StoreSpec

(***************************************************************************)
(* While the store is at the version the poller read, its cases are the    *)
(* ones the poller gives: no two states share a version.                   *)
(***************************************************************************)
THEOREM VersionsDiffer ==
  ASSUME NoneIsNoVersion, NotBoth PROVE StoreSpec => []VersionTellsStoresApart
<1>1. PollerInv => VersionTellsStoresApart
  <2>. SUFFICES ASSUME PollerInv, poller.version = VersionOf(db) PROVE poller.cases = Stored
    BY DEF VersionTellsStoresApart
  <2>. QED
    BY PolledIs DEF Polled
<1>. QED
  BY <1>1, PollerIsKept, PTL

(***************************************************************************)
(* A poll gives every case of the store as it is at that moment, although  *)
(* it folds only those that changed: Store implements StoreView.           *)
(***************************************************************************)
THEOREM PollerRefines ==
  ASSUME NoneIsNoVersion, NotBoth PROVE StoreSpec => PollerGivesTheStore
<1>. DEFINE given == IF poller.version = None THEN None ELSE poller.cases
<1>1. StoreInit => View!ViewInit
  BY DEF StoreInit, View!ViewInit
<1>2. PollerInv /\ [StoreNext]_storeVars => [View!ViewNext]_View!viewVars
  <2>. SUFFICES ASSUME PollerInv, [StoreNext]_storeVars PROVE View!ViewNext
    BY DEF View!viewVars
  <2>1. CASE Poll
    <3>1. poller'.version = VersionOf(db) /\ poller'.cases = Stored /\ db' = db
      BY <2>1, PolledIs DEF Poll
    <3>2. VersionOf(db) # None
      BY VersionTyped DEF PollerInv, NoneIsNoVersion
    <3>. QED
      BY <3>1, <3>2 DEF View!ViewNext, View!Poll, Stored
  <2>2. CASE PollFails
    BY <2>2 DEF PollFails, View!ViewNext, View!PollFails, Stored
  <2>3. CASE ~Poll /\ ~PollFails
    <3>1. poller' = poller
      BY <2>3 DEF StoreNext, Create, AppendRow, Archive, Delete, MakeStore, PutBack, KeepCopy,
                  Restore, LoseStore, Tick, storeVars
    <3>. QED
      BY <3>1 DEF View!ViewNext, View!Change
  <2>. QED
    BY <2>1, <2>2, <2>3
<1>. QED
  BY <1>1, <1>2, PollerIsKept, PTL DEF StoreSpec, PollerGivesTheStore, View!ViewSpec

=============================================================================
