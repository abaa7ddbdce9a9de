----------------------------- MODULE FormsProofs ------------------------------
(***************************************************************************)
(* What holds of the terminal inbox's forms for any case and any number of *)
(* reads and writes: a form's marks are those of the case as it was at one *)
(* revision, and what the human had before them is what it asked then.  A  *)
(* form moves from one revision to a later one only where Case::since says *)
(* it may, so the freshness rule (CaseProofs) is what carries the human's  *)
(* reading along; a case's story, the states its events left it in, is     *)
(* what tells that a form to answer on it never follows past an answer.    *)
(***************************************************************************)
EXTENDS CaseProofs, Forms

(* What the kind of a case says of its fields. *)
KindFits(c) ==
  KindFields(c.kind, c.options, c.rows, c.leftOut) /\ NoneTwice(c.leftOut)

(* The state an event left the case in. *)
LeftIn(c, i) ==
  IF i < Len(c.events) THEN c.events[i + 1].from ELSE c.state

(* What an event says of the states before and after it: only a note or an *)
(* amend leaves a case in the state it was in, only a pickup leaves it     *)
(* picked up, and an answer is to an open case.                            *)
Tells(kind, event, from, next) ==
  /\ event \in {"note", "amend"} \/ from # next
  /\ next = "pickedup" <=> event = "pickup"
  /\ event = "answer" => kind # "message" /\ from = "open" /\ next = "answered"

EventsTell(c) ==
  /\ Len(c.events) > 0 /\ c.events[1].event = "open"
  /\ \A i \in 1 .. Len(c.events) :
       Tells(c.kind, c.events[i].event, c.events[i].from, LeftIn(c, i))

(* The view is the case as it was at the view's revision. *)
ViewIsSo ==
  view # None =>
    view.revision \in 1 .. Len(rows) /\ view = CaseAt(view.revision)

FormFields == {"act", "revision", "amendSeq", "seq", "options", "rows", "leftOut",
               "ticks", "meant", "shown"}

(* What the human ticked is what they read at the numbers ticked. *)
TicksAreSo(f) ==
  /\ f.leftOut \in Seq(Items) /\ NoneTwice(f.leftOut) /\ f.ticks \subseteq DOMAIN f.leftOut
  /\ f.meant = {f.leftOut[n] : n \in f.ticks}

(* What a withdraw passes, of a form opened on what is shown: the question *)
(* is that one, and if the last answer is not, an agent picked up the one  *)
(* that was shown before it.                                               *)
Passed(shown, c) ==
  /\ c.kind # "message" => shown.question = Question(c)
  /\ \/ shown.lastAnswer = LastAnswer(c)
     \/ \E i \in DOMAIN c.events : /\ c.events[i].event = "pickup"
                                  /\ shown.lastAnswer < c.events[i].seq
                                  /\ c.events[i].seq < LastAnswer(c)

(* A form's marks are those of the case as it was at the form's revision;  *)
(* the case takes its act there, and to answer or park it, what was shown  *)
(* is what it asked there, to withdraw it, it has passed no more.  What    *)
(* can be chosen is as of the view, unless the form was left behind.       *)
FormFits(f, v, was) ==
  /\ DOMAIN f = FormFields /\ f.act \in Acts /\ f.options \in Nat /\ f.rows \subseteq RowIds
  /\ f.revision \in 1 .. v.revision
  /\ was # None /\ f.amendSeq = was.amendSeq /\ f.seq = was.lastSeq
  /\ ActFits(f.act, was)
  /\ f.act # "withdraw" => f.rows = was.rows /\ f.shown = Shown(was)
  /\ f.act = "withdraw" => f.shown.lastAnswer \in Nat /\ Passed(f.shown, was)
  /\ f.revision = v.revision => f.options = v.options /\ f.leftOut = v.leftOut
  /\ TicksAreSo(f)

FormIsSo ==
  form # None => view # None /\ FormFits(form, view, CaseAt(form.revision))

(* A write still out is of the case as it was at the write's revision; if  *)
(* it is that still, an answer is to what was shown, and files what was    *)
(* meant, and a withdraw has passed no more than it may.                   *)
SentIsSo ==
  sending # None =>
    /\ DOMAIN sending = {"rec", "revision", "shown", "meant", "result"}
    /\ sending.result = "out" =>
         /\ sending.rec \in Records /\ sending.revision \in 1 .. Len(rows)
         /\ sending.rec.event = "answer" /\ sending.revision = Len(rows) =>
              /\ sending.shown = Shown(case)
              /\ ~sending.rec.drop =>
                   {case.leftOut[n] : n \in sending.rec.file} = sending.meant
         /\ sending.rec.event = "withdraw" /\ sending.revision = Len(rows) =>
              Passed(sending.shown, case)

FormInv == IInv /\ FoldInv /\ ViewIsSo /\ FormIsSo /\ SentIsSo

-----------------------------------------------------------------------------
(* The story of a case *)

LEMMA StartTells ==
  ASSUME NEW author, NEW r \in Opens, NEW seq \in Nat, OpenFits(author, r)
  PROVE  KindFits(Start(seq, r)) /\ EventsTell(Start(seq, r))
<1>. DEFINE c == Start(seq, r)
<1>1. /\ c.kind = r.kind /\ c.options = r.options /\ c.rows = r.rows /\ c.leftOut = r.leftOut
      /\ c.state \in {"open", "sent"}
      /\ c.events = <<[seq |-> seq, event |-> "open", from |-> None]>>
  BY DEF Start
<1>. HIDE DEF c
<1>2. KindFits(c)
  BY <1>1 DEF KindFits, OpenFits
<1>3. EventsTell(c)
  <2>1. Len(c.events) = 1 /\ c.events[1].from = None /\ c.events[1].event = "open"
    BY <1>1
  <2>2. LeftIn(c, 1) = c.state /\ c.state # None
    BY <1>1, <2>1, NoneAssumption DEF LeftIn, States
  <2>. QED
    BY <1>1, <2>1, <2>2 DEF EventsTell, Tells
<1>. QED
  BY <1>2, <1>3 DEF c

(* A count of rows is no part of the story. *)
LEMMA CountedTells ==
  ASSUME NEW c, Good(c), KindFits(c), EventsTell(c), NEW revision, NEW lastSeq
  PROVE  LET d == Counted(c, revision, lastSeq) IN KindFits(d) /\ EventsTell(d)
<1>. DEFINE d == Counted(c, revision, lastSeq)
<1>1. /\ d.kind = c.kind /\ d.options = c.options /\ d.rows = c.rows /\ d.leftOut = c.leftOut
      /\ d.state = c.state /\ d.events = c.events
  BY DEF Counted, Good, Cases
<1>. HIDE DEF d
<1>2. KindFits(d) /\ EventsTell(d)
  BY <1>1 DEF KindFits, EventsTell, LeftIn
<1>. QED
  BY <1>2 DEF d

(* What a record does to the kind's fields and to the state. *)
LEMMA ChangedTells ==
  ASSUME NEW c, Good(c), KindFits(c), NEW author, NEW write \in BOOLEAN,
         NEW r \in Records \cup {Foreign}, NEW seq \in Nat, Fits(c, author, r, write)
  PROVE  LET d == Changed(c, seq, r) IN
         /\ KindFits(d)
         /\ Tells(c.kind, r.event, c.state, d.state) /\ d.kind = c.kind
<1>. DEFINE d == Changed(c, seq, r)
            Alike(e) == /\ e.kind = c.kind /\ e.options = c.options /\ e.rows = c.rows
                        /\ e.leftOut = c.leftOut
<1>1. \A e : Alike(e) => KindFits(e)
  BY DEF KindFits
<1>2. c \in Cases /\ (c.kind = "message" => c.state # "open")
  BY DEF Good, StateFits
<1>3. CASE r.event = "amend" /\ AmendFits(c, author, r)
  <2>1. r \in Amends /\ d = TakeAmend(c, seq, r)
    BY <1>3, RecordKinds DEF Changed
  <2>2. /\ d.kind = c.kind /\ d.options = c.options + r.options /\ d.rows = c.rows \cup r.rows
        /\ d.leftOut = (IF r.leftOut = <<>> THEN c.leftOut ELSE r.leftOut)
        /\ d.state = (IF r.reopen THEN "open" ELSE c.state)
    BY <1>2, <2>1 DEF TakeAmend, AmendQuestion, Reopen, Cases
  <2>3. r.options \in Nat /\ c.options \in Nat
    BY <1>2, <2>1 DEF Cases, Amends
  <2>. HIDE DEF d
  <2>4. d.options > 0 => c.options > 0 \/ r.options > 0
    BY <2>2, <2>3
  <2>5. KindFits(d)
    BY <1>3, <2>2, <2>4 DEF KindFits, KindFields, AmendFits
  <2>6. d.state # "pickedup"
    BY <1>3, <2>2 DEF AmendFits
  <2>. QED
    BY <1>3, <2>2, <2>5, <2>6 DEF d, Tells
<1>4. CASE r.event = "answer" /\ AnswerFits(c, r)
  <2>1. d = TakeAnswer(c, r)
    BY <1>4 DEF Changed
  <2>2. Alike(d) /\ d.state = "answered" /\ c.state = "open"
    BY <1>2, <1>4, <2>1 DEF TakeAnswer, Cases, AnswerFits
  <2>. QED
    BY <1>1, <1>2, <1>4, <2>2 DEF Tells
<1>5. CASE r.event = "pickup" /\ PickupFits(c)
  <2>1. d = TakePickup(c)
    BY <1>5 DEF Changed
  <2>2. Alike(d) /\ d.state = "pickedup" /\ c.state # "pickedup"
    BY <1>2, <1>5, <2>1 DEF TakePickup, Cases, PickupFits
  <2>. QED
    BY <1>1, <1>2, <1>5, <2>2 DEF Tells
<1>6. CASE r.event = "note"
  <2>1. d = TakeNote(c)
    BY <1>6 DEF Changed
  <2>2. Alike(d) /\ d.state = "open"
    BY <1>2, <2>1 DEF TakeNote, Reopen, Cases
  <2>. QED
    BY <1>1, <1>6, <2>2 DEF Tells
<1>7. CASE r.event = "close" /\ CloseFits(c, r)
  <2>1. d = TakeClose(c)
    BY <1>7 DEF Changed
  <2>2. Alike(d) /\ d.state = "closed" /\ c.state # "closed"
    BY <1>2, <1>7, <2>1 DEF TakeClose, Cases, CloseFits
  <2>. QED
    BY <1>1, <1>2, <1>7, <2>2 DEF Tells
<1>8. CASE r.event = "withdraw" /\ WithdrawFits(c, author)
  <2>1. d = TakeWithdraw(c)
    BY <1>8 DEF Changed
  <2>2. Alike(d) /\ d.state = "withdrawn" /\ c.state # "withdrawn"
    BY <1>2, <1>8, <2>1 DEF TakeWithdraw, Cases, WithdrawFits
  <2>. QED
    BY <1>1, <1>2, <1>8, <2>2 DEF Tells
<1>9. CASE r.event = "park" /\ ParkFits(c)
  <2>1. d = TakePark(c)
    BY <1>9 DEF Changed
  <2>2. Alike(d) /\ d.state = "parked" /\ c.state # "parked"
    BY <1>2, <1>9, <2>1 DEF TakePark, Cases, ParkFits
  <2>. QED
    BY <1>1, <1>2, <1>9, <2>2 DEF Tells
<1>10. CASE r.event = "resume" /\ ResumeFits(c)
  <2>1. d = TakeResume(c)
    BY <1>10 DEF Changed
  <2>2. Alike(d) /\ d.state = "open" /\ c.state # "open"
    BY <1>2, <1>10, <2>1 DEF TakeResume, Cases, ResumeFits
  <2>. QED
    BY <1>1, <1>2, <1>10, <2>2 DEF Tells
<1>. QED
  BY <1>3, <1>4, <1>5, <1>6, <1>7, <1>8, <1>9, <1>10 DEF Fits

(* A record taken adds its event, from the state the case was in to the    *)
(* one it leaves it in.                                                    *)
LEMMA TakeTells ==
  ASSUME NEW c, Good(c), KindFits(c), EventsTell(c), NEW author \in Authors,
         NEW write \in BOOLEAN, NEW r \in Records \cup {Foreign}, NEW seq \in Nat,
         Fits(c, author, r, write)
  PROVE  KindFits(Take(c, seq, r)) /\ EventsTell(Take(c, seq, r))
<1>. DEFINE d == Changed(c, seq, r)
            t == Take(c, seq, r)
            event == [seq |-> seq, event |-> r.event, from |-> c.state]
<1>1. KindFits(d) /\ Tells(c.kind, r.event, c.state, d.state) /\ d.kind = c.kind
  BY ChangedTells
<1>2. Good(t) /\ c.events \in Seq(Events) /\ Len(c.events) \in Nat
  <2>1. c.events \in Seq(Events)
    BY DEF Good, Cases
  <2>. QED
    BY <2>1, TakeIsGood
<1>3. r.event \in EventTypes \ {"open"}
  BY DEF Fits, EventTypes
<1>4. t.events = Append(c.events, event)
  BY <1>3, TakeIsTaken DEF Taken, Good
<1>5. /\ t.kind = d.kind /\ t.options = d.options /\ t.rows = d.rows /\ t.leftOut = d.leftOut
      /\ t.state = d.state
  <2>. HIDE DEF d
  <2>1. t = [d EXCEPT !.events = Append(@, event)]
    BY DEF Take, d
  <2>2. DOMAIN t = DOMAIN d
    BY <2>1
  <2>3. {"kind", "options", "rows", "leftOut", "state"} \subseteq DOMAIN t
    BY <1>2 DEF Good, Cases
  <2>. HIDE DEF t, event
  <2>. QED
    BY <2>1, <2>2, <2>3
<1>. HIDE DEF t, d
<1>6. KindFits(t)
  BY <1>1, <1>5 DEF KindFits
<1>7. EventsTell(t)
  <2>. SUFFICES ASSUME NEW i \in 1 .. Len(t.events)
                PROVE  Tells(t.kind, t.events[i].event, t.events[i].from, LeftIn(t, i))
    BY <1>2, <1>4 DEF EventsTell
  <2>1. /\ Len(t.events) = Len(c.events) + 1 /\ t.events[Len(c.events) + 1] = event
        /\ \A j \in 1 .. Len(c.events) : t.events[j] = c.events[j]
    BY <1>2, <1>4
  <2>2. event.event = r.event /\ event.from = c.state
    OBVIOUS
  <2>. HIDE DEF event
  <2>3. CASE i = Len(c.events) + 1
    <3>1. LeftIn(t, i) = d.state
      BY <1>2, <1>5, <2>1, <2>3 DEF LeftIn
    <3>. QED
      BY <1>1, <1>5, <2>1, <2>2, <2>3, <3>1
  <2>4. CASE i = Len(c.events)
    <3>1. LeftIn(t, i) = c.state /\ LeftIn(c, i) = c.state
      BY <1>2, <2>1, <2>2, <2>4 DEF LeftIn
    <3>. QED
      BY <1>1, <1>2, <1>5, <2>1, <2>4, <3>1 DEF EventsTell
  <2>5. CASE i < Len(c.events)
    <3>1. i \in 1 .. Len(c.events) /\ i + 1 \in 1 .. Len(c.events) /\ i < Len(t.events)
      BY <1>2, <2>1, <2>5
    <3>2. t.events[i + 1] = c.events[i + 1]
      BY <2>1, <3>1
    <3>3. LeftIn(t, i) = LeftIn(c, i)
      BY <2>5, <3>1, <3>2 DEF LeftIn
    <3>. QED
      BY <1>1, <1>5, <2>1, <3>1, <3>3 DEF EventsTell
  <2>. QED
    BY <1>2, <2>1, <2>3, <2>4, <2>5
<1>. QED
  BY <1>6, <1>7 DEF t

(* So every case a fold passes fits its kind, and its events tell its story. *)
LEMMA ReplaysTell ==
  ASSUME NEW rs \in Seq(RowType)
  PROVE  \A n \in 0 .. Len(rs) :
           Replays(rs)[n] # None => KindFits(Replays(rs)[n]) /\ EventsTell(Replays(rs)[n])
<1>. DEFINE Tell == {n \in 0 .. Len(rs) :
                       Replays(rs)[n] # None =>
                         KindFits(Replays(rs)[n]) /\ EventsTell(Replays(rs)[n])}
<1>1. Len(rs) \in Nat
  OBVIOUS
<1>2. 0 \in Tell
  BY <1>1, ReplaysIs
<1>3. ASSUME NEW n \in 0 .. Len(rs) - 1, n \in Tell
      PROVE  n + 1 \in Tell
  <2>1. n + 1 \in 1 .. Len(rs) /\ (n + 1) - 1 = n /\ rs[n + 1] \in RowType
    BY <1>1
  <2>. DEFINE c == Replays(rs)[n]
              row == rs[n + 1]
              next == Replays(rs)[n + 1]
  <2>2. next = Replay(c, row)
    BY <2>1, ReplaysIs
  <2>3. /\ row.seq \in Nat /\ row.author \in Authors /\ row.rec \in Records \cup {Foreign}
        /\ c # None => Good(c) /\ KindFits(c) /\ EventsTell(c)
    BY <1>1, <1>3, <2>1, ReplaysAreGood DEF RowType
  <2>. HIDE DEF c, row, next
  <2>4. next # None => KindFits(next) /\ EventsTell(next)
    <3>1. CASE c = None /\ OpenFits(row.author, row.rec)
      <4>1. next = Start(row.seq, row.rec) /\ row.rec \in Opens
        BY <2>2, <2>3, <3>1, RecordKinds DEF Replay, OpenFits
      <4>. QED
        BY <2>3, <3>1, <4>1, StartTells
    <3>2. CASE c = None /\ ~OpenFits(row.author, row.rec)
      BY <2>2, <3>2 DEF Replay
    <3>3. CASE c # None /\ Fits(c, row.author, row.rec, FALSE)
      <4>1. next = Take(c, row.seq, row.rec)
        BY <2>2, <3>3 DEF Replay
      <4>. QED
        BY <2>3, <3>3, <4>1, TakeTells
    <3>4. CASE c # None /\ ~Fits(c, row.author, row.rec, FALSE)
      <4>1. next = c
        BY <2>2, <3>4 DEF Replay
      <4>. QED
        BY <2>3, <3>4, <4>1
    <3>. QED
      BY <3>1, <3>2, <3>3, <3>4
  <2>5. n + 1 \in 0 .. Len(rs)
    BY <1>1
  <2>. QED
    BY <2>4, <2>5 DEF next
<1>. HIDE DEF Tell
<1>4. \A n \in 0 .. Len(rs) : n \in Tell
  BY <1>1, <1>2, <1>3, Induction
<1>. QED
  BY <1>4 DEF Tell

-----------------------------------------------------------------------------
(* The case as it was *)

(* The case as it was at a revision is a case, of that revision. *)
LEMMA CasesAreSo ==
  ASSUME IInv, FoldInv, NEW n \in 1 .. Len(rows), CaseAt(n) # None
  PROVE  /\ Good(CaseAt(n)) /\ KindFits(CaseAt(n)) /\ EventsTell(CaseAt(n))
         /\ RowsRise(CaseAt(n).events)
         /\ CaseAt(n).revision = n
<1>. DEFINE then == Replays(rows)[n]
<1>1. rows \in Seq(RowType) /\ Len(rows) \in Nat /\ n \in Nat /\ n \in 0 .. Len(rows)
  BY DEF IInv, CaseTypeOK
<1>2. rows[n].seq \in Nat
  <2>1. rows[n] \in RowType
    BY <1>1
  <2>. QED
    BY <2>1 DEF RowType
<1>3. then # None /\ CaseAt(n) = Counted(then, n, rows[n].seq)
  BY CaseAtIs
<1>4. Good(then) /\ KindFits(then) /\ EventsTell(then)
  BY <1>1, <1>3, ReplaysAreGood, ReplaysTell
<1>. HIDE DEF then
<1>5. Good(Counted(then, n, rows[n].seq))
  BY <1>1, <1>2, <1>4, CountedIsGood
<1>6. KindFits(Counted(then, n, rows[n].seq)) /\ EventsTell(Counted(then, n, rows[n].seq))
  BY <1>4, CountedTells
<1>7. /\ Counted(then, n, rows[n].seq).revision = n
      /\ Counted(then, n, rows[n].seq).events = then.events
  BY <1>4 DEF Counted, Good, Cases
<1>8. RowsRise(then.events)
  BY <1>1, <1>3, NothingLater DEF FoldInv, then
<1>. QED
  BY <1>3, <1>5, <1>6, <1>7, <1>8

(* As it is now, it is the case at its last revision. *)
LEMMA CaseIsLast ==
  ASSUME IInv, FoldInv
  PROVE  /\ CaseAt(Len(rows)) = case
         /\ case # None => /\ Len(rows) \in 1 .. Len(rows) /\ case.revision = Len(rows)
                           /\ Good(case) /\ KindFits(case) /\ EventsTell(case)
                           /\ RowsRise(case.events)
<1>1. rows \in Seq(RowType) /\ Len(rows) \in Nat
  BY DEF IInv, CaseTypeOK
<1>2. SubSeq(rows, 1, Len(rows)) = rows
  BY <1>1
<1>3. CaseAt(Len(rows)) = case
  BY <1>2 DEF CaseAt, FoldInv
<1>4. case # None => Len(rows) \in 1 .. Len(rows)
  BY <1>1, CaseIsCounted
<1>. QED
  BY <1>3, <1>4, CasesAreSo

(* Once there is a case there is one ever after. *)
LEMMA StaysACase ==
  ASSUME IInv, FoldInv, NEW n \in 1 .. Len(rows), CaseAt(n) # None
  PROVE  case # None
<1>1. rows \in Seq(RowType) /\ Len(rows) \in Nat /\ Len(rows) \in n .. Len(rows)
        /\ Len(rows) \in 1 .. Len(rows) /\ RowsRise(rows)
  BY DEF IInv, CaseTypeOK, FoldInv
<1>2. Replays(rows)[n] # None
  BY CaseAtIs
<1>3. Replays(rows)[Len(rows)] # None /\ Good(Replays(rows)[Len(rows)])
  BY <1>1, <1>2, SincePath DEF GrownSince
<1>4. case = Counted(Replays(rows)[Len(rows)], Len(rows), HighestSeq(rows))
  BY <1>3 DEF FoldInv, Fold
<1>5. HighestSeq(rows) \in Nat
  BY <1>1, HighestIsLast
<1>. QED
  BY <1>1, <1>3, <1>4, <1>5, CountedIsGood, NoneAssumption DEF Good

-----------------------------------------------------------------------------
(* Following *)

(* A walk passes the state each event since was taken in, and the one it   *)
(* left the case in.                                                       *)
LEMMA WalkIs ==
  ASSUME NEW c, c.events \in Seq(Events), NEW after \in Seq(Events), NEW old \in Nat,
         Len(c.events) = old + Len(after),
         \A k \in 1 .. Len(after) : after[k] = c.events[old + k],
         NEW i \in 1 .. Len(after)
  PROVE  LET walk == Walk(c, after) IN
         /\ walk[i] = c.events[old + i].from /\ walk[i + 1] = LeftIn(c, old + i)
         /\ old + i \in 1 .. Len(c.events)
         /\ i \in 1 .. Len(after) + 1 /\ i + 1 \in 1 .. Len(after) + 1
<1>1. ASSUME NEW m \in Nat, NEW j \in 1 .. m
      PROVE  /\ j \in Nat /\ j \in 1 .. m + 1 /\ j + 1 \in 1 .. m + 1
             /\ j <= m /\ old + j \in 1 .. old + m
             /\ j # m => j + 1 \in 1 .. m /\ old + j < old + m /\ j + 1 <= m
             /\ j = m => ~(j + 1 <= m) /\ ~(old + j < old + m)
             /\ (old + j) + 1 = old + (j + 1)
  BY <1>1
<1>2. Len(after) \in Nat
  OBVIOUS
<1>3. /\ Walk(c, after)[i] = after[i].from
      /\ Walk(c, after)[i + 1] = IF i + 1 <= Len(after) THEN after[i + 1].from ELSE c.state
  BY <1>1, <1>2 DEF Walk
<1>4. Walk(c, after)[i + 1] = LeftIn(c, old + i)
  <2>1. CASE i = Len(after)
    BY <1>1, <1>2, <1>3, <2>1 DEF LeftIn
  <2>2. CASE i # Len(after)
    BY <1>1, <1>2, <1>3, <2>2 DEF LeftIn
  <2>. QED
    BY <2>1, <2>2
<1>. QED
  BY <1>1, <1>2, <1>3, <1>4

(* The walk of a case that has moved: from the state of then to the one of *)
(* now, by every event since, and to no state twice.                       *)
LEMMA MovedWalk ==
  ASSUME IInv, FoldInv, case # None, NEW n \in 1 .. Len(rows), CaseAt(n) # None,
         Since(case, CaseAt(n).revision, CaseAt(n).lastSeq) = "moved"
  PROVE  LET was   == CaseAt(n)
             after == EventsAfter(case, was.lastSeq)
             walk  == Walk(case, after)
             steps == Len(after) IN
         /\ n # Len(rows) /\ steps \in Nat /\ steps > 0
         /\ DOMAIN walk = 1 .. steps + 1 /\ EachStateOnce(walk)
         /\ walk[1] = was.state /\ walk[steps + 1] = case.state
         /\ \E i \in 1 .. steps : ~KeptState(case, after[i])
         /\ \A i \in 1 .. steps : /\ after[i].from = walk[i]
                                /\ Tells(case.kind, after[i].event, walk[i], walk[i + 1])
<1>. DEFINE was == CaseAt(n)
            since == Since(case, was.revision, was.lastSeq)
            after == EventsAfter(case, was.lastSeq)
            walk == Walk(case, after)
            steps == Len(after)
            old == Len(was.events)
<1>1. was.revision = n /\ case.revision = Len(rows) /\ Good(case) /\ EventsTell(case)
        /\ CaseAt(Len(rows)) = case
  BY CasesAreSo, CaseIsLast
<1>2. n # Len(rows) /\ since # "changed" /\ since = "moved"
  BY <1>1 DEF Since
<1>3. /\ after \in Seq(Events) /\ Len(after) > 0 /\ after[1].from = was.state
      /\ old \in Nat /\ Len(case.events) = old + Len(after)
      /\ \A i \in 1 .. Len(after) : after[i] = case.events[old + i]
  BY <1>2, SinceIsSo
<1>4. EachStateOnce(walk) /\ \E i \in DOMAIN after : ~KeptState(case, after[i])
  BY <1>2 DEF Since
<1>5. case.events \in Seq(Events)
  BY <1>1 DEF Good, Cases
<1>. HIDE DEF after, since, was, old
<1>6. steps \in Nat /\ DOMAIN after = 1 .. steps
  BY <1>3
<1>7. DOMAIN walk = 1 .. steps + 1
  BY DEF Walk
<1>8. walk[steps + 1] = case.state
  BY <1>6 DEF Walk
<1>9. ASSUME NEW i \in 1 .. steps
      PROVE  /\ after[i].from = walk[i]
             /\ Tells(case.kind, after[i].event, walk[i], walk[i + 1])
  <2>1. /\ walk[i] = case.events[old + i].from /\ walk[i + 1] = LeftIn(case, old + i)
        /\ old + i \in 1 .. Len(case.events)
    BY <1>3, <1>5, WalkIs, ZenonT(30)
  <2>. HIDE DEF walk
  <2>2. after[i] = case.events[old + i]
    BY <1>3
  <2>. QED
    BY <1>1, <2>1, <2>2 DEF EventsTell
<1>10. walk[1] = was.state
  <2>1. 1 \in 1 .. steps
    BY <1>3, <1>6
  <2>. HIDE DEF walk, steps
  <2>. QED
    BY <1>3, <1>9, <2>1
<1>. HIDE DEF walk, steps
<1>. QED
  BY <1>2, <1>3, <1>4, <1>6, <1>7, <1>8, <1>9, <1>10 DEF was, after, walk, steps

(* A case open then and open now has not moved: it would have come back to *)
(* a state it had left, or every event since was a note or an amend.       *)
LEMMA OpenIsUnmoved ==
  ASSUME IInv, FoldInv, case # None, case.state = "open",
         NEW n \in 1 .. Len(rows), CaseAt(n) # None, CaseAt(n).state = "open"
  PROVE  Since(case, CaseAt(n).revision, CaseAt(n).lastSeq) # "moved"
<1>. DEFINE was == CaseAt(n)
            after == EventsAfter(case, was.lastSeq)
            walk == Walk(case, after)
            steps == Len(after)
<1>. SUFFICES ASSUME Since(case, was.revision, was.lastSeq) = "moved" PROVE FALSE
  OBVIOUS
<1>1. /\ steps \in Nat /\ steps > 0 /\ DOMAIN walk = 1 .. steps + 1 /\ EachStateOnce(walk)
      /\ walk[1] = "open" /\ walk[steps + 1] = "open"
      /\ \E i \in 1 .. steps : ~KeptState(case, after[i])
      /\ \A i \in 1 .. steps : /\ after[i].from = walk[i]
                             /\ Tells(case.kind, after[i].event, walk[i], walk[i + 1])
  BY MovedWalk
<1>. HIDE DEF walk, after, steps
<1>2. \A i \in 1 .. steps + 1 : walk[i] = "open"
  <2>1. ASSUME NEW j \in 1 .. steps + 1, 1 < j, j < steps + 1 PROVE walk[j] = walk[1]
    <3>1. 1 \in DOMAIN walk /\ j \in DOMAIN walk /\ steps + 1 \in DOMAIN walk
      BY <1>1
    <3>2. walk[1] = walk[steps + 1]
      BY <1>1
    <3>3. \A a, b, c \in DOMAIN walk :
            a < b /\ b < c /\ walk[a] = walk[c] => walk[b] = walk[a]
      BY <1>1 DEF EachStateOnce
    <3>. QED
      BY <2>1, <3>1, <3>2, <3>3
  <2>. QED
    BY <1>1, <2>1
<1>3. PICK i \in 1 .. steps : ~KeptState(case, after[i])
  BY <1>1
<1>4. walk[i] = "open" /\ walk[i + 1] = "open"
  BY <1>1, <1>2, <1>3
<1>5. after[i].event \notin {"note", "amend"}
  BY <1>1, <1>3, <1>4 DEF KeptState
<1>. QED
  BY <1>1, <1>3, <1>4, <1>5 DEF Tells

-----------------------------------------------------------------------------
(* The last answer *)

LEMMA HighestNatural ==
  ASSUME NEW S, S \subseteq Nat, S # {}, NEW bound \in Nat, \A n \in S : n <= bound
  PROVE  \E s \in S : \A n \in S : n <= s
<1>. DEFINE T == {bound - n : n \in S}
<1>1. T \subseteq Nat /\ T # {}
  <2>1. \A n \in S : bound - n \in Nat
    OBVIOUS
  <2>. QED
    BY <2>1
<1>2. \E least \in T : \A n \in T : least <= n
  <2>. HIDE DEF T
  <2>. QED
    BY <1>1, LeastNatural
<1>3. PICK s \in S : \A n \in T : bound - s <= n
  BY <1>2
<1>4. \A n \in S : bound - s <= bound - n
  BY <1>3
<1>. QED
  BY <1>3, <1>4

(* It is the answer of the highest seq, if there is one. *)
LEMMA LastAnswerIs ==
  ASSUME NEW c, c.events \in Seq(Events), RowsRise(c.events)
  PROVE  /\ LastAnswer(c) \in Nat
         /\ \A i \in 1 .. Len(c.events) :
              c.events[i].event = "answer" => c.events[i].seq <= LastAnswer(c)
         /\ \/ LastAnswer(c) = 0
            \/ \E i \in 1 .. Len(c.events) :
                  c.events[i].event = "answer" /\ c.events[i].seq = LastAnswer(c)
<1>. DEFINE answers == {e \in {c.events[i] : i \in DOMAIN c.events} : e.event = "answer"}
            Latest(s) == s \in {e.seq : e \in answers} /\ \A e \in answers : e.seq <= s
<1>1. DOMAIN c.events = 1 .. Len(c.events) /\ Len(c.events) \in Nat
        /\ \A i \in 1 .. Len(c.events) : c.events[i].seq \in Nat
  <2>1. /\ DOMAIN c.events = 1 .. Len(c.events) /\ Len(c.events) \in Nat
        /\ \A i \in 1 .. Len(c.events) : c.events[i] \in Events
    OBVIOUS
  <2>2. \A e \in Events : e.seq \in Nat
    BY DEF Events
  <2>. QED
    BY <2>1, <2>2
<1>2. CASE answers = {}
  <2>1. LastAnswer(c) = 0
    BY <1>2 DEF LastAnswer
  <2>. QED
    BY <1>1, <1>2, <2>1
<1>3. CASE answers # {}
  <2>. DEFINE seqs == {e.seq : e \in answers}
              bound == c.events[Len(c.events)].seq
  <2>0. seqs \subseteq Nat /\ seqs # {} /\ bound \in Nat /\ \A s \in seqs : s <= bound
    <3>1. Len(c.events) \in 1 .. Len(c.events)
      BY <1>1, <1>3
    <3>2. \A i \in 1 .. Len(c.events) : c.events[i].seq <= bound
      BY <1>1, <3>1, SMTT(20) DEF RowsRise
    <3>. QED
      BY <1>1, <1>3, <3>1, <3>2
  <2>1. \E s : Latest(s)
    <3>1. \E s \in seqs : \A t \in seqs : t <= s
      <4>. HIDE DEF seqs, bound
      <4>. QED
        BY <2>0, HighestNatural
    <3>. QED
      BY <3>1
  <2>2. LastAnswer(c) = CHOOSE s \in {e.seq : e \in answers} : \A e \in answers : e.seq <= s
    BY <1>3 DEF LastAnswer
  <2>3. Latest(LastAnswer(c))
    BY <2>1, <2>2
  <2>. QED
    BY <1>1, <2>3
<1>. QED
  BY <1>2, <1>3

(* No answer among the events since is the last answer of then. *)
LEMMA NoneSince ==
  ASSUME NEW was, NEW now, was.events \in Seq(Events), now.events \in Seq(Events),
         Len(was.events) <= Len(now.events),
         \A i \in 1 .. Len(was.events) : now.events[i] = was.events[i],
         \A i \in Len(was.events) + 1 .. Len(now.events) : now.events[i].event # "answer"
  PROVE  LastAnswer(now) = LastAnswer(was)
<1>. DEFINE Given(c) == {e \in {c.events[i] : i \in DOMAIN c.events} : e.event = "answer"}
            Latest(answers) == IF answers = {} THEN 0
                               ELSE CHOOSE s \in {e.seq : e \in answers} :
                                      \A e \in answers : e.seq <= s
<1>1. /\ DOMAIN was.events = 1 .. Len(was.events) /\ DOMAIN now.events = 1 .. Len(now.events)
      /\ Len(was.events) \in Nat /\ Len(now.events) \in Nat
  OBVIOUS
<1>2. ASSUME NEW i \in 1 .. Len(now.events), now.events[i].event = "answer"
      PROVE  i \in 1 .. Len(was.events)
  BY <1>1, <1>2
<1>3. \A i \in 1 .. Len(was.events) : i \in 1 .. Len(now.events)
  BY <1>1
<1>4. Given(now) = Given(was)
  BY <1>1, <1>2, <1>3
<1>5. LastAnswer(was) = Latest(Given(was)) /\ LastAnswer(now) = Latest(Given(now))
  BY DEF LastAnswer
<1>. HIDE DEF Given, Latest
<1>. QED
  BY <1>4, <1>5

(* A form to withdraw that follows the case passes no answer but one given *)
(* since a pickup: the case was picked up when an answer came after, or it *)
(* would have come back to answered, where it was.                         *)
LEMMA PassedOn ==
  ASSUME IInv, FoldInv, case # None, NEW n \in 1 .. Len(rows), CaseAt(n) # None,
         ActFits("withdraw", CaseAt(n)),
         Since(case, CaseAt(n).revision, CaseAt(n).lastSeq) # "changed",
         NEW shown, shown.lastAnswer \in Nat, Passed(shown, CaseAt(n))
  PROVE  Passed(shown, case)
<1>. DEFINE was == CaseAt(n)
            since == Since(case, was.revision, was.lastSeq)
            after == EventsAfter(case, was.lastSeq)
            walk == Walk(case, after)
            old == Len(was.events)
<1>1. /\ Good(was) /\ EventsTell(was) /\ RowsRise(was.events) /\ was.revision = n
      /\ Good(case) /\ EventsTell(case) /\ RowsRise(case.events)
      /\ CaseAt(Len(rows)) = case
  BY CasesAreSo, CaseIsLast
<1>. SUFFICES ASSUME n # Len(rows) PROVE Passed(shown, case)
  BY <1>1
<1>2. /\ after \in Seq(Events) /\ old \in Nat /\ Len(case.events) = old + Len(after)
      /\ \A i \in 1 .. Len(after) : after[i] = case.events[old + i] /\ after[i].seq > was.lastSeq
      /\ \A i \in 1 .. old : case.events[i] = was.events[i] /\ was.events[i].seq <= was.lastSeq
      /\ case.kind = was.kind
      /\ case.kind # "message" => Question(was) = Question(case)
      /\ since = "unchanged" => LastAnswer(was) = LastAnswer(case)
  BY SinceIsSo
<1>3. since \in {"unchanged", "moved"}
  BY DEF Since
<1>4. since = "moved" =>
        /\ DOMAIN walk = 1 .. Len(after) + 1 /\ EachStateOnce(walk) /\ walk[1] = was.state
        /\ \A i \in 1 .. Len(after) : Tells(case.kind, after[i].event, walk[i], walk[i + 1])
  BY MovedWalk
<1>5. was.state \in {"answered", "pickedup", "sent"} /\ Passed(shown, was)
  BY DEF ActFits
<1>. HIDE DEF was, after, walk, since
<1>6. /\ was.events \in Seq(Events) /\ case.events \in Seq(Events) /\ Len(after) \in Nat
      /\ DOMAIN was.events = 1 .. old /\ DOMAIN case.events = 1 .. old + Len(after)
      /\ was.lastSeq \in Nat
  <2>1. was.events \in Seq(Events) /\ case.events \in Seq(Events) /\ was.lastSeq \in Nat
    BY <1>1 DEF Good, Cases
  <2>. QED
    BY <1>2, <2>1
<1>. HIDE DEF old
<1>7. /\ \A i \in 1 .. old : was.events[i].seq \in Nat
      /\ \A i \in 1 .. Len(after) : after[i].seq \in Nat
  <2>1. /\ \A i \in 1 .. old : was.events[i] \in Events
        /\ \A i \in 1 .. Len(after) : after[i] \in Events
    BY <1>2, <1>6
  <2>2. \A e \in Events : e.seq \in Nat
    BY DEF Events
  <2>. QED
    BY <2>1, <2>2
<1>8. CASE LastAnswer(case) = LastAnswer(was)
  <2>1. 1 .. old \subseteq 1 .. old + Len(after)
    BY <1>2, <1>6
  <2>2. \A i \in DOMAIN was.events : i \in DOMAIN case.events /\ case.events[i] = was.events[i]
    BY <1>2, <1>6, <2>1
  <2>. QED
    BY <1>2, <1>5, <1>8, <2>2 DEF Passed
<1>9. CASE LastAnswer(case) # LastAnswer(was)
  <2>1. since = "moved"
    BY <1>2, <1>3, <1>9
  <2>2. /\ DOMAIN walk = 1 .. Len(after) + 1 /\ EachStateOnce(walk) /\ walk[1] = was.state
        /\ \A i \in 1 .. Len(after) : Tells(case.kind, after[i].event, walk[i], walk[i + 1])
    BY <1>4, <2>1
  <2>3. PICK i \in 1 .. Len(after) : after[i].event = "answer"
    <3>. SUFFICES ASSUME \A i \in 1 .. Len(after) : after[i].event # "answer" PROVE FALSE
      OBVIOUS
    <3>1. ASSUME NEW m \in Nat, NEW k \in Nat, NEW h \in k + 1 .. k + m
          PROVE  h - k \in 1 .. m /\ k + (h - k) = h
      OBVIOUS
    <3>2. \A j \in old + 1 .. Len(case.events) : case.events[j].event # "answer"
      <4>. SUFFICES ASSUME NEW j \in old + 1 .. old + Len(after)
                    PROVE  case.events[j].event # "answer"
        BY <1>2
      <4>1. j - old \in 1 .. Len(after) /\ old + (j - old) = j
        BY <1>2, <1>6, <3>1
      <4>. QED
        BY <1>2, <4>1
    <3>3. Len(was.events) <= Len(case.events)
      BY <1>2, <1>6 DEF old
    <3>4. \A j \in 1 .. Len(was.events) : case.events[j] = was.events[j]
      BY <1>2 DEF old
    <3>5. LastAnswer(case) = LastAnswer(was)
      BY <1>6, <3>2, <3>3, <3>4, NoneSince DEF old
    <3>. QED
      BY <1>9, <3>5
  <2>4. walk[i] = "open" /\ walk[i + 1] = "answered" /\ case.kind # "message"
    BY <2>2, <2>3 DEF Tells
  <2>5. was.state = "pickedup"
    <3>1. was.state # "sent"
      BY <1>1, <1>2, <2>4 DEF Good, StateFits
    <3>2. i # 1
      BY <1>5, <2>2, <2>4
    <3>3. 1 \in DOMAIN walk /\ i \in DOMAIN walk /\ i + 1 \in DOMAIN walk /\ 1 < i /\ i < i + 1
      BY <1>6, <2>2, <3>2
    <3>4. walk[1] # "answered"
      BY <2>4, <2>2, <3>3, ZenonT(30) DEF EachStateOnce
    <3>. QED
      BY <1>5, <2>2, <3>1, <3>4
  <2>6. old > 1 /\ was.events[old].event = "pickup"
    <3>1. old \in 1 .. old /\ LeftIn(was, old) = "pickedup" /\ old > 0
      BY <1>1, <1>2, <2>5 DEF EventsTell, LeftIn, old
    <3>2. was.events[old].event = "pickup"
      BY <1>1, <3>1 DEF EventsTell, Tells, old
    <3>3. old # 1
      BY <1>1, <3>2 DEF EventsTell
    <3>4. \A k \in Nat : k > 0 /\ k # 1 => k > 1
      OBVIOUS
    <3>. QED
      BY <1>2, <3>1, <3>2, <3>3, <3>4
  <2>7. /\ old \in 1 .. old /\ 1 \in 1 .. old /\ old \in 1 .. old + Len(after)
        /\ \A k \in 1 .. old : k # old => k < old
        /\ old + i \in 1 .. old + Len(after)
    BY <1>2, <1>6, <2>6
  <2>8. LastAnswer(was) \in Nat /\ LastAnswer(was) < was.events[old].seq
    <3>1. /\ LastAnswer(was) \in Nat
          /\ \/ LastAnswer(was) = 0
             \/ \E k \in 1 .. old : /\ was.events[k].event = "answer"
                                    /\ was.events[k].seq = LastAnswer(was)
      BY <1>1, <1>6, LastAnswerIs DEF old
    <3>2. \A k \in 1 .. old : k # old => was.events[k].seq < was.events[old].seq
      BY <1>1, <1>6, <2>7 DEF RowsRise
    <3>3. CASE LastAnswer(was) = 0
      <4>1. /\ was.events[1].seq < was.events[old].seq /\ was.events[1].seq \in Nat
            /\ was.events[old].seq \in Nat
        BY <1>2, <1>7, <2>6, <2>7, <3>2
      <4>2. \A a, b \in Nat : a < b => 0 < b
        OBVIOUS
      <4>. QED
        BY <3>1, <3>3, <4>1, <4>2
    <3>4. ASSUME NEW k \in 1 .. old, was.events[k].event = "answer",
                 was.events[k].seq = LastAnswer(was)
          PROVE  LastAnswer(was) < was.events[old].seq
      BY <2>6, <3>2, <3>4
    <3>. QED
      BY <3>1, <3>3, <3>4
  <2>9. /\ was.events[old].seq < LastAnswer(case) /\ LastAnswer(case) \in Nat
        /\ was.events[old].seq \in Nat
    <3>1. LastAnswer(case) \in Nat /\ case.events[old + i].seq <= LastAnswer(case)
      <4>1. case.events[old + i].event = "answer" /\ old + i \in 1 .. Len(case.events)
        BY <1>2, <2>3, <2>7
      <4>. QED
        BY <1>1, <1>6, <4>1, LastAnswerIs
    <3>2. /\ was.events[old].seq <= was.lastSeq /\ was.events[old].seq \in Nat
          /\ case.events[old + i].seq > was.lastSeq /\ case.events[old + i].seq \in Nat
      BY <1>2, <1>7, <2>3, <2>7
    <3>3. \A a, b, c, d \in Nat : a <= b /\ c > b /\ c <= d => a < d
      OBVIOUS
    <3>. QED
      BY <1>6, <3>1, <3>2, <3>3
  <2>10. shown.lastAnswer <= LastAnswer(was)
    <3>1. \A a, b, c \in Nat : a < b /\ b < c => a <= c
      OBVIOUS
    <3>. QED
      BY <1>5, <1>6, <1>7, <2>8, <3>1, SMTT(20) DEF Passed
  <2>11. shown.lastAnswer < was.events[old].seq
    <3>1. \A a, b, c \in Nat : a <= b /\ b < c => a < c
      OBVIOUS
    <3>. QED
      BY <2>8, <2>9, <2>10, <3>1
  <2>12. old \in DOMAIN case.events /\ case.events[old] = was.events[old]
    BY <1>2, <1>6, <2>7
  <2>. QED
    BY <1>2, <1>5, <2>6, <2>9, <2>11, <2>12 DEF Passed
<1>. QED
  BY <1>8, <1>9

(* What a form is opened on passes nothing. *)
LEMMA ShownPasses ==
  ASSUME NEW c, Good(c), RowsRise(c.events)
  PROVE  Shown(c).lastAnswer \in Nat /\ Passed(Shown(c), c)
<1>1. c.events \in Seq(Events)
  BY DEF Good, Cases
<1>2. LastAnswer(c) \in Nat
  BY <1>1, LastAnswerIs
<1>3. Shown(c).lastAnswer = LastAnswer(c) /\ Shown(c).question = Question(c)
  BY DEF Shown
<1>. QED
  BY <1>2, <1>3 DEF Passed

(* What a form takes of the case, field by field. *)
LEMMA MarksTaken ==
  ASSUME NEW f, DOMAIN f = FormFields, NEW c
  PROVE  LET g == TakeMarks(f, c) IN
         /\ DOMAIN g = FormFields
         /\ g.revision = c.revision /\ g.amendSeq = c.amendSeq /\ g.seq = c.lastSeq
         /\ g.act = f.act /\ g.rows = f.rows /\ g.shown = f.shown
         /\ TicksAreSo(f) => TicksAreSo(g)
BY DEF TakeMarks, FormFields, TicksAreSo

LEMMA OptionsTaken ==
  ASSUME NEW f, DOMAIN f = FormFields, NEW c
  PROVE  LET g == TakeOptions(f, c) IN
         /\ DOMAIN g = FormFields
         /\ g.options = c.options /\ g.leftOut = c.leftOut
         /\ g.ticks = IF f.leftOut = c.leftOut THEN f.ticks ELSE {}
         /\ g.meant = IF f.leftOut = c.leftOut THEN f.meant ELSE {}
         /\ \A x \in FormFields \ {"options", "leftOut", "ticks", "meant"} : g[x] = f[x]
BY DEF TakeOptions, FormFields

(* Ticks by number name what they named, in a list that is the same one. *)
LEMMA TicksFollow ==
  ASSUME NEW f, DOMAIN f = FormFields, TicksAreSo(f), NEW c, Good(c), KindFits(c)
  PROVE  TicksAreSo(TakeOptions(f, c))
<1>. DEFINE g == TakeOptions(f, c)
<1>1. /\ g.leftOut = c.leftOut
      /\ g.ticks = IF f.leftOut = c.leftOut THEN f.ticks ELSE {}
      /\ g.meant = IF f.leftOut = c.leftOut THEN f.meant ELSE {}
  BY OptionsTaken
<1>2. c.leftOut \in Seq(Items) /\ NoneTwice(c.leftOut)
  BY DEF Good, Cases, KindFits
<1>. HIDE DEF g
<1>3. TicksAreSo(g)
  BY <1>1, <1>2 DEF TicksAreSo
<1>. QED
  BY <1>3 DEF g

(***************************************************************************)
(* A form that follows a read fits the case it read: what the human had    *)
(* before them is carried along only where the case is unchanged, for a    *)
(* form to answer or park finds it open at both ends.                      *)
(***************************************************************************)
LEMMA FollowFits ==
  ASSUME IInv, FoldInv, NEW f, NEW v, v.revision \in 1 .. Len(rows),
         FormFits(f, v, CaseAt(f.revision)), ActFits(f.act, case)
  PROVE  LET g == Follow(f, case) IN
         FormFits(g, case, CaseAt(g.revision)) /\ g.act = f.act
<1>. DEFINE n == f.revision
            was == CaseAt(n)
            since == Since(case, f.revision, f.seq)
            take == since = "unchanged" \/ (since = "moved" /\ ActFits(f.act, case))
            m == IF take THEN TakeMarks(f, case) ELSE f
            g == TakeOptions(m, case)
<1>0. rows \in Seq(RowType) /\ Len(rows) \in Nat
  BY DEF IInv, CaseTypeOK
<1>1. n \in 1 .. Len(rows) /\ was # None /\ DOMAIN f = FormFields /\ f.act \in Acts
        /\ f.seq = was.lastSeq /\ TicksAreSo(f) /\ ActFits(f.act, was)
        /\ (f.act # "withdraw" => f.rows = was.rows /\ f.shown = Shown(was))
        /\ (f.act = "withdraw" => f.shown.lastAnswer \in Nat /\ Passed(f.shown, was))
        /\ f.rows \subseteq RowIds
  BY <1>0 DEF FormFits
<1>2. case # None
  BY <1>1, StaysACase
<1>3. /\ case.revision = Len(rows) /\ Len(rows) \in 1 .. Len(rows) /\ CaseAt(Len(rows)) = case
      /\ Good(case) /\ KindFits(case) /\ was.revision = n
  BY <1>1, <1>2, CaseIsLast, CasesAreSo
<1>4. take /\ f.act # "withdraw" => f.rows = case.rows /\ f.shown = Shown(case)
  <2>. SUFFICES ASSUME take, f.act # "withdraw"
                PROVE  f.rows = case.rows /\ f.shown = Shown(case)
    OBVIOUS
  <2>1. was.state = "open" /\ case.state = "open" /\ case.kind # "message"
    BY <1>1 DEF ActFits
  <2>2. since = "unchanged"
    BY <1>1, <1>2, <1>3, <2>1, OpenIsUnmoved
  <2>3. CASE n = Len(rows)
    BY <1>1, <1>3, <2>3
  <2>4. CASE n # Len(rows)
    <3>1. LastAnswer(was) = LastAnswer(case) /\ Question(was) = Question(case)
      BY <1>1, <1>2, <1>3, <2>1, <2>2, <2>4, SinceIsSo
    <3>. HIDE DEF was
    <3>2. Shown(was) = Shown(case)
      BY <3>1 DEF Shown
    <3>3. was.rows = case.rows
      BY <3>1 DEF Question
    <3>. QED
      BY <1>1, <2>2, <3>2, <3>3
  <2>. QED
    BY <2>3, <2>4
<1>5. take /\ f.act = "withdraw" => f.shown.lastAnswer \in Nat /\ Passed(f.shown, case)
  <2>. SUFFICES ASSUME take, f.act = "withdraw" PROVE Passed(f.shown, case)
    BY <1>1
  <2>1. Since(case, was.revision, was.lastSeq) # "changed"
    BY <1>1, <1>3
  <2>2. ActFits("withdraw", was) /\ f.shown.lastAnswer \in Nat /\ Passed(f.shown, was)
    BY <1>1
  <2>. QED
    BY <1>1, <1>2, <2>1, <2>2, PassedOn
<1>. HIDE DEF take, was
<1>6. /\ DOMAIN m = FormFields /\ m.act = f.act /\ m.rows = f.rows /\ m.shown = f.shown
      /\ TicksAreSo(m)
      /\ take => m.revision = Len(rows) /\ m.amendSeq = case.amendSeq /\ m.seq = case.lastSeq
      /\ ~take => m = f
  <2>1. CASE take
    <3>1. m = TakeMarks(f, case)
      BY <2>1
    <3>. HIDE DEF m
    <3>2. DOMAIN f = FormFields /\ TicksAreSo(f)
      BY <1>1
    <3>3. /\ DOMAIN m = FormFields /\ m.act = f.act /\ m.rows = f.rows /\ m.shown = f.shown
          /\ TicksAreSo(m)
          /\ m.revision = case.revision /\ m.amendSeq = case.amendSeq /\ m.seq = case.lastSeq
      BY <3>1, <3>2, MarksTaken
    <3>. QED
      BY <1>3, <2>1, <3>3
  <2>2. CASE ~take
    BY <1>1, <2>2
  <2>. QED
    BY <2>1, <2>2
<1>. HIDE DEF m
<1>7. /\ DOMAIN g = FormFields /\ g.options = case.options /\ g.leftOut = case.leftOut
      /\ \A x \in FormFields \ {"options", "leftOut", "ticks", "meant"} : g[x] = m[x]
  BY <1>6, OptionsTaken
<1>8. TicksAreSo(g)
  BY <1>3, <1>6, TicksFollow
<1>. HIDE DEF g
<1>9. /\ g.act = f.act /\ g.rows = f.rows /\ g.shown = f.shown /\ g.revision = m.revision
      /\ g.amendSeq = m.amendSeq /\ g.seq = m.seq
  BY <1>6, <1>7 DEF FormFields
<1>10. case.options \in Nat
  BY <1>3 DEF Good, Cases
<1>11. FormFits(g, case, CaseAt(g.revision))
  <2>1. CASE take
    <3>1. g.revision = Len(rows) /\ CaseAt(g.revision) = case
      BY <1>3, <1>6, <1>9, <2>1
    <3>. QED
      BY <1>1, <1>2, <1>3, <1>4, <1>6, <1>7, <1>8, <1>9, <1>10, <1>5, <2>1, <3>1 DEF FormFits
  <2>2. CASE ~take
    <3>1. g.revision = n /\ CaseAt(g.revision) = was /\ g.amendSeq = f.amendSeq /\ g.seq = f.seq
      BY <1>6, <1>9, <2>2 DEF was
    <3>2. f.amendSeq = was.amendSeq
      BY DEF FormFits, was
    <3>. QED
      BY <1>1, <1>3, <1>7, <1>8, <1>9, <1>10, <3>1, <3>2 DEF FormFits
  <2>. QED
    BY <2>1, <2>2
<1>12. Follow(f, case) = g
  BY DEF Follow, g, m, take
<1>. QED
  BY <1>9, <1>11, <1>12

(* So does one the human was told to read again. *)
LEMMA AmendedFits ==
  ASSUME IInv, FoldInv, NEW f, NEW v, v.revision \in 1 .. Len(rows),
         FormFits(f, v, CaseAt(f.revision))
  PROVE  LET a == Amended(f, case) IN
         /\ a.act = f.act
         /\ ActFits(f.act, case) => FormFits(a, case, CaseAt(a.revision))
<1>. DEFINE m == TakeMarks(f, case)
            g == TakeOptions(m, case)
            a == Amended(f, case)
<1>0. rows \in Seq(RowType) /\ Len(rows) \in Nat
  BY DEF IInv, CaseTypeOK
<1>1. /\ f.revision \in 1 .. Len(rows) /\ CaseAt(f.revision) # None /\ DOMAIN f = FormFields
      /\ f.act \in Acts /\ TicksAreSo(f)
  BY <1>0 DEF FormFits
<1>2. case # None
  BY <1>1, StaysACase
<1>3. /\ case.revision = Len(rows) /\ Len(rows) \in 1 .. Len(rows) /\ CaseAt(Len(rows)) = case
      /\ Good(case) /\ KindFits(case)
      /\ Shown(case).lastAnswer \in Nat /\ Passed(Shown(case), case)
  BY <1>2, CaseIsLast, ShownPasses
<1>4. case.options \in Nat /\ case.rows \subseteq RowIds
  BY <1>3 DEF Good, Cases
<1>5. /\ DOMAIN m = FormFields /\ m.act = f.act
      /\ m.revision = Len(rows) /\ m.amendSeq = case.amendSeq /\ m.seq = case.lastSeq
      /\ TicksAreSo(m)
  BY <1>1, <1>3, MarksTaken, ZenonT(30)
<1>6. a = [g EXCEPT !.rows = case.rows, !.shown = Shown(case)]
  BY DEF Amended
<1>. HIDE DEF m
<1>7. /\ DOMAIN g = FormFields /\ g.options = case.options /\ g.leftOut = case.leftOut
      /\ \A x \in FormFields \ {"options", "leftOut", "ticks", "meant"} : g[x] = m[x]
  BY <1>5, OptionsTaken
<1>8. TicksAreSo(g)
  BY <1>3, <1>5, TicksFollow
<1>. HIDE DEF g, a
<1>9. /\ DOMAIN a = FormFields /\ a.rows = case.rows /\ a.shown = Shown(case)
      /\ a.options = g.options /\ a.leftOut = g.leftOut /\ a.ticks = g.ticks /\ a.meant = g.meant
      /\ a.act = g.act /\ a.revision = g.revision /\ a.amendSeq = g.amendSeq /\ a.seq = g.seq
  BY <1>6, <1>7 DEF FormFields
<1>10. TicksAreSo(a)
  BY <1>8, <1>9 DEF TicksAreSo
<1>11. /\ g.act = f.act /\ g.revision = Len(rows) /\ g.amendSeq = case.amendSeq
       /\ g.seq = case.lastSeq
  BY <1>5, <1>7 DEF FormFields
<1>12. ActFits(f.act, case) => FormFits(a, case, CaseAt(a.revision))
  <2>. SUFFICES ASSUME ActFits(f.act, case) PROVE FormFits(a, case, CaseAt(a.revision))
    OBVIOUS
  <2>1. CaseAt(a.revision) = case /\ a.revision = case.revision /\ a.act = f.act
    BY <1>3, <1>9, <1>11
  <2>2. /\ a.options = case.options /\ a.leftOut = case.leftOut /\ a.amendSeq = case.amendSeq
        /\ a.seq = case.lastSeq
    BY <1>7, <1>9, <1>11
  <2>. QED
    BY <1>1, <1>2, <1>3, <1>4, <1>9, <1>10, <2>1, <2>2 DEF FormFits
<1>. QED
  BY <1>9, <1>11, <1>12 DEF a

-----------------------------------------------------------------------------
(* Steps *)

LEMMA NextGrows ==
  ASSUME IInv, CaseNext
  PROVE  \E row : rows' = Append(rows, row)
<1>1. ASSUME NEW R, AppendAny(R)
      PROVE  \E row : rows' = Append(rows, row)
  BY <1>1 DEF AppendAny, AppendTo
<1>2. CASE OpenAny
  BY <1>2 DEF OpenAny, OpenCase
<1>3. CASE Stored
  BY <1>3 DEF Stored, StoreRow
<1>. QED
  BY <1>1, <1>2, <1>3 DEF CaseNext, Amend, Answer, Pickup, Note, Close, Withdraw, Park, Resume

(* A row more leaves the view and the form what they were, and a write     *)
(* still out behind.                                                       *)
LEMMA GrowKeeps ==
  ASSUME FormInv, NEW row, rows' = Append(rows, row), UNCHANGED <<view, form>>
  PROVE  /\ ViewIsSo' /\ FormIsSo'
         /\ sending' = sending => SentIsSo'
<1>1. /\ rows \in Seq(RowType) /\ Len(rows) \in Nat /\ Len(rows') = Len(rows) + 1
      /\ 1 .. Len(rows) \subseteq 1 .. Len(rows') /\ Len(rows') \notin 1 .. Len(rows)
  <2>1. rows \in Seq(RowType) /\ Len(rows) \in Nat
    BY DEF FormInv, IInv, CaseTypeOK
  <2>2. Len(rows') = Len(rows) + 1
    BY <2>1
  <2>. QED
    BY <2>1, <2>2
<1>2. \A n \in 1 .. Len(rows) : Fold(SubSeq(rows', 1, n)) = CaseAt(n)
  <2>. SUFFICES ASSUME NEW n \in 1 .. Len(rows)
                PROVE  Fold(SubSeq(rows', 1, n)) = CaseAt(n)
    OBVIOUS
  <2>1. SubSeq(rows', 1, n) = SubSeq(rows, 1, n)
    BY <1>1
  <2>. QED
    BY <2>1 DEF CaseAt
<1>3. ViewIsSo'
  BY <1>1, <1>2 DEF FormInv, ViewIsSo, CaseAt
<1>4. FormIsSo'
  <2>. SUFFICES ASSUME form # None
                PROVE  view # None /\ FormFits(form, view, Fold(SubSeq(rows', 1, form.revision)))
    BY DEF FormIsSo, CaseAt
  <2>1. view # None /\ FormFits(form, view, CaseAt(form.revision))
    BY DEF FormInv, FormIsSo
  <2>2. view.revision \in 1 .. Len(rows) /\ form.revision \in 1 .. view.revision
    BY <2>1 DEF FormInv, ViewIsSo, FormFits
  <2>3. form.revision \in 1 .. Len(rows)
    BY <1>1, <2>2
  <2>. QED
    BY <1>2, <2>1, <2>3
<1>5. sending' = sending => SentIsSo'
  BY <1>1 DEF FormInv, SentIsSo
<1>. QED
  BY <1>3, <1>4, <1>5

LEMMA OthersKeep ==
  ASSUME FormInv, OthersWrite
  PROVE  FormInv'
<1>1. IInv' /\ FoldInv'
  BY NextKeepsIInv, NextFolds DEF FormInv, OthersWrite
<1>2. PICK row : rows' = Append(rows, row)
  BY NextGrows DEF FormInv, OthersWrite
<1>. QED
  BY <1>1, <1>2, GrowKeeps DEF FormInv, OthersWrite

(* What moves neither the rows nor the case. *)
LEMMA NothingWritten ==
  ASSUME FormInv, UNCHANGED <<rows, case>>
  PROVE  IInv' /\ FoldInv' /\ \A n : Fold(SubSeq(rows', 1, n)) = CaseAt(n)
BY DEF FormInv, IInv, CaseTypeOK, CaseInv, FoldInv, CaseAt

(* What the inbox shows is a case it could have read. *)
LEMMA ViewIsACase ==
  ASSUME FormInv, view # None
  PROVE  /\ view.revision \in 1 .. Len(rows) /\ view = CaseAt(view.revision)
         /\ Good(view) /\ KindFits(view) /\ RowsRise(view.events) /\ case # None
         /\ view.revision = Len(rows) => view = case
<1>1. view.revision \in 1 .. Len(rows) /\ view = CaseAt(view.revision) /\ IInv /\ FoldInv
  BY DEF FormInv, ViewIsSo
<1>2. Good(view) /\ KindFits(view) /\ RowsRise(view.events)
  BY <1>1, CasesAreSo
<1>3. case # None
  BY <1>1, StaysACase
<1>4. CaseAt(Len(rows)) = case
  BY <1>1, CaseIsLast
<1>. QED
  BY <1>1, <1>2, <1>3, <1>4

LEMMA StartKeeps ==
  ASSUME FormInv, NEW act \in Acts, StartForm(act)
  PROVE  FormInv'
<1>. DEFINE f == Drawn(act, view)
<1>1. view # None /\ ActFits(act, view) /\ form' = f /\ UNCHANGED <<rows, case, view, sending>>
  BY DEF StartForm
<1>2. /\ view.revision \in 1 .. Len(rows) /\ view = CaseAt(view.revision)
      /\ Good(view) /\ KindFits(view)
      /\ Shown(view).lastAnswer \in Nat /\ Passed(Shown(view), view)
  BY <1>1, ViewIsACase, ShownPasses
<1>3. view.options \in Nat /\ view.rows \subseteq RowIds /\ view.leftOut \in Seq(Items)
  BY <1>2 DEF Good, Cases
<1>4. Len(rows) \in Nat
  BY DEF FormInv, IInv, CaseTypeOK
<1>5. /\ DOMAIN f = FormFields /\ f.act = act /\ f.revision = view.revision
      /\ f.amendSeq = view.amendSeq /\ f.seq = view.lastSeq /\ f.options = view.options
      /\ f.rows = view.rows /\ f.leftOut = view.leftOut /\ f.ticks = {} /\ f.meant = {}
      /\ f.shown = Shown(view)
  BY DEF Drawn, FormFields
<1>. HIDE DEF f
<1>6. TicksAreSo(f)
  BY <1>2, <1>3, <1>5 DEF TicksAreSo, KindFits
<1>7. FormFits(f, view, CaseAt(f.revision))
  BY <1>1, <1>2, <1>3, <1>4, <1>5, <1>6 DEF FormFits
<1>8. IInv' /\ FoldInv' /\ \A n : Fold(SubSeq(rows', 1, n)) = CaseAt(n)
  BY <1>1, NothingWritten
<1>9. ViewIsSo' /\ SentIsSo'
  BY <1>1 DEF FormInv, ViewIsSo, SentIsSo, CaseAt
<1>10. FormIsSo'
  BY <1>1, <1>7, <1>8 DEF FormIsSo, CaseAt
<1>. QED
  BY <1>8, <1>9, <1>10 DEF FormInv

LEMMA CancelKeeps ==
  ASSUME FormInv, CancelForm
  PROVE  FormInv'
<1>1. IInv' /\ FoldInv'
  BY NothingWritten DEF CancelForm
<1>2. ViewIsSo' /\ SentIsSo' /\ FormIsSo'
  BY DEF CancelForm, FormInv, ViewIsSo, SentIsSo, FormIsSo, CaseAt
<1>. QED
  BY <1>1, <1>2 DEF FormInv

(* A list that names no item twice: unticking a number takes back what     *)
(* that number named, and nothing another number ticked names.             *)
LEMMA TickKeeps ==
  ASSUME FormInv, NEW n, TickItem(n)
  PROVE  FormInv'
<1>. DEFINE item == {form.leftOut[n]}
            ticks == IF n \notin form.ticks THEN form.ticks \cup {n} ELSE form.ticks \ {n}
            meant == IF n \notin form.ticks THEN form.meant \cup item ELSE form.meant \ item
<1>1. /\ form # None /\ n \in DOMAIN form.leftOut /\ UNCHANGED <<rows, case, view, sending>>
      /\ form' = [form EXCEPT !.ticks = ticks, !.meant = meant]
  BY DEF TickItem
<1>2. view # None /\ FormFits(form, view, CaseAt(form.revision)) /\ TicksAreSo(form)
        /\ DOMAIN form = FormFields
  BY <1>1 DEF FormInv, FormIsSo, FormFits
<1>3. ticks \subseteq DOMAIN form.leftOut /\ meant = {form.leftOut[k] : k \in ticks}
  <2>1. CASE n \notin form.ticks
    BY <1>1, <1>2, <2>1 DEF TicksAreSo
  <2>2. CASE n \in form.ticks
    <3>1. \A k \in form.ticks : form.leftOut[k] = form.leftOut[n] => k = n
      BY <1>1, <1>2 DEF TicksAreSo, NoneTwice
    <3>. QED
      BY <1>1, <1>2, <2>2, <3>1 DEF TicksAreSo
  <2>. QED
    BY <2>1, <2>2
<1>. HIDE DEF ticks, meant
<1>4. /\ DOMAIN form' = FormFields /\ form'.ticks = ticks /\ form'.meant = meant
      /\ form'.act = form.act /\ form'.revision = form.revision
      /\ form'.amendSeq = form.amendSeq /\ form'.seq = form.seq
      /\ form'.options = form.options /\ form'.rows = form.rows
      /\ form'.leftOut = form.leftOut /\ form'.shown = form.shown
  BY <1>1, <1>2 DEF FormFields
<1>5. TicksAreSo(form')
  BY <1>2, <1>3, <1>4 DEF TicksAreSo
<1>6. FormFits(form', view, CaseAt(form.revision))
  BY <1>2, <1>4, <1>5 DEF FormFits
<1>7. IInv' /\ FoldInv' /\ \A k : Fold(SubSeq(rows', 1, k)) = CaseAt(k)
  BY <1>1, NothingWritten
<1>8. ViewIsSo' /\ SentIsSo'
  BY <1>1 DEF FormInv, ViewIsSo, SentIsSo, CaseAt
<1>9. FormIsSo'
  BY <1>1, <1>2, <1>4, <1>6, <1>7 DEF FormIsSo, CaseAt
<1>. QED
  BY <1>7, <1>8, <1>9 DEF FormInv

(* A read: the form follows, or is left behind while a write of it is out. *)
LEMMA ReadKeeps ==
  ASSUME FormInv, ReadCase
  PROVE  FormInv'
<1>1. /\ case # None /\ case # view /\ view' = case /\ UNCHANGED <<rows, case, sending>>
      /\ form' = FollowForm(form, case, sending)
  BY DEF ReadCase
<1>2. /\ IInv /\ FoldInv /\ Len(rows) \in Nat
      /\ case.revision = Len(rows) /\ Len(rows) \in 1 .. Len(rows) /\ CaseAt(Len(rows)) = case
  BY <1>1, CaseIsLast DEF FormInv, IInv, CaseTypeOK
<1>3. IInv' /\ FoldInv' /\ \A n : Fold(SubSeq(rows', 1, n)) = CaseAt(n)
  BY <1>1, NothingWritten
<1>4. ViewIsSo'
  BY <1>1, <1>2, <1>3 DEF ViewIsSo, CaseAt
<1>5. SentIsSo'
  BY <1>1 DEF FormInv, SentIsSo
<1>6. form' # None => FormFits(form', case, CaseAt(form'.revision))
  <2>. SUFFICES ASSUME form # None, form' # None
                PROVE  FormFits(form', case, CaseAt(form'.revision))
    BY <1>1 DEF FollowForm
  <2>1. /\ view # None /\ view.revision \in 1 .. Len(rows)
        /\ FormFits(form, view, CaseAt(form.revision)) /\ view.revision # Len(rows)
    BY <1>1, ViewIsACase DEF FormInv, FormIsSo
  <2>2. CASE ActFits(form.act, case)
    <3>1. form' = Follow(form, case)
      BY <1>1, <2>2 DEF FollowForm
    <3>. QED
      BY <1>2, <2>1, <2>2, <3>1, FollowFits
  <2>3. CASE ~ActFits(form.act, case)
    <3>1. form' = form
      BY <1>1, <2>3 DEF FollowForm
    <3>2. form.revision \in 1 .. view.revision
      BY <2>1 DEF FormFits
    <3>3. form.revision \in 1 .. case.revision /\ form.revision # case.revision
      BY <1>2, <2>1, <3>2
    <3>. QED
      BY <2>1, <3>1, <3>3 DEF FormFits
  <2>. QED
    BY <2>2, <2>3
<1>7. FormIsSo'
  BY <1>1, <1>3, <1>6 DEF FormIsSo, CaseAt
<1>. QED
  BY <1>3, <1>4, <1>5, <1>7 DEF FormInv

(* The read after a write lands: nothing is out any more, so a form the    *)
(* case no longer takes goes.                                              *)
LEMMA LandedKeeps ==
  ASSUME FormInv, Landed
  PROVE  FormInv'
<1>. DEFINE followed == FollowForm(form, case, sending)
            told == IF followed = None \/ sending.result = "taken" THEN None
                    ELSE IF sending.result = "stale" THEN Amended(followed, case)
                    ELSE followed
<1>1. /\ view' = case /\ sending' = None /\ UNCHANGED <<rows, case>>
      /\ form' = FollowForm(told, case, None)
  BY DEF Landed
<1>2. IInv /\ FoldInv /\ Len(rows) \in Nat /\ CaseAt(Len(rows)) = case
  BY CaseIsLast DEF FormInv, IInv, CaseTypeOK
<1>3. IInv' /\ FoldInv' /\ \A n : Fold(SubSeq(rows', 1, n)) = CaseAt(n)
  BY <1>1, NothingWritten
<1>4. ViewIsSo'
  BY <1>1, <1>2, <1>3, CaseIsLast DEF ViewIsSo, CaseAt
<1>5. SentIsSo'
  BY <1>1 DEF SentIsSo
<1>6. form' # None => case # None /\ FormFits(form', case, CaseAt(form'.revision))
  <2>. SUFFICES ASSUME form' # None
                PROVE  case # None /\ FormFits(form', case, CaseAt(form'.revision))
    OBVIOUS
  <2>1. told # None /\ ActFits(told.act, case) /\ form' = Follow(told, case)
    BY <1>1 DEF FollowForm
  <2>2. followed # None /\ form # None
    BY <2>1 DEF FollowForm
  <2>3. /\ view # None /\ view.revision \in 1 .. Len(rows) /\ case # None
        /\ FormFits(form, view, CaseAt(form.revision))
    BY <2>2, ViewIsACase DEF FormInv, FormIsSo
  <2>4. case.revision \in 1 .. Len(rows)
    BY <1>2, <2>3, CaseIsLast
  <2>5. \/ followed = form /\ ~ActFits(form.act, case)
        \/ /\ followed = Follow(form, case) /\ ActFits(form.act, case)
           /\ FormFits(followed, case, CaseAt(followed.revision)) /\ followed.act = form.act
    <3>1. CASE ActFits(form.act, case)
      <4>1. followed = Follow(form, case)
        BY <2>2, <3>1 DEF FollowForm
      <4>. HIDE DEF followed
      <4>. QED
        BY <1>2, <2>3, <3>1, <4>1, FollowFits
    <3>2. CASE ~ActFits(form.act, case)
      BY <2>2, <3>2 DEF FollowForm
    <3>. QED
      BY <3>1, <3>2
  <2>. HIDE DEF followed
  <2>6. told = Amended(followed, case) \/ told = followed
    BY <2>1
  <2>. HIDE DEF told
  <2>7. \E v : v.revision \in 1 .. Len(rows) /\ FormFits(followed, v, CaseAt(followed.revision))
    BY <2>3, <2>4, <2>5
  <2>8. told.act = followed.act
    BY <1>2, <2>6, <2>7, AmendedFits
  <2>9. /\ ActFits(form.act, case) /\ followed.act = form.act
        /\ FormFits(followed, case, CaseAt(followed.revision))
    BY <2>1, <2>5, <2>8
  <2>10. FormFits(told, case, CaseAt(told.revision))
    <3>1. CASE told = followed
      BY <2>9, <3>1
    <3>2. CASE told = Amended(followed, case)
      BY <1>2, <2>4, <2>9, <3>2, AmendedFits
    <3>. QED
      BY <2>6, <3>1, <3>2
  <2>11. FormFits(form', case, CaseAt(form'.revision))
    BY <1>2, <2>1, <2>4, <2>10, FollowFits
  <2>. QED
    BY <2>3, <2>11
<1>7. FormIsSo'
  BY <1>1, <1>3, <1>6 DEF FormIsSo, CaseAt
<1>. QED
  BY <1>3, <1>4, <1>5, <1>7 DEF FormInv

(* A form sends records, of the marks it has. *)
LEMMA FormRecordsAre ==
  ASSUME IInv, FoldInv, NEW f, NEW v, v.revision \in 1 .. Len(rows),
         FormFits(f, v, CaseAt(f.revision)), NEW r \in FormRecords(f)
  PROVE  /\ r \in Records /\ r.event = f.act
         /\ r.event = "answer" => /\ r.amendSeq = f.amendSeq
                                  /\ r.drop => r.choice = 0 /\ r.rows = {} /\ r.file = {}
                                  /\ ~r.drop => /\ r.choice \in 0 .. f.options
                                               /\ r.rows = f.rows /\ r.file = f.ticks
<1>0. Len(rows) \in Nat
  BY DEF IInv, CaseTypeOK
<1>1. /\ f.revision \in 1 .. Len(rows) /\ f.act \in Acts /\ f.options \in Nat
      /\ f.rows \subseteq RowIds /\ f.amendSeq = CaseAt(f.revision).amendSeq
      /\ CaseAt(f.revision) # None /\ TicksAreSo(f)
  BY <1>0 DEF FormFits
<1>2. f.amendSeq \in Nat
  BY <1>1, CasesAreSo DEF Good, Cases
<1>3. f.ticks \subseteq Nat
  BY <1>1 DEF TicksAreSo
<1>4. CASE f.act # "answer"
  <2>1. r = [event |-> f.act] /\ f.act \in {"park", "withdraw"}
    BY <1>1, <1>4 DEF FormRecords, Acts
  <2>. QED
    BY <1>4, <2>1 DEF Records, Plain
<1>5. CASE f.act = "answer"
  <2>1. CASE r = [event |-> "answer", amendSeq |-> f.amendSeq, drop |-> TRUE,
                  choice |-> 0, rows |-> {}, file |-> {}]
    <3>1. r \in Answers
      BY <1>2, <2>1 DEF Answers
    <3>. QED
      BY <1>5, <2>1, <3>1 DEF Records
  <2>2. ASSUME NEW n \in 0 .. f.options,
               r = [event |-> "answer", amendSeq |-> f.amendSeq, drop |-> FALSE,
                    choice |-> n, rows |-> f.rows, file |-> f.ticks]
        PROVE  /\ r \in Answers /\ r.event = "answer" /\ r.amendSeq = f.amendSeq /\ ~r.drop
               /\ r.choice = n /\ r.rows = f.rows /\ r.file = f.ticks
    <3>1. n \in Nat
      BY <1>1
    <3>. QED
      BY <1>1, <1>2, <1>3, <2>2, <3>1 DEF Answers
  <2>3. \/ r = [event |-> "answer", amendSeq |-> f.amendSeq, drop |-> TRUE,
                choice |-> 0, rows |-> {}, file |-> {}]
        \/ \E n \in 0 .. f.options :
             r = [event |-> "answer", amendSeq |-> f.amendSeq, drop |-> FALSE,
                  choice |-> n, rows |-> f.rows, file |-> f.ticks]
    BY <1>5 DEF FormRecords
  <2>4. CASE \E n \in 0 .. f.options :
               r = [event |-> "answer", amendSeq |-> f.amendSeq, drop |-> FALSE,
                    choice |-> n, rows |-> f.rows, file |-> f.ticks]
    BY <1>5, <2>2, <2>4 DEF Records
  <2>. QED
    BY <2>1, <2>3, <2>4
<1>. QED
  BY <1>4, <1>5

(* A send takes the form as it is: behind the case, it stays behind. *)
LEMMA SendKeeps ==
  ASSUME FormInv, SendForm
  PROVE  FormInv'
<1>1. /\ form # None /\ UNCHANGED <<rows, case, view, form>>
      /\ \E r \in FormRecords(form) :
            sending' = [rec |-> r, revision |-> form.revision, shown |-> form.shown,
                        meant |-> form.meant, result |-> "out"]
  BY DEF SendForm
<1>2. /\ view # None /\ view.revision \in 1 .. Len(rows) /\ IInv /\ FoldInv
      /\ FormFits(form, view, CaseAt(form.revision)) /\ Len(rows) \in Nat
      /\ view.revision = Len(rows) => view = case
      /\ CaseAt(Len(rows)) = case
  BY <1>1, ViewIsACase, CaseIsLast DEF FormInv, FormIsSo, IInv, CaseTypeOK
<1>3. PICK r \in FormRecords(form) :
        sending' = [rec |-> r, revision |-> form.revision, shown |-> form.shown,
                    meant |-> form.meant, result |-> "out"]
  BY <1>1
<1>4. /\ r \in Records /\ r.event = form.act
      /\ r.event = "answer" /\ ~r.drop => r.file = form.ticks
  BY <1>2, FormRecordsAre
<1>5. form.revision \in 1 .. view.revision /\ form.revision \in 1 .. Len(rows)
  BY <1>2 DEF FormFits
<1>6. ASSUME form.act = "answer", form.revision = Len(rows)
      PROVE  form.shown = Shown(case) /\ {case.leftOut[n] : n \in form.ticks} = form.meant
  <2>1. view.revision = form.revision /\ view = case
    BY <1>2, <1>5, <1>6
  <2>2. form.shown = Shown(case) /\ form.leftOut = case.leftOut
    BY <1>2, <1>6, <2>1 DEF FormFits
  <2>3. form.meant = {form.leftOut[n] : n \in form.ticks}
    BY <1>2 DEF FormFits, TicksAreSo
  <2>. QED
    BY <2>2, <2>3
<1>7. ASSUME form.act = "withdraw", form.revision = Len(rows)
      PROVE  Passed(form.shown, case)
  BY <1>2, <1>7 DEF FormFits
<1>8. SentIsSo'
  BY <1>1, <1>3, <1>4, <1>5, <1>6, <1>7 DEF SentIsSo
<1>9. IInv' /\ FoldInv' /\ ViewIsSo' /\ FormIsSo'
  BY <1>1, NothingWritten DEF FormInv, ViewIsSo, FormIsSo, CaseAt
<1>. QED
  BY <1>8, <1>9 DEF FormInv

LEMMA WriteKeeps ==
  ASSUME FormInv, WriteSent
  PROVE  FormInv'
<1>1. sending # None /\ sending.result = "out" /\ UNCHANGED <<view, form>>
        /\ DOMAIN sending = {"rec", "revision", "shown", "meant", "result"}
        /\ sending.rec \in Records /\ IInv /\ FoldInv
  BY DEF WriteSent, FormInv, SentIsSo
<1>2. CASE /\ AppendTo("human", sending.rec, sending.revision)
           /\ sending' = [sending EXCEPT !.result = "taken"]
  <2>1. IInv' /\ FoldInv'
    BY <1>1, <1>2, AppendKeepsIInv, AppendFolds DEF Authors
  <2>2. \E row : rows' = Append(rows, row)
    BY <1>2 DEF AppendTo
  <2>3. ViewIsSo' /\ FormIsSo'
    BY <1>1, <2>2, GrowKeeps
  <2>4. DOMAIN sending' = DOMAIN sending /\ sending'.result = "taken"
    BY <1>1, <1>2
  <2>5. SentIsSo'
    BY <1>1, <2>4 DEF SentIsSo
  <2>. QED
    BY <2>1, <2>3, <2>5 DEF FormInv
<1>3. CASE /\ sending' = [sending EXCEPT
                 !.result = IF StaleSend(sending) THEN "stale" ELSE "refused"]
           /\ UNCHANGED <<rows, case>>
  <2>1. IInv' /\ FoldInv'
    BY <1>3, NothingWritten
  <2>2. DOMAIN sending' = DOMAIN sending /\ sending'.result # "out"
    BY <1>1, <1>3
  <2>3. SentIsSo'
    BY <1>1, <2>2 DEF SentIsSo
  <2>4. ViewIsSo' /\ FormIsSo'
    BY <1>1, <1>3 DEF FormInv, ViewIsSo, FormIsSo, CaseAt
  <2>. QED
    BY <2>1, <2>3, <2>4 DEF FormInv
<1>. QED
  BY <1>2, <1>3 DEF WriteSent

(***************************************************************************)
(* Every step keeps the invariant: one case per action of FormNext.        *)
(***************************************************************************)
LEMMA FormNextKeeps == FormInv /\ [FormNext]_formVars => FormInv'
<1>. SUFFICES ASSUME FormInv, [FormNext]_formVars PROVE FormInv'
  OBVIOUS
<1>1. CASE OthersWrite
  BY <1>1, OthersKeep
<1>2. CASE ReadCase
  BY <1>2, ReadKeeps
<1>3. CASE CancelForm
  BY <1>3, CancelKeeps
<1>4. CASE SendForm
  BY <1>4, SendKeeps
<1>5. CASE WriteSent
  BY <1>5, WriteKeeps
<1>6. CASE Landed
  BY <1>6, LandedKeeps
<1>7. CASE \E act \in Acts : StartForm(act)
  BY <1>7, StartKeeps
<1>8. CASE \E n \in 1 .. Cardinality(Items) : TickItem(n)
  BY <1>8, TickKeeps
<1>9. CASE UNCHANGED formVars
  BY <1>9, NothingWritten DEF formVars, FormInv, ViewIsSo, FormIsSo, SentIsSo, CaseAt
<1>. QED
  BY <1>1, <1>2, <1>3, <1>4, <1>5, <1>6, <1>7, <1>8, <1>9 DEF FormNext

(* The forms and the writes out are always those of the case as it was. *)
THEOREM FormInvariant == FormSpec => []FormInv
<1>1. FormInit => FormInv
  BY InitFolds DEF FormInit, FormInv, ViewIsSo, FormIsSo, SentIsSo
<1>. QED
  BY <1>1, FormNextKeeps, PTL DEF FormSpec

-----------------------------------------------------------------------------
(* What a form promises *)

(***************************************************************************)
(* A form whose marks are the case's now and whose act fits it would be    *)
(* taken by the writer, whatever the human chose in it: the left-out list  *)
(* and the options it shows are the case's, and so is its amend.           *)
(***************************************************************************)
THEOREM FreshFormsAreTaken == FormSpec => []FreshFormIsTaken
<1>1. FormInv => FreshFormIsTaken
  <2>. SUFFICES ASSUME FormInv, form # None, form.revision = case.revision,
                       ActFits(form.act, case), NEW r \in FormRecords(form)
                PROVE  Fits(case, "human", r, TRUE)
    BY DEF FreshFormIsTaken
  <2>1. /\ view # None /\ view.revision \in 1 .. Len(rows) /\ IInv /\ FoldInv
        /\ FormFits(form, view, CaseAt(form.revision)) /\ Len(rows) \in Nat
        /\ case # None /\ view.revision = Len(rows) => view = case
    BY ViewIsACase DEF FormInv, FormIsSo, IInv, CaseTypeOK
  <2>2. case.revision = Len(rows) /\ CaseAt(Len(rows)) = case /\ Good(case) /\ KindFits(case)
          /\ case # None
    BY <2>1, ViewIsACase, CaseIsLast
  <2>3. form.revision \in 1 .. view.revision
    BY <2>1 DEF FormFits
  <2>4. view.revision = form.revision /\ view = case
    BY <2>1, <2>2, <2>3
  <2>5. /\ form.act \in Acts /\ form.amendSeq = case.amendSeq /\ form.options = case.options
        /\ form.leftOut = case.leftOut /\ form.ticks \subseteq DOMAIN case.leftOut
        /\ form.act = "answer" => form.rows = case.rows
    BY <2>1, <2>2, <2>4 DEF FormFits, TicksAreSo
  <2>6. /\ r.event = form.act
        /\ r.event = "answer" => /\ r.amendSeq = form.amendSeq
                                 /\ r.drop => r.choice = 0 /\ r.rows = {} /\ r.file = {}
                                 /\ ~r.drop => /\ r.choice \in 0 .. form.options
                                              /\ r.rows = form.rows /\ r.file = form.ticks
    BY <2>1, FormRecordsAre
  <2>7. case.amendSeq \in Nat /\ case.options \in Nat /\ case.leftOut \in Seq(Items)
    BY <2>2 DEF Good, Cases
  <2>8. WrittenBy(r.event, "human")
    BY <2>5, <2>6 DEF Acts, WrittenBy, Authors
  <2>9. CASE form.act = "park"
    BY <2>6, <2>8, <2>9 DEF ActFits, Fits, ParkFits
  <2>10. CASE form.act = "withdraw"
    BY <2>6, <2>8, <2>10 DEF ActFits, Fits, WithdrawFits
  <2>11. CASE form.act = "answer"
    <3>1. case.state = "open"
      BY <2>11 DEF ActFits
    <3>2. AnswerOf(case, r)
      <4>1. CASE r.drop
        BY <2>6, <2>11, <4>1 DEF AnswerOf
      <4>2. CASE ~r.drop
        <5>1. r.choice \in 0 .. case.options /\ r.rows = case.rows /\ r.file \subseteq DOMAIN case.leftOut
          BY <2>5, <2>6, <2>11, <4>2
        <5>2. r.choice > 0 => case.options > 0 /\ r.choice <= case.options
          BY <2>7, <5>1
        <5>3. r.file # {} => case.leftOut # <<>>
          BY <5>1
        <5>. QED
          BY <2>2, <4>2, <5>1, <5>2, <5>3 DEF AnswerOf, KindFits, KindFields
      <4>. QED
        BY <4>1, <4>2
    <3>3. AnswerFits(case, r)
      BY <2>5, <2>6, <2>7, <2>11, <3>1, <3>2 DEF AnswerFits
    <3>. QED
      BY <2>6, <2>8, <2>11, <3>3 DEF Fits
  <2>. QED
    BY <2>5, <2>9, <2>10, <2>11 DEF Acts
<1>. QED
  BY <1>1, FormInvariant, PTL

(* The store takes what a form sent only at the revision the form was of. *)
LEMMA TakesAtItsRevision ==
  ASSUME FormInv, [FormNext]_formVars, Takes
  PROVE  sending.revision = Len(rows)
<1>1. AppendTo("human", sending.rec, sending.revision)
  <2>1. CASE OthersWrite \/ ReadCase \/ CancelForm \/ UNCHANGED formVars
    BY <2>1 DEF OthersWrite, ReadCase, CancelForm, formVars, Takes
  <2>2. CASE SendForm \/ Landed
    BY <2>2 DEF SendForm, Landed, Takes
  <2>3. CASE WriteSent
    <3>1. DOMAIN sending = {"rec", "revision", "shown", "meant", "result"}
      BY DEF Takes, FormInv, SentIsSo
    <3>. QED
      BY <2>3, <3>1 DEF WriteSent, Takes
  <2>4. CASE \/ \E act \in Acts : StartForm(act)
             \/ \E n \in 1 .. Cardinality(Items) : TickItem(n)
    BY <2>4 DEF StartForm, TickItem, Takes
  <2>. QED
    BY <2>1, <2>2, <2>3, <2>4 DEF FormNext
<1>2. sending.revision \in 1 .. Len(rows) /\ Len(rows) \in Nat
  BY DEF Takes, FormInv, SentIsSo, IInv, CaseTypeOK
<1>3. sending.revision = case.revision /\ case # None
  BY <1>1, <1>2, NoneAssumption DEF AppendTo
<1>. QED
  BY <1>3, CaseIsCounted DEF FormInv

(***************************************************************************)
(* A briefing's answer files, in the case that takes it, the very items    *)
(* the human read at the numbers they ticked.                              *)
(***************************************************************************)
THEOREM FilesAreTheTicked == FormSpec => FilesWhatWasTicked
<1>1. FormInv /\ [FormNext]_formVars =>
        [Takes /\ sending.rec.event = "answer" /\ ~sending.rec.drop =>
           {case.leftOut[n] : n \in sending.rec.file} = sending.meant]_formVars
  BY TakesAtItsRevision DEF Takes, FormInv, SentIsSo
<1>. QED
  BY <1>1, FormInvariant, PTL DEF FormSpec, FilesWhatWasTicked

(***************************************************************************)
(* An answer lands only on the question the human had before them, with no *)
(* other answer given since, whatever the form followed on the way.        *)
(***************************************************************************)
THEOREM AnswersLandAsAsked == FormSpec => AnswerLandsAsAsked
<1>1. FormInv /\ [FormNext]_formVars =>
        [Takes /\ sending.rec.event = "answer" => sending.shown = Shown(case)]_formVars
  BY TakesAtItsRevision DEF Takes, FormInv, SentIsSo
<1>. QED
  BY <1>1, FormInvariant, PTL DEF FormSpec, AnswerLandsAsAsked

(***************************************************************************)
(* A withdraw is of the question the human had before them, and ends the   *)
(* answer they saw or one given since an agent picked theirs up.           *)
(***************************************************************************)
THEOREM WithdrawsPassAPickup == FormSpec => WithdrawPassesAPickup
<1>1. FormInv /\ [FormNext]_formVars =>
        [Takes /\ sending.rec.event = "withdraw" =>
           /\ case.kind # "message" => sending.shown.question = Question(case)
           /\ \/ sending.shown.lastAnswer = LastAnswer(case)
              \/ \E i \in DOMAIN case.events :
                   /\ case.events[i].event = "pickup"
                   /\ sending.shown.lastAnswer < case.events[i].seq
                   /\ case.events[i].seq < LastAnswer(case)]_formVars
  BY TakesAtItsRevision DEF Takes, FormInv, SentIsSo, Passed
<1>. QED
  BY <1>1, FormInvariant, PTL DEF FormSpec, WithdrawPassesAPickup

=============================================================================
