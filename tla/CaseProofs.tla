----------------------------- MODULE CaseProofs ------------------------------
(***************************************************************************)
(* What holds of one case for any inputs and any number of rows: its type, *)
(* that its state says what stands, and that the answer it stands on is to *)
(* the question as it stands.  The three are one inductive invariant: an   *)
(* answer is safe from a question-changing amend only because the state    *)
(* says that a case which takes one unasked has no answer.                 *)
(***************************************************************************)
EXTENDS Freshness, WellFoundedInduction, TLAPS

Good(c) == c \in Cases /\ StateFits(c) /\ AnswerFitsQuestion(c)

(* A record is of the set its event names. *)
LEMMA RecordKinds ==
  ASSUME NEW r \in Records \cup {Foreign}
  PROVE  /\ r.event = "open" => r \in Opens
         /\ r.event = "amend" => r \in Amends
         /\ r.event = "answer" => r \in Answers
         /\ r.event = "note" => r \in Notes
         /\ r.event = "close" => r \in Closes
BY DEF Records, Foreign, Opens, Amends, Answers, Pickups, Notes, Closes, Plain

(* An open that fits starts a good case. *)
LEMMA StartIsGood ==
  ASSUME NEW r \in Opens, NEW author \in Authors, NEW seq \in Nat,
         OpenFits(author, r)
  PROVE  Good(Start(seq, r))
<1>1. Start(seq, r) \in Cases
  <2>1. [seq |-> seq, event |-> "open", from |-> None] \in Events
    BY DEF Events, EventTypes
  <2>2. <<[seq |-> seq, event |-> "open", from |-> None]>> \in Seq(Events)
    BY <2>1
  <2>. QED
    BY <2>2 DEF Start, Cases, Opens, Opener, States
<1>2. StateFits(Start(seq, r))
  BY DEF Start, StateFits, Opener, Opens
<1>3. AnswerFitsQuestion(Start(seq, r))
  BY DEF Start, AnswerFitsQuestion
<1>. QED
  BY <1>1, <1>2, <1>3 DEF Good

(* An amend the case takes keeps it good: with an answer standing it must  *)
(* say reopen, and then it clears the answer; without one there is none to *)
(* fall behind amendSeq.                                                   *)
LEMMA AmendIsGood ==
  ASSUME NEW c, Good(c), NEW r \in Amends, NEW author \in Authors,
         NEW seq \in Nat, AmendFits(c, author, r)
  PROVE  Good(TakeAmend(c, seq, r))
<1>. DEFINE amended ==
       [AmendQuestion(c, r) EXCEPT !.amendSeq = AmendSeqAfter(c, seq, r)]
<1>. USE DEF Good
<1>. DEFINE asked == AmendQuestion(c, r)
<1>0. /\ asked \in Cases
      /\ \A f \in {"kind", "state", "answer", "pickup", "park", "close"} :
           asked[f] = c[f]
  <2>1. /\ c.options + r.options \in Nat
        /\ c.rows \cup r.rows \in SUBSET RowIds
        /\ (IF r.body = None THEN c.body ELSE r.body) \in Bodies \cup {None}
        /\ (IF r.leftOut = <<>> THEN c.leftOut ELSE r.leftOut) \in Seq(Items)
        /\ (IF r.rest = None THEN c.rest ELSE r.rest) \in Rests
    BY DEF Cases, Amends
  <2>. QED
    BY <2>1 DEF AmendQuestion, Cases
<1>1. /\ amended \in Cases
      /\ amended.state = c.state /\ amended.answer = c.answer
      /\ amended.pickup = c.pickup /\ amended.park = c.park
      /\ amended.close = c.close /\ amended.kind = c.kind
  <2>1. AmendSeqAfter(c, seq, r) \in Nat
    BY DEF AmendSeqAfter, Cases
  <2>. HIDE DEF asked
  <2>2. amended = [asked EXCEPT !.amendSeq = AmendSeqAfter(c, seq, r)]
    BY DEF asked
  <2>. HIDE DEF amended
  <2>. QED
    BY <1>0, <2>1, <2>2 DEF Cases
<1>2. CASE r.reopen
  <2>1. Reopen(amended) \in Cases
    BY <1>1 DEF Reopen, Cases, States
  <2>2. c.state \in {"answered", "pickedup"} /\ c.kind # "message"
    BY <1>2 DEF AmendFits, AmendReopens, Opener
  <2>3. /\ Reopen(amended).answer = None /\ Reopen(amended).state = "open"
        /\ Reopen(amended).pickup = FALSE
        /\ Reopen(amended).park = c.park /\ Reopen(amended).close = c.close
        /\ Reopen(amended).kind = c.kind
    BY <1>1 DEF Reopen, Cases
  <2>4. StateFits(Reopen(amended))
    BY <2>2, <2>3 DEF StateFits
  <2>5. AnswerFitsQuestion(Reopen(amended))
    BY <2>3 DEF AnswerFitsQuestion
  <2>. QED
    BY <1>2, <2>1, <2>4, <2>5 DEF TakeAmend
<1>3. CASE ~r.reopen
  <2>1. c.state \in {"open", "sent"}
    BY <1>3 DEF AmendFits
  <2>2. c.answer = None
    BY <2>1 DEF StateFits
  <2>3. StateFits(amended)
    BY <1>1 DEF StateFits
  <2>4. AnswerFitsQuestion(amended)
    BY <1>1, <2>2 DEF AnswerFitsQuestion
  <2>. QED
    BY <1>1, <1>3, <2>3, <2>4 DEF TakeAmend
<1>. QED
  BY <1>2, <1>3 DEF Amends

(* An answer the case takes stands on the question it was checked against. *)
LEMMA AnswerIsGood ==
  ASSUME NEW c, Good(c), NEW r \in Answers, AnswerFits(c, r)
  PROVE  Good(TakeAnswer(c, r))
<1>. USE DEF Good
<1>1. TakeAnswer(c, r) \in Cases
  BY DEF TakeAnswer, Cases, States
<1>2. /\ TakeAnswer(c, r).answer = r /\ TakeAnswer(c, r).state = "answered"
      /\ TakeAnswer(c, r).amendSeq = c.amendSeq
      /\ \A f \in {"kind", "options", "rows", "leftOut", "pickup", "park",
                    "close"} : TakeAnswer(c, r)[f] = c[f]
  BY DEF TakeAnswer, Cases
<1>3. c.state = "open" /\ r.amendSeq = c.amendSeq /\ AnswerOf(c, r)
  BY DEF AnswerFits, Cases, Answers
<1>4. StateFits(TakeAnswer(c, r))
  BY <1>2, <1>3, NoneAssumption DEF StateFits
<1>5. AnswerOf(TakeAnswer(c, r), r)
  BY <1>2, <1>3 DEF AnswerOf
<1>. QED
  BY <1>1, <1>2, <1>3, <1>4, <1>5 DEF AnswerFitsQuestion

(* The events that take no part in the question leave its answer as it is, *)
(* or clear it.                                                            *)
LEMMA AnswerOnlyReadsQuestion ==
  ASSUME NEW c, NEW d, AnswerFitsQuestion(c),
         d.answer \in {c.answer, None},
         d.kind = c.kind, d.options = c.options, d.rows = c.rows,
         d.leftOut = c.leftOut, d.amendSeq = c.amendSeq
  PROVE  AnswerFitsQuestion(d)
BY DEF AnswerFitsQuestion, AnswerOf

LEMMA PickupIsGood ==
  ASSUME NEW c, Good(c), PickupFits(c)
  PROVE  Good(TakePickup(c))
<1>1. TakePickup(c) \in Cases
  BY DEF TakePickup, Cases, States, Good
<1>2. AnswerFitsQuestion(TakePickup(c))
  BY AnswerOnlyReadsQuestion DEF TakePickup, Cases, Good
<1>3. StateFits(TakePickup(c))
  BY DEF TakePickup, Cases, StateFits, Good, PickupFits
<1>. QED
  BY <1>1, <1>2, <1>3 DEF Good

LEMMA NoteIsGood ==
  ASSUME NEW c, Good(c), NEW r, NEW write \in BOOLEAN, NoteFits(c, r, write)
  PROVE  Good(TakeNote(c))
<1>1. TakeNote(c) \in Cases
  BY DEF TakeNote, Reopen, Cases, States, Good
<1>2. AnswerFitsQuestion(TakeNote(c))
  BY AnswerOnlyReadsQuestion DEF TakeNote, Reopen, Cases, Good
<1>3. StateFits(TakeNote(c))
  BY DEF TakeNote, Reopen, Cases, StateFits, Good, NoteFits, Opener
<1>. QED
  BY <1>1, <1>2, <1>3 DEF Good

LEMMA CloseIsGood ==
  ASSUME NEW c, Good(c), NEW r, CloseFits(c, r)
  PROVE  Good(TakeClose(c))
<1>1. TakeClose(c) \in Cases
  BY DEF TakeClose, Cases, States, Good
<1>2. AnswerFitsQuestion(TakeClose(c))
  BY AnswerOnlyReadsQuestion DEF TakeClose, Cases, Good
<1>3. StateFits(TakeClose(c))
  BY DEF TakeClose, Cases, StateFits, Good, CloseFits
<1>. QED
  BY <1>1, <1>2, <1>3 DEF Good

LEMMA WithdrawIsGood ==
  ASSUME NEW c, Good(c), NEW author, WithdrawFits(c, author)
  PROVE  Good(TakeWithdraw(c))
<1>1. TakeWithdraw(c) \in Cases
  BY DEF TakeWithdraw, Cases, States, Good
<1>2. AnswerFitsQuestion(TakeWithdraw(c))
  BY AnswerOnlyReadsQuestion DEF TakeWithdraw, Cases, Good
<1>3. StateFits(TakeWithdraw(c))
  BY DEF TakeWithdraw, Cases, StateFits, Good, WithdrawFits
<1>. QED
  BY <1>1, <1>2, <1>3 DEF Good

LEMMA ParkIsGood ==
  ASSUME NEW c, Good(c), ParkFits(c)
  PROVE  Good(TakePark(c))
<1>1. TakePark(c) \in Cases
  BY DEF TakePark, Cases, States, Good
<1>2. AnswerFitsQuestion(TakePark(c))
  BY AnswerOnlyReadsQuestion DEF TakePark, Cases, Good
<1>3. StateFits(TakePark(c))
  BY DEF TakePark, Cases, StateFits, Good, ParkFits
<1>. QED
  BY <1>1, <1>2, <1>3 DEF Good

LEMMA ResumeIsGood ==
  ASSUME NEW c, Good(c), ResumeFits(c)
  PROVE  Good(TakeResume(c))
<1>1. TakeResume(c) \in Cases
  BY DEF TakeResume, Cases, States, Good
<1>2. AnswerFitsQuestion(TakeResume(c))
  BY AnswerOnlyReadsQuestion DEF TakeResume, Cases, Good
<1>3. StateFits(TakeResume(c))
  BY DEF TakeResume, Cases, StateFits, Good, ResumeFits
<1>. QED
  BY <1>1, <1>2, <1>3 DEF Good

(* So does whatever a case takes, from the writer or on a replay. *)
LEMMA TakeIsGood ==
  ASSUME NEW c, Good(c), NEW r \in Records \cup {Foreign},
         NEW author \in Authors, NEW write \in BOOLEAN, NEW seq \in Nat,
         Fits(c, author, r, write)
  PROVE  Good(Take(c, seq, r))
<1>. DEFINE d == Changed(c, seq, r)
<1>1. Good(d)
  <2>1. CASE r.event = "amend" /\ AmendFits(c, author, r)
    BY <2>1, AmendIsGood, RecordKinds DEF Changed
  <2>2. CASE r.event = "answer" /\ AnswerFits(c, r)
    BY <2>2, AnswerIsGood, RecordKinds DEF Changed
  <2>3. CASE r.event = "pickup" /\ PickupFits(c)
    BY <2>3, PickupIsGood DEF Changed
  <2>4. CASE r.event = "note" /\ NoteFits(c, r, write)
    BY <2>4, NoteIsGood DEF Changed
  <2>5. CASE r.event = "close" /\ CloseFits(c, r)
    BY <2>5, CloseIsGood DEF Changed
  <2>6. CASE r.event = "withdraw" /\ WithdrawFits(c, author)
    BY <2>6, WithdrawIsGood DEF Changed
  <2>7. CASE r.event = "park" /\ ParkFits(c)
    BY <2>7, ParkIsGood DEF Changed
  <2>8. CASE r.event = "resume" /\ ResumeFits(c)
    BY <2>8, ResumeIsGood DEF Changed
  <2>. QED
    BY <2>1, <2>2, <2>3, <2>4, <2>5, <2>6, <2>7, <2>8 DEF Fits
<1>2. r.event \in EventTypes /\ c.state \in States
  BY DEF Fits, WrittenBy, EventTypes, Good, Cases
<1>3. [seq |-> seq, event |-> r.event, from |-> c.state] \in Events
  BY <1>2 DEF Events
<1>4. Take(c, seq, r) \in Cases
  <2>1. Append(d.events, [seq |-> seq, event |-> r.event, from |-> c.state])
          \in Seq(Events)
    BY <1>1, <1>3 DEF Good, Cases
  <2>. QED
    BY <1>1, <2>1 DEF Take, Good, Cases
<1>5. \A f \in {"kind", "state", "amendSeq", "options", "rows", "body",
                "leftOut", "answer", "pickup", "park", "close"} :
         Take(c, seq, r)[f] = d[f]
  BY <1>1 DEF Take, Good, Cases
<1>6. StateFits(Take(c, seq, r))
  BY <1>1, <1>5 DEF StateFits, Good
<1>7. AnswerFitsQuestion(Take(c, seq, r))
  BY <1>1, <1>5, AnswerOnlyReadsQuestion DEF Good
<1>. QED
  BY <1>4, <1>6, <1>7 DEF Good

(* Counting the rows again changes nothing of it. *)
LEMMA CountedIsGood ==
  ASSUME NEW c, Good(c), NEW revision \in Nat, NEW lastSeq \in Nat
  PROVE  Good(Counted(c, revision, lastSeq))
<1>. USE DEF Good
<1>1. Counted(c, revision, lastSeq) \in Cases
  BY DEF Counted, Cases
<1>2. AnswerFitsQuestion(Counted(c, revision, lastSeq))
  BY AnswerOnlyReadsQuestion DEF Counted, Cases
<1>3. StateFits(Counted(c, revision, lastSeq))
  BY DEF Counted, Cases, StateFits
<1>. QED
  BY <1>1, <1>2, <1>3

CaseInv == case # None => Good(case)

IInv == CaseTypeOK /\ CaseInv

LEMMA RowIsRow ==
  ASSUME NEW r \in Records \cup {Foreign}, NEW author \in Authors,
         NEW seq \in Nat
  PROVE  Row(seq, author, r) \in RowType
BY DEF Row, RowType

(* The inputs a writer enumerates are records. *)
LEMMA InputsAreRecords ==
  /\ OpenInputs \subseteq Records
  /\ AmendInputs \cup Pickups \cup Notes \cup Closes \subseteq Records
  /\ \A e \in {"withdraw", "park", "resume"} : [event |-> e] \in Records
  /\ \A c \in Cases : AnswerInputs(c) \subseteq Records
<1>1. /\ OpenInputs \subseteq Records
      /\ AmendInputs \cup Pickups \cup Notes \cup Closes \subseteq Records
      /\ \A e \in {"withdraw", "park", "resume"} : [event |-> e] \in Records
  BY InputsAssumption DEF Records, Plain
<1>2. ASSUME NEW c \in Cases, NEW r \in AnswerInputs(c)
      PROVE  r \in Answers
  <2>1. c.lastSeq \in Nat /\ c.options \in Nat /\ Len(c.leftOut) \in Nat
    BY DEF Cases
  <2>2. 0 .. c.lastSeq + 1 \subseteq Nat /\ 0 .. c.options + 1 \subseteq Nat
          /\ 1 .. Len(c.leftOut) + 1 \subseteq Nat
    BY <2>1
  <2>. QED
    BY <2>2 DEF AnswerInputs, Answers
<1>. QED
  BY <1>1, <1>2 DEF Records

LEMMA AppendKeepsIInv ==
  ASSUME IInv, NEW r \in Records, NEW author \in Authors, NEW at,
         AppendTo(author, r, at)
  PROVE  IInv'
<1>. DEFINE seq == case.lastSeq + 1
<1>1. case # None /\ Good(case) /\ Fits(case, author, r, TRUE)
  BY DEF IInv, CaseInv, AppendTo
<1>2. seq \in Nat /\ case.revision + 1 \in Nat
  BY <1>1 DEF Good, Cases
<1>3. /\ rows' = Append(rows, Row(seq, author, r))
      /\ case' = Counted(Take(case, seq, r), case.revision + 1, seq)
  BY DEF AppendTo
<1>4. Good(case')
  <2>. HIDE DEF seq
  <2>1. Good(Take(case, seq, r))
    BY <1>1, <1>2, TakeIsGood
  <2>. QED
    BY <1>2, <1>3, <2>1, CountedIsGood
<1>5. rows' \in Seq(RowType)
  BY <1>2, <1>3, RowIsRow DEF IInv, CaseTypeOK
<1>. QED
  BY <1>4, <1>5 DEF IInv, CaseTypeOK, CaseInv, Good

LEMMA StoreKeepsIInv ==
  ASSUME IInv, NEW put \in StoredInputs, NEW gap \in Nat,
         StoreRow(put.author, put.rec, gap)
  PROVE  IInv'
<1>. DEFINE row == Row(LastSeq(rows) + 1 + gap, put.author, put.rec)
            replay == Replay(case, row)
<1>1. put.author \in Authors /\ put.rec \in Records \cup {Foreign}
  BY InputsAssumption
<1>2. LastSeq(rows) \in Nat
  <2>1. rows \in Seq(RowType)
    BY DEF IInv, CaseTypeOK
  <2>2. rows # <<>> => Len(rows) \in DOMAIN rows
    BY <2>1
  <2>3. rows # <<>> => rows[Len(rows)] \in RowType
    BY <2>1, <2>2
  <2>. QED
    BY <2>3 DEF RowType, LastSeq
<1>3. row \in RowType /\ row.seq \in Nat /\ row.rec = put.rec
        /\ row.author = put.author
  BY <1>1, <1>2, RowIsRow DEF Row
<1>4. /\ rows' = Append(rows, row)
      /\ case' = IF replay = None THEN None
                 ELSE Counted(replay, Len(rows) + 1, row.seq)
  BY DEF StoreRow
<1>. HIDE DEF row
<1>5. replay # None => Good(replay)
  <2>1. CASE case = None
    BY <1>1, <1>3, <2>1, StartIsGood, RecordKinds DEF Replay, OpenFits
  <2>2. CASE case # None
    <3>1. Good(case)
      BY <2>2 DEF IInv, CaseInv
    <3>2. Fits(case, row.author, row.rec, FALSE) => Good(Take(case, row.seq, row.rec))
      BY <1>1, <1>3, <3>1, TakeIsGood
    <3>. QED
      BY <2>2, <3>1, <3>2 DEF Replay
  <2>. QED
    BY <2>1, <2>2
<1>6. case' # None => Good(case')
  <2>. HIDE DEF replay
  <2>1. Len(rows) + 1 \in Nat
    BY DEF IInv, CaseTypeOK
  <2>. QED
    BY <1>3, <1>4, <1>5, <2>1, CountedIsGood
<1>7. rows' \in Seq(RowType)
  BY <1>3, <1>4 DEF IInv, CaseTypeOK
<1>. QED
  BY <1>6, <1>7 DEF IInv, CaseTypeOK, CaseInv, Good

LEMMA OpenKeepsIInv ==
  ASSUME IInv, NEW r \in OpenInputs, NEW author \in Authors,
         OpenCase(author, r)
  PROVE  IInv'
<1>1. r \in Opens /\ r \in Records
  BY InputsAssumption DEF Records
<1>2. Good(Counted(Start(1, r), 1, 1))
  BY <1>1, StartIsGood, CountedIsGood DEF OpenCase
<1>3. rows' \in Seq(RowType)
  BY <1>1, RowIsRow DEF OpenCase
<1>. QED
  BY <1>2, <1>3 DEF OpenCase, IInv, CaseTypeOK, CaseInv, Good

(***************************************************************************)
(* Every step keeps the invariant: one case per action of CaseNext.        *)
(***************************************************************************)
LEMMA NextKeepsIInv == IInv /\ [CaseNext]_caseVars => IInv'
<1>. SUFFICES ASSUME IInv, [CaseNext]_caseVars PROVE IInv'
  OBVIOUS
<1>1. CASE OpenAny
  BY <1>1, OpenKeepsIInv DEF OpenAny
<1>2. ASSUME NEW R, R \subseteq Records, AppendAny(R) PROVE IInv'
  BY <1>2, AppendKeepsIInv DEF AppendAny
<1>3. CASE Amend
  BY <1>2, <1>3, InputsAreRecords DEF Amend
<1>4. CASE Answer
  <2>1. case \in Cases
    BY <1>4 DEF Answer, IInv, CaseTypeOK
  <2>. QED
    BY <1>2, <1>4, <2>1, InputsAreRecords DEF Answer
<1>5. CASE Pickup \/ Note \/ Close
  BY <1>2, <1>5, InputsAreRecords DEF Pickup, Note, Close
<1>6. CASE Withdraw \/ Park \/ Resume
  BY <1>2, <1>6, InputsAreRecords DEF Withdraw, Park, Resume
<1>7. CASE Stored
  BY <1>7, StoreKeepsIInv, BoundsAssumption DEF Stored
<1>8. CASE UNCHANGED caseVars
  BY <1>8 DEF caseVars, IInv, CaseTypeOK, CaseInv
<1>. QED
  BY <1>1, <1>3, <1>4, <1>5, <1>6, <1>7, <1>8 DEF CaseNext

THEOREM CaseInvariant == CaseSpec => []IInv
<1>1. CaseInit => IInv
  BY DEF CaseInit, IInv, CaseTypeOK, CaseInv
<1>. QED
  BY <1>1, NextKeepsIInv, PTL DEF CaseSpec

(* In every reachable state the rows are rows and the case is a case. *)
THEOREM CaseTypes == CaseSpec => []CaseTypeOK
<1>1. IInv => CaseTypeOK
  BY DEF IInv
<1>. QED
  BY <1>1, CaseInvariant, PTL

(* The state of a case and what it stands on always agree: no order of     *)
(* opens, answers, pickups, reopens, withdraws and another build's rows    *)
(* leaves one without the other.                                           *)
THEOREM StateAlwaysSays == CaseSpec => []StateSaysWhatStands
<1>1. IInv => StateSaysWhatStands
  BY DEF IInv, CaseInv, Good, StateSaysWhatStands
<1>. QED
  BY <1>1, CaseInvariant, PTL

(* An answer that stands was given to the question as it stands (ST-04),   *)
(* however the case was amended, reopened and answered before.             *)
THEOREM AnswerAlwaysToTheQuestion == CaseSpec => []AnswerIsToTheQuestion
<1>1. IInv => AnswerIsToTheQuestion
  BY DEF IInv, CaseInv, Good, AnswerIsToTheQuestion
<1>. QED
  BY <1>1, CaseInvariant, PTL

-----------------------------------------------------------------------------
(***************************************************************************)
(* Induction on naturals, for a set of them in place of an operator: what  *)
(* the well-foundedness of < says of the least one outside the set.        *)
(***************************************************************************)
Below == {pair \in Nat \X Nat : pair[1] < pair[2]}

LEMMA LeastNatural ==
  ASSUME NEW T, T \subseteq Nat, T # {}
  PROVE  \E least \in T : \A n \in T : least <= n
<1>1. IsWellFoundedOn(Below, Nat)
  <2>1. OpToRel(<, Nat) = Below
    BY DEF OpToRel, Below
  <2>. QED
    BY <2>1, NatLessThanWellFounded
<1>2. PICK least \in T : \A n \in T : ~ (<<n, least>> \in Below)
  BY <1>1, WFMin
<1>3. ASSUME NEW n \in T
      PROVE  least <= n
  <2>1. least \in Nat /\ n \in Nat
    OBVIOUS
  <2>2. n < least => <<n, least>> \in Below
    BY <2>1 DEF Below
  <2>. QED
    BY <1>2, <2>1, <2>2
<1>. QED
  BY <1>3

LEMMA Induction ==
  ASSUME NEW S, NEW first \in Nat, NEW last \in Nat,
         first \in S,
         \A n \in first .. last - 1 : n \in S => n + 1 \in S
  PROVE  \A n \in first .. last : n \in S
<1>. DEFINE T == {n \in first .. last : n \notin S}
<1>. SUFFICES ASSUME T # {} PROVE FALSE
  OBVIOUS
<1>1. T \subseteq Nat
  OBVIOUS
<1>. HIDE DEF T
<1>2. PICK least \in T : \A n \in T : least <= n
  BY <1>1, LeastNatural
<1>. USE DEF T
<1>3. least \in first .. last /\ least \notin S
  OBVIOUS
<1>4. least # first /\ least - 1 \in first .. last
  BY <1>3
<1>5. least - 1 \in S
  BY <1>2, <1>3, <1>4
<1>. QED
  BY <1>3, <1>4, <1>5

-----------------------------------------------------------------------------
(***************************************************************************)
(* The fold does what its recursion says: the case after n rows is the     *)
(* replay of the n-th on the case before it.                               *)
(***************************************************************************)
LEMMA ReplaysIs ==
  ASSUME NEW S, NEW rs \in Seq(S)
  PROVE  /\ Replays(rs)[0] = None
         /\ \A n \in 1 .. Len(rs) : Replays(rs)[n] = Replay(Replays(rs)[n - 1], rs[n])
<1>. DEFINE Does(f, last) ==
       f = [n \in 0 .. last |-> IF n = 0 THEN None ELSE Replay(f[n - 1], rs[n])]
     Done == {last \in 0 .. Len(rs) : \E f : Does(f, last)}
<1>1. Len(rs) \in Nat
  OBVIOUS
<1>2. 0 \in Done
  <2>1. Does([n \in 0 .. 0 |-> None], 0)
    OBVIOUS
  <2>2. \E f : Does(f, 0)
    <3>. HIDE DEF Does
    <3>. QED
      BY <2>1
  <2>. QED
    BY <1>1, <2>2
<1>3. ASSUME NEW last \in 0 .. Len(rs) - 1, last \in Done
      PROVE  last + 1 \in Done
  <2>1. PICK f : Does(f, last)
    BY <1>3
  <2>. DEFINE g == [n \in 0 .. last + 1 |->
                       IF n = last + 1 THEN Replay(f[last], rs[last + 1]) ELSE f[n]]
  <2>2. \A n \in 0 .. last + 1 : g[n] = IF n = 0 THEN None ELSE Replay(g[n - 1], rs[n])
    <3>1. \A n \in 0 .. last : f[n] = IF n = 0 THEN None ELSE Replay(f[n - 1], rs[n])
      BY <2>1
    <3>2. \A n \in 0 .. last : g[n] = f[n]
      BY <1>1
    <3>3. g[last + 1] = Replay(g[last], rs[last + 1])
      BY <1>1
    <3>. HIDE DEF g
    <3>. QED
      BY <1>1, <3>1, <3>2, <3>3
  <2>3. Does(g, last + 1)
    <3>. HIDE DEF g
    <3>. QED
      BY <2>2 DEF g
  <2>4. last + 1 \in 0 .. Len(rs)
    BY <1>1
  <2>. QED
    BY <2>3, <2>4
<1>4. Len(rs) \in Done
  <2>. HIDE DEF Done
  <2>1. \A n \in 0 .. Len(rs) : n \in Done
    BY <1>1, <1>2, <1>3, Induction
  <2>. QED
    BY <1>1, <2>1
<1>5. Does(Replays(rs), Len(rs))
  BY <1>4 DEF Replays
<1>. QED
  BY <1>1, <1>5

(* Rows appended change nothing of what was folded before them. *)
LEMMA ReplaysOfMore ==
  ASSUME NEW S, NEW rs \in Seq(S), NEW ss \in Seq(S), Len(rs) <= Len(ss),
         \A n \in 1 .. Len(rs) : ss[n] = rs[n]
  PROVE  \A n \in 0 .. Len(rs) : Replays(ss)[n] = Replays(rs)[n]
<1>. DEFINE Same == {n \in 0 .. Len(rs) : Replays(ss)[n] = Replays(rs)[n]}
<1>1. Len(rs) \in Nat /\ Len(ss) \in Nat
  OBVIOUS
<1>2. 0 \in Same
  BY <1>1, ReplaysIs
<1>3. ASSUME NEW n \in 0 .. Len(rs) - 1, n \in Same
      PROVE  n + 1 \in Same
  <2>1. n + 1 \in 1 .. Len(rs) /\ n + 1 \in 1 .. Len(ss) /\ (n + 1) - 1 = n
    BY <1>1
  <2>2. Replays(ss)[n + 1] = Replay(Replays(ss)[n], ss[n + 1])
    BY <2>1, ReplaysIs
  <2>3. Replays(rs)[n + 1] = Replay(Replays(rs)[n], rs[n + 1])
    BY <2>1, ReplaysIs
  <2>. QED
    BY <1>3, <2>1, <2>2, <2>3
<1>. HIDE DEF Same
<1>4. \A n \in 0 .. Len(rs) : n \in Same
  BY <1>1, <1>2, <1>3, Induction
<1>. QED
  BY <1>4 DEF Same

(* Every case a fold passes is a good one. *)
LEMMA ReplayIsGood ==
  ASSUME NEW c, c # None => Good(c), NEW row \in RowType, Replay(c, row) # None
  PROVE  Good(Replay(c, row))
<1>1. row.seq \in Nat /\ row.author \in Authors /\ row.rec \in Records \cup {Foreign}
  BY DEF RowType
<1>2. CASE c = None
  BY <1>1, <1>2, StartIsGood, RecordKinds DEF Replay, OpenFits
<1>3. CASE c # None
  <2>1. Fits(c, row.author, row.rec, FALSE) => Good(Take(c, row.seq, row.rec))
    BY <1>1, <1>3, TakeIsGood
  <2>. QED
    BY <1>3, <2>1 DEF Replay
<1>. QED
  BY <1>2, <1>3

LEMMA ReplaysAreGood ==
  ASSUME NEW rs \in Seq(RowType)
  PROVE  \A n \in 0 .. Len(rs) : Replays(rs)[n] # None => Good(Replays(rs)[n])
<1>. DEFINE Fine == {n \in 0 .. Len(rs) : Replays(rs)[n] # None => Good(Replays(rs)[n])}
<1>1. Len(rs) \in Nat
  OBVIOUS
<1>2. 0 \in Fine
  BY <1>1, ReplaysIs
<1>3. ASSUME NEW n \in 0 .. Len(rs) - 1, n \in Fine
      PROVE  n + 1 \in Fine
  <2>1. n + 1 \in 1 .. Len(rs) /\ (n + 1) - 1 = n /\ rs[n + 1] \in RowType
    BY <1>1
  <2>2. Replays(rs)[n + 1] = Replay(Replays(rs)[n], rs[n + 1])
    BY <2>1, ReplaysIs
  <2>3. Replays(rs)[n + 1] # None => Good(Replays(rs)[n + 1])
    BY <1>3, <2>1, <2>2, ReplayIsGood
  <2>. QED
    BY <2>1, <2>3
<1>. HIDE DEF Fine
<1>4. \A n \in 0 .. Len(rs) : n \in Fine
  BY <1>1, <1>2, <1>3, Induction
<1>. QED
  BY <1>4 DEF Fine

(***************************************************************************)
(* What a case takes, and what becomes of it, is the same whatever its     *)
(* counts are: a fold may count its rows once, at its end.                 *)
(***************************************************************************)
LEMMA CountsAside ==
  ASSUME NEW c \in Cases, NEW revision \in Nat, NEW lastSeq \in Nat,
         NEW author, NEW r, NEW write \in BOOLEAN
  PROVE  Fits(Counted(c, revision, lastSeq), author, r, write) <=> Fits(c, author, r, write)
<1>. DEFINE d == Counted(c, revision, lastSeq)
<1>1. /\ d.kind = c.kind /\ d.state = c.state /\ d.amendSeq = c.amendSeq
      /\ d.options = c.options /\ d.rows = c.rows /\ d.body = c.body
      /\ d.leftOut = c.leftOut /\ d.rest = c.rest
  BY DEF Counted, Cases
<1>. HIDE DEF d
<1>2. AmendFits(d, author, r) <=> AmendFits(c, author, r)
  BY <1>1 DEF AmendFits, AmendReopens, ChangesQuestion
<1>3. AnswerFits(d, r) <=> AnswerFits(c, r)
  BY <1>1 DEF AnswerFits, AnswerOf
<1>4. /\ PickupFits(d) <=> PickupFits(c)
      /\ NoteFits(d, r, write) <=> NoteFits(c, r, write)
      /\ CloseFits(d, r) <=> CloseFits(c, r)
      /\ WithdrawFits(d, author) <=> WithdrawFits(c, author)
      /\ ParkFits(d) <=> ParkFits(c)
      /\ ResumeFits(d) <=> ResumeFits(c)
  BY <1>1 DEF PickupFits, NoteFits, CloseFits, WithdrawFits, ParkFits, ResumeFits
<1>5. Fits(d, author, r, write) <=> Fits(c, author, r, write)
  BY <1>2, <1>3, <1>4 DEF Fits
<1>. QED
  BY <1>5 DEF d

LEMMA TakeCountsAside ==
  ASSUME NEW c \in Cases, NEW revision \in Nat, NEW lastSeq \in Nat,
         NEW r, r.event \in EventTypes \ {"open"}, NEW seq \in Nat,
         NEW revision2 \in Nat, NEW lastSeq2 \in Nat
  PROVE  Counted(Take(Counted(c, revision, lastSeq), seq, r), revision2, lastSeq2)
           = Counted(Take(c, seq, r), revision2, lastSeq2)
<1>. DEFINE d == Counted(c, revision, lastSeq)
            Counts == {"revision", "lastSeq"}
            Same(a, b) == /\ DOMAIN a = DOMAIN c /\ DOMAIN b = DOMAIN c
                          /\ \A f \in DOMAIN c \ Counts : a[f] = b[f]
<1>1. Same(d, c) /\ d.state = c.state
  BY DEF Counted, Cases
<1>2. Same(Changed(d, seq, r), Changed(c, seq, r))
  <2>. HIDE DEF d
  <2>1. CASE r.event = "amend"
    <3>1. DOMAIN c = {"kind", "state", "revision", "lastSeq", "amendSeq", "options", "rows",
                      "body", "leftOut", "rest", "answer", "pickup", "park", "close", "events"}
      BY DEF Cases
    <3>2. AmendSeqAfter(d, seq, r) = AmendSeqAfter(c, seq, r)
      BY <1>1, <3>1 DEF AmendSeqAfter, ChangesQuestion
    <3>3. Same(AmendQuestion(d, r), AmendQuestion(c, r))
      BY <1>1, <3>1 DEF AmendQuestion
    <3>4. ASSUME NEW a, NEW b, Same(a, b)
          PROVE  /\ Same([a EXCEPT !.amendSeq = AmendSeqAfter(d, seq, r)],
                         [b EXCEPT !.amendSeq = AmendSeqAfter(c, seq, r)])
                 /\ Same(Reopen(a), Reopen(b))
      BY <3>1, <3>2, <3>4 DEF Reopen
    <3>. HIDE DEF Same
    <3>. QED
      BY <2>1, <3>3, <3>4 DEF Changed, TakeAmend
  <2>2. CASE r.event = "answer"
    BY <1>1, <2>2 DEF Changed, TakeAnswer, Cases
  <2>3. CASE r.event = "pickup"
    BY <1>1, <2>3 DEF Changed, TakePickup, Cases
  <2>4. CASE r.event = "note"
    BY <1>1, <2>4 DEF Changed, TakeNote, Reopen, Cases
  <2>5. CASE r.event = "close"
    BY <1>1, <2>5 DEF Changed, TakeClose, Cases
  <2>6. CASE r.event = "withdraw"
    BY <1>1, <2>6 DEF Changed, TakeWithdraw, Cases
  <2>7. CASE r.event = "park"
    BY <1>1, <2>7 DEF Changed, TakePark, Cases
  <2>8. CASE r.event = "resume"
    BY <1>1, <2>8 DEF Changed, TakeResume, Cases
  <2>. QED
    BY <2>1, <2>2, <2>3, <2>4, <2>5, <2>6, <2>7, <2>8 DEF EventTypes
<1>3. Same(Take(d, seq, r), Take(c, seq, r))
  BY <1>1, <1>2 DEF Take, Cases
<1>4. Counted(Take(d, seq, r), revision2, lastSeq2) = Counted(Take(c, seq, r), revision2, lastSeq2)
  <2>1. ASSUME NEW a, NEW b, Same(a, b),
               a = [f \in DOMAIN a |-> a[f]], b = [f \in DOMAIN b |-> b[f]]
        PROVE  Counted(a, revision2, lastSeq2) = Counted(b, revision2, lastSeq2)
    BY <2>1 DEF Counted
  <2>2. /\ Take(d, seq, r) = [f \in DOMAIN Take(d, seq, r) |-> Take(d, seq, r)[f]]
        /\ Take(c, seq, r) = [f \in DOMAIN Take(c, seq, r) |-> Take(c, seq, r)[f]]
    BY DEF Take
  <2>. QED
    BY <1>3, <2>1, <2>2
<1>. QED
  BY <1>4

-----------------------------------------------------------------------------
(* The seqs of the rows rise. *)
RowsRise(rs) == \A i, j \in DOMAIN rs : i < j => rs[i].seq < rs[j].seq

LEMMA HighestIsLast ==
  ASSUME NEW rs \in Seq(RowType), RowsRise(rs)
  PROVE  /\ HighestSeq(rs) = LastSeq(rs) /\ LastSeq(rs) \in Nat
         /\ \A i \in DOMAIN rs : rs[i].seq <= LastSeq(rs)
<1>. DEFINE seqs == {0} \cup {rs[i].seq : i \in DOMAIN rs}
<1>1. Len(rs) \in Nat /\ DOMAIN rs = 1 .. Len(rs) /\ \A i \in DOMAIN rs : rs[i].seq \in Nat
  <2>1. \A i \in 1 .. Len(rs) : rs[i] \in RowType
    OBVIOUS
  <2>2. \A row \in RowType : row.seq \in Nat
    BY DEF RowType
  <2>. QED
    BY <2>1, <2>2
<1>2. LastSeq(rs) \in seqs /\ LastSeq(rs) \in Nat
  <2>1. CASE rs = <<>>
    BY <2>1 DEF LastSeq
  <2>2. CASE rs # <<>>
    <3>1. Len(rs) \in DOMAIN rs
      BY <1>1, <2>2
    <3>. QED
      BY <1>1, <2>2, <3>1 DEF LastSeq
  <2>. QED
    BY <2>1, <2>2
<1>3. \A i \in DOMAIN rs : rs[i].seq <= LastSeq(rs)
  <2>. SUFFICES ASSUME NEW i \in DOMAIN rs
                PROVE  rs[i].seq <= LastSeq(rs)
    OBVIOUS
  <2>1. rs # <<>> /\ Len(rs) \in DOMAIN rs /\ i <= Len(rs)
    BY <1>1
  <2>2. LastSeq(rs) = rs[Len(rs)].seq
    BY <2>1 DEF LastSeq
  <2>3. i < Len(rs) => rs[i].seq < rs[Len(rs)].seq
    BY <2>1 DEF RowsRise
  <2>. QED
    BY <1>1, <2>1, <2>2, <2>3
<1>4. HighestSeq(rs) \in seqs /\ \A i \in DOMAIN rs : rs[i].seq <= HighestSeq(rs)
  BY <1>2, <1>3 DEF HighestSeq
<1>5. HighestSeq(rs) <= LastSeq(rs) /\ LastSeq(rs) <= HighestSeq(rs)
  BY <1>1, <1>2, <1>3, <1>4
<1>. QED
  BY <1>1, <1>2, <1>3, <1>4, <1>5

(* One row more: the fold takes it as a replay on the case folded so far. *)
LEMMA FoldOfOneMore ==
  ASSUME NEW rs \in Seq(RowType), RowsRise(rs),
         NEW row \in RowType, LastSeq(rs) < row.seq
  PROVE  LET more   == Append(rs, row)
             replay == Replay(Fold(rs), row) IN
         /\ RowsRise(more) /\ more \in Seq(RowType)
         /\ Fold(more) = IF replay = None THEN None
                         ELSE Counted(replay, Len(rs) + 1, row.seq)
<1>. DEFINE more == Append(rs, row)
            folded == Replays(rs)[Len(rs)]
            replay == Replay(Fold(rs), row)
<1>1. /\ Len(rs) \in Nat /\ more \in Seq(RowType) /\ Len(more) = Len(rs) + 1
      /\ more[Len(rs) + 1] = row /\ \A i \in 1 .. Len(rs) : more[i] = rs[i]
  OBVIOUS
<1>2. RowsRise(more)
  <2>. SUFFICES ASSUME NEW i \in 1 .. Len(rs) + 1, NEW j \in 1 .. Len(rs) + 1, i < j
                PROVE  more[i].seq < more[j].seq
    BY <1>1 DEF RowsRise
  <2>1. i \in 1 .. Len(rs) /\ rs[i] \in RowType /\ rs[i].seq <= LastSeq(rs)
    BY <1>1, HighestIsLast
  <2>2. rs[i].seq \in Nat /\ row.seq \in Nat /\ LastSeq(rs) \in Nat
    BY <2>1, HighestIsLast DEF RowType
  <2>3. CASE j = Len(rs) + 1
    BY <1>1, <2>1, <2>2, <2>3
  <2>4. CASE j # Len(rs) + 1
    BY <1>1, <2>1, <2>4 DEF RowsRise
  <2>. QED
    BY <2>3, <2>4
<1>3. Replays(more)[Len(more)] = Replay(folded, row)
  <2>1. Replays(more)[Len(rs)] = folded
    <3>1. Len(rs) <= Len(more) /\ Len(rs) \in 0 .. Len(rs)
      BY <1>1
    <3>. HIDE DEF more
    <3>2. \A n \in 0 .. Len(rs) : Replays(more)[n] = Replays(rs)[n]
      BY <1>1, <3>1, ReplaysOfMore
    <3>. QED
      BY <3>1, <3>2
  <2>2. Replays(more)[Len(rs) + 1] = Replay(Replays(more)[Len(rs)], more[Len(rs) + 1])
    <3>1. Len(rs) + 1 \in 1 .. Len(more) /\ (Len(rs) + 1) - 1 = Len(rs)
      BY <1>1
    <3>. QED
      BY <1>1, <3>1, ReplaysIs
  <2>. QED
    BY <1>1, <2>1, <2>2
<1>4. HighestSeq(more) = row.seq /\ row.seq \in Nat
  <2>1. more # <<>>
    BY <1>1
  <2>2. LastSeq(more) = row.seq
    BY <1>1, <2>1 DEF LastSeq
  <2>. QED
    BY <1>1, <1>2, <2>2, HighestIsLast DEF RowType
<1>5. folded # None => Good(folded)
  BY <1>1, ReplaysAreGood
<1>6. CASE folded = None
  <2>1. Fold(rs) = None
    BY <1>6 DEF Fold
  <2>2. Fold(more) = IF Replay(None, row) = None THEN None
                     ELSE Counted(Replay(None, row), Len(rs) + 1, row.seq)
    BY <1>1, <1>3, <1>4, <1>6 DEF Fold
  <2>. QED
    BY <1>1, <1>2, <2>1, <2>2
<1>7. CASE folded # None
  <2>. DEFINE c == Counted(folded, Len(rs), HighestSeq(rs))
  <2>1. folded \in Cases /\ HighestSeq(rs) \in Nat /\ Len(rs) \in Nat
    BY <1>1, <1>5, <1>7, HighestIsLast DEF Good
  <2>2. Fold(rs) = c
    BY <1>7 DEF Fold
  <2>3. c \in Cases /\ c # None
    BY <2>1, NoneAssumption DEF Counted, Cases
  <2>4. /\ row.author \in Authors /\ row.rec \in Records \cup {Foreign}
        /\ FALSE \in BOOLEAN /\ Len(rs) + 1 \in Nat
    BY <1>1 DEF RowType
  <2>5. Fits(c, row.author, row.rec, FALSE) <=> Fits(folded, row.author, row.rec, FALSE)
    <3>. HIDE DEF folded
    <3>. QED
      BY <2>1, <2>4, CountsAside
  <2>. HIDE DEF c
  <2>6. CASE Fits(folded, row.author, row.rec, FALSE)
    <3>1. replay = Take(c, row.seq, row.rec)
      BY <2>2, <2>3, <2>5, <2>6 DEF Replay
    <3>2. Replay(folded, row) = Take(folded, row.seq, row.rec)
      BY <1>7, <2>6 DEF Replay
    <3>3. /\ Take(folded, row.seq, row.rec) # None
          /\ Good(Take(folded, row.seq, row.rec))
      BY <1>4, <1>5, <1>7, <2>4, <2>6, TakeIsGood, NoneAssumption DEF Good
    <3>4. Good(c) => Good(Take(c, row.seq, row.rec))
      BY <1>4, <2>4, <2>5, <2>6, TakeIsGood
    <3>5. Good(c)
      BY <1>5, <1>7, <2>1, CountedIsGood DEF c
    <3>6. replay # None
      BY <3>1, <3>4, <3>5, NoneAssumption DEF Good
    <3>7. Counted(Take(c, row.seq, row.rec), Len(rs) + 1, row.seq)
            = Counted(Take(folded, row.seq, row.rec), Len(rs) + 1, row.seq)
      <4>. HIDE DEF folded
      <4>1. row.rec.event \in EventTypes \ {"open"}
        BY <2>6 DEF Fits, EventTypes
      <4>. QED
        BY <1>4, <2>1, <2>4, <4>1, TakeCountsAside DEF c
    <3>8. Fold(more) = Counted(Take(folded, row.seq, row.rec), Len(rs) + 1, row.seq)
      BY <1>1, <1>3, <1>4, <3>2, <3>3 DEF Fold
    <3>. QED
      BY <1>1, <1>2, <3>1, <3>6, <3>7, <3>8
  <2>7. CASE ~Fits(folded, row.author, row.rec, FALSE)
    <3>1. replay = c
      BY <2>2, <2>3, <2>5, <2>7 DEF Replay
    <3>2. Replay(folded, row) = folded
      BY <1>7, <2>7 DEF Replay
    <3>3. Fold(more) = Counted(folded, Len(rs) + 1, row.seq)
      BY <1>1, <1>3, <1>4, <1>7, <3>2 DEF Fold
    <3>4. Counted(c, Len(rs) + 1, row.seq) = Counted(folded, Len(rs) + 1, row.seq)
      BY <2>1 DEF c, Counted, Cases
    <3>. QED
      BY <1>1, <1>2, <2>3, <3>1, <3>3, <3>4
  <2>. QED
    BY <2>6, <2>7
<1>. QED
  BY <1>6, <1>7

(* The case the writer goes on from is the fold of the rows, whose seqs rise. *)
FoldInv == RowsRise(rows) /\ case = Fold(rows)

(* So its counts are of the rows. *)
LEMMA CaseIsCounted ==
  ASSUME IInv, FoldInv
  PROVE  /\ rows = <<>> => case = None
         /\ case # None => /\ case.lastSeq = LastSeq(rows) /\ case.revision = Len(rows)
                           /\ Good(case)
<1>1. rows \in Seq(RowType) /\ Len(rows) \in Nat
  BY DEF IInv, CaseTypeOK
<1>2. rows = <<>> => case = None
  BY <1>1, ReplaysIs DEF FoldInv, Fold
<1>3. ASSUME case # None
      PROVE  case.lastSeq = LastSeq(rows) /\ case.revision = Len(rows)
  <2>. DEFINE folded == Replays(rows)[Len(rows)]
  <2>1. folded # None /\ case = Counted(folded, Len(rows), HighestSeq(rows))
    BY <1>3 DEF FoldInv, Fold
  <2>2. folded \in Cases
    BY <1>1, <2>1, ReplaysAreGood DEF Good
  <2>. HIDE DEF folded
  <2>3. HighestSeq(rows) = LastSeq(rows)
    BY <1>1, HighestIsLast DEF FoldInv
  <2>. QED
    BY <2>1, <2>2, <2>3 DEF Counted, Cases
<1>. QED
  BY <1>2, <1>3 DEF IInv, CaseInv

LEMMA AppendFolds ==
  ASSUME IInv, FoldInv, NEW r \in Records, NEW author \in Authors, NEW at,
         AppendTo(author, r, at)
  PROVE  FoldInv'
<1>. DEFINE seq == case.lastSeq + 1
            row == Row(seq, author, r)
<1>1. /\ case # None /\ Fits(case, author, r, TRUE)
      /\ rows' = Append(rows, row)
      /\ case' = Counted(Take(case, seq, r), case.revision + 1, seq)
  BY DEF AppendTo
<1>2. rows \in Seq(RowType) /\ Good(case) /\ case.lastSeq = LastSeq(rows)
        /\ case.revision = Len(rows) /\ seq \in Nat /\ LastSeq(rows) < seq
  BY <1>1, CaseIsCounted DEF IInv, CaseTypeOK, Good, Cases
<1>3. row \in RowType /\ row.seq = seq /\ row.author = author /\ row.rec = r
  BY <1>2, RowIsRow DEF Row
<1>4. Fits(case, author, r, FALSE)
  BY <1>1 DEF Fits, NoteFits
<1>. HIDE DEF row, seq
<1>5. Replay(case, row) = Take(case, seq, r)
  BY <1>1, <1>3, <1>4 DEF Replay
<1>6. Take(case, seq, r) # None
  BY <1>2, <1>4, TakeIsGood, NoneAssumption DEF Good
<1>7. RowsRise(rows') /\ Fold(rows') = Counted(Replay(case, row), Len(rows) + 1, row.seq)
  BY <1>1, <1>2, <1>3, <1>5, <1>6, FoldOfOneMore DEF FoldInv
<1>. QED
  BY <1>1, <1>2, <1>3, <1>5, <1>7 DEF FoldInv

LEMMA StoreFolds ==
  ASSUME IInv, FoldInv, NEW put \in StoredInputs, NEW gap \in Nat,
         StoreRow(put.author, put.rec, gap)
  PROVE  FoldInv'
<1>. DEFINE row == Row(LastSeq(rows) + 1 + gap, put.author, put.rec)
<1>1. rows \in Seq(RowType) /\ LastSeq(rows) \in Nat
  BY HighestIsLast DEF IInv, CaseTypeOK, FoldInv
<1>2. row \in RowType /\ LastSeq(rows) < row.seq
  <2>1. LastSeq(rows) + 1 + gap \in Nat /\ LastSeq(rows) < LastSeq(rows) + 1 + gap
    BY <1>1
  <2>2. put.author \in Authors /\ put.rec \in Records \cup {Foreign}
    BY InputsAssumption
  <2>3. row \in RowType
    BY <2>1, <2>2, RowIsRow
  <2>4. row.seq = LastSeq(rows) + 1 + gap
    BY DEF Row
  <2>. HIDE DEF row
  <2>. QED
    BY <2>1, <2>3, <2>4
<1>3. /\ rows' = Append(rows, row)
      /\ case' = IF Replay(case, row) = None THEN None
                 ELSE Counted(Replay(case, row), Len(rows) + 1, row.seq)
  BY DEF StoreRow
<1>. HIDE DEF row
<1>. QED
  BY <1>1, <1>2, <1>3, FoldOfOneMore DEF FoldInv

LEMMA OpenFolds ==
  ASSUME IInv, FoldInv, NEW r \in OpenInputs, NEW author \in Authors,
         OpenCase(author, r)
  PROVE  FoldInv'
<1>. DEFINE row == Row(1, author, r)
<1>1. r \in Opens /\ r \in Records /\ rows = <<>> /\ case = None /\ rows \in Seq(RowType)
  BY InputsAssumption, CaseIsCounted DEF Records, OpenCase, IInv, CaseTypeOK
<1>2. row \in RowType /\ row.seq = 1 /\ row.author = author /\ row.rec = r
  BY <1>1, RowIsRow DEF Row
<1>3. Replay(case, row) = Start(1, r)
  BY <1>1, <1>2 DEF Replay, OpenCase
<1>4. Start(1, r) # None
  BY <1>1, StartIsGood, NoneAssumption DEF Good, OpenCase
<1>5. rows' = <<row>> /\ case' = Counted(Start(1, r), 1, 1)
  BY DEF OpenCase
<1>. HIDE DEF row
<1>6. Append(rows, row) = <<row>> /\ Len(rows) + 1 = 1
  BY <1>1
<1>7. LastSeq(rows) < row.seq
  BY <1>1, <1>2 DEF LastSeq
<1>8. RowsRise(Append(rows, row)) /\ Fold(Append(rows, row)) = Counted(Start(1, r), 1, row.seq)
  <2>1. RowsRise(rows) /\ case = Fold(rows)
    BY DEF FoldInv
  <2>2. /\ RowsRise(Append(rows, row))
        /\ Fold(Append(rows, row)) = IF Replay(case, row) = None THEN None
                                     ELSE Counted(Replay(case, row), Len(rows) + 1, row.seq)
    BY <1>1, <1>2, <1>7, <2>1, FoldOfOneMore
  <2>. QED
    BY <1>3, <1>4, <1>6, <2>2
<1>. QED
  BY <1>2, <1>5, <1>6, <1>8 DEF FoldInv

LEMMA NextFolds == IInv /\ FoldInv /\ [CaseNext]_caseVars => FoldInv'
<1>. SUFFICES ASSUME IInv, FoldInv, [CaseNext]_caseVars PROVE FoldInv'
  OBVIOUS
<1>1. CASE OpenAny
  BY <1>1, OpenFolds DEF OpenAny
<1>2. ASSUME NEW R, R \subseteq Records, AppendAny(R) PROVE FoldInv'
  BY <1>2, AppendFolds DEF AppendAny
<1>3. CASE Amend
  BY <1>2, <1>3, InputsAreRecords DEF Amend
<1>4. CASE Answer
  <2>1. case \in Cases
    BY <1>4 DEF Answer, IInv, CaseTypeOK
  <2>. QED
    BY <1>2, <1>4, <2>1, InputsAreRecords DEF Answer
<1>5. CASE Pickup \/ Note \/ Close
  BY <1>2, <1>5, InputsAreRecords DEF Pickup, Note, Close
<1>6. CASE Withdraw \/ Park \/ Resume
  BY <1>2, <1>6, InputsAreRecords DEF Withdraw, Park, Resume
<1>7. CASE Stored
  BY <1>7, StoreFolds, BoundsAssumption DEF Stored
<1>8. CASE UNCHANGED caseVars
  BY <1>8 DEF caseVars, FoldInv
<1>. QED
  BY <1>1, <1>3, <1>4, <1>5, <1>6, <1>7, <1>8 DEF CaseNext

LEMMA InitFolds == CaseInit => IInv /\ FoldInv
<1>. SUFFICES ASSUME CaseInit PROVE IInv /\ FoldInv
  OBVIOUS
<1>1. rows \in Seq(RowType) /\ rows = <<>> /\ case = None
  BY DEF CaseInit
<1>2. Len(rows) = 0 /\ Replays(rows)[0] = None
  BY <1>1, ReplaysIs
<1>3. FoldInv
  BY <1>1, <1>2 DEF FoldInv, Fold, RowsRise
<1>. QED
  BY <1>1, <1>3 DEF IInv, CaseTypeOK, CaseInv

LEMMA CaseFolds == CaseSpec => [](IInv /\ FoldInv)
BY InitFolds, NextKeepsIInv, NextFolds, PTL DEF CaseSpec

(***************************************************************************)
(* The case the writer goes on from is the one any reader folds from the   *)
(* stored rows, however many there are and whoever put them there.         *)
(***************************************************************************)
THEOREM WriterAgreesWithReplay == CaseSpec => []ReplayAgrees
<1>1. FoldInv => ReplayAgrees
  BY DEF FoldInv, ReplayAgrees
<1>. QED
  BY <1>1, CaseFolds, PTL

-----------------------------------------------------------------------------
(***************************************************************************)
(* What a case never loses by a record it takes: an option, a row, or an   *)
(* answer, unless the agent asks again.                                    *)
(***************************************************************************)
Kept(c, d, author, event) ==
  /\ d.options >= c.options /\ c.rows \subseteq d.rows
  /\ c.answer # None =>
       \/ d.answer = c.answer /\ Question(d) = Question(c)
       \/ d.answer = None /\ d.state = "open" /\ author = "agent" /\ event \in {"note", "amend"}

LEMMA TakeKeeps ==
  ASSUME NEW c, Good(c), NEW author \in Authors, NEW r \in Records \cup {Foreign},
         NEW write \in BOOLEAN, NEW seq \in Nat, NEW revision \in Nat, NEW lastSeq \in Nat,
         Fits(c, author, r, write)
  PROVE  Kept(c, Counted(Take(c, seq, r), revision, lastSeq), author, r.event)
<1>. DEFINE d == Changed(c, seq, r)
<1>0. c \in Cases /\ StateFits(c) /\ c.options \in Nat
  BY DEF Good, Cases
<1>1. Kept(c, d, author, r.event) /\ DOMAIN d = DOMAIN c
  <2>1. CASE r.event = "amend" /\ AmendFits(c, author, r)
    <3>1. r.options \in Nat
      BY <2>1, RecordKinds DEF Amends
    <3>2. r.reopen => c.state \in {"answered", "pickedup"} /\ Opener(c.kind) = "agent"
      BY <2>1 DEF AmendFits, AmendReopens
    <3>3. ~r.reopen => c.answer = None
      BY <1>0, <2>1 DEF AmendFits, StateFits
    <3>4. AmendSeqAfter(c, seq, r) \in Nat
      BY <1>0 DEF AmendSeqAfter, Cases
    <3>5. d = TakeAmend(c, seq, r) /\ author = Opener(c.kind)
      BY <2>1 DEF Changed, AmendFits
    <3>6. d.options = c.options + r.options /\ d.rows = c.rows \cup r.rows
          /\ DOMAIN d = DOMAIN c
          /\ (r.reopen => d.answer = None /\ d.state = "open")
      BY <1>0, <3>5 DEF TakeAmend, AmendQuestion, Reopen, Cases
    <3>. HIDE DEF d
    <3>. QED
      BY <1>0, <2>1, <3>1, <3>2, <3>3, <3>5, <3>6 DEF Kept
  <2>. DEFINE Alike(e) == /\ \A f \in {"options", "rows", "body", "leftOut", "answer"} : e[f] = c[f]
                          /\ DOMAIN e = DOMAIN c
  <2>0. Alike(d) => Kept(c, d, author, r.event) /\ DOMAIN d = DOMAIN c
    <3>. HIDE DEF d
    <3>. QED
      BY <1>0 DEF Kept, Question
  <2>2. CASE r.event = "answer" /\ AnswerFits(c, r)
    <3>1. d = TakeAnswer(c, r) /\ c.answer = None
      BY <1>0, <2>2 DEF Changed, AnswerFits, StateFits
    <3>. HIDE DEF d
    <3>. QED
      BY <1>0, <3>1 DEF TakeAnswer, Kept, Cases
  <2>3. CASE r.event = "pickup"
    <3>1. d = TakePickup(c)
      BY <2>3 DEF Changed
    <3>2. Alike(TakePickup(c))
      BY <1>0 DEF TakePickup, Cases
    <3>. QED
      BY <2>0, <3>1, <3>2
  <2>4. CASE r.event = "close"
    <3>1. d = TakeClose(c)
      BY <2>4 DEF Changed
    <3>2. Alike(TakeClose(c))
      BY <1>0 DEF TakeClose, Cases
    <3>. QED
      BY <2>0, <3>1, <3>2
  <2>5. CASE r.event = "withdraw"
    <3>1. d = TakeWithdraw(c)
      BY <2>5 DEF Changed
    <3>2. Alike(TakeWithdraw(c))
      BY <1>0 DEF TakeWithdraw, Cases
    <3>. QED
      BY <2>0, <3>1, <3>2
  <2>6. CASE r.event = "park"
    <3>1. d = TakePark(c)
      BY <2>6 DEF Changed
    <3>2. Alike(TakePark(c))
      BY <1>0 DEF TakePark, Cases
    <3>. QED
      BY <2>0, <3>1, <3>2
  <2>7. CASE r.event = "resume"
    <3>1. d = TakeResume(c)
      BY <2>7 DEF Changed
    <3>2. Alike(TakeResume(c))
      BY <1>0 DEF TakeResume, Cases
    <3>. QED
      BY <2>0, <3>1, <3>2
  <2>8. CASE r.event = "note" /\ NoteFits(c, r, write)
    <3>1. d = TakeNote(c) /\ author = "agent"
      BY <2>8 DEF Changed, Fits, WrittenBy
    <3>2. CASE c.state = "open"
      BY <2>0, <3>1, <3>2 DEF TakeNote
    <3>3. CASE c.state # "open"
      <4>1. d = Reopen(c)
        BY <3>1, <3>3 DEF TakeNote
      <4>. HIDE DEF d
      <4>. QED
        BY <1>0, <2>8, <3>1, <4>1 DEF Reopen, Kept, Cases
    <3>. QED
      BY <3>2, <3>3
  <2>. QED
    BY <2>1, <2>2, <2>3, <2>4, <2>5, <2>6, <2>7, <2>8 DEF Fits
<1>2. \A f \in {"state", "options", "rows", "body", "leftOut", "answer"} :
         Counted(Take(c, seq, r), revision, lastSeq)[f] = d[f]
  BY <1>0, <1>1 DEF Counted, Take, Cases
<1>. HIDE DEF d
<1>. QED
  BY <1>1, <1>2 DEF Kept, Question

(* One step of the case keeps of it what is kept. *)
LEMMA StepKeeps ==
  ASSUME IInv, FoldInv, case # None, CaseNext
  PROVE  Kept(case, case', rows'[Len(rows')].author, rows'[Len(rows')].rec.event)
<1>. DEFINE last == rows'[Len(rows')]
<1>1. rows \in Seq(RowType) /\ rows # <<>> /\ Good(case) /\ Len(rows) \in Nat
  BY CaseIsCounted DEF IInv, CaseTypeOK
<1>2. ASSUME NEW row, rows' = Append(rows, row)
      PROVE  last = row
  BY <1>1, <1>2
<1>3. ASSUME NEW R, R \subseteq Records, AppendAny(R)
      PROVE  Kept(case, case', last.author, last.rec.event)
  <2>1. PICK author \in Authors, r \in R : AppendTo(author, r, None)
    BY <1>3 DEF AppendAny
  <2>. DEFINE seq == case.lastSeq + 1
  <2>2. last = Row(seq, author, r)
    BY <1>2, <2>1 DEF AppendTo
  <2>3. seq \in Nat /\ case.revision + 1 \in Nat
    BY <1>1 DEF Good, Cases
  <2>4. Fits(case, author, r, TRUE)
    BY <2>1 DEF AppendTo
  <2>5. case' = Counted(Take(case, seq, r), case.revision + 1, seq)
    BY <2>1 DEF AppendTo
  <2>. HIDE DEF seq, last
  <2>6. Kept(case, case', author, r.event)
    BY <1>1, <1>3, <2>3, <2>4, <2>5, TakeKeeps
  <2>. QED
    BY <2>2, <2>6 DEF Row
<1>4. CASE OpenAny
  BY <1>1, <1>4 DEF OpenAny, OpenCase
<1>5. CASE Answer
  <2>1. case \in Cases
    BY <1>1 DEF Good
  <2>. QED
    BY <1>3, <1>5, <2>1, InputsAreRecords DEF Answer
<1>6. CASE Amend \/ Pickup \/ Note \/ Close
  BY <1>3, <1>6, InputsAreRecords DEF Amend, Pickup, Note, Close
<1>7. CASE Withdraw \/ Park \/ Resume
  BY <1>3, <1>7, InputsAreRecords DEF Withdraw, Park, Resume
<1>8. CASE Stored
  <2>1. PICK put \in StoredInputs, gap \in 0 .. MaxGap : StoreRow(put.author, put.rec, gap)
    BY <1>8 DEF Stored
  <2>. DEFINE row == Row(LastSeq(rows) + 1 + gap, put.author, put.rec)
              replay == Replay(case, row)
  <2>2. LastSeq(rows) \in Nat
    BY <1>1, HighestIsLast DEF FoldInv
  <2>3. /\ row \in RowType /\ row.seq \in Nat /\ row.author = put.author /\ row.rec = put.rec
        /\ put.author \in Authors /\ put.rec \in Records \cup {Foreign}
    BY <2>2, InputsAssumption, BoundsAssumption, RowIsRow DEF Row
  <2>4. last = row
    BY <1>2, <2>1 DEF StoreRow
  <2>5. case' = IF replay = None THEN None ELSE Counted(replay, Len(rows) + 1, row.seq)
    BY <2>1 DEF StoreRow
  <2>. HIDE DEF row, last
  <2>6. CASE Fits(case, row.author, row.rec, FALSE)
    <3>1. replay = Take(case, row.seq, row.rec)
      BY <2>6 DEF Replay
    <3>2. replay # None
      BY <1>1, <2>3, <2>6, <3>1, TakeIsGood, NoneAssumption DEF Good
    <3>3. Len(rows) + 1 \in Nat
      BY <1>1
    <3>. HIDE DEF replay
    <3>. QED
      <4>1. FALSE \in BOOLEAN
        OBVIOUS
      <4>2. Kept(case, Counted(Take(case, row.seq, row.rec), Len(rows) + 1, row.seq),
                 row.author, row.rec.event)
        BY <1>1, <2>3, <2>6, <3>3, <4>1, TakeKeeps
      <4>. QED
        BY <2>4, <2>5, <3>1, <3>2, <4>2 DEF last
  <2>7. CASE ~Fits(case, row.author, row.rec, FALSE)
    <3>1. replay = case
      BY <2>7 DEF Replay
    <3>. HIDE DEF replay
    <3>2. case' = Counted(case, Len(rows) + 1, row.seq)
      BY <2>5, <3>1
    <3>. QED
      BY <1>1, <3>2 DEF Good, Cases, Counted, Kept, Question
  <2>. QED
    BY <2>6, <2>7
<1>. QED
  BY <1>4, <1>5, <1>6, <1>7, <1>8 DEF CaseNext

(***************************************************************************)
(* An answer is let go only by the agent's note or amend, which asks again;*)
(* while it stands, the question it answers does not change under it.      *)
(***************************************************************************)
THEOREM AnswersAreKept == CaseSpec => AnswerIsKept
<1>1. IInv /\ FoldInv /\ [CaseNext]_caseVars =>
        [case # None /\ case.answer # None =>
           \/ case'.answer = case.answer /\ Question(case') = Question(case)
           \/ /\ case'.answer = None /\ case'.state = "open"
              /\ rows'[Len(rows')].author = "agent"
              /\ rows'[Len(rows')].rec.event \in {"note", "amend"}]_caseVars
  BY StepKeeps DEF Kept
<1>. QED
  BY <1>1, CaseFolds, PTL DEF CaseSpec, AnswerIsKept

(* The options and rows a case had are there ever after.                   *)
THEOREM QuestionsOnlyGrow == CaseSpec => QuestionOnlyGrows
<1>1. IInv /\ FoldInv /\ [CaseNext]_caseVars =>
        [case # None => /\ case'.options >= case.options
                        /\ case.rows \subseteq case'.rows]_caseVars
  BY StepKeeps DEF Kept
<1>. QED
  BY <1>1, CaseFolds, PTL DEF CaseSpec, QuestionOnlyGrows

-----------------------------------------------------------------------------
(***************************************************************************)
(* What one taken record leaves behind: an event that says the state it    *)
(* was taken in, and an amendSeq of its own when it changes the question.  *)
(***************************************************************************)
Taken(c, d, seq, event) ==
  /\ d.events = Append(c.events, [seq |-> seq, event |-> event, from |-> c.state])
  /\ d.kind = c.kind
  /\ \/ d.amendSeq = seq
     \/ d.amendSeq = c.amendSeq /\ Question(d) = Question(c)

LEMMA TakeIsTaken ==
  ASSUME NEW c \in Cases, NEW r \in Records \cup {Foreign}, NEW seq \in Nat,
         r.event \in EventTypes \ {"open"}
  PROVE  Taken(c, Take(c, seq, r), seq, r.event)
<1>. DEFINE d == Changed(c, seq, r)
            Alike(e) == /\ \A f \in {"kind", "amendSeq", "options", "rows", "body", "leftOut",
                                     "events"} : e[f] = c[f]
                        /\ DOMAIN e = DOMAIN c
            Asked(e) == /\ e.events = c.events /\ e.kind = c.kind /\ DOMAIN e = DOMAIN c
                        /\ \/ e.amendSeq = seq
                           \/ e.amendSeq = c.amendSeq /\ Question(e) = Question(c)
<1>1. \A e : Alike(e) => Asked(e)
  BY DEF Question
<1>2. Asked(d)
  <2>1. CASE r.event = "amend"
    <3>1. r \in Amends
      BY <2>1, RecordKinds
    <3>2. d = TakeAmend(c, seq, r)
      BY <2>1 DEF Changed
    <3>3. /\ d.amendSeq = AmendSeqAfter(c, seq, r) /\ d.events = c.events /\ d.kind = c.kind
          /\ d.options = c.options + r.options /\ d.rows = c.rows \cup r.rows
          /\ d.body = (IF r.body = None THEN c.body ELSE r.body)
          /\ d.leftOut = (IF r.leftOut = <<>> THEN c.leftOut ELSE r.leftOut)
          /\ DOMAIN d = DOMAIN c
      BY <3>2, ZenonT(30) DEF TakeAmend, AmendQuestion, Reopen, Cases
    <3>4. c.options \in Nat /\ r.options \in Nat
      BY <3>1 DEF Cases, Amends
    <3>. HIDE DEF d
    <3>5. CASE ChangesQuestion(c, r)
      BY <3>3, <3>5 DEF AmendSeqAfter
    <3>6. CASE ~ChangesQuestion(c, r)
      <4>1. d.options = c.options /\ d.rows = c.rows /\ d.body = c.body /\ d.leftOut = c.leftOut
        BY <3>3, <3>4, <3>6 DEF ChangesQuestion
      <4>. QED
        BY <3>3, <3>6, <4>1 DEF AmendSeqAfter, Question
    <3>. QED
      BY <3>5, <3>6
  <2>. HIDE DEF Asked
  <2>2. CASE r.event = "answer"
    <3>1. d = TakeAnswer(c, r) /\ Alike(TakeAnswer(c, r))
      BY <2>2 DEF Changed, TakeAnswer, Cases
    <3>. QED
      BY <1>1, <3>1
  <2>3. CASE r.event = "pickup"
    <3>1. d = TakePickup(c)
      BY <2>3 DEF Changed
    <3>2. Alike(TakePickup(c))
      BY DEF TakePickup, Cases
    <3>. QED
      BY <1>1, <3>1, <3>2
  <2>4. CASE r.event = "note"
    <3>1. d = TakeNote(c)
      BY <2>4 DEF Changed
    <3>2. Alike(TakeNote(c))
      BY DEF TakeNote, Reopen, Cases
    <3>. QED
      BY <1>1, <3>1, <3>2
  <2>5. CASE r.event = "close"
    <3>1. d = TakeClose(c)
      BY <2>5 DEF Changed
    <3>2. Alike(TakeClose(c))
      BY DEF TakeClose, Cases
    <3>. QED
      BY <1>1, <3>1, <3>2
  <2>6. CASE r.event = "withdraw"
    <3>1. d = TakeWithdraw(c)
      BY <2>6 DEF Changed
    <3>2. Alike(TakeWithdraw(c))
      BY DEF TakeWithdraw, Cases
    <3>. QED
      BY <1>1, <3>1, <3>2
  <2>7. CASE r.event = "park"
    <3>1. d = TakePark(c)
      BY <2>7 DEF Changed
    <3>2. Alike(TakePark(c))
      BY DEF TakePark, Cases
    <3>. QED
      BY <1>1, <3>1, <3>2
  <2>8. CASE r.event = "resume"
    <3>1. d = TakeResume(c)
      BY <2>8 DEF Changed
    <3>2. Alike(TakeResume(c))
      BY DEF TakeResume, Cases
    <3>. QED
      BY <1>1, <3>1, <3>2
  <2>. QED
    BY <2>1, <2>2, <2>3, <2>4, <2>5, <2>6, <2>7, <2>8 DEF EventTypes
<1>3. /\ Take(c, seq, r).events
           = Append(d.events, [seq |-> seq, event |-> r.event, from |-> c.state])
      /\ \A f \in {"kind", "amendSeq", "options", "rows", "body", "leftOut"} :
            Take(c, seq, r)[f] = d[f]
  BY <1>2 DEF Take, Cases
<1>. HIDE DEF d
<1>. QED
  BY <1>2, <1>3 DEF Taken, Question

(* A replay takes the row, or leaves the case as it is. *)
LEMMA ReplayTakes ==
  ASSUME NEW c, Good(c), NEW row \in RowType
  PROVE  /\ Replay(c, row) # None /\ Good(Replay(c, row))
         /\ \/ Replay(c, row) = c
            \/ Taken(c, Replay(c, row), row.seq, row.rec.event)
<1>1. c # None /\ c \in Cases /\ row.seq \in Nat /\ row.rec \in Records \cup {Foreign}
        /\ row.author \in Authors
  BY NoneAssumption DEF Good, RowType
<1>2. CASE Fits(c, row.author, row.rec, FALSE)
  <2>1. row.rec.event \in EventTypes \ {"open"}
    BY <1>2 DEF Fits, EventTypes
  <2>2. Replay(c, row) = Take(c, row.seq, row.rec)
    BY <1>1, <1>2 DEF Replay
  <2>3. Taken(c, Take(c, row.seq, row.rec), row.seq, row.rec.event)
    BY <1>1, <2>1, TakeIsTaken
  <2>4. Good(Take(c, row.seq, row.rec))
    BY <1>1, <1>2, TakeIsGood
  <2>. QED
    BY <2>2, <2>3, <2>4, NoneAssumption DEF Good
<1>3. CASE ~Fits(c, row.author, row.rec, FALSE)
  <2>1. Replay(c, row) = c
    BY <1>1, <1>3 DEF Replay
  <2>. QED
    BY <1>1, <2>1
<1>. QED
  BY <1>2, <1>3

(* The case has nothing in it of rows still to come, and its events rise. *)
LEMMA NothingLater ==
  ASSUME NEW rs \in Seq(RowType), RowsRise(rs)
  PROVE  \A n \in 1 .. Len(rs) : Replays(rs)[n] # None =>
            /\ Replays(rs)[n].amendSeq <= rs[n].seq
            /\ \A i \in DOMAIN Replays(rs)[n].events : Replays(rs)[n].events[i].seq <= rs[n].seq
            /\ RowsRise(Replays(rs)[n].events)
<1>. DEFINE Past(c, seq) == /\ c.amendSeq <= seq
                            /\ \A i \in DOMAIN c.events : c.events[i].seq <= seq
                            /\ RowsRise(c.events)
            Fine == {n \in 1 .. Len(rs) : Replays(rs)[n] # None => Past(Replays(rs)[n], rs[n].seq)}
<1>1. Len(rs) \in Nat /\ \A n \in 1 .. Len(rs) : rs[n] \in RowType /\ rs[n].seq \in Nat
  <2>1. \A n \in 1 .. Len(rs) : rs[n] \in RowType
    OBVIOUS
  <2>2. \A row \in RowType : row.seq \in Nat
    BY DEF RowType
  <2>. QED
    BY <2>1, <2>2
<1>2. ASSUME NEW row \in RowType, Replay(None, row) # None
      PROVE  Past(Replay(None, row), row.seq)
  <2>1. Replay(None, row) = Start(row.seq, row.rec)
    BY <1>2 DEF Replay
  <2>. QED
    BY <2>1 DEF Start, RowType, RowsRise
<1>3. ASSUME NEW c, Good(c), NEW row \in RowType, NEW seq \in Nat, seq < row.seq, Past(c, seq)
      PROVE  Past(Replay(c, row), row.seq)
  <2>1. row.seq \in Nat /\ c.amendSeq \in Nat /\ c.events \in Seq(Events)
    BY <1>3 DEF Good, Cases, RowType
  <2>2. \A i \in DOMAIN c.events : c.events[i].seq \in Nat
    <3>1. \A i \in DOMAIN c.events : c.events[i] \in Events
      BY <2>1
    <3>. QED
      BY <3>1 DEF Events
  <2>3. Past(c, row.seq) /\ \A i \in DOMAIN c.events : c.events[i].seq < row.seq
    BY <1>3, <2>1, <2>2
  <2>4. CASE Taken(c, Replay(c, row), row.seq, row.rec.event)
    <3>. DEFINE event == [seq |-> row.seq, event |-> row.rec.event, from |-> c.state]
                d == Replay(c, row)
    <3>1. d.events = Append(c.events, event) /\ d.amendSeq \in {row.seq, c.amendSeq}
      BY <2>4 DEF Taken
    <3>2. event.seq = row.seq
      OBVIOUS
    <3>. HIDE DEF event, d
    <3>3. \A i \in DOMAIN d.events : d.events[i].seq <= row.seq
      BY <2>1, <2>3, <3>1, <3>2
    <3>4. RowsRise(d.events)
      <4>1. /\ Len(d.events) = Len(c.events) + 1 /\ Len(c.events) \in Nat
            /\ d.events[Len(c.events) + 1] = event
            /\ \A i \in 1 .. Len(c.events) : d.events[i] = c.events[i]
            /\ DOMAIN c.events = 1 .. Len(c.events) /\ DOMAIN d.events = 1 .. Len(d.events)
        BY <2>1, <3>1
      <4>. SUFFICES ASSUME NEW i \in 1 .. Len(d.events), NEW j \in 1 .. Len(d.events), i < j
                    PROVE  d.events[i].seq < d.events[j].seq
        BY <4>1 DEF RowsRise
      <4>2. i \in 1 .. Len(c.events) /\ (j \in 1 .. Len(c.events) \/ j = Len(c.events) + 1)
        BY <4>1
      <4>3. CASE j \in 1 .. Len(c.events)
        <5>1. RowsRise(c.events)
          BY <2>3
        <5>. QED
          BY <4>1, <4>2, <4>3, <5>1 DEF RowsRise
      <4>4. CASE j = Len(c.events) + 1
        BY <2>3, <3>2, <4>1, <4>2, <4>4
      <4>. QED
        BY <4>2, <4>3, <4>4
    <3>. QED
      BY <2>1, <2>3, <3>1, <3>3, <3>4 DEF d
  <2>. QED
    BY <2>3, <2>4, <1>3, ReplayTakes
<1>. HIDE DEF Past
<1>4. 0 < Len(rs) => 1 \in Fine
  <2>. SUFFICES ASSUME 0 < Len(rs), Replays(rs)[1] # None
                PROVE  Past(Replays(rs)[1], rs[1].seq)
    BY <1>1
  <2>1. 1 \in 1 .. Len(rs) /\ 1 - 1 = 0
    BY <1>1
  <2>2. Replays(rs)[1] = Replay(None, rs[1])
    BY <2>1, ReplaysIs
  <2>. QED
    BY <1>1, <1>2, <2>1, <2>2
<1>5. ASSUME NEW n \in 1 .. Len(rs) - 1, n \in Fine
      PROVE  n + 1 \in Fine
  <2>1. n + 1 \in 1 .. Len(rs) /\ (n + 1) - 1 = n /\ n \in 1 .. Len(rs) /\ n \in 0 .. Len(rs)
    BY <1>1
  <2>2. Replays(rs)[n + 1] = Replay(Replays(rs)[n], rs[n + 1])
    BY <2>1, ReplaysIs
  <2>3. rs[n].seq < rs[n + 1].seq
    BY <1>1, <2>1 DEF RowsRise
  <2>4. Replays(rs)[n] # None => Good(Replays(rs)[n]) /\ Past(Replays(rs)[n], rs[n].seq)
    BY <1>5, <2>1, ReplaysAreGood
  <2>5. Replays(rs)[n + 1] # None => Past(Replays(rs)[n + 1], rs[n + 1].seq)
    BY <1>1, <1>2, <1>3, <2>1, <2>2, <2>3, <2>4
  <2>. QED
    BY <2>1, <2>5
<1>. HIDE DEF Fine
<1>6. \A n \in 1 .. Len(rs) : n \in Fine
  <2>1. CASE Len(rs) = 0
    BY <2>1
  <2>2. CASE Len(rs) # 0
    <3>1. 1 \in Nat /\ 1 \in Fine
      BY <1>1, <1>4, <2>2
    <3>. QED
      BY <1>1, <1>5, <3>1, Induction
  <2>. QED
    BY <2>1, <2>2
<1>. QED
  BY <1>6 DEF Fine, Past

(***************************************************************************)
(* From the n-th row to the m-th: the case's events grow by at most one    *)
(* for each row, each with the state it was taken in; and the question is  *)
(* the one of then, when amendSeq is no higher than the n-th row's seq.    *)
(***************************************************************************)
GrownSince(rs, n, m) ==
  LET was == Replays(rs)[n]
      now == Replays(rs)[m]
      old == Len(was.events) IN
  /\ now # None /\ Good(now) /\ now.kind = was.kind
  /\ Len(now.events) \in old .. old + (m - n)
  /\ \A i \in 1 .. old : now.events[i] = was.events[i]
  /\ \A i \in old + 1 .. Len(now.events) : now.events[i].seq > rs[n].seq
  /\ now.amendSeq <= rs[n].seq => Question(now) = Question(was)
  /\ Len(now.events) = old + (m - n) =>
       \A p \in n .. m - 1 : now.events[old + 1 + (p - n)].from = Replays(rs)[p].state

LEMMA SincePath ==
  ASSUME NEW rs \in Seq(RowType), RowsRise(rs), NEW n \in 1 .. Len(rs),
         Replays(rs)[n] # None
  PROVE  \A m \in n .. Len(rs) : GrownSince(rs, n, m)
<1>. DEFINE Along == {m \in n .. Len(rs) : GrownSince(rs, n, m)}
            was == Replays(rs)[n]
            old == Len(was.events)
<1>1. /\ Len(rs) \in Nat /\ n \in 0 .. Len(rs)
      /\ \A m \in 1 .. Len(rs) : rs[m] \in RowType /\ rs[m].seq \in Nat
  <2>1. \A m \in 1 .. Len(rs) : rs[m] \in RowType
    OBVIOUS
  <2>2. \A row \in RowType : row.seq \in Nat
    BY DEF RowType
  <2>. QED
    BY <2>1, <2>2
<1>2. Good(was) /\ was.events \in Seq(Events) /\ old \in Nat
  <2>1. Good(was)
    BY <1>1, ReplaysAreGood
  <2>. HIDE DEF was
  <2>. QED
    BY <2>1 DEF Good, Cases
<1>3. n \in Along
  BY <1>1, <1>2 DEF GrownSince
<1>4. ASSUME NEW m \in n .. Len(rs) - 1, m \in Along
      PROVE  m + 1 \in Along
  <2>. DEFINE now == Replays(rs)[m]
              row == rs[m + 1]
              next == Replays(rs)[m + 1]
              event == [seq |-> row.seq, event |-> row.rec.event, from |-> now.state]
  <2>0. m \in Int /\ n \in Int /\ n <= m
    BY <1>1
  <2>1. m + 1 \in 1 .. Len(rs) /\ (m + 1) - 1 = m /\ m \in 1 .. Len(rs) /\ m + 1 \in n .. Len(rs)
    BY <1>1
  <2>2. next = Replay(now, row) /\ row \in RowType
    BY <1>1, <2>1, ReplaysIs
  <2>3. GrownSince(rs, n, m)
    BY <1>4
  <2>4. rs[n].seq < row.seq /\ rs[n].seq \in Nat /\ row.seq \in Nat
    BY <1>1, <2>1 DEF RowsRise
  <2>5. now # None /\ Good(now) /\ now.events \in Seq(Events) /\ Len(now.events) \in Nat
        /\ now.amendSeq \in Nat
    <3>1. now # None /\ Good(now)
      BY <2>3 DEF GrownSince
    <3>. HIDE DEF now
    <3>. QED
      BY <3>1 DEF Good, Cases
  <2>6. next # None /\ Good(next) /\ (next = now \/ Taken(now, next, row.seq, row.rec.event))
    <3>. HIDE DEF now, row, next
    <3>. QED
      BY <2>2, <2>5, ReplayTakes
  <2>7. /\ now.kind = was.kind /\ Len(now.events) \in old .. old + (m - n)
        /\ \A i \in 1 .. old : now.events[i] = was.events[i]
        /\ \A i \in old + 1 .. Len(now.events) : now.events[i].seq > rs[n].seq
        /\ now.amendSeq <= rs[n].seq => Question(now) = Question(was)
        /\ Len(now.events) = old + (m - n) =>
             \A p \in n .. m - 1 : now.events[old + 1 + (p - n)].from = Replays(rs)[p].state
    BY <2>3 DEF GrownSince
  <2>10. /\ Len(now.events) \in old .. old + ((m + 1) - n)
         /\ Len(now.events) + 1 \in old .. old + ((m + 1) - n)
         /\ Len(now.events) # old + ((m + 1) - n)
         /\ Len(now.events) + 1 = old + ((m + 1) - n) <=> Len(now.events) = old + (m - n)
    <3>. HIDE DEF now, next, row, was, old
    <3>1. ASSUME NEW k \in Nat, NEW h \in Nat, k \in h .. h + (m - n)
          PROVE  /\ k \in h .. h + ((m + 1) - n)
                 /\ k + 1 \in h .. h + ((m + 1) - n)
                 /\ k # h + ((m + 1) - n)
                 /\ k + 1 = h + ((m + 1) - n) <=> k = h + (m - n)
      BY <2>0, <3>1
    <3>. QED
      BY <1>2, <2>5, <2>7, <3>1
  <2>8. CASE next = now
    <3>. HIDE DEF now, next, row, was, old
    <3>1. Len(next.events) # old + ((m + 1) - n)
      BY <2>10, <2>8
    <3>2. Len(next.events) \in old .. old + ((m + 1) - n)
      BY <2>10, <2>8
    <3>3. GrownSince(rs, n, m + 1)
      BY <2>5, <2>6, <2>7, <2>8, <3>1, <3>2 DEF GrownSince, was, old, next
    <3>. QED
      BY <2>1, <3>3
  <2>9. CASE Taken(now, next, row.seq, row.rec.event)
    <3>1. /\ next.events = Append(now.events, event) /\ next.kind = now.kind
          /\ \/ next.amendSeq = row.seq
             \/ next.amendSeq = now.amendSeq /\ Question(next) = Question(now)
      BY <2>9 DEF Taken
    <3>2. event.seq = row.seq /\ event.from = now.state
      OBVIOUS
    <3>. HIDE DEF now, next, row, was, event
    <3>3. /\ Len(next.events) = Len(now.events) + 1
          /\ next.events[Len(now.events) + 1] = event
          /\ \A i \in 1 .. Len(now.events) : next.events[i] = now.events[i]
      BY <2>5, <3>1
    <3>4. Len(next.events) \in old .. old + ((m + 1) - n)
      BY <2>10, <3>3
    <3>5. \A i \in 1 .. old : next.events[i] = was.events[i]
      BY <1>2, <2>5, <2>7, <3>3
    <3>6. \A i \in old + 1 .. Len(next.events) : next.events[i].seq > rs[n].seq
      <4>. SUFFICES ASSUME NEW i \in old + 1 .. Len(next.events)
                    PROVE  next.events[i].seq > rs[n].seq
        OBVIOUS
      <4>1. CASE i = Len(now.events) + 1
        BY <2>4, <3>2, <3>3, <4>1
      <4>2. CASE i # Len(now.events) + 1
        <5>1. i \in old + 1 .. Len(now.events) /\ i \in 1 .. Len(now.events)
          BY <1>2, <2>5, <3>3, <4>2, SMTT(20)
        <5>. QED
          BY <2>7, <3>3, <5>1
      <4>. QED
        BY <4>1, <4>2
    <3>7. next.amendSeq <= rs[n].seq => Question(next) = Question(was)
      BY <2>4, <2>5, <2>7, <3>1
    <3>8. ASSUME Len(next.events) = old + ((m + 1) - n), NEW p \in n .. m
          PROVE  next.events[old + 1 + (p - n)].from = Replays(rs)[p].state
      <4>1. Len(now.events) = old + (m - n)
        BY <2>10, <3>3, <3>8
      <4>2. CASE p = m
        BY <1>2, <2>5, <3>2, <3>3, <4>1, <4>2 DEF now
      <4>3. CASE p # m
        <5>1. p \in n .. m - 1 /\ old + 1 + (p - n) \in 1 .. Len(now.events)
          BY <1>2, <2>0, <4>1, <4>3
        <5>. QED
          BY <2>7, <3>3, <4>1, <5>1
      <4>. QED
        BY <4>2, <4>3
    <3>9. (m + 1) - 1 = m
      OBVIOUS
    <3>10. GrownSince(rs, n, m + 1)
      BY <2>6, <2>7, <3>1, <3>4, <3>5, <3>6, <3>7, <3>8, <3>9 DEF GrownSince, was, old, next
    <3>. QED
      BY <2>1, <3>10
  <2>. QED
    BY <2>6, <2>8, <2>9
<1>. HIDE DEF Along
<1>5. \A m \in n .. Len(rs) : m \in Along
  <2>1. n \in Nat
    BY <1>1
  <2>. QED
    BY <1>1, <1>3, <1>4, <2>1, Induction
<1>. QED
  BY <1>5 DEF Along

(* The case as it was when the store held n rows. *)
LEMMA CaseAtIs ==
  ASSUME IInv, FoldInv, NEW n \in 1 .. Len(rows)
  PROVE  CaseAt(n) = IF Replays(rows)[n] = None THEN None
                     ELSE Counted(Replays(rows)[n], n, rows[n].seq)
<1>. DEFINE first == SubSeq(rows, 1, n)
<1>1. rows \in Seq(RowType) /\ Len(rows) \in Nat /\ RowsRise(rows)
  BY DEF IInv, CaseTypeOK, FoldInv
<1>2. n \in Nat /\ n <= Len(rows) /\ n # 0
  BY <1>1
<1>3. first \in Seq(RowType) /\ Len(first) = n /\ \A i \in 1 .. n : first[i] = rows[i]
  BY <1>1, <1>2
<1>. HIDE DEF first
<1>4. RowsRise(first)
  <2>1. \A i, j \in 1 .. n : i < j => rows[i].seq < rows[j].seq
    BY <1>1, <1>2 DEF RowsRise
  <2>. QED
    BY <1>3, <2>1 DEF RowsRise
<1>5. \A i \in 0 .. n : Replays(rows)[i] = Replays(first)[i]
  BY <1>1, <1>2, <1>3, ReplaysOfMore
<1>6. HighestSeq(first) = rows[n].seq
  <2>1. first # <<>> /\ n \in 1 .. n
    BY <1>2, <1>3
  <2>2. LastSeq(first) = rows[n].seq
    BY <1>3, <2>1 DEF LastSeq
  <2>. QED
    BY <1>3, <1>4, <2>2, HighestIsLast
<1>7. Replays(first)[n] = Replays(rows)[n]
  BY <1>2, <1>5
<1>. QED
  BY <1>3, <1>6, <1>7 DEF CaseAt, Fold, first

(* The events at or below a form's seq are the ones the case had then. *)
LEMMA PartitionIs ==
  ASSUME NEW events, NEW k \in 0 .. Len(events), events \in Seq(Events), NEW seq \in Nat,
         \A i \in DOMAIN events : events[i].seq <= seq <=> i <= k
  PROVE  PartitionPoint(events, seq) = k
<1>. DEFINE Parts(h) == \A i \in DOMAIN events : events[i].seq <= seq <=> i <= h
<1>1. Len(events) \in Nat /\ DOMAIN events = 1 .. Len(events)
  OBVIOUS
<1>2. ASSUME NEW h \in 0 .. Len(events), Parts(h)
      PROVE  h = k
  <2>1. CASE h < k
    <3>1. k \in DOMAIN events /\ ~(k <= h) /\ k <= k
      BY <1>1, <2>1
    <3>. QED
      BY <1>2, <3>1
  <2>2. CASE k < h
    <3>1. h \in DOMAIN events /\ ~(h <= k) /\ h <= h
      BY <1>1, <2>2
    <3>. QED
      BY <1>2, <3>1
  <2>. QED
    BY <1>1, <2>1, <2>2
<1>3. Parts(k)
  OBVIOUS
<1>. HIDE DEF Parts
<1>4. \E h \in 0 .. Len(events) : Parts(h)
  BY <1>3
<1>5. PartitionPoint(events, seq) = CHOOSE h \in 0 .. Len(events) : Parts(h)
  BY DEF PartitionPoint, Parts
<1>. QED
  BY <1>2, <1>4, <1>5

(***************************************************************************)
(* A form drawn from the case at any earlier revision: since the events    *)
(* are the rows but for the skipped ones, a form as many events behind as  *)
(* it is revisions behind has every row since in its walk.                 *)
(***************************************************************************)
LEMMA SinceIsSo ==
  ASSUME IInv, FoldInv, case # None,
         NEW n \in 1 .. Len(rows), n # Len(rows), CaseAt(n) # None
  PROVE  LET was   == CaseAt(n)
             since == Since(case, was.revision, was.lastSeq) IN
         /\ since = "unchanged" =>
              /\ \A m \in n .. Len(rows) : CaseAt(m).state = case.state
              /\ LastAnswer(was) = LastAnswer(case)
         /\ since # "changed" /\ case.kind # "message" => Question(was) = Question(case)
         /\ since # "changed" =>
              LET after == EventsAfter(case, was.lastSeq)
                  old   == Len(was.events) IN
              /\ after \in Seq(Events) /\ Len(after) > 0 /\ after[1].from = was.state
              /\ old \in Nat /\ Len(case.events) = old + Len(after)
              /\ \A i \in 1 .. Len(after) : /\ after[i] = case.events[old + i]
                                            /\ after[i].seq > was.lastSeq
              /\ \A i \in 1 .. old : /\ case.events[i] = was.events[i]
                                     /\ was.events[i].seq <= was.lastSeq
              /\ case.kind = was.kind
<1>. DEFINE L == Len(rows)
            was == CaseAt(n)
            then == Replays(rows)[n]
            now == Replays(rows)[L]
            seq == rows[n].seq
            old == Len(then.events)
            since == Since(case, was.revision, was.lastSeq)
            after == EventsAfter(case, was.lastSeq)
<1>1. /\ rows \in Seq(RowType) /\ RowsRise(rows) /\ L \in Nat /\ n \in Nat /\ n < L
      /\ L \in 1 .. L /\ L \in n .. L /\ \A m \in n .. L : m \in 1 .. L
  BY DEF IInv, CaseTypeOK, FoldInv
<1>2. seq \in Nat
  <2>1. rows[n] \in RowType
    BY <1>1
  <2>. QED
    BY <2>1 DEF RowType
<1>3. then # None /\ was = Counted(then, n, seq)
  BY CaseAtIs
<1>4. \A m \in n .. L : GrownSince(rows, n, m)
  BY <1>1, <1>3, SincePath
<1>5. \A m \in n .. L : Replays(rows)[m] # None /\ Good(Replays(rows)[m])
  BY <1>4 DEF GrownSince
<1>6. \A m \in n .. L : CaseAt(m).state = Replays(rows)[m].state
  <2>. SUFFICES ASSUME NEW m \in n .. L
                PROVE  CaseAt(m).state = Replays(rows)[m].state
    OBVIOUS
  <2>1. CaseAt(m) = Counted(Replays(rows)[m], m, rows[m].seq)
    BY <1>1, <1>5, CaseAtIs
  <2>2. Replays(rows)[m] \in Cases
    BY <1>5 DEF Good
  <2>. QED
    BY <2>1, <2>2 DEF Counted, Cases
<1>7. case = CaseAt(L) /\ case = Counted(now, L, rows[L].seq)
  <2>1. SubSeq(rows, 1, L) = rows
    BY <1>1
  <2>2. case = CaseAt(L)
    BY <2>1 DEF FoldInv, CaseAt
  <2>. QED
    BY <1>1, <1>5, <2>2, CaseAtIs
<1>8. /\ then \in Cases /\ now \in Cases /\ then.events \in Seq(Events) /\ now.events \in Seq(Events)
      /\ old \in Nat /\ Len(now.events) \in Nat
  <2>1. then \in Cases /\ now \in Cases
    BY <1>1, <1>5 DEF Good
  <2>. HIDE DEF then, now
  <2>. QED
    BY <2>1 DEF Cases
<1>. HIDE DEF then, now, was, old
<1>9. /\ was.revision = n /\ was.lastSeq = seq /\ was.events = then.events
      /\ Question(was) = Question(then)
  BY <1>3, <1>8 DEF Counted, Cases, Question
<1>10. /\ case.revision = L /\ case.state = now.state /\ case.events = now.events
       /\ case.amendSeq = now.amendSeq /\ case.kind = now.kind /\ Question(case) = Question(now)
       /\ case.amendSeq \in Nat /\ case.kind \in Kinds
  BY <1>7, <1>8 DEF Counted, Cases, Question
<1>11. /\ Len(now.events) \in old .. old + (L - n)
       /\ \A i \in 1 .. old : now.events[i] = then.events[i]
       /\ \A i \in old + 1 .. Len(now.events) : now.events[i].seq > seq
       /\ now.amendSeq <= seq => Question(now) = Question(then)
       /\ Len(now.events) = old + (L - n) =>
            \A p \in n .. L - 1 : now.events[old + 1 + (p - n)].from = Replays(rows)[p].state
  BY <1>1, <1>4 DEF GrownSince, then, now, old
<1>12. \A i \in 1 .. old : then.events[i].seq <= seq
  BY <1>1, <1>3, <1>8, NothingLater DEF then, old
<1>13. PartitionPoint(now.events, seq) = old
  <2>1. \A i \in DOMAIN now.events : now.events[i].seq <= seq <=> i <= old
    <3>. SUFFICES ASSUME NEW i \in 1 .. Len(now.events)
                  PROVE  now.events[i].seq <= seq <=> i <= old
      BY <1>8
    <3>1. CASE i <= old
      <4>1. i \in 1 .. old
        BY <1>8, <3>1
      <4>. QED
        BY <1>11, <1>12, <3>1, <4>1
    <3>2. CASE ~(i <= old)
      <4>1. i \in old + 1 .. Len(now.events)
        BY <1>8, <3>2
      <4>2. now.events[i] \in Events
        BY <1>8
      <4>3. now.events[i].seq > seq /\ now.events[i].seq \in Nat
        BY <1>11, <4>1, <4>2 DEF Events
      <4>. QED
        BY <1>2, <3>2, <4>3
    <3>. QED
      BY <3>1, <3>2
  <2>2. old \in 0 .. Len(now.events)
    BY <1>8, <1>11
  <2>. HIDE DEF seq
  <2>. QED
    BY <1>2, <1>8, <2>1, <2>2, PartitionIs
<1>14. after = SubSeq(now.events, old + 1, Len(now.events))
  BY <1>9, <1>10, <1>13 DEF EventsAfter
<1>15. /\ after \in Seq(Events) /\ Len(after) = Len(now.events) - old
       /\ \A i \in 1 .. Len(now.events) - old : after[i] = now.events[old + i]
  <2>. HIDE DEF after
  <2>1. Len(now.events) >= old
    BY <1>8, <1>11
  <2>. QED
    BY <1>8, <1>14, <2>1
<1>. HIDE DEF after
<1>16. since # "changed" => /\ Len(after) = L - n
                            /\ case.amendSeq > seq => Opener(case.kind) = "human"
  BY <1>1, <1>9, <1>10 DEF Since, after
<1>17. since = "unchanged" => \A i \in DOMAIN after : KeptState(case, after[i])
  BY <1>1, <1>9, <1>10 DEF Since, after
<1>. HIDE DEF since, seq
<1>18. ASSUME since # "changed", case.kind # "message"
       PROVE  Question(was) = Question(case)
  <2>1. case.amendSeq <= seq
    BY <1>2, <1>10, <1>16, <1>18 DEF Opener
  <2>. QED
    BY <1>9, <1>10, <1>11, <2>1
<1>19. ASSUME since = "unchanged"
       PROVE  /\ \A m \in n .. L : CaseAt(m).state = case.state
              /\ LastAnswer(was) = LastAnswer(case)
  <2>1. Len(after) = L - n /\ \A i \in 1 .. Len(after) : KeptState(case, after[i])
    BY <1>15, <1>16, <1>17, <1>19
  <2>2. Len(now.events) = old + (L - n)
    BY <1>1, <1>8, <1>15, <2>1
  <2>3. \A m \in n .. L : CaseAt(m).state = case.state
    <3>. SUFFICES ASSUME NEW m \in n .. L, m # L
                  PROVE  CaseAt(m).state = case.state
      BY <1>7
    <3>1. m \in n .. L - 1 /\ m - n + 1 \in 1 .. L - n /\ old + (m - n + 1) = old + 1 + (m - n)
      BY <1>1, <1>8
    <3>2. after[m - n + 1].from = case.state
      BY <2>1, <3>1 DEF KeptState
    <3>3. after[m - n + 1] = now.events[old + 1 + (m - n)]
      BY <1>15, <2>1, <3>1
    <3>4. now.events[old + 1 + (m - n)].from = Replays(rows)[m].state
      BY <1>11, <2>2, <3>1
    <3>. QED
      BY <1>6, <3>2, <3>3, <3>4
  <2>4. {e \in {was.events[i] : i \in DOMAIN was.events} : e.event = "answer"}
          = {e \in {case.events[i] : i \in DOMAIN case.events} : e.event = "answer"}
    <3>1. DOMAIN then.events = 1 .. old /\ DOMAIN now.events = 1 .. Len(now.events)
      BY <1>8 DEF old
    <3>2. \A i \in 1 .. old : i \in 1 .. Len(now.events) /\ now.events[i] = then.events[i]
      BY <1>8, <1>11
    <3>3. ASSUME NEW i \in 1 .. Len(now.events), now.events[i].event = "answer"
          PROVE  i \in 1 .. old
      <4>. SUFFICES ASSUME ~(i <= old) PROVE FALSE
        BY <1>8
      <4>1. i - old \in 1 .. Len(now.events) - old /\ old + (i - old) = i
        BY <1>8
      <4>2. after[i - old] = now.events[i] /\ i - old \in 1 .. Len(after)
        BY <1>15, <4>1
      <4>. QED
        BY <2>1, <3>3, <4>2 DEF KeptState
    <3>. QED
      BY <1>9, <1>10, <3>1, <3>2, <3>3, SMTT(20)
  <2>5. LastAnswer(was) = LastAnswer(case)
    <3>. DEFINE Given(c) == {e \in {c.events[i] : i \in DOMAIN c.events} : e.event = "answer"}
                Latest(answers) == IF answers = {} THEN 0
                                   ELSE CHOOSE s \in {e.seq : e \in answers} :
                                          \A e \in answers : e.seq <= s
    <3>1. LastAnswer(was) = Latest(Given(was)) /\ LastAnswer(case) = Latest(Given(case))
      BY DEF LastAnswer
    <3>2. Given(was) = Given(case)
      BY <2>4
    <3>. HIDE DEF Given, Latest
    <3>. QED
      BY <3>1, <3>2
  <2>. QED
    BY <2>3, <2>5
<1>20. ASSUME since # "changed"
       PROVE  /\ Len(after) > 0 /\ after[1].from = was.state
              /\ Len(was.events) = old /\ Len(case.events) = old + Len(after)
              /\ \A i \in 1 .. Len(after) : /\ after[i] = case.events[old + i]
                                            /\ after[i].seq > was.lastSeq
              /\ \A i \in 1 .. old : /\ case.events[i] = was.events[i]
                                     /\ was.events[i].seq <= was.lastSeq
  <2>1. Len(after) = L - n /\ Len(now.events) = old + Len(after)
    BY <1>1, <1>8, <1>15, <1>16, <1>20
  <2>2. n \in n .. L - 1 /\ 1 \in 1 .. L - n /\ old + 1 + (n - n) = old + 1
    BY <1>1, <1>8
  <2>3. now.events[old + 1].from = Replays(rows)[n].state
    BY <1>1, <1>11, <2>1, <2>2
  <2>4. after[1] = now.events[old + 1]
    BY <1>15, <2>1, <2>2
  <2>5. was.state = Replays(rows)[n].state
    BY <1>3, <1>8 DEF Counted, Cases, then
  <2>6. \A i \in 1 .. Len(after) : /\ after[i] = case.events[old + i]
                                   /\ after[i].seq > was.lastSeq
    <3>1. \A i \in 1 .. Len(after) : old + i \in old + 1 .. Len(now.events)
      BY <1>1, <1>8, <2>1
    <3>. QED
      BY <1>1, <1>9, <1>10, <1>11, <1>15, <2>1, <3>1
  <2>9. \A i \in 1 .. old : /\ case.events[i] = was.events[i]
                            /\ was.events[i].seq <= was.lastSeq
    BY <1>9, <1>10, <1>11, <1>12
  <2>7. Len(after) > 0 /\ after[1].from = was.state
    BY <1>1, <2>1, <2>3, <2>4, <2>5
  <2>8. Len(case.events) = old + Len(after)
    BY <1>10, <2>1
  <2>. QED
    BY <1>9, <2>6, <2>7, <2>8, <2>9 DEF old
<1>21. case.kind = was.kind
  <2>1. now.kind = then.kind
    BY <1>1, <1>4 DEF GrownSince, then, now
  <2>. QED
    BY <1>3, <1>8, <1>10, <2>1 DEF Counted, Cases
<1>. QED
  BY <1>8, <1>15, <1>18, <1>19, <1>20, <1>21 DEF since, was, after

(***************************************************************************)
(* What the freshness rule says of a form drawn at any earlier revision of *)
(* the case is what has become of the case: unchanged is the state and the *)
(* answer of then, all along, and unless changed the question is as it was.*)
(***************************************************************************)
THEOREM FreshnessMeansIt == CaseSpec => []SinceMeansIt
<1>1. IInv /\ FoldInv => SinceMeansIt
  <2>. SUFFICES ASSUME IInv, FoldInv, case # None,
                       NEW n \in 1 .. Len(rows), CaseAt(n) # None
                PROVE  LET was   == CaseAt(n)
                           since == Since(case, was.revision, was.lastSeq) IN
                       /\ since = "unchanged" =>
                            /\ \A m \in n .. Len(rows) : CaseAt(m).state = case.state
                            /\ LastAnswer(was) = LastAnswer(case)
                       /\ since # "changed" /\ case.kind # "message" =>
                            Question(was) = Question(case)
    BY DEF SinceMeansIt
  <2>1. CASE n # Len(rows)
    BY <2>1, SinceIsSo
  <2>2. CASE n = Len(rows)
    <3>1. rows \in Seq(RowType) /\ Len(rows) \in Nat
      BY DEF IInv, CaseTypeOK
    <3>2. SubSeq(rows, 1, n) = rows
      BY <2>2, <3>1
    <3>3. CaseAt(n) = case
      BY <3>2 DEF CaseAt, FoldInv
    <3>4. \A m \in n .. Len(rows) : m = n
      BY <2>2, <3>1
    <3>. QED
      BY <3>3, <3>4
  <2>. QED
    BY <2>1, <2>2
<1>. QED
  BY <1>1, CaseFolds, PTL

=============================================================================
