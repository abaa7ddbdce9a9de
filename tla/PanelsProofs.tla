----------------------------- MODULE PanelsProofs -----------------------------
(***************************************************************************)
(* What the terminal inbox says is so, and what is typed in it is kept,    *)
(* for any cases, texts and writes of others (Panels).                     *)
(***************************************************************************)
EXTENDS Panels, SequenceTheorems, TLAPS

-----------------------------------------------------------------------------
(* The invariant *)

PanelsType ==
  /\ store \in Stores /\ view \in Stores
  /\ recorded \subseteq Nat /\ typed \in Nat
  /\ form \in Forms \cup {Nothing}
  /\ drafts \in [AllCases -> Forms \cup {Nothing}]
  /\ compose \in Composes \cup {Nothing}
  /\ sending \in Writes \cup {Nothing}
  /\ thread \in [asked : {<<>>, <<"read">>, <<"write">>, <<"read", "write">>},
                 wrote : BOOLEAN, read : Stores \cup {Nothing, Unreadable},
                 after : BOOLEAN]
  /\ quitting \in {"no", "asking", "landing", "over", "interrupted"}

(* A draft is an answer to its case, of which there is no other. *)
DraftsAreSo ==
  /\ \A k \in AllCases :
       drafts[k] # Nothing => drafts[k].key = k /\ drafts[k].act = "answer"
  /\ form # Nothing /\ form.act = "answer" => drafts[form.key] = Nothing

(* The thread is asked for a write once, and how it went is told after it. *)
ThreadIsSo ==
  /\ sending = Nothing =>
       thread.asked \in {<<>>, <<"read">>} /\ ~thread.wrote /\ ~thread.after
  /\ sending # Nothing /\ sending.result = "out" =>
       /\ thread.asked \in {<<"write">>, <<"read", "write">>}
       /\ ~thread.wrote /\ ~thread.after
  /\ sending # Nothing /\ sending.result # "out" =>
       /\ thread.asked = <<>>
       /\ thread.wrote = ~thread.after
       /\ thread.after => thread.read # Nothing
  /\ sending # Nothing => (sending.key = New) = (sending.what = "open")

(* Where a text may be. *)
Places == {form, compose, sending} \cup {drafts[k] : k \in AllCases}

(* Texts are numbered as they are typed, each for one case or message. *)
TextsAreApart ==
  /\ \A f \in Places : f # Nothing => f.text <= typed
  /\ \A t \in recorded : 0 < t /\ t <= typed
  /\ \A f, g \in Places :
       f # Nothing /\ g # Nothing /\ f.text = g.text /\ f.text # 0 => f.key = g.key

(* What is recorded and still there is in the write being sent, on its     *)
(* case.                                                                   *)
RecordedIsSent ==
  /\ \A f \in Places :
       f # Nothing /\ f.text \in recorded =>
         sending # Nothing /\ sending.result = "taken" /\ sending.key = f.key
  /\ sending # Nothing /\ sending.result = "taken" => sending.text \in recorded \cup {0}

(* The case is past the revision a write was taken at. *)
Past(c, w) == c.state = "gone" \/ c.rev > w.rev

TakenIsPast ==
  sending # Nothing /\ sending.result = "taken" /\ sending.key # New =>
    /\ Past(store[sending.key], sending)
    /\ thread.after /\ thread.read # Unreadable => Past(thread.read[sending.key], sending)

PanelsInv ==
  /\ PanelsType /\ DraftsAreSo /\ ThreadIsSo /\ TextsAreApart /\ RecordedIsSent
  /\ TakenIsPast /\ NotSentIsSo

-----------------------------------------------------------------------------
(* What a read leaves of the screen *)

AForm == Forms \cup {Nothing}

ALine == [what : {"recorded", "not sent", "edit not sent"},
          key : AllCases \cup {New}, text : Nat]

Screens == [form : AForm, drafts : [AllCases -> AForm],
            compose : Composes \cup {Nothing},
            lines : SUBSET ALine]

(* What is there of a form is what was typed in it, on its case. *)
Kept(f, g) ==
  g # Nothing => f # Nothing /\ g.key = f.key /\ g.act = f.act /\ g.text = f.text

(* So it is of a message, which an edit begun again has nothing of. *)
KeptMessage(c, d) ==
  d # Nothing /\ d.text # 0 => c # Nothing /\ d.key = c.key /\ d.text = c.text

Says(lines, k) == \E l \in lines : l.what # "wait" /\ l.key = k

(* What is not there any more of the screen s in t is told of. *)
LossesTold(s, t) ==
  /\ s.form # Nothing /\ t.form = Nothing => Says(t.lines, s.form.key)
  /\ \A k \in AllCases :
       s.drafts[k] # Nothing /\ t.drafts[k] = Nothing => Says(t.lines, s.drafts[k].key)
  /\ s.compose # Nothing =>
       \/ /\ t.compose # Nothing
          /\ t.compose.key = s.compose.key /\ t.compose.text = s.compose.text
       \/ Says(t.lines, s.compose.key) \/ Says(t.lines, New)

(* The screen t is what is left of s. *)
LeftOf(s, t) ==
  /\ t \in Screens /\ s.lines \subseteq t.lines
  /\ Kept(s.form, t.form) /\ \A k \in AllCases : Kept(s.drafts[k], t.drafts[k])
  /\ KeptMessage(s.compose, t.compose)
  /\ LossesTold(s, t)

(* The forms of a screen, the drafts with them. *)
FormsOf(s) == {s.form} \cup {s.drafts[k] : k \in AllCases}

LEMMA LeftOfLeft ==
  ASSUME NEW s, NEW t, NEW u, LeftOf(s, t), LeftOf(t, u)
  PROVE  LeftOf(s, u)
<1>1. Kept(s.form, u.form) /\ \A k \in AllCases : Kept(s.drafts[k], u.drafts[k])
  BY DEF LeftOf, Kept
<1>2. KeptMessage(s.compose, u.compose)
  BY DEF LeftOf, KeptMessage
<1>3. \A k : Says(t.lines, k) => Says(u.lines, k)
  BY DEF LeftOf, Says
<1>4. s.form # Nothing /\ u.form = Nothing => Says(u.lines, s.form.key)
  BY <1>3 DEF LeftOf, Kept, LossesTold
<1>5. ASSUME NEW k \in AllCases, s.drafts[k] # Nothing, u.drafts[k] = Nothing
      PROVE  Says(u.lines, s.drafts[k].key)
  BY <1>3, <1>5 DEF LeftOf, Kept, LossesTold
<1>6. s.compose # Nothing =>
        \/ /\ u.compose # Nothing
           /\ u.compose.key = s.compose.key /\ u.compose.text = s.compose.text
        \/ Says(u.lines, s.compose.key) \/ Says(u.lines, New)
  BY <1>3 DEF LeftOf, LossesTold
<1> QED
  BY <1>1, <1>2, <1>4, <1>5, <1>6 DEF LeftOf, LossesTold

LEMMA ReadLeaves ==
  ASSUME NEW f \in AForm, NEW v \in Stores, NEW w
  PROVE  /\ AfterRead(f, v, w) \in AForm /\ Kept(f, AfterRead(f, v, w))
         /\ f # Nothing /\ AfterRead(f, v, w) = Nothing => GoesAway(f, v, w)
<1>1. CASE f = Nothing
  BY <1>1 DEF AfterRead, Kept, AForm
<1>2. CASE f # Nothing
  <2>1. f \in Forms
    BY <1>2 DEF AForm
  <2>2. /\ Followed(f, v[f.key]) \in Forms
        /\ Followed(f, v[f.key]).key = f.key /\ Followed(f, v[f.key]).act = f.act
        /\ Followed(f, v[f.key]).text = f.text
    BY <2>1 DEF Followed, Forms, Stores
  <2>3. \A g \in Forms : g # Nothing
    BY ApartAssumption
  <2> QED
    BY <1>2, <2>1, <2>2, <2>3 DEF AfterRead, Kept, AForm
<1> QED
  BY <1>1, <1>2

LEMMA ClosedIs ==
  ASSUME NEW f \in AForm, NEW w
  PROVE  /\ Closed(f, w) \in AForm /\ Kept(f, Closed(f, w))
         /\ Closed(f, w) # Nothing => f.key # w.key
         /\ f # Nothing /\ Closed(f, w) = Nothing => f.key = w.key
  BY DEF Closed, Kept, AForm

LEMMA AmendedIs ==
  ASSUME NEW f \in AForm, NEW v \in Stores, NEW w
  PROVE  /\ Amended(f, v, w) \in AForm /\ Kept(f, Amended(f, v, w))
         /\ f # Nothing => Amended(f, v, w) # Nothing
<1>1. CASE f # Nothing /\ f.key = w.key /\ w.what # "edit"
  <2>1. f \in Forms /\ \A g \in Forms : g # Nothing
    BY <1>1, ApartAssumption DEF AForm
  <2>2. Amended(f, v, w) = [f EXCEPT !.rev = v[f.key].rev]
    BY <1>1 DEF Amended
  <2> QED
    BY <1>1, <2>1, <2>2 DEF Kept, AForm, Forms, Stores
<1>2. CASE ~(f # Nothing /\ f.key = w.key /\ w.what # "edit")
  BY <1>2 DEF Amended, Kept, AForm
<1> QED
  BY <1>1, <1>2

LEMMA FormLinesAre ==
  ASSUME NEW s \in Screens, NEW v \in Stores, NEW w
  PROVE  LET lines == FormLines(s.form, s.drafts, v, w)
         IN /\ lines \subseteq ALine
            /\ \A f \in FormsOf(s) :
                 f # Nothing /\ GoesAway(f, v, w) => Says(lines, f.key)
            /\ \A l \in lines :
                 \E f \in FormsOf(s) :
                   f # Nothing /\ f.text = l.text /\ f.key \notin BeingSent(w)
<1> DEFINE lines == FormLines(s.form, s.drafts, v, w)
<1>1. FormsOf(s) \subseteq AForm
  BY DEF FormsOf, Screens
<1>2. lines = {Line("not sent", g.key, g.text) :
                 g \in {h \in FormsOf(s) : GoesAway(h, v, w)}}
  BY DEF FormLines, FormsOf
<1>3. ASSUME NEW l \in lines
      PROVE  /\ l \in ALine
             /\ \E f \in FormsOf(s) :
                  f # Nothing /\ f.text = l.text /\ f.key \notin BeingSent(w)
  <2>1. PICK g \in {h \in FormsOf(s) : GoesAway(h, v, w)} :
          l = Line("not sent", g.key, g.text)
    BY <1>2
  <2>2. g \in FormsOf(s) /\ g # Nothing /\ g.key \notin BeingSent(w)
    BY <2>1 DEF GoesAway
  <2>3. g \in Forms
    BY <1>1, <2>2 DEF AForm
  <2>4. g.key \in AllCases /\ g.text \in Nat
    BY <2>3 DEF Forms
  <2>5. l.text = g.text
    BY <2>1 DEF Line
  <2>6. l \in ALine
    BY <2>1, <2>4 DEF Line, ALine
  <2> QED
    BY <2>2, <2>5, <2>6
<1>4. ASSUME NEW f \in FormsOf(s), f # Nothing, GoesAway(f, v, w)
      PROVE  Says(lines, f.key)
  <2>1. Line("not sent", f.key, f.text) \in lines
    BY <1>2, <1>4
  <2> QED
    BY <2>1 DEF Says, Line
<1> QED
  BY <1>3, <1>4

(* What a line of the screen t says is not sent, a form of s says, or a    *)
(* line of s.                                                              *)
NotSentOf(s, t, w) ==
  \A l \in t.lines :
    l.what = "not sent" =>
      \/ l \in s.lines
      \/ \E f \in FormsOf(s) :
           f # Nothing /\ f.text = l.text /\ f.key \notin BeingSent(w)

LEMMA UpdatedIs ==
  ASSUME NEW s \in Screens, NEW v \in Stores, NEW w
  PROVE  LeftOf(s, Updated(s, v, w)) /\ NotSentOf(s, Updated(s, v, w), w)
<1> DEFINE t == Updated(s, v, w)
           fl == FormLines(s.form, s.drafts, v, w)
           el == EditLines(s.compose, v)
<1>1. /\ t.form = AfterRead(s.form, v, w)
      /\ t.drafts = [k \in AllCases |-> AfterRead(s.drafts[k], v, w)]
      /\ t.compose = EditAfterRead(s.compose, v)
      /\ t.lines = s.lines \cup fl \cup el
  BY DEF Updated
<1>2. s.form \in AForm /\ s.form \in FormsOf(s)
  BY DEF Screens, FormsOf
<1>3. \A k \in AllCases : s.drafts[k] \in AForm /\ s.drafts[k] \in FormsOf(s)
  BY DEF Screens, FormsOf
<1>20. \A f \in FormsOf(s) : f # Nothing /\ GoesAway(f, v, w) => Says(fl, f.key)
  BY FormLinesAre
<1>4. /\ t.form \in AForm /\ Kept(s.form, t.form)
      /\ s.form # Nothing /\ t.form = Nothing => Says(fl, s.form.key)
  <2> HIDE DEF fl
  <2> QED
    BY <1>1, <1>2, <1>20, ReadLeaves
<1>5. ASSUME NEW k \in AllCases
      PROVE  /\ t.drafts[k] \in AForm /\ Kept(s.drafts[k], t.drafts[k])
             /\ s.drafts[k] # Nothing /\ t.drafts[k] = Nothing => Says(fl, s.drafts[k].key)
  <2>1. t.drafts[k] = AfterRead(s.drafts[k], v, w)
    BY <1>1
  <2> QED
    BY <1>3, <1>20, <2>1, ReadLeaves
<1>6. t.drafts \in [AllCases -> AForm]
  BY <1>1, <1>5
<1>7. /\ t.compose \in Composes \cup {Nothing}
      /\ t.compose # Nothing =>
           /\ s.compose # Nothing /\ t.compose.key = s.compose.key
           /\ t.compose.text = s.compose.text
      /\ el \subseteq ALine
      /\ \A l \in el : l.what # "not sent"
      /\ s.compose # Nothing /\ t.compose = Nothing => Says(el, s.compose.key)
  <2>1. CASE s.compose = Nothing
    BY <1>1, <2>1 DEF EditAfterRead, EditGoes, EditLines
  <2>2. CASE s.compose # Nothing
    <3>1. s.compose \in Composes /\ \A c \in Composes : c # Nothing
      BY <2>2, ApartAssumption DEF Screens
    <3>2. CASE EditGoes(s.compose, v)
      <4>1. el = {Line("edit not sent", s.compose.key, s.compose.text)}
        BY <3>2 DEF EditLines
      <4>2. t.compose = Nothing
        BY <1>1, <3>2 DEF EditAfterRead
      <4>3. s.compose.key \in AllCases \cup {New} /\ s.compose.text \in Nat
        BY <3>1 DEF Composes
      <4> DEFINE l == Line("edit not sent", s.compose.key, s.compose.text)
      <4>4. l \in ALine /\ l.what = "edit not sent" /\ l.key = s.compose.key
        BY <4>3 DEF Line, ALine
      <4> HIDE DEF l
      <4>5. el = {l}
        BY <4>1 DEF l
      <4> HIDE DEF el, t
      <4>6. Says(el, s.compose.key)
        BY <4>4, <4>5 DEF Says
      <4> QED
        BY <4>2, <4>4, <4>5, <4>6
    <3>3. CASE ~EditGoes(s.compose, v)
      <4>1. el = {}
        BY <3>3 DEF EditLines
      <4>2. s.compose.key # New => v[s.compose.key].rev \in Nat
        BY <3>1 DEF Composes, Stores
      <4>3. /\ t.compose \in Composes /\ t.compose.key = s.compose.key
            /\ t.compose.text = s.compose.text
        BY <1>1, <2>2, <3>1, <3>3, <4>2 DEF EditAfterRead, Composes
      <4> QED
        BY <2>2, <3>1, <4>1, <4>3
    <3> QED
      BY <3>2, <3>3
  <2> QED
    BY <2>1, <2>2
<1>8. s.lines \subseteq t.lines /\ fl \subseteq t.lines /\ el \subseteq t.lines
  BY <1>1
<1>9. t \in Screens
  <2>1. /\ s.lines \subseteq ALine
        /\ fl \subseteq ALine
    BY FormLinesAre DEF Screens
  <2>2. t.lines \subseteq ALine
    BY <1>1, <1>7, <2>1
  <2>3. t = [form |-> t.form, drafts |-> t.drafts, compose |-> t.compose, lines |-> t.lines]
    BY DEF Updated
  <2> HIDE DEF t, fl, el
  <2> QED
    BY <1>4, <1>6, <1>7, <2>2, <2>3 DEF Screens
<1>10. \A k : Says(fl, k) \/ Says(el, k) => Says(t.lines, k)
  BY <1>8 DEF Says
<1>11. KeptMessage(s.compose, t.compose)
  BY <1>7 DEF KeptMessage
<1>12. NotSentOf(s, t, w)
  <2>1. \A l \in t.lines : l \in s.lines \/ l \in fl \/ l \in el
    BY <1>1
  <2>2. \A l \in fl :
          \E f \in FormsOf(s) :
            f # Nothing /\ f.text = l.text /\ f.key \notin BeingSent(w)
    BY FormLinesAre
  <2> HIDE DEF t, fl, el
  <2> QED
    BY <1>7, <2>1, <2>2 DEF NotSentOf
<1> HIDE DEF t, fl, el
<1>13. LossesTold(s, t)
  BY <1>4, <1>5, <1>7, <1>10 DEF LossesTold
<1>14. LeftOf(s, t)
  BY <1>4, <1>5, <1>8, <1>9, <1>11, <1>13 DEF LeftOf
<1> QED
  BY <1>12, <1>14 DEF t

(* A write that was taken leaves nothing on its case, or a new message no  *)
(* message.                                                                *)
Cleared(t, w) ==
  /\ \A f \in FormsOf(t) : f # Nothing => f.key # w.key
  /\ t.compose # Nothing => t.compose.key # w.key

LEMMA ToldIs ==
  ASSUME NEW s \in Screens, NEW v \in Stores, NEW w \in Writes,
         (w.key = New) = (w.what = "open")
  PROVE  /\ LeftOf(s, Told(s, v, w))
         /\ w.result = "taken" => Cleared(Told(s, v, w), w)
         /\ \A l \in Told(s, v, w).lines :
              l.what = "not sent" =>
                l \in s.lines \/ (w.result # "taken" /\ l.text = w.text)
<1> DEFINE t == Told(s, v, w)
<1>1. /\ s.form \in AForm /\ \A k \in AllCases : s.drafts[k] \in AForm
      /\ s.compose \in Composes \cup {Nothing} /\ s.lines \subseteq ALine
  BY DEF Screens
<1>2. w.key \in AllCases \cup {New} /\ w.text \in Nat
  BY DEF Writes
<1>3. CASE w.result = "taken"
  <2> DEFINE l == Line("recorded", w.key, w.text)
  <2>1. t = [form |-> Closed(s.form, w),
             drafts |-> [k \in AllCases |-> Closed(s.drafts[k], w)],
             compose |-> ClosedMessage(s.compose, w), lines |-> s.lines \cup {l}]
    BY <1>3 DEF Told
  <2>2. l \in ALine /\ l.what = "recorded" /\ l.key = w.key
    BY <1>2 DEF Line, ALine
  <2> HIDE DEF t, l
  <2>3. /\ t.form = Closed(s.form, w) /\ t.compose = ClosedMessage(s.compose, w)
        /\ t.lines = s.lines \cup {l}
        /\ t.drafts = [k \in AllCases |-> Closed(s.drafts[k], w)]
    BY <2>1
  <2>4. \A k \in AllCases : t.drafts[k] = Closed(s.drafts[k], w)
    BY <2>3
  <2>5. /\ t.form \in AForm /\ Kept(s.form, t.form) /\ (t.form # Nothing => t.form.key # w.key)
        /\ s.form # Nothing /\ t.form = Nothing => s.form.key = w.key
    BY <1>1, <2>3, ClosedIs DEF Kept
  <2>6. \A k \in AllCases :
          /\ t.drafts[k] \in AForm /\ Kept(s.drafts[k], t.drafts[k])
          /\ t.drafts[k] # Nothing => t.drafts[k].key # w.key
          /\ s.drafts[k] # Nothing /\ t.drafts[k] = Nothing => s.drafts[k].key = w.key
    BY <1>1, <2>4, ClosedIs DEF Kept
  <2>7. Says(t.lines, w.key)
    BY <2>2, <2>3 DEF Says
  <2>8. /\ t.compose \in Composes \cup {Nothing}
        /\ t.compose # Nothing => t.compose = s.compose /\ t.compose.key # w.key
        /\ s.compose # Nothing /\ t.compose = Nothing => w.key \in {New, s.compose.key}
    BY <1>1, <2>3 DEF ClosedMessage, Closed
  <2>9. t \in Screens
    <3>1. t.drafts \in [AllCases -> AForm]
      BY <2>3, <2>6
    <3>2. t.lines \subseteq ALine
      BY <1>1, <2>2, <2>3
    <3>3. t = [form |-> t.form, drafts |-> t.drafts, compose |-> t.compose, lines |-> t.lines]
      BY <2>1
    <3> QED
      BY <2>5, <2>8, <3>1, <3>2, <3>3 DEF Screens
  <2>10. KeptMessage(s.compose, t.compose)
    BY <2>8 DEF KeptMessage
  <2>11. LossesTold(s, t)
    BY <2>5, <2>6, <2>7, <2>8 DEF LossesTold
  <2>12. LeftOf(s, t)
    BY <2>3, <2>5, <2>6, <2>9, <2>10, <2>11 DEF LeftOf
  <2>13. Cleared(t, w)
    BY <2>5, <2>6, <2>8 DEF Cleared, FormsOf
  <2>14. \A m \in t.lines : m.what = "not sent" => m \in s.lines
    BY <2>2, <2>3
  <2> QED
    BY <1>3, <2>12, <2>13, <2>14 DEF t
<1>4. CASE w.result # "taken"
  <2> DEFINE l == Line("not sent", w.key, w.text)
             stale == w.result = "stale" /\ v[w.key].state # "gone"
             restart == w.what = "edit" /\ s.compose # Nothing /\ s.compose.key = w.key
  <2>1. l \in ALine /\ l.what = "not sent" /\ l.key = w.key /\ l.text = w.text
    BY <1>2 DEF Line, ALine
  <2>2. CASE stale
    <3>1. t = [form |-> Amended(s.form, v, w),
               drafts |-> [k \in AllCases |-> Amended(s.drafts[k], v, w)],
               compose |-> IF restart THEN Edit(w.key, v[w.key]) ELSE s.compose,
               lines |-> s.lines \cup {l}]
      BY <1>4, <2>2 DEF Told
    <3> HIDE DEF t, l
    <3>2. /\ t.form = Amended(s.form, v, w) /\ t.lines = s.lines \cup {l}
          /\ t.drafts = [k \in AllCases |-> Amended(s.drafts[k], v, w)]
          /\ t.compose = IF restart THEN Edit(w.key, v[w.key]) ELSE s.compose
      BY <3>1
    <3>3. \A k \in AllCases : t.drafts[k] = Amended(s.drafts[k], v, w)
      BY <3>2
    <3>4. /\ t.form \in AForm /\ Kept(s.form, t.form)
          /\ s.form # Nothing => t.form # Nothing
      BY <1>1, <3>2, AmendedIs
    <3>5. \A k \in AllCases :
            /\ t.drafts[k] \in AForm /\ Kept(s.drafts[k], t.drafts[k])
            /\ s.drafts[k] # Nothing => t.drafts[k] # Nothing
      BY <1>1, <3>3, AmendedIs
    <3>6. Says(t.lines, w.key)
      BY <2>1, <3>2 DEF Says
    <3>7. /\ t.compose \in Composes \cup {Nothing}
          /\ KeptMessage(s.compose, t.compose)
          /\ s.compose # Nothing => t.compose = s.compose \/ s.compose.key = w.key
      <4>1. CASE restart
        <5>1. w.key \in AllCases
          BY <1>2, <4>1
        <5>2. v[w.key].rev \in Nat
          BY <5>1 DEF Stores
        <5>3. t.compose = [key |-> w.key, rev |-> v[w.key].rev, text |-> 0, asks |-> FALSE]
          BY <3>2, <4>1 DEF Edit
        <5> QED
          BY <4>1, <5>1, <5>2, <5>3 DEF Composes, KeptMessage
      <4>2. CASE ~restart
        BY <1>1, <3>2, <4>2 DEF KeptMessage
      <4> QED
        BY <4>1, <4>2
    <3>8. t \in Screens
      <4>1. t.drafts \in [AllCases -> AForm]
        BY <3>2, <3>5
      <4>2. t.lines \subseteq ALine
        BY <1>1, <2>1, <3>2
      <4>3. t = [form |-> t.form, drafts |-> t.drafts, compose |-> t.compose, lines |-> t.lines]
        BY <3>1
      <4> QED
        BY <3>4, <3>7, <4>1, <4>2, <4>3 DEF Screens
    <3>9. LossesTold(s, t)
      BY <3>4, <3>5, <3>6, <3>7 DEF LossesTold
    <3>10. LeftOf(s, t)
      BY <3>2, <3>4, <3>5, <3>7, <3>8, <3>9 DEF LeftOf
    <3>11. \A m \in t.lines : m \in s.lines \/ m.text = w.text
      BY <2>1, <3>2
    <3> QED
      BY <1>4, <3>10, <3>11 DEF t
  <2>3. CASE ~stale
    <3>1. t = [s EXCEPT !.lines = @ \cup {l}]
      BY <1>4, <2>3 DEF Told
    <3> HIDE DEF t, l
    <3>2. /\ t.form = s.form /\ t.drafts = s.drafts /\ t.compose = s.compose
          /\ t.lines = s.lines \cup {l}
      BY <3>1 DEF Screens
    <3>3. t \in Screens
      BY <1>1, <2>1, <3>1 DEF Screens
    <3>4. LeftOf(s, t)
      BY <3>2, <3>3 DEF LeftOf, Kept, KeptMessage, LossesTold
    <3>5. \A m \in t.lines : m \in s.lines \/ m.text = w.text
      BY <2>1, <3>2
    <3> QED
      BY <1>4, <3>4, <3>5 DEF t
  <2> QED
    BY <2>2, <2>3
<1> QED
  BY <1>3, <1>4

LEMMA WroteIs ==
  ASSUME NEW s \in Screens, NEW v \in Stores, NEW w \in Writes,
         (w.key = New) = (w.what = "open")
  PROVE  /\ LeftOf(s, Wrote(s, v, w))
         /\ w.result = "taken" => Cleared(Wrote(s, v, w), w)
         /\ \A l \in Wrote(s, v, w).lines :
              l.what = "not sent" =>
                \/ l \in s.lines
                \/ w.result # "taken" /\ l.text = w.text
                \/ \E f \in FormsOf(s) :
                     /\ f # Nothing /\ f.text = l.text
                     /\ w.result = "taken" => f.key # w.key
<1> DEFINE u == Told(s, v, w)
           t == Wrote(s, v, w)
           fl == FormLines(u.form, u.drafts, v, Nothing)
<1>1. /\ LeftOf(s, u)
      /\ w.result = "taken" => Cleared(u, w)
      /\ \A l \in u.lines :
           l.what = "not sent" => l \in s.lines \/ (w.result # "taken" /\ l.text = w.text)
  BY ToldIs
<1>2. u \in Screens
  BY <1>1 DEF LeftOf
<1>3. t = [form |-> AfterRead(u.form, v, Nothing),
           drafts |-> [k \in AllCases |-> AfterRead(u.drafts[k], v, Nothing)],
           compose |-> u.compose, lines |-> u.lines \cup fl]
  BY DEF Wrote
<1>4. /\ fl \subseteq ALine
      /\ \A f \in FormsOf(u) : f # Nothing /\ GoesAway(f, v, Nothing) => Says(fl, f.key)
      /\ \A l \in fl : \E f \in FormsOf(u) : f # Nothing /\ f.text = l.text
  BY <1>2, FormLinesAre
<1> HIDE DEF t, u, fl
<1>5. /\ t.form = AfterRead(u.form, v, Nothing) /\ t.compose = u.compose
      /\ t.drafts = [k \in AllCases |-> AfterRead(u.drafts[k], v, Nothing)]
      /\ t.lines = u.lines \cup fl
  BY <1>3
<1>6. \A k : Says(fl, k) => Says(t.lines, k)
  BY <1>5 DEF Says
<1>7. u.form \in AForm /\ u.form \in FormsOf(u)
  BY <1>2 DEF Screens, FormsOf
<1>8. \A k \in AllCases : u.drafts[k] \in AForm /\ u.drafts[k] \in FormsOf(u)
  BY <1>2 DEF Screens, FormsOf
<1>9. /\ t.form \in AForm /\ Kept(u.form, t.form)
      /\ u.form # Nothing /\ t.form = Nothing => Says(t.lines, u.form.key)
  <2>1. /\ AfterRead(u.form, v, Nothing) \in AForm
        /\ Kept(u.form, AfterRead(u.form, v, Nothing))
        /\ u.form # Nothing /\ AfterRead(u.form, v, Nothing) = Nothing =>
             GoesAway(u.form, v, Nothing)
    BY <1>7, ReadLeaves
  <2> QED
    BY <1>4, <1>5, <1>6, <1>7, <2>1
<1>10. ASSUME NEW k \in AllCases
       PROVE  /\ t.drafts[k] \in AForm /\ Kept(u.drafts[k], t.drafts[k])
              /\ u.drafts[k] # Nothing /\ t.drafts[k] = Nothing =>
                   Says(t.lines, u.drafts[k].key)
  <2>1. t.drafts[k] = AfterRead(u.drafts[k], v, Nothing)
    BY <1>5
  <2> QED
    BY <1>4, <1>6, <1>8, <2>1, ReadLeaves
<1>11. t \in Screens
  <2>1. t.drafts \in [AllCases -> AForm]
    BY <1>5, <1>10
  <2>2. t.lines \subseteq ALine /\ t.compose \in Composes \cup {Nothing}
    BY <1>2, <1>4, <1>5 DEF Screens
  <2>3. t = [form |-> t.form, drafts |-> t.drafts, compose |-> t.compose, lines |-> t.lines]
    BY <1>3
  <2> QED
    BY <1>9, <2>1, <2>2, <2>3 DEF Screens
<1>12. LossesTold(u, t)
  BY <1>5, <1>9, <1>10 DEF LossesTold
<1>13. KeptMessage(u.compose, t.compose)
  BY <1>5 DEF KeptMessage
<1>14. LeftOf(u, t)
  BY <1>5, <1>9, <1>10, <1>11, <1>12, <1>13 DEF LeftOf
<1>15. LeftOf(s, t)
  BY <1>1, <1>14, LeftOfLeft
<1>16. w.result = "taken" => Cleared(t, w)
  <2> SUFFICES ASSUME w.result = "taken" PROVE Cleared(t, w)
    OBVIOUS
  <2>1. t.form # Nothing => t.form.key # w.key
    BY <1>1, <1>7, <1>9 DEF Cleared, Kept
  <2>2. \A k \in AllCases : t.drafts[k] # Nothing => t.drafts[k].key # w.key
    BY <1>1, <1>8, <1>10 DEF Cleared, Kept
  <2>3. t.compose # Nothing => t.compose.key # w.key
    BY <1>1, <1>5 DEF Cleared
  <2> QED
    BY <2>1, <2>2, <2>3 DEF Cleared, FormsOf
<1>17. \A f \in FormsOf(u) : f # Nothing =>
         \E g \in FormsOf(s) : g # Nothing /\ g.key = f.key /\ g.text = f.text
  <2>1. s.form \in FormsOf(s) /\ \A k \in AllCases : s.drafts[k] \in FormsOf(s)
    BY DEF FormsOf
  <2>2. Kept(s.form, u.form) /\ \A k \in AllCases : Kept(s.drafts[k], u.drafts[k])
    BY <1>1 DEF LeftOf
  <2>3. ASSUME u.form # Nothing
        PROVE  \E g \in FormsOf(s) : g # Nothing /\ g.key = u.form.key /\ g.text = u.form.text
    BY <2>1, <2>2, <2>3 DEF Kept
  <2>4. ASSUME NEW k \in AllCases, u.drafts[k] # Nothing
        PROVE  \E g \in FormsOf(s) :
                 g # Nothing /\ g.key = u.drafts[k].key /\ g.text = u.drafts[k].text
    BY <2>1, <2>2, <2>4 DEF Kept
  <2> QED
    BY <2>3, <2>4 DEF FormsOf
<1>18. ASSUME NEW l \in t.lines, l.what = "not sent"
       PROVE  \/ l \in s.lines
              \/ w.result # "taken" /\ l.text = w.text
              \/ \E f \in FormsOf(s) :
                   /\ f # Nothing /\ f.text = l.text
                   /\ w.result = "taken" => f.key # w.key
  <2>1. CASE l \in u.lines
    BY <1>1, <1>18, <2>1
  <2>2. CASE l \in fl
    <3>1. PICK f \in FormsOf(u) : f # Nothing /\ f.text = l.text
      BY <1>4, <2>2
    <3>2. w.result = "taken" => f.key # w.key
      BY <1>1, <3>1 DEF Cleared
    <3>3. PICK g \in FormsOf(s) : g # Nothing /\ g.key = f.key /\ g.text = f.text
      BY <1>17, <3>1
    <3> QED
      BY <3>1, <3>2, <3>3
  <2> QED
    BY <1>5, <2>1, <2>2
<1> QED
  BY <1>15, <1>16, <1>18 DEF t

-----------------------------------------------------------------------------
(* What a step leaves of the texts *)

LEMMA PlacesAre ==
  /\ form \in Places /\ compose \in Places /\ sending \in Places
  /\ \A k \in AllCases : drafts[k] \in Places
  /\ \A f \in Places : f \in {form, compose, sending} \/ \E k \in AllCases : f = drafts[k]
  BY DEF Places

(* Something there with the text t of the case k. *)
InAPlace(k, t) == \E g \in Places : g # Nothing /\ g.key = k /\ g.text = t

LEMMA PlacesType ==
  ASSUME PanelsType
  PROVE  \A f \in Places : f # Nothing => f.text \in Nat /\ f.key \in AllCases \cup {New}
  BY DEF PanelsType, Places, Forms, Composes, Writes

(* Nothing is there that was not, and nothing is written. *)
LEMMA TextsStay ==
  ASSUME PanelsType, PanelsType', TextsAreApart, RecordedIsSent,
         recorded' = recorded, typed' = typed,
         sending' = sending \/ (sending = Nothing /\ sending'.result = "out"),
         \A f \in Places' :
           f # Nothing /\ f.text # 0 => InAPlace(f.key, f.text)
  PROVE  TextsAreApart' /\ RecordedIsSent'
<1>1. \A f \in Places' : f # Nothing => f.text \in Nat
  BY PlacesType DEF PanelsType, Places, Forms, Composes, Writes
<1>2. typed \in Nat /\ \A t \in recorded : t # 0
  BY DEF PanelsType, TextsAreApart
<1>3. \A f \in Places' : f # Nothing => f.text <= typed'
  BY <1>1, <1>2 DEF InAPlace, TextsAreApart
<1>4. \A f, g \in Places' :
        f # Nothing /\ g # Nothing /\ f.text = g.text /\ f.text # 0 => f.key = g.key
  BY DEF InAPlace, TextsAreApart
<1>5. TextsAreApart'
  BY <1>3, <1>4 DEF TextsAreApart
<1>6. ASSUME NEW f \in Places', f # Nothing, f.text \in recorded
      PROVE  sending # Nothing /\ sending.result = "taken" /\ sending.key = f.key
  BY <1>2, <1>6 DEF InAPlace, RecordedIsSent
<1>7. RecordedIsSent'
  <2>1. \A f \in Places' :
          f # Nothing /\ f.text \in recorded' =>
            sending' # Nothing /\ sending'.result = "taken" /\ sending'.key = f.key
    BY <1>6
  <2>2. sending' # Nothing /\ sending'.result = "taken" => sending'.text \in recorded' \cup {0}
    BY DEF RecordedIsSent
  <2> QED
    BY <2>1, <2>2 DEF RecordedIsSent
<1> QED
  BY <1>5, <1>7

(* Something new is typed on the case k. *)
LEMMA TextsTyped ==
  ASSUME PanelsType, PanelsType', TextsAreApart, RecordedIsSent,
         recorded' = recorded, typed' = typed + 1, sending' = sending,
         NEW k,
         \A f \in Places' :
           f # Nothing => (f.key = k /\ f.text = typed') \/ InAPlace(f.key, f.text)
  PROVE  TextsAreApart' /\ RecordedIsSent'
<1>1. typed \in Nat /\ \A t \in recorded : 0 < t /\ t <= typed /\ t \in Nat
  BY DEF PanelsType, TextsAreApart
<1>2. \A j, t : InAPlace(j, t) => t \in Nat /\ t <= typed
  BY PlacesType DEF InAPlace, TextsAreApart
<1>3. \A j, t : InAPlace(j, t) => t # typed'
  BY <1>1, <1>2
<1>4. \A f \in Places' : f # Nothing => f.text <= typed'
  BY <1>1, <1>2
<1>5. \A t \in recorded' : 0 < t /\ t <= typed'
  BY <1>1
<1>6. \A i, j, t : InAPlace(i, t) /\ InAPlace(j, t) /\ t # 0 => i = j
  BY DEF InAPlace, TextsAreApart
<1>7. \A f, g \in Places' :
        f # Nothing /\ g # Nothing /\ f.text = g.text /\ f.text # 0 => f.key = g.key
  BY <1>3, <1>6
<1>8. TextsAreApart'
  BY <1>4, <1>5, <1>7 DEF TextsAreApart
<1>9. typed' \notin recorded
  BY <1>1
<1>10. \A f \in Places' :
         f # Nothing /\ f.text \in recorded' =>
           sending' # Nothing /\ sending'.result = "taken" /\ sending'.key = f.key
  BY <1>9 DEF InAPlace, RecordedIsSent
<1>11. RecordedIsSent'
  BY <1>10 DEF RecordedIsSent
<1> QED
  BY <1>8, <1>11

LEMMA AppendedIs ==
  /\ Append(<<>>, "write") = <<"write">>
  /\ Append(<<"read">>, "write") = <<"read", "write">>
<1> DEFINE both == {"read", "write"}
           a == Append(<<"read">>, "write")
           b == <<"read", "write">>
<1>1. <<"read">> \in Seq(both) /\ b \in Seq(both) /\ Len(<<"read">>) = 1 /\ Len(b) = 2
  OBVIOUS
<1>2. a \in Seq(both) /\ Len(a) = 2 /\ a[1] = "read" /\ a[2] = "write"
  BY <1>1, AppendProperties
<1>3. b[1] = "read" /\ b[2] = "write"
  OBVIOUS
<1> HIDE DEF a, b
<1>4. \A i \in 1 .. Len(a) : a[i] = b[i]
  BY <1>2, <1>3
<1>5. a = b
  BY <1>1, <1>2, <1>4, SeqEqual
<1> QED
  BY <1>5 DEF a, b

(* No write is sent, or one of what is there. *)
SendsWhatIsThere ==
  \/ UNCHANGED <<sending, thread>> /\ flashed' = {}
  \/ \E k \in AllCases \cup {New}, rev \in Nat, text \in Nat,
        what \in {"answer", "drop", "park", "withdraw", "resume", "edit", "open"} :
       /\ Sends(k, what, rev, text)
       /\ (k = New) = (what = "open")
       /\ text # 0 => InAPlace(k, text)

(***************************************************************************)
(* A key that leaves what was typed where it was or takes it away.         *)
(***************************************************************************)
LEMMA KeyKeeps ==
  ASSUME PanelsInv, UNCHANGED <<store, recorded, view, quitting, typed>>,
         form' \in AForm, drafts' \in [AllCases -> AForm],
         compose' \in Composes \cup {Nothing}, DraftsAreSo',
         \A f \in {form', compose'} \cup {drafts'[k] : k \in AllCases} :
           f # Nothing /\ f.text # 0 => InAPlace(f.key, f.text),
         SendsWhatIsThere
  PROVE  PanelsInv'
<1>1. PanelsType /\ ThreadIsSo /\ TextsAreApart /\ RecordedIsSent /\ TakenIsPast
  BY DEF PanelsInv
<1>2. \A f \in Places' :
        \/ f \in {form', compose'} \cup {drafts'[k] : k \in AllCases}
        \/ f = sending'
  BY DEF Places
<1>3. CASE UNCHANGED <<sending, thread>> /\ flashed' = {}
  <2>1. PanelsType'
    BY <1>1, <1>3 DEF PanelsType, AForm
  <2>2. ThreadIsSo' /\ TakenIsPast'
    BY <1>1, <1>3 DEF ThreadIsSo, TakenIsPast
  <2>3. sending # Nothing => InAPlace(sending.key, sending.text)
    BY PlacesAre DEF InAPlace
  <2>4. \A f \in Places' : f # Nothing /\ f.text # 0 => InAPlace(f.key, f.text)
    BY <1>2, <1>3, <2>3
  <2>5. TextsAreApart' /\ RecordedIsSent'
    BY <1>1, <1>3, <2>1, <2>4, TextsStay
  <2>6. NotSentIsSo'
    BY <1>3 DEF NotSentIsSo
  <2> QED
    BY <2>1, <2>2, <2>5, <2>6 DEF PanelsInv
<1>4. ASSUME NEW k \in AllCases \cup {New}, NEW rev \in Nat, NEW text \in Nat,
             NEW what \in {"answer", "drop", "park", "withdraw", "resume", "edit", "open"},
             Sends(k, what, rev, text), (k = New) = (what = "open"),
             text # 0 => InAPlace(k, text)
      PROVE  PanelsInv'
  <2>1. NotSentIsSo'
    <3>1. flashed' = {} \/ flashed' = {Line("wait", k, text)}
      BY <1>4 DEF Sends
    <3>2. Line("wait", k, text).what = "wait"
      BY DEF Line
    <3>3. \A l \in flashed' : l.what = "wait"
      BY <3>1, <3>2
    <3> QED
      BY <3>3 DEF NotSentIsSo
  <2>2. CASE sending # Nothing
    <3>1. UNCHANGED <<sending, thread>>
      BY <1>4, <2>2 DEF Sends
    <3>2. PanelsType'
      BY <1>1, <3>1 DEF PanelsType, AForm
    <3>3. ThreadIsSo' /\ TakenIsPast'
      BY <1>1, <3>1 DEF ThreadIsSo, TakenIsPast
    <3>4. sending # Nothing => InAPlace(sending.key, sending.text)
      BY PlacesAre DEF InAPlace
    <3>5. \A f \in Places' : f # Nothing /\ f.text # 0 => InAPlace(f.key, f.text)
      BY <1>2, <3>1, <3>4
    <3>6. TextsAreApart' /\ RecordedIsSent'
      BY <1>1, <3>1, <3>2, <3>5, TextsStay
    <3> QED
      BY <2>1, <3>2, <3>3, <3>6 DEF PanelsInv
  <2>3. CASE sending = Nothing
    <3>1. /\ sending' = [key |-> k, what |-> what, rev |-> rev, text |-> text,
                         result |-> "out"]
          /\ thread' = [thread EXCEPT !.asked = Append(@, "write")]
      BY <1>4, <2>3 DEF Sends
    <3>2. sending' \in Writes
      BY <3>1 DEF Writes
    <3>3. /\ sending' # Nothing /\ sending'.result = "out" /\ sending'.key = k
          /\ sending'.text = text /\ sending'.what = what
      BY <3>1, <3>2, ApartAssumption
    <3>4. /\ thread.asked \in {<<>>, <<"read">>} /\ ~thread.wrote /\ ~thread.after
          /\ thread \in [asked : {<<>>, <<"read">>, <<"write">>, <<"read", "write">>},
                         wrote : BOOLEAN, read : Stores \cup {Nothing, Unreadable},
                         after : BOOLEAN]
      BY <1>1, <2>3 DEF ThreadIsSo, PanelsType
    <3>6. /\ thread' \in [asked : {<<>>, <<"read">>, <<"write">>, <<"read", "write">>},
                          wrote : BOOLEAN, read : Stores \cup {Nothing, Unreadable},
                          after : BOOLEAN]
          /\ thread'.asked \in {<<"write">>, <<"read", "write">>}
          /\ ~thread'.wrote /\ ~thread'.after
      BY <3>1, <3>4, AppendedIs
    <3>7. PanelsType'
      BY <1>1, <3>2, <3>6 DEF PanelsType, AForm
    <3>8. ThreadIsSo' /\ TakenIsPast'
      BY <1>4, <3>3, <3>6 DEF ThreadIsSo, TakenIsPast
    <3>9. \A f \in Places' : f # Nothing /\ f.text # 0 => InAPlace(f.key, f.text)
      BY <1>2, <1>4, <3>3
    <3>10. TextsAreApart' /\ RecordedIsSent'
      BY <1>1, <2>3, <3>3, <3>7, <3>9, TextsStay
    <3> QED
      BY <2>1, <3>7, <3>8, <3>10 DEF PanelsInv
  <2> QED
    BY <2>2, <2>3
<1> QED
  BY <1>3, <1>4 DEF SendsWhatIsThere

-----------------------------------------------------------------------------
(* Each key keeps the invariant *)

LEMMA FormsType ==
  ASSUME PanelsType
  PROVE  /\ form \in AForm /\ drafts \in [AllCases -> AForm]
         /\ compose \in Composes \cup {Nothing}
         /\ \A f \in Forms \cup Composes : f # Nothing
  BY ApartAssumption DEF PanelsType, AForm

LEMMA TheirPlaces ==
  /\ form # Nothing => InAPlace(form.key, form.text)
  /\ compose # Nothing => InAPlace(compose.key, compose.text)
  /\ \A k \in AllCases : drafts[k] # Nothing => InAPlace(drafts[k].key, drafts[k].text)
  BY PlacesAre DEF InAPlace

(* The drafts with the answer that was left are drafts, and it is there.   *)
LEMMA LeftIs ==
  ASSUME PanelsType, DraftsAreSo
  PROVE  /\ Left(form, drafts) \in [AllCases -> AForm]
         /\ \A k \in AllCases :
              /\ Left(form, drafts)[k] # Nothing =>
                   /\ Left(form, drafts)[k].key = k /\ Left(form, drafts)[k].act = "answer"
                   /\ InAPlace(k, Left(form, drafts)[k].text)
              /\ drafts[k] # Nothing => Left(form, drafts)[k] = drafts[k]
         /\ form # Nothing /\ form.act = "answer" /\ form.text # 0 =>
              Left(form, drafts)[form.key] = form
<1> DEFINE ds == Left(form, drafts)
<1>1. form \in AForm /\ drafts \in [AllCases -> AForm]
  BY FormsType
<1>2. CASE form # Nothing /\ form.act = "answer" /\ form.text # 0
  <2>1. ds = [drafts EXCEPT ![form.key] = form]
    BY <1>2 DEF Left
  <2>2. form.key \in AllCases /\ drafts[form.key] = Nothing
    BY <1>1, <1>2 DEF AForm, Forms, DraftsAreSo
  <2>3. /\ ds \in [AllCases -> AForm] /\ ds[form.key] = form
        /\ \A k \in AllCases : k # form.key => ds[k] = drafts[k]
    BY <1>1, <2>1, <2>2
  <2> HIDE DEF ds
  <2>4. \A k \in AllCases : drafts[k] # Nothing => ds[k] = drafts[k]
    BY <2>2, <2>3
  <2>5. ASSUME NEW k \in AllCases, ds[k] # Nothing
        PROVE  ds[k].key = k /\ ds[k].act = "answer" /\ InAPlace(k, ds[k].text)
    BY <1>2, <2>3, <2>5, TheirPlaces DEF DraftsAreSo
  <2> QED
    BY <2>3, <2>4, <2>5 DEF ds
<1>3. CASE ~(form # Nothing /\ form.act = "answer" /\ form.text # 0)
  <2>1. ds = drafts
    BY <1>3 DEF Left
  <2>2. \A k \in AllCases :
          drafts[k] # Nothing =>
            drafts[k].key = k /\ drafts[k].act = "answer" /\ InAPlace(k, drafts[k].text)
    BY TheirPlaces DEF DraftsAreSo
  <2> QED
    BY <1>1, <1>3, <2>1, <2>2
<1> QED
  BY <1>2, <1>3

LEMMA StartFormKeeps ==
  ASSUME PanelsInv, NEW k \in AllCases, NEW act \in Acts, StartForm(k, act)
  PROVE  PanelsInv'
<1> DEFINE ds == Left(form, drafts)
<1>1. PanelsType /\ DraftsAreSo
  BY DEF PanelsInv
<1>2. /\ ds \in [AllCases -> AForm]
      /\ \A j \in AllCases :
           ds[j] # Nothing => ds[j].key = j /\ ds[j].act = "answer" /\ InAPlace(j, ds[j].text)
  BY <1>1, LeftIs
<1> HIDE DEF ds
<1>3. /\ UNCHANGED <<store, recorded, view, quitting, typed, compose, sending, thread>>
      /\ flashed' = {}
  BY DEF StartForm, ScreenOnly
<1>4. compose' \in Composes \cup {Nothing}
  BY <1>1, <1>3 DEF PanelsType
<1>5. CASE act = "answer" /\ ds[k] # Nothing
  <2>1. form' = ds[k] /\ drafts' = [ds EXCEPT ![k] = Nothing]
    BY <1>5 DEF StartForm, ds
  <2>2. /\ form' \in AForm /\ form'.key = k /\ InAPlace(k, form'.text)
        /\ drafts' \in [AllCases -> AForm] /\ drafts'[k] = Nothing
        /\ \A j \in AllCases : j # k => drafts'[j] = ds[j]
    BY <1>2, <1>5, <2>1 DEF AForm
  <2>3. DraftsAreSo'
    BY <1>2, <2>2 DEF DraftsAreSo
  <2>4. \A f \in {form', compose'} \cup {drafts'[j] : j \in AllCases} :
          f # Nothing /\ f.text # 0 => InAPlace(f.key, f.text)
    BY <1>2, <1>3, <2>2, TheirPlaces
  <2> QED
    BY <1>3, <1>4, <2>2, <2>3, <2>4, KeyKeeps DEF SendsWhatIsThere
<1>6. CASE ~(act = "answer" /\ ds[k] # Nothing)
  <2>1. form' = Drawn(k, act) /\ drafts' = ds
    BY <1>6 DEF StartForm, ds
  <2>2. view[k].rev \in Nat
    BY <1>1 DEF PanelsType, Stores
  <2>3. form' \in Forms /\ form'.key = k /\ form'.act = act /\ form'.text = 0
    BY <2>1, <2>2 DEF Drawn, Forms
  <2>4. form' \in AForm /\ drafts' \in [AllCases -> AForm]
    BY <1>2, <2>1, <2>3 DEF AForm
  <2>5. DraftsAreSo'
    BY <1>2, <1>6, <2>1, <2>3 DEF DraftsAreSo
  <2>6. \A f \in {form', compose'} \cup {drafts'[j] : j \in AllCases} :
          f # Nothing /\ f.text # 0 => InAPlace(f.key, f.text)
    BY <1>2, <1>3, <2>1, <2>3, TheirPlaces
  <2> QED
    BY <1>3, <1>4, <2>4, <2>5, <2>6, KeyKeeps DEF SendsWhatIsThere
<1> QED
  BY <1>5, <1>6

LEMMA LeaveFormKeeps ==
  ASSUME PanelsInv, LeaveForm
  PROVE  PanelsInv'
<1>1. PanelsType /\ DraftsAreSo
  BY DEF PanelsInv
<1>2. /\ UNCHANGED <<store, recorded, view, quitting, typed, compose, sending, thread>>
      /\ flashed' = {} /\ form' = Nothing /\ drafts' = Left(form, drafts)
  BY DEF LeaveForm, ScreenOnly
<1>3. /\ form' \in AForm /\ drafts' \in [AllCases -> AForm]
      /\ compose' \in Composes \cup {Nothing}
  BY <1>1, <1>2, LeftIs DEF AForm, PanelsType
<1>4. \A k \in AllCases :
        drafts'[k] # Nothing =>
          drafts'[k].key = k /\ drafts'[k].act = "answer" /\ InAPlace(k, drafts'[k].text)
  BY <1>1, <1>2, LeftIs
<1>5. DraftsAreSo'
  BY <1>2, <1>4 DEF DraftsAreSo
<1>6. \A f \in {form', compose'} \cup {drafts'[j] : j \in AllCases} :
        f # Nothing /\ f.text # 0 => InAPlace(f.key, f.text)
  BY <1>2, <1>4, TheirPlaces
<1> QED
  BY <1>2, <1>3, <1>5, <1>6, KeyKeeps DEF SendsWhatIsThere

LEMMA StartMessageKeeps ==
  ASSUME PanelsInv, NEW c \in Composes, c.text = 0, StartMessage(c)
  PROVE  PanelsInv'
<1>1. PanelsType /\ DraftsAreSo
  BY DEF PanelsInv
<1>2. /\ UNCHANGED <<store, recorded, view, quitting, typed, sending, thread>>
      /\ flashed' = {} /\ form' = Nothing /\ drafts' = Left(form, drafts) /\ compose' = c
  BY DEF StartMessage, ScreenOnly
<1>3. /\ form' \in AForm /\ drafts' \in [AllCases -> AForm]
      /\ compose' \in Composes \cup {Nothing}
  BY <1>1, <1>2, LeftIs DEF AForm, PanelsType
<1>4. \A k \in AllCases :
        drafts'[k] # Nothing =>
          drafts'[k].key = k /\ drafts'[k].act = "answer" /\ InAPlace(k, drafts'[k].text)
  BY <1>1, <1>2, LeftIs
<1>5. DraftsAreSo'
  BY <1>2, <1>4 DEF DraftsAreSo
<1>6. \A f \in {form', compose'} \cup {drafts'[j] : j \in AllCases} :
        f # Nothing /\ f.text # 0 => InAPlace(f.key, f.text)
  BY <1>2, <1>4
<1> QED
  BY <1>2, <1>3, <1>5, <1>6, KeyKeeps DEF SendsWhatIsThere

(* A key that moves no text.                                               *)
LEMMA AskedKeeps ==
  ASSUME PanelsInv, UNCHANGED <<store, recorded, view, quitting, typed, drafts>>,
         form' \in AForm, Kept(form, form'),
         compose' \in Composes \cup {Nothing}, KeptMessage(compose, compose'),
         SendsWhatIsThere
  PROVE  PanelsInv'
<1>1. PanelsType /\ DraftsAreSo
  BY DEF PanelsInv
<1>2. drafts' \in [AllCases -> AForm]
  BY <1>1, FormsType
<1>3. DraftsAreSo'
  BY <1>1 DEF DraftsAreSo, Kept
<1>4. \A f \in {form', compose'} \cup {drafts'[k] : k \in AllCases} :
        f # Nothing /\ f.text # 0 => InAPlace(f.key, f.text)
  BY TheirPlaces DEF Kept, KeptMessage
<1> QED
  BY <1>2, <1>3, <1>4, KeyKeeps

LEMMA AsksIs ==
  ASSUME NEW f \in Forms, NEW a \in {"nothing", "drop", "discard", "withdraw"}
  PROVE  [f EXCEPT !.asks = a] \in AForm /\ Kept(f, [f EXCEPT !.asks = a])
<1>1. f # Nothing
  BY ApartAssumption
<1> QED
  BY <1>1 DEF AForm, Forms, Kept

LEMMA AskInFormKeeps ==
  ASSUME PanelsInv, NEW what \in {"drop", "discard"}, AskInForm(what)
  PROVE  PanelsInv'
<1>1. /\ UNCHANGED <<store, recorded, view, quitting, typed, drafts, compose, sending, thread>>
      /\ flashed' = {} /\ form # Nothing /\ form' = [form EXCEPT !.asks = what]
  BY DEF AskInForm, ScreenOnly
<1>2. form \in Forms /\ compose \in Composes \cup {Nothing}
  BY <1>1, FormsType DEF PanelsInv, AForm
<1>3. form' \in AForm /\ Kept(form, form')
  BY <1>1, <1>2 DEF AForm, Forms, Kept
<1>4. KeptMessage(compose, compose')
  BY <1>1 DEF KeptMessage
<1> QED
  BY <1>1, <1>2, <1>3, <1>4, AskedKeeps DEF SendsWhatIsThere

LEMMA SendFormKeeps ==
  ASSUME PanelsInv, SendForm
  PROVE  PanelsInv'
<1>1. /\ UNCHANGED <<store, recorded, view, quitting, typed, drafts, compose>>
      /\ form # Nothing
  BY DEF SendForm, ScreenOnly
<1>2. form \in Forms /\ compose \in Composes \cup {Nothing}
  BY <1>1, FormsType DEF PanelsInv, AForm
<1>3. KeptMessage(compose, compose')
  BY <1>1 DEF KeptMessage
<1>4. CASE form.act = "withdraw"
  <2>1. form' = [form EXCEPT !.asks = "withdraw"] /\ UNCHANGED <<sending, thread>> /\ flashed' = {}
    BY <1>4 DEF SendForm
  <2>2. form' \in AForm /\ Kept(form, form')
    BY <1>2, <2>1, AsksIs
  <2> QED
    BY <1>1, <1>2, <1>3, <2>1, <2>2, AskedKeeps DEF SendsWhatIsThere
<1>5. CASE form.act # "withdraw"
  <2>1. form' = form /\ Sends(form.key, form.act, form.rev, form.text)
    BY <1>5 DEF SendForm
  <2>2. /\ form.key \in AllCases /\ form.rev \in Nat /\ form.text \in Nat
        /\ form.act \in {"answer", "park", "withdraw"} /\ form.key # New
    BY <1>2, ApartAssumption DEF Forms, Acts
  <2>3. SendsWhatIsThere
    BY <1>1, <2>1, <2>2, TheirPlaces DEF SendsWhatIsThere
  <2>4. form' \in AForm /\ Kept(form, form')
    BY <1>2, <2>1 DEF AForm, Kept
  <2> QED
    BY <1>1, <1>2, <1>3, <2>3, <2>4, AskedKeeps
<1> QED
  BY <1>4, <1>5

LEMMA AnswerFormKeeps ==
  ASSUME PanelsInv, NEW yes \in BOOLEAN, AnswerForm(yes)
  PROVE  PanelsInv'
<1>1. /\ UNCHANGED <<store, recorded, view, quitting, typed, drafts, compose>>
      /\ form # Nothing /\ form.asks # "nothing"
  BY DEF AnswerForm, ScreenOnly
<1>2. form \in Forms /\ compose \in Composes \cup {Nothing}
  BY <1>1, FormsType DEF PanelsInv, AForm
<1>3. KeptMessage(compose, compose')
  BY <1>1 DEF KeptMessage
<1>4. form' = Nothing \/ form' = [form EXCEPT !.asks = "nothing"]
  BY DEF AnswerForm
<1>5. form' \in AForm /\ Kept(form, form')
  <2>1. CASE form' = Nothing
    BY <2>1 DEF AForm, Kept
  <2>2. CASE form' = [form EXCEPT !.asks = "nothing"]
    BY <1>2, <2>2, AsksIs
  <2> QED
    BY <1>4, <2>1, <2>2
<1>6. SendsWhatIsThere
  <2>1. CASE yes /\ form.asks # "discard"
    <3>1. Sends(form.key, form.asks, form.rev, form.text)
      BY <2>1 DEF AnswerForm
    <3>2. /\ form.key \in AllCases /\ form.rev \in Nat /\ form.text \in Nat
          /\ form.asks \in {"drop", "withdraw"} /\ form.key # New
      BY <1>1, <1>2, <2>1, ApartAssumption DEF Forms
    <3> QED
      BY <1>1, <3>1, <3>2, TheirPlaces DEF SendsWhatIsThere
  <2>2. CASE ~(yes /\ form.asks # "discard")
    BY <2>2 DEF AnswerForm, SendsWhatIsThere
  <2> QED
    BY <2>1, <2>2
<1> QED
  BY <1>1, <1>2, <1>3, <1>5, <1>6, AskedKeeps

LEMMA ResumeKeeps ==
  ASSUME PanelsInv, NEW k \in AllCases, Resume(k)
  PROVE  PanelsInv'
<1>1. /\ UNCHANGED <<store, recorded, view, quitting, typed, drafts, form, compose>>
      /\ Sends(k, "resume", view[k].rev, 0)
  BY DEF Resume, ScreenOnly
<1>2. form' \in AForm /\ compose' \in Composes \cup {Nothing}
  BY <1>1, FormsType DEF PanelsInv
<1>3. Kept(form, form') /\ KeptMessage(compose, compose')
  BY <1>1 DEF Kept, KeptMessage
<1>4. view[k].rev \in Nat /\ k # New
  BY ApartAssumption DEF PanelsInv, PanelsType, Stores
<1>5. SendsWhatIsThere
  BY <1>1, <1>4 DEF SendsWhatIsThere
<1> QED
  BY <1>1, <1>2, <1>3, <1>5, AskedKeeps

LEMMA SendMessageKeeps ==
  ASSUME PanelsInv, SendMessage
  PROVE  PanelsInv'
<1>1. /\ UNCHANGED <<store, recorded, view, quitting, typed, drafts, form, compose>>
      /\ compose # Nothing
      /\ Sends(compose.key, IF compose.key = New THEN "open" ELSE "edit",
               compose.rev, compose.text)
  BY DEF SendMessage, ScreenOnly
<1>2. form' \in AForm /\ compose' \in Composes \cup {Nothing}
  BY <1>1, FormsType DEF PanelsInv
<1>3. Kept(form, form') /\ KeptMessage(compose, compose')
  BY <1>1 DEF Kept, KeptMessage
<1>4. compose.key \in AllCases \cup {New} /\ compose.rev \in Nat /\ compose.text \in Nat
  BY <1>1, <1>2 DEF Composes
<1>5. SendsWhatIsThere
  BY <1>1, <1>4, TheirPlaces DEF SendsWhatIsThere
<1> QED
  BY <1>1, <1>2, <1>3, <1>5, AskedKeeps

LEMMA LeaveMessageKeeps ==
  ASSUME PanelsInv, LeaveMessage \/ \E yes \in BOOLEAN : AnswerMessage(yes)
  PROVE  PanelsInv'
<1>1. /\ UNCHANGED <<store, recorded, view, quitting, typed, drafts, form, sending, thread>>
      /\ flashed' = {} /\ compose # Nothing
      /\ compose' = Nothing \/ \E asks \in BOOLEAN : compose' = [compose EXCEPT !.asks = asks]
  BY DEF LeaveMessage, AnswerMessage, ScreenOnly
<1>2. form' \in AForm /\ compose \in Composes
  BY <1>1, FormsType DEF PanelsInv
<1>3. compose' \in Composes \cup {Nothing} /\ KeptMessage(compose, compose')
  BY <1>1, <1>2 DEF Composes, KeptMessage
<1>4. Kept(form, form')
  BY <1>1 DEF Kept
<1> QED
  BY <1>1, <1>2, <1>3, <1>4, AskedKeeps DEF SendsWhatIsThere

LEMMA TypeInFormKeeps ==
  ASSUME PanelsInv, TypeInForm
  PROVE  PanelsInv'
<1>1. /\ UNCHANGED <<store, recorded, view, quitting, drafts, compose, sending, thread>>
      /\ flashed' = {} /\ form # Nothing /\ typed' = typed + 1
      /\ form' = [form EXCEPT !.text = typed']
  BY DEF TypeInForm, ScreenOnly
<1>2. /\ PanelsType /\ DraftsAreSo /\ ThreadIsSo /\ TextsAreApart /\ RecordedIsSent
      /\ TakenIsPast
  BY DEF PanelsInv
<1>3. form \in Forms /\ \A f \in Forms : f # Nothing
  BY <1>1, <1>2, FormsType DEF AForm
<1>4. typed \in Nat /\ typed' \in Nat
  BY <1>1, <1>2 DEF PanelsType
<1>5. /\ form' \in Forms /\ form' # Nothing /\ form'.key = form.key
      /\ form'.act = form.act /\ form'.text = typed'
  BY <1>1, <1>3, <1>4 DEF Forms
<1>6. PanelsType'
  BY <1>1, <1>2, <1>4, <1>5 DEF PanelsType
<1>7. DraftsAreSo'
  BY <1>1, <1>2, <1>5 DEF DraftsAreSo
<1>8. ThreadIsSo' /\ TakenIsPast'
  BY <1>1, <1>2 DEF ThreadIsSo, TakenIsPast
<1>9. ASSUME NEW f \in Places', f # Nothing
      PROVE  (f.key = form.key /\ f.text = typed') \/ InAPlace(f.key, f.text)
  <2>1. f = form' \/ f \in Places
    BY <1>1, <1>9 DEF Places
  <2> QED
    BY <1>5, <1>9, <2>1 DEF InAPlace
<1>10. TextsAreApart' /\ RecordedIsSent'
  <2> DEFINE k == form.key
  <2>1. \A f \in Places' :
          f # Nothing => (f.key = k /\ f.text = typed') \/ InAPlace(f.key, f.text)
    BY <1>9
  <2> HIDE DEF k
  <2> QED
    BY <1>1, <1>2, <1>6, <2>1, TextsTyped
<1>11. NotSentIsSo'
  BY <1>1 DEF NotSentIsSo
<1> QED
  BY <1>6, <1>7, <1>8, <1>10, <1>11 DEF PanelsInv

LEMMA TypeInMessageKeeps ==
  ASSUME PanelsInv, TypeInMessage
  PROVE  PanelsInv'
<1>1. /\ UNCHANGED <<store, recorded, view, quitting, drafts, form, sending, thread>>
      /\ flashed' = {} /\ compose # Nothing /\ typed' = typed + 1
      /\ compose' = [compose EXCEPT !.text = typed']
  BY DEF TypeInMessage, ScreenOnly
<1>2. /\ PanelsType /\ DraftsAreSo /\ ThreadIsSo /\ TextsAreApart /\ RecordedIsSent
      /\ TakenIsPast
  BY DEF PanelsInv
<1>3. compose \in Composes /\ \A f \in Composes : f # Nothing
  BY <1>1, <1>2, FormsType
<1>4. typed \in Nat /\ typed' \in Nat
  BY <1>1, <1>2 DEF PanelsType
<1>5. /\ compose' \in Composes /\ compose' # Nothing /\ compose'.key = compose.key
      /\ compose'.text = typed'
  BY <1>1, <1>3, <1>4 DEF Composes
<1>6. PanelsType'
  BY <1>1, <1>2, <1>4, <1>5 DEF PanelsType
<1>7. DraftsAreSo' /\ ThreadIsSo' /\ TakenIsPast'
  BY <1>1, <1>2 DEF DraftsAreSo, ThreadIsSo, TakenIsPast
<1>8. ASSUME NEW f \in Places', f # Nothing
      PROVE  (f.key = compose.key /\ f.text = typed') \/ InAPlace(f.key, f.text)
  <2>1. f = compose' \/ f \in Places
    BY <1>1, <1>8 DEF Places
  <2> QED
    BY <1>5, <1>8, <2>1 DEF InAPlace
<1>9. TextsAreApart' /\ RecordedIsSent'
  <2> DEFINE k == compose.key
  <2>1. \A f \in Places' :
          f # Nothing => (f.key = k /\ f.text = typed') \/ InAPlace(f.key, f.text)
    BY <1>8
  <2> HIDE DEF k
  <2> QED
    BY <1>1, <1>2, <1>6, <2>1, TextsTyped
<1>10. NotSentIsSo'
  BY <1>1 DEF NotSentIsSo
<1> QED
  BY <1>6, <1>7, <1>9, <1>10 DEF PanelsInv

(* What leaves all texts where they are, and says nothing. *)
LEMMA QuietKeeps ==
  ASSUME PanelsInv, UNCHANGED <<recorded, form, drafts, compose, sending, typed>>,
         PanelsType', ThreadIsSo', TakenIsPast', flashed' = {}
  PROVE  PanelsInv'
<1>1. DraftsAreSo'
  BY DEF PanelsInv, DraftsAreSo
<1>2. Places' = Places
  BY DEF Places
<1>3. TextsAreApart' /\ RecordedIsSent'
  BY <1>2 DEF PanelsInv, TextsAreApart, RecordedIsSent
<1>4. NotSentIsSo'
  BY DEF NotSentIsSo
<1> QED
  BY <1>1, <1>3, <1>4 DEF PanelsInv

LEMMA QuittingKeeps ==
  ASSUME PanelsInv,
         \/ \E ctrl \in BOOLEAN : QuitKey(ctrl)
         \/ \E yes \in BOOLEAN : AnswerQuit(yes)
         \/ EscOnList
  PROVE  PanelsInv'
<1>1. /\ UNCHANGED <<store, recorded, view, form, drafts, compose, sending, thread, typed>>
      /\ flashed' = {}
      /\ quitting' \in {"no", "asking", "landing", "over", "interrupted"}
  BY DEF QuitKey, AnswerQuit, EscOnList, QuitOnly, Quits
<1>2. PanelsType' /\ ThreadIsSo' /\ TakenIsPast'
  BY <1>1 DEF PanelsInv, PanelsType, ThreadIsSo, TakenIsPast
<1> QED
  BY <1>1, <1>2, QuietKeeps

LEMMA LandKeeps ==
  ASSUME PanelsInv, Land
  PROVE  PanelsInv'
<1>1. /\ UNCHANGED <<store, recorded, view, form, drafts, compose, sending, thread, typed>>
      /\ quitting' = "over"
  BY DEF Land, QuitOnly
<1>2. PanelsType' /\ DraftsAreSo' /\ ThreadIsSo' /\ TakenIsPast'
  BY <1>1 DEF PanelsInv, PanelsType, DraftsAreSo, ThreadIsSo, TakenIsPast
<1>3. TextsAreApart' /\ RecordedIsSent'
  BY <1>1 DEF PanelsInv, TextsAreApart, RecordedIsSent, Places
<1>4. \A l \in flashed' : l.what # "not sent"
  <2>1. \/ flashed' = {Line("recorded", sending.key, sending.text)}
        \/ flashed' = {Line("given back", sending.key, sending.text)}
    BY DEF Land
  <2>2. /\ Line("recorded", sending.key, sending.text).what = "recorded"
        /\ Line("given back", sending.key, sending.text).what = "given back"
    BY DEF Line
  <2> QED
    BY <2>1, <2>2
<1>5. NotSentIsSo'
  BY <1>4 DEF NotSentIsSo
<1> QED
  BY <1>2, <1>3, <1>5 DEF PanelsInv

LEMMA AskReadKeeps ==
  ASSUME PanelsInv, AskRead
  PROVE  PanelsInv'
<1>1. /\ UNCHANGED <<store, recorded, view, form, drafts, compose, sending, quitting, typed>>
      /\ flashed' = {} /\ thread' = [thread EXCEPT !.asked = <<"read">>]
  BY DEF AskRead
<1>2. thread.asked = <<>> /\ ~thread.wrote /\ thread.read = Nothing
  BY DEF AskRead, Busy
<1>3. /\ PanelsType /\ ThreadIsSo /\ TakenIsPast
      /\ thread \in [asked : {<<>>, <<"read">>, <<"write">>, <<"read", "write">>},
                     wrote : BOOLEAN, read : Stores \cup {Nothing, Unreadable},
                     after : BOOLEAN]
  BY DEF PanelsInv, PanelsType
<1>4. sending = Nothing
  <2>1. <<>> # <<"write">> /\ <<>> # <<"read", "write">>
    OBVIOUS
  <2> QED
    BY <1>2, <1>3, <2>1 DEF ThreadIsSo
<1>5. /\ thread' \in [asked : {<<>>, <<"read">>, <<"write">>, <<"read", "write">>},
                      wrote : BOOLEAN, read : Stores \cup {Nothing, Unreadable},
                      after : BOOLEAN]
      /\ thread'.asked = <<"read">> /\ thread'.wrote = thread.wrote
      /\ thread'.after = thread.after
  BY <1>1, <1>3
<1>6. PanelsType'
  BY <1>1, <1>3, <1>5 DEF PanelsType
<1>7. ThreadIsSo' /\ TakenIsPast'
  BY <1>1, <1>3, <1>4, <1>5 DEF ThreadIsSo, TakenIsPast
<1> QED
  BY <1>1, <1>6, <1>7, QuietKeeps

LEMMA AnotherWritesKeeps ==
  ASSUME PanelsInv, NEW k \in AllCases, AnotherWrites(k)
  PROVE  PanelsInv'
<1>1. /\ UNCHANGED <<recorded, view, form, drafts, compose, sending, thread, quitting, typed>>
      /\ flashed' = {}
  BY DEF AnotherWrites
<1>2. PanelsType /\ ThreadIsSo /\ TakenIsPast /\ store \in Stores
  BY DEF PanelsInv, PanelsType
<1>3. PICK c \in [state : RowStates, rev : Nat, mark : Nat] :
        /\ store' = [store EXCEPT ![k] = c]
        /\ c.state = "gone" \/ c.rev > store[k].rev
  <2>1. CASE store' = [store EXCEPT ![k] = Gone]
    <3>1. Gone \in [state : RowStates, rev : Nat, mark : Nat] /\ Gone.state = "gone"
      BY DEF Gone, RowStates
    <3> QED
      BY <2>1, <3>1
  <2>2. ASSUME NEW state \in OthersLeave(k, store[k].state), NEW followed \in BOOLEAN,
               store' = [store EXCEPT ![k] = Row(@, state, followed)]
        PROVE  \E c \in [state : RowStates, rev : Nat, mark : Nat] :
                 store' = [store EXCEPT ![k] = c] /\ (c.state = "gone" \/ c.rev > store[k].rev)
    <3>1. state \in RowStates
      BY <2>2 DEF OthersLeave, RowStates
    <3>2. store[k] \in [state : RowStates, rev : Nat, mark : Nat]
      BY <1>2 DEF Stores
    <3> DEFINE c == Row(store[k], state, followed)
    <3>3. c \in [state : RowStates, rev : Nat, mark : Nat] /\ c.rev > store[k].rev
      BY <3>1, <3>2 DEF Row
    <3>4. store' = [store EXCEPT ![k] = c]
      BY <2>2
    <3> HIDE DEF c
    <3> QED
      BY <3>3, <3>4
  <2> QED
    BY <2>1, <2>2 DEF AnotherWrites
<1>4. /\ store' \in Stores
      /\ store'[k] = c /\ \A j \in AllCases : j # k => store'[j] = store[j]
  BY <1>2, <1>3 DEF Stores
<1>5. PanelsType' /\ ThreadIsSo'
  BY <1>1, <1>2, <1>4 DEF PanelsType, ThreadIsSo
<1>6. TakenIsPast'
  <2> SUFFICES ASSUME sending # Nothing, sending.result = "taken", sending.key # New
               PROVE  Past(store'[sending.key], sending)
    BY <1>1, <1>2 DEF TakenIsPast
  <2>1. /\ sending \in Writes /\ sending.key \in AllCases /\ sending.rev \in Nat
        /\ Past(store[sending.key], sending)
    BY <1>2 DEF PanelsType, TakenIsPast, Writes
  <2>2. CASE sending.key # k
    BY <1>4, <2>1, <2>2 DEF Past
  <2>3. CASE sending.key = k
    <3>1. c.state = "gone" \/ c.rev > sending.rev
      <4>1. store[k].rev \in Nat /\ c.rev \in Nat
        BY <1>2 DEF Stores
      <4>2. CASE store[k].rev > sending.rev
        BY <1>3, <2>1, <4>1, <4>2
      <4>3. CASE store[k].state = "gone"
        BY <4>3 DEF AnotherWrites
      <4> QED
        BY <2>1, <2>3, <4>2, <4>3 DEF Past
    <3> QED
      BY <1>4, <2>3, <3>1 DEF Past
  <2> QED
    BY <2>2, <2>3
<1> QED
  BY <1>1, <1>5, <1>6, QuietKeeps

(* What the thread is asked next, and then. *)
LEMMA AskedIs ==
  /\ Head(<<"read">>) = "read" /\ Head(<<"read", "write">>) = "read"
  /\ Head(<<"write">>) = "write"
  /\ Tail(<<"read">>) = <<>> /\ Tail(<<"write">>) = <<>>
  /\ Tail(<<"read", "write">>) = <<"write">>
  /\ <<"read">> # <<>> /\ <<"write">> # <<>> /\ <<"read", "write">> # <<>>
  /\ <<"read">> # <<"write">>
  OBVIOUS

LEMMA ThreadReadsKeeps ==
  ASSUME PanelsInv, ThreadReads
  PROVE  PanelsInv'
<1>1. /\ UNCHANGED <<store, recorded, view, form, drafts, compose, sending, quitting, typed>>
      /\ flashed' = {}
      /\ thread.wrote \/ (thread.asked # <<>> /\ Head(thread.asked) = "read")
  BY DEF ThreadReads
<1>2. PICK read \in {store, Unreadable} :
        thread' = [asked |-> IF thread.wrote THEN thread.asked ELSE Tail(thread.asked),
                   wrote |-> FALSE, read |-> read, after |-> thread.wrote]
  BY DEF ThreadReads
<1>3. /\ PanelsType /\ ThreadIsSo /\ TakenIsPast /\ store \in Stores
      /\ thread \in [asked : {<<>>, <<"read">>, <<"write">>, <<"read", "write">>},
                     wrote : BOOLEAN, read : Stores \cup {Nothing, Unreadable},
                     after : BOOLEAN]
  BY DEF PanelsInv, PanelsType
<1>4. read \in Stores \cup {Unreadable} /\ read # Nothing
  BY <1>2, <1>3, ApartAssumption
<1>5. /\ thread'.wrote = FALSE /\ thread'.read = read /\ thread'.after = thread.wrote
      /\ thread'.asked = IF thread.wrote THEN thread.asked ELSE Tail(thread.asked)
  BY <1>2
<1>6. /\ thread.wrote => thread'.asked = thread.asked
      /\ ~thread.wrote => /\ thread.asked \in {<<"read">>, <<"read", "write">>}
                          /\ thread.asked = <<"read">> => thread'.asked = <<>>
                          /\ thread.asked = <<"read", "write">> => thread'.asked = <<"write">>
  BY <1>1, <1>3, <1>5, AskedIs
<1>7. thread' \in [asked : {<<>>, <<"read">>, <<"write">>, <<"read", "write">>},
                   wrote : BOOLEAN, read : Stores \cup {Nothing, Unreadable},
                   after : BOOLEAN]
  <2> DEFINE asked == IF thread.wrote THEN thread.asked ELSE Tail(thread.asked)
  <2>1. asked \in {<<>>, <<"read">>, <<"write">>, <<"read", "write">>}
    BY <1>3, <1>5, <1>6
  <2>2. thread' = [asked |-> asked, wrote |-> FALSE, read |-> read, after |-> thread.wrote]
    BY <1>2
  <2>3. thread.wrote \in BOOLEAN
    BY <1>3
  <2> HIDE DEF asked
  <2> QED
    BY <1>4, <2>1, <2>2, <2>3
<1>8. PanelsType'
  BY <1>1, <1>3, <1>7 DEF PanelsType
<1>9. ThreadIsSo'
  BY <1>1, <1>3, <1>4, <1>5, <1>6, AskedIs DEF ThreadIsSo
<1>10. TakenIsPast'
  BY <1>1, <1>2, <1>3, <1>5 DEF TakenIsPast
<1> QED
  BY <1>1, <1>8, <1>9, <1>10, QuietKeeps

(* The thread writes what it was last asked for. *)
LEMMA WritesOut ==
  ASSUME PanelsInv, ThreadWrites
  PROVE  /\ sending \in Writes /\ sending # Nothing /\ sending.result = "out"
         /\ thread.asked = <<"write">> /\ ~thread.wrote /\ ~thread.after
         /\ (sending.key = New) = (sending.what = "open")
<1>1. thread.asked # <<>> /\ Head(thread.asked) = "write"
  BY DEF ThreadWrites
<1>2. /\ ThreadIsSo /\ sending \in Writes \cup {Nothing}
      /\ thread.asked \in {<<>>, <<"read">>, <<"write">>, <<"read", "write">>}
  BY DEF PanelsInv, PanelsType
<1>3. thread.asked = <<"write">>
  BY <1>1, <1>2, AskedIs
<1>4. sending # Nothing
  BY <1>2, <1>3, AskedIs DEF ThreadIsSo
<1>5. sending.result = "out"
  BY <1>2, <1>3, <1>4, AskedIs DEF ThreadIsSo
<1> QED
  BY <1>2, <1>3, <1>4, <1>5 DEF ThreadIsSo

LEMMA WrittenIs ==
  ASSUME NEW c \in [state : RowStates, rev : Nat, mark : Nat],
         NEW what \in {"answer", "drop", "park", "withdraw", "resume", "edit"}
  PROVE  /\ Written(what, c) \in [state : RowStates, rev : Nat, mark : Nat]
         /\ Written(what, c).rev = c.rev + 1
<1> DEFINE states == [answer |-> "answered", drop |-> "answered", park |-> "parked",
                      withdraw |-> "ended", resume |-> "open", edit |-> "sent"]
<1>1. states[what] \in RowStates
  BY DEF RowStates
<1> QED
  BY <1>1 DEF Written, Row

LEMMA ThreadWritesKeeps ==
  ASSUME PanelsInv, ThreadWrites
  PROVE  PanelsInv'
<1> DEFINE w == sending
<1>1. /\ UNCHANGED <<view, form, drafts, compose, quitting, typed>> /\ flashed' = {}
      /\ thread' = [thread EXCEPT !.asked = Tail(@), !.wrote = TRUE]
  BY DEF ThreadWrites
<1>2. /\ w \in Writes /\ w # Nothing /\ w.result = "out"
      /\ thread.asked = <<"write">> /\ ~thread.wrote /\ ~thread.after
      /\ (w.key = New) = (w.what = "open")
  BY WritesOut
<1>3. /\ PanelsType /\ DraftsAreSo /\ TextsAreApart /\ RecordedIsSent /\ store \in Stores
      /\ thread \in [asked : {<<>>, <<"read">>, <<"write">>, <<"read", "write">>},
                     wrote : BOOLEAN, read : Stores \cup {Nothing, Unreadable},
                     after : BOOLEAN]
  BY DEF PanelsInv, PanelsType
<1>4. PICK result \in Results(w) :
        /\ sending' = [w EXCEPT !.result = result]
        /\ store' = IF result # "taken" \/ w.key = New THEN store
                    ELSE [store EXCEPT ![w.key] = Written(w.what, @)]
        /\ recorded' = IF result = "taken" THEN recorded \cup ({w.text} \ {0}) ELSE recorded
  BY DEF ThreadWrites
<1>5. /\ result \in {"taken", "stale", "refused"}
      /\ result = "taken" /\ w.key # New => store[w.key].rev = w.rev
  BY <1>4 DEF Results
<1>6. /\ sending' \in Writes /\ sending' # Nothing /\ sending'.result = result
      /\ sending'.key = w.key /\ sending'.text = w.text /\ sending'.rev = w.rev
      /\ sending'.what = w.what
  BY <1>2, <1>4, <1>5, ApartAssumption DEF Writes
<1>7. /\ thread' \in [asked : {<<>>, <<"read">>, <<"write">>, <<"read", "write">>},
                      wrote : BOOLEAN, read : Stores \cup {Nothing, Unreadable},
                      after : BOOLEAN]
      /\ thread'.asked = <<>> /\ thread'.wrote /\ ~thread'.after
  <2>1. thread' = [asked |-> <<>>, wrote |-> TRUE, read |-> thread.read, after |-> thread.after]
    BY <1>1, <1>2, <1>3, AskedIs
  <2> QED
    BY <1>2, <1>3, <2>1
<1>8. /\ store' \in Stores
      /\ result = "taken" /\ w.key # New => store'[w.key].rev = w.rev + 1
  <2>1. CASE result # "taken" \/ w.key = New
    BY <1>3, <1>4, <2>1
  <2>2. CASE result = "taken" /\ w.key # New
    <3>1. w.key \in AllCases /\ w.what \in {"answer", "drop", "park", "withdraw", "resume", "edit"}
      BY <1>2, <2>2 DEF Writes
    <3>2. store[w.key] \in [state : RowStates, rev : Nat, mark : Nat]
      BY <1>3, <3>1 DEF Stores
    <3> DEFINE c == Written(w.what, store[w.key])
    <3>3. c \in [state : RowStates, rev : Nat, mark : Nat] /\ c.rev = w.rev + 1
      BY <1>5, <2>2, <3>1, <3>2, WrittenIs
    <3>4. store' = [store EXCEPT ![w.key] = c]
      BY <1>4, <2>2
    <3> HIDE DEF c, w
    <3> QED
      BY <1>3, <3>1, <3>3, <3>4 DEF Stores
  <2> QED
    BY <2>1, <2>2
<1>9. w.text \in Nat /\ w.rev \in Nat
  BY <1>2 DEF Writes
<1>10. recorded' \subseteq Nat
  BY <1>3, <1>4, <1>9 DEF PanelsType
<1>11. PanelsType'
  BY <1>1, <1>3, <1>6, <1>7, <1>8, <1>10 DEF PanelsType
<1>12. DraftsAreSo'
  BY <1>1, <1>3 DEF DraftsAreSo
<1>13. ThreadIsSo'
  BY <1>2, <1>5, <1>6, <1>7 DEF ThreadIsSo
<1>14. TakenIsPast'
  <2> SUFFICES ASSUME result = "taken", w.key # New
               PROVE  Past(store'[w.key], sending')
    BY <1>6, <1>7 DEF TakenIsPast
  <2>1. store'[w.key].rev > sending'.rev
    BY <1>6, <1>8, <1>9
  <2> QED
    BY <2>1 DEF Past
<1>15. NotSentIsSo'
  BY <1>1 DEF NotSentIsSo
<1>16. \A f \in Places' : f # Nothing => InAPlace(f.key, f.text)
  <2>1. InAPlace(w.key, w.text)
    BY <1>2, PlacesAre DEF InAPlace
  <2>2. \A f \in Places' : f = sending' \/ f \in Places
    BY <1>1 DEF Places
  <2> QED
    BY <1>6, <2>1, <2>2 DEF InAPlace
<1>17. \A k, t : InAPlace(k, t) => t \notin recorded /\ t <= typed
  BY <1>2, <1>3 DEF InAPlace, RecordedIsSent, TextsAreApart
<1>18. \A i, j, t : InAPlace(i, t) /\ InAPlace(j, t) /\ t # 0 => i = j
  BY <1>3 DEF InAPlace, TextsAreApart
<1>19. InAPlace(w.key, w.text)
  BY <1>2, PlacesAre DEF InAPlace
<1> HIDE DEF w
<1>20. TextsAreApart'
  <2>1. \A t \in recorded' : t \in recorded \/ (t = w.text /\ t # 0)
    BY <1>4
  <2>2. \A t \in recorded' : 0 < t /\ t <= typed'
    BY <1>1, <1>3, <1>9, <1>17, <1>19, <2>1 DEF TextsAreApart
  <2>3. \A f \in Places' : f # Nothing => f.text <= typed'
    BY <1>1, <1>16, <1>17
  <2>4. \A f, g \in Places' :
          f # Nothing /\ g # Nothing /\ f.text = g.text /\ f.text # 0 => f.key = g.key
    BY <1>16, <1>18
  <2> QED
    BY <2>2, <2>3, <2>4 DEF TextsAreApart
<1>21. RecordedIsSent'
  <2>1. ASSUME NEW f \in Places', f # Nothing, f.text \in recorded'
        PROVE  sending'.result = "taken" /\ sending'.key = f.key
    <3>1. InAPlace(f.key, f.text) /\ f.text \notin recorded
      BY <1>16, <1>17, <2>1
    <3>2. result = "taken" /\ f.text = w.text /\ f.text # 0
      BY <1>4, <2>1, <3>1
    <3> QED
      BY <1>6, <1>18, <1>19, <3>1, <3>2
  <2>2. sending'.result = "taken" => sending'.text \in recorded' \cup {0}
    BY <1>4, <1>6
  <2> QED
    BY <1>6, <2>1, <2>2 DEF RecordedIsSent
<1> QED
  BY <1>11, <1>12, <1>13, <1>14, <1>15, <1>20, <1>21 DEF PanelsInv

-----------------------------------------------------------------------------
(* The read the thread gave, taken *)

Screen == [form |-> form, drafts |-> drafts, compose |-> compose, lines |-> {}]

LEMMA ScreenIs ==
  ASSUME PanelsInv
  PROVE  Screen \in Screens /\ FormsOf(Screen) \subseteq Places
<1>1. /\ form \in AForm /\ drafts \in [AllCases -> AForm]
      /\ compose \in Composes \cup {Nothing}
  BY FormsType DEF PanelsInv
<1>2. Screen \in Screens
  BY <1>1 DEF Screen, Screens
<1>3. Screen.form = form /\ Screen.drafts = drafts
  BY DEF Screen
<1> QED
  BY <1>2, <1>3 DEF FormsOf, Places

(* What was typed in a form and is recorded is in the write being sent.    *)
LEMMA FormsRecorded ==
  ASSUME PanelsInv, NEW f \in FormsOf(Screen), f # Nothing, f.text \in recorded
  PROVE  sending # Nothing /\ sending.result = "taken" /\ f.key \in BeingSent(sending)
<1>1. sending # Nothing /\ sending.result = "taken" /\ sending.key = f.key
  BY ScreenIs DEF PanelsInv, RecordedIsSent
<1>2. FormsOf(Screen) \subseteq AForm
  BY ScreenIs DEF FormsOf, Screens
<1>3. f.key \in AllCases
  BY <1>2 DEF AForm, Forms
<1>4. f.key # New
  BY <1>3, ApartAssumption
<1> QED
  BY <1>1, <1>4 DEF BeingSent

(* The screen t is what the step leaves of the screen. *)
LEMMA TakeReadIs ==
  ASSUME PanelsInv, TakeRead
  PROVE  \E t \in Screens :
           /\ LeftOf(Screen, t)
           /\ form' = t.form /\ drafts' = t.drafts /\ compose' = t.compose
           /\ flashed' = t.lines
           /\ thread.after /\ sending.result = "taken" => Cleared(t, sending)
           /\ \A l \in t.lines : l.what = "not sent" => l.text \notin recorded
<1> DEFINE s == Screen
           read == thread.read # Unreadable
           v == IF read THEN thread.read ELSE view
           updated == IF read THEN Updated(s, v, sending) ELSE s
           t == IF IsAfter(thread) THEN Wrote(updated, v, sending) ELSE updated
<1>1. /\ form' = t.form /\ drafts' = t.drafts /\ compose' = t.compose
      /\ flashed' = t.lines
  BY DEF TakeRead, Screen
<1>2. s \in Screens /\ s.lines = {}
  BY ScreenIs DEF Screen
<1>3. v \in Stores
  <2>1. view \in Stores /\ thread.read \in Stores \cup {Nothing, Unreadable}
    BY DEF PanelsInv, PanelsType
  <2>2. thread.read # Nothing
    BY DEF TakeRead
  <2> QED
    BY <2>1, <2>2
<1>4. thread.after => sending \in Writes /\ (sending.key = New) = (sending.what = "open")
  BY DEF PanelsInv, PanelsType, ThreadIsSo
<1> HIDE DEF s, v
<1>5. LeftOf(s, s)
  BY <1>2 DEF LeftOf, Kept, KeptMessage, LossesTold
<1>6. /\ updated \in Screens /\ LeftOf(s, updated)
      /\ \A l \in updated.lines :
           l.what = "not sent" =>
             \E f \in FormsOf(s) :
               f # Nothing /\ f.text = l.text /\ f.key \notin BeingSent(sending)
  <2>1. CASE read
    <3> DEFINE u == Updated(s, v, sending)
    <3>1. updated = u
      BY <2>1
    <3>2. LeftOf(s, u) /\ NotSentOf(s, u, sending)
      BY <1>2, <1>3, UpdatedIs
    <3> HIDE DEF u
    <3>3. u \in Screens
      BY <3>2 DEF LeftOf
    <3> QED
      BY <1>2, <3>1, <3>2, <3>3 DEF NotSentOf
  <2>2. CASE ~read
    BY <1>2, <1>5, <2>2
  <2> QED
    BY <2>1, <2>2
<1>7. \A l \in updated.lines : l.what = "not sent" => l.text \notin recorded
  BY <1>6, FormsRecorded DEF s
<1> HIDE DEF updated
<1>8. CASE IsAfter(thread)
  <2> DEFINE u == Wrote(updated, v, sending)
  <2>1. t = u
    BY <1>8
  <2>2. sending \in Writes /\ (sending.key = New) = (sending.what = "open") /\ thread.after
    BY <1>4, <1>8 DEF IsAfter
  <2>3. /\ LeftOf(updated, u)
        /\ sending.result = "taken" => Cleared(u, sending)
        /\ \A l \in u.lines :
             l.what = "not sent" =>
               \/ l \in updated.lines
               \/ sending.result # "taken" /\ l.text = sending.text
               \/ \E f \in FormsOf(updated) :
                    /\ f # Nothing /\ f.text = l.text
                    /\ sending.result = "taken" => f.key # sending.key
    BY <1>3, <1>6, <2>2, WroteIs
  <2> HIDE DEF u
  <2>4. LeftOf(s, u)
    BY <1>6, <2>3, LeftOfLeft
  <2>5. sending # Nothing /\ sending \in Places /\ RecordedIsSent
    BY <2>2, PlacesAre, ApartAssumption DEF PanelsInv
  <2>6. ASSUME NEW f \in FormsOf(updated), f # Nothing, f.text \in recorded
        PROVE  sending.result = "taken" /\ f.key = sending.key
    <3>1. PICK g \in FormsOf(s) : g # Nothing /\ g.key = f.key /\ g.text = f.text
      <4>1. s.form \in FormsOf(s) /\ \A k \in AllCases : s.drafts[k] \in FormsOf(s)
        BY DEF FormsOf
      <4>2. /\ Kept(s.form, updated.form)
            /\ \A k \in AllCases : Kept(s.drafts[k], updated.drafts[k])
        BY <1>6 DEF LeftOf
      <4>3. CASE f = updated.form
        BY <2>6, <4>1, <4>2, <4>3 DEF Kept
      <4>4. ASSUME NEW k \in AllCases, f = updated.drafts[k]
            PROVE  \E g \in FormsOf(s) : g # Nothing /\ g.key = f.key /\ g.text = f.text
        BY <2>6, <4>1, <4>2, <4>4 DEF Kept
      <4> QED
        BY <2>6, <4>3, <4>4 DEF FormsOf
    <3>2. g \in Places
      BY <3>1, ScreenIs DEF s
    <3> QED
      BY <2>5, <2>6, <3>1, <3>2 DEF RecordedIsSent
  <2>7. sending.text \in recorded => sending.result = "taken"
    BY <2>5 DEF RecordedIsSent
  <2>8. \A l \in u.lines : l.what = "not sent" => l.text \notin recorded
    BY <1>7, <2>3, <2>6, <2>7
  <2>9. u \in Screens
    BY <2>4 DEF LeftOf
  <2> HIDE DEF t
  <2> QED
    BY <1>1, <2>1, <2>3, <2>4, <2>8, <2>9 DEF s
<1>9. CASE ~IsAfter(thread)
  <2>1. t = updated /\ ~thread.after
    BY <1>9 DEF IsAfter
  <2> HIDE DEF t
  <2> QED
    BY <1>1, <1>6, <1>7, <2>1 DEF s
<1> QED
  BY <1>8, <1>9

LEMMA TakeReadKeeps ==
  ASSUME PanelsInv, TakeRead
  PROVE  PanelsInv'
<1>1. /\ UNCHANGED <<store, recorded, quitting, typed>> /\ thread.read # Nothing
      /\ view' = IF thread.read # Unreadable THEN thread.read ELSE view
      /\ sending' = IF thread.after THEN Nothing ELSE sending
      /\ thread' = [asked |-> thread.asked, wrote |-> thread.wrote, read |-> Nothing,
                    after |-> FALSE]
  BY DEF TakeRead, IsAfter
<1>2. PICK t \in Screens :
        /\ LeftOf(Screen, t)
        /\ form' = t.form /\ drafts' = t.drafts /\ compose' = t.compose
        /\ flashed' = t.lines
        /\ thread.after /\ sending.result = "taken" => Cleared(t, sending)
        /\ \A l \in t.lines : l.what = "not sent" => l.text \notin recorded
  BY TakeReadIs
<1>3. /\ PanelsType /\ DraftsAreSo /\ ThreadIsSo /\ TextsAreApart /\ RecordedIsSent
      /\ TakenIsPast
      /\ thread \in [asked : {<<>>, <<"read">>, <<"write">>, <<"read", "write">>},
                     wrote : BOOLEAN, read : Stores \cup {Nothing, Unreadable},
                     after : BOOLEAN]
  BY DEF PanelsInv, PanelsType
<1>4. /\ form' \in AForm /\ drafts' \in [AllCases -> AForm]
      /\ compose' \in Composes \cup {Nothing}
      /\ Kept(form, form') /\ KeptMessage(compose, compose')
      /\ \A k \in AllCases : Kept(drafts[k], drafts'[k])
  BY <1>2 DEF Screens, LeftOf, Screen
<1>5. /\ thread' \in [asked : {<<>>, <<"read">>, <<"write">>, <<"read", "write">>},
                      wrote : BOOLEAN, read : Stores \cup {Nothing, Unreadable},
                      after : BOOLEAN]
      /\ thread'.asked = thread.asked /\ thread'.wrote = thread.wrote
      /\ thread'.read = Nothing /\ thread'.after = FALSE
  BY <1>1, <1>3
<1>6. view' \in Stores /\ sending' \in Writes \cup {Nothing}
  BY <1>1, <1>3 DEF PanelsType
<1>7. PanelsType'
  BY <1>1, <1>3, <1>4, <1>5, <1>6 DEF PanelsType, AForm
<1>8. DraftsAreSo'
  <2>1. \A k \in AllCases :
          drafts'[k] # Nothing => drafts'[k].key = k /\ drafts'[k].act = "answer"
    BY <1>3, <1>4 DEF DraftsAreSo, Kept
  <2>2. ASSUME form' # Nothing, form'.act = "answer"
        PROVE  drafts'[form'.key] = Nothing
    <3>1. form # Nothing /\ form.act = "answer" /\ form.key = form'.key
      BY <1>4, <2>2 DEF Kept
    <3>2. form'.key \in AllCases
      BY <1>4, <2>2 DEF AForm, Forms
    <3> QED
      BY <1>3, <1>4, <3>1, <3>2 DEF DraftsAreSo, Kept
  <2> QED
    BY <2>1, <2>2 DEF DraftsAreSo
<1>9. sending' # Nothing => sending' = sending /\ ~thread.after
  BY <1>1
<1>10. ThreadIsSo'
  <2>1. CASE thread.after
    <3>1. sending' = Nothing
      BY <1>1, <2>1
    <3>2. sending # Nothing /\ sending.result # "out"
      BY <1>3, <2>1 DEF ThreadIsSo
    <3>3. thread.asked = <<>> /\ ~thread.wrote
      BY <1>3, <2>1, <3>2 DEF ThreadIsSo
    <3> QED
      BY <1>5, <3>1, <3>3 DEF ThreadIsSo
  <2>2. CASE ~thread.after
    BY <1>1, <1>3, <1>5, <2>2 DEF ThreadIsSo
  <2> QED
    BY <2>1, <2>2
<1>11. TakenIsPast'
  BY <1>1, <1>3, <1>5, <1>9 DEF TakenIsPast
<1>12. NotSentIsSo'
  BY <1>1, <1>2 DEF NotSentIsSo
<1>13. \A f \in {form', compose'} \cup {drafts'[k] : k \in AllCases} :
         f # Nothing /\ f.text # 0 => InAPlace(f.key, f.text)
  BY <1>4, TheirPlaces DEF Kept, KeptMessage
<1>14. TextsAreApart' /\ RecordedIsSent'
  <2>1. CASE ~thread.after
    <3>1. sending' = sending
      BY <1>1, <2>1
    <3>2. sending # Nothing => InAPlace(sending.key, sending.text)
      BY PlacesAre DEF InAPlace
    <3>3. \A f \in Places' : f # Nothing /\ f.text # 0 => InAPlace(f.key, f.text)
      BY <1>13, <3>1, <3>2 DEF Places
    <3> QED
      BY <1>1, <1>3, <1>7, <3>1, <3>3, TextsStay
  <2>2. CASE thread.after
    <3>1. sending' = Nothing
      BY <1>1, <2>2
    <3>2. \A f \in Places' : f # Nothing /\ f.text # 0 => InAPlace(f.key, f.text)
      BY <1>13, <3>1 DEF Places
    <3>3. typed \in Nat /\ \A s \in recorded : s # 0
      BY <1>3 DEF PanelsType, TextsAreApart
    <3>4. \A f \in Places' : f # Nothing => f.text \in Nat
      BY <1>7 DEF PanelsType, Places, Forms, Composes, Writes
    <3>5. \A f \in Places' : f # Nothing => f.text <= typed'
      BY <1>1, <1>3, <3>2, <3>3, <3>4 DEF InAPlace, TextsAreApart
    <3>6. \A f, g \in Places' :
            f # Nothing /\ g # Nothing /\ f.text = g.text /\ f.text # 0 => f.key = g.key
      BY <1>3, <3>2 DEF InAPlace, TextsAreApart
    <3>7. TextsAreApart'
      BY <1>1, <1>3, <3>5, <3>6 DEF TextsAreApart
    <3>8. ASSUME NEW f \in Places', f # Nothing, f.text \in recorded
          PROVE  FALSE
      <4>1. sending.result = "taken" /\ sending.key = f.key
        BY <1>3, <3>2, <3>3, <3>8 DEF InAPlace, RecordedIsSent
      <4>2. Cleared(t, sending)
        BY <1>2, <2>2, <4>1
      <4>3. f \in FormsOf(t) \/ f = t.compose
        BY <1>2, <3>1, <3>8 DEF Places, FormsOf
      <4> QED
        BY <3>8, <4>1, <4>2, <4>3 DEF Cleared
    <3>9. RecordedIsSent'
      BY <1>1, <3>1, <3>8 DEF RecordedIsSent
    <3> QED
      BY <3>7, <3>9
  <2> QED
    BY <2>1, <2>2
<1> QED
  BY <1>7, <1>8, <1>10, <1>11, <1>12, <1>14 DEF PanelsInv

-----------------------------------------------------------------------------
(* The theorems *)

LEMMA PanelInitIsSo ==
  PanelInit => PanelsInv
<1> SUFFICES ASSUME PanelInit PROVE PanelsInv
  OBVIOUS
<1>1. store \in Stores
  <2>1. PICK here \in SUBSET AllCases :
          store = [k \in AllCases |-> IF k \in here THEN First(k) ELSE Gone]
    BY DEF PanelInit
  <2>2. \A k \in AllCases : /\ First(k) \in [state : RowStates, rev : Nat, mark : Nat]
                            /\ Gone \in [state : RowStates, rev : Nat, mark : Nat]
    BY DEF First, Gone, RowStates
  <2> QED
    BY <2>1, <2>2 DEF Stores
<1>2. /\ view = store /\ recorded = {} /\ form = Nothing /\ compose = Nothing
      /\ drafts = [k \in AllCases |-> Nothing] /\ sending = Nothing /\ thread = Idle
      /\ quitting = "no" /\ typed = 0 /\ flashed = {}
  BY DEF PanelInit
<1>3. PanelsType
  BY <1>1, <1>2 DEF PanelsType, Idle
<1>4. \A f \in Places : f = Nothing
  BY <1>2 DEF Places
<1> QED
  BY <1>2, <1>3, <1>4
  DEF PanelsInv, DraftsAreSo, ThreadIsSo, TextsAreApart, RecordedIsSent, TakenIsPast,
      NotSentIsSo, Idle

LEMMA PanelNextKeeps ==
  ASSUME PanelsInv, [PanelNext]_panelVars
  PROVE  PanelsInv'
<1>1. CASE UNCHANGED panelVars
  <2>1. /\ UNCHANGED <<store, recorded, view, form, drafts, compose>>
        /\ UNCHANGED <<sending, thread, quitting, typed, flashed>>
    BY <1>1 DEF panelVars
  <2>2. PanelsType' /\ DraftsAreSo'
    BY <2>1 DEF PanelsInv, PanelsType, DraftsAreSo
  <2>3. ThreadIsSo' /\ TakenIsPast' /\ NotSentIsSo'
    BY <2>1 DEF PanelsInv, ThreadIsSo, TakenIsPast, NotSentIsSo
  <2>4. Places' = Places
    BY <2>1 DEF Places
  <2>5. TextsAreApart' /\ RecordedIsSent'
    BY <2>1, <2>4 DEF PanelsInv, TextsAreApart, RecordedIsSent
  <2> QED
    BY <2>2, <2>3, <2>5 DEF PanelsInv
<1>2. CASE TypeInForm \/ LeaveForm \/ SendForm
  BY <1>2, TypeInFormKeeps, LeaveFormKeeps, SendFormKeeps
<1>3. CASE StartMessage(NewMessage)
  <2>1. NewMessage \in Composes /\ NewMessage.text = 0
    BY DEF NewMessage, Composes
  <2> QED
    BY <1>3, <2>1, StartMessageKeeps
<1>4. CASE TypeInMessage \/ LeaveMessage \/ SendMessage
  BY <1>4, TypeInMessageKeeps, LeaveMessageKeeps, SendMessageKeeps
<1>5. CASE AskRead \/ ThreadWrites \/ ThreadReads \/ TakeRead \/ EscOnList \/ Land
  BY <1>5, AskReadKeeps, ThreadWritesKeeps, ThreadReadsKeeps, TakeReadKeeps,
     QuittingKeeps, LandKeeps
<1>6. ASSUME NEW k \in AllCases, AnotherWrites(k) \/ Resume(k)
      PROVE  PanelsInv'
  BY <1>6, AnotherWritesKeeps, ResumeKeeps
<1>7. ASSUME NEW k \in AllCases, StartEdit(k)
      PROVE  PanelsInv'
  <2>1. view[k].rev \in Nat
    BY DEF PanelsInv, PanelsType, Stores
  <2>2. Edit(k, view[k]) \in Composes /\ Edit(k, view[k]).text = 0
    BY <2>1 DEF Edit, Composes
  <2> QED
    BY <1>7, <2>2, StartMessageKeeps DEF StartEdit
<1>8. ASSUME NEW k \in AllCases, NEW act \in Acts, StartForm(k, act)
      PROVE  PanelsInv'
  BY <1>8, StartFormKeeps
<1>9. ASSUME NEW what \in {"drop", "discard"}, AskInForm(what)
      PROVE  PanelsInv'
  BY <1>9, AskInFormKeeps
<1>10. ASSUME NEW yes \in BOOLEAN, AnswerForm(yes) \/ AnswerMessage(yes) \/ AnswerQuit(yes)
       PROVE  PanelsInv'
  BY <1>10, AnswerFormKeeps, LeaveMessageKeeps, QuittingKeeps
<1>11. ASSUME NEW ctrl \in BOOLEAN, QuitKey(ctrl)
       PROVE  PanelsInv'
  BY <1>11, QuittingKeeps
<1> QED
  BY <1>1, <1>2, <1>3, <1>4, <1>5, <1>6, <1>7, <1>8, <1>9, <1>10, <1>11 DEF PanelNext

(* The invariant of the terminal inbox: its drafts, its thread, where a    *)
(* text is and what of it is recorded.                                     *)
THEOREM PanelsInvariant == PanelSpec => []PanelsInv
<1>1. PanelsInv /\ [PanelNext]_panelVars => PanelsInv'
  BY PanelNextKeeps
<1> QED
  BY PanelInitIsSo, <1>1, PTL DEF PanelSpec

(* Nothing that is in the store is said not to have been sent: for any     *)
(* cases, texts, reads and writes of others.                               *)
THEOREM NotSentIsSaidTruly == PanelSpec => []NotSentIsSo
<1>1. PanelsInv => NotSentIsSo
  BY DEF PanelsInv
<1> QED
  BY PanelsInvariant, <1>1, PTL

-----------------------------------------------------------------------------
(* How a write went is told with the case as it left it *)

ToldStep ==
  sending # Nothing /\ sending' = Nothing /\ sending.key # New
    /\ sending.result = "taken" /\ thread.read # Unreadable =>
       view'[sending.key].state = "gone" \/ view'[sending.key].rev > sending.rev

LEMMA ToldByARead ==
  ASSUME PanelsInv, [PanelNext]_panelVars, sending # Nothing, sending' = Nothing
  PROVE  TakeRead /\ thread.after
<1>1. \A k, what, rev, text : Sends(k, what, rev, text) => sending' = sending
  BY DEF Sends
<1>2. ~UNCHANGED sending
  OBVIOUS
<1>3. ~UNCHANGED panelVars
  BY <1>2 DEF panelVars
<1>4. ~(TypeInForm \/ LeaveForm \/ TypeInMessage \/ LeaveMessage \/ AskRead \/ ThreadReads)
  BY <1>2 DEF TypeInForm, LeaveForm, TypeInMessage, LeaveMessage, AskRead, ThreadReads
<1>5. ~(EscOnList \/ Land)
  BY <1>2 DEF EscOnList, Land, QuitOnly
<1>6. ~(SendForm \/ SendMessage)
  BY <1>1, <1>2 DEF SendForm, SendMessage
<1>7. \A c : ~StartMessage(c)
  BY <1>2 DEF StartMessage
<1>8. \A k \in AllCases : ~(AnotherWrites(k) \/ Resume(k) \/ StartEdit(k))
  BY <1>1, <1>2, <1>7 DEF AnotherWrites, Resume, StartEdit
<1>9. \A k \in AllCases, act \in Acts : ~StartForm(k, act)
  BY <1>2 DEF StartForm
<1>10. \A what \in {"drop", "discard"} : ~AskInForm(what)
  BY <1>2 DEF AskInForm
<1>11. \A yes \in BOOLEAN : ~(AnswerForm(yes) \/ AnswerMessage(yes) \/ AnswerQuit(yes))
  BY <1>1, <1>2 DEF AnswerForm, AnswerMessage, AnswerQuit, QuitOnly
<1>12. \A ctrl \in BOOLEAN : ~QuitKey(ctrl)
  BY <1>2 DEF QuitKey, QuitOnly
<1>13. ~ThreadWrites
  <2>1. SUFFICES ASSUME ThreadWrites PROVE FALSE
    OBVIOUS
  <2>2. PICK result \in Results(sending) : sending' = [sending EXCEPT !.result = result]
    BY <2>1 DEF ThreadWrites
  <2>3. result \in {"taken", "stale", "refused"} /\ sending \in Writes
    BY <2>1, <2>2, WritesOut DEF Results
  <2>4. sending' \in Writes
    BY <2>2, <2>3 DEF Writes
  <2> QED
    BY <2>4, ApartAssumption
<1>14. TakeRead
  BY <1>3, <1>4, <1>5, <1>6, <1>7, <1>8, <1>9, <1>10, <1>11, <1>12, <1>13 DEF PanelNext
<1>15. thread.after
  BY <1>14 DEF TakeRead, IsAfter
<1> QED
  BY <1>14, <1>15

(* With the read after a write that was taken, the case is shown past the  *)
(* revision it was written at: for any cases, texts and writes of others.  *)
THEOREM WritesAreToldAsShown == PanelSpec => ToldAsShown
<1>1. PanelsInv /\ [PanelNext]_panelVars => [ToldStep]_panelVars
  <2> SUFFICES ASSUME PanelsInv, [PanelNext]_panelVars,
                      sending # Nothing, sending' = Nothing, sending.key # New,
                      sending.result = "taken", thread.read # Unreadable
               PROVE  \/ view'[sending.key].state = "gone"
                      \/ view'[sending.key].rev > sending.rev
    BY DEF ToldStep
  <2>1. TakeRead /\ thread.after
    BY ToldByARead
  <2>2. view' = thread.read
    BY <2>1 DEF TakeRead
  <2>3. Past(thread.read[sending.key], sending)
    BY <2>1 DEF PanelsInv, TakenIsPast
  <2> QED
    BY <2>2, <2>3 DEF Past
<1>2. PanelSpec => [][ToldStep]_panelVars
  BY PanelsInvariant, <1>1, PTL DEF PanelSpec
<1> QED
  BY <1>2 DEF ToldAsShown, ToldStep

-----------------------------------------------------------------------------
(* What is typed is kept *)

(* What is shown with these forms, drafts and message. *)
ShownOf(fm, ds, c) ==
  {[key |-> f.key, act |-> f.act, text |-> f.text] :
     f \in {g \in {fm} \cup {ds[k] : k \in AllCases} : Typed(g)}}
    \cup {[key |-> d.key, act |-> "message", text |-> d.text] :
            d \in {e \in {c} : Typed(e)}}

LEMMA OnScreenIs ==
  ASSUME NEW fm, NEW ds, NEW c
  PROVE  LET shown == ShownOf(fm, ds, c)
         IN /\ \A h \in shown :
                 \/ \E f \in {fm} \cup {ds[k] : k \in AllCases} :
                      Typed(f) /\ h.key = f.key /\ h.act = f.act /\ h.text = f.text
                 \/ Typed(c) /\ h.key = c.key /\ h.act = "message" /\ h.text = c.text
            /\ \A f \in {fm} \cup {ds[k] : k \in AllCases} :
                 Typed(f) =>
                   \E h \in shown : h.key = f.key /\ h.act = f.act /\ h.text = f.text
            /\ Typed(c) =>
                 \E h \in shown : h.key = c.key /\ h.act = "message" /\ h.text = c.text
<1> DEFINE forms == {g \in {fm} \cup {ds[k] : k \in AllCases} : Typed(g)}
           held == {e \in {c} : Typed(e)}
           A(f) == [key |-> f.key, act |-> f.act, text |-> f.text]
           B(d) == [key |-> d.key, act |-> "message", text |-> d.text]
           shown == {A(f) : f \in forms} \cup {B(d) : d \in held}
<1>1. \A f : A(f).key = f.key /\ A(f).act = f.act /\ A(f).text = f.text
  OBVIOUS
<1>2. \A d : B(d).key = d.key /\ B(d).act = "message" /\ B(d).text = d.text
  OBVIOUS
<1>3. \A h \in shown : (\E f \in forms : h = A(f)) \/ (\E d \in held : h = B(d))
  OBVIOUS
<1>4. (\A f \in forms : A(f) \in shown) /\ (\A d \in held : B(d) \in shown)
  OBVIOUS
<1>5. /\ \A f : f \in forms <=> f \in {fm} \cup {ds[k] : k \in AllCases} /\ Typed(f)
      /\ \A d : d \in held <=> d = c /\ Typed(d)
  OBVIOUS
<1> HIDE DEF A, B, forms, held, shown
<1>6. \A h \in shown :
        \/ \E f \in {fm} \cup {ds[k] : k \in AllCases} :
             Typed(f) /\ h.key = f.key /\ h.act = f.act /\ h.text = f.text
        \/ Typed(c) /\ h.key = c.key /\ h.act = "message" /\ h.text = c.text
  BY <1>1, <1>2, <1>3, <1>5
<1>7. \A f \in {fm} \cup {ds[k] : k \in AllCases} :
        Typed(f) => \E h \in shown : h.key = f.key /\ h.act = f.act /\ h.text = f.text
  BY <1>1, <1>4, <1>5
<1>8. Typed(c) => \E h \in shown : h.key = c.key /\ h.act = "message" /\ h.text = c.text
  BY <1>2, <1>4, <1>5
<1> QED
  BY <1>6, <1>7, <1>8 DEF A, B, forms, held, shown, ShownOf

(* A text of the case k and act may leave the screen in this step: a yes   *)
(* throws it away, or a line is about it.                                  *)
MayLeave(k, act) ==
  \/ form # Nothing /\ form.asks = "discard" /\ <<k, act>> = <<form.key, form.act>>
  \/ compose # Nothing /\ compose.asks /\ act = "message"
  \/ \E l \in flashed' : l.what # "wait" /\ (l.key = k \/ (l.key = New /\ act = "message"))

LeavesTold ==
  \A h \in OnScreen :
    Leaves(h) => ThrownAway(h) \/ \E l \in flashed' : l.what # "wait" /\ About(l, h)

(* What was typed is there after the step, or more is, or it may leave.    *)
LEMMA KeptOnScreen ==
  ASSUME \A f \in {form} \cup {drafts[k] : k \in AllCases} :
           Typed(f) =>
             \/ MayLeave(f.key, f.act)
             \/ \E g \in {form'} \cup {drafts'[k] : k \in AllCases} :
                  Typed(g) /\ g.key = f.key /\ g.act = f.act /\ g.text >= f.text,
         Typed(compose) =>
           \/ MayLeave(compose.key, "message")
           \/ Typed(compose') /\ compose'.key = compose.key /\ compose'.text >= compose.text
  PROVE  LeavesTold
<1> SUFFICES ASSUME NEW h \in OnScreen, Leaves(h)
             PROVE  ThrownAway(h) \/ \E l \in flashed' : l.what # "wait" /\ About(l, h)
  BY DEF LeavesTold
<1>1. OnScreen = ShownOf(form, drafts, compose) /\ OnScreen' = ShownOf(form', drafts', compose')
  BY DEF OnScreen, ShownOf, Typed
<1>2. \/ \E f \in {form} \cup {drafts[k] : k \in AllCases} :
           Typed(f) /\ h.key = f.key /\ h.act = f.act /\ h.text = f.text
      \/ Typed(compose) /\ h.key = compose.key /\ h.act = "message" /\ h.text = compose.text
  BY <1>1, OnScreenIs
<1>3. /\ \A f \in {form'} \cup {drafts'[k] : k \in AllCases} :
           Typed(f) =>
             \E e \in OnScreen' : e.key = f.key /\ e.act = f.act /\ e.text = f.text
      /\ Typed(compose') =>
           \E e \in OnScreen' : e.key = compose'.key /\ e.act = "message" /\ e.text = compose'.text
  <2>1. ASSUME NEW fm, NEW ds, NEW c
        PROVE  /\ \A f \in {fm} \cup {ds[k] : k \in AllCases} :
                    Typed(f) =>
                      \E e \in ShownOf(fm, ds, c) :
                        e.key = f.key /\ e.act = f.act /\ e.text = f.text
               /\ Typed(c) =>
                    \E e \in ShownOf(fm, ds, c) :
                      e.key = c.key /\ e.act = "message" /\ e.text = c.text
    BY OnScreenIs
  <2> QED
    BY <1>1, <2>1
<1>4. MayLeave(h.key, h.act)
  <2>1. CASE \E f \in {form} \cup {drafts[k] : k \in AllCases} :
               Typed(f) /\ h.key = f.key /\ h.act = f.act /\ h.text = f.text
    <3>1. PICK f \in {form} \cup {drafts[k] : k \in AllCases} :
            Typed(f) /\ h.key = f.key /\ h.act = f.act /\ h.text = f.text
      BY <2>1
    <3>2. SUFFICES ASSUME NEW g \in {form'} \cup {drafts'[k] : k \in AllCases},
                          Typed(g), g.key = f.key, g.act = f.act, g.text >= f.text
                   PROVE  FALSE
      BY <3>1
    <3>3. PICK e \in OnScreen' : e.key = g.key /\ e.act = g.act /\ e.text = g.text
      BY <1>3, <3>2
    <3> QED
      BY <3>1, <3>2, <3>3 DEF Leaves
  <2>2. CASE Typed(compose) /\ h.key = compose.key /\ h.act = "message"
               /\ h.text = compose.text
    <3>1. SUFFICES ASSUME Typed(compose'), compose'.key = compose.key,
                          compose'.text >= compose.text
                   PROVE  FALSE
      BY <2>2
    <3>2. PICK e \in OnScreen' :
            e.key = compose'.key /\ e.act = "message" /\ e.text = compose'.text
      BY <1>3, <3>1
    <3> QED
      BY <2>2, <3>1, <3>2 DEF Leaves
  <2> QED
    BY <1>2, <2>1, <2>2
<1> QED
  BY <1>4 DEF MayLeave, ThrownAway, About

(* What was typed is where it was. *)
There(f) ==
  \E g \in {form'} \cup {drafts'[k] : k \in AllCases} :
    Typed(g) /\ g.key = f.key /\ g.act = f.act /\ g.text >= f.text

LEMMA SameIsThere ==
  ASSUME PanelsType, NEW f \in AForm, Typed(f),
         f = form' \/ \E k \in AllCases : f = drafts'[k]
  PROVE  There(f)
<1>1. f.text \in Nat
  BY DEF AForm, Forms, Typed
<1>2. f.text >= f.text
  BY <1>1
<1> QED
  BY <1>2 DEF There

LEMMA MessageStays ==
  ASSUME PanelsType, UNCHANGED compose, Typed(compose)
  PROVE  Typed(compose') /\ compose'.key = compose.key /\ compose'.text >= compose.text
<1>1. compose.text \in Nat
  BY DEF Typed, PanelsType, Composes
<1> QED
  BY <1>1 DEF Typed

LEMMA NothingLeaves ==
  ASSUME PanelsType, UNCHANGED <<form, drafts, compose>>
  PROVE  LeavesTold
<1>1. \A f \in {form} \cup {drafts[k] : k \in AllCases} : Typed(f) => There(f)
  BY FormsType, SameIsThere
<1> QED
  BY <1>1, MessageStays, KeptOnScreen DEF There

LEMMA FormMovesTold ==
  ASSUME PanelsInv,
         \/ TypeInForm \/ LeaveForm \/ SendForm
         \/ \E what \in {"drop", "discard"} : AskInForm(what)
         \/ \E yes \in BOOLEAN : AnswerForm(yes)
  PROVE  LeavesTold
<1>1. PanelsType /\ DraftsAreSo /\ form # Nothing /\ UNCHANGED compose
  BY DEF PanelsInv, TypeInForm, LeaveForm, SendForm, AskInForm, AnswerForm
<1>2. /\ form \in Forms /\ drafts \in [AllCases -> AForm] /\ typed \in Nat
      /\ form.text \in Nat /\ \A f \in Forms : f # Nothing
  BY <1>1, FormsType DEF AForm, Forms, PanelsType
<1>3. CASE LeaveForm
  <2>1. form' = Nothing /\ drafts' = Left(form, drafts) /\ (form.act # "answer" => form.text = 0)
    BY <1>3 DEF LeaveForm
  <2>2. form.key \in AllCases
    BY <1>2 DEF Forms
  <2>3. Typed(form) => drafts'[form.key] = form
    BY <1>1, <2>1, LeftIs DEF Typed
  <2>4. Typed(form) => There(form)
    BY <1>1, <1>2, <2>2, <2>3, SameIsThere DEF AForm
  <2>5. \A k \in AllCases : drafts[k] # Nothing => drafts'[k] = drafts[k]
    BY <1>1, <2>1, LeftIs
  <2>6. \A k \in AllCases : Typed(drafts[k]) => There(drafts[k])
    BY <1>1, <1>2, <2>5, SameIsThere DEF Typed
  <2> QED
    BY <1>1, <2>4, <2>6, MessageStays, KeptOnScreen DEF There
<1>4. CASE ~LeaveForm
  <2>1. UNCHANGED drafts
    BY <1>4 DEF TypeInForm, SendForm, AskInForm, AnswerForm
  <2>2. \A k \in AllCases : Typed(drafts[k]) => There(drafts[k])
    BY <1>1, <1>2, <2>1, SameIsThere
  <2>3. \/ form' = form
        \/ \E asks \in {"nothing", "drop", "discard", "withdraw"} :
             form' = [form EXCEPT !.asks = asks]
        \/ form' = [form EXCEPT !.text = typed + 1]
        \/ form' = Nothing /\ form.asks = "discard"
    BY <1>4 DEF TypeInForm, SendForm, AskInForm, AnswerForm
  <2>4. Typed(form) => MayLeave(form.key, form.act) \/ There(form)
    <3> SUFFICES ASSUME Typed(form) PROVE MayLeave(form.key, form.act) \/ There(form)
      OBVIOUS
    <3>1. CASE form' = form
      BY <1>1, <1>2, <3>1, SameIsThere DEF AForm
    <3>2. ASSUME NEW asks \in {"nothing", "drop", "discard", "withdraw"},
                 form' = [form EXCEPT !.asks = asks]
          PROVE  There(form)
      <4>1. Kept(form, form') /\ form' # Nothing
        BY <1>2, <3>2, AsksIs DEF Forms
      <4>2. Typed(form') /\ form'.text >= form.text
        BY <1>2, <4>1 DEF Typed, Kept
      <4> QED
        BY <4>1, <4>2 DEF There, Kept
    <3>3. CASE form' = [form EXCEPT !.text = typed + 1]
      <4>1. form.text <= typed
        BY <1>1, PlacesAre DEF PanelsInv, TextsAreApart
      <4>2. /\ form' \in Forms /\ form'.key = form.key /\ form'.act = form.act
            /\ form'.text = typed + 1
        BY <1>2, <3>3 DEF Forms
      <4>3. Typed(form') /\ form'.text >= form.text
        BY <1>2, <4>1, <4>2 DEF Typed
      <4> QED
        BY <4>2, <4>3 DEF There
    <3>4. CASE form' = Nothing /\ form.asks = "discard"
      BY <1>1, <3>4 DEF MayLeave
    <3> QED
      BY <2>3, <3>1, <3>2, <3>3, <3>4
  <2> QED
    BY <1>1, <2>2, <2>4, MessageStays, KeptOnScreen DEF There
<1> QED
  BY <1>3, <1>4

LEMMA StartFormTold ==
  ASSUME PanelsInv, NEW k \in AllCases, NEW act \in Acts, StartForm(k, act)
  PROVE  LeavesTold
<1> DEFINE ds == Left(form, drafts)
<1>1. PanelsType /\ DraftsAreSo /\ UNCHANGED compose
  BY DEF PanelsInv, StartForm
<1>2. form # Nothing => form.act = "answer"
  BY DEF StartForm, Modal
<1>3. /\ ds \in [AllCases -> AForm]
      /\ \A j \in AllCases : drafts[j] # Nothing => ds[j] = drafts[j]
      /\ \A j \in AllCases : ds[j] # Nothing => ds[j].key = j
      /\ form # Nothing /\ form.act = "answer" /\ form.text # 0 => ds[form.key] = form
  BY <1>1, LeftIs
<1>4. \/ form' = ds[k] /\ drafts' = [ds EXCEPT ![k] = Nothing]
      \/ drafts' = ds
  BY DEF StartForm
<1> HIDE DEF ds
<1>5. \A j \in AllCases : ds[j] = form' \/ ds[j] = drafts'[j]
  BY <1>3, <1>4
<1>6. \A j \in AllCases : Typed(ds[j]) => There(ds[j])
  BY <1>1, <1>3, <1>5, SameIsThere
<1>7. form \in AForm /\ drafts \in [AllCases -> AForm]
  BY <1>1, FormsType
<1>8. Typed(form) => There(form)
  <2>1. Typed(form) => form.key \in AllCases /\ ds[form.key] = form
    BY <1>2, <1>3, <1>7 DEF Typed, AForm, Forms
  <2> QED
    BY <1>6, <2>1
<1>9. \A j \in AllCases : Typed(drafts[j]) => There(drafts[j])
  BY <1>3, <1>6 DEF Typed
<1> QED
  BY <1>1, <1>8, <1>9, MessageStays, KeptOnScreen DEF There

LEMMA StartMessageTold ==
  ASSUME PanelsInv, NEW c, StartMessage(c)
  PROVE  LeavesTold
<1>1. PanelsType /\ DraftsAreSo /\ compose = Nothing /\ (form # Nothing => form.act = "answer")
  BY DEF PanelsInv, StartMessage, Modal
<1>2. drafts' = Left(form, drafts)
  BY DEF StartMessage
<1>3. form \in AForm /\ drafts \in [AllCases -> AForm]
  BY <1>1, FormsType
<1>4. Typed(form) => There(form)
  <2>1. Typed(form) => form.key \in AllCases /\ drafts'[form.key] = form
    BY <1>1, <1>2, <1>3, LeftIs DEF Typed, AForm, Forms
  <2> QED
    BY <1>1, <1>3, <2>1, SameIsThere
<1>5. \A k \in AllCases : drafts[k] # Nothing => drafts'[k] = drafts[k]
  BY <1>1, <1>2, LeftIs
<1>6. \A k \in AllCases : Typed(drafts[k]) => There(drafts[k])
  BY <1>1, <1>3, <1>5, SameIsThere DEF Typed
<1> QED
  BY <1>1, <1>4, <1>6, KeptOnScreen DEF There, Typed

LEMMA MessageMovesTold ==
  ASSUME PanelsInv,
         TypeInMessage \/ LeaveMessage \/ (\E yes \in BOOLEAN : AnswerMessage(yes))
  PROVE  LeavesTold
<1>1. /\ PanelsType /\ compose # Nothing /\ compose \in Composes /\ typed \in Nat
      /\ UNCHANGED <<form, drafts>>
  BY DEF PanelsInv, PanelsType, TypeInMessage, LeaveMessage, AnswerMessage
<1>2. compose.text \in Nat /\ \A c \in Composes : c # Nothing
  BY <1>1, FormsType DEF Composes
<1>3. \/ compose' = [compose EXCEPT !.text = typed + 1]
      \/ compose.text = 0
      \/ \E asks \in BOOLEAN : compose' = [compose EXCEPT !.asks = asks]
      \/ compose.asks
  BY DEF TypeInMessage, LeaveMessage, AnswerMessage
<1>4. \A f \in {form} \cup {drafts[k] : k \in AllCases} : Typed(f) => There(f)
  BY <1>1, FormsType, SameIsThere
<1>5. Typed(compose) =>
        \/ MayLeave(compose.key, "message")
        \/ Typed(compose') /\ compose'.key = compose.key /\ compose'.text >= compose.text
  <2>1. CASE compose' = [compose EXCEPT !.text = typed + 1]
    <3>1. compose.text <= typed
      BY <1>1, PlacesAre DEF PanelsInv, TextsAreApart
    <3>2. compose' \in Composes /\ compose'.key = compose.key /\ compose'.text = typed + 1
      BY <1>1, <2>1 DEF Composes
    <3> QED
      BY <1>1, <1>2, <3>1, <3>2 DEF Typed
  <2>2. CASE compose.text = 0
    BY <2>2 DEF Typed
  <2>3. ASSUME NEW asks \in BOOLEAN, compose' = [compose EXCEPT !.asks = asks]
        PROVE  Typed(compose) =>
                 Typed(compose') /\ compose'.key = compose.key /\ compose'.text >= compose.text
    <3>1. compose' \in Composes /\ compose'.key = compose.key /\ compose'.text = compose.text
      BY <1>1, <2>3 DEF Composes
    <3> QED
      BY <1>2, <3>1 DEF Typed
  <2>4. CASE compose.asks
    BY <1>1, <2>4 DEF MayLeave
  <2> QED
    BY <1>3, <2>1, <2>2, <2>3, <2>4
<1> QED
  BY <1>4, <1>5, KeptOnScreen DEF There

LEMMA TakeReadTold ==
  ASSUME PanelsInv, TakeRead
  PROVE  LeavesTold
<1>1. PICK t \in Screens :
        /\ LeftOf(Screen, t)
        /\ form' = t.form /\ drafts' = t.drafts /\ compose' = t.compose
        /\ flashed' = t.lines
  BY TakeReadIs
<1>2. /\ Screen.form = form /\ Screen.drafts = drafts /\ Screen.compose = compose
      /\ form \in AForm /\ drafts \in [AllCases -> AForm]
      /\ compose \in Composes \cup {Nothing}
  BY FormsType DEF Screen, PanelsInv
<1>3. /\ Kept(form, form') /\ (form # Nothing /\ form' = Nothing => Says(flashed', form.key))
      /\ \A k \in AllCases :
           /\ Kept(drafts[k], drafts'[k])
           /\ drafts[k] # Nothing /\ drafts'[k] = Nothing => Says(flashed', drafts[k].key)
      /\ compose # Nothing =>
           \/ /\ compose' # Nothing
              /\ compose'.key = compose.key /\ compose'.text = compose.text
           \/ Says(flashed', compose.key) \/ Says(flashed', New)
  BY <1>1, <1>2 DEF LeftOf, LossesTold
<1>4. \A f \in AForm : Typed(f) => f.text \in Nat
  BY DEF AForm, Forms, Typed
<1>5. ASSUME NEW f \in AForm, NEW g \in {form'} \cup {drafts'[k] : k \in AllCases},
             Typed(f), Kept(f, g), g = Nothing => Says(flashed', f.key)
      PROVE  MayLeave(f.key, f.act) \/ There(f)
  <2>1. CASE g = Nothing
    BY <1>5, <2>1 DEF Says, MayLeave
  <2>2. CASE g # Nothing
    <3>1. g.key = f.key /\ g.act = f.act /\ g.text = f.text
      BY <1>5, <2>2 DEF Kept
    <3>2. Typed(g) /\ g.text >= f.text
      BY <1>4, <1>5, <2>2, <3>1 DEF Typed
    <3> QED
      BY <1>5, <3>1, <3>2 DEF There
  <2> QED
    BY <2>1, <2>2
<1>6. Typed(form) => MayLeave(form.key, form.act) \/ There(form)
  BY <1>2, <1>3, <1>5 DEF Typed
<1>7. ASSUME NEW k \in AllCases, Typed(drafts[k])
      PROVE  MayLeave(drafts[k].key, drafts[k].act) \/ There(drafts[k])
  <2>1. drafts[k] \in AForm /\ drafts'[k] \in {form'} \cup {drafts'[j] : j \in AllCases}
    BY <1>2
  <2> QED
    BY <1>3, <1>5, <1>7, <2>1 DEF Typed
<1>8. Typed(compose) =>
        \/ MayLeave(compose.key, "message")
        \/ Typed(compose') /\ compose'.key = compose.key /\ compose'.text >= compose.text
  <2> SUFFICES ASSUME Typed(compose)
               PROVE  \/ MayLeave(compose.key, "message")
                      \/ /\ Typed(compose') /\ compose'.key = compose.key
                         /\ compose'.text >= compose.text
    OBVIOUS
  <2>1. compose.text \in Nat
    BY <1>2 DEF Typed, Composes
  <2>2. CASE compose' # Nothing /\ compose'.key = compose.key /\ compose'.text = compose.text
    BY <2>1, <2>2 DEF Typed
  <2>3. CASE Says(flashed', compose.key) \/ Says(flashed', New)
    BY <2>3 DEF Says, MayLeave
  <2> QED
    BY <1>3, <2>2, <2>3 DEF Typed
<1> QED
  BY <1>6, <1>7, <1>8, KeptOnScreen DEF There

(* A write the human quit from is recorded, or given back. *)
LEMMA LandTold ==
  ASSUME PanelsInv, Land
  PROVE  sending.text \in recorded \cup {0} \/ \E l \in flashed' : l.what = "given back"
<1>1. CASE flashed' = {Line("given back", sending.key, sending.text)}
  BY <1>1 DEF Line
<1>2. CASE thread.after /\ sending.result = "taken"
  BY <1>2 DEF PanelsInv, ThreadIsSo, RecordedIsSent
<1> QED
  BY <1>1, <1>2 DEF Land

TypedStep ==
  /\ \A h \in OnScreen :
       Leaves(h) => ThrownAway(h) \/ \E l \in flashed' : l.what # "wait" /\ About(l, h)
  /\ quitting = "landing" /\ quitting' = "over" =>
       sending.text \in recorded \cup {0} \/ \E l \in flashed' : l.what = "given back"

LEMMA StepTold ==
  ASSUME PanelsInv, PanelNext
  PROVE  TypedStep
<1>1. PanelsType
  BY DEF PanelsInv
<1>2. CASE TypeInForm \/ LeaveForm \/ SendForm
             \/ (\E what \in {"drop", "discard"} : AskInForm(what))
             \/ (\E yes \in BOOLEAN : AnswerForm(yes))
  <2>1. Keys
    BY <1>2 DEF TypeInForm, LeaveForm, SendForm, AskInForm, AnswerForm
  <2> QED
    BY <1>2, <2>1, FormMovesTold DEF TypedStep, LeavesTold, Keys
<1>3. CASE TypeInMessage \/ LeaveMessage \/ (\E yes \in BOOLEAN : AnswerMessage(yes))
  <2>1. Keys
    BY <1>3 DEF TypeInMessage, LeaveMessage, AnswerMessage
  <2> QED
    BY <1>3, <2>1, MessageMovesTold DEF TypedStep, LeavesTold, Keys
<1>4. ASSUME NEW c, StartMessage(c)
      PROVE  TypedStep
  BY <1>4, StartMessageTold DEF TypedStep, LeavesTold, Keys, StartMessage
<1>5. ASSUME NEW k \in AllCases, NEW act \in Acts, StartForm(k, act)
      PROVE  TypedStep
  BY <1>5, StartFormTold DEF TypedStep, LeavesTold, Keys, StartForm
<1>6. CASE TakeRead
  BY <1>6, TakeReadTold DEF TypedStep, LeavesTold, TakeRead
<1>7. CASE Land
  <2>1. UNCHANGED <<form, drafts, compose>>
    BY <1>7 DEF Land, QuitOnly
  <2> QED
    BY <1>1, <1>7, <2>1, NothingLeaves, LandTold DEF TypedStep, LeavesTold
<1>8. ASSUME UNCHANGED <<form, drafts, compose>>, quitting # "landing" \/ UNCHANGED quitting
      PROVE  TypedStep
  BY <1>1, <1>8, NothingLeaves DEF TypedStep, LeavesTold
<1>9. CASE SendMessage \/ AskRead \/ ThreadWrites \/ ThreadReads \/ EscOnList
  BY <1>8, <1>9
  DEF SendMessage, AskRead, ThreadWrites, ThreadReads, EscOnList, ScreenOnly, QuitOnly, Keys
<1>10. ASSUME NEW k \in AllCases, AnotherWrites(k) \/ Resume(k)
       PROVE  TypedStep
  BY <1>8, <1>10 DEF AnotherWrites, Resume, ScreenOnly
<1>11. CASE (\E yes \in BOOLEAN : AnswerQuit(yes)) \/ (\E ctrl \in BOOLEAN : QuitKey(ctrl))
  BY <1>8, <1>11 DEF AnswerQuit, QuitKey, QuitOnly, Keys
<1> QED
  BY <1>2, <1>3, <1>4, <1>5, <1>6, <1>7, <1>9, <1>10, <1>11 DEF PanelNext, StartEdit

(* What was typed leaves the screen thrown away by a yes or told of, and a *)
(* write the human quit from is recorded or given back: for any cases,     *)
(* texts, reads and writes of others.                                      *)
THEOREM WhatIsTypedIsKept == PanelSpec => TypedIsKept
<1>1. PanelsInv /\ [PanelNext]_panelVars => [TypedStep]_panelVars
  BY StepTold
<1>2. PanelSpec => [][TypedStep]_panelVars
  BY PanelsInvariant, <1>1, PTL DEF PanelSpec
<1> QED
  BY <1>2 DEF TypedIsKept, TypedStep

=============================================================================
