--------------------------- MODULE RequestsProofs ---------------------------
(***************************************************************************)
(* That no write to a far side is stored twice, and that what each caller  *)
(* is told is so, for any number of callers, connections and calls: a call *)
(* is in one place at a time, with its caller, on its way, adrift or in    *)
(* the store, and is sent again only from where it is surely nowhere else. *)
(***************************************************************************)
EXTENDS Requests, SequenceTheorems, TLAPS

Statuses == {"ok", "stale", "busy", "rate", "rateLong", "gateway"}
Results == Statuses \cup {"none", "lost", "dial"}

(* A request, an answer to one, and a caller's call. *)
Sent == [of : Callers \X Nat, intent : Callers \X Nat, kind : CallKinds, rev : Int]
Given == [of : Callers \X Nat, got : Nat, status : Statuses]
CallRecs ==
    [phase : {"done", "send", "await", "sleep"}, kind : CallKinds, made : Nat,
     intent : Nat, rev : Int, conn : Conns \cup {NoConn}, tries : Nat,
     rated : BOOLEAN, from : Nat, result : Results, got : Nat]
ConnRecs ==
    [up : {"none", "idle", "busy"}, far : BOOLEAN, in : Seq(Sent), out : Seq(Given \cup {Stray})]

(* The writes that left their callers: in the store, or adrift. *)
Kept == adrift \cup {log[i] : i \in DOMAIN log}
Unwritten(id) == \A r \in Kept : r.of # id
Stored(id) == \E i \in DOMAIN log : log[i].of = id

(* Types of the requests: what is sent, answered and kept.                 *)
ReqTyped ==
    /\ call \in [Callers -> CallRecs] /\ conn \in [Conns -> ConnRecs]
    /\ left \in [Callers -> Nat] /\ log \in Seq(Sent) /\ adrift \subseteq Sent

(***************************************************************************)
(* Each write is kept once, in the store or adrift; a write made of a      *)
(* revision stands just past it; and writes of one intent are of one       *)
(* revision.                                                               *)
(***************************************************************************)
KeptOnce ==
    /\ CallOnce
    /\ \A r, s \in adrift : r.of = s.of => r = s
    /\ \A r \in adrift, i \in DOMAIN log : log[i].of # r.of
    /\ \A i \in DOMAIN log : log[i].rev # NoRev => log[i].rev = i - 1
    /\ \A r, s \in Kept : r.intent = s.intent => r.rev = s.rev

(* What is kept is of calls made, and of the revision of its caller's now. *)
KeptOfCalls ==
    /\ \A r \in Kept : r.of[2] <= call[r.of[1]].made
    /\ \A r \in Kept : r.intent[2] <= call[r.intent[1]].intent
    /\ \A r \in Kept, u \in Callers :
          call[u].kind # "read" /\ r.intent = <<u, call[u].intent>> => r.rev = call[u].rev

(* An answer says what became of the request. *)
Truthful(u, a) ==
    /\ a.status = "ok" =>
          /\ call[u].kind # "read" => Stored(CallId(u))
          /\ call[u].from <= a.got /\ a.got <= Revision
    /\ a.status \in {"stale", "rate", "rateLong"} => Unwritten(CallId(u))

NoneYet(out) == out \in {<<>>, <<Stray>>}

(* Where a call that is awaited is: on its way, answered, or cut off.      *)
OnItsWay(u, c) ==
    conn[c].in = <<Request(u)>> /\ NoneYet(conn[c].out) /\ Unwritten(CallId(u))
Answered(u, c) ==
    /\ conn[c].in = <<>>
    /\ \E a \in Given : conn[c].out \in {<<a>>, <<Stray, a>>} /\ Truthful(u, a)
CutOff(c) == conn[c].in = <<>> /\ NoneYet(conn[c].out)

(***************************************************************************)
(* A call that may be sent is nowhere yet, and neither is a read ever; one *)
(* awaited is on its own connection; one that is over is told of truly.    *)
(***************************************************************************)
CallIsSo(u) ==
    /\ call[u].from <= Revision
    /\ call[u].kind = "read" => Unwritten(CallId(u))
    /\ call[u].phase \in {"send", "sleep"} => Unwritten(CallId(u))
    /\ call[u].phase = "await" =>
          /\ call[u].conn \in Conns /\ conn[call[u].conn].up = "busy"
          /\ OnItsWay(u, call[u].conn) \/ Answered(u, call[u].conn) \/ CutOff(call[u].conn)
    /\ Over(u) =>
          /\ call[u].kind # "read" =>
               /\ call[u].result = "ok" => Stored(CallId(u))
               /\ call[u].result \in {"stale", "rate", "rateLong", "dial"} =>
                    Unwritten(CallId(u))
          /\ call[u].kind = "read" /\ call[u].result = "ok" =>
               call[u].from <= call[u].got /\ call[u].got <= Revision

(* Callers share no connection, and one no one awaits has nothing in it.   *)
ConnsApart ==
    /\ \A u, v \in Callers :
          call[u].phase = "await" /\ call[v].phase = "await" /\ call[u].conn = call[v].conn => u = v
    /\ \A c \in Conns :
          \/ conn[c].up # "busy" /\ CutOff(c)
          \/ \E u \in Callers : call[u].phase = "await" /\ call[u].conn = c

ReqInv ==
    ReqTyped /\ KeptOnce /\ KeptOfCalls /\ (\A u \in Callers : CallIsSo(u)) /\ ConnsApart

-----------------------------------------------------------------------------
(* What a step may do to the calls, with none begun. *)
SameCalls ==
    \A u \in Callers :
        /\ call'[u].made = call[u].made /\ call'[u].intent = call[u].intent
        /\ call'[u].kind = call[u].kind /\ call'[u].rev = call[u].rev

LogRises == Revision <= Revision' /\ \A i \in DOMAIN log : i \in DOMAIN log' /\ log'[i] = log[i]

(* A request is of its caller's call. *)
LEMMA RequestOfCall ==
    ASSUME ReqTyped, NEW u \in Callers
    PROVE  /\ Request(u) \in Sent /\ CallId(u) \in Callers \X Nat
           /\ Request(u).of = CallId(u) /\ Request(u).kind = call[u].kind
           /\ Request(u).of[1] = u /\ Request(u).of[2] = call[u].made
           /\ Request(u).intent = <<u, call[u].intent>>
           /\ Request(u).intent[1] = u /\ Request(u).intent[2] = call[u].intent
           /\ Request(u).rev = call[u].rev
  BY DEF ReqTyped, CallRecs, Request, CallId, Sent

(* What is kept is a request of a caller. *)
LEMMA KeptAreSent ==
    ASSUME ReqTyped
    PROVE  /\ Kept \subseteq Sent
           /\ \A r \in Kept : r.of \in Callers \X Nat /\ r.intent \in Callers \X Nat
           /\ \A r \in Kept : r.of[1] \in Callers /\ r.intent[1] \in Callers
  <1>1. \A i \in DOMAIN log : log[i] \in Sent
    BY DEF ReqTyped
  <1>2. Kept \subseteq Sent
    BY <1>1 DEF Kept, ReqTyped
  <1> QED BY <1>2 DEF Sent

(* A write that goes adrift was kept nowhere (Drop, Gateway).              *)
LEMMA GoesAdrift ==
    ASSUME ReqTyped, KeptOnce, KeptOfCalls, SameCalls,
           NEW u \in Callers, call[u].kind # "read", Unwritten(CallId(u)),
           log' = log, adrift' = adrift \cup {Request(u)}
    PROVE  /\ KeptOnce' /\ KeptOfCalls' /\ LogRises
           /\ Kept' \subseteq Kept \cup {Request(u)}
           /\ adrift' \subseteq Sent /\ log' \in Seq(Sent)
  <1> DEFINE req == Request(u)
  <1>1. /\ req \in Sent /\ req.of = CallId(u) /\ req.kind = call[u].kind
        /\ req.of[1] = u /\ req.of[2] = call[u].made /\ req.intent = <<u, call[u].intent>>
        /\ req.intent[1] = u /\ req.intent[2] = call[u].intent /\ req.rev = call[u].rev
    BY RequestOfCall
  <1>2. Kept' = Kept \cup {req}
    BY DEF Kept
  <1> HIDE DEF req
  <1>3. \A r \in Kept : r.of # req.of
    BY <1>1 DEF Unwritten
  <1>4. \A i \in DOMAIN log : log[i] \in Kept
    BY DEF Kept
  <1>5. adrift \subseteq Kept /\ adrift' = adrift \cup {req}
    BY DEF Kept, req
  <1>6. \A r \in Kept : r.intent = req.intent => r.rev = req.rev
    BY <1>1 DEF KeptOfCalls
  <1>7. KeptOnce'
    <2>1. CallOnce'
      BY DEF CallOnce, KeptOnce
    <2>2. \A r, s \in adrift' : r.of = s.of => r = s
      BY <1>3, <1>5 DEF KeptOnce
    <2>3. \A r \in adrift', i \in DOMAIN log : log[i].of # r.of
      BY <1>3, <1>4, <1>5 DEF KeptOnce
    <2>4. \A i \in DOMAIN log : log[i].rev # NoRev => log[i].rev = i - 1
      BY DEF KeptOnce
    <2>5. \A r, s \in Kept' : r.intent = s.intent => r.rev = s.rev
      BY <1>2, <1>6 DEF KeptOnce
    <2> QED BY <2>1, <2>2, <2>3, <2>4, <2>5 DEF KeptOnce
  <1>8. KeptOfCalls'
    <2>1. \A r \in Kept : r.of[1] \in Callers /\ r.intent[1] \in Callers
      BY KeptAreSent
    <2>2. call[u].made \in Nat /\ call[u].intent \in Nat
      BY DEF ReqTyped, CallRecs
    <2>3. \A r \in Kept' : r.of[2] <= call'[r.of[1]].made
      BY <1>1, <1>2, <2>1, <2>2 DEF KeptOfCalls, SameCalls
    <2>4. \A r \in Kept' : r.intent[2] <= call'[r.intent[1]].intent
      BY <1>1, <1>2, <2>1, <2>2 DEF KeptOfCalls, SameCalls
    <2>5. ASSUME NEW r \in Kept', NEW v \in Callers, call'[v].kind # "read",
                 r.intent = <<v, call'[v].intent>>
          PROVE  r.rev = call'[v].rev
      <3>1. CASE r \in Kept
        BY <3>1, <2>5 DEF KeptOfCalls, SameCalls
      <3>2. CASE r = req
        <4>1. v = u
          BY <1>1, <2>5, <3>2
        <4> QED BY <1>1, <3>2, <4>1 DEF SameCalls
      <3> QED BY <1>2, <3>1, <3>2
    <2> QED BY <2>3, <2>4, <2>5 DEF KeptOfCalls
  <1> QED BY <1>1, <1>2, <1>5, <1>7, <1>8 DEF ReqTyped, LogRises, Revision, req

(* A write the store takes was kept nowhere (Serve).                       *)
LEMMA IsServed ==
    ASSUME ReqTyped, KeptOnce, KeptOfCalls, SameCalls,
           NEW u \in Callers, call[u].kind # "read", Unwritten(CallId(u)),
           ~Stale(Request(u)), log' = Append(log, Request(u)), adrift' = adrift
    PROVE  /\ KeptOnce' /\ KeptOfCalls' /\ LogRises
           /\ Kept' \subseteq Kept \cup {Request(u)}
           /\ adrift' \subseteq Sent /\ log' \in Seq(Sent)
           /\ Stored(CallId(u))' /\ Revision' = Revision + 1
  <1> DEFINE req == Request(u)
  <1>1. /\ req \in Sent /\ req.of = CallId(u) /\ req.kind = call[u].kind
        /\ req.of[1] = u /\ req.of[2] = call[u].made /\ req.intent = <<u, call[u].intent>>
        /\ req.intent[1] = u /\ req.intent[2] = call[u].intent /\ req.rev = call[u].rev
    BY RequestOfCall
  <1>2. /\ log' \in Seq(Sent) /\ Len(log') = Len(log) + 1 /\ Len(log) \in Nat
        /\ DOMAIN log' = DOMAIN log \cup {Len(log) + 1} /\ DOMAIN log = 1 .. Len(log)
        /\ \A i \in DOMAIN log : log'[i] = log[i]
        /\ log'[Len(log) + 1] = req
    BY <1>1 DEF ReqTyped
  <1>3. Kept' = Kept \cup {req}
    BY <1>2 DEF Kept
  <1>4. req.rev # NoRev => req.rev = Len(log)
    BY DEF Stale, Revision
  <1>5. CallId(u)' = CallId(u)
    BY DEF SameCalls, CallId
  <1> HIDE DEF req
  <1>6. \A r \in Kept : r.of # req.of
    BY <1>1 DEF Unwritten
  <1>7. adrift \subseteq Kept /\ \A i \in DOMAIN log : log[i] \in Kept
    BY DEF Kept
  <1>8. \A r \in Kept : r.intent = req.intent => r.rev = req.rev
    BY <1>1 DEF KeptOfCalls
  <1>9. KeptOnce'
    <2>1. CallOnce'
      BY <1>2, <1>6, <1>7 DEF CallOnce, KeptOnce
    <2>2. \A r, s \in adrift' : r.of = s.of => r = s
      BY DEF KeptOnce
    <2>3. \A r \in adrift', i \in DOMAIN log' : log'[i].of # r.of
      BY <1>2, <1>6, <1>7 DEF KeptOnce
    <2>4. \A i \in DOMAIN log' : log'[i].rev # NoRev => log'[i].rev = i - 1
      BY <1>2, <1>4 DEF KeptOnce
    <2>5. \A r, s \in Kept' : r.intent = s.intent => r.rev = s.rev
      BY <1>3, <1>8 DEF KeptOnce
    <2> QED BY <2>1, <2>2, <2>3, <2>4, <2>5 DEF KeptOnce
  <1>10. KeptOfCalls'
    <2>1. \A r \in Kept : r.of[1] \in Callers /\ r.intent[1] \in Callers
      BY KeptAreSent
    <2>2. call[u].made \in Nat /\ call[u].intent \in Nat
      BY DEF ReqTyped, CallRecs
    <2>3. \A r \in Kept' : r.of[2] <= call'[r.of[1]].made
      BY <1>1, <1>3, <2>1, <2>2 DEF KeptOfCalls, SameCalls
    <2>4. \A r \in Kept' : r.intent[2] <= call'[r.intent[1]].intent
      BY <1>1, <1>3, <2>1, <2>2 DEF KeptOfCalls, SameCalls
    <2>5. ASSUME NEW r \in Kept', NEW v \in Callers, call'[v].kind # "read",
                 r.intent = <<v, call'[v].intent>>
          PROVE  r.rev = call'[v].rev
      <3>1. CASE r \in Kept
        BY <3>1, <2>5 DEF KeptOfCalls, SameCalls
      <3>2. CASE r = req
        <4>1. v = u
          BY <1>1, <2>5, <3>2
        <4> QED BY <1>1, <3>2, <4>1 DEF SameCalls
      <3> QED BY <1>3, <3>1, <3>2
    <2> QED BY <2>3, <2>4, <2>5 DEF KeptOfCalls
  <1>11. Stored(CallId(u))'
    BY <1>1, <1>2, <1>5 DEF Stored
  <1>12. LogRises /\ Revision' = Revision + 1
    BY <1>2 DEF LogRises, Revision
  <1> QED BY <1>2, <1>3, <1>9, <1>10, <1>11, <1>12 DEF ReqTyped, req

(* A write adrift is stored after all, or lost (StoresLate).               *)
LEMMA IsStoredLate ==
    ASSUME ReqTyped, KeptOnce, KeptOfCalls, StoresLate
    PROVE  /\ KeptOnce' /\ KeptOfCalls' /\ LogRises
           /\ Kept' \subseteq Kept
           /\ adrift' \subseteq Sent /\ log' \in Seq(Sent)
  <1>1. PICK req \in adrift : adrift' = adrift \ {req} /\ log' \in {log, Taken(req)}
    BY DEF StoresLate
  <1>2. call' = call /\ req \in Sent /\ req \in Kept
    BY <1>1 DEF StoresLate, ReqTyped, Kept
  <1>3. CASE log' = log
    <2>1. Kept' \subseteq Kept /\ LogRises
      BY <1>1, <1>3 DEF Kept, LogRises, Revision, ReqTyped
    <2>2. KeptOnce' /\ KeptOfCalls'
      BY <1>1, <1>2, <1>3, <2>1 DEF KeptOnce, KeptOfCalls, CallOnce
    <2> QED BY <1>1, <1>3, <2>1, <2>2 DEF ReqTyped
  <1>4. CASE log' = Append(log, req) /\ ~Stale(req)
    <2>1. /\ log' \in Seq(Sent) /\ Len(log') = Len(log) + 1 /\ Len(log) \in Nat
          /\ DOMAIN log' = DOMAIN log \cup {Len(log) + 1} /\ DOMAIN log = 1 .. Len(log)
          /\ \A i \in DOMAIN log : log'[i] = log[i]
          /\ log'[Len(log) + 1] = req
      BY <1>2, <1>4 DEF ReqTyped
    <2>2. Kept' \subseteq Kept
      BY <1>1, <1>2, <2>1 DEF Kept
    <2>3. req.rev # NoRev => req.rev = Len(log)
      BY <1>4 DEF Stale, Revision
    <2>4. KeptOnce'
      <3>1. CallOnce'
        BY <1>1, <2>1 DEF CallOnce, KeptOnce
      <3>2. \A r, s \in adrift' : r.of = s.of => r = s
        BY <1>1 DEF KeptOnce
      <3>3. \A r \in adrift', i \in DOMAIN log' : log'[i].of # r.of
        BY <1>1, <2>1 DEF KeptOnce
      <3>4. \A i \in DOMAIN log' : log'[i].rev # NoRev => log'[i].rev = i - 1
        BY <2>1, <2>3 DEF KeptOnce
      <3>5. \A r, s \in Kept' : r.intent = s.intent => r.rev = s.rev
        BY <2>2 DEF KeptOnce
      <3> QED BY <3>1, <3>2, <3>3, <3>4, <3>5 DEF KeptOnce
    <2>5. KeptOfCalls'
      BY <1>2, <2>2 DEF KeptOfCalls
    <2>6. LogRises
      BY <2>1 DEF LogRises, Revision
    <2> QED BY <1>1, <2>1, <2>2, <2>4, <2>5, <2>6 DEF ReqTyped
  <1> QED BY <1>1, <1>3, <1>4 DEF Taken

-----------------------------------------------------------------------------
(* A caller whose call and connection a step leaves alone.                 *)
LEMMA Bystands ==
    ASSUME ReqTyped, NEW v \in Callers, CallIsSo(v), call'[v] = call[v],
           call[v].phase = "await" => conn'[call[v].conn] = conn[call[v].conn],
           LogRises, \A r \in Kept' : r \in Kept \/ r.of # CallId(v)
    PROVE  CallIsSo(v)'
  <1>1. CallId(v)' = CallId(v) /\ Request(v)' = Request(v) /\ (Over(v)' <=> Over(v))
    BY DEF CallId, Request, Over
  <1>2. Unwritten(CallId(v)) => Unwritten(CallId(v))'
    BY <1>1 DEF Unwritten
  <1>3. Stored(CallId(v)) => Stored(CallId(v))'
    BY <1>1 DEF Stored, LogRises
  <1>4. /\ call[v] \in CallRecs /\ Revision \in Nat /\ Revision' >= Revision
        /\ \A n \in Nat : n <= Revision => n <= Revision'
    BY DEF ReqTyped, Revision, LogRises
  <1>5. \A a \in Given : Truthful(v, a) => Truthful(v, a)'
    BY <1>1, <1>2, <1>3, <1>4 DEF Truthful, Given
  <1>6. ASSUME call[v].phase = "await"
        PROVE  /\ OnItsWay(v, call[v].conn) => OnItsWay(v, call[v].conn)'
               /\ Answered(v, call[v].conn) => Answered(v, call[v].conn)'
               /\ CutOff(call[v].conn) => CutOff(call[v].conn)'
    BY <1>1, <1>2, <1>5, <1>6 DEF OnItsWay, Answered, CutOff
  <1>7. call[v].from <= Revision'
    BY <1>4 DEF CallIsSo, CallRecs
  <1> QED BY <1>1, <1>2, <1>3, <1>4, <1>6, <1>7 DEF CallIsSo, CallRecs

(* A call that is not its first to send: what a request holds of it stays. *)
LEMMA SameRequest ==
    ASSUME SameCalls, NEW u \in Callers
    PROVE  /\ CallId(u)' = CallId(u) /\ Request(u)' = Request(u)
           /\ call'[u].kind = call[u].kind
  BY DEF SameCalls, CallId, Request

(* The writes of what is in a connection, which is one request at most.    *)
LEMMA WritesOfOne ==
    ASSUME NEW r
    PROVE  /\ Writes(<<>>) = {}
           /\ r.kind = "read" => Writes(<<r>>) = {}
           /\ r.kind # "read" => Writes(<<r>>) = {r}
  BY DEF Writes

(* A call that fails sleeps, to be sent again, or is over with what it     *)
(* failed by; and it is the same call.                                     *)
LEMMA FailsAlike ==
    ASSUME ReqTyped, NEW u \in Callers,
           NEW status \in {"lost", "busy", "rate", "rateLong", "gateway"}, CallFails(u, status)
    PROVE  /\ call' \in [Callers -> CallRecs] /\ SameCalls
           /\ \A v \in Callers : v # u => call'[v] = call[v]
           /\ \/ call'[u].phase = "sleep" /\ SentAgain(call[u], status)
              \/ call'[u].phase = "done" /\ call'[u].result = status
           /\ call'[u].from = call[u].from
  <1>0. call[u] \in CallRecs /\ call[u].tries + 1 \in Nat /\ status \in Results
    BY DEF ReqTyped, CallRecs, Results, Statuses
  <1>1. CASE /\ SentAgain(call[u], status)
             /\ call' = [call EXCEPT ![u] = [Tried(@, status) EXCEPT
                                                 !.phase = "sleep", !.conn = NoConn]]
    <2>1. Tried(call[u], status) \in CallRecs
      BY <1>0 DEF Tried, CallRecs
    <2>2. /\ Tried(call[u], status).made = call[u].made
          /\ Tried(call[u], status).intent = call[u].intent
          /\ Tried(call[u], status).kind = call[u].kind
          /\ Tried(call[u], status).rev = call[u].rev
          /\ Tried(call[u], status).from = call[u].from
      BY <1>0 DEF Tried, CallRecs
    <2> DEFINE slept == [Tried(call[u], status) EXCEPT !.phase = "sleep", !.conn = NoConn]
    <2>3. call' = [call EXCEPT ![u] = slept]
      BY <1>1
    <2>4. /\ slept \in CallRecs /\ slept.phase = "sleep"
          /\ slept.made = call[u].made /\ slept.intent = call[u].intent
          /\ slept.kind = call[u].kind /\ slept.rev = call[u].rev
          /\ slept.from = call[u].from
      BY <2>1, <2>2 DEF CallRecs
    <2> HIDE DEF slept
    <2>5. call' \in [Callers -> CallRecs] /\ call'[u] = slept
          /\ \A v \in Callers : v # u => call'[v] = call[v]
      BY <2>3, <2>4 DEF ReqTyped
    <2>6. SameCalls
      BY <2>4, <2>5 DEF SameCalls
    <2> QED BY <1>1, <2>4, <2>5, <2>6
  <1>2. CASE call' = [call EXCEPT ![u] = [@ EXCEPT
                         !.phase = "done", !.conn = NoConn, !.result = status]]
    <2> DEFINE ended == [call[u] EXCEPT !.phase = "done", !.conn = NoConn, !.result = status]
    <2>1. call' = [call EXCEPT ![u] = ended]
      BY <1>2
    <2>2. /\ ended \in CallRecs /\ ended.phase = "done" /\ ended.result = status
          /\ ended.made = call[u].made /\ ended.intent = call[u].intent
          /\ ended.kind = call[u].kind /\ ended.rev = call[u].rev
          /\ ended.from = call[u].from
      BY <1>0 DEF CallRecs
    <2> HIDE DEF ended
    <2>3. call' \in [Callers -> CallRecs] /\ call'[u] = ended
          /\ \A v \in Callers : v # u => call'[v] = call[v]
      BY <2>1, <2>2 DEF ReqTyped
    <2>4. SameCalls
      BY <2>2, <2>3 DEF SameCalls
    <2> QED BY <2>2, <2>3, <2>4
  <1> QED BY <1>1, <1>2 DEF CallFails

(* It is sent again only if it surely was not read, or only reads; and what *)
(* it is said to have failed by is so (`send`).                            *)
LEMMA FailsTruly ==
    ASSUME ReqTyped, NEW u \in Callers, CallIsSo(u),
           NEW status \in {"lost", "busy", "rate", "rateLong", "gateway"},
           CallFails(u, status), LogRises,
           call[u].kind = "read" \/ status \in {"rate", "rateLong"} =>
               \A r \in Kept' : r.of # CallId(u)
    PROVE  CallIsSo(u)'
  <1>1. /\ SameCalls /\ call'[u].from = call[u].from
        /\ \/ call'[u].phase = "sleep" /\ SentAgain(call[u], status)
           \/ call'[u].phase = "done" /\ call'[u].result = status
    BY FailsAlike
  <1>2. call[u].kind = "read" \/ status \in {"rate", "rateLong"} => Unwritten(CallId(u))'
    BY <1>1, SameRequest DEF Unwritten
  <1>3. call'[u].kind = call[u].kind
    BY <1>1, SameRequest
  <1>4. call'[u].from <= Revision'
    <2>1. call[u].from \in Nat /\ Revision \in Nat /\ Revision' \in Int
      BY DEF ReqTyped, CallRecs, Revision, LogRises
    <2> QED BY <1>1, <2>1 DEF CallIsSo, LogRises
  <1>5. CASE call'[u].phase = "sleep" /\ SentAgain(call[u], status)
    BY <1>2, <1>3, <1>4, <1>5 DEF SentAgain, CallIsSo, Over
  <1>6. CASE call'[u].phase = "done" /\ call'[u].result = status
    BY <1>2, <1>3, <1>4, <1>6 DEF CallIsSo
  <1> QED BY <1>1, <1>5, <1>6

(* Dropping a connection leaves a write it had adrift (`Drop`).            *)
LEMMA IsDropped ==
    ASSUME ReqInv, SameCalls, NEW u \in Callers, call[u].phase = "await",
           log' = log, Drop(call[u].conn)
    PROVE  /\ KeptOnce' /\ KeptOfCalls' /\ LogRises
           /\ \/ Kept' \subseteq Kept
              \/ call[u].kind # "read" /\ Kept' \subseteq Kept \cup {Request(u)}
           /\ adrift' \subseteq Sent /\ log' \in Seq(Sent)
           /\ conn' \in [Conns -> ConnRecs] /\ conn'[call[u].conn] = Closed
           /\ \A c \in Conns : c # call[u].conn => conn'[c] = conn[c]
  <1> DEFINE c == call[u].conn
  <1>1. /\ c \in Conns
        /\ OnItsWay(u, c) \/ Answered(u, c) \/ CutOff(c)
        /\ ReqTyped /\ KeptOnce /\ KeptOfCalls
    BY DEF ReqInv, CallIsSo
  <1>2. conn[c].in = <<>> \/ (conn[c].in = <<Request(u)>> /\ Unwritten(CallId(u)))
    BY <1>1 DEF OnItsWay, Answered, CutOff
  <1>3. Request(u).kind = call[u].kind
    BY DEF Request
  <1>4. \/ adrift' = adrift
        \/ /\ adrift' = adrift \cup {Request(u)} /\ Unwritten(CallId(u))
           /\ call[u].kind # "read"
    <2>1. adrift' = adrift \/ adrift' = adrift \cup Writes(conn[c].in)
      BY DEF Drop
    <2>2. CASE conn[c].in = <<>>
      BY <2>1, <2>2, WritesOfOne
    <2>3. CASE conn[c].in = <<Request(u)>> /\ Unwritten(CallId(u))
      BY <2>1, <2>3, <1>3, WritesOfOne
    <2> QED BY <1>2, <2>2, <2>3
  <1>5. Closed \in ConnRecs
    BY DEF Closed, ConnRecs
  <1>6. /\ conn' \in [Conns -> ConnRecs] /\ conn'[c] = Closed
        /\ \A d \in Conns : d # c => conn'[d] = conn[d]
    <2>1. conn' = [conn EXCEPT ![c] = Closed]
      BY DEF Drop
    <2>2. conn \in [Conns -> ConnRecs] /\ c \in Conns
      BY <1>1 DEF ReqTyped
    <2> HIDE DEF c
    <2> QED BY <1>5, <2>1, <2>2
  <1>7. CASE adrift' = adrift
    <2>1. Kept' = Kept /\ LogRises
      BY <1>7 DEF Kept, LogRises, Revision, ReqTyped
    <2>2. KeptOnce' /\ KeptOfCalls'
      <3>1. \A r \in Kept : r.of[1] \in Callers /\ r.intent[1] \in Callers
        BY <1>1, KeptAreSent
      <3> QED BY <1>1, <1>7, <2>1, <3>1 DEF KeptOnce, KeptOfCalls, CallOnce, SameCalls
    <2> QED BY <1>1, <1>6, <1>7, <2>1, <2>2 DEF ReqTyped
  <1>8. CASE /\ adrift' = adrift \cup {Request(u)} /\ Unwritten(CallId(u))
             /\ call[u].kind # "read"
    BY <1>1, <1>6, <1>8, GoesAdrift
  <1> QED BY <1>4, <1>7, <1>8

(* A call whose connection is given up fails, as far as it knows.          *)
LEMMA GivesUp ==
    ASSUME ReqInv, NEW u \in Callers, call[u].phase = "await",
           CallFails(u, "lost"), Drop(call[u].conn), UNCHANGED <<link, left, log>>
    PROVE  ReqInv'
  <1>1. ReqTyped /\ CallIsSo(u) /\ call[u].conn \in Conns /\ KeptOfCalls
    BY DEF ReqInv, CallIsSo
  <1>2. /\ SameCalls /\ call' \in [Callers -> CallRecs]
        /\ \A v \in Callers : v # u => call'[v] = call[v]
        /\ call'[u].phase \in {"sleep", "done"}
    BY <1>1, FailsAlike
  <1>3. /\ KeptOnce' /\ KeptOfCalls' /\ LogRises
        /\ \/ Kept' \subseteq Kept
           \/ call[u].kind # "read" /\ Kept' \subseteq Kept \cup {Request(u)}
        /\ adrift' \subseteq Sent /\ log' \in Seq(Sent)
        /\ conn' \in [Conns -> ConnRecs] /\ conn'[call[u].conn] = Closed
        /\ \A c \in Conns : c # call[u].conn => conn'[c] = conn[c]
    BY <1>2, IsDropped
  <1>4. \A v \in Callers : v # u => CallId(v) # CallId(u)
    BY DEF CallId
  <1>5. Request(u).of = CallId(u)
    BY DEF Request
  <1>6. call[u].kind = "read" => \A r \in Kept' : r.of # CallId(u)
    BY <1>1, <1>3 DEF CallIsSo, Unwritten
  <1>7. CallIsSo(u)'
    BY <1>1, <1>3, <1>6, FailsTruly
  <1>8. ASSUME NEW v \in Callers, v # u
        PROVE  CallIsSo(v)'
    <2>1. call[v].phase = "await" => conn'[call[v].conn] = conn[call[v].conn]
      BY <1>3, <1>8 DEF ReqInv, ConnsApart, CallIsSo
    <2>2. \A r \in Kept' : r \in Kept \/ r.of # CallId(v)
      BY <1>3, <1>4, <1>5, <1>8
    <2> QED BY <1>1, <1>2, <1>3, <1>8, <2>1, <2>2, Bystands DEF ReqInv
  <1>9. ConnsApart'
    <2>1. PICK gone \in Conns : gone = call[u].conn /\ conn'[gone] = Closed
      BY <1>1, <1>3
    <2>2. CutOff(gone)' /\ conn'[gone].up # "busy"
      BY <2>1 DEF CutOff, NoneYet, Closed
    <2>4. ASSUME NEW c \in Conns
          PROVE  \/ conn'[c].up # "busy" /\ CutOff(c)'
                 \/ \E v \in Callers : call'[v].phase = "await" /\ call'[v].conn = c
      BY <1>2, <1>3, <2>1, <2>2 DEF ReqInv, ConnsApart, CutOff
    <2>3. \A v, w \in Callers :
             call'[v].phase = "await" /\ call'[w].phase = "await" /\ call'[v].conn = call'[w].conn
                => v = w
      BY <1>2 DEF ReqInv, ConnsApart
    <2> QED BY <2>3, <2>4 DEF ConnsApart
  <1> QED BY <1>1, <1>2, <1>3, <1>7, <1>8, <1>9 DEF ReqInv, ReqTyped

-----------------------------------------------------------------------------
(* A call is begun, or one sent again by its user (`Begin`, `Again`).      *)
LEMMA Begins ==
    ASSUME ReqInv, NEW u \in Callers, NEW kind \in CallKinds, NEW rev \in Int,
           NEW intent \in Nat, call[u].intent <= intent,
           Call(u, kind, rev, intent),
           kind # "read" => \/ call[u].intent < intent
                            \/ call[u].intent = intent /\ call[u].kind # "read" /\ call[u].rev = rev
    PROVE  ReqInv'
  <1>1. /\ ReqTyped /\ call[u] \in CallRecs /\ left[u] \in Nat /\ left[u] > 0
        /\ call[u].made + 1 \in Nat /\ Revision \in Nat
    BY DEF ReqInv, ReqTyped, CallRecs, Call, Revision
  <1> DEFINE begun == [call[u] EXCEPT !.phase = "send", !.kind = kind, !.made = @ + 1,
                          !.intent = intent, !.rev = rev, !.tries = 0, !.rated = FALSE,
                          !.from = Revision, !.result = "none"]
  <1>2. /\ call' = [call EXCEPT ![u] = begun] /\ left' = [left EXCEPT ![u] = @ - 1]
        /\ conn' = conn /\ adrift' = adrift /\ log' = log
    <2>1. call' = [call EXCEPT ![u] = begun]
      BY DEF Call
    <2>2. left' = [left EXCEPT ![u] = @ - 1]
      BY DEF Call
    <2> QED BY <2>1, <2>2 DEF Call
  <1>3. /\ begun \in CallRecs /\ begun.phase = "send" /\ begun.kind = kind
        /\ begun.made = call[u].made + 1 /\ begun.intent = intent /\ begun.rev = rev
        /\ begun.from = Revision
    BY <1>1 DEF CallRecs, Results, Statuses
  <1> HIDE DEF begun
  <1>4. /\ call' \in [Callers -> CallRecs] /\ call'[u] = begun
        /\ \A v \in Callers : v # u => call'[v] = call[v]
        /\ left' \in [Callers -> Nat]
    BY <1>1, <1>2, <1>3 DEF ReqTyped
  <1>5. Kept' = Kept /\ LogRises /\ Revision' = Revision
    BY <1>1, <1>2 DEF Kept, LogRises, Revision, ReqTyped
  <1>6. /\ \A r \in Kept : r.of \in Callers \X Nat /\ r.intent \in Callers \X Nat
        /\ \A r \in Kept : r.of[1] \in Callers /\ r.intent[1] \in Callers
    BY <1>1, KeptAreSent
  <1>7. Unwritten(CallId(u))'
    <2>1. CallId(u)' = <<u, call[u].made + 1>>
      BY <1>3, <1>4 DEF CallId
    <2>2. ASSUME NEW r \in Kept PROVE r.of # <<u, call[u].made + 1>>
      <3>1. r.of[2] <= call[r.of[1]].made
        BY DEF ReqInv, KeptOfCalls
      <3> QED BY <1>1, <1>6, <3>1 DEF CallRecs
    <2> QED BY <1>5, <2>1, <2>2 DEF Unwritten
  <1>8. CallIsSo(u)'
    BY <1>1, <1>3, <1>4, <1>5, <1>7 DEF CallIsSo, Over
  <1>9. ASSUME NEW v \in Callers, v # u
        PROVE  CallIsSo(v)'
    BY <1>1, <1>2, <1>4, <1>5, <1>9, Bystands DEF ReqInv
  <1>10. KeptOnce'
    BY <1>2, <1>5 DEF ReqInv, KeptOnce, CallOnce
  <1>11. KeptOfCalls'
    <2>1. ASSUME NEW r \in Kept
          PROVE  r.of[2] <= call'[r.of[1]].made /\ r.intent[2] <= call'[r.intent[1]].intent
      <3>1. r.of[2] <= call[r.of[1]].made /\ r.intent[2] <= call[r.intent[1]].intent
        BY DEF ReqInv, KeptOfCalls
      <3>2. r.of[2] \in Nat /\ r.intent[2] \in Nat
        BY <1>6
      <3>3. \A v \in Callers : /\ call[v].made \in Nat /\ call[v].intent \in Nat
                               /\ call[v].made <= call'[v].made
                               /\ call[v].intent <= call'[v].intent
        <4>1. ASSUME NEW v \in Callers
              PROVE  /\ call[v].made \in Nat /\ call[v].intent \in Nat
                     /\ call[v].made <= call'[v].made
                     /\ call[v].intent <= call'[v].intent
          <5>1. call[v].made \in Nat /\ call[v].intent \in Nat
            BY <1>1 DEF CallRecs, ReqTyped
          <5>2. CASE v = u
            BY <1>3, <1>4, <5>1, <5>2
          <5>3. CASE v # u
            BY <1>4, <5>1, <5>3
          <5> QED BY <5>1, <5>2, <5>3
        <4> QED BY <4>1
      <3>4. \A v \in Callers : call'[v].made \in Nat /\ call'[v].intent \in Nat
        BY <1>4 DEF CallRecs
      <3> QED BY <1>6, <3>1, <3>2, <3>3, <3>4
    <2>2. ASSUME NEW r \in Kept, NEW v \in Callers, call'[v].kind # "read",
                 r.intent = <<v, call'[v].intent>>
          PROVE  r.rev = call'[v].rev
      <3>1. CASE v # u
        BY <1>4, <2>2, <3>1 DEF ReqInv, KeptOfCalls
      <3>2. CASE v = u
        <4>1. r.intent[2] <= call[u].intent
          BY <2>2, <3>2 DEF ReqInv, KeptOfCalls
        <4>2. r.intent[2] = intent /\ kind # "read" /\ call'[u].rev = rev
          BY <1>3, <1>4, <2>2, <3>2
        <4>3. call[u].intent = intent /\ call[u].kind # "read" /\ call[u].rev = rev
          BY <1>1, <4>1, <4>2 DEF CallRecs
        <4> QED BY <1>3, <1>4, <2>2, <3>2, <4>2, <4>3 DEF ReqInv, KeptOfCalls
      <3> QED BY <3>1, <3>2
    <2> QED BY <1>5, <2>1, <2>2 DEF KeptOfCalls
  <1>12. ConnsApart'
    <2>1. call[u].phase = "done"
      BY DEF Call
    <2>2. \A v \in Callers : call'[v].phase = "await" <=> call[v].phase = "await"
      BY <1>3, <1>4, <2>1
    <2>3. \A v \in Callers : call'[v].phase = "await" => call'[v].conn = call[v].conn
      BY <1>3, <1>4
    <2> QED BY <1>2, <2>2, <2>3 DEF ReqInv, ConnsApart, CutOff
  <1> QED BY <1>1, <1>2, <1>4, <1>8, <1>9, <1>10, <1>11, <1>12 DEF ReqInv, ReqTyped

(* A request is put on a connection no one awaits (`Send`).                *)
LEMMA IsPut ==
    ASSUME ReqInv, NEW u \in Callers, call[u].phase = "send",
           NEW c \in Conns, conn[c].up # "busy",
           NEW now \in ConnRecs, now.in = <<>>, now.out = <<>>,
           Put(u, c, now)
    PROVE  ReqInv'
  <1>1. /\ ReqTyped /\ call[u] \in CallRecs
        /\ Request(u) \in Sent /\ Unwritten(CallId(u))
    BY RequestOfCall DEF ReqInv, CallIsSo, ReqTyped
  <1> DEFINE sent == [call[u] EXCEPT !.phase = "await", !.conn = c]
             put == [now EXCEPT !.up = "busy", !.in = <<Request(u)>>]
  <1>2. call' = [call EXCEPT ![u] = sent] /\ conn' = [conn EXCEPT ![c] = put]
    <2>1. call' = [call EXCEPT ![u] = sent]
      BY <1>1 DEF Put, ReqTyped
    <2>2. [now EXCEPT !.up = "busy", !.in = Append(@, Request(u))] = put
      <3>1. Append(now.in, Request(u)) = <<Request(u)>>
        BY <1>1
      <3> QED BY <3>1 DEF ConnRecs
    <2>3. conn' = [conn EXCEPT ![c] = [now EXCEPT !.up = "busy", !.in = Append(@, Request(u))]]
      BY DEF Put
    <2> QED BY <2>1, <2>2, <2>3
  <1>3. /\ sent \in CallRecs /\ sent.phase = "await" /\ sent.conn = c
        /\ sent.made = call[u].made /\ sent.intent = call[u].intent
        /\ sent.kind = call[u].kind /\ sent.rev = call[u].rev /\ sent.from = call[u].from
    BY <1>1 DEF CallRecs
  <1>4. /\ put \in ConnRecs /\ put.up = "busy" /\ put.in = <<Request(u)>> /\ put.out = <<>>
    <2>1. <<Request(u)>> \in Seq(Sent)
      BY <1>1
    <2> QED BY <2>1 DEF ConnRecs
  <1> HIDE DEF sent, put
  <1>5. /\ call' \in [Callers -> CallRecs] /\ call'[u] = sent
        /\ \A v \in Callers : v # u => call'[v] = call[v]
        /\ conn' \in [Conns -> ConnRecs] /\ conn'[c] = put
        /\ \A d \in Conns : d # c => conn'[d] = conn[d]
    BY <1>1, <1>2, <1>3, <1>4 DEF ReqTyped
  <1>6. SameCalls
    BY <1>3, <1>5 DEF SameCalls
  <1>7. Kept' = Kept /\ LogRises /\ Revision' = Revision /\ adrift' = adrift /\ log' = log
    BY <1>1 DEF Put, Kept, LogRises, Revision, ReqTyped
  <1>8. CallIsSo(u)'
    <2>1. Unwritten(CallId(u))' /\ Request(u)' = Request(u)
      BY <1>1, <1>6, <1>7, SameRequest DEF Unwritten
    <2>2. OnItsWay(u, c)'
      BY <1>4, <1>5, <2>1 DEF OnItsWay, NoneYet
    <2>3. call'[u].conn = c /\ conn'[c].up = "busy" /\ call'[u].from <= Revision'
      BY <1>3, <1>4, <1>5, <1>7 DEF ReqInv, CallIsSo
    <2>4. (OnItsWay(u, call[u].conn))'
      BY <2>2, <2>3 DEF OnItsWay
    <2> QED BY <1>3, <1>5, <2>1, <2>3, <2>4 DEF CallIsSo, Over
  <1>9. ASSUME NEW v \in Callers, v # u
        PROVE  CallIsSo(v)'
    <2>1. call[v].phase = "await" => conn'[call[v].conn] = conn[call[v].conn]
      BY <1>5 DEF ReqInv, CallIsSo
    <2> QED BY <1>1, <1>5, <1>7, <1>9, <2>1, Bystands DEF ReqInv
  <1>10. KeptOnce' /\ KeptOfCalls'
    <2>1. \A r \in Kept : r.of[1] \in Callers /\ r.intent[1] \in Callers
      BY <1>1, KeptAreSent
    <2> QED BY <1>6, <1>7, <2>1 DEF ReqInv, KeptOnce, KeptOfCalls, CallOnce, SameCalls
  <1>11. ConnsApart'
    <2>1. ASSUME NEW v \in Callers, NEW w \in Callers,
                 call'[v].phase = "await", call'[w].phase = "await", call'[v].conn = call'[w].conn
          PROVE  v = w
      BY <1>3, <1>5, <2>1 DEF ReqInv, ConnsApart, CallIsSo
    <2>2. ASSUME NEW d \in Conns, d # c
          PROVE  \/ conn'[d].up # "busy" /\ CutOff(d)'
                 \/ \E v \in Callers : call'[v].phase = "await" /\ call'[v].conn = d
      BY <1>5, <2>2 DEF ReqInv, ConnsApart, CutOff
    <2>3. \E v \in Callers : call'[v].phase = "await" /\ call'[v].conn = c
      BY <1>3, <1>5
    <2> QED BY <2>1, <2>2, <2>3 DEF ConnsApart
  <1> QED BY <1>1, <1>5, <1>7, <1>8, <1>9, <1>10, <1>11 DEF ReqInv, ReqTyped, Put

(* The far side moves one connection on, for whoever awaits it.            *)
LEMMA FarMoves ==
    ASSUME ReqInv, NEW c \in Conns, NEW now \in ConnRecs, now.up = conn[c].up,
           call' = call, left' = left, conn' = [conn EXCEPT ![c] = now],
           KeptOnce', KeptOfCalls', LogRises, adrift' \subseteq Sent, log' \in Seq(Sent),
           conn[c].up # "busy" => now.in = <<>> /\ NoneYet(now.out),
           \A u \in Callers :
              IF call[u].phase = "await" /\ call[u].conn = c
              THEN CallIsSo(u)'
              ELSE \A r \in Kept' : r \in Kept \/ r.of # CallId(u)
    PROVE  ReqInv'
  <1>1. /\ conn' \in [Conns -> ConnRecs] /\ conn'[c] = now
        /\ \A d \in Conns : d # c => conn'[d] = conn[d]
        /\ ReqTyped
    BY DEF ReqInv, ReqTyped
  <1>2. ASSUME NEW v \in Callers PROVE CallIsSo(v)'
    <2>1. CASE call[v].phase = "await" /\ call[v].conn = c
      BY <2>1
    <2>2. CASE ~(call[v].phase = "await" /\ call[v].conn = c)
      <3>1. call[v].phase = "await" => conn'[call[v].conn] = conn[call[v].conn]
        BY <1>1, <2>2 DEF ReqInv, CallIsSo
      <3>2. \A r \in Kept' : r \in Kept \/ r.of # CallId(v)
        BY <2>2
      <3> QED BY <1>1, <3>1, <3>2, Bystands DEF ReqInv
    <2> QED BY <2>1, <2>2
  <1>3. ConnsApart'
    <2>1. \A d \in Conns :
             \/ conn'[d].up # "busy" /\ CutOff(d)'
             \/ \E u \in Callers : call'[u].phase = "await" /\ call'[u].conn = d
      BY <1>1 DEF ReqInv, ConnsApart, CutOff
    <2> QED BY <2>1 DEF ReqInv, ConnsApart
  <1> QED BY <1>1, <1>2, <1>3 DEF ReqInv, ReqTyped

(* What the far side has of a connection is its caller's request.          *)
LEMMA HasARequest ==
    ASSUME ReqInv, NEW c \in Conns, conn[c].in # <<>>
    PROVE  /\ conn[c].up = "busy"
           /\ \E u \in Callers :
                 /\ call[u].phase = "await" /\ call[u].conn = c /\ OnItsWay(u, c)
                 /\ \A v \in Callers :
                       call[v].phase = "await" /\ call[v].conn = c => v = u
  <1>1. PICK u \in Callers : call[u].phase = "await" /\ call[u].conn = c
    BY DEF ReqInv, ConnsApart, CutOff
  <1>2. OnItsWay(u, c) /\ conn[c].up = "busy"
    BY <1>1 DEF ReqInv, CallIsSo, Answered, CutOff
  <1> QED BY <1>1, <1>2 DEF ReqInv, ConnsApart

(* What Append makes of a sequence of none, and of one. *)
LEMMA AppendToOne ==
    ASSUME NEW x, NEW y
    PROVE  Append(<<>>, y) = <<y>> /\ Append(<<x>>, y) = <<x, y>>
  <1>1. <<>> \in Seq({x, y}) /\ <<x>> \in Seq({x, y}) /\ Len(<<x>>) = 1
    OBVIOUS
  <1>2. Append(<<x>>, y) = [i \in 1 .. 2 |-> IF i = 2 THEN y ELSE x]
    BY <1>1
  <1>3. <<x, y>> = [i \in 1 .. 2 |-> IF i = 2 THEN y ELSE x]
    OBVIOUS
  <1>4. Append(<<>>, y) = <<y>>
    <2> DEFINE S == {y}
    <2>1. y \in S
      OBVIOUS
    <2> HIDE DEF S
    <2> QED BY <2>1
  <1> QED BY <1>2, <1>3, <1>4

(* An answer put in a connection is its caller's to take.                  *)
LEMMA IsAnswered ==
    ASSUME ReqInv, NEW u \in Callers, NEW c \in Conns,
           call[u].phase = "await", call[u].conn = c, OnItsWay(u, c),
           call' = call, LogRises,
           NEW a \in Given, Truthful(u, a)',
           conn'[c].in = <<>>, conn'[c].out = Append(conn[c].out, a), conn'[c].up = "busy",
           call[u].kind = "read" => Unwritten(CallId(u))'
    PROVE  CallIsSo(u)'
  <1>1. conn'[c].out \in {<<a>>, <<Stray, a>>}
    <2>1. Append(<<>>, a) = <<a>> /\ Append(<<Stray>>, a) = <<Stray, a>>
      BY AppendToOne
    <2> QED BY <2>1 DEF OnItsWay, NoneYet
  <1>2. (Answered(u, c))'
    BY <1>1 DEF Answered
  <1>3. call[u].from \in Nat /\ Revision \in Nat /\ Revision' \in Int
    BY DEF ReqInv, ReqTyped, CallRecs, LogRises, Revision
  <1>4. call'[u].from <= Revision'
    BY <1>3 DEF ReqInv, CallIsSo, LogRises
  <1>5. (Answered(u, call[u].conn))'
    BY <1>2 DEF Answered
  <1> QED BY <1>4, <1>5 DEF CallIsSo, Over

(* The far side serves a request (`Serve`).                                *)
LEMMA ServesOne ==
    ASSUME ReqInv, NEW c \in Conns, Serve(c)
    PROVE  ReqInv'
  <1>1. ReqTyped /\ conn[c] \in ConnRecs /\ KeptOnce /\ KeptOfCalls
    BY DEF ReqInv, ReqTyped
  <1>2. PICK u \in Callers :
           /\ call[u].phase = "await" /\ call[u].conn = c /\ OnItsWay(u, c)
           /\ \A v \in Callers : call[v].phase = "await" /\ call[v].conn = c => v = u
    BY HasARequest DEF Serve
  <1>3. /\ Request(u) \in Sent /\ Request(u).of = CallId(u) /\ Request(u).kind = call[u].kind
        /\ call[u].kind \in CallKinds /\ call[u] \in CallRecs /\ CallId(u) \in Callers \X Nat
    BY <1>1, RequestOfCall DEF ReqTyped, CallRecs
  <1>4. /\ conn[c].in = <<Request(u)>> /\ NoneYet(conn[c].out) /\ Unwritten(CallId(u))
        /\ conn[c].up = "busy" /\ Head(conn[c].in) = Request(u) /\ Tail(conn[c].in) = <<>>
        /\ CallIsSo(u)
    BY <1>2, HasARequest DEF OnItsWay, ReqInv, CallIsSo
  <1>0. PICK a : a = AnswerTo(Request(u))
    OBVIOUS
  <1> DEFINE now == [conn[c] EXCEPT !.in = <<>>, !.out = Append(conn[c].out, a)]
  <1>5. /\ log' = Taken(Request(u)) /\ call' = call /\ left' = left /\ adrift' = adrift
        /\ conn' = [conn EXCEPT ![c] = now]
    BY <1>0, <1>1, <1>4 DEF Serve, ReqTyped
  <1>6. log \in Seq(Sent) /\ Len(Taken(Request(u))) \in Nat /\ Taken(Request(u)) \in Seq(Sent)
    BY <1>1, <1>3 DEF ReqTyped, Taken
  <1>7. a \in Given /\ a.got = Revision' /\ a.of = CallId(u)
        /\ a.status = (IF call[u].kind # "read" /\ Stale(Request(u)) THEN "stale" ELSE "ok")
    BY <1>0, <1>3, <1>5, <1>6 DEF AnswerTo, Given, Statuses, Revision
  <1>8. now \in ConnRecs /\ now.up = "busy" /\ now.in = <<>> /\ now.out = Append(conn[c].out, a)
    <2>1. Append(conn[c].out, a) \in Seq(Given \cup {Stray})
      BY <1>1, <1>7 DEF ConnRecs
    <2>2. <<>> \in Seq(Sent)
      OBVIOUS
    <2> QED BY <2>2, <1>1, <1>4, <2>1 DEF ConnRecs
  <1> HIDE DEF now
  <1>9. SameCalls
    BY <1>5 DEF SameCalls
  <1>10. CallId(u)' = CallId(u) /\ conn'[c] = now
    BY <1>1, <1>5, <1>9, SameRequest DEF ReqTyped
  <1>11. \A v \in Callers : v # u => CallId(v) # CallId(u)
    BY DEF CallId
  <1>12. CASE call[u].kind # "read" /\ ~Stale(Request(u))
    <2>1. log' = Append(log, Request(u))
      BY <1>3, <1>5, <1>12 DEF Taken
    <2>2. /\ KeptOnce' /\ KeptOfCalls' /\ LogRises
          /\ Kept' \subseteq Kept \cup {Request(u)}
          /\ adrift' \subseteq Sent /\ log' \in Seq(Sent)
          /\ Stored(CallId(u))' /\ Revision' = Revision + 1
      BY <1>1, <1>4, <1>5, <1>9, <1>12, <2>1, IsServed
    <2>3. Truthful(u, a)'
      <3>1. call[u].from <= Revision' /\ Revision' <= Revision'
        BY <1>3, <1>4, <2>2 DEF CallIsSo, CallRecs, Revision
      <3> QED BY <1>5, <1>7, <1>12, <2>2, <3>1 DEF Truthful
    <2>4. CallIsSo(u)'
      BY <1>2, <1>5, <1>7, <1>8, <1>10, <1>12, <2>2, <2>3, IsAnswered
    <2>5. \A v \in Callers : v # u => \A r \in Kept' : r \in Kept \/ r.of # CallId(v)
      BY <1>3, <1>11, <2>2
    <2> QED BY <1>2, <1>4, <1>5, <1>8, <2>2, <2>4, <2>5, FarMoves
  <1>13. CASE call[u].kind = "read" \/ Stale(Request(u))
    <2>1. log' = log
      BY <1>3, <1>5, <1>13 DEF Taken
    <2>2. KeptOnce' /\ KeptOfCalls' /\ LogRises /\ Kept' = Kept /\ Revision' = Revision
      BY <1>1, <1>5, <1>6, <2>1
         DEF KeptOnce, KeptOfCalls, CallOnce, LogRises, Kept, Revision
    <2>3. Unwritten(CallId(u))'
      BY <1>4, <1>10, <2>2 DEF Unwritten
    <2>4. Truthful(u, a)'
      <3>1. call[u].from <= Revision' /\ Revision' <= Revision'
        BY <1>4, <1>6, <2>2 DEF CallIsSo, Revision
      <3>2. a.status = "ok" => call[u].kind = "read"
        BY <1>7, <1>13
      <3> QED BY <1>5, <1>7, <2>3, <3>1, <3>2 DEF Truthful
    <2>5. CallIsSo(u)'
      BY <1>2, <1>5, <1>7, <1>8, <1>10, <2>2, <2>3, <2>4, IsAnswered
    <2>6. \A r \in Kept' : r \in Kept
      BY <2>2
    <2>7. adrift' \subseteq Sent /\ log' \in Seq(Sent)
      BY <1>1, <1>5, <2>1 DEF ReqTyped
    <2> QED BY <1>2, <1>4, <1>5, <1>8, <2>2, <2>5, <2>6, <2>7, FarMoves
  <1> QED BY <1>12, <1>13

(* The far side, or a proxy before it, refuses a request or gives it up    *)
(* (`TurnedAway`, `Gateway`).                                              *)
LEMMA TurnsAway ==
    ASSUME ReqInv, NEW c \in Conns, TurnedAway(c) \/ Gateway(c)
    PROVE  ReqInv'
  <1>1. ReqTyped /\ conn[c] \in ConnRecs /\ KeptOnce /\ KeptOfCalls /\ conn[c].in # <<>>
    BY DEF ReqInv, ReqTyped, TurnedAway, Gateway
  <1>2. PICK u \in Callers :
           /\ call[u].phase = "await" /\ call[u].conn = c /\ OnItsWay(u, c)
           /\ \A v \in Callers : call[v].phase = "await" /\ call[v].conn = c => v = u
    BY <1>1, HasARequest
  <1>3. /\ Request(u).of = CallId(u) /\ Request(u).kind = call[u].kind
        /\ CallId(u) \in Callers \X Nat /\ call[u] \in CallRecs
    BY <1>1, RequestOfCall DEF ReqTyped
  <1>4. /\ conn[c].in = <<Request(u)>> /\ NoneYet(conn[c].out) /\ Unwritten(CallId(u))
        /\ conn[c].up = "busy" /\ Head(conn[c].in) = Request(u) /\ Tail(conn[c].in) = <<>>
        /\ CallIsSo(u)
    BY <1>1, <1>2, HasARequest DEF OnItsWay, ReqInv, CallIsSo
  <1>5. PICK status \in {"busy", "rate", "rateLong", "gateway"} :
           /\ conn' = [conn EXCEPT ![c].in = Tail(@),
                         ![c].out = Append(@, [of |-> CallId(u), got |-> 0, status |-> status])]
           /\ \/ adrift' = adrift
              \/ status = "gateway" /\ adrift' = adrift \cup Writes(<<Request(u)>>)
           /\ call' = call /\ left' = left /\ log' = log
    <2>1. CASE TurnedAway(c)
      <3>1. PICK status \in {"busy"} \union (IF link = "http" THEN {"rate", "rateLong"} ELSE {}) :
               conn' = [conn EXCEPT ![c].in = Tail(@),
                          ![c].out = Append(@, [of |-> Head(conn[c].in).of,
                                                got |-> 0, status |-> status])]
        BY <2>1 DEF TurnedAway
      <3>2. status \in {"busy", "rate", "rateLong", "gateway"}
        BY <3>1
      <3> QED BY <1>3, <1>4, <2>1, <3>1, <3>2 DEF TurnedAway
    <2>2. CASE Gateway(c)
      BY <1>3, <1>4, <2>2 DEF Gateway
    <2> QED BY <2>1, <2>2
  <1>6. PICK a : a = [of |-> CallId(u), got |-> 0, status |-> status]
    OBVIOUS
  <1>7. a \in Given /\ a.status = status
    BY <1>3, <1>6 DEF Given, Statuses
  <1> DEFINE now == [conn[c] EXCEPT !.in = <<>>, !.out = Append(conn[c].out, a)]
  <1>8. conn' = [conn EXCEPT ![c] = now]
    BY <1>1, <1>4, <1>5, <1>6 DEF ReqTyped, ConnRecs
  <1>9. now \in ConnRecs /\ now.up = "busy" /\ now.in = <<>> /\ now.out = Append(conn[c].out, a)
    <2>1. Append(conn[c].out, a) \in Seq(Given \cup {Stray})
      BY <1>1, <1>7 DEF ConnRecs
    <2>2. <<>> \in Seq(Sent)
      OBVIOUS
    <2> QED BY <1>1, <1>4, <2>1, <2>2 DEF ConnRecs
  <1> HIDE DEF now
  <1>10. SameCalls
    BY <1>5 DEF SameCalls
  <1>11. CallId(u)' = CallId(u) /\ conn'[c] = now
    BY <1>1, <1>8, <1>10, SameRequest DEF ReqTyped
  <1>12. call' = call /\ left' = left /\ now.up = conn[c].up /\ conn[c].up = "busy"
    BY <1>4, <1>5, <1>9
  <1>13. CASE adrift' = adrift
    <2>1. KeptOnce' /\ KeptOfCalls' /\ LogRises /\ Kept' = Kept
      BY <1>1, <1>5, <1>13
         DEF KeptOnce, KeptOfCalls, CallOnce, LogRises, Kept, Revision, ReqTyped
    <2>2. Unwritten(CallId(u))'
      BY <1>4, <1>11, <2>1 DEF Unwritten
    <2>3. Truthful(u, a)'
      BY <1>7, <2>2 DEF Truthful
    <2>4. CallIsSo(u)'
      BY <1>2, <1>5, <1>7, <1>9, <1>11, <2>1, <2>2, <2>3, IsAnswered
    <2>5. \A r \in Kept' : r \in Kept
      BY <2>1
    <2>6. adrift' \subseteq Sent /\ log' \in Seq(Sent)
      BY <1>1, <1>5, <1>13 DEF ReqTyped
    <2> QED BY <1>2, <1>8, <1>9, <1>12, <2>1, <2>4, <2>5, <2>6, FarMoves
  <1>14. CASE /\ adrift' = adrift \cup {Request(u)} /\ call[u].kind # "read"
              /\ status = "gateway"
    <2>1. /\ KeptOnce' /\ KeptOfCalls' /\ LogRises
          /\ Kept' \subseteq Kept \cup {Request(u)}
          /\ adrift' \subseteq Sent /\ log' \in Seq(Sent)
      BY <1>1, <1>4, <1>5, <1>10, <1>14, GoesAdrift
    <2>2. Truthful(u, a)'
      BY <1>7, <1>14 DEF Truthful
    <2>3. CallIsSo(u)'
      BY <1>2, <1>5, <1>7, <1>9, <1>11, <1>14, <2>1, <2>2, IsAnswered
    <2>4. \A v \in Callers : v # u => \A r \in Kept' : r \in Kept \/ r.of # CallId(v)
      BY <1>3, <2>1 DEF CallId
    <2> QED BY <1>2, <1>8, <1>9, <1>12, <2>1, <2>3, <2>4, FarMoves
  <1> QED BY <1>3, <1>5, <1>13, <1>14, WritesOfOne

(* The far side ends, or something strays into what it writes (`FarEnds`,  *)
(* `Strays`).                                                              *)
LEMMA EndsOrStrays ==
    ASSUME ReqInv, NEW c \in Conns, FarEnds(c) \/ Strays(c)
    PROVE  ReqInv'
  <1>1. /\ ReqTyped /\ conn[c] \in ConnRecs /\ KeptOnce /\ KeptOfCalls
        /\ call' = call /\ left' = left /\ log' = log /\ adrift' = adrift
    BY DEF ReqInv, ReqTyped, FarEnds, Strays
  <1>2. /\ KeptOnce' /\ KeptOfCalls' /\ LogRises /\ Kept' = Kept /\ Revision' = Revision
        /\ adrift' \subseteq Sent /\ log' \in Seq(Sent) /\ SameCalls
    BY <1>1 DEF KeptOnce, KeptOfCalls, CallOnce, LogRises, Kept, Revision, ReqTyped, SameCalls
  <1>3. PICK now \in ConnRecs :
           /\ now.up = conn[c].up /\ conn' = [conn EXCEPT ![c] = now]
           /\ \/ now.in = <<>> /\ now.out \in {<<>>, conn[c].out}
              \/ now.in = conn[c].in /\ now.out = <<Stray>> /\ conn[c].out = <<>>
    <2>1. CASE FarEnds(c)
      <3>1. PICK out \in {<<>>, conn[c].out} :
               conn' = [conn EXCEPT ![c].far = FALSE, ![c].in = <<>>, ![c].out = out]
        BY <2>1 DEF FarEnds
      <3> DEFINE now == [conn[c] EXCEPT !.far = FALSE, !.in = <<>>, !.out = out]
      <3>2. conn' = [conn EXCEPT ![c] = now]
        BY <1>1, <3>1 DEF ReqTyped, ConnRecs
      <3>3. now \in ConnRecs /\ now.up = conn[c].up /\ now.in = <<>> /\ now.out = out
        <4>1. <<>> \in Seq(Sent) /\ <<>> \in Seq(Given \cup {Stray})
          OBVIOUS
        <4>2. out \in Seq(Given \cup {Stray})
          BY <1>1, <3>1, <4>1 DEF ConnRecs
        <4> QED BY <1>1, <4>1, <4>2 DEF ConnRecs
      <3> HIDE DEF now
      <3> QED BY <3>1, <3>2, <3>3
    <2>2. CASE Strays(c)
      <3> DEFINE now == [conn[c] EXCEPT !.out = <<Stray>>]
      <3>1. conn' = [conn EXCEPT ![c] = now] /\ conn[c].out = <<>>
        BY <1>1, <2>2 DEF Strays, ReqTyped, ConnRecs
      <3>2. now \in ConnRecs /\ now.up = conn[c].up /\ now.in = conn[c].in /\ now.out = <<Stray>>
        <4>1. <<Stray>> \in Seq(Given \cup {Stray})
          OBVIOUS
        <4> QED BY <1>1, <4>1 DEF ConnRecs
      <3> HIDE DEF now
      <3> QED BY <3>1, <3>2
    <2> QED BY <2>1, <2>2
  <1>4. conn'[c] = now
    BY <1>1, <1>3 DEF ReqTyped
  <1>5. ASSUME NEW u \in Callers, call[u].phase = "await", call[u].conn = c
        PROVE  CallIsSo(u)'
    <2>1. CallIsSo(u) /\ (OnItsWay(u, c) \/ Answered(u, c) \/ CutOff(c))
      BY <1>5 DEF ReqInv, CallIsSo
    <2>2. CallId(u)' = CallId(u) /\ Request(u)' = Request(u)
      BY <1>2, SameRequest
    <2>3. (Unwritten(CallId(u)) => Unwritten(CallId(u))')
          /\ (\A a \in Given : Truthful(u, a) => Truthful(u, a)')
      BY <1>1, <1>2, <2>2 DEF Unwritten, Truthful, Stored
    <2>4. (OnItsWay(u, c) \/ Answered(u, c) \/ CutOff(c))'
      <3>1. CASE now.in = <<>> /\ NoneYet(now.out)
        BY <1>4, <3>1 DEF CutOff
      <3>2. CASE now.in = conn[c].in /\ now.out = <<Stray>> /\ conn[c].out = <<>>
        <4>1. ~Answered(u, c)
          BY <3>2 DEF Answered
        <4> QED BY <1>4, <2>1, <2>2, <2>3, <3>2, <4>1 DEF OnItsWay, CutOff, NoneYet
      <3>3. CASE now.in = <<>> /\ now.out = conn[c].out /\ ~NoneYet(now.out)
        <4>1. Answered(u, c)
          BY <2>1, <3>3 DEF OnItsWay, CutOff
        <4> QED BY <1>4, <2>3, <3>3, <4>1 DEF Answered
      <3> QED BY <1>3, <3>1, <3>2, <3>3 DEF NoneYet
    <2>5. CallIsSo(u)
      BY DEF ReqInv
    <2>6. (OnItsWay(u, call[u].conn) \/ Answered(u, call[u].conn) \/ CutOff(call[u].conn))'
      BY <1>1, <1>5, <2>4 DEF OnItsWay, Answered, CutOff
    <2>7. call'[u].conn = c /\ conn'[c].up = "busy"
      BY <1>1, <1>3, <1>4, <1>5, <2>5 DEF CallIsSo
    <2> QED BY <1>1, <1>2, <1>5, <2>2, <2>3, <2>5, <2>6, <2>7 DEF CallIsSo, Over
  <1>6. conn[c].up # "busy" => now.in = <<>> /\ NoneYet(now.out)
    <2>1. conn[c].up # "busy" => CutOff(c)
      BY DEF ReqInv, ConnsApart, CallIsSo
    <2> QED BY <1>3, <2>1 DEF CutOff, NoneYet
  <1>7. \A r \in Kept' : r \in Kept
    BY <1>2
  <1> QED BY <1>1, <1>2, <1>3, <1>5, <1>6, <1>7, FarMoves

(* A call's own change of itself alone: it is woken, its dial fails.       *)
LEMMA AloneChanges ==
    ASSUME ReqInv, NEW u \in Callers, NEW now \in CallRecs,
           call' = [call EXCEPT ![u] = now], left' = left, conn' = conn,
           log' = log, adrift' = adrift,
           call[u].phase # "await", now.phase # "await",
           now.made = call[u].made, now.intent = call[u].intent, now.kind = call[u].kind,
           now.rev = call[u].rev, CallIsSo(u)'
    PROVE  ReqInv'
  <1>1. /\ call' \in [Callers -> CallRecs] /\ call'[u] = now
        /\ \A v \in Callers : v # u => call'[v] = call[v]
        /\ ReqTyped
    BY DEF ReqInv, ReqTyped
  <1>2. KeptOnce' /\ KeptOfCalls' /\ LogRises /\ Kept' = Kept
    <2>1. SameCalls
      BY <1>1 DEF SameCalls
    <2>2. \A r \in Kept : r.of[1] \in Callers /\ r.intent[1] \in Callers
      BY <1>1, KeptAreSent
    <2>3. LogRises /\ Kept' = Kept
      BY <1>1 DEF LogRises, Kept, Revision, ReqTyped
    <2>4. KeptOnce'
      BY <2>3 DEF ReqInv, KeptOnce, CallOnce
    <2> QED BY <2>1, <2>2, <2>3, <2>4 DEF ReqInv, KeptOfCalls, SameCalls
  <1>3. ASSUME NEW v \in Callers, v # u PROVE CallIsSo(v)'
    BY <1>1, <1>2, <1>3, Bystands DEF ReqInv
  <1>4. ConnsApart'
    <2>1. \A v \in Callers : /\ call'[v].phase = "await" <=> call[v].phase = "await"
                             /\ call[v].phase = "await" => call'[v].conn = call[v].conn
      BY <1>1
    <2> QED BY <2>1 DEF ReqInv, ConnsApart, CutOff
  <1> QED BY <1>1, <1>2, <1>3, <1>4 DEF ReqInv, ReqTyped

(* An answer is taken (`Receive`).                                         *)
LEMMA Receives ==
    ASSUME ReqInv, NEW u \in Callers, Receive(u), Head(conn[call[u].conn].out) # Stray
    PROVE  ReqInv'
  <1>1. PICK c \in Conns :
           c = call[u].conn /\ conn[c].up = "busy"
           /\ (OnItsWay(u, c) \/ Answered(u, c) \/ CutOff(c))
    BY DEF Receive, ReqInv, CallIsSo
  <1>2. ReqTyped /\ conn[c] \in ConnRecs /\ call[u] \in CallRecs /\ CallIsSo(u)
    BY DEF ReqInv, ReqTyped
  <1>3. PICK a \in Given :
           /\ conn[c].in = <<>> /\ conn[c].out = <<a>> /\ Head(conn[c].out) = a
           /\ Tail(conn[c].out) = <<>> /\ Truthful(u, a)
    <2>1. conn[c].out # <<>> /\ Head(conn[c].out) # Stray
      BY <1>1 DEF Receive
    <2>2. Answered(u, c)
      BY <1>1, <2>1 DEF OnItsWay, CutOff, NoneYet
    <2>3. PICK a \in Given : conn[c].out \in {<<a>>, <<Stray, a>>} /\ Truthful(u, a)
      BY <2>2 DEF Answered
    <2>4. conn[c].out = <<a>>
      <3> HIDE DEF Stray
      <3> QED BY <2>1, <2>3
    <2> QED BY <2>2, <2>3, <2>4 DEF Answered
  <1>4. a # Stray
    BY <1>1, <1>3
  <1> DEFINE now == [conn[c] EXCEPT !.up = "idle", !.out = <<>>]
  <1>5. /\ conn' = [conn EXCEPT ![c] = now] /\ log' = log /\ adrift' = adrift /\ left' = left
        /\ call[u].phase = "await"
    BY <1>1, <1>2, <1>3, <1>4 DEF Receive, ReqTyped, ConnRecs
  <1>6. now \in ConnRecs /\ now.up = "idle" /\ now.in = <<>> /\ now.out = <<>>
    <2>1. <<>> \in Seq(Given \cup {Stray})
      OBVIOUS
    <2> QED BY <1>2, <1>3, <2>1 DEF ConnRecs
  <1> HIDE DEF now
  <1>7. /\ conn' \in [Conns -> ConnRecs] /\ conn'[c] = now
        /\ \A d \in Conns : d # c => conn'[d] = conn[d]
    BY <1>2, <1>5, <1>6 DEF ReqTyped
  <1>8. LogRises /\ Kept' = Kept /\ Revision' = Revision
    BY <1>2, <1>5 DEF LogRises, Kept, Revision, ReqTyped
  <1>9. /\ call' \in [Callers -> CallRecs] /\ SameCalls
        /\ \A v \in Callers : v # u => call'[v] = call[v]
        /\ call'[u].phase # "await" /\ CallIsSo(u)'
    <2>1. CASE a.status \in {"ok", "stale"}
      <3> DEFINE got == IF a.status = "ok" THEN a.got ELSE call[u].got
                 told == [call[u] EXCEPT !.phase = "done", !.conn = NoConn,
                             !.result = a.status, !.got = got]
      <3>1. call' = [call EXCEPT ![u] = told]
        BY <1>1, <1>3, <1>4, <2>1 DEF Receive
      <3>2. got \in Nat /\ a.status \in Results
        BY <1>2 DEF Given, CallRecs, Results
      <3> HIDE DEF got
      <3>3. /\ told \in CallRecs /\ told.phase = "done" /\ told.result = a.status
            /\ told.made = call[u].made /\ told.intent = call[u].intent
            /\ told.kind = call[u].kind /\ told.rev = call[u].rev
            /\ told.from = call[u].from /\ told.got = got
        BY <1>2, <3>2 DEF CallRecs
      <3> HIDE DEF told
      <3>4. /\ call' \in [Callers -> CallRecs] /\ call'[u] = told
            /\ \A v \in Callers : v # u => call'[v] = call[v]
        BY <1>2, <3>1, <3>3 DEF ReqTyped
      <3>5. SameCalls
        BY <3>3, <3>4 DEF SameCalls
      <3>6. CallId(u)' = CallId(u)
        BY <3>5, SameRequest
      <3>7. /\ Unwritten(CallId(u)) => Unwritten(CallId(u))'
            /\ Stored(CallId(u)) => Stored(CallId(u))'
        BY <1>5, <1>8, <3>6 DEF Unwritten, Stored
      <3>8. CallIsSo(u)'
        <4>1. call'[u].from <= Revision'
          BY <1>2, <1>8, <3>3, <3>4 DEF CallIsSo
        <4>2. call'[u].kind # "read" =>
                /\ call'[u].result = "ok" => Stored(CallId(u))'
                /\ call'[u].result \in {"stale", "rate", "rateLong", "dial"} =>
                      Unwritten(CallId(u))'
          BY <1>3, <2>1, <3>3, <3>4, <3>7 DEF Truthful
        <4>3. call'[u].result = "ok" => call'[u].from <= call'[u].got /\ call'[u].got <= Revision'
          BY <1>3, <1>8, <3>3, <3>4 DEF Truthful, got
        <4>4. call'[u].kind = "read" => Unwritten(CallId(u))'
          BY <1>2, <3>3, <3>4, <3>7 DEF CallIsSo
        <4>5. call'[u].phase = "done"
          BY <3>3, <3>4
        <4> QED BY <4>1, <4>2, <4>3, <4>4, <4>5 DEF CallIsSo
      <3> QED BY <3>3, <3>4, <3>5, <3>8
    <2>2. CASE a.status \notin {"ok", "stale"}
      <3>1. CallFails(u, a.status)
        BY <1>1, <1>3, <1>4, <2>2 DEF Receive
      <3>2. a.status \in {"lost", "busy", "rate", "rateLong", "gateway"}
        BY <2>2 DEF Given, Statuses
      <3>3. call[u].kind = "read" \/ a.status \in {"rate", "rateLong"} =>
               \A r \in Kept' : r.of # CallId(u)
        BY <1>2, <1>3, <1>8 DEF Truthful, CallIsSo, Unwritten
      <3>4. CallIsSo(u)'
        BY <1>2, <1>8, <3>1, <3>2, <3>3, FailsTruly
      <3> QED BY <1>2, <3>1, <3>2, <3>4, FailsAlike
    <2> QED BY <2>1, <2>2
  <1>10. ASSUME NEW v \in Callers, v # u PROVE CallIsSo(v)'
    <2>1. call[v].phase = "await" => conn'[call[v].conn] = conn[call[v].conn]
      BY <1>1, <1>5, <1>7, <1>10 DEF ReqInv, ConnsApart, CallIsSo
    <2> QED BY <1>2, <1>8, <1>9, <1>10, <2>1, Bystands DEF ReqInv
  <1>11. KeptOnce' /\ KeptOfCalls'
    <2>1. \A r \in Kept : r.of[1] \in Callers /\ r.intent[1] \in Callers
      BY <1>2, KeptAreSent
    <2> QED BY <1>5, <1>8, <1>9, <2>1 DEF ReqInv, KeptOnce, KeptOfCalls, CallOnce, SameCalls
  <1>12. ConnsApart'
    <2>1. CutOff(c)' /\ conn'[c].up # "busy"
      BY <1>6, <1>7 DEF CutOff, NoneYet
    <2>2. ASSUME NEW d \in Conns
          PROVE  \/ conn'[d].up # "busy" /\ CutOff(d)'
                 \/ \E v \in Callers : call'[v].phase = "await" /\ call'[v].conn = d
      BY <1>1, <1>7, <1>9, <2>1 DEF ReqInv, ConnsApart, CutOff
    <2>3. \A v, w \in Callers :
             call'[v].phase = "await" /\ call'[w].phase = "await" /\ call'[v].conn = call'[w].conn
                => v = w
      BY <1>9 DEF ReqInv, ConnsApart
    <2> QED BY <2>2, <2>3 DEF ConnsApart
  <1> QED BY <1>2, <1>5, <1>7, <1>9, <1>10, <1>11, <1>12 DEF ReqInv, ReqTyped

-----------------------------------------------------------------------------
(* At the start nothing is sent or kept (`Client::new`).                   *)
LEMMA ReqInitially == ReqInit => ReqInv
  <1> SUFFICES ASSUME ReqInit PROVE ReqInv
    OBVIOUS
  <1>1. /\ log = <<>> /\ adrift = {} /\ Kept = {} /\ Revision = 0
        /\ \A c \in Conns : conn[c] = Closed
        /\ \A u \in Callers :
              /\ call[u].phase = "done" /\ call[u].made = 0 /\ call[u].from = 0
              /\ call[u].kind = "read"
    BY DEF ReqInit, Kept, Revision
  <1>2. ReqTyped
    <2>1. call \in [Callers -> CallRecs]
      BY DEF ReqInit, CallRecs, CallKinds, Results, NoRev
    <2>2. conn \in [Conns -> ConnRecs]
      <3>1. <<>> \in Seq(Sent) /\ <<>> \in Seq(Given \cup {Stray})
        OBVIOUS
      <3> QED BY <3>1 DEF ReqInit, ConnRecs, Closed
    <2>3. left \in [Callers -> Nat]
      BY RequestsAssumption DEF ReqInit
    <2> QED BY <1>1, <2>1, <2>2, <2>3 DEF ReqTyped
  <1>3. KeptOnce /\ KeptOfCalls
    BY <1>1 DEF KeptOnce, KeptOfCalls, CallOnce
  <1>4. \A u \in Callers : CallIsSo(u)
    BY <1>1 DEF CallIsSo, Over, Unwritten
  <1>5. ConnsApart
    BY <1>1 DEF ConnsApart, CutOff, NoneYet, Closed
  <1> QED BY <1>2, <1>3, <1>4, <1>5 DEF ReqInv

(* Each step of a caller's own thread keeps the invariant (client.rs).     *)
LEMMA ClientSteps ==
    ASSUME ReqInv, NEW u \in Callers, Begin(u) \/ Again(u) \/ Client(u)
    PROVE  ReqInv'
  <1>0. /\ ReqTyped /\ CallIsSo(u) /\ call[u] \in CallRecs
        /\ call[u].intent \in Nat /\ call[u].rev \in Int /\ call[u].got \in Nat
    BY DEF ReqInv, ReqTyped, CallRecs
  <1>1. CASE Begin(u)
    <2>1. CASE Call(u, "read", NoRev, call[u].intent)
      BY <1>0, <2>1, Begins DEF CallKinds, NoRev
    <2>2. ASSUME NEW kind \in {"write", "once"}, NEW rev \in {NoRev, call[u].got},
                 Call(u, kind, rev, call[u].intent + 1)
          PROVE  ReqInv'
      <3>1. kind \in CallKinds /\ rev \in Int /\ call[u].intent < call[u].intent + 1
            /\ call[u].intent + 1 \in Nat /\ call[u].intent <= call[u].intent + 1
        BY <1>0 DEF CallKinds, NoRev
      <3> QED BY <2>2, <3>1, Begins
    <2> QED BY <1>1, <2>1, <2>2 DEF Begin
  <1>2. CASE Again(u)
    <2>1. /\ Call(u, "write", call[u].rev, call[u].intent) /\ call[u].kind = "write"
          /\ "write" \in CallKinds
      BY <1>2 DEF Again, CallKinds
    <2> QED BY <1>0, <2>1, Begins
  <1>3. CASE Send(u)
    <2>1. call[u].phase = "send"
      BY <1>3 DEF Send
    <2>2. CASE \E c \in Open : Put(u, c, conn[c])
      <3>1. PICK c \in Open : Put(u, c, conn[c])
        BY <2>2
      <3>2. /\ c \in Conns /\ conn[c] \in ConnRecs /\ conn[c].up # "busy" /\ conn[c].out = <<>>
        BY <1>0, <3>1 DEF Open, IsOpen, ReqTyped
      <3>3. conn[c].in = <<>>
        BY <3>2 DEF ReqInv, ConnsApart, CutOff, CallIsSo
      <3> QED BY <2>1, <3>1, <3>2, <3>3, IsPut
    <2>3. CASE Free # {} /\ Put(u, CHOOSE c \in Free : TRUE, [Closed EXCEPT !.far = TRUE])
      <3>1. PICK c \in Free : Put(u, c, [Closed EXCEPT !.far = TRUE])
        BY <2>3
      <3>2. c \in Conns /\ conn[c].up # "busy"
        BY <3>1 DEF Free
      <3>3. /\ [Closed EXCEPT !.far = TRUE] \in ConnRecs
            /\ [Closed EXCEPT !.far = TRUE].in = <<>> /\ [Closed EXCEPT !.far = TRUE].out = <<>>
        <4>1. <<>> \in Seq(Sent) /\ <<>> \in Seq(Given \cup {Stray})
          OBVIOUS
        <4> QED BY <4>1 DEF Closed, ConnRecs
      <3> QED BY <2>1, <3>1, <3>2, <3>3, IsPut
    <2> QED BY <1>3, <2>2, <2>3 DEF Send
  <1>4. CASE DialFails(u)
    <2> DEFINE now == [call[u] EXCEPT !.phase = "done", !.result = "dial"]
    <2>1. /\ call' = [call EXCEPT ![u] = now] /\ call[u].phase = "send"
          /\ left' = left /\ conn' = conn /\ log' = log /\ adrift' = adrift
      BY <1>4 DEF DialFails
    <2>2. /\ now \in CallRecs /\ now.phase = "done" /\ now.result = "dial"
          /\ now.made = call[u].made /\ now.intent = call[u].intent /\ now.kind = call[u].kind
          /\ now.rev = call[u].rev /\ now.from = call[u].from
      BY <1>0 DEF CallRecs, Results
    <2> HIDE DEF now
    <2>3. call'[u] = now
      BY <1>0, <2>1, <2>2 DEF ReqTyped
    <2>4. CallIsSo(u)'
      <3>1. Unwritten(CallId(u)) /\ CallId(u)' = CallId(u)
        BY <1>0, <2>1, <2>2, <2>3 DEF CallIsSo, CallId
      <3>2. Unwritten(CallId(u))' /\ Revision' = Revision
        BY <2>1, <3>1 DEF Unwritten, Kept, Revision
      <3> QED BY <1>0, <2>2, <2>3, <3>2 DEF CallIsSo
    <2> QED BY <2>1, <2>2, <2>4, AloneChanges
  <1>5. CASE Wake(u)
    <2> DEFINE now == [call[u] EXCEPT !.phase = "send"]
    <2>1. /\ call' = [call EXCEPT ![u] = now] /\ call[u].phase = "sleep"
          /\ left' = left /\ conn' = conn /\ log' = log /\ adrift' = adrift
      BY <1>0, <1>5 DEF Wake, ReqTyped
    <2>2. /\ now \in CallRecs /\ now.phase = "send"
          /\ now.made = call[u].made /\ now.intent = call[u].intent /\ now.kind = call[u].kind
          /\ now.rev = call[u].rev /\ now.from = call[u].from
      BY <1>0 DEF CallRecs
    <2> HIDE DEF now
    <2>3. call'[u] = now
      BY <1>0, <2>1, <2>2 DEF ReqTyped
    <2>4. CallIsSo(u)'
      <3>1. Unwritten(CallId(u)) /\ CallId(u)' = CallId(u)
        BY <1>0, <2>1, <2>2, <2>3 DEF CallIsSo, CallId
      <3>2. Unwritten(CallId(u))' /\ Revision' = Revision
        BY <2>1, <3>1 DEF Unwritten, Kept, Revision
      <3> QED BY <1>0, <2>2, <2>3, <3>2 DEF CallIsSo, Over
    <2> QED BY <2>1, <2>2, <2>4, AloneChanges
  <1>6. CASE Receive(u)
    <2>1. CASE Head(conn[call[u].conn].out) # Stray
      BY <1>6, <2>1, Receives
    <2>2. CASE Head(conn[call[u].conn].out) = Stray
      <3>1. /\ call[u].phase = "await" /\ CallFails(u, "lost") /\ Drop(call[u].conn)
            /\ UNCHANGED <<link, left, log>>
        BY <1>6, <2>2 DEF Receive
      <3> QED BY <3>1, GivesUp
    <2> QED BY <2>1, <2>2
  <1>7. CASE NoAnswer(u) \/ AwaitEnds(u)
    <2>1. /\ call[u].phase = "await" /\ CallFails(u, "lost") /\ Drop(call[u].conn)
          /\ UNCHANGED <<link, left, log>>
      BY <1>7 DEF NoAnswer, AwaitEnds
    <2> QED BY <2>1, GivesUp
  <1> QED BY <1>1, <1>2, <1>3, <1>4, <1>5, <1>6, <1>7 DEF Client

(* The store takes or loses a write that no one listens for.               *)
LEMMA LateSteps ==
    ASSUME ReqInv, StoresLate
    PROVE  ReqInv'
  <1>1. call' = call /\ conn' = conn /\ left' = left /\ ReqTyped
    BY DEF StoresLate, ReqInv
  <1>2. /\ KeptOnce' /\ KeptOfCalls' /\ LogRises /\ Kept' \subseteq Kept
        /\ adrift' \subseteq Sent /\ log' \in Seq(Sent)
    BY IsStoredLate DEF ReqInv
  <1>3. \A u \in Callers : CallIsSo(u)'
    BY <1>1, <1>2, Bystands DEF ReqInv
  <1>4. ConnsApart'
    BY <1>1 DEF ReqInv, ConnsApart, CutOff
  <1> QED BY <1>1, <1>2, <1>3, <1>4 DEF ReqInv, ReqTyped

(***************************************************************************)
(* A call is in one place at a time, and an answer is of what became of it *)
(* (client.rs `send` and `once`, and the far side's loop in dial.rs).      *)
(***************************************************************************)
THEOREM CallsInOnePlace == ReqSpec => []ReqInv
  <1>1. ReqInv /\ [ReqNext]_reqVars => ReqInv'
    <2> SUFFICES ASSUME ReqInv, [ReqNext]_reqVars PROVE ReqInv'
      OBVIOUS
    <2>1. ASSUME NEW u \in Callers, Begin(u) \/ Again(u) \/ Client(u) PROVE ReqInv'
      BY <2>1, ClientSteps
    <2>2. ASSUME NEW c \in Conns, Far(c) PROVE ReqInv'
      BY <2>2, ServesOne, TurnsAway, EndsOrStrays DEF Far
    <2>3. CASE StoresLate
      BY <2>3, LateSteps
    <2>4. CASE UNCHANGED reqVars
      <3>1. call' = call /\ conn' = conn /\ left' = left /\ log' = log /\ adrift' = adrift
        BY <2>4 DEF reqVars
      <3>2. ReqTyped' /\ KeptOnce' /\ KeptOfCalls' /\ ConnsApart'
        BY <3>1 DEF ReqInv, ReqTyped, KeptOnce, KeptOfCalls, CallOnce, Kept, ConnsApart, CutOff
      <3>3. Kept' = Kept /\ LogRises
        BY <3>1 DEF Kept, LogRises, Revision, ReqInv, ReqTyped
      <3>4. \A u \in Callers : CallIsSo(u)'
        BY <3>1, <3>3, Bystands DEF ReqInv
      <3> QED BY <3>2, <3>4 DEF ReqInv
    <2> QED BY <2>1, <2>2, <2>3, <2>4 DEF ReqNext
  <1> QED BY <1>1, ReqInitially, PTL DEF ReqSpec

(***************************************************************************)
(* No write is stored twice: one call is in the log once, and one made of  *)
(* a revision stands at the place just past it, where its user's next try  *)
(* of the same cannot stand too.                                           *)
(***************************************************************************)
THEOREM WritesStoredOnce == ReqSpec => []StoredOnce
  <1>1. ReqInv => StoredOnce
    <2> SUFFICES ASSUME ReqInv PROVE StoredOnce
      OBVIOUS
    <2>1. \A i \in DOMAIN log : log[i] \in Kept
      BY DEF Kept
    <2>2. IntentOnce
      <3> SUFFICES ASSUME NEW i \in DOMAIN log, NEW j \in DOMAIN log,
                          log[i].intent = log[j].intent, log[i].rev # NoRev
                   PROVE  i = j
        BY DEF IntentOnce
      <3>1. log[i].rev = log[j].rev
        BY <2>1 DEF ReqInv, KeptOnce
      <3>2. log[i].rev = i - 1 /\ log[j].rev = j - 1
        BY <3>1 DEF ReqInv, KeptOnce
      <3>3. i \in Int /\ j \in Int
        BY DEF ReqInv, ReqTyped
      <3>4. i - 1 = j - 1
        BY <3>1, <3>2
      <3> QED BY <3>3, <3>4
    <2> QED BY <2>2 DEF StoredOnce, ReqInv, KeptOnce
  <1> QED BY <1>1, CallsInOnePlace, PTL

(***************************************************************************)
(* What a caller is told of a write, and what a read gives it, is so.      *)
(***************************************************************************)
THEOREM ToldIsSo == ReqSpec => []AnswerIsSo
  <1>1. ReqInv => AnswerIsSo
    <2> SUFFICES ASSUME ReqInv PROVE AnswerIsSo
      OBVIOUS
    <2>1. \A c \in Conns : \A i \in DOMAIN conn[c].in :
             \E u \in Callers : conn[c].in[i] = Request(u) /\ call[u].phase = "await"
      <3> SUFFICES ASSUME NEW c \in Conns, NEW i \in DOMAIN conn[c].in
                   PROVE  \E u \in Callers :
                             conn[c].in[i] = Request(u) /\ call[u].phase = "await"
        OBVIOUS
      <3>1. conn[c].in # <<>>
        OBVIOUS
      <3>2. PICK u \in Callers : call[u].phase = "await" /\ OnItsWay(u, c)
        BY <3>1, HasARequest
      <3> QED BY <3>2 DEF OnItsWay
    <2>2. WriteIsSo
      <3> SUFFICES ASSUME NEW u \in Callers, Over(u), call[u].kind # "read"
                   PROVE  /\ call[u].result = "ok" => \E i \in DOMAIN log : log[i].of = CallId(u)
                          /\ call[u].result \in {"stale", "rate", "rateLong", "dial"} =>
                                /\ ~ \E i \in DOMAIN log : log[i].of = CallId(u)
                                /\ ~ \E req \in adrift : req.of = CallId(u)
                                /\ ~ \E c \in Conns : \E i \in DOMAIN conn[c].in :
                                       conn[c].far /\ conn[c].in[i].of = CallId(u)
        BY DEF WriteIsSo
      <3>1. /\ call[u].result = "ok" => Stored(CallId(u))
            /\ call[u].result \in {"stale", "rate", "rateLong", "dial"} => Unwritten(CallId(u))
        BY DEF ReqInv, CallIsSo
      <3>2. ~ \E c \in Conns : \E i \in DOMAIN conn[c].in : conn[c].in[i].of = CallId(u)
        <4>1. \A v \in Callers : call[v].phase = "await" => Request(v).of # CallId(u)
          BY DEF Over, Request, CallId
        <4> QED BY <2>1, <4>1
      <3> QED BY <3>1, <3>2 DEF Stored, Unwritten, Kept
    <2>3. ReadIsSo
      <3> SUFFICES ASSUME NEW u \in Callers, Over(u), call[u].kind = "read",
                          call[u].result = "ok"
                   PROVE  call[u].got \in call[u].from .. Revision
        BY DEF ReadIsSo
      <3>1. call[u].got \in Nat /\ call[u].from \in Nat /\ Revision \in Nat
        BY DEF ReqInv, ReqTyped, CallRecs, Revision
      <3> QED BY <3>1 DEF ReqInv, CallIsSo
    <2> QED BY <2>2, <2>3 DEF AnswerIsSo
  <1> QED BY <1>1, CallsInOnePlace, PTL

=============================================================================
