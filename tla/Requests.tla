------------------------------ MODULE Requests ------------------------------
(***************************************************************************)
(* The client of a store on another machine: calls sent over connections   *)
(* that are kept, lost, timed out and dropped, to a far side that answers  *)
(* each connection's requests in turn, or refuses them, or answers too     *)
(* late.  Over a pipe a connection is a child process; over HTTP it is a   *)
(* socket, with proxies and a rate limit between.                          *)
(*                                                                         *)
(* The store is the log of the writes it took, and its revision their      *)
(* number.  Times are left out: any wait may end, and any may be one that  *)
(* goes past the caller's deadline.                                        *)
(***************************************************************************)
EXTENDS Integers, Sequences, FiniteSets

CONSTANTS
    Callers,    \* what sends calls, each one at a time, all by one client
    Conns,      \* the connections there can be at once
    Links,      \* how the far side may be reached: "pipe" and "http"
    Plans,      \* how many calls each caller makes (a bound), in each plan
    ReadTries   \* how often a read that failed is sent again (READ_RETRIES)

ASSUME RequestsAssumption ==
    /\ Links \subseteq {"pipe", "http"}
    /\ Plans \subseteq [Callers -> Nat] /\ ReadTries \in Nat

VARIABLES
    link,       \* how the far side is reached
    left,       \* the calls each caller has left to make (a bound)
    call,       \* each caller's call
    conn,       \* the connections
    adrift,     \* writes the far side has and no one listens for any more
    log         \* the writes the store took

reqVars == <<link, left, call, conn, adrift, log>>

CallKinds == {"read", "write", "once"}   \* Retry::Read, Write and Never
NoRev == -1
NoConn == "no connection"
Stray == [status |-> "stray"]

Closed == [up |-> "none", far |-> FALSE, in |-> <<>>, out |-> <<>>]

(* The call of `u`, by a number of its own.  A write sent once more by its *)
(* user, who does not know how the last went, is another call of the same  *)
(* intent.                                                                 *)
CallId(u) == <<u, call[u].made>>
Request(u) == [of |-> CallId(u), intent |-> <<u, call[u].intent>>,
               kind |-> call[u].kind, rev |-> call[u].rev]

Revision == Len(log)
Writes(seq) == {seq[i] : i \in {j \in DOMAIN seq : seq[j].kind # "read"}}

ReqInit ==
    /\ link \in Links /\ left \in Plans
    /\ call = [u \in Callers |->
                 [phase |-> "done", kind |-> "read", made |-> 0, intent |-> 0,
                  rev |-> NoRev, conn |-> NoConn, tries |-> 0, rated |-> FALSE,
                  from |-> 0, result |-> "none", got |-> 0]]
    /\ conn = [c \in Conns |-> Closed]
    /\ adrift = {}
    /\ log = <<>>

-----------------------------------------------------------------------------
(* The callers.                                                            *)

Call(u, kind, rev, intent) ==
    /\ call[u].phase = "done" /\ left[u] > 0
    /\ left' = [left EXCEPT ![u] = @ - 1]
    /\ call' = [call EXCEPT ![u] = [@ EXCEPT
          !.phase = "send", !.kind = kind, !.made = call[u].made + 1, !.intent = intent,
          !.rev = rev, !.tries = 0, !.rated = FALSE, !.from = Revision,
          !.result = "none"]]
    /\ UNCHANGED <<link, conn, adrift, log>>

Begin(u) ==
    \/ Call(u, "read", NoRev, call[u].intent)
    \/ \E kind \in {"write", "once"}, rev \in {NoRev, call[u].got} :
          Call(u, kind, rev, call[u].intent + 1)

(* A form whose write failed is kept, and sent again at the revision it    *)
(* was drawn from.                                                         *)
Again(u) ==
    /\ call[u].kind = "write" /\ call[u].rev # NoRev
    /\ call[u].result \notin {"none", "ok"}
    /\ Call(u, "write", call[u].rev, call[u].intent)

-----------------------------------------------------------------------------
(* The client: `send` and `once`.                                          *)

(* What may work if it is sent again later.                                *)
Transient == {"lost", "rate", "rateLong", "busy", "gateway"}

(* Mistake: a write is sent again as a read is.                            *)
SentAgainWrites(cl, status) ==
    /\ cl.kind # "once"
    /\ IF status \in {"rate", "rateLong"} /\ ~cl.rated
       THEN status = "rate"
       ELSE status \in Transient /\ cl.tries < ReadTries

(* Whether a call that failed so is sent again, if its deadline allows.    *)
(* After a 429 any call is, once, if it need not wait too long; else only  *)
(* a read.                                                                 *)
SentAgain(cl, status) ==
    /\ cl.kind # "once"
    /\ IF status \in {"rate", "rateLong"} /\ ~cl.rated
       THEN status = "rate"
       ELSE cl.kind = "read" /\ status \in Transient /\ cl.tries < ReadTries

(* Mistake: the tries are not counted.                                     *)
TriedNot(cl, status) == cl

Tried(cl, status) ==
    IF status = "rate" /\ ~cl.rated
    THEN [cl EXCEPT !.rated = TRUE] ELSE [cl EXCEPT !.tries = @ + 1]

CallFails(u, status) ==
    \/ /\ SentAgain(call[u], status)
       /\ call' = [call EXCEPT ![u] = [Tried(@, status) EXCEPT
                                         !.phase = "sleep", !.conn = NoConn]]
    \/ call' = [call EXCEPT ![u] = [@ EXCEPT     \* not again, or past_deadline
                    !.phase = "done", !.conn = NoConn, !.result = status]]

Wake(u) ==
    /\ call[u].phase = "sleep"
    /\ call' = [call EXCEPT ![u].phase = "send"]
    /\ UNCHANGED <<link, left, conn, adrift, log>>

(* An idle connection is used again if nothing came over it and it has not *)
(* ended.                                                                  *)
IsOpen(c) == conn[c].far /\ conn[c].out = <<>>

Free == {c \in Conns : conn[c].up = "none" \/ (conn[c].up = "idle" /\ ~IsOpen(c))}
Open == {c \in Conns : conn[c].up = "idle" /\ IsOpen(c)}

Put(u, c, now) ==
    /\ conn' = [conn EXCEPT ![c] = [now EXCEPT !.up = "busy",
                                               !.in = Append(@, Request(u))]]
    /\ call' = [call EXCEPT ![u].phase = "await", ![u].conn = c]
    /\ UNCHANGED <<link, left, adrift, log>>

Send(u) ==
    /\ call[u].phase = "send"
    /\ \/ \E c \in Open : Put(u, c, conn[c])
       \/ /\ Open = {} /\ Free # {}
          /\ Put(u, CHOOSE c \in Free : TRUE, [Closed EXCEPT !.far = TRUE])

(* The dial fails: a program not found, on this side or the far one.       *)
DialFails(u) ==
    /\ call[u].phase = "send" /\ Open = {} /\ link = "pipe"
    /\ call' = [call EXCEPT ![u] = [@ EXCEPT !.phase = "done", !.result = "dial"]]
    /\ UNCHANGED <<link, left, conn, adrift, log>>

(* Mistake: a connection is kept after a timeout.                          *)
DropKept(c) == conn' = [conn EXCEPT ![c].up = "idle"] /\ UNCHANGED adrift

(* A connection that failed is dropped.  What was sent over it may be with *)
(* the far side all the same.                                              *)
Drop(c) ==
    /\ conn' = [conn EXCEPT ![c] = Closed]
    /\ adrift' = adrift \union (IF conn[c].far THEN Writes(conn[c].in) ELSE {})

Receive(u) ==
    LET c == call[u].conn
        answer == Head(conn[c].out)
    IN  /\ call[u].phase = "await" /\ conn[c].out # <<>>
        /\ IF answer = Stray
           THEN CallFails(u, "lost") /\ Drop(c)
           ELSE /\ conn' = [conn EXCEPT ![c].up = "idle", ![c].out = Tail(@)]
                /\ UNCHANGED adrift
                /\ IF answer.status \in {"ok", "stale"}
                   THEN call' = [call EXCEPT ![u] = [@ EXCEPT
                          !.phase = "done", !.conn = NoConn, !.result = answer.status,
                          !.got = IF answer.status = "ok" THEN answer.got
                                  ELSE call[u].got]]
                   ELSE CallFails(u, answer.status)
        /\ UNCHANGED <<link, left, log>>

(* The child closed its stdout, or the socket ended, with no answer.       *)
NoAnswer(u) ==
    LET c == call[u].conn
    IN  /\ call[u].phase = "await" /\ conn[c].out = <<>> /\ ~conn[c].far
        /\ CallFails(u, "lost") /\ Drop(c)
        /\ UNCHANGED <<link, left, log>>

AwaitEnds(u) ==
    LET c == call[u].conn
    IN  /\ call[u].phase = "await"
        /\ CallFails(u, "lost") /\ Drop(c)
        /\ UNCHANGED <<link, left, log>>

-----------------------------------------------------------------------------
(* The far side.                                                           *)

(* Mistake: the revision is not looked at.                                 *)
StaleNever(req) == FALSE

Stale(req) == req.rev # NoRev /\ req.rev # Revision

(* What the store does with a write: it takes it, or refuses one that was  *)
(* made of an older revision.                                              *)
Taken(req) ==
    IF req.kind = "read" \/ Stale(req) THEN log ELSE Append(log, req)

AnswerTo(req) ==
    [of |-> req.of, got |-> Len(Taken(req)),
     status |-> IF req.kind # "read" /\ Stale(req) THEN "stale" ELSE "ok"]

(* It serves one request of a connection at a time, in order.              *)
Serve(c) ==
    /\ conn[c].far /\ conn[c].in # <<>>
    /\ log' = Taken(Head(conn[c].in))
    /\ conn' = [conn EXCEPT ![c].in = Tail(@),
                            ![c].out = Append(@, AnswerTo(Head(conn[c].in)))]
    /\ UNCHANGED <<link, left, call, adrift>>

(* The store could not be written: its lock was held for too long.  A      *)
(* server limits requests before it reads them.                            *)
TurnedAway(c) ==
    /\ conn[c].far /\ conn[c].in # <<>>
    /\ \E status \in {"busy"} \union (IF link = "http" THEN {"rate", "rateLong"} ELSE {}) :
          conn' = [conn EXCEPT ![c].in = Tail(@),
                     ![c].out = Append(@, [of |-> Head(conn[c].in).of,
                                           got |-> 0, status |-> status])]
    /\ UNCHANGED <<link, left, call, adrift, log>>

(* A proxy gives up on a request that the far side has.                    *)
Gateway(c) ==
    /\ link = "http" /\ conn[c].far /\ conn[c].in # <<>>
    /\ adrift' = adrift \union Writes(<<Head(conn[c].in)>>)
    /\ conn' = [conn EXCEPT ![c].in = Tail(@),
                  ![c].out = Append(@, [of |-> Head(conn[c].in).of,
                                        got |-> 0, status |-> "gateway"])]
    /\ UNCHANGED <<link, left, call, log>>

(* A write that no one listens for is stored, or it is lost.               *)
StoresLate ==
    \E req \in adrift :
       /\ adrift' = adrift \ {req}
       /\ log' \in {log, Taken(req)}
       /\ UNCHANGED <<link, left, call, conn>>

(* The far side ends, with its answers or before they are out.             *)
FarEnds(c) ==
    /\ conn[c].far
    /\ \E out \in {<<>>, conn[c].out} :
          conn' = [conn EXCEPT ![c].far = FALSE, ![c].in = <<>>, ![c].out = out]
    /\ UNCHANGED <<link, left, call, adrift, log>>

(* A child writes what no one asked for, such as a shell's banner.         *)
Strays(c) ==
    /\ link = "pipe" /\ conn[c].far /\ conn[c].out = <<>>
    /\ conn' = [conn EXCEPT ![c].out = <<Stray>>]
    /\ UNCHANGED <<link, left, call, adrift, log>>

Client(u) == Send(u) \/ DialFails(u) \/ Receive(u) \/ NoAnswer(u) \/ AwaitEnds(u) \/ Wake(u)
Far(c) == Serve(c) \/ TurnedAway(c) \/ Gateway(c) \/ FarEnds(c) \/ Strays(c)

ReqNext ==
    \/ \E u \in Callers : Begin(u) \/ Again(u) \/ Client(u)
    \/ \E c \in Conns : Far(c)
    \/ StoresLate

(* A call's own thread goes on, and every wait in it has an end.           *)
ReqFairness == \A u \in Callers : WF_reqVars(Client(u))

ReqSpec == ReqInit /\ [][ReqNext]_reqVars /\ ReqFairness

-----------------------------------------------------------------------------
Over(u) == call[u].phase = "done" /\ call[u].made > 0

(* Every call is of one of the caller's connections, and a connection that *)
(* is busy is one caller's.                                                *)
ReqTypeOK ==
    /\ link \in Links /\ left \in [Callers -> Nat]
    /\ \A u \in Callers :
          /\ call[u].phase \in {"done", "send", "await", "sleep"}
          /\ call[u].kind \in CallKinds /\ call[u].tries \in 0..ReadTries
          /\ (call[u].phase = "await") <=> (call[u].conn # NoConn)
          /\ call[u].conn # NoConn => conn[call[u].conn].up = "busy"
    /\ \A u, v \in Callers : u # v /\ call[u].conn = call[v].conn => call[u].conn = NoConn

(* A write that is sent is stored once at most, however its answers were   *)
(* lost: it is sent again only when it was surely not read (send).         *)
CallOnce ==
    \A i, j \in DOMAIN log : log[i].of = log[j].of => i = j

(* A write made of a revision and sent again by its user, who could not    *)
(* know how the first went, is stored once too.                            *)
IntentOnce ==
    \A i, j \in DOMAIN log :
       log[i].intent = log[j].intent /\ log[i].rev # NoRev => i = j

(* No write is stored twice: not by the client's tries, nor, when it was   *)
(* made of a revision, by its user's.                                      *)
StoredOnce == CallOnce /\ IntentOnce

(* How a write is said to have gone is so: one said to be stored is in the *)
(* store, one refused or turned away for its rate is not and never will.   *)
(* An answer that is another request's would make it wrong.                *)
WriteIsSo ==
    \A u \in Callers :
       LET stored == \E i \in DOMAIN log : log[i].of = CallId(u)
           coming == \/ \E req \in adrift : req.of = CallId(u)
                     \/ \E c \in Conns : \E i \in DOMAIN conn[c].in :
                            conn[c].far /\ conn[c].in[i].of = CallId(u)
       IN  Over(u) /\ call[u].kind # "read" =>
             /\ call[u].result = "ok" => stored
             /\ call[u].result \in {"stale", "rate", "rateLong", "dial"} => ~stored /\ ~coming

(* A read gives the store as it is at some moment of the call: never as it *)
(* was before the call was made.                                           *)
ReadIsSo ==
    \A u \in Callers :
       Over(u) /\ call[u].kind = "read" /\ call[u].result = "ok" =>
          call[u].got \in call[u].from..Revision

(* What a caller is told is so, of writes and of reads: each answer is     *)
(* taken as the one of the request it was given to.                        *)
AnswerIsSo == WriteIsSo /\ ReadIsSo

(* Every call ends, whatever fails.                                        *)
EveryCallEnds ==
    \A u \in Callers : call[u].phase = "send" ~> call[u].phase = "done"
=============================================================================
