------------------------------- MODULE Sweep -------------------------------
(***************************************************************************)
(* The writes over many cases: `cases sweep`, which withdraws, `cases      *)
(* prune`, which archives or deletes, and the pass that closes briefings   *)
(* nobody closed as expired, which serve makes each hour and `cases sweep  *)
(* --stale-briefings` by hand.  Each reads the store once, lists the cases *)
(* it takes, and writes them one by one while agents and humans go on.     *)
(*                                                                         *)
(* A case is where it stands and when; its rows are Case's.                *)
(***************************************************************************)
EXTENDS Integers, FiniteSets

CONSTANTS
    Briefings,      \* the cases that are briefings
    Others,         \* the other cases
    Passes,         \* the runs of a sweep, a prune or an expiry
    After,          \* briefing-close-after, and the age a sweep or prune asks
    MaxClock,       \* the last time of the clock (a bound)
    MaxRevision     \* the last revision of a case (a bound)

ASSUME SweepAssumption == After \in Nat \ {0} /\ MaxClock \in Nat /\ MaxRevision \in Nat

VARIABLES
    clock,
    latest,     \* history: the latest time the clock showed
    cases,      \* each case in the store
    pass        \* each run: what it does, and the cases it has yet to write

sweepVars == <<clock, latest, cases, pass>>

Cases == Briefings \cup Others
States == {"open", "parked", "answered", "pickedup", "closed", "withdrawn", "removed"}
Jobs == {"expire", "sweep", "sweep in flight", "prune"}
NeverPicked == -1

SweepInit ==
    /\ clock = 0 /\ latest = 0
    /\ cases = [k \in Cases |-> [state |-> "answered", revision |-> 2, at |-> 0,
                                 picked |-> NeverPicked, by |-> "others"]]
    /\ pass = [p \in Passes |-> [on |-> FALSE, job |-> "expire", now |-> 0, left |-> {}]]

(***************************************************************************)
(* The moves agents and humans make: CaseRules', without their data.       *)
(***************************************************************************)
Moves ==
    {<<"open", "answered">>, <<"open", "parked">>, <<"parked", "open">>, <<"open", "open">>,
     <<"answered", "pickedup">>, <<"answered", "open">>, <<"pickedup", "open">>,
     <<"pickedup", "closed">>, <<"open", "withdrawn">>, <<"answered", "withdrawn">>,
     <<"pickedup", "withdrawn">>}

(* When case c was picked up, as a move to a state leaves it.              *)
Picked(c, to) ==
    IF to = "pickedup" THEN clock ELSE IF to = "open" THEN NeverPicked ELSE c.picked

(* Case c moved to a state by `by`. *)
MovedTo(c, to, by) ==
    [state |-> to, revision |-> c.revision + 1, at |-> clock,
     picked |-> Picked(c, to), by |-> by]

OthersWrite(k) ==
    /\ cases[k].revision < MaxRevision
    /\ \E move \in Moves :
         /\ move[1] = cases[k].state
         /\ cases' = [cases EXCEPT ![k] = MovedTo(@, move[2], "others")]
    /\ UNCHANGED <<clock, latest, pass>>

ClockTick ==
    /\ clock < MaxClock
    /\ clock' = clock + 1
    /\ latest' = IF clock' > latest THEN clock' ELSE latest
    /\ UNCHANGED <<cases, pass>>

(* The clock is set back, once: a time may then be after now.              *)
ClockSetBack ==
    /\ clock = latest /\ clock > 0
    /\ clock' = clock - 1
    /\ UNCHANGED <<latest, cases, pass>>

-----------------------------------------------------------------------------

(* How long ago a time was, when it is not after now: `elapsed`.           *)
Elapsed(at, now, age) == at <= now /\ now - at >= age

(* The briefings an expiry closes: picked up at least After ago.           *)
StaleBriefing(k, now) ==
    /\ k \in Briefings /\ cases[k].state = "pickedup"
    /\ cases[k].picked # NeverPicked /\ Elapsed(cases[k].picked, now, After)

(* The cases a run takes, as it reads them. *)
Takes(job, k, now) ==
    CASE job = "expire" -> StaleBriefing(k, now)
      [] job = "sweep" -> cases[k].state = "open" /\ Elapsed(cases[k].at, now, After)
      [] job = "sweep in flight" ->
            /\ cases[k].state \in {"open", "answered", "pickedup"}
            /\ Elapsed(cases[k].at, now, After)
      [] job = "prune" ->
            cases[k].state \in {"closed", "withdrawn"} /\ Elapsed(cases[k].at, now, After)

(***************************************************************************)
(* A run reads the clock and the store, and lists each case it takes with  *)
(* the revision it read.                                                   *)
(***************************************************************************)
StartPass(p, job) ==
    /\ ~pass[p].on
    /\ \E k \in Cases : Takes(job, k, clock)
    /\ pass' = [pass EXCEPT ![p] =
           [on |-> TRUE, job |-> job, now |-> clock,
            left |-> {[key |-> k, revision |-> cases[k].revision] :
                          k \in {k \in Cases : Takes(job, k, clock)}}]]
    /\ UNCHANGED <<clock, latest, cases>>

(* Mistake: the write does not say the revision that was read.             *)
WrittenAtAny(item) == cases[item.key].state # "removed"

(* The store takes a write at the revision it was read at, and no other.   *)
WrittenAt(item) ==
    cases[item.key].state # "removed" /\ cases[item.key].revision = item.revision

Listed(p, item) == pass[p].on /\ item \in pass[p].left

(* The run goes on with the rest, and ends with the last.                  *)
GoesOn(p, item) ==
    pass' = [pass EXCEPT ![p] = [on |-> @.left # {item}, job |-> @.job, now |-> @.now,
                                 left |-> @.left \ {item}]]

(***************************************************************************)
(* The next case is closed as expired, withdrawn, or archived or deleted.  *)
(* The rules refuse a close of a case that is not picked up, and a         *)
(* withdraw of one that is over or parked.                                 *)
(***************************************************************************)
WriteNext(p, item) ==
    LET k == item.key job == pass[p].job IN
    /\ Listed(p, item) /\ WrittenAt(item)
    /\ \/ /\ job = "expire" /\ cases[k].state = "pickedup"
          /\ cases' = [cases EXCEPT ![k] = MovedTo(@, "closed", job)]
       \/ /\ job \in {"sweep", "sweep in flight"}
          /\ cases[k].state \in {"open", "answered", "pickedup"}
          /\ cases' = [cases EXCEPT ![k] = MovedTo(@, "withdrawn", job)]
       \/ /\ job = "prune"
          /\ cases' = [cases EXCEPT ![k].state = "removed", ![k].by = job]
    /\ GoesOn(p, item)
    /\ UNCHANGED <<clock, latest>>

(* A case written to since, or one the store could not write, is left.     *)
LeaveNext(p, item) ==
    /\ Listed(p, item)
    /\ GoesOn(p, item)
    /\ UNCHANGED <<clock, latest, cases>>

(* The run is stopped, or serve is, part-way. *)
StopPass(p) ==
    /\ pass[p].on
    /\ pass' = [pass EXCEPT ![p] = [on |-> FALSE, job |-> @.job, now |-> @.now, left |-> {}]]
    /\ UNCHANGED <<clock, latest, cases>>

SweepNext ==
    \/ \E k \in Cases : OthersWrite(k)
    \/ ClockTick \/ ClockSetBack
    \/ \E p \in Passes :
         \/ \E job \in Jobs : StartPass(p, job)
         \/ \E item \in pass[p].left : WriteNext(p, item) \/ LeaveNext(p, item)
         \/ StopPass(p)

SweepSpec == SweepInit /\ [][SweepNext]_sweepVars

-----------------------------------------------------------------------------

(* Types: what a case and a run are. *)
SweepTypeOK ==
    /\ clock \in 0 .. MaxClock /\ latest \in 0 .. MaxClock
    /\ \A k \in Cases : cases[k].state \in States /\ cases[k].at \in 0 .. MaxClock
    /\ \A p \in Passes : pass[p].on <=> pass[p].left # {}

(* The last write of case k is a run's, as this step made it.              *)
WrittenBy(k, job) == cases[k].by # job /\ cases'[k].by = job

(***************************************************************************)
(* A run ends no case that an agent or a human has taken up again since it *)
(* read the store: a briefing closed as expired was picked up, and not     *)
(* since, at least After ago (briefings.rs, AG-19); a case withdrawn was   *)
(* still open, or with an agent when the run takes those (sweep.rs,        *)
(* ST-14); a case pruned was over, and nothing had happened to it for that *)
(* long (prune.rs, ST-13).                                                 *)
(***************************************************************************)
EndsOnlyTheStale ==
    [][\A k \in Cases :
         /\ WrittenBy(k, "expire") =>
              /\ k \in Briefings /\ cases[k].state = "pickedup"
              /\ latest - cases[k].picked >= After
         /\ WrittenBy(k, "sweep") =>
              cases[k].state = "open" /\ latest - cases[k].at >= After
         /\ WrittenBy(k, "sweep in flight") =>
              cases[k].state # "parked" /\ latest - cases[k].at >= After
         /\ WrittenBy(k, "prune") =>
              cases[k].state \in {"closed", "withdrawn"} /\ latest - cases[k].at >= After
      ]_sweepVars
=============================================================================
