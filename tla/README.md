# cases, specified

`cases` passes questions from a coding agent to a human and the answers back.
The agent *opens* a case, *waits*, the human *answers* it in a terminal or web
inbox, the agent *picks up* the answer, acts on it and *closes* the case.
Every event is kept as a row of one SQLite file, on this machine or on another
that a store is forwarded to.

This directory holds TLA+ modules that model the parts of the program whose
correctness depends on what happens in which order, TLC configurations that
check them on small instances, and proofs of the results that matter most for
every instance. Paths below are under `src/crates/`.

## The system

| Component | State | Operations | Interacts with |
|---|---|---|---|
| Case record (`core/src/case.rs`, `rules.rs`, `names.rs`) | a case: what its rows fold to | open, append (amend, answer, pickup, note, close, withdraw, park, resume), fold | the store keeps its rows; every reader folds them |
| Freshness (`core/src/freshness.rs`) | none: a case and an earlier read | `since`, `last_answer` | forms in both inboxes, stale writes |
| Store (`store-sqlite`) | tables of cases, events, archive, removals, actors, listeners; a version | create, append, archive, delete, `rows_since`, `version` | one writer at a time through SQLite's lock; pollers of many processes |
| Poller (`core/src/poll.rs`) | a version and the cases at it | `poll` | wait, terminal inbox, server |
| Terminal inbox (`cli/src/commands/tui`) | the cases shown, a form, the writes out | poll, open a form, tick, send, what a write's thread reports | poller; writer on another thread |
| `cases wait` (`cli/src/commands/wait.rs`) | `--since`, its first read, what it collected and took | read, linger, take a message, pick up, print `next_since` | poller, writer, locks, the next wait |
| Locks (`wait/lock.rs`, `store-remote/src/hold.rs`, `cli/src/dial.rs`) | files; a hold on a lease and the far side's locks | take, renew, release, lapse | two machines, two connections, two clocks |
| Forwarding (`cli/src/forward.rs`, `store-remote`) | a connection to a far side, retries | every store call as a request | pipe over ssh or HTTP; `dial-stdio` or `serve` at the far end |
| Server (`cli/src/commands/serve`) | a snapshot and its version, streams, notices | API reads and writes, event streams, notifications | pollers, web inbox |
| Web inbox (`serve/web/static/*.ts`) | pages, forms, lists | as the terminal inbox | the server's API and stream |
| Listening (`core/src/listening.rs`, `store-sqlite/src/listen.rs`) | a row for each wait | heartbeat, doing line, lapse | wait, inboxes |
| Sweep, prune, expiry (`sweep.rs`, `prune.rs`, `briefings.rs`) | none | closes and removals at the revision read | store |
| Login and hosted stores (`login.rs`, `credentials.rs`, `signin.rs`) | tokens by server | sign-in by polling, refresh, logout | a server outside this repository |
| Service and instance (`service.rs`, `instance.rs`) | the file a running server keeps | start, stop, status | the operating system |
| Ids (`id`), records as JSON (`core/src/record.rs`), configuration, output, help | none | encoding, checking, printing | all |

What is hard about it:

- **Reads that grow old.** A human has a form open for an hour while agents
  amend the question, pick up, note and reopen. The form follows what it can
  and must be refused for the rest. Items of a briefing are filed by number.
- **Rows from elsewhere.** Two builds with different rules write one store, so
  a fold skips rows it does not know, and counts them.
- **Incremental reads.** A poller folds again only what changed since its
  version, while cases are archived, deleted and put back, and the file is
  replaced by a copy of itself.
- **A chain of processes.** An agent's waits are one process after another,
  joined only by a time, `next_since`. Whatever a wait picked up and does not
  print, or passes by, nobody hears of again.
- **Two machines.** A pickup wait on a forwarded store relies on a lock there,
  over one connection, while its pickup is on its way over another, and either
  may die; its computer sleeps, and clocks are set back.
- **Answers that are lost.** A request to a far side may be read and its answer
  lost, or stored after its sender gave up. Sent again it may be stored twice.
- **Files that go.** Processes share a store by its path, and a human removes or
  replaces the file between any two steps of any of them.
- **A page and a store.** The tabs of a browser share one event stream, which
  drops, passes from tab to tab, and waits out a gap while more changes land.
- **A screen and its thread.** In the terminal inbox a read taken before a
  write's answer shows what the write did, or a case that moved meanwhile, and
  nothing typed may be lost unsaid.
- **Steps that fail half-way.** A login makes a token, keeps it and revokes the
  last one, and any of the three may fail, or the process be killed.

## Modules

Each module names the code it translates in its comments; `PROJECT.json` maps
each definition to its lines. The operators that begin "Mistake:" stand just
before the definition they vary: each is a bug that would be easy to make
there, and shows that the property named beside it in `PROJECT.json` would
catch it.

| Module | Models | State ↔ code |
|---|---|---|
| `CaseRules` | the rules of one case | `Case` fields as a record; `Fits` is `rules.rs` and the checks of each `take_*`, `Take` what they assign; `Replay` is one row of `Case::fold` |
| `Case` | one case in one store | `rows` the stored rows, `case` their fold; an action for each event type, and `Stored`, a row another build wrote with seqs left out |
| `Freshness` | `Case::since`, `last_answer` | operators on a case and an earlier read |
| `Forms` | a form in the terminal inbox | `case` in the store, `view` at the last poll, `form` (`Form`), `sending` (`Send`: the record, revision and result on the writer's thread) |
| `Panels` | the terminal inbox's forms, drafts and messages together | `view`, `form`, `drafts`, `compose` and `quitting` are fields of `App` (`tui/app.rs`), `sending` the write out, `thread` the thread of `tui/threads.rs`, `flashed` the lines of the last step |
| `WebForms` | the forms of the web inbox on one case | `page` what is drawn, `marks` the forms' `Marks` (`case.ts`, `lists.ts`), `reading` an answer on its way, `outbox` the sends, of which two may be out once ten seconds let the next go |
| `StoreView` | what a poller promises | `stored` and `given`: a poll gives the store, a failed one nothing |
| `Store` | the SQLite store, its version and a poller | `db` the tables as functions from change numbers to rows; `poller` the version and cases |
| `Connections` | processes that share the store's file | `path` and `beside` what is on disk, `file` what each file holds, `proc` each process's call and its connection (`db.rs`) |
| `Wait` | an agent's chain of pickup waits | `cases` and their turns, `wait` the running process, `since` what it was given, `unsure` the pickups a forwarded store gave no answer to, which may be stored at any time, `heard` the agent's memory |
| `Locks` | the locks of waits on one machine | `locked` the advisory locks, `says` what the files say, `left`, `scope` where each wait is in its list (`lock.rs`) |
| `Lease` | holds and far locks | `hold`/`pending` are `Standing` as ticks left by each clock, `requests`/`answers` the wires, `far` is `Taken` in `dial.rs`, `onDisk` whether the store is made; `writing` a pickup by its age, with its call going on (`Writing` in `forward.rs`) or given up |
| `Requests` | calls to a far side | `call` a caller in `send`/`once` of `client.rs`, `conn` the kept connections with what is in them, `adrift` writes nobody listens for, `log` what the store took |
| `Listening` | the sessions that take messages | `rows` and `doing` the two tables, `wait` each process's heartbeat |
| `Sweep` | sweep, prune and expiry | `cases` where each stands, `pass` each run's list and the revision it read each at |
| `Inbox` | how the pages of a browser follow the store | `snapshot` and `sender` are serve's (`watch.rs`, `stream.rs`), `source`, `holder`, `tab`, `mail` the browser's |
| `Notices` | desktop notifications | `engine` and `feed` are serve's (`notify.rs`), `cursor` localStorage, `asker` each tab |
| `SignIn` | login and logout | `tokens` the servers', `keychain` and `file` where they are kept, `run` each command's step |
| `MCForms` | `Forms` or `WebForms` | |
| `MCWait` | `Wait`, `Store` or `Lease`, those in `Parts` | |
| `MCServed` | `Requests`, `Inbox`, `Notices`, `SignIn` (by `MCSignIn`) or `Case` with `Freshness` (by `MCCase`) | |
| `MCLocal` | `Locks`, `Connections`, `Sweep`, `Listening` or `Panels`, those in `Moving` | |
| `MCLive` | `Wait`, `Lease` or `Requests`, under fairness | |
| `CaseProofs`, `FormsProofs`, `PanelsProofs`, `RequestsProofs`, `SignInProofs` | theorems of the module each is named after (`CaseProofs` of `Freshness` too) | |
| `ReadProofs` | theorems of `Wait` and `Store`, and that `Store` implements `StoreView` | |
| `InboxProofs` | theorems of `Inbox` and `Notices` | |
| `LocalProofs` | theorems of `Connections`, `Sweep`, `Listening`, `Locks` and `Lease` | |

`Freshness`, `Forms` and `WebForms` are built on `Case`: the other writers of a
form's case are `CaseNext` itself. `Store` implements `StoreView` by a
refinement mapping (`PollerGivesTheStore`). `Wait` abstracts a case to the turns
a wait can tell apart, and the hold of its locks to "may have lapsed" at any
moment, which is what `Lease` shows a hold gives: it may say so early, and never
late. `Panels` abstracts what a form follows of a case, which is `Forms`, to
rows of two sorts, and `Requests` a write to what it is made of, which is `Case`.

The MC modules that name several parts check them side by side: the parts share
no state, a variable `part` (in `MCForms`, `inbox`) says which one moves in a
behaviour, and the others stay at one of their first states. One
run of them all is the runs of each, with the properties of each.

## Runs

| Run | Instance | States | What it shows |
|---|---|---|---|
| `forms` | terminal forms, to 3 rows (stuck 4, and 6 that only move it; a message 5); the web's case page, to 3 rows (a message 4), its list, to 4 rows; 2 reads; 2 sends at once of an ask that moves from turn to turn (`WithinSends`), 1 of the others | 0.5 M | an answer lands on the question that was read; a withdraw ends the answer that was seen, or one given since an agent picked that up; what is filed is what was ticked; a fresh form is taken |
| `wait` | waits: two asks (one blocking) and a message, 4 times without a lease, 3 with one that may lapse; store: 4 changes, 2 keys, 2 times, 2 stores made, put-backs or copies; two waits on a lease of 3 ticks (`OneEarly`, `EarlyBriefly`, `OneAstray`), the same clock wrong of both | 2.3 M | nothing is lost between waits, a case has one line, what is picked up is given, an event is new once; the wait stops before its lease ends, pickups are under it, one wait at a time; a poller gives the store, versions tell stores apart, every change can be found again; no deadlock |
| `served` | two callers over two connections; two tabs and 2 versions of the store; two cases notified to two tabs over 2 starts of serve; logins on two servers; a case of each kind, 5 rows, one skipped seq | 0.75 M | a write is stored once and what is told of it is so; no page shows older than what it was told, and pages catch up; each notice is shown once; no token is left unheld; a case's state says what stands, the answer is to the question, "unchanged" means it |
| `local` | three waits and two locks; two processes, 3 files, 2 calls, 2 edits; one run of each job over two cases; two waits listening; the screen with one ask, revisions and texts to 3 in all, or one message, to 4 (`WithinMost`) | 1.6 M | waits never refuse each other; a write returned is in the file at the path; a run ends only the stale; a session is listed truly; what is typed is kept or said to be lost; what is said of a write is so |
| `live` | two asks, times to 3; one wait on a lease of 6 ticks; callers as in `served` | 180 k | every turn is heard; a dead wait lets go; every call ends |
| `withdraws` | the terminal's form on an ask of 6 rows | | a violation, below |
| `wait_lapse` | lapsing locks, times to 3 | | a violation, below |
| `web_ticks` | the web's page of a briefing, to 3 rows | | a violation, below |
| `panels_said`, `panels_quit` | the screen of `local` alone | | violations, below |
| `signin_places`, `signin_keychain` | a computer that uses its keychain in some commands; one with an unreadable file | | violations, below |

Why the bounds are enough. Five rows open a case, answer it, pick it up, reopen
it and amend it, and four open, answer, amend and answer again: every rule of
`CaseRules` looks at the case as it is, which these histories bring to every
combination of state, standing answer and amended question. Two values of a
field are enough to tell "the same" from "another". The store's properties
compare one earlier version with now, so two keys and a handful of changes reach
every way the counts and the tag can agree by chance; the two edits that do
defeat them (below) need seven steps. The waits need two asks and a message for a
collected answer, a taken message and a race to be in one wait, and times for an
event before, during and after. Two waits on a lock of three ticks
let it pass from one to the other with a pickup of the first still out; one of them at
most asks before the store is made (`OneEarly`), its lease without a lock is not
renewed and its connection lasts (`EarlyBriefly`), and one pickup at a time is
late or given up (`OneAstray`), since nothing is claimed of either. Two sends of one ask
are out at once, by the case's own page or a row, after ten seconds or a lost answer.
Two callers and two connections make every way a
request is read while its sender has given up; two tabs pass the stream and its
lock from one to the other, and two versions of the store make one be on its way
while the other lands. Two edits of the path by hand remove a file and put
another there within one call of a process. Where a theorem states the property
it holds for every bound. `CHECK_DEADLOCK FALSE` is given where a bound ends the
history (the case, the store or the list of calls may simply be full); the run
`wait` is checked for deadlock.

Bounds are constants named in the modules' comments: `MaxRows`, `MaxGap`;
`MaxChange`, `MaxKey`, `MaxClock`, `MaxId`; `MaxTime`; `OneEarly`, `EarlyBriefly`,
`OneAstray`; `MaxReads`,
`MaxSends`, `WithinSends`, `FromTurnToTurn`; `MaxRev`, `MaxTexts`; `Plans`; `MaxStore`, `MaxFaults`; `MaxEvents`,
`MaxBoots`, `MaxAway`; `MaxTokens`, `MaxRuns`; `MaxFiles`, `MaxCalls`,
`MaxEdits`; `MaxRevision`, `MaxFails`; `Longest`. Two are not bounds of the model but
numbers of the code given smaller: `Tries` (3 in `db.rs`, 2 here) and
`ReadTries`, `ServerTries`, `FeedSize`.

### Fairness

- `Wait`: an agent that heard a turn starts its next wait, and a wait goes on
  (weak fairness of `StartWait` and of the steps of a running wait, `GoesOn`). The
  store is reached again and again (strong fairness of `ReadStore`), and from some
  time on no read fails for good: an agent whose every wait ends with an error hears
  nothing. That a lingering wait gives what it has is not assumed: its cap comes
  (`CapComes`, `Collecting::until`), after which the wait may not go on collecting,
  and without that rule (`RestUncapped`) it might do so for ever. Without an agent
  that waits again nothing could be heard, and the skill that agents follow tells
  them to.
- `Lease`: time passes and the far side's watch thread runs (`Locks::watch`,
  `until_let_go`). Nothing is assumed of the wait, its pickup, the wires, or the
  connection.
- `Requests`: each caller's own thread goes on, and each wait in it has an end
  (a deadline, `past_deadline`). Nothing is assumed of the far side.
- `Inbox`: serve reads the store again (its watch), its stream tasks run, and a
  tab loads, takes its messages and mail, the free lock, and connects again.
  Nothing is assumed of what ends a stream, fails a read or stops serve; those
  are bounded in number (`MaxFaults`), and the minute's own reload is not
  counted on.

### Where the code and its documents part

1. `withdraws`. A withdraw is drawn on a case an agent has picked up; before the
   next read the agent asks again and the human answers elsewhere. Each state was
   passed once, so `Case::since` says moved, a withdraw fits an answered case, and
   the form takes the new revision: it ends an answer that was not there when it was
   drawn. `freshness.rs` and the comment on the page's own line (`lists.ts`) say that
   a reopen and a new answer between two reads keep the old mark. What does hold is
   `WithdrawPassesAPickup`: the answer passed was one an agent had picked up.
2. `wait_lapse`. A wait that collected an answer and then took a message, and
   whose locks then may have lapsed, ends by `stop` in `wait.rs`, which prints
   the message alone: its `next_since` passes the collected answer, and no later
   wait wakes on it. The end for a failed read, `failed`, prints both, and its
   doc and test say why it must.
3. `web_ticks`. On a case's own page, a send refused as stale brings the case as
   it is now; a read already on its way is drawn over it with the older list,
   and ticks made on that are filed by the newer case's numbers. `app.ts` keeps
   such a read from drawing on the list's page alone.
4. `signin_places`. A logout revokes the one login `read` gives, the keychain's,
   and forgets the server's login in both places: a live token kept in the file
   is held by nobody.
5. `signin_keychain`. When the credentials file cannot be read, a login whose
   token the keychain took says nothing was kept, revokes the token, and leaves
   it in the keychain in place of the last one.
6. `panels_said`. A read between the write of an edit of a message and the
   answer to it says that the edit was not sent, when it was stored.
   `follow_form` leaves the write being sent alone for this; `follow_compose`
   does not.
7. `panels_quit`. Esc on the list quits with a draft typed and nothing asked,
   where q and ctrl-c ask.

Four more have no run. The docs say of the locks of a forwarded store that they
"are never let go with a write on its way" (`forward.rs`, `Shared`; `hold.rs`: a
second wait "must not race" the pickup), and the code keeps them until the *call* of the write is over. A call
that passes its deadline, or loses its connection, is over with its request still to be
stored (`client.rs`, `within_deadline`; `wait.rs`, `pick_up` warns and goes on), and
a request may take 30 s where a third of the lease is 10 s. The model has both
(`GiveUp`, `Late`), and what is claimed of a pickup is said of one that is neither.
`lists.ts` says of a row's withdraw that it waits "as the case view's"; but a late
answer to a send that ten seconds let go clears the row's one flag, and with it lets go
of the later send, where the case view clears its own alone (`Without`). The
run `forms` has it as it is. `read.rs` explains why two states of a store never share a
version, and names one exception, a row stamped with the time of the row it
replaced. There is another: with a case in the archive put back by hand, and then a
copy of the file put back and *another* case put back from it, the count, counters
and tag are all the same and the poller goes on giving the first case. TLC finds it
in `MCWait` with `HandEdits <- BothEdits`; the theorems on versions leave it out by
the hypothesis `NotBoth`. And one
is of wording alone: a wait refused just after a lock was taken names
the last holder, as the file still says it (`lock.rs`, `holder`).

## Proofs

Each theorem below is of the specification for every value of its constants:
any number of rows, waits, callers, tabs, processes, files, servers and tries.
Each module of proofs states an inductive invariant first, as a conjunction of
named parts, then one lemma for each step that keeps it, then the theorems,
which follow from it. TLC checked each invariant on the run's instance before it
was proved.

**One case** (`CaseProofs`). `CaseSpec => []IInv`, and from it `CaseTypeOK`,
`StateSaysWhatStands` and `AnswerIsToTheQuestion`. `IInv` is the three together,
which no one of them is without the others: an answer is safe from an amend that
moves the question only because the state says that a case taking one unasked
has no answer. There is a lemma for each `take_*` and one for a row stored by
another build. `AnswerIsKept` and `QuestionOnlyGrows` follow from the same
lemmas, a step at a time.

*What a fold gives.* `Replays` is a recursive function on the rows, and that it
does what its recursion says (`ReplaysIs`) is by induction on the rows. The
induction theorems of the library take an operator and cannot be used, so the
induction is of a *set* of naturals (`Induction`): what is not in the set has a
least member, by the well-foundedness of `<`. On it rest `ReplayAgrees`, which
needs that the counts of rows and of skipped seqs may be made once at the end of
a fold or at each row, and that every prefix folds to a good case; and
`SinceMeansIt`, for which `GrownSince` says of an earlier and a later prefix what
each row between them can have changed and in which order.

**Forms** (`FormsProofs`). `FormInv` is the invariant of the case with three parts
of the form's. What is drawn is the case as it was at one of its revisions
(`ViewIsSo`). The form's marks are those of the case at the form's revision, and the
case takes its act there; if the act is to answer or park, what was shown when the
form was opened is that case's question and last answer; its list is one the human
read, and the ticks are of it (`FormIsSo`, `FormFits`). If the act is to withdraw,
the case's last answer is the one shown, or one given after a pickup that came after
that (`Passed`). A send still out of a form
carries what such a form gave (`SentIsSo`). A form moves to a new revision only where
`Case::since` lets it, so the proof is what `FreshnessMeansIt` says, turned to what a
form needs: a case open then and open now has not "moved" (`OpenIsUnmoved`), for its
events would have left an open case open, and only a note or an amend does
(`EventsTell`). What a form of a fitting act gives, the writer takes: the one step
that needs the kind of the case (`KindFits`), kept from the open on. The store takes
a record only at the case's own revision (`TakesAtItsRevision`). A withdraw's form
may follow its case past another answer, but only from one that an agent had picked
up (`PassedOn`): an answer brings "answered" back, which a case that moved has
passed once, so the form was drawn on another state, and what put the case there
after the answer shown was a pickup. From it
`FreshFormIsTaken`, `FilesWhatWasTicked`, `AnswerLandsAsAsked`, the terminal's
half of `AnswersLand`, and `WithdrawPassesAPickup`, its half of `WithdrawsLand`.

**The screen and its thread** (`PanelsProofs`). Texts are numbered as they are typed,
so the invariant can say where one is: in the form, the message, a draft or the
write being sent (`Places`), each on one case (`TextsAreApart`), with one answer
typed for a case (`DraftsAreSo`). A text that is recorded and still in one of them
is that of the write being sent, on its case (`RecordedIsSent`): that is why a read
which leaves alone the case of the write being sent never says of a recorded text
that nothing was sent, `NotSentIsSo`. The thread is asked for a write once, and says
how it went before the read after it (`ThreadIsSo`); the case of a taken write is
past the revision it was written at, in the store and in a read after it
(`TakenIsPast`): `ToldAsShown`. What a read leaves of the screen, and what it tells
of, is one relation that composes (`LeftOf`), since a read, how a write went and
what follows it are one step: what is not kept is told of. With it, key by key
(`KeyKeeps`), `TypedIsKept`. `QuittingAsks`, and `NothingSentIsSo`, which says
the same as `NotSentIsSo` of the edits of messages too, are false, as the runs show.

**Waits** (`ReadProofs`). `WaitInv` relates four things: the cases, what the wait
saw of them, what it has taken and is about to print, and what the agent was
told. What was seen of a case is the case, or the case moved on at a time later
than all that the wait knows of (`SeenIsSo`, `Later`); a turn that was taken is of
an event the case had, on one line (`TurnIsSo`, `OneEach`); what the agent was told
is no later than `next_since` (`HeardIsSo`); what got no answer is of a case as the wait saw it (`Tellings`); and what is owed and unheard is after
`since`, or in the lines being printed (`Unpassed`). From it `PickedUpIsGiven`, which
excepts a pickup that the wait said may have been stored, `OneLineEach` and `NewOnce`, and `NothingLost`, which is of the waits whose locks
cannot lapse: of the others it is false, as the run `wait_lapse` shows.

**Requests** (`RequestsProofs`). A call is in one place at a time: with its caller,
on its way in its own connection, answered there, cut off, adrift, or in the
store (`CallIsSo`, `ConnsApart`, `KeptOnce`). It is sent again only from where it
is surely nowhere else, or at a revision that lets at most one of two copies in
(`KeptOfCalls`). From it `StoredOnce` and `AnswerIsSo`.

**Locks on one machine** (`LocalProofs`). `LocksInv` says that a wait holds only
scopes before those it has yet to take and before the one it is refused at
(`HoldsBefore`), and that the wait which refused it holds that scope still, is
over, or was itself refused at a later one (`RefusalsRise`). Refusals rise through
the scopes and never come back: `NeverEachOther`.

**Leases** (`LocalProofs`). That a wait is held while it counts itself held is not
inductive: it depends on where a request is. `LeaseInv` says, for each wait, that
the lease outlasts by a third what the hold has left by the clock that is right
(`HoldOutlasted`), that it would outlast the hold an answer on its way gives
(`AnswerOutlasted`, since the hold counts from before the request), that a pickup
that is on its way for a third of a lease at most, and not given up, has the lease
to that third's end (`PickupOutlasted`), that a wait has one request out at a time and its
release is the last, with the call of its pickup over (`InOrder`), and that one wait
has the lock (`OneHolds`). A lease given before the store was made has no lock
(`Has`), and `OneAtATime` leaves out the wait that has it. From it `HeldWhileCounted`, `PickupUnderLock`, `OneAtATime`.

**The store's file** (`LocalProofs`). The file at the path is the last one
made and every name is of an earlier one (`PathIsNewest`), so a connection that
recorded the file it found before and after it was opened is to that file
(`ConnIsSo`): `StoredIsThere`, and `MadeWithNothingBeside`, since what is beside a
path with nothing at it is only left by a human, who is counted as an edit.

**Sweeps** (`LocalProofs`). A case still at the revision a run read it at is as
the run took it (`ReadsHold`), and no run read a later time than the latest
(`LatestIsLatest`): `EndsOnlyTheStale`.

**Pages** (`InboxProofs`). A page has at most two reads, the first overtaken by the
second, and a read that may still be shown is of no version before the last one
the page was told of (`Reading`, `PageIsSo`); one tab has the stream (`StreamIsSo`).
From it `NeverOlderThanTold`.

**Notifications** (`InboxProofs`). A case is known by its key and the time it was
opened, which no later case has (`OpenedBefore`); what was told of a case in the
store was seen (`LandedIsSeen`), so that a read tells only what is past it; a page
on its way to a tab lacks only what the feed had dropped (`GivenIsSo`), and the feed
keeps as many of the latest as it has place for (`FeedIsSo`). That the cases landed
have an order at all, which `InKeyOrder` chooses, is by induction on how many there
are (`OrderExists`), and that the event which put a case on the human is one of its
events by the least number of steps back (`OnTheHumanIsOne`). From it
`EachNoticedOnce`.

**Listening** (`LocalProofs`). All rows of a worker that are heard of in time
say the same time since when (`WorkerIsSo`), which is why it does not matter which
of its waits writes, or reads, first: `ListedTruly`.

**The store's versions** (`ReadProofs`). `TablesInv` says that each change given is
held by one row of the store, the archive or a log, also in a copy of the file:
`EveryChangeIsFound`. `PollerInv` says of the store with the id of the poller's
version that it has *grown* from what it was then, each case there or logged as
removed since, and each with its rows of then (`Grown`); or that an older copy was
put back, and then the change of the version has not been given again, or was given
at a later time (`Apart`), which its tag shows. Of a store that has grown, the cases
of then are among those there and those removed since, so when their numbers add up
no case is both and none else is there (`WholeIsAll`): folding those that changed
gives the store. From it `VersionTellsStoresApart`, and that `Store` implements
`StoreView`, step by step (`PollerGivesTheStore`). These two have a hypothesis,
`NotBoth`: in one history a human puts cases back from the archive or a copy of the
file over the store, not both. With both they are false: TLC finds it with
`HandEdits <- BothEdits`. `NoneIsNoVersion` says that the constant which stands for no version is none.

**Signing in** (`SignInProofs`). `SignInInv` says what each command that runs has:
the token it is to keep, which no place and no other command has (`RunIsSo`,
`Apart`), the one it replaces, and, if it runs alone, that what is kept of its
server is that one or was told of (`AloneIsSo`). From it `NoneLeft`,
`NeverLeftWithout` and `SaidIsSo`. These three theorems have a hypothesis,
`OnePlace`, of the computers in `Setups`: its commands keep logins in the file, or
all of them in a keychain that works beside a file that can be read; and commands
at once are of one server. Without it they are false, as the code stands: the runs
`signin_places` and `signin_keychain` show the first part, and two logins at once to
two servers each write the file they read, and one loses the other's entry.

Assumptions on constants, each next to its constant and evaluated by TLC:
`TimesAssumption` in `Lease` (a third of a lease is not zero), `ApartAssumption` in `Wait` (an ask is not a message) and
in `Panels` (the constants for nothing, a new message and a failed read are no form,
write, store or case, nor each other),
`NoneAssumption` in `Case` (the constant for nothing is no state, time or answer),
`NoTabAssumption` in `Inbox`, and the kinds of inputs and bounds elsewhere.

Only model-checked:

- liveness (`EveryTurnIsHeard`, `GoneLetsGo`, `EveryCallEnds`, `PagesCatchUp`),
  which is beyond the provers;
- the forms of the web inbox: its halves of `AnswersLand` and `WithdrawsLand`. A page
  has three marks of its own, reads and refusals that cross, and sends let go while
  they are out; an invariant would have to say of each what was drawn when.

## What is not modelled

- `Case`: what text a field may hold; times, but for their order.
- `Store`: actors, an archive emptied by hand. `Restore` moves the clock, since
  `read.rs` itself names the row stamped with the time of the one it replaced as
  what its tag cannot tell.
- `Connections`: the clock of SQLite's busy wait; a symbolic link moved; what the
  writes write, which is `Store`.
- `Forms`: notes and resumes; the screen of one case (`cases tui ID`).
- `Panels`: which case is selected, filters, the palette, menus, help and the
  mouse, and which field has the keys. A sent message's landing closes whichever
  message is being written, with what was typed into it since; a toast may be
  pushed out by later ones; a write whose answer a far store lost is told as not
  sent; signals; a read error that ends the program.
- `WebForms`, `Inbox`: the composer of messages, the layout, the keys. The
  browser's Web Locks are taken to be there, the store's version only rises, a
  page reads its two lists in one order, and what a page does in one task is one
  step.
- `Wait`: the filters; two events at one time, for each row is given a later time than the
  last, as times in nanoseconds nearly always are; a store not made yet or made again at the first read; a
  process killed while it prints; rows of a case whose times go back; waits of a
  human (`--for human`); retries while offline.
- `Lease`: several locks at once; a pickup given up, once its wait begins another;
  a next wait of the same name before all that the last one sent is done with; a far side too old for leases, which lets go
  as the connection ends; a far process killed early, which lets go at once;
  both clocks of one computer wrong at the same time.
- `Requests`: the shapes of requests and answers; the held read `changes`.
- `Listening`: the table `listeners` that an older cases keeps; the clock set
  back; a forwarded row whose write's outcome is unknown. The beat after a failed one comes
  after `RETRY`, which `wait.rs` gives the length of `HEARTBEAT`.
- `SignIn`: the callback's parsing, `login status`, the lists of stores. Outside
  the setups of the passing run: a keychain write that fails with an old item in
  it shadows the token the file keeps; two logins at once to different servers
  may lose one's entry; a device poll whose answer is lost leaves a token nobody
  is told of; a logout beside a login removes the new login.
- Not modelled at all: the records as JSON, ids, configuration, output and help,
  the running instance and service, whose state is one value's encoding or a
  file written once; and the drawing of both inboxes (`tui/view.rs`,
  `serve/page.rs`), which decides nothing that is filed. Many of the source's
  lines are those, and tests, which stand in the same files.

## Plan

Next, in order:

1. Models: the held read `changes` (`follow.rs`) and its place in `Wait` and the
   terminal inbox; the lists and hosted stores of `hosted.rs`; the instance a running
   server leaves (`instance.rs`); the filters of a wait; the screen's selection
   (`tui/app.rs`).
2. Theorems: the web's halves of `AnswersLand` and `WithdrawsLand`.
3. Liveness of the forms and of a login under the fairness of their threads.

