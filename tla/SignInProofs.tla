---------------------------- MODULE SignInProofs ----------------------------
(***************************************************************************)
(* What the logins and logouts of a computer leave behind, for any number  *)
(* of commands, servers and tokens, where a computer keeps its logins in   *)
(* one place (SignIn).                                                     *)
(***************************************************************************)
EXTENDS SignIn, SequenceTheorems, TLAPS

(***************************************************************************)
(* A computer whose commands keep logins in the file, or in a keychain     *)
(* that works beside a file that can be read; and where commands that run  *)
(* at once are of one server.                                              *)
(***************************************************************************)
OnePlace(c) ==
  /\ \/ c.keychains = {FALSE}
     \/ c.keychains = {TRUE} /\ c.faults \cap {"file", "keychain"} = {}
  /\ (\E p \in Runs : c.runs = {p}) \/ (\A a, b \in c.commands : a.server = b.server)

-----------------------------------------------------------------------------
(* The inductive invariant *)

Kept == Tokens \cup {NoToken}
Places == [Servers -> Kept]

Signing == {"callback", "poll", "exchange"}
Keeping == {"check", "write path", "keychain", "read file", "write file", "discard"}
Done == {"tidy file", "finish", "revoke old"}
Leaving == {"revoke", "remove path", "forget keychain", "forget file", "write forgotten"}

Says == {"nothing", "failed", "may have made one", "nothing kept", "signed in", "signed out",
         "not revoked"}

Over == [at : {"over"}, said : Says]
Busy ==
  [at : Signing \cup Keeping \cup Done \cup Leaving, command : Command, keychain : BOOLEAN,
   old : Kept, new : Kept, spent : BOOLEAN, resent : BOOLEAN, tries : Nat,
   entries : {<<>>} \cup Places, said : Says]

SignInTyped ==
  /\ setup \in Setups
  /\ tokens \in Seq([server : Servers, live : BOOLEAN, arrived : BOOLEAN])
  /\ keychain \in Places /\ credentials \in [ok : BOOLEAN, entry : Places] /\ path \in Kept
  /\ run \in [Runs -> Over \cup Busy]
  /\ answered \subseteq Tokens /\ revoked \subseteq Tokens

Pending(r) == r.at \in Keeping

(* What is written of the file leaves the other servers' logins. *)
Entries(r, token) ==
  /\ r.entries \in Places /\ r.entries[r.command.server] = token
  /\ \A s \in Servers : s # r.command.server => r.entries[s] = credentials.entry[s]

(* A command that runs, and the tokens it has. *)
RunIsSo(r) ==
  LET c == r.command
      s == c.server IN
  /\ c \in setup.commands /\ r.keychain \in setup.keychains
  /\ c.does = "login" <=> r.at \notin Leaving
  /\ r.new # NoToken <=> r.at \in Keeping \cup Done
  /\ r.new # NoToken => r.new # r.old /\ tokens[r.new].server = s
  /\ r.old # NoToken => tokens[r.old].server = s
  /\ r.at \in Leaving \cup {"revoke old"} => r.old # NoToken
  /\ c.does = "login" /\ c.path => r.old = NoToken
  /\ r.at \in {"keychain", "read file", "write file", "tidy file"} => ~c.path
  /\ r.at \in {"write path", "remove path"} => c.path
  /\ r.at \in {"forget keychain", "forget file", "write forgotten"} => ~c.path
  /\ r.at \in {"keychain", "tidy file"} => r.keychain
  /\ r.at \in {"read file", "write file", "write forgotten"} => ~r.keychain
  /\ r.at = "write file" => Entries(r, r.new)
  /\ r.at = "write forgotten" => Entries(r, NoToken)
  /\ Pending(r) => r.new \notin KeptTokens
  /\ r.at \in Keeping \ {"check", "discard"} => Live(r.new) \/ r.new \in revoked
  /\ r.at \in Done => \A u \in Servers : r.old \notin KeptFor(u)

(* What one that runs alone finds of what it keeps, replaces or forgets. *)
AloneIsSo(r) ==
  LET c == r.command
      s == c.server IN
  /\ r.at \in Signing \cup Keeping /\ ~c.path =>
       /\ KeptFor(s) \subseteq {r.old} \cup answered
       /\ r.old # NoToken => r.old \in KeptFor(s)
  /\ r.at \in Done => LeftBy(c, r.keychain) = r.new
  /\ r.at \in Leaving =>
       /\ IF c.path THEN path = r.old ELSE KeptFor(s) \subseteq {r.old}
       /\ r.at = "revoke" => r.old \in KeptTokens
       /\ r.at # "revoke" /\ Live(r.old) => r.old \in answered

(* The two places, of which a computer uses one. *)
PlacesAreSo ==
  /\ \A s \in Servers : \A t \in KeptFor(s) :
        tokens[t].server = s /\ (Live(t) \/ t \in revoked)
  /\ setup.keychains = {TRUE} => credentials.ok /\ \A s \in Servers : credentials.entry[s] = NoToken
  /\ setup.keychains = {FALSE} => \A s \in Servers : keychain[s] = NoToken

(* No command has a token that another is still to keep. *)
Apart ==
  \A p, q \in Runs :
    p # q /\ Running(p) /\ Running(q) /\ Pending(run[p]) =>
      run[q].new # run[p].new /\ run[q].old # run[p].new

SignInInv ==
  /\ SignInTyped /\ OnePlace(setup) /\ PlacesAreSo /\ Apart
  /\ \A p \in Runs : Running(p) =>
       p \in setup.runs /\ RunIsSo(run[p]) /\ (Alone => AloneIsSo(run[p]))
  /\ NoneLeft

-----------------------------------------------------------------------------
(* What runs *)

LEMMA RunIs ==
  ASSUME SignInInv, NEW p \in Runs, Running(p)
  PROVE  /\ run[p] \in Busy /\ p \in setup.runs /\ RunIsSo(run[p])
         /\ Alone => AloneIsSo(run[p])
         /\ run[p].command \in Command /\ For(p) \in Servers
<1>1. run[p] \in Busy
  <2>1. run[p] \in Over \cup Busy /\ run[p].at # "over"
    BY DEF SignInInv, SignInTyped, Running
  <2>. QED
    BY <2>1 DEF Over
<1>2. run[p].command \in Command
  BY <1>1 DEF Busy
<1>3. For(p) \in Servers
  BY <1>2 DEF Command, For
<1>. QED
  BY <1>1, <1>2, <1>3 DEF SignInInv

(* Commands that run at once are of one server, and none of them alone. *)
LEMMA TwoAreOfOneServer ==
  ASSUME SignInInv, NEW p \in Runs, NEW q \in Runs, p # q, Running(p), Running(q)
  PROVE  ~Alone /\ For(p) = For(q)
<1>1. /\ p \in setup.runs /\ q \in setup.runs /\ run[p].command \in setup.commands
      /\ run[q].command \in setup.commands
  BY RunIs DEF RunIsSo
<1>2. ~Alone
  BY <1>1 DEF Alone
<1>. QED
  BY <1>1, <1>2 DEF SignInInv, OnePlace, Alone, For

(* A place a computer does not use is empty, and the one it uses can fail  *)
(* only if it is the file.                                                 *)
LEMMA PlacesAre ==
  ASSUME SignInInv, NEW p \in Runs, Running(p)
  PROVE  /\ run[p].keychain =>
              /\ credentials.ok /\ \A s \in Servers : credentials.entry[s] = NoToken
              /\ {"file", "keychain"} \cap setup.faults = {}
              /\ setup.keychains = {TRUE}
         /\ ~run[p].keychain =>
              setup.keychains = {FALSE} /\ \A s \in Servers : keychain[s] = NoToken
<1>1. run[p].keychain \in setup.keychains
  BY RunIs DEF RunIsSo
<1>2. run[p].keychain \in BOOLEAN /\ PlacesAreSo /\ OnePlace(setup)
  BY RunIs DEF Busy, SignInInv
<1>3. CASE setup.keychains = {FALSE}
  <2>1. run[p].keychain = FALSE
    BY <1>1, <1>3
  <2>. QED
    BY <1>2, <1>3, <2>1 DEF PlacesAreSo
<1>4. CASE setup.keychains = {TRUE} /\ setup.faults \cap {"file", "keychain"} = {}
  <2>1. run[p].keychain = TRUE
    BY <1>1, <1>4
  <2>. QED
    BY <1>2, <1>4, <2>1 DEF PlacesAreSo
<1>. QED
  BY <1>2, <1>3, <1>4 DEF OnePlace

(* The tokens kept, one place at a time. *)
LEMMA KeptIs ==
  ASSUME SignInTyped
  PROVE  /\ \A s \in Servers : KeptFor(s) \subseteq Tokens
         /\ \A s \in Servers : KeptFor(s) \subseteq KeptTokens
         /\ \A t \in KeptTokens : t = path \/ \E s \in Servers : t \in KeptFor(s)
         /\ path \in KeptTokens /\ KeptTokens \subseteq Kept
         /\ NoToken \notin Tokens /\ \A s \in Servers : NoToken \notin KeptFor(s)
<1>1. \A s \in Servers : keychain[s] \in Kept /\ credentials.entry[s] \in Kept
  BY DEF SignInTyped, Places
<1>2. NoToken \notin Tokens
  BY DEF Tokens, NoToken
<1>3. path \in Kept
  BY DEF SignInTyped
<1>4. \A s \in Servers : KeptFor(s) \subseteq Tokens /\ NoToken \notin KeptFor(s)
  BY <1>1 DEF KeptFor, Kept
<1>5. \A s \in Servers : KeptFor(s) \subseteq KeptTokens
  BY DEF KeptTokens
<1>6. \A t \in KeptTokens : t = path \/ \E s \in Servers : t \in KeptFor(s)
  BY DEF KeptTokens
<1>7. path \in KeptTokens
  BY DEF KeptTokens
<1>8. KeptTokens \subseteq Kept
  BY <1>3, <1>4, <1>6 DEF Kept
<1>. QED
  BY <1>2, <1>4, <1>5, <1>6, <1>7, <1>8

LEMMA KeptIsNext ==
  /\ \A s \in Servers : KeptFor(s)' \subseteq KeptTokens'
  /\ \A t \in KeptTokens' : t = path' \/ \E s \in Servers : t \in KeptFor(s)'
  /\ path' \in KeptTokens'
<1>1. \A s \in Servers : KeptFor(s)' \subseteq KeptTokens'
  BY DEF KeptTokens
<1>2. \A t \in KeptTokens' : t = path' \/ \E s \in Servers : t \in KeptFor(s)'
  BY DEF KeptTokens
<1>3. path' \in KeptTokens'
  BY DEF KeptTokens
<1>. QED
  BY <1>1, <1>2, <1>3

-----------------------------------------------------------------------------
(* What a step leaves as it was *)

(* A command with a token to keep may put it in a place.                   *)
MayKeep(p) == IF Pending(run[p]) THEN {run[p].new} ELSE {}

(* The commands beside the one that moves. *)
LEMMA OthersGoOn ==
  ASSUME SignInInv, NEW p \in Runs, NEW q \in Runs, p # q, Running(p), Running(q),
         run'[q] = run[q], UNCHANGED setup, SignInTyped',
         \A t \in Tokens : t \in Tokens' /\ tokens'[t].server = tokens[t].server,
         \A t \in Tokens : Live(t) =>
           Live(t)' \/ t \in revoked' \/ t = run[p].new \/ t = run[p].old,
         revoked \subseteq revoked',
         KeptTokens' \subseteq KeptTokens \cup MayKeep(p) \cup {NoToken},
         \A s \in Servers : KeptFor(s)' \subseteq KeptFor(s) \cup MayKeep(p),
         \A s \in Servers : s # For(p) => credentials'.entry[s] = credentials.entry[s]
  PROVE  RunIsSo(run[q])' /\ ~Alone'
<1>. PICK r : r = run[q]
  OBVIOUS
<1>1. r \in Busy /\ RunIsSo(r) /\ For(q) = For(p) /\ ~Alone
  BY RunIs, TwoAreOfOneServer
<1>2. run[q].new \notin MayKeep(p) /\ run[q].old \notin MayKeep(p)
  BY DEF SignInInv, Apart, MayKeep
<1>3. Pending(r) => r.new # run[p].new /\ r.new # run[p].old
  BY DEF SignInInv, Apart
<1>4. ~Alone'
  BY <1>1 DEF Alone
<1>5. r.new \in Kept /\ r.old \in Kept
  BY <1>1 DEF Busy
<1>6. /\ r.new # NoToken => tokens'[r.new].server = tokens[r.new].server
      /\ r.old # NoToken => tokens'[r.old].server = tokens[r.old].server
  BY <1>5 DEF Kept
<1>7. r.at \in Keeping \ {"check", "discard"} => Live(r.new)' \/ r.new \in revoked'
  <2>. SUFFICES ASSUME r.at \in Keeping \ {"check", "discard"}
                PROVE  Live(r.new)' \/ r.new \in revoked'
    OBVIOUS
  <2>1. Pending(r) /\ r.new # NoToken /\ (Live(r.new) \/ r.new \in revoked)
    BY <1>1 DEF RunIsSo, Pending
  <2>2. r.new \in Tokens
    BY <1>5, <2>1 DEF Kept
  <2>. QED
    BY <1>3, <2>1, <2>2 DEF Live
<1>8. \A e : Entries(r, e) => Entries(r, e)'
  <2>1. Places \subseteq Places'
    BY DEF Places, Kept
  <2>. QED
    BY <1>1, <2>1 DEF Entries, For
<1>9. Pending(r) => r.new \notin KeptTokens'
  <2>1. Pending(r) => r.new # NoToken /\ r.new \notin KeptTokens
    BY <1>1 DEF RunIsSo, Pending
  <2>. QED
    BY <1>2, <2>1
<1>10. r.at \in Done => \A u \in Servers : r.old \notin KeptFor(u)'
  BY <1>1, <1>2 DEF RunIsSo
<1>11. RunIsSo(r)'
  BY <1>1, <1>6, <1>7, <1>8, <1>9, <1>10 DEF RunIsSo
<1>. QED
  BY <1>4, <1>11

(* A command that starts moves nothing but what it has, and what is said.  *)
LEMMA StaysSo ==
  ASSUME SignInInv, UNCHANGED <<setup, tokens, keychain, credentials, path, revoked>>,
         answered \subseteq answered', NEW r
  PROVE  /\ RunIsSo(r) <=> RunIsSo(r)'
         /\ AloneIsSo(r) => AloneIsSo(r)'
         /\ KeptTokens' = KeptTokens /\ Tokens' = Tokens /\ Kept' = Kept /\ Busy' = Busy
         /\ PlacesAreSo' /\ (Alone <=> Alone')
<1>1. \A s : KeptFor(s)' = KeptFor(s)
  BY DEF KeptFor
<1>2. KeptTokens' = KeptTokens
  BY DEF KeptTokens, KeptFor
<1>3. Tokens' = Tokens /\ Kept' = Kept /\ Places' = Places
  BY DEF Tokens, Kept, Places
<1>4. Busy' = Busy
  BY <1>3 DEF Busy
<1>5. \A t : Live(t)' = Live(t)
  BY DEF Live
<1>6. \A e : Entries(r, e)' <=> Entries(r, e)
  BY <1>3 DEF Entries
<1>7. RunIsSo(r) <=> RunIsSo(r)'
  BY <1>1, <1>2, <1>5, <1>6 DEF RunIsSo
<1>8. AloneIsSo(r) => AloneIsSo(r)'
  BY <1>1, <1>2, <1>5 DEF AloneIsSo, LeftBy
<1>9. PlacesAreSo'
  BY <1>1, <1>5 DEF SignInInv, PlacesAreSo
<1>10. Alone <=> Alone'
  BY DEF Alone
<1>. QED
  BY <1>2, <1>3, <1>4, <1>7, <1>8, <1>9, <1>10

(***************************************************************************)
(* No token is left by a step of one command if each that it had, or that  *)
(* was kept, is had or kept still, is dead or is answered for.             *)
(***************************************************************************)
LEMMA NoneIsLeft ==
  ASSUME SignInInv, NEW p \in Runs, NEW r, run' = [run EXCEPT ![p] = r], UNCHANGED setup,
         answered \subseteq answered',
         \A t \in Tokens' : Live(t)' /\ tokens'[t].arrived =>
           \/ t \in Tokens /\ Live(t) /\ tokens[t].arrived
           \/ r.at # "over" /\ t \in {r.old, r.new},
         Alone => \A t \in Tokens :
           t \in KeptTokens \/ (Running(p) /\ t \in {run[p].old, run[p].new}) =>
             \/ ~Live(t)' \/ t \in answered' \/ t \in KeptTokens'
             \/ r.at # "over" /\ t \in {r.old, r.new}
  PROVE  NoneLeft'
<1>. SUFFICES ASSUME Alone', NEW t \in Tokens', Live(t)', tokens'[t].arrived
              PROVE  t \in Held' \cup answered'
  BY DEF NoneLeft
<1>1. Alone /\ \A q \in Runs : Running(q) => q \in setup.runs
  BY DEF Alone, SignInInv
<1>2. run'[p] = r /\ \A q \in Runs : q # p => run'[q] = run[q]
  BY DEF SignInInv, SignInTyped
<1>3. /\ r.at # "over" => {r.old, r.new} \subseteq Held'
      /\ KeptTokens' \subseteq Held'
  <2>1. r.at # "over" => Running(p)'
    BY <1>2 DEF Running
  <2>. QED
    BY <1>2, <2>1 DEF Held
<1>4. CASE r.at # "over" /\ t \in {r.old, r.new}
  BY <1>3, <1>4
<1>5. CASE t \in Tokens /\ Live(t) /\ tokens[t].arrived
  <2>1. t \in Held \cup answered
    BY <1>1, <1>5 DEF SignInInv, NoneLeft
  <2>2. CASE t \in answered
    BY <2>2
  <2>3. CASE t \in KeptTokens \/ (Running(p) /\ t \in {run[p].old, run[p].new})
    BY <1>1, <1>3, <1>5, <2>3
  <2>4. CASE \E q \in Runs : q # p /\ Running(q) /\ t \in {run[q].old, run[q].new}
    <3>1. PICK q \in Runs : q # p /\ Running(q) /\ t \in {run[q].old, run[q].new}
      BY <2>4
    <3>2. Running(q)'
      BY <1>2, <3>1 DEF Running
    <3>. QED
      BY <1>2, <3>1, <3>2 DEF Held
  <2>. QED
    BY <2>1, <2>2, <2>3, <2>4 DEF Held
<1>. QED
  BY <1>4, <1>5

(* A step of one command, which moves what no other has. *)
LEMMA OneMoves ==
  ASSUME SignInInv, NEW p \in Runs, Running(p), NEW r, run' = [run EXCEPT ![p] = r],
         UNCHANGED setup, SignInTyped', PlacesAreSo', NoneLeft',
         \A t \in Tokens : t \in Tokens' /\ tokens'[t].server = tokens[t].server,
         \A t \in Tokens : Live(t) =>
           Live(t)' \/ t \in revoked' \/ t = run[p].new \/ t = run[p].old,
         revoked \subseteq revoked',
         KeptTokens' \subseteq KeptTokens \cup MayKeep(p) \cup {NoToken},
         \A s \in Servers : KeptFor(s)' \subseteq KeptFor(s) \cup MayKeep(p),
         \A s \in Servers : s # For(p) => credentials'.entry[s] = credentials.entry[s],
         r.at # "over" =>
           /\ RunIsSo(r)' /\ (Alone => AloneIsSo(r)') /\ r.old = run[p].old
           /\ \/ r.new = run[p].new /\ (Pending(r) => Pending(run[p]))
              \/ r.new \notin Kept
  PROVE  SignInInv'
<1>1. run'[p] = r /\ \A q \in Runs : q # p => run'[q] = run[q]
  BY DEF SignInInv, SignInTyped
<1>2. Alone' <=> Alone
  BY DEF Alone
<1>3. \A q \in Runs : q # p /\ Running(q) =>
        q \in setup.runs /\ RunIsSo(run[q])' /\ ~Alone'
  BY <1>1, OthersGoOn, RunIs
<1>4. \A q \in Runs : Running(q)' <=> IF q = p THEN r.at # "over" ELSE Running(q)
  BY <1>1 DEF Running
<1>5. ASSUME NEW q \in Runs, Running(q)'
      PROVE  q \in setup'.runs /\ RunIsSo(run[q])' /\ (Alone' => AloneIsSo(run[q])')
  <2>1. CASE q = p
    <3>1. run'[q] = r /\ r.at # "over" /\ p \in setup.runs
      BY <1>1, <1>4, <1>5, <2>1, RunIs
    <3>2. RunIsSo(r)' /\ (Alone' => AloneIsSo(r)')
      BY <1>2, <3>1
    <3>. QED
      BY <2>1, <3>1, <3>2
  <2>2. CASE q # p
    BY <1>3, <1>4, <1>5, <2>2
  <2>. QED
    BY <2>1, <2>2
<1>6. Apart'
  <2>. SUFFICES ASSUME NEW u \in Runs, NEW v \in Runs, u # v, Running(u)', Running(v)',
                       Pending(run'[u])
                PROVE  run'[v].new # run'[u].new /\ run'[v].old # run'[u].new
    BY DEF Apart
  <2>1. CASE u = p
    <3>1. run'[u] = r /\ run'[v] = run[v] /\ Running(v) /\ r.at # "over"
      BY <1>1, <1>4, <2>1
    <3>2. run[v].new \in Kept /\ run[v].old \in Kept
      BY <3>1, RunIs DEF Busy
    <3>. QED
      BY <2>1, <3>1, <3>2 DEF SignInInv, Apart
  <2>2. CASE v = p
    <3>1. run'[v] = r /\ run'[u] = run[u] /\ Running(u) /\ r.at # "over" /\ Pending(run[u])
      BY <1>1, <1>4, <2>2
    <3>2. run[u].new \in Kept
      BY <3>1, RunIs DEF Busy
    <3>. QED
      BY <2>2, <3>1, <3>2 DEF SignInInv, Apart
  <2>3. CASE u # p /\ v # p
    <3>1. run'[u] = run[u] /\ run'[v] = run[v] /\ Running(u) /\ Running(v)
      BY <1>1, <1>4, <2>3
    <3>. QED
      BY <3>1 DEF SignInInv, Apart
  <2>. QED
    BY <2>1, <2>2, <2>3
<1>7. OnePlace(setup)'
  BY DEF SignInInv, OnePlace
<1>. QED
  BY <1>5, <1>6, <1>7 DEF SignInInv

-----------------------------------------------------------------------------
(* How a command moves on, and ends *)

AnyPhase == Signing \cup Keeping \cup Done \cup Leaving

MovesTo(p, at, r) ==
  /\ run' = [run EXCEPT ![p] = r] /\ r = [run[p] EXCEPT !.at = at]
  /\ r.at = at /\ at # "over" /\ r.command = run[p].command /\ r.keychain = run[p].keychain
  /\ r.old = run[p].old /\ r.new = run[p].new /\ r.entries = run[p].entries

LEMMA Goes ==
  ASSUME SignInInv, NEW p \in Runs, Running(p), NEW at \in AnyPhase, Go(p, at)
  PROVE  \E r \in Busy : MovesTo(p, at, r)
<1>. PICK r : r = [run[p] EXCEPT !.at = at]
  OBVIOUS
<1>1. run[p] \in Busy
  BY RunIs
<1>2. r \in Busy
  BY <1>1 DEF Busy, AnyPhase
<1>3. run' = [run EXCEPT ![p] = r]
  BY DEF Go
<1>4. at # "over"
  BY DEF AnyPhase, Signing, Keeping, Done, Leaving
<1>5. /\ r.at = at /\ r.command = run[p].command /\ r.keychain = run[p].keychain
      /\ r.old = run[p].old /\ r.new = run[p].new /\ r.entries = run[p].entries
  BY <1>1 DEF Busy
<1>. QED
  BY <1>2, <1>3, <1>4, <1>5 DEF MovesTo

LEMMA Ends ==
  ASSUME NEW p \in Runs, NEW said \in Says, End(p, said)
  PROVE  \E r \in Over : run' = [run EXCEPT ![p] = r] /\ r.at = "over" /\ r.said = said
<1>. PICK r : r = Ended(said)
  OBVIOUS
<1>1. r.at = "over" /\ r.said = said /\ r \in Over
  BY DEF Ended, Over
<1>2. run' = [run EXCEPT ![p] = r]
  BY DEF End
<1>. QED
  BY <1>1, <1>2

(* A step that moves no token. *)
LEMMA OnlyMoves ==
  ASSUME SignInInv, NEW p \in Runs, Running(p), NEW r \in Over \cup Busy,
         run' = [run EXCEPT ![p] = r],
         UNCHANGED <<setup, tokens, keychain, credentials, path, revoked>>,
         answered \subseteq answered', answered' \subseteq Tokens,
         r.at = "over" /\ Alone => \A t \in {run[p].old, run[p].new} \ {NoToken} :
           t \in KeptTokens \/ ~Live(t) \/ t \in answered',
         r.at # "over" =>
           /\ RunIsSo(r) /\ (Alone => AloneIsSo(r))
           /\ r.old = run[p].old /\ r.new = run[p].new /\ (Pending(r) => Pending(run[p]))
  PROVE  SignInInv'
<1>1. /\ RunIsSo(r) <=> RunIsSo(r)'
      /\ AloneIsSo(r) => AloneIsSo(r)'
      /\ KeptTokens' = KeptTokens /\ Tokens' = Tokens /\ Kept' = Kept /\ Busy' = Busy
      /\ PlacesAreSo'
  BY StaysSo
<1>2. SignInTyped'
  <2>1. SignInTyped /\ run' \in [Runs -> Over \cup Busy]
    BY DEF SignInInv, SignInTyped
  <2>. QED
    BY <1>1, <2>1 DEF SignInTyped, Places
<1>3. \A t : Live(t)' <=> Live(t)
  BY DEF Live
<1>4. NoneLeft'
  <2>1. \A t \in Tokens : t # NoToken
    BY DEF Tokens, NoToken
  <2>2. ASSUME Alone, NEW t \in Tokens, t \in KeptTokens \/ (Running(p) /\ t \in {run[p].old, run[p].new})
        PROVE  \/ ~Live(t)' \/ t \in answered' \/ t \in KeptTokens'
               \/ r.at # "over" /\ t \in {r.old, r.new}
    BY <1>1, <1>3, <2>1, <2>2
  <2>. QED
    BY <1>1, <1>3, <2>2, NoneIsLeft
<1>5. \A s \in Servers : KeptFor(s)' \subseteq KeptFor(s) \cup MayKeep(p)
  BY DEF KeptFor
<1>6. /\ \A t \in Tokens : t \in Tokens' /\ tokens'[t].server = tokens[t].server
      /\ \A t \in Tokens : Live(t) =>
           Live(t)' \/ t \in revoked' \/ t = run[p].new \/ t = run[p].old
      /\ KeptTokens' \subseteq KeptTokens \cup MayKeep(p) \cup {NoToken} /\ revoked \subseteq revoked'
  BY <1>1, <1>3
<1>. QED
  BY <1>1, <1>2, <1>4, <1>5, <1>6, OneMoves

-----------------------------------------------------------------------------
(* The sign-in *)

LEMMA Unmoved ==
  ASSUME SignInInv, UNCHANGED <<setup, tokens, placeVars, ran, revoked, answered>>
  PROVE  /\ UNCHANGED <<setup, tokens, keychain, credentials, path, revoked>>
         /\ answered \subseteq answered' /\ answered' \subseteq Tokens
BY DEF placeVars, SignInInv, SignInTyped

(* What a sign-in that fails, or a logout, leaves of what it had. *)
LEMMA LeftKept ==
  ASSUME SignInInv, NEW p \in Runs, Running(p), Alone, run[p].at \in Signing \cup Leaving,
         NEW t \in {run[p].old, run[p].new} \ {NoToken}
  PROVE  t \in KeptTokens \/ ~Live(t) \/ t \in answered
<1>1. run[p] \in Busy /\ RunIsSo(run[p]) /\ AloneIsSo(run[p]) /\ For(p) \in Servers
  BY RunIs
<1>2. t = run[p].old
  BY <1>1 DEF RunIsSo, Signing, Leaving, Keeping, Done
<1>3. KeptFor(For(p)) \subseteq KeptTokens
  BY <1>1, KeptIs DEF SignInInv
<1>4. CASE run[p].at \in Signing
  <2>1. ~run[p].command.path
    BY <1>1, <1>2, <1>4 DEF RunIsSo, Signing, Leaving, Command
  <2>. QED
    BY <1>1, <1>2, <1>3, <1>4, <2>1 DEF AloneIsSo, For
<1>5. CASE run[p].at \in Leaving
  BY <1>1, <1>2, <1>5 DEF AloneIsSo
<1>. QED
  BY <1>4, <1>5

LEMMA Fails ==
  ASSUME SignInInv, NEW p \in Runs, Running(p), run[p].at \in Signing \cup Leaving,
         NEW said \in Says, End(p, said),
         UNCHANGED <<setup, tokens, placeVars, ran, revoked, answered>>
  PROVE  SignInInv'
<1>1. PICK r \in Over : run' = [run EXCEPT ![p] = r] /\ r.at = "over"
  BY Ends
<1>2. Alone => \A t \in {run[p].old, run[p].new} \ {NoToken} :
        t \in KeptTokens \/ ~Live(t) \/ t \in answered'
  BY LeftKept
<1>. QED
  BY <1>1, <1>2, Unmoved, OnlyMoves

LEMMA CallbackKeepsIt ==
  ASSUME SignInInv, NEW p \in Runs, Callback(p)
  PROVE  SignInInv'
<1>1. run[p].at = "callback" /\ Running(p) /\ Go(p, "exchange") /\ "exchange" \in AnyPhase
  BY DEF Callback, Running, AnyPhase, Signing
<1>2. PICK r \in Busy : MovesTo(p, "exchange", r)
  BY <1>1, Goes
<1>. USE DEF MovesTo
<1>3. RunIsSo(run[p]) /\ (Alone => AloneIsSo(run[p]))
  BY <1>1, RunIs
<1>4. RunIsSo(r) /\ (Alone => AloneIsSo(r)) /\ ~Pending(r)
  BY <1>1, <1>2, <1>3 DEF RunIsSo, AloneIsSo, Pending, Signing, Keeping, Done, Leaving
<1>. QED
  BY <1>1, <1>2, <1>4, Unmoved, OnlyMoves DEF Callback

LEMMA SignInFails ==
  ASSUME SignInInv, NEW p \in Runs, NoApproval(p) \/ CodeRefused(p)
  PROVE  SignInInv'
<1>1. run[p].at \in Signing /\ Running(p)
  BY DEF NoApproval, CodeRefused, Running, Signing
<1>2. \E said \in Says : End(p, said)
  BY DEF NoApproval, CodeRefused, Says
<1>. QED
  BY <1>1, <1>2, Fails DEF NoApproval, CodeRefused

LEMMA UnavailableKeepsIt ==
  ASSUME SignInInv, NEW p \in Runs, Unavailable(p)
  PROVE  SignInInv'
<1>1. run[p].at = "exchange" /\ run[p].at \in Signing /\ Running(p)
  BY DEF Unavailable, Running, Signing
<1>2. CASE run[p].tries = 0
  BY <1>1, <1>2, Fails DEF Unavailable, Says
<1>3. CASE run[p].tries # 0
  <2>1. PICK r : r = [run[p] EXCEPT !.tries = @ - 1]
    OBVIOUS
  <2>2. run[p] \in Busy /\ RunIsSo(run[p]) /\ (Alone => AloneIsSo(run[p]))
    BY <1>1, RunIs
  <2>3. run[p].tries - 1 \in Nat
    BY <1>3, <2>2 DEF Busy
  <2>4. r \in Busy
    BY <2>1, <2>2, <2>3 DEF Busy
  <2>5. /\ r.at = "exchange" /\ r.command = run[p].command /\ r.keychain = run[p].keychain
        /\ r.old = run[p].old /\ r.new = run[p].new
    BY <1>1, <2>1, <2>2 DEF Busy
  <2>6. RunIsSo(r) /\ (Alone => AloneIsSo(r)) /\ ~Pending(r)
    BY <1>1, <2>2, <2>5 DEF RunIsSo, AloneIsSo, Pending, Signing, Keeping, Done, Leaving
  <2>7. run' = [run EXCEPT ![p] = r]
    BY <1>3, <2>1 DEF Unavailable
  <2>. QED
    BY <1>1, <2>4, <2>5, <2>6, <2>7, Unmoved, OnlyMoves DEF Unavailable
<1>. QED
  BY <1>2, <1>3

TokenRecord == [server : Servers, live : BOOLEAN, arrived : BOOLEAN]

LEMMA Makes ==
  ASSUME SignInTyped, NEW s \in Servers, NEW arrived \in BOOLEAN, tokens' = Made(s, arrived)
  PROVE  /\ tokens' \in Seq(TokenRecord) /\ Tokens' = Tokens \cup {NextToken}
         /\ NextToken \notin Kept /\ NextToken # NoToken /\ Kept \subseteq Kept'
         /\ \A t \in Tokens : tokens'[t] = tokens[t]
         /\ tokens'[NextToken] = [server |-> s, live |-> TRUE, arrived |-> arrived]
<1>. PICK made : made = [server |-> s, live |-> TRUE, arrived |-> arrived]
  OBVIOUS
<1>1. made \in TokenRecord /\ tokens \in Seq(TokenRecord) /\ tokens' = Append(tokens, made)
  BY DEF SignInTyped, Made, TokenRecord
<1>2. Len(tokens) \in Nat
  BY <1>1, LenProperties
<1>3. /\ tokens' \in Seq(TokenRecord) /\ Len(tokens') = Len(tokens) + 1
      /\ \A t \in 1 .. Len(tokens) : tokens'[t] = tokens[t]
      /\ tokens'[Len(tokens) + 1] = made
  BY <1>1, AppendProperties
<1>4. Tokens' = Tokens \cup {NextToken} /\ NextToken \notin Tokens /\ NextToken # 0
  BY <1>2, <1>3 DEF Tokens, NextToken
<1>. QED
  BY <1>3, <1>4 DEF Tokens, NextToken, Kept, NoToken

LEMMA AMadeTokenKeepsIt ==
  ASSUME SignInInv, NEW p \in Runs, run[p].at \in {"exchange", "poll"},
         NEW arrived \in BOOLEAN, tokens' = Made(For(p), arrived),
         UNCHANGED <<setup, placeVars, ran, revoked, answered>>,
         NEW r, r \in Over \/ r \in Busy', run' = [run EXCEPT ![p] = r],
         arrived => r.at = "check",
         r.at # "over" =>
           /\ r.command = run[p].command /\ r.keychain = run[p].keychain /\ r.old = run[p].old
           /\ \/ r.at = run[p].at /\ r.new = run[p].new
              \/ r.at = "check" /\ r.new = NextToken
  PROVE  SignInInv'
<1>1. Running(p) /\ run[p].at \in Signing /\ SignInTyped
  BY DEF Running, Signing, SignInInv
<1>2. /\ run[p] \in Busy /\ RunIsSo(run[p]) /\ (Alone => AloneIsSo(run[p]))
      /\ For(p) \in Servers
  BY <1>1, RunIs
<1>3. /\ tokens' \in Seq(TokenRecord) /\ Tokens' = Tokens \cup {NextToken}
      /\ NextToken \notin Kept /\ NextToken # NoToken /\ Kept \subseteq Kept'
      /\ \A t \in Tokens : tokens'[t] = tokens[t]
      /\ tokens'[NextToken] = [server |-> For(p), live |-> TRUE, arrived |-> arrived]
  BY <1>1, <1>2, Makes
<1>4. UNCHANGED <<keychain, credentials, path>>
  BY DEF placeVars
<1>5. /\ \A t \in Tokens : Live(t)' = Live(t)
      /\ \A s : KeptFor(s)' = KeptFor(s)
      /\ KeptTokens' = KeptTokens
  BY <1>3, <1>4 DEF Live, KeptFor, KeptTokens
<1>6. /\ \A s \in Servers : KeptFor(s) \subseteq Tokens
      /\ KeptTokens \subseteq Kept /\ NoToken \notin Tokens
  BY <1>1, KeptIs
<1>7. SignInTyped'
  <2>1. Busy \subseteq Busy' /\ Places \subseteq Places'
    BY <1>3 DEF Busy, Places
  <2>2. run' \in [Runs -> Over \cup Busy']
    BY <1>1, <2>1 DEF SignInTyped
  <2>3. credentials' \in [ok : BOOLEAN, entry : Places']
    BY <1>1, <1>4, <2>1 DEF SignInTyped
  <2>4. keychain' \in Places' /\ path' \in Kept' /\ setup' \in Setups
    BY <1>1, <1>3, <1>4, <2>1 DEF SignInTyped
  <2>5. answered' \subseteq Tokens' /\ revoked' \subseteq Tokens'
    BY <1>1, <1>3 DEF SignInTyped
  <2>. QED
    BY <1>3, <2>2, <2>3, <2>4, <2>5 DEF SignInTyped, TokenRecord
<1>8. PlacesAreSo'
  <2>1. PlacesAreSo
    BY DEF SignInInv
  <2>2. \A s \in Servers : \A t \in KeptFor(s)' :
          t \in Tokens /\ tokens[t].server = s /\ (Live(t) \/ t \in revoked)
    BY <1>5, <1>6, <2>1 DEF PlacesAreSo
  <2>3. \A s \in Servers : \A t \in KeptFor(s)' :
          tokens'[t].server = s /\ (Live(t)' \/ t \in revoked')
    BY <1>3, <1>5, <2>2
  <2>. QED
    BY <1>4, <2>1, <2>3 DEF PlacesAreSo
<1>9. Alone => \A t \in Tokens :
        t \in KeptTokens \/ (Running(p) /\ t \in {run[p].old, run[p].new}) =>
          \/ ~Live(t)' \/ t \in answered' \/ t \in KeptTokens'
          \/ r.at # "over" /\ t \in {r.old, r.new}
  <2>. SUFFICES ASSUME Alone, NEW t \in Tokens,
                       t \in KeptTokens \/ t \in {run[p].old, run[p].new}
                PROVE  ~Live(t)' \/ t \in answered' \/ t \in KeptTokens'
    OBVIOUS
  <2>1. t \in KeptTokens \/ t \in {run[p].old, run[p].new} \ {NoToken}
    BY <1>6
  <2>2. t \in KeptTokens \/ ~Live(t) \/ t \in answered
    BY <1>1, <2>1, LeftKept
  <2>. QED
    BY <1>5, <2>2
<1>10. NoneLeft'
  <2>1. \A t \in Tokens' : Live(t)' /\ tokens'[t].arrived =>
          \/ t \in Tokens /\ Live(t) /\ tokens[t].arrived
          \/ r.at # "over" /\ t \in {r.old, r.new}
    <3>1. ASSUME tokens'[NextToken].arrived
          PROVE  r.at # "over" /\ r.new = NextToken
      BY <1>3, <3>1 DEF Signing
    <3>. QED
      BY <1>3, <1>5, <3>1
  <2>. QED
    BY <1>9, <2>1, NoneIsLeft
<1>11. r.at # "over" =>
         /\ RunIsSo(r)' /\ (Alone => AloneIsSo(r)')
         /\ \/ r.new = run[p].new /\ (Pending(r) => Pending(run[p]))
            \/ r.new \notin Kept
  <2>. SUFFICES ASSUME r.at # "over"
                PROVE  /\ RunIsSo(r)' /\ (Alone => AloneIsSo(r)')
                       /\ \/ r.new = run[p].new /\ (Pending(r) => Pending(run[p]))
                          \/ r.new \notin Kept
    OBVIOUS
  <2>1. /\ r.old \in Kept /\ run[p].new = NoToken
        /\ r.old # NoToken => r.old \in Tokens /\ tokens'[r.old].server = r.command.server
    BY <1>2, <1>3, ZenonT(30) DEF Busy, RunIsSo, Kept, Signing, Keeping, Done
  <2>2. CASE r.at = run[p].at /\ r.new = run[p].new
    <3>1. RunIsSo(r)'
      BY <1>1, <1>2, <2>1, <2>2 DEF RunIsSo, Pending, Signing, Keeping, Done, Leaving
    <3>2. Alone => AloneIsSo(r)'
      BY <1>1, <1>2, <1>5, <2>2 DEF AloneIsSo, Signing, Keeping, Done, Leaving
    <3>. QED
      BY <1>1, <2>2, <3>1, <3>2 DEF Pending, Signing, Keeping
  <2>3. CASE r.at = "check" /\ r.new = NextToken
    <3>1. RunIsSo(r)'
      <4>1. r.new # r.old /\ r.new # NoToken /\ tokens'[r.new].server = r.command.server
        BY <1>2, <1>3, <2>1, <2>3 DEF For
      <4>2. r.new \notin KeptTokens'
        BY <1>3, <1>5, <1>6, <2>3
      <4>3. /\ r.command \in setup'.commands /\ r.keychain \in setup'.keychains
            /\ r.command.does = "login" /\ (r.command.path => r.old = NoToken)
        BY <1>1, <1>2 DEF RunIsSo, Signing, Leaving
      <4>. QED
        BY <2>1, <2>3, <4>1, <4>2, <4>3 DEF RunIsSo, Pending, Keeping, Done, Leaving
    <3>2. Alone => AloneIsSo(r)'
      BY <1>1, <1>2, <1>5, <2>3 DEF AloneIsSo, Signing, Keeping, Done, Leaving
    <3>. QED
      BY <1>3, <2>3, <3>1, <3>2
  <2>. QED
    BY <2>2, <2>3
<1>12. /\ \A t \in Tokens : t \in Tokens' /\ tokens'[t].server = tokens[t].server
       /\ \A t \in Tokens : Live(t) =>
            Live(t)' \/ t \in revoked' \/ t = run[p].new \/ t = run[p].old
       /\ KeptTokens' \subseteq KeptTokens \cup MayKeep(p) \cup {NoToken}
       /\ \A s \in Servers : KeptFor(s)' \subseteq KeptFor(s) \cup MayKeep(p)
  BY <1>3, <1>5
<1>. QED
  BY <1>1, <1>4, <1>7, <1>8, <1>10, <1>11, <1>12, OneMoves

LEMMA TokenComesKeepsIt ==
  ASSUME SignInInv, NEW p \in Runs, TokenComes(p)
  PROVE  SignInInv'
<1>. PICK r : r = [run[p] EXCEPT !.at = "check", !.new = NextToken]
  OBVIOUS
<1>1. Running(p) /\ SignInTyped
  BY DEF TokenComes, Running, SignInInv
<1>2. run[p] \in Busy /\ For(p) \in Servers
  BY <1>1, RunIs
<1>3. Tokens' = Tokens \cup {NextToken}
  BY <1>1, <1>2, Makes DEF TokenComes
<1>4. run[p] \in Busy'
  BY <1>2, <1>3 DEF Busy, Kept, Places
<1>5. r \in Busy'
  BY <1>3, <1>4 DEF Busy, Kept, Keeping
<1>6. /\ r.at = "check" /\ r.command = run[p].command /\ r.keychain = run[p].keychain
      /\ r.old = run[p].old /\ r.new = NextToken
  BY <1>2 DEF Busy
<1>7. run' = [run EXCEPT ![p] = r]
  BY DEF TokenComes
<1>. QED
  BY <1>5, <1>6, <1>7, AMadeTokenKeepsIt DEF TokenComes

LEMMA LostAnswerKeepsIt ==
  ASSUME SignInInv, NEW p \in Runs, LostAnswer(p)
  PROVE  SignInInv'
<1>1. /\ run[p].at \in {"exchange", "poll"} /\ run[p].at \in Signing /\ Running(p)
      /\ SignInTyped
  BY DEF LostAnswer, Running, Signing, SignInInv
<1>2. /\ run[p] \in Busy /\ RunIsSo(run[p]) /\ (Alone => AloneIsSo(run[p]))
      /\ For(p) \in Servers
  BY <1>1, RunIs
<1>3. CASE UNCHANGED <<tokens, run>>
  <2>1. run' = [run EXCEPT ![p] = run[p]]
    BY <1>1, <1>3 DEF SignInTyped
  <2>2. UNCHANGED <<setup, tokens, placeVars, ran, revoked, answered>>
    BY <1>3 DEF LostAnswer
  <2>. QED
    BY <1>1, <1>2, <2>1, <2>2, Unmoved, OnlyMoves DEF Running
<1>4. CASE \E made \in BOOLEAN :
             /\ IF made THEN CanMake(p) /\ tokens' = Made(For(p), FALSE) ELSE UNCHANGED tokens
             /\ IF run[p].at = "exchange" /\ run[p].resent THEN End(p, "failed")
                ELSE run' = [run EXCEPT ![p].spent = @ \/ made, ![p].resent = TRUE]
  <2>1. PICK made \in BOOLEAN :
             /\ IF made THEN CanMake(p) /\ tokens' = Made(For(p), FALSE) ELSE UNCHANGED tokens
             /\ IF run[p].at = "exchange" /\ run[p].resent THEN End(p, "failed")
                ELSE run' = [run EXCEPT ![p].spent = @ \/ made, ![p].resent = TRUE]
    BY <1>4
  <2>2. PICK s : s = [run[p] EXCEPT !.spent = @ \/ made, !.resent = TRUE]
    OBVIOUS
  <2>3. (run[p].spent \/ made) \in BOOLEAN /\ TRUE \in BOOLEAN
    OBVIOUS
  <2>4. s \in Busy
    BY <1>2, <2>2, <2>3 DEF Busy
  <2>5. /\ s.at = run[p].at /\ s.command = run[p].command /\ s.keychain = run[p].keychain
        /\ s.old = run[p].old /\ s.new = run[p].new
    BY <1>2, <2>2 DEF Busy
  <2>6. PICK o : o = Ended("failed")
    OBVIOUS
  <2>7. o \in Over /\ o.at = "over"
    BY <2>6 DEF Over, Ended, Says
  <2>8. PICK r : r \in {o, s} /\ run' = [run EXCEPT ![p] = r]
    BY <2>1, <2>2, <2>6 DEF End
  <2>9. r \in Over \cup Busy
    BY <2>4, <2>7, <2>8
  <2>10. r.at # "over" =>
           /\ r.at = run[p].at /\ r.command = run[p].command /\ r.keychain = run[p].keychain
           /\ r.old = run[p].old /\ r.new = run[p].new
    BY <2>5, <2>7, <2>8
  <2>11. CASE made
    <3>1. tokens' = Made(For(p), FALSE) /\ FALSE \in BOOLEAN
      BY <2>1, <2>11
    <3>2. Busy \subseteq Busy'
      <4>1. Kept \subseteq Kept'
        BY <1>1, <1>2, <3>1, Makes
      <4>. QED
        BY <4>1 DEF Busy, Places
    <3>3. r \in Over \/ r \in Busy'
      BY <2>9, <3>2
    <3>. QED
      BY <1>1, <2>8, <2>10, <3>1, <3>3, AMadeTokenKeepsIt DEF LostAnswer
  <2>12. CASE ~made
    <3>1. UNCHANGED <<setup, tokens, placeVars, ran, revoked, answered>>
      BY <2>1, <2>12 DEF LostAnswer
    <3>2. r.at # "over" => RunIsSo(r) /\ (Alone => AloneIsSo(r)) /\ ~Pending(r)
      BY <1>1, <1>2, <2>10 DEF RunIsSo, AloneIsSo, Pending, Signing, Keeping, Done, Leaving
    <3>3. Alone => \A t \in {run[p].old, run[p].new} \ {NoToken} :
            t \in KeptTokens \/ ~Live(t) \/ t \in answered'
      BY <1>1, <3>1, LeftKept
    <3>. QED
      BY <1>1, <2>8, <2>9, <2>10, <3>1, <3>2, <3>3, Unmoved, OnlyMoves
  <2>. QED
    BY <2>11, <2>12
<1>. QED
  BY <1>3, <1>4 DEF LostAnswer

-----------------------------------------------------------------------------
(* Keeping the new token *)

LEMMA CheckKeepsIt ==
  ASSUME SignInInv, NEW p \in Runs, Check(p)
  PROVE  SignInInv'
<1>1. run[p].at = "check" /\ Running(p)
  BY DEF Check, Running
<1>2. run[p] \in Busy /\ RunIsSo(run[p]) /\ (Alone => AloneIsSo(run[p])) /\ Pending(run[p])
  BY <1>1, RunIs DEF Pending, Keeping
<1>3. ASSUME NEW at \in {"write path", "keychain", "read file", "discard"}, Go(p, at),
             at # "discard" => Live(run[p].new) /\ at = FirstPlace(p)
      PROVE  SignInInv'
  <2>1. at \in Keeping /\ at \in AnyPhase
    BY DEF Keeping, AnyPhase
  <2>2. PICK r \in Busy : MovesTo(p, at, r)
    BY <1>1, <1>3, <2>1, Goes
  <2>. USE DEF MovesTo
  <2>3. r.keychain \in BOOLEAN
    BY <2>2 DEF Busy
  <2>4. r.at # "discard" => Live(r.new)
    BY <1>3, <2>2
  <2>5. /\ r.at = "write path" => r.command.path
        /\ r.at \in {"keychain", "read file"} => ~r.command.path
        /\ r.at = "keychain" => r.keychain /\ (r.at = "read file" => ~r.keychain)
        /\ r.at = "read file" => ~r.keychain
    BY <1>3, <2>2, <2>3 DEF FirstPlace
  <2>6. RunIsSo(r)
    BY <1>1, <1>2, <2>1, <2>2, <2>4, <2>5 DEF RunIsSo, Pending, Keeping, Done, Leaving
  <2>7. Alone => AloneIsSo(r)
    BY <1>1, <1>2, <1>3, <2>2 DEF AloneIsSo, Signing, Keeping, Done, Leaving
  <2>8. r.at # "over"
    BY <2>2
  <2>. QED
    BY <1>1, <1>2, <2>2, <2>6, <2>7, <2>8, Unmoved, OnlyMoves DEF Check
<1>. QED
  BY <1>3 DEF Check, FirstPlace

(* What is not kept is to be discarded. *)
LEMMA ToDiscard ==
  ASSUME SignInInv, NEW p \in Runs, run[p].at \in Keeping, Go(p, "discard"),
         UNCHANGED <<setup, tokens, placeVars, ran, revoked, answered>>
  PROVE  SignInInv'
<1>1. Running(p)
  BY DEF Running, Keeping
<1>2. run[p] \in Busy /\ RunIsSo(run[p]) /\ (Alone => AloneIsSo(run[p])) /\ Pending(run[p])
  BY <1>1, RunIs DEF Pending
<1>3. "discard" \in AnyPhase
  BY DEF AnyPhase, Keeping
<1>4. PICK r \in Busy : MovesTo(p, "discard", r)
  BY <1>1, <1>3, Goes
<1>. USE DEF MovesTo
<1>5. RunIsSo(r)
  BY <1>2, <1>4 DEF RunIsSo, Pending, Keeping, Done, Leaving
<1>6. Alone => AloneIsSo(r)
  BY <1>2, <1>4 DEF AloneIsSo, Signing, Keeping, Done, Leaving
<1>. QED
  BY <1>1, <1>2, <1>4, <1>5, <1>6, Unmoved, OnlyMoves

LEMMA ReadFileKeepsIt ==
  ASSUME SignInInv, NEW p \in Runs, ReadFile(p)
  PROVE  SignInInv'
<1>1. run[p].at \in {"read file", "tidy file"} /\ Running(p)
  BY DEF ReadFile, Running
<1>2. /\ run[p] \in Busy /\ RunIsSo(run[p]) /\ (Alone => AloneIsSo(run[p]))
      /\ For(p) \in Servers
  BY <1>1, RunIs
<1>3. UNCHANGED <<setup, tokens, placeVars, ran, revoked, answered>>
  BY DEF ReadFile
<1>4. CASE run[p].at = "tidy file"
  <2>1. credentials.ok /\ credentials.entry[For(p)] = NoToken
    BY <1>1, <1>2, <1>4, PlacesAre DEF RunIsSo
  <2>2. Go(p, "finish") /\ "finish" \in AnyPhase
    BY <1>4, <2>1 DEF ReadFile, AnyPhase, Done
  <2>3. PICK r \in Busy : MovesTo(p, "finish", r)
    BY <1>1, <2>2, Goes
  <2>. USE DEF MovesTo
  <2>4. RunIsSo(r) /\ ~Pending(r)
    BY <1>2, <1>4, <2>3 DEF RunIsSo, Pending, Keeping, Done, Leaving
  <2>5. Alone => AloneIsSo(r)
    BY <1>2, <1>4, <2>3 DEF AloneIsSo, Signing, Keeping, Done, Leaving
  <2>. QED
    BY <1>1, <1>3, <2>3, <2>4, <2>5, Unmoved, OnlyMoves
<1>5. CASE run[p].at = "read file" /\ ~credentials.ok
  BY <1>3, <1>5, ToDiscard DEF ReadFile, Keeping
<1>6. CASE run[p].at = "read file" /\ credentials.ok
  <2>1. PICK e : e = [credentials.entry EXCEPT ![For(p)] = run[p].new]
    OBVIOUS
  <2>2. credentials.entry \in Places /\ run[p].new \in Kept
    BY <1>2 DEF SignInInv, SignInTyped, Busy
  <2>3. e \in Places
    BY <1>2, <2>1, <2>2 DEF Places
  <2>4. e[For(p)] = run[p].new /\ \A u \in Servers : u # For(p) => e[u] = credentials.entry[u]
    BY <1>2, <2>1, <2>2 DEF Places
  <2>5. PICK r : r = [run[p] EXCEPT !.at = "write file", !.entries = e]
    OBVIOUS
  <2>6. r \in Busy
    BY <1>2, <2>3, <2>5 DEF Busy, Keeping
  <2>7. /\ r.at = "write file" /\ r.command = run[p].command /\ r.keychain = run[p].keychain
        /\ r.old = run[p].old /\ r.new = run[p].new /\ r.entries = e
    BY <1>2, <2>5 DEF Busy
  <2>8. run' = [run EXCEPT ![p] = r]
    BY <1>6, <2>1, <2>5 DEF ReadFile, WithEntries
  <2>9. Entries(r, r.new)
    BY <2>3, <2>4, <2>7 DEF Entries, For
  <2>10. RunIsSo(r) /\ Pending(run[p])
    BY <1>2, <1>6, <2>7, <2>9 DEF RunIsSo, Pending, Keeping, Done, Leaving
  <2>11. Alone => AloneIsSo(r)
    BY <1>2, <1>6, <2>7 DEF AloneIsSo, Signing, Keeping, Done, Leaving
  <2>. QED
    BY <1>1, <1>3, <2>6, <2>7, <2>8, <2>10, <2>11, Unmoved, OnlyMoves
<1>. QED
  BY <1>1, <1>4, <1>5, <1>6

LEMMA FinishKeepsIt ==
  ASSUME SignInInv, NEW p \in Runs, Finish(p)
  PROVE  SignInInv'
<1>1. run[p].at = "finish" /\ Running(p)
  BY DEF Finish, Running
<1>2. /\ run[p] \in Busy /\ RunIsSo(run[p]) /\ (Alone => AloneIsSo(run[p]))
      /\ For(p) \in Servers
  BY <1>1, RunIs
<1>3. UNCHANGED <<setup, tokens, placeVars, ran, revoked, answered>>
  BY DEF Finish
<1>4. CASE run[p].old = NoToken
  <2>0. End(p, "signed in") /\ "signed in" \in Says
    BY <1>4 DEF Finish, SaysSignedIn, Says
  <2>1. PICK r \in Over : run' = [run EXCEPT ![p] = r] /\ r.at = "over"
    BY <2>0, Ends
  <2>2. Alone => run[p].new \in KeptTokens
    <3>1. Alone => LeftBy(run[p].command, run[p].keychain) = run[p].new /\ run[p].new # NoToken
      BY <1>1, <1>2 DEF AloneIsSo, RunIsSo, Done
    <3>2. SignInTyped
      BY DEF SignInInv
    <3>. QED
      BY <1>2, <3>1, <3>2, KeptIs DEF LeftBy, KeptFor, For
  <2>. QED
    BY <1>1, <1>3, <1>4, <2>1, <2>2, Unmoved, OnlyMoves
<1>5. CASE run[p].old # NoToken
  <2>1. PICK r : r = [run[p] EXCEPT !.at = "revoke old", !.said = "signed in"]
    OBVIOUS
  <2>2. r \in Busy
    BY <1>2, <2>1 DEF Busy, Done, Says
  <2>3. /\ r.at = "revoke old" /\ r.command = run[p].command /\ r.keychain = run[p].keychain
        /\ r.old = run[p].old /\ r.new = run[p].new
    BY <1>2, <2>1 DEF Busy
  <2>4. run' = [run EXCEPT ![p] = r]
    BY <1>5, <2>1 DEF Finish, SaysSignedIn
  <2>5. RunIsSo(r) /\ ~Pending(r)
    BY <1>1, <1>2, <1>5, <2>3 DEF RunIsSo, Pending, Keeping, Done, Leaving
  <2>6. Alone => AloneIsSo(r)
    BY <1>1, <1>2, <2>3 DEF AloneIsSo, Signing, Keeping, Done, Leaving
  <2>. QED
    BY <1>1, <1>3, <2>2, <2>3, <2>4, <2>5, <2>6, Unmoved, OnlyMoves
<1>. QED
  BY <1>4, <1>5

LEMMA KilledKeepsIt ==
  ASSUME SignInInv, NEW p \in Runs, Killed(p)
  PROVE  SignInInv'
<1>1. Running(p)
  BY DEF Killed
<1>2. run[p] \in Busy
  BY <1>1, RunIs
<1>3. run[p].said \in Says /\ {run[p].old, run[p].new} \ {NoToken} \subseteq Tokens
  BY <1>2 DEF Busy, Kept
<1>4. PICK r \in Over : run' = [run EXCEPT ![p] = r] /\ r.at = "over"
  BY <1>3, Ends DEF Killed
<1>5. /\ UNCHANGED <<setup, tokens, keychain, credentials, path, revoked>>
      /\ answered \subseteq answered' /\ answered' \subseteq Tokens
      /\ {run[p].old, run[p].new} \ {NoToken} \subseteq answered'
  BY <1>3 DEF Killed, placeVars, SignInInv, SignInTyped
<1>. QED
  BY <1>1, <1>4, <1>5, OnlyMoves

(* The new token takes the server's place, or the file the command named.  *)
LEMMA KeptMoves ==
  ASSUME SignInInv, NEW p \in Runs, Running(p), Pending(run[p]), NEW s \in Servers, s = For(p),
         Live(run[p].new) \/ run[p].new \in revoked,
         NEW r \in Busy, run' = [run EXCEPT ![p] = r], r.at \in {"tidy file", "finish"},
         r.command = run[p].command, r.keychain = run[p].keychain,
         r.old = run[p].old, r.new = run[p].new, RunIsSo(r)', Alone => AloneIsSo(r)',
         UNCHANGED <<setup, tokens, revoked>>, answered \subseteq answered',
         answered' \subseteq Tokens, keychain' \in Places, credentials'.entry \in Places,
         credentials' \in [ok : BOOLEAN, entry : Places], path' \in Kept,
         \A u \in Servers : u # s =>
           credentials'.entry[u] = credentials.entry[u] /\ keychain'[u] = keychain[u],
         setup.keychains = {TRUE} => credentials' = credentials,
         setup.keychains = {FALSE} => keychain' = keychain,
         KeptFor(s)' \subseteq KeptFor(s) \cup {run[p].new},
         path' \in {path, run[p].new},
         Alone => \A t \in KeptTokens : t # NoToken =>
           t \in KeptTokens' \/ t = run[p].old \/ t \in answered'
  PROVE  SignInInv'
<1>1. /\ run[p] \in Busy /\ RunIsSo(run[p]) /\ (Alone => AloneIsSo(run[p]))
      /\ SignInTyped
  BY RunIs DEF SignInInv
<1>2. Tokens' = Tokens /\ Kept' = Kept /\ Places' = Places /\ Busy' = Busy
  BY DEF Tokens, Kept, Places, Busy
<1>3. \A t : Live(t)' <=> Live(t)
  BY DEF Live
<1>4. SignInTyped'
  <2>1. run' \in [Runs -> Over \cup Busy']
    BY <1>1, <1>2 DEF SignInTyped
  <2>. QED
    BY <1>1, <1>2, <2>1 DEF SignInTyped
<1>5. \A u \in Servers : u # s => KeptFor(u)' = KeptFor(u)
  BY DEF KeptFor
<1>6. \A u \in Servers : KeptFor(u)' \subseteq KeptFor(u) \cup {run[p].new}
  BY <1>5
<1>7. run[p].new \in Tokens /\ tokens[run[p].new].server = s
  BY <1>1 DEF RunIsSo, Pending, For, Busy, Kept
<1>8. PlacesAreSo'
  <2>1. PlacesAreSo
    BY DEF SignInInv
  <2>2. \A u \in Servers : \A t \in KeptFor(u)' :
          tokens'[t].server = u /\ (Live(t)' \/ t \in revoked')
    <3>. SUFFICES ASSUME NEW u \in Servers, NEW t \in KeptFor(u)'
                  PROVE  tokens'[t].server = u /\ (Live(t)' \/ t \in revoked')
      OBVIOUS
    <3>1. CASE t \in KeptFor(u)
      BY <1>3, <2>1, <3>1 DEF PlacesAreSo
    <3>2. CASE u = s /\ t = run[p].new
      BY <1>3, <1>7, <3>2
    <3>. QED
      BY <1>5, <1>6, <3>1, <3>2
  <2>3. setup'.keychains = {TRUE} =>
          credentials'.ok /\ \A u \in Servers : credentials'.entry[u] = NoToken
    BY <2>1 DEF PlacesAreSo
  <2>4. setup'.keychains = {FALSE} => \A u \in Servers : keychain'[u] = NoToken
    BY <2>1, ZenonT(30) DEF PlacesAreSo
  <2>. QED
    BY <2>2, <2>3, <2>4 DEF PlacesAreSo
<1>9. /\ \A u \in Servers : KeptFor(u)' \subseteq KeptTokens'
      /\ \A t \in KeptTokens' : t = path' \/ \E u \in Servers : t \in KeptFor(u)'
      /\ \A u \in Servers : KeptFor(u) \subseteq KeptTokens
      /\ path \in KeptTokens /\ NoToken \notin Tokens
  BY <1>1, KeptIs, KeptIsNext
<1>10. KeptTokens' \subseteq KeptTokens \cup {run[p].new} \cup {NoToken}
  BY <1>6, <1>9
<1>11. NoneLeft'
  <2>1. r.at # "over"
    BY DEF Busy
  <2>2. \A t \in Tokens' : Live(t)' /\ tokens'[t].arrived =>
          t \in Tokens /\ Live(t) /\ tokens[t].arrived
    BY <1>2, <1>3
  <2>3. Alone => \A t \in Tokens :
           t \in KeptTokens \/ (Running(p) /\ t \in {run[p].old, run[p].new}) =>
             \/ ~Live(t)' \/ t \in answered' \/ t \in KeptTokens'
             \/ r.at # "over" /\ t \in {r.old, r.new}
    BY <1>9, <2>1
  <2>. QED
    BY <2>1, <2>2, <2>3, NoneIsLeft
<1>12. /\ \A t \in Tokens : t \in Tokens' /\ tokens'[t].server = tokens[t].server
       /\ \A t \in Tokens : Live(t) =>
            Live(t)' \/ t \in revoked' \/ t = run[p].new \/ t = run[p].old
       /\ revoked \subseteq revoked' /\ ~Pending(r)
       /\ KeptTokens' \subseteq KeptTokens \cup MayKeep(p) \cup {NoToken}
       /\ \A u \in Servers : KeptFor(u)' \subseteq KeptFor(u) \cup MayKeep(p)
       /\ \A u \in Servers : u # For(p) => credentials'.entry[u] = credentials.entry[u]
       /\ r.at # "over"
  BY <1>2, <1>3, <1>6, <1>10 DEF Pending, Keeping, MayKeep
<1>13. /\ RunIsSo(r)' /\ (Alone => AloneIsSo(r)') /\ r.old = run[p].old
       /\ \/ r.new = run[p].new /\ (Pending(r) => Pending(run[p]))
          \/ r.new \notin Kept
  BY <1>12
<1>14. UNCHANGED setup
  OBVIOUS
<1>. QED
  BY <1>4, <1>8, <1>11, <1>12, <1>13, <1>14, OneMoves

(* What the new token in its place makes of the command. *)
LEMMA KeptInPlace ==
  ASSUME SignInInv, NEW p \in Runs, Running(p), Pending(run[p]), NEW s \in Servers, s = For(p), run[p].at # "check",
         ~run[p].command.path, NEW r \in Busy, r.at \in {"tidy file", "finish"},
         r.at = "tidy file" => r.keychain,
         r.command = run[p].command, r.keychain = run[p].keychain,
         r.old = run[p].old, r.new = run[p].new, UNCHANGED <<setup, tokens>>,
         \A u \in Servers : u # s => KeptFor(u)' = KeptFor(u),
         KeptFor(s)' = {run[p].new},
         LeftBy(r.command, r.keychain)' = run[p].new
  PROVE  RunIsSo(r)' /\ AloneIsSo(r)'
<1>1. RunIsSo(run[p]) /\ run[p] \in Busy /\ PlacesAreSo /\ SignInTyped
  BY RunIs DEF SignInInv
<1>2. \A u \in Servers : run[p].old \notin KeptFor(u)'
  <2>. SUFFICES ASSUME NEW u \in Servers, run[p].old \in KeptFor(u)'
                PROVE  FALSE
    OBVIOUS
  <2>1. u # s
    BY <1>1 DEF RunIsSo, Pending
  <2>2. run[p].old \in KeptFor(u) /\ NoToken \notin KeptFor(u)
    BY <1>1, <2>1, KeptIs
  <2>3. tokens[run[p].old].server = u
    BY <1>1, <2>2 DEF PlacesAreSo
  <2>. QED
    BY <1>1, <2>1, <2>2, <2>3 DEF RunIsSo, For
<1>3. RunIsSo(r)'
  BY <1>1, <1>2 DEF RunIsSo, Pending, Keeping, Done, Leaving
<1>4. AloneIsSo(r)'
  BY DEF AloneIsSo, Signing, Keeping, Done, Leaving
<1>. QED
  BY <1>3, <1>4

LEMMA WritePathKeepsIt ==
  ASSUME SignInInv, NEW p \in Runs, WritePath(p)
  PROVE  SignInInv'
<1>1. run[p].at = "write path" /\ run[p].at \in Keeping /\ Running(p)
  BY DEF WritePath, Running, Keeping
<1>2. /\ run[p] \in Busy /\ RunIsSo(run[p]) /\ Pending(run[p]) /\ For(p) \in Servers
      /\ SignInTyped
  BY <1>1, RunIs DEF Pending, SignInInv
<1>3. CASE Go(p, "discard") /\ UNCHANGED <<path, answered>>
  <2>1. UNCHANGED <<setup, tokens, placeVars, ran, revoked, answered>>
    BY <1>3 DEF WritePath, placeVars
  <2>. QED
    BY <1>1, <1>3, <2>1, ToDiscard
<1>4. CASE /\ path' = run[p].new /\ answered' = answered \cup ({path} \ {NoToken})
           /\ Go(p, "finish")
  <2>1. "finish" \in AnyPhase
    BY DEF AnyPhase, Done
  <2>2. PICK r \in Busy : MovesTo(p, "finish", r)
    BY <1>1, <1>4, <2>1, Goes
  <2>. USE DEF MovesTo
  <2>3. UNCHANGED <<setup, tokens, keychain, credentials, revoked>>
    BY DEF WritePath
  <2>4. \A u : KeptFor(u)' = KeptFor(u)
    BY <2>3 DEF KeptFor
  <2>5. /\ r.command.path /\ r.command.does = "login" /\ r.old = NoToken /\ r.new # NoToken
        /\ Live(run[p].new) \/ run[p].new \in revoked
    BY <1>1, <1>2, <2>2 DEF RunIsSo, Leaving, Keeping
  <2>6. \A u \in Servers : r.old \notin KeptFor(u)'
    BY <1>2, <2>4, <2>5, KeptIs
  <2>7. RunIsSo(r)'
    BY <1>1, <1>2, <2>2, <2>3, <2>5, <2>6 DEF RunIsSo, Pending, Keeping, Done, Leaving
  <2>8. AloneIsSo(r)'
    BY <1>4, <2>2, <2>5 DEF AloneIsSo, LeftBy, Signing, Keeping, Done, Leaving
  <2>9. /\ keychain' \in Places /\ credentials'.entry \in Places
        /\ credentials' \in [ok : BOOLEAN, entry : Places] /\ path' \in Kept
        /\ answered' \subseteq Tokens /\ answered \subseteq answered'
    BY <1>2, <1>4, <2>3 DEF SignInTyped, Busy, Kept
  <2>10. \A t \in KeptTokens : t # NoToken => t \in KeptTokens' \/ t \in answered'
    <3>1. \A t \in KeptTokens : t = path \/ \E u \in Servers : t \in KeptFor(u)
      BY <1>2, KeptIs
    <3>. QED
      BY <1>4, <2>4, <3>1, KeptIsNext
  <2>. QED
    BY <1>1, <1>2, <1>4, <2>2, <2>3, <2>4, <2>5, <2>7, <2>8, <2>9, <2>10, KeptMoves
<1>. QED
  BY <1>3, <1>4 DEF WritePath

LEMMA WriteKeychainKeepsIt ==
  ASSUME SignInInv, NEW p \in Runs, WriteKeychain(p)
  PROVE  SignInInv'
<1>1. run[p].at = "keychain" /\ run[p].at \in Keeping /\ Running(p)
  BY DEF WriteKeychain, Running, Keeping
<1>2. /\ run[p] \in Busy /\ RunIsSo(run[p]) /\ Pending(run[p]) /\ For(p) \in Servers
      /\ SignInTyped /\ (Alone => AloneIsSo(run[p]))
  BY <1>1, RunIs DEF Pending, SignInInv
<1>3. run[p].keychain /\ ~run[p].command.path /\ run[p].new # NoToken
  BY <1>1, <1>2 DEF RunIsSo, Keeping
<1>4. /\ \A u \in Servers : credentials.entry[u] = NoToken
      /\ "keychain" \notin setup.faults /\ setup.keychains = {TRUE}
  BY <1>1, <1>3, PlacesAre
<1>5. keychain' = [keychain EXCEPT ![For(p)] = run[p].new] /\ Go(p, "tidy file")
  BY <1>4 DEF WriteKeychain
<1>6. "tidy file" \in AnyPhase
  BY DEF AnyPhase, Done
<1>7. PICK r \in Busy : MovesTo(p, "tidy file", r)
  BY <1>1, <1>5, <1>6, Goes
<1>. USE DEF MovesTo
<1>8. UNCHANGED <<setup, tokens, credentials, path, revoked, answered>>
  BY DEF WriteKeychain
<1>. PICK s \in Servers : s = For(p)
  BY <1>2
<1>9. run[p].new \in Kept /\ keychain \in Places
  BY <1>2 DEF Busy, SignInTyped
<1>10. /\ keychain' \in Places /\ keychain'[s] = run[p].new
       /\ \A u \in Servers : u # s => keychain'[u] = keychain[u]
  BY <1>5, <1>9 DEF Places
<1>11. KeptFor(s)' = {run[p].new} /\ \A u \in Servers : u # s => KeptFor(u)' = KeptFor(u)
  BY <1>3, <1>4, <1>8, <1>10 DEF KeptFor
<1>12. LeftBy(r.command, r.keychain)' = run[p].new
  BY <1>3, <1>7, <1>10 DEF LeftBy, For
<1>13. RunIsSo(r)' /\ AloneIsSo(r)'
  BY <1>1, <1>2, <1>3, <1>7, <1>8, <1>11, <1>12, KeptInPlace
<1>14. Alone => \A t \in KeptTokens : t # NoToken =>
         t \in KeptTokens' \/ t = run[p].old \/ t \in answered'
  <2>1. \A t \in KeptTokens : t = path \/ \E u \in Servers : t \in KeptFor(u)
    BY <1>2, KeptIs
  <2>2. Alone => KeptFor(s) \subseteq {run[p].old} \cup answered
    BY <1>1, <1>2, <1>3 DEF AloneIsSo, For
  <2>. QED
    BY <1>8, <1>11, <2>1, <2>2, KeptIsNext
<1>15. /\ credentials'.entry \in Places /\ credentials' \in [ok : BOOLEAN, entry : Places]
       /\ path' \in Kept /\ answered' \subseteq Tokens
       /\ Live(run[p].new) \/ run[p].new \in revoked
  BY <1>1, <1>2, <1>8 DEF SignInTyped, RunIsSo, Keeping
<1>16. setup.keychains # {FALSE}
  BY <1>4
<1>. QED
  BY <1>1, <1>2, <1>7, <1>8, <1>10, <1>11, <1>13, <1>14, <1>15, <1>16, KeptMoves

LEMMA WriteFileKeepsIt ==
  ASSUME SignInInv, NEW p \in Runs, WriteFile(p)
  PROVE  SignInInv'
<1>1. run[p].at = "write file" /\ run[p].at \in Keeping /\ Running(p)
  BY DEF WriteFile, Running, Keeping
<1>2. /\ run[p] \in Busy /\ RunIsSo(run[p]) /\ Pending(run[p]) /\ For(p) \in Servers
      /\ SignInTyped /\ (Alone => AloneIsSo(run[p]))
  BY <1>1, RunIs DEF Pending, SignInInv
<1>3. ~run[p].keychain /\ ~run[p].command.path /\ run[p].new # NoToken
  BY <1>1, <1>2 DEF RunIsSo, Keeping
<1>4. setup.keychains = {FALSE} /\ \A u \in Servers : keychain[u] = NoToken
  BY <1>1, <1>3, PlacesAre
<1>5. CASE Go(p, "discard") /\ UNCHANGED credentials
  <2>1. UNCHANGED <<setup, tokens, placeVars, ran, revoked, answered>>
    BY <1>5 DEF WriteFile, placeVars
  <2>. QED
    BY <1>1, <1>5, <2>1, ToDiscard
<1>6. CASE credentials' = [ok |-> TRUE, entry |-> run[p].entries] /\ Go(p, "finish")
  <2>1. "finish" \in AnyPhase
    BY DEF AnyPhase, Done
  <2>2. PICK r \in Busy : MovesTo(p, "finish", r)
    BY <1>1, <1>6, <2>1, Goes
  <2>. USE DEF MovesTo
  <2>3. UNCHANGED <<setup, tokens, keychain, path, revoked, answered>>
    BY DEF WriteFile
  <2>. PICK s \in Servers : s = For(p)
    BY <1>2
  <2>4. /\ run[p].entries \in Places /\ run[p].entries[s] = run[p].new
        /\ \A u \in Servers : u # s => run[p].entries[u] = credentials.entry[u]
    BY <1>1, <1>2 DEF RunIsSo, Entries, For
  <2>5. credentials'.entry = run[p].entries /\ credentials' \in [ok : BOOLEAN, entry : Places]
    BY <1>6, <2>4
  <2>6. KeptFor(s)' = {run[p].new} /\ \A u \in Servers : u # s => KeptFor(u)' = KeptFor(u)
    BY <1>3, <1>4, <2>3, <2>4, <2>5 DEF KeptFor
  <2>7. LeftBy(r.command, r.keychain)' = run[p].new
    BY <1>3, <2>2, <2>4, <2>5 DEF LeftBy, For
  <2>8. RunIsSo(r)' /\ AloneIsSo(r)'
    BY <1>1, <1>2, <1>3, <2>2, <2>3, <2>6, <2>7, KeptInPlace
  <2>9. Alone => \A t \in KeptTokens : t # NoToken =>
          t \in KeptTokens' \/ t = run[p].old \/ t \in answered'
    <3>1. \A t \in KeptTokens : t = path \/ \E u \in Servers : t \in KeptFor(u)
      BY <1>2, KeptIs
    <3>2. Alone => KeptFor(s) \subseteq {run[p].old} \cup answered
      BY <1>1, <1>2, <1>3 DEF AloneIsSo, For
    <3>. QED
      BY <2>3, <2>6, <3>1, <3>2, KeptIsNext
  <2>10. /\ keychain' \in Places /\ path' \in Kept /\ answered' \subseteq Tokens
         /\ Live(run[p].new) \/ run[p].new \in revoked
    BY <1>1, <1>2, <2>3 DEF SignInTyped, RunIsSo, Keeping
  <2>11. setup.keychains # {TRUE}
    BY <1>4
  <2>12. /\ credentials'.entry \in Places
         /\ \A u \in Servers : u # s =>
              credentials'.entry[u] = credentials.entry[u] /\ keychain'[u] = keychain[u]
    BY <2>3, <2>4, <2>5
  <2>. QED
    BY <1>1, <1>2, <2>2, <2>3, <2>5, <2>6, <2>8, <2>9, <2>10, <2>11, <2>12, KeptMoves
<1>. QED
  BY <1>5, <1>6 DEF WriteFile

-----------------------------------------------------------------------------
(* Revoking *)

LEMMA RevokesIs ==
  ASSUME SignInTyped, NEW t \in Tokens, NEW did \in BOOLEAN, Revokes(t, did)
  PROVE  /\ tokens' \in Seq(TokenRecord) /\ Tokens' = Tokens
         /\ \A u \in Tokens : tokens'[u].server = tokens[u].server
         /\ \A u \in Tokens : tokens'[u].arrived = tokens[u].arrived
         /\ \A u \in Tokens : Live(u)' <=> Live(u) /\ ~(did /\ u = t)
<1>1. tokens \in Seq(TokenRecord) /\ Tokens = 1 .. Len(tokens)
  BY DEF SignInTyped, TokenRecord, Tokens
<1>2. CASE did
  <2>1. tokens' = [tokens EXCEPT ![t].live = FALSE]
    BY <1>2 DEF Revokes
  <2>2. \A u \in Tokens : tokens[u] \in TokenRecord
    BY <1>1
  <2>. PICK dead : dead = [tokens[t] EXCEPT !.live = FALSE]
    OBVIOUS
  <2>3. dead \in TokenRecord /\ FALSE \in BOOLEAN
    BY <2>2 DEF TokenRecord
  <2>4. dead.server = tokens[t].server /\ dead.arrived = tokens[t].arrived /\ dead.live = FALSE
    BY <2>2 DEF TokenRecord
  <2>5. tokens' = [tokens EXCEPT ![t] = dead]
    BY <2>1
  <2>6. /\ tokens' \in Seq(TokenRecord) /\ Len(tokens') = Len(tokens)
        /\ \A u \in 1 .. Len(tokens) : tokens'[u] = IF u = t THEN dead ELSE tokens[u]
    BY <1>1, <2>3, <2>5, ExceptSeq
  <2>7. Tokens' = Tokens
    BY <2>6 DEF Tokens
  <2>. QED
    BY <1>1, <1>2, <2>4, <2>6, <2>7 DEF Live
<1>3. CASE ~did
  <2>1. tokens' = tokens
    BY <1>3 DEF Revokes
  <2>. QED
    BY <1>1, <1>3, <2>1 DEF Live, Tokens
<1>. QED
  BY <1>2, <1>3

(* A request to revoke a token of the command's own. *)
LEMMA RevokeKeepsIt ==
  ASSUME SignInInv, NEW p \in Runs, Running(p), NEW t \in Tokens,
         t \in {run[p].old, run[p].new}, NEW did \in BOOLEAN, Revokes(t, did),
         UNCHANGED <<setup, keychain, credentials, path>>,
         answered \subseteq answered', answered' \subseteq Tokens,
         revoked \subseteq revoked', revoked' \subseteq Tokens,
         did => t \in revoked' \/ \A s \in Servers : t \notin KeptFor(s),
         NEW r \in Over \cup Busy, run' = [run EXCEPT ![p] = r],
         r.at = "over" /\ Alone => \A u \in {run[p].old, run[p].new} \ {NoToken} :
           u \in KeptTokens \/ (did /\ u = t) \/ ~Live(u) \/ u \in answered',
         r.at # "over" =>
           /\ RunIsSo(r)' /\ (Alone => AloneIsSo(r)')
           /\ r.old = run[p].old /\ r.new = run[p].new /\ (Pending(r) => Pending(run[p]))
  PROVE  SignInInv'
<1>1. SignInTyped /\ PlacesAreSo
  BY DEF SignInInv
<1>2. /\ tokens' \in Seq(TokenRecord) /\ Tokens' = Tokens
      /\ \A u \in Tokens : tokens'[u].server = tokens[u].server
      /\ \A u \in Tokens : tokens'[u].arrived = tokens[u].arrived
      /\ \A u \in Tokens : Live(u)' <=> Live(u) /\ ~(did /\ u = t)
  BY <1>1, RevokesIs
<1>3. KeptTokens' = KeptTokens /\ \A s : KeptFor(s)' = KeptFor(s)
  BY DEF KeptTokens, KeptFor
<1>4. Kept' = Kept /\ Places' = Places /\ Busy' = Busy
  BY <1>2 DEF Kept, Places, Busy
<1>5. SignInTyped'
  <2>1. run' \in [Runs -> Over \cup Busy']
    BY <1>1, <1>4 DEF SignInTyped
  <2>. QED
    BY <1>1, <1>2, <1>4, <2>1 DEF SignInTyped, TokenRecord
<1>6. \A s \in Servers : KeptFor(s) \subseteq Tokens
  BY <1>1, KeptIs
<1>7. PlacesAreSo'
  <2>1. \A s \in Servers : \A u \in KeptFor(s) :
          tokens'[u].server = s /\ (Live(u)' \/ u \in revoked')
    BY <1>1, <1>2, <1>6 DEF PlacesAreSo
  <2>2. \A s \in Servers : \A u \in KeptFor(s)' :
          tokens'[u].server = s /\ (Live(u)' \/ u \in revoked')
    BY <1>3, <2>1
  <2>. QED
    BY <1>1, <2>2 DEF PlacesAreSo
<1>8. NoneLeft'
  <2>1. \A u \in Tokens' : Live(u)' /\ tokens'[u].arrived =>
          u \in Tokens /\ Live(u) /\ tokens[u].arrived
    BY <1>2
  <2>2. Alone => \A u \in Tokens :
           u \in KeptTokens \/ (Running(p) /\ u \in {run[p].old, run[p].new}) =>
             \/ ~Live(u)' \/ u \in answered' \/ u \in KeptTokens'
             \/ r.at # "over" /\ u \in {r.old, r.new}
    <3>. SUFFICES ASSUME Alone, NEW u \in Tokens, u \in {run[p].old, run[p].new},
                         u \notin KeptTokens, r.at = "over"
                  PROVE  ~Live(u)' \/ u \in answered'
      BY <1>3
    <3>1. u # NoToken /\ NoToken \notin Tokens
      BY <1>1, KeptIs
    <3>2. (did /\ u = t) \/ ~Live(u) \/ u \in answered'
      BY <3>1
    <3>. QED
      BY <1>2, <3>2
  <2>. QED
    BY <2>1, <2>2, NoneIsLeft
<1>9. /\ \A u \in Tokens : u \in Tokens' /\ tokens'[u].server = tokens[u].server
      /\ \A u \in Tokens : Live(u) =>
           Live(u)' \/ u \in revoked' \/ u = run[p].new \/ u = run[p].old
      /\ KeptTokens' \subseteq KeptTokens \cup MayKeep(p) \cup {NoToken}
      /\ \A s \in Servers : KeptFor(s)' \subseteq KeptFor(s) \cup MayKeep(p)
  BY <1>2, <1>3
<1>. QED
  BY <1>5, <1>7, <1>8, <1>9, OneMoves

LEMMA DiscardKeepsIt ==
  ASSUME SignInInv, NEW p \in Runs, Discard(p)
  PROVE  SignInInv'
<1>1. run[p].at = "discard" /\ run[p].at \in Keeping /\ Running(p)
  BY DEF Discard, Running, Keeping
<1>2. /\ run[p] \in Busy /\ RunIsSo(run[p]) /\ Pending(run[p]) /\ For(p) \in Servers
      /\ SignInTyped /\ (Alone => AloneIsSo(run[p]))
  BY <1>1, RunIs DEF Pending, SignInInv
<1>. PICK t : t = run[p].new
  OBVIOUS
<1>3. t \in Tokens /\ t \notin KeptTokens
  BY <1>1, <1>2 DEF RunIsSo, Busy, Kept
<1>4. \A s \in Servers : t \notin KeptFor(s) /\ KeptFor(s) \subseteq KeptTokens
  BY <1>2, <1>3, KeptIs
<1>5. PICK did \in BOOLEAN :
        /\ Revokes(t, did)
        /\ (did /\ answered' = answered) \/ answered' = answered \cup {t}
  BY DEF Discard
<1>6. End(p, "nothing kept") /\ "nothing kept" \in Says
  BY DEF Discard, Says
<1>7. PICK r \in Over : run' = [run EXCEPT ![p] = r] /\ r.at = "over"
  BY <1>6, Ends
<1>8. UNCHANGED <<setup, keychain, credentials, path, revoked>>
  BY DEF Discard, placeVars
<1>9. Alone => \A u \in {run[p].old, run[p].new} \ {NoToken} :
        u \in KeptTokens \/ (did /\ u = t) \/ ~Live(u) \/ u \in answered'
  <2>1. ~run[p].command.path => run[p].old = NoToken \/ (Alone => run[p].old \in KeptFor(For(p)))
    BY <1>1, <1>2 DEF AloneIsSo, For
  <2>2. run[p].command.path => run[p].old = NoToken
    BY <1>1, <1>2 DEF RunIsSo, Keeping, Leaving
  <2>. QED
    BY <1>2, <1>4, <1>5, <2>1, <2>2
<1>10. /\ answered \subseteq answered' /\ answered' \subseteq Tokens
       /\ revoked \subseteq revoked' /\ revoked' \subseteq Tokens
  BY <1>2, <1>3, <1>5, <1>8 DEF SignInTyped
<1>. QED
  BY <1>1, <1>3, <1>4, <1>5, <1>7, <1>8, <1>9, <1>10, RevokeKeepsIt

LEMMA RevokeOldKeepsIt ==
  ASSUME SignInInv, NEW p \in Runs, RevokeOld(p)
  PROVE  SignInInv'
<1>1. run[p].at = "revoke old" /\ run[p].at \in Done /\ Running(p)
  BY DEF RevokeOld, Running, Done
<1>2. /\ run[p] \in Busy /\ RunIsSo(run[p]) /\ For(p) \in Servers
      /\ SignInTyped /\ (Alone => AloneIsSo(run[p]))
  BY <1>1, RunIs DEF SignInInv
<1>. PICK t : t = run[p].old
  OBVIOUS
<1>3. PICK did \in BOOLEAN :
        /\ Revokes(t, did)
        /\ (did /\ answered' = answered) \/ answered' = answered \cup {t}
  BY DEF RevokeOld
<1>4. End(p, "signed in") /\ "signed in" \in Says
  BY DEF RevokeOld, Says
<1>5. PICK r \in Over : run' = [run EXCEPT ![p] = r] /\ r.at = "over"
  BY <1>4, Ends
<1>6. UNCHANGED <<setup, keychain, credentials, path, revoked>>
  BY DEF RevokeOld, placeVars
<1>7. \A s \in Servers : t \notin KeptFor(s)
  BY <1>1, <1>2 DEF RunIsSo
<1>8. Alone => run[p].new \in KeptTokens
  <2>1. Alone => LeftBy(run[p].command, run[p].keychain) = run[p].new /\ run[p].new # NoToken
    BY <1>1, <1>2 DEF AloneIsSo, RunIsSo
  <2>. QED
    BY <1>2, <2>1, KeptIs DEF LeftBy, KeptFor, For
<1>9. t \in Tokens
  <2>1. t # NoToken
    BY <1>1, <1>2 DEF RunIsSo
  <2>. QED
    BY <1>2, <2>1 DEF Busy, Kept
<1>10. Alone => \A u \in {run[p].old, run[p].new} \ {NoToken} :
        u \in KeptTokens \/ (did /\ u = t) \/ ~Live(u) \/ u \in answered'
  BY <1>3, <1>8
<1>11. /\ answered \subseteq answered' /\ answered' \subseteq Tokens
       /\ revoked \subseteq revoked' /\ revoked' \subseteq Tokens
  BY <1>2, <1>3, <1>6, <1>9 DEF SignInTyped
<1>. QED
  BY <1>1, <1>3, <1>5, <1>6, <1>7, <1>9, <1>10, <1>11, RevokeKeepsIt

-----------------------------------------------------------------------------
(* Signing out *)

LEMMA LogoutRevokesKeepsIt ==
  ASSUME SignInInv, NEW p \in Runs, LogoutRevokes(p)
  PROVE  SignInInv'
<1>1. run[p].at = "revoke" /\ run[p].at \in Leaving /\ Running(p)
  BY DEF LogoutRevokes, Running, Leaving
<1>2. /\ run[p] \in Busy /\ RunIsSo(run[p]) /\ For(p) \in Servers
      /\ SignInTyped /\ (Alone => AloneIsSo(run[p]))
  BY <1>1, RunIs DEF SignInInv
<1>. PICK t : t = run[p].old
  OBVIOUS
<1>3. t \in Tokens /\ t # NoToken
  BY <1>1, <1>2 DEF RunIsSo, Busy, Kept
<1>4. PICK did \in BOOLEAN, says \in BOOLEAN :
       /\ Revokes(t, did)
       /\ says => did \/ ~Live(t)
       /\ revoked' = IF did THEN revoked \cup {t} ELSE revoked
       /\ IF says THEN Go(p, Place(p)) ELSE End(p, "not revoked")
  BY DEF LogoutRevokes
<1>5. UNCHANGED <<setup, keychain, credentials, path, answered>>
  BY DEF LogoutRevokes, placeVars
<1>6. /\ answered \subseteq answered' /\ answered' \subseteq Tokens
      /\ revoked \subseteq revoked' /\ revoked' \subseteq Tokens
      /\ did => t \in revoked'
  BY <1>2, <1>3, <1>4, <1>5 DEF SignInTyped
<1>7. CASE ~says
  <2>1. End(p, "not revoked") /\ "not revoked" \in Says
    BY <1>4, <1>7 DEF Says
  <2>2. PICK r \in Over : run' = [run EXCEPT ![p] = r] /\ r.at = "over"
    BY <2>1, Ends
  <2>3. Alone => \A u \in {run[p].old, run[p].new} \ {NoToken} :
          u \in KeptTokens \/ (did /\ u = t) \/ ~Live(u) \/ u \in answered'
    BY <1>1, <1>5, LeftKept
  <2>. QED
    BY <1>1, <1>3, <1>4, <1>5, <1>6, <2>2, <2>3, RevokeKeepsIt
<1>8. CASE says
  <2>1. Place(p) \in {"remove path", "forget keychain"} /\ Place(p) \in AnyPhase
    BY DEF Place, AnyPhase, Leaving
  <2>2. PICK r \in Busy : MovesTo(p, Place(p), r)
    BY <1>1, <1>4, <1>8, <2>1, Goes
  <2>. USE DEF MovesTo
  <2>3. /\ \A u \in Tokens : tokens'[u].server = tokens[u].server
        /\ ~Live(t)'
    BY <1>2, <1>3, <1>4, <1>8, RevokesIs
  <2>4. /\ r.at \in {"remove path", "forget keychain"}
        /\ r.at = "remove path" <=> r.command.path
    BY <2>1, <2>2 DEF Place
  <2>5. RunIsSo(r)' /\ ~Pending(r)
    <3>1. r.new = NoToken /\ tokens'[r.old].server = r.command.server
      BY <1>1, <1>2, <1>3, <2>2, <2>3 DEF RunIsSo, Keeping, Done
    <3>. QED
      BY <1>1, <1>2, <1>3, <1>5, <2>2, <2>4, <3>1 DEF RunIsSo, Pending, Keeping, Done, Leaving
  <2>6. Alone => AloneIsSo(r)'
    <3>1. \A s : KeptFor(s)' = KeptFor(s)
      BY <1>5 DEF KeptFor
    <3>. QED
      BY <1>1, <1>2, <1>5, <2>2, <2>3, <2>4, <3>1 DEF AloneIsSo, Signing, Keeping, Done, Leaving
  <2>7. r.at # "over"
    BY <2>4
  <2>. QED
    BY <1>1, <1>3, <1>4, <1>5, <1>6, <2>2, <2>5, <2>6, <2>7, RevokeKeepsIt
<1>. QED
  BY <1>7, <1>8

(* A place is emptied of the token a logout, or a forgetting, is for. *)
LEMMA ForgetKeepsIt ==
  ASSUME SignInInv, NEW p \in Runs, Running(p), NEW s \in Servers, s = For(p),
         run[p].at \in Leaving, run[p].at # "revoke",
         UNCHANGED <<setup, tokens, revoked, answered>>,
         keychain' \in Places, credentials' \in [ok : BOOLEAN, entry : Places], path' \in Kept,
         \A u \in Servers : u # s =>
           credentials'.entry[u] = credentials.entry[u] /\ keychain'[u] = keychain[u],
         setup.keychains = {TRUE} => credentials' = credentials,
         setup.keychains = {FALSE} => keychain' = keychain,
         IF run[p].command.path
           THEN path' = NoToken /\ UNCHANGED <<keychain, credentials>>
           ELSE path' = path /\ KeptFor(s)' \subseteq KeptFor(s),
         NEW r \in Over \cup Busy, run' = [run EXCEPT ![p] = r],
         r.at # "over" =>
           /\ RunIsSo(r)' /\ (Alone => AloneIsSo(r)')
           /\ r.old = run[p].old /\ r.new = run[p].new /\ ~Pending(r)
  PROVE  SignInInv'
<1>1. /\ run[p] \in Busy /\ RunIsSo(run[p]) /\ (Alone => AloneIsSo(run[p]))
      /\ SignInTyped /\ PlacesAreSo
  BY RunIs DEF SignInInv
<1>2. Tokens' = Tokens /\ Kept' = Kept /\ Places' = Places /\ Busy' = Busy
  BY DEF Tokens, Kept, Places, Busy
<1>3. \A t : Live(t)' <=> Live(t)
  BY DEF Live
<1>4. SignInTyped'
  <2>1. run' \in [Runs -> Over \cup Busy']
    BY <1>1, <1>2 DEF SignInTyped
  <2>. QED
    BY <1>1, <1>2, <2>1 DEF SignInTyped
<1>5. /\ \A u \in Servers : u # s => KeptFor(u)' = KeptFor(u)
      /\ run[p].command.path => KeptFor(s)' = KeptFor(s)
      /\ KeptFor(s)' \subseteq KeptFor(s)
  <2>1. \A u \in Servers : u # s => KeptFor(u)' = KeptFor(u)
    BY DEF KeptFor
  <2>2. run[p].command.path => KeptFor(s)' = KeptFor(s)
    BY DEF KeptFor
  <2>. QED
    BY <2>1, <2>2
<1>6. \A u \in Servers : KeptFor(u)' \subseteq KeptFor(u)
  BY <1>5
<1>7. PlacesAreSo'
  <2>1. \A u \in Servers : \A t \in KeptFor(u)' :
          tokens'[t].server = u /\ (Live(t)' \/ t \in revoked')
    BY <1>1, <1>3, <1>6 DEF PlacesAreSo
  <2>2. setup'.keychains = {TRUE} =>
          credentials'.ok /\ \A u \in Servers : credentials'.entry[u] = NoToken
    BY <1>1 DEF PlacesAreSo
  <2>3. setup'.keychains = {FALSE} => \A u \in Servers : keychain'[u] = NoToken
    BY <1>1 DEF PlacesAreSo
  <2>. QED
    BY <2>1, <2>2, <2>3 DEF PlacesAreSo
<1>8. /\ \A u \in Servers : KeptFor(u)' \subseteq KeptTokens'
      /\ \A t \in KeptTokens' : t = path' \/ \E u \in Servers : t \in KeptFor(u)'
      /\ \A u \in Servers : KeptFor(u) \subseteq KeptTokens
      /\ \A t \in KeptTokens : t = path \/ \E u \in Servers : t \in KeptFor(u)
      /\ path \in KeptTokens /\ path' \in KeptTokens' /\ NoToken \notin Tokens
  BY <1>1, KeptIs, KeptIsNext
<1>9. KeptTokens' \subseteq KeptTokens \cup MayKeep(p) \cup {NoToken}
  BY <1>6, <1>8
<1>10. Alone => \A t \in Tokens :
         t \in KeptTokens \/ t \in {run[p].old, run[p].new} =>
           ~Live(t) \/ t \in answered' \/ t \in KeptTokens'
  <2>. SUFFICES ASSUME Alone, NEW t \in Tokens, Live(t), t \notin answered,
                       t \in KeptTokens \/ t \in {run[p].old, run[p].new}
                PROVE  t \in KeptTokens'
    OBVIOUS
  <2>1. t # run[p].old /\ t # run[p].new /\ t \in KeptTokens
    BY <1>1, <1>8 DEF AloneIsSo, RunIsSo, Keeping, Done, Leaving
  <2>2. CASE run[p].command.path
    BY <1>1, <1>5, <1>8, <2>1, <2>2 DEF AloneIsSo
  <2>3. CASE ~run[p].command.path
    BY <1>1, <1>5, <1>8, <2>1, <2>3 DEF AloneIsSo, For
  <2>. QED
    BY <2>2, <2>3
<1>11. NoneLeft'
  <2>1. \A t \in Tokens' : Live(t)' /\ tokens'[t].arrived =>
          t \in Tokens /\ Live(t) /\ tokens[t].arrived
    BY <1>2, <1>3
  <2>2. Alone => \A t \in Tokens :
           t \in KeptTokens \/ (Running(p) /\ t \in {run[p].old, run[p].new}) =>
             \/ ~Live(t)' \/ t \in answered' \/ t \in KeptTokens'
             \/ r.at # "over" /\ t \in {r.old, r.new}
    BY <1>3, <1>10
  <2>. QED
    BY <2>1, <2>2, NoneIsLeft
<1>12. /\ \A t \in Tokens : t \in Tokens' /\ tokens'[t].server = tokens[t].server
       /\ \A t \in Tokens : Live(t) =>
            Live(t)' \/ t \in revoked' \/ t = run[p].new \/ t = run[p].old
       /\ \A u \in Servers : KeptFor(u)' \subseteq KeptFor(u) \cup MayKeep(p)
       /\ \A u \in Servers : u # For(p) => credentials'.entry[u] = credentials.entry[u]
  BY <1>2, <1>3, <1>6
<1>. QED
  BY <1>4, <1>7, <1>9, <1>11, <1>12, OneMoves

LEMMA RemovePathKeepsIt ==
  ASSUME SignInInv, NEW p \in Runs, RemovePath(p)
  PROVE  SignInInv'
<1>1. run[p].at = "remove path" /\ run[p].at \in Signing \cup Leaving /\ Running(p)
  BY DEF RemovePath, Running, Leaving
<1>2. RunIsSo(run[p]) /\ For(p) \in Servers /\ SignInTyped
  BY <1>1, RunIs DEF SignInInv
<1>3. CASE End(p, "failed") /\ UNCHANGED path
  <2>1. UNCHANGED <<setup, tokens, placeVars, ran, revoked, answered>> /\ "failed" \in Says
    BY <1>3 DEF RemovePath, placeVars, Says
  <2>. QED
    BY <1>1, <1>3, <2>1, Fails
<1>4. CASE path' = NoToken /\ End(p, "signed out")
  <2>1. "signed out" \in Says
    BY DEF Says
  <2>2. PICK r \in Over : run' = [run EXCEPT ![p] = r] /\ r.at = "over"
    BY <1>4, <2>1, Ends
  <2>3. UNCHANGED <<setup, tokens, keychain, credentials, revoked, answered>>
    BY DEF RemovePath
  <2>4. /\ keychain' \in Places /\ credentials' \in [ok : BOOLEAN, entry : Places]
        /\ path' \in Kept /\ run[p].command.path /\ run[p].at \in Leaving /\ run[p].at # "revoke"
    BY <1>1, <1>2, <1>4, <2>3 DEF SignInTyped, Kept, RunIsSo, Leaving
  <2>. QED
    BY <1>1, <1>2, <1>4, <2>2, <2>3, <2>4, ForgetKeepsIt
<1>. QED
  BY <1>3, <1>4 DEF RemovePath

LEMMA ForgetKeychainKeepsIt ==
  ASSUME SignInInv, NEW p \in Runs, ForgetKeychain(p)
  PROVE  SignInInv'
<1>1. /\ run[p].at = "forget keychain" /\ run[p].at \in Signing \cup Leaving
      /\ run[p].at \in Leaving /\ run[p].at # "revoke" /\ Running(p)
  BY DEF ForgetKeychain, Running, Leaving
<1>2. /\ run[p] \in Busy /\ RunIsSo(run[p]) /\ For(p) \in Servers /\ SignInTyped
      /\ (Alone => AloneIsSo(run[p]))
  BY <1>1, RunIs DEF SignInInv
<1>3. CASE End(p, "failed") /\ UNCHANGED keychain
  <2>1. UNCHANGED <<setup, tokens, placeVars, ran, revoked, answered>> /\ "failed" \in Says
    BY <1>3 DEF ForgetKeychain, placeVars, Says
  <2>. QED
    BY <1>1, <1>3, <2>1, Fails
<1>4. CASE /\ keychain' = IF run[p].keychain THEN [keychain EXCEPT ![For(p)] = NoToken] ELSE keychain
           /\ Go(p, "forget file")
  <2>1. "forget file" \in AnyPhase
    BY DEF AnyPhase, Leaving
  <2>2. PICK r \in Busy : MovesTo(p, "forget file", r)
    BY <1>1, <1>4, <2>1, Goes
  <2>. USE DEF MovesTo
  <2>3. UNCHANGED <<setup, tokens, credentials, path, revoked, answered>>
    BY DEF ForgetKeychain
  <2>. PICK s \in Servers : s = For(p)
    BY <1>2
  <2>4. keychain \in Places /\ NoToken \in Kept /\ ~run[p].command.path
    BY <1>1, <1>2 DEF SignInTyped, Kept, RunIsSo
  <2>5. /\ keychain' \in Places /\ keychain'[s] \in {keychain[s], NoToken}
        /\ \A u \in Servers : u # s => keychain'[u] = keychain[u]
    BY <1>4, <2>4 DEF Places
  <2>6. KeptFor(s)' \subseteq KeptFor(s)
    BY <2>3, <2>5 DEF KeptFor
  <2>7. setup.keychains = {FALSE} => keychain' = keychain
    <3>1. run[p].keychain \in setup.keychains
      BY <1>2 DEF RunIsSo
    <3>. QED
      BY <1>4, <3>1
  <2>8. RunIsSo(r)' /\ ~Pending(r)
    BY <1>1, <1>2, <2>2, <2>3, <2>4 DEF RunIsSo, Pending, Keeping, Done, Leaving
  <2>9. Alone => AloneIsSo(r)'
    <3>1. r.at = "forget file" /\ ~r.command.path /\ r.command.server = s
      BY <2>2, <2>4 DEF For
    <3>2. Alone => KeptFor(s) \subseteq {r.old} /\ (Live(r.old) => r.old \in answered)
      BY <1>1, <1>2, <2>2, <2>4 DEF AloneIsSo, For
    <3>3. Live(r.old)' <=> Live(r.old)
      BY <2>3 DEF Live
    <3>. QED
      BY <2>3, <2>6, <3>1, <3>2, <3>3 DEF AloneIsSo, Signing, Keeping, Done, Leaving
  <2>10. credentials' \in [ok : BOOLEAN, entry : Places] /\ path' \in Kept
    BY <1>2, <2>3 DEF SignInTyped
  <2>. QED
    BY <1>1, <2>2, <2>3, <2>4, <2>5, <2>6, <2>7, <2>8, <2>9, <2>10, ForgetKeepsIt
<1>. QED
  BY <1>3, <1>4 DEF ForgetKeychain

LEMMA ForgetFileKeepsIt ==
  ASSUME SignInInv, NEW p \in Runs, ForgetFile(p)
  PROVE  SignInInv'
<1>1. run[p].at = "forget file" /\ run[p].at \in Signing \cup Leaving /\ Running(p)
  BY DEF ForgetFile, Running, Leaving
<1>2. /\ run[p] \in Busy /\ RunIsSo(run[p]) /\ For(p) \in Servers /\ SignInTyped
      /\ (Alone => AloneIsSo(run[p]))
  BY <1>1, RunIs DEF SignInInv
<1>3. UNCHANGED <<setup, tokens, placeVars, ran, revoked, answered>>
  BY DEF ForgetFile
<1>4. CASE ~credentials.ok \/ credentials.entry[For(p)] = NoToken
  <2>1. \E said \in Says : End(p, said)
    BY <1>4 DEF ForgetFile, Says
  <2>. QED
    BY <1>1, <1>3, <2>1, Fails
<1>5. CASE credentials.ok /\ credentials.entry[For(p)] # NoToken
  <2>1. ~run[p].keychain
    BY <1>1, <1>2, <1>5, PlacesAre
  <2>2. PICK e : e = [credentials.entry EXCEPT ![For(p)] = NoToken]
    OBVIOUS
  <2>3. credentials.entry \in Places /\ NoToken \in Kept
    BY <1>2 DEF SignInTyped, Kept
  <2>4. e \in Places
    BY <1>2, <2>2, <2>3 DEF Places
  <2>5. e[For(p)] = NoToken /\ \A u \in Servers : u # For(p) => e[u] = credentials.entry[u]
    BY <1>2, <2>2, <2>3 DEF Places
  <2>6. PICK r : r = [run[p] EXCEPT !.at = "write forgotten", !.entries = e]
    OBVIOUS
  <2>7. r \in Busy
    BY <1>2, <2>4, <2>6 DEF Busy, Leaving
  <2>8. /\ r.at = "write forgotten" /\ r.command = run[p].command /\ r.keychain = run[p].keychain
        /\ r.old = run[p].old /\ r.new = run[p].new /\ r.entries = e
    BY <1>2, <2>6 DEF Busy
  <2>9. run' = [run EXCEPT ![p] = r]
    BY <1>5, <2>2, <2>6 DEF ForgetFile
  <2>10. Entries(r, NoToken)
    BY <2>4, <2>5, <2>8 DEF Entries, For
  <2>11. RunIsSo(r) /\ ~Pending(r)
    BY <1>1, <1>2, <2>1, <2>8, <2>10 DEF RunIsSo, Pending, Keeping, Done, Leaving
  <2>12. Alone => AloneIsSo(r)
    BY <1>1, <1>2, <2>8 DEF AloneIsSo, Signing, Keeping, Done, Leaving
  <2>. QED
    BY <1>1, <1>3, <2>7, <2>8, <2>9, <2>11, <2>12, Unmoved, OnlyMoves
<1>. QED
  BY <1>4, <1>5

LEMMA WriteForgottenKeepsIt ==
  ASSUME SignInInv, NEW p \in Runs, WriteForgotten(p)
  PROVE  SignInInv'
<1>1. /\ run[p].at = "write forgotten" /\ run[p].at \in Signing \cup Leaving
      /\ run[p].at \in Leaving /\ run[p].at # "revoke" /\ Running(p)
  BY DEF WriteForgotten, Running, Leaving
<1>2. RunIsSo(run[p]) /\ For(p) \in Servers /\ SignInTyped
  BY <1>1, RunIs DEF SignInInv
<1>3. CASE End(p, "failed") /\ UNCHANGED credentials
  <2>1. UNCHANGED <<setup, tokens, placeVars, ran, revoked, answered>> /\ "failed" \in Says
    BY <1>3 DEF WriteForgotten, placeVars, Says
  <2>. QED
    BY <1>1, <1>3, <2>1, Fails
<1>4. CASE credentials' = [ok |-> TRUE, entry |-> run[p].entries] /\ End(p, "signed out")
  <2>1. "signed out" \in Says
    BY DEF Says
  <2>2. PICK r \in Over : run' = [run EXCEPT ![p] = r] /\ r.at = "over"
    BY <1>4, <2>1, Ends
  <2>3. UNCHANGED <<setup, tokens, keychain, path, revoked, answered>>
    BY DEF WriteForgotten
  <2>. PICK s \in Servers : s = For(p)
    BY <1>2
  <2>4. /\ run[p].entries \in Places /\ run[p].entries[s] = NoToken
        /\ \A u \in Servers : u # s => run[p].entries[u] = credentials.entry[u]
    BY <1>1, <1>2 DEF RunIsSo, Entries, For
  <2>5. credentials'.entry = run[p].entries /\ credentials' \in [ok : BOOLEAN, entry : Places]
    BY <1>4, <2>4
  <2>6. KeptFor(s)' \subseteq KeptFor(s)
    BY <2>3, <2>4, <2>5 DEF KeptFor
  <2>7. ~run[p].keychain /\ ~run[p].command.path
    BY <1>1, <1>2 DEF RunIsSo
  <2>8. setup.keychains # {TRUE}
    BY <1>1, <2>7, PlacesAre
  <2>9. /\ keychain' \in Places /\ path' \in Kept
        /\ \A u \in Servers : u # s =>
             credentials'.entry[u] = credentials.entry[u] /\ keychain'[u] = keychain[u]
    BY <1>2, <2>3, <2>4, <2>5 DEF SignInTyped
  <2>. QED
    BY <1>1, <2>2, <2>3, <2>5, <2>6, <2>7, <2>8, <2>9, ForgetKeepsIt
<1>. QED
  BY <1>3, <1>4 DEF WriteForgotten

-----------------------------------------------------------------------------
(* The human *)

LEMMA TheHumanKeepsIt ==
  ASSUME SignInInv, RevokedAtPage \/ FileEdited
  PROVE  SignInInv'
<1>1. SignInTyped /\ PlacesAreSo /\ Apart /\ OnePlace(setup) /\ NoneLeft
  BY DEF SignInInv
<1>2. PICK t \in Tokens \cup {NoToken}, did \in BOOLEAN :
        /\ IF did THEN t \in Tokens /\ Revokes(t, TRUE) ELSE UNCHANGED tokens
        /\ revoked' = IF did THEN revoked \cup {t} ELSE revoked
  <2>1. CASE RevokedAtPage
    BY <2>1 DEF RevokedAtPage
  <2>2. CASE FileEdited
    BY <2>2 DEF FileEdited
  <2>. QED
    BY <2>1, <2>2
<1>3. /\ UNCHANGED <<setup, keychain, path, run, answered>>
      /\ credentials'.entry = credentials.entry
      /\ credentials' \in [ok : BOOLEAN, entry : Places]
      /\ credentials' = credentials \/ "file" \in setup.faults
  <2>1. CASE RevokedAtPage
    BY <1>1, <2>1 DEF RevokedAtPage, placeVars, SignInTyped
  <2>2. CASE FileEdited
    BY <1>1, <2>2 DEF FileEdited, SignInTyped
  <2>. QED
    BY <2>1, <2>2
<1>4. /\ tokens' \in Seq(TokenRecord) /\ Tokens' = Tokens
      /\ \A u \in Tokens : tokens'[u].server = tokens[u].server
      /\ \A u \in Tokens : tokens'[u].arrived = tokens[u].arrived
      /\ \A u \in Tokens : Live(u)' <=> Live(u) /\ ~(did /\ u = t)
  <2>1. CASE did
    BY <1>1, <1>2, <2>1, RevokesIs
  <2>2. CASE ~did
    BY <1>1, <1>2, <2>2 DEF SignInTyped, TokenRecord, Tokens, Live
  <2>. QED
    BY <2>1, <2>2
<1>5. /\ revoked \subseteq revoked' /\ revoked' \subseteq Tokens /\ (did => t \in revoked')
  BY <1>1, <1>2 DEF SignInTyped
<1>6. KeptTokens' = KeptTokens /\ \A s : KeptFor(s)' = KeptFor(s)
  BY <1>3 DEF KeptTokens, KeptFor
<1>7. Kept' = Kept /\ Places' = Places /\ Busy' = Busy
  BY <1>4 DEF Kept, Places, Busy
<1>8. SignInTyped'
  BY <1>1, <1>3, <1>4, <1>5, <1>7 DEF SignInTyped, TokenRecord
<1>9. PlacesAreSo'
  <2>1. \A s \in Servers : \A u \in KeptFor(s) :
          tokens'[u].server = s /\ (Live(u)' \/ u \in revoked')
    BY <1>1, <1>4, <1>5, KeptIs DEF PlacesAreSo
  <2>2. \A s \in Servers : \A u \in KeptFor(s)' :
          tokens'[u].server = s /\ (Live(u)' \/ u \in revoked')
    BY <1>6, <2>1
  <2>3. setup'.keychains = {TRUE} =>
          credentials'.ok /\ \A u \in Servers : credentials'.entry[u] = NoToken
    <3>1. setup.keychains = {TRUE} => credentials' = credentials
      BY <1>1, <1>3 DEF OnePlace
    <3>. QED
      BY <1>1, <1>3, <3>1 DEF PlacesAreSo
  <2>4. setup'.keychains = {FALSE} => \A u \in Servers : keychain'[u] = NoToken
    BY <1>1, <1>3 DEF PlacesAreSo
  <2>. QED
    BY <2>2, <2>3, <2>4 DEF PlacesAreSo
<1>10. Alone' <=> Alone
  BY <1>3 DEF Alone
<1>11. NoneLeft'
  <2>1. Held' = Held
    BY <1>3, <1>6 DEF Held, Running
  <2>. QED
    BY <1>1, <1>3, <1>4, <1>10, <2>1 DEF NoneLeft
<1>12. ASSUME NEW p \in Runs, Running(p)
       PROVE  p \in setup.runs /\ RunIsSo(run[p])' /\ (Alone => AloneIsSo(run[p])')
  <2>. PICK r : r = run[p]
    OBVIOUS
  <2>1. r \in Busy /\ p \in setup.runs /\ RunIsSo(r) /\ (Alone => AloneIsSo(r))
    BY <1>12, RunIs
  <2>2. r' = r /\ run'[p] = r
    BY <1>3
  <2>3. \A u \in Kept : u # NoToken => tokens'[u].server = tokens[u].server
    BY <1>4 DEF Kept
  <2>4. \A e : Entries(r, e) => Entries(r, e)'
    BY <1>3, <1>7 DEF Entries
  <2>5. r.new # NoToken => (Live(r.new) \/ r.new \in revoked => Live(r.new)' \/ r.new \in revoked')
    BY <1>4, <1>5, <2>1 DEF Busy, Kept
  <2>6. RunIsSo(r)'
    <3>1. r.new \in Kept /\ r.old \in Kept
      BY <2>1 DEF Busy
    <3>. QED
      BY <1>3, <1>6, <2>1, <2>3, <2>4, <2>5, <3>1 DEF RunIsSo, Pending
  <2>7. Alone => AloneIsSo(r)'
    <3>1. r.old # NoToken => (Live(r.old)' => Live(r.old))
      BY <1>4, <2>1 DEF Busy, Kept
    <3>. QED
      BY <1>3, <1>6, <2>1, <3>1 DEF AloneIsSo, LeftBy, RunIsSo
  <2>. QED
    BY <2>1, <2>2, <2>6, <2>7
<1>13. Apart'
  BY <1>1, <1>3 DEF Apart, Running
<1>14. \A p \in Runs : Running(p)' <=> Running(p)
  BY <1>3 DEF Running
<1>15. OnePlace(setup)'
  BY <1>1, <1>3 DEF OnePlace
<1>. QED
  BY <1>3, <1>8, <1>9, <1>10, <1>11, <1>12, <1>13, <1>14, <1>15 DEF SignInInv

-----------------------------------------------------------------------------
(* Starting *)

(* What a command finds where it looks. *)
LEMMA WhatIsRead ==
  ASSUME SignInInv, NEW useKeychain \in setup.keychains, NEW s \in Servers,
         NEW t \in ReadLogin(useKeychain, s)
  PROVE  t \in Kept /\ KeptFor(s) \subseteq {t} /\ (t # NoToken => t \in KeptFor(s))
<1>1. SignInTyped /\ PlacesAreSo /\ OnePlace(setup)
  BY DEF SignInInv
<1>2. keychain[s] \in Kept /\ credentials.entry[s] \in Kept
  BY <1>1 DEF SignInTyped, Places
<1>3. CASE setup.keychains = {FALSE}
  <2>1. useKeychain = FALSE /\ keychain[s] = NoToken
    BY <1>1, <1>3 DEF PlacesAreSo
  <2>. QED
    BY <1>2, <2>1 DEF ReadLogin, KeptFor
<1>4. CASE setup.keychains = {TRUE}
  <2>1. useKeychain = TRUE /\ credentials.entry[s] = NoToken
    BY <1>1, <1>4 DEF PlacesAreSo
  <2>. QED
    BY <1>2, <2>1 DEF ReadLogin, KeptFor
<1>. QED
  BY <1>1, <1>3, <1>4 DEF OnePlace

LEMMA AStartKeepsIt ==
  ASSUME SignInInv, NEW p \in setup.runs, p \in Runs, ~Running(p),
         UNCHANGED <<setup, tokens, keychain, credentials, path, revoked>>,
         answered \subseteq answered', answered' \subseteq Tokens,
         NEW r \in Busy, run' = [run EXCEPT ![p] = r],
         r.at \in Signing \cup Leaving, r.new = NoToken,
         r.old # NoToken => r.old \in KeptTokens, RunIsSo(r), Alone => AloneIsSo(r)'
  PROVE  SignInInv'
<1>1. /\ \A q \in Runs : q # p => run'[q] = run[q]
      /\ run'[p] = r /\ r.at # "over" /\ ~Pending(r)
  <2>1. run \in [Runs -> Over \cup Busy]
    BY DEF SignInInv, SignInTyped
  <2>2. \A q \in Runs : q # p => run'[q] = run[q]
    BY <2>1
  <2>3. run'[p] = r /\ r.at # "over" /\ ~Pending(r)
    BY <2>1 DEF Signing, Leaving, Pending, Keeping
  <2>. QED
    BY <2>2, <2>3
<1>2. /\ KeptTokens' = KeptTokens /\ Tokens' = Tokens /\ Kept' = Kept /\ Busy' = Busy
      /\ PlacesAreSo' /\ (Alone <=> Alone')
  BY StaysSo
<1>3. SignInTyped'
  <2>1. SignInTyped /\ Places' = Places
    BY <1>2 DEF SignInInv, Places
  <2>2. run' \in [Runs -> Over \cup Busy']
    BY <1>2, <2>1 DEF SignInTyped
  <2>. QED
    BY <1>2, <2>1, <2>2 DEF SignInTyped
<1>4. NoneLeft'
  <2>1. \A t \in Tokens' : Live(t)' /\ tokens'[t].arrived =>
          t \in Tokens /\ Live(t) /\ tokens[t].arrived
    BY <1>2 DEF Live
  <2>. QED
    BY <1>2, <2>1, NoneIsLeft
<1>5. \A q \in Runs : Running(q)' <=> q = p \/ Running(q)
  BY <1>1 DEF Running
<1>6. ASSUME NEW q \in Runs, Running(q)'
      PROVE  q \in setup'.runs /\ RunIsSo(run[q])' /\ (Alone' => AloneIsSo(run[q])')
  <2>. PICK x : x = run'[q]
    OBVIOUS
  <2>1. CASE q = p
    <3>1. x = r /\ RunIsSo(r)'
      BY <1>1, <2>1, StaysSo
    <3>. QED
      BY <1>2, <2>1, <3>1
  <2>2. CASE q # p
    <3>1. x = run[q] /\ Running(q)
      BY <1>1, <1>5, <1>6, <2>2
    <3>2. q \in setup.runs /\ RunIsSo(x) /\ (Alone => AloneIsSo(x))
      BY <3>1, RunIs
    <3>3. RunIsSo(x)' /\ (Alone => AloneIsSo(x)')
      BY <3>2, StaysSo
    <3>. QED
      BY <1>2, <3>2, <3>3
  <2>. QED
    BY <2>1, <2>2
<1>7. Apart'
  <2>. SUFFICES ASSUME NEW u \in Runs, NEW v \in Runs, u # v, Running(u)', Running(v)',
                       Pending(run'[u])
                PROVE  run'[v].new # run'[u].new /\ run'[v].old # run'[u].new
    BY DEF Apart
  <2>1. u # p /\ run'[u] = run[u] /\ Running(u) /\ Pending(run[u])
    BY <1>1, <1>5
  <2>2. CASE v = p
    <3>1. run[u].new \notin KeptTokens /\ run[u].new # NoToken
      BY <2>1, RunIs DEF RunIsSo, Pending
    <3>. QED
      BY <1>1, <2>1, <2>2, <3>1
  <2>3. CASE v # p
    BY <1>1, <1>5, <2>1, <2>3 DEF SignInInv, Apart
  <2>. QED
    BY <2>2, <2>3
<1>8. OnePlace(setup)'
  BY DEF SignInInv, OnePlace
<1>. QED
  BY <1>2, <1>3, <1>4, <1>6, <1>7, <1>8 DEF SignInInv

LEMMA StartRunKeepsIt ==
  ASSUME SignInInv, NEW p \in Runs, StartRun(p)
  PROVE  SignInInv'
<1>1. PICK c \in setup.commands, useKeychain \in setup.keychains :
        \/ PathLoginStarts(p, c, useKeychain) \/ LoginStarts(p, c, useKeychain)
        \/ LogoutStarts(p, c, useKeychain)
  BY DEF StartRun
<1>2. SignInTyped /\ PlacesAreSo /\ setup \in Setup
  BY SignInAssumption DEF SignInInv, SignInTyped
<1>3. c \in Command /\ useKeychain \in BOOLEAN /\ c.server \in Servers
  <2>1. c \in Command /\ useKeychain \in BOOLEAN
    BY <1>2 DEF Setup
  <2>. QED
    BY <2>1 DEF Command
<1>4. /\ UNCHANGED <<setup, tokens, keychain, credentials, path, revoked>>
      /\ p \in setup.runs /\ ~Running(p)
  BY DEF StartRun, placeVars
<1>5. \A old \in Kept : NewRun(c, useKeychain, old) \in Busy
  <2>1. NoToken \in Kept /\ FALSE \in BOOLEAN /\ ServerTries \in Nat
    BY SignInAssumption DEF Kept
  <2>. QED
    BY <1>3, <2>1 DEF NewRun, Busy, Signing, Leaving, Says
<1>. PICK s \in Servers : s = c.server
  BY <1>3
<1>6. /\ \A u \in Servers : KeptFor(u) \subseteq Tokens /\ KeptFor(u) \subseteq KeptTokens
      /\ path \in KeptTokens /\ NoToken \notin Tokens
  BY <1>2, KeptIs
<1>7. \A t \in KeptFor(s) : tokens[t].server = s
  BY <1>2 DEF PlacesAreSo
<1>8. \A x : KeptFor(x)' = KeptFor(x)
  BY <1>4 DEF KeptFor
<1>9. KeptTokens' = KeptTokens
  BY <1>4 DEF KeptTokens, KeptFor
<1>10. \A old : LET r == NewRun(c, useKeychain, old) IN
         /\ r.command = c /\ r.keychain = useKeychain /\ r.old = old /\ r.new = NoToken
         /\ r.at = IF c.does = "logout" THEN "revoke"
                   ELSE IF c.way = "browser" THEN "callback" ELSE "poll"
  BY DEF NewRun
<1>11. CASE /\ c.does = "login"
            /\ \E old \in Kept :
                 /\ run' = [run EXCEPT ![p] = NewRun(c, useKeychain, old)]
                 /\ IF c.path THEN old = NoToken
                    ELSE /\ KeptFor(s) \subseteq {old} \cup answered'
                         /\ old # NoToken => old \in KeptFor(s)
            /\ answered \subseteq answered' /\ answered' \subseteq Tokens
  <2>1. PICK old \in Kept :
          /\ run' = [run EXCEPT ![p] = NewRun(c, useKeychain, old)]
          /\ IF c.path THEN old = NoToken
             ELSE /\ KeptFor(s) \subseteq {old} \cup answered'
                  /\ old # NoToken => old \in KeptFor(s)
    BY <1>11
  <2>. PICK r : r = NewRun(c, useKeychain, old)
    OBVIOUS
  <2>2. r \in Busy
    BY <1>5
  <2>3. /\ r.command = c /\ r.keychain = useKeychain /\ r.old = old /\ r.new = NoToken
        /\ r.at \in {"callback", "poll"}
    BY <1>10, <1>11
  <2>4. RunIsSo(r)
    BY <1>1, <1>7, <1>11, <2>1, <2>3 DEF RunIsSo, Pending, Keeping, Done, Leaving
  <2>5. AloneIsSo(r)'
    BY <1>8, <2>1, <2>3 DEF AloneIsSo, Keeping, Done, Leaving
  <2>6. r.at \in Signing \cup Leaving /\ (r.old # NoToken => r.old \in KeptTokens)
    BY <1>6, <2>1, <2>3 DEF Signing
  <2>. QED
    BY <1>4, <1>11, <2>1, <2>2, <2>3, <2>4, <2>5, <2>6, AStartKeepsIt
<1>12. CASE PathLoginStarts(p, c, useKeychain)
  <2>1. NoToken \in Kept /\ answered \subseteq Tokens
    BY <1>2 DEF Kept, SignInTyped
  <2>. QED
    BY <1>11, <1>12, <2>1 DEF PathLoginStarts
<1>13. CASE LoginStarts(p, c, useKeychain)
  <2>1. NoToken \in Kept /\ answered \subseteq Tokens /\ c.does = "login" /\ ~c.path
    BY <1>2, <1>13 DEF Kept, SignInTyped, LoginStarts
  <2>2. CASE \E t \in ReadLogin(useKeychain, c.server) :
               run' = [run EXCEPT ![p] = NewRun(c, useKeychain, t)] /\ UNCHANGED answered
    <3>1. PICK t \in ReadLogin(useKeychain, s) :
            run' = [run EXCEPT ![p] = NewRun(c, useKeychain, t)] /\ UNCHANGED answered
      BY <2>2
    <3>2. t \in Kept /\ KeptFor(s) \subseteq {t} /\ (t # NoToken => t \in KeptFor(s))
      BY WhatIsRead
    <3>. QED
      BY <1>11, <2>1, <3>1, <3>2
  <2>3. CASE /\ run' = [run EXCEPT ![p] = NewRun(c, useKeychain, NoToken)]
             /\ answered' = answered \cup KeptFor(s)
    BY <1>6, <1>11, <2>1, <2>3
  <2>. QED
    BY <1>13, <2>2, <2>3 DEF LoginStarts
<1>14. CASE LogoutStarts(p, c, useKeychain)
  <2>1. PICK t \in IF c.path THEN {path} ELSE ReadLogin(useKeychain, s) :
       /\ t # NoToken /\ tokens[t].server = s
       /\ run' = [run EXCEPT ![p] = [NewRun(c, useKeychain, t) EXCEPT
                    !.at = IF ~c.forget THEN "revoke"
                           ELSE IF c.path THEN "remove path" ELSE "forget keychain"]]
       /\ answered' = IF c.forget THEN answered \cup {t} ELSE answered
    BY <1>14 DEF LogoutStarts
  <2>2. c.does = "logout"
    BY <1>14 DEF LogoutStarts
  <2>3. /\ t \in Kept /\ IF c.path THEN t = path ELSE KeptFor(s) \subseteq {t}
        /\ t \in KeptTokens
    <3>1. CASE c.path
      BY <1>2, <1>6, <2>1, <3>1 DEF SignInTyped
    <3>2. CASE ~c.path
      <4>1. t \in ReadLogin(useKeychain, s)
        BY <3>2
      <4>. QED
        BY <1>6, <2>1, <3>2, <4>1, WhatIsRead
    <3>. QED
      BY <3>1, <3>2
  <2>. PICK at : at = IF ~c.forget THEN "revoke"
                      ELSE IF c.path THEN "remove path" ELSE "forget keychain"
    OBVIOUS
  <2>4. /\ at \in {"revoke", "remove path", "forget keychain"}
        /\ at = "remove path" => c.path /\ (at = "forget keychain" => ~c.path)
        /\ at = "forget keychain" => ~c.path
        /\ at # "revoke" => c.forget
    OBVIOUS
  <2>. PICK n : n = NewRun(c, useKeychain, t)
    OBVIOUS
  <2>. PICK r : r = [n EXCEPT !.at = at]
    OBVIOUS
  <2>5. n \in Busy
    BY <1>5, <2>3
  <2>6. at \in Leaving
    BY <2>4 DEF Leaving
  <2>7. r \in Busy /\ r.at = at /\ r.command = n.command /\ r.keychain = n.keychain
        /\ r.old = n.old /\ r.new = n.new
    BY <2>5, <2>6 DEF Busy
  <2>8. /\ r.command = c /\ r.keychain = useKeychain /\ r.old = t /\ r.new = NoToken
    BY <1>10, <2>7
  <2>9. RunIsSo(r)
    BY <1>1, <2>1, <2>2, <2>4, <2>7, <2>8 DEF RunIsSo, Pending, Keeping, Done, Leaving
  <2>10. AloneIsSo(r)'
    <3>1. r.at \notin Signing \cup Keeping \cup Done
      BY <2>4, <2>7 DEF Signing, Keeping, Done
    <3>2. IF c.path THEN path' = t ELSE KeptFor(c.server)' \subseteq {t}
      BY <1>4, <1>8, <2>3
    <3>3. t \in KeptTokens' /\ (at # "revoke" => t \in answered')
      BY <1>9, <2>1, <2>3, <2>4
    <3>. QED
      BY <2>7, <2>8, <3>1, <3>2, <3>3 DEF AloneIsSo
  <2>11. run' = [run EXCEPT ![p] = r]
    BY <2>1
  <2>12. answered \subseteq answered' /\ answered' \subseteq Tokens
    BY <1>2, <2>1, <2>3 DEF SignInTyped, Kept
  <2>. QED
    BY <1>4, <2>3, <2>6, <2>7, <2>8, <2>9, <2>10, <2>11, <2>12, AStartKeepsIt
<1>. QED
  BY <1>1, <1>12, <1>13, <1>14

-----------------------------------------------------------------------------
(* What holds *)

LEMMA SignInStarts ==
  ASSUME \A c \in Setups : OnePlace(c), SignInInit
  PROVE  SignInInv
<1>1. Len(tokens) = 0 /\ Tokens = {} /\ Kept = {NoToken}
  BY DEF SignInInit, Tokens, Kept
<1>2. \A p \in Runs : run[p].at = "over" /\ ~Running(p)
  BY DEF SignInInit, NoRun, Ended, Running
<1>3. SignInTyped
  <2>1. NoRun \in Over
    BY DEF NoRun, Ended, Over, Says
  <2>2. keychain \in Places /\ credentials \in [ok : BOOLEAN, entry : Places]
    <3>1. TRUE \in BOOLEAN /\ [s \in Servers |-> NoToken] \in Places
      BY <1>1 DEF Places
    <3>. QED
      BY <3>1 DEF SignInInit
  <2>3. tokens \in Seq([server : Servers, live : BOOLEAN, arrived : BOOLEAN])
    BY DEF SignInInit
  <2>. QED
    BY <1>1, <2>1, <2>2, <2>3 DEF SignInInit, SignInTyped
<1>4. PlacesAreSo
  BY DEF SignInInit, PlacesAreSo, KeptFor
<1>5. NoneLeft
  BY <1>1 DEF NoneLeft
<1>6. OnePlace(setup)
  BY DEF SignInInit
<1>. QED
  BY <1>2, <1>3, <1>4, <1>5, <1>6 DEF SignInInv, Apart

LEMMA SignInStaysSo ==
  ASSUME SignInInv, UNCHANGED signInVars
  PROVE  SignInInv'
<1>1. UNCHANGED <<setup, tokens, keychain, credentials, path, run, ran, revoked, answered>>
  BY DEF signInVars, placeVars
<1>2. Tokens' = Tokens /\ Kept' = Kept /\ Places' = Places /\ Busy' = Busy
  BY <1>1 DEF Tokens, Kept, Places, Busy
<1>3. SignInTyped' /\ PlacesAreSo' /\ (Alone <=> Alone') /\ KeptTokens' = KeptTokens
  BY <1>1, <1>2, StaysSo DEF SignInInv, SignInTyped
<1>4. \A p : Running(p)' <=> Running(p)
  BY <1>1 DEF Running
<1>5. ASSUME NEW p \in Runs, Running(p)
      PROVE  p \in setup'.runs /\ RunIsSo(run[p])' /\ (Alone => AloneIsSo(run[p])')
  <2>. PICK r : r = run[p]
    OBVIOUS
  <2>1. RunIsSo(r)' /\ (Alone => AloneIsSo(r)')
    BY <1>1, <1>5, RunIs, StaysSo
  <2>2. run'[p] = r
    BY <1>1
  <2>. QED
    BY <1>1, <1>5, <2>1, <2>2, RunIs
<1>6. NoneLeft'
  <2>1. Held' = Held
    BY <1>1, <1>3, <1>4 DEF Held
  <2>. QED
    BY <1>1, <1>2, <1>3, <2>1 DEF SignInInv, NoneLeft, Live
<1>7. Apart' /\ OnePlace(setup)'
  BY <1>1, <1>4 DEF SignInInv, Apart, OnePlace
<1>. QED
  BY <1>3, <1>4, <1>5, <1>6, <1>7 DEF SignInInv

LEMMA SignInStep ==
  ASSUME SignInInv, [SignInNext]_signInVars
  PROVE  SignInInv'
<1>1. ASSUME NEW p \in Runs, SignIn(p)
      PROVE  SignInInv'
  BY <1>1, CallbackKeepsIt, SignInFails, TokenComesKeepsIt, LostAnswerKeepsIt,
     UnavailableKeepsIt DEF SignIn
<1>2. ASSUME NEW p \in Runs, Keep(p)
      PROVE  SignInInv'
  BY <1>2, CheckKeepsIt, WritePathKeepsIt, WriteKeychainKeepsIt, ReadFileKeepsIt,
     WriteFileKeepsIt, DiscardKeepsIt, FinishKeepsIt, RevokeOldKeepsIt DEF Keep
<1>3. ASSUME NEW p \in Runs, SignOut(p)
      PROVE  SignInInv'
  BY <1>3, LogoutRevokesKeepsIt, RemovePathKeepsIt, ForgetKeychainKeepsIt, ForgetFileKeepsIt,
     WriteForgottenKeepsIt DEF SignOut
<1>4. ASSUME NEW p \in Runs, StartRun(p) \/ Killed(p)
      PROVE  SignInInv'
  BY <1>4, StartRunKeepsIt, KilledKeepsIt
<1>. QED
  BY <1>1, <1>2, <1>3, <1>4, TheHumanKeepsIt, SignInStaysSo DEF SignInNext

(***************************************************************************)
(* The invariant, where a computer keeps its logins in one place (OnePlace)*)
(* and for any number of commands, servers, tokens and tries: a login that *)
(* runs has the token it is to keep and the one it replaces, no other has  *)
(* them, and what is kept of a server is what it read there.               *)
(***************************************************************************)
THEOREM SignInInvariant ==
  ASSUME \A c \in Setups : OnePlace(c)
  PROVE  SignInSpec => []SignInInv
<1>1. SignInInit => SignInInv
  BY SignInStarts
<1>2. SignInInv /\ [SignInNext]_signInVars => SignInInv'
  BY SignInStep
<1>. QED
  BY <1>1, <1>2, PTL DEF SignInSpec

(***************************************************************************)
(* No live token is left that nobody holds (NoneLeft), whichever requests  *)
(* and writes of a command fail or are lost and wherever it is killed.     *)
(***************************************************************************)
THEOREM NoneIsLeftBehind ==
  ASSUME \A c \in Setups : OnePlace(c)
  PROVE  SignInSpec => []NoneLeft
<1>1. SignInInv => NoneLeft
  BY DEF SignInInv
<1>. QED
  BY <1>1, SignInInvariant, PTL

(***************************************************************************)
(* What is kept is live unless a logout or the human revoked it            *)
(* (NeverLeftWithout), with logins to one server side by side too.         *)
(***************************************************************************)
THEOREM NeverWithout ==
  ASSUME \A c \in Setups : OnePlace(c)
  PROVE  SignInSpec => []NeverLeftWithout
<1>1. SignInInv => NeverLeftWithout
  BY DEF SignInInv, PlacesAreSo, NeverLeftWithout
<1>. QED
  BY <1>1, SignInInvariant, PTL

(* Only these say that it is signed in, or that nothing was kept.          *)
LEMMA SaidBy ==
  ASSUME SignInInv, [SignInNext]_signInVars, NEW p \in Runs, Running(p),
         run'[p].said # run[p].said, run'[p].said \in {"signed in", "nothing kept"}
  PROVE  \/ Finish(p) /\ run'[p].said = "signed in"
         \/ RevokeOld(p) /\ run'[p].said = "signed in"
         \/ Discard(p) /\ run'[p].said = "nothing kept"
<1>1. run \in [Runs -> Over \cup Busy] /\ run[p] \in Busy
  BY RunIs DEF SignInInv, SignInTyped
<1>2. run' # run /\ SignInNext
  BY DEF signInVars
<1>3. PICK q \in Runs : StartRun(q) \/ SignIn(q) \/ Keep(q) \/ SignOut(q) \/ Killed(q)
  BY <1>2 DEF SignInNext, RevokedAtPage, FileEdited
<1>4. \A said : End(q, said) => run' = [run EXCEPT ![q] = Ended(said)] /\ Ended(said).said = said
  BY DEF End, Ended
<1>5. \A at : Go(q, at) => run' = [run EXCEPT ![q].at = at]
  BY DEF Go
<1>6. p = q
  <2>. SUFFICES ASSUME p # q
                PROVE  run'[p] = run[p]
    OBVIOUS
  <2>1. \/ \E at : Go(q, at)
        \/ \E said : End(q, said)
        \/ \E x : run' = [run EXCEPT ![q] = x]
        \/ run' = run
    <3>1. CASE StartRun(q)
      BY <3>1 DEF StartRun, PathLoginStarts, LoginStarts, LogoutStarts
    <3>2. CASE SignIn(q)
      BY <3>2 DEF SignIn, Callback, NoApproval, TokenComes, LostAnswer, Unavailable, CodeRefused
    <3>3. CASE Keep(q)
      BY <3>3, ZenonT(30) DEF Keep, Check, WritePath, WriteKeychain, ReadFile, WithEntries, WriteFile, Discard,
                  Finish, SaysSignedIn, RevokeOld
    <3>4. CASE SignOut(q)
      BY <3>4 DEF SignOut, LogoutRevokes, RemovePath, ForgetKeychain, ForgetFile, WriteForgotten
    <3>5. CASE Killed(q)
      BY <3>5 DEF Killed
    <3>. QED
      BY <1>3, <3>1, <3>2, <3>3, <3>4, <3>5
  <2>. QED
    BY <1>1, <1>4, <1>5, <2>1
<1>7. \A said : End(p, said) => run'[p].said = said
  BY <1>1, <1>4, <1>6
<1>8. \A at : ~Go(p, at)
  <2>. SUFFICES ASSUME NEW at, Go(p, at)
                PROVE  FALSE
    OBVIOUS
  <2>1. run'[p] = [run[p] EXCEPT !.at = at]
    BY <1>1, <1>5, <1>6
  <2>. QED
    BY <1>1, <2>1 DEF Busy
<1>9. CASE StartRun(p)
  BY <1>9 DEF StartRun
<1>10. CASE SignIn(p)
  <2>1. CASE Callback(p)
    BY <1>8, <2>1 DEF Callback
  <2>2. CASE NoApproval(p) \/ CodeRefused(p)
    BY <1>7, <2>2 DEF NoApproval, CodeRefused
  <2>3. CASE TokenComes(p)
    <3>1. run'[p] = [run[p] EXCEPT !.at = "check", !.new = NextToken]
      BY <1>1, <2>3 DEF TokenComes
    <3>. QED
      BY <1>1, <3>1 DEF Busy
  <2>4. CASE LostAnswer(p)
    <3>1. \/ End(p, "failed")
          \/ \E made \in BOOLEAN : run'[p] = [run[p] EXCEPT !.spent = @ \/ made, !.resent = TRUE]
      BY <1>1, <1>2, <2>4 DEF LostAnswer
    <3>. QED
      BY <1>1, <1>7, <3>1 DEF Busy
  <2>5. CASE Unavailable(p)
    <3>1. End(p, "failed") \/ run'[p] = [run[p] EXCEPT !.tries = @ - 1]
      BY <1>1, <2>5 DEF Unavailable
    <3>. QED
      BY <1>1, <1>7, <3>1 DEF Busy
  <2>. QED
    BY <1>10, <2>1, <2>2, <2>3, <2>4, <2>5 DEF SignIn
<1>11. CASE Keep(p)
  <2>1. CASE Check(p) \/ WritePath(p) \/ WriteKeychain(p) \/ WriteFile(p)
    BY <1>8, <2>1 DEF Check, WritePath, WriteKeychain, WriteFile
  <2>2. CASE ReadFile(p)
    <3>1. \E e : run'[p] = [run[p] EXCEPT !.at = "write file", !.entries = e]
      BY <1>1, <1>8, <2>2 DEF ReadFile, WithEntries
    <3>. QED
      BY <1>1, <3>1 DEF Busy
  <2>3. CASE Discard(p)
    BY <1>7, <2>3 DEF Discard
  <2>4. CASE Finish(p)
    <3>1. End(p, "signed in") \/ run'[p] = [run[p] EXCEPT !.at = "revoke old", !.said = "signed in"]
      BY <1>1, <2>4 DEF Finish, SaysSignedIn
    <3>. QED
      BY <1>1, <1>7, <2>4, <3>1 DEF Busy
  <2>5. CASE RevokeOld(p)
    BY <1>7, <2>5 DEF RevokeOld
  <2>. QED
    BY <1>11, <2>1, <2>2, <2>3, <2>4, <2>5 DEF Keep
<1>12. CASE SignOut(p)
  <2>1. CASE LogoutRevokes(p) \/ RemovePath(p) \/ ForgetKeychain(p) \/ WriteForgotten(p)
    BY <1>7, <1>8, <2>1 DEF LogoutRevokes, RemovePath, ForgetKeychain, WriteForgotten
  <2>2. CASE ForgetFile(p)
    <3>1. \/ \E said \in {"failed", "signed out"} : End(p, said)
          \/ \E e : run'[p] = [run[p] EXCEPT !.at = "write forgotten", !.entries = e]
      BY <1>1, <2>2 DEF ForgetFile
    <3>. QED
      BY <1>1, <1>7, <3>1 DEF Busy
  <2>. QED
    BY <1>12, <2>1, <2>2 DEF SignOut
<1>13. CASE Killed(p)
  BY <1>7, <1>13 DEF Killed
<1>. QED
  BY <1>3, <1>6, <1>9, <1>10, <1>11, <1>12, <1>13

(***************************************************************************)
(* What a login says it did is so (SaidIsSo): signed in, its token is where*)
(* the next command reads it; nothing kept, no place has it.               *)
(***************************************************************************)
THEOREM SaidTrue ==
  ASSUME \A c \in Setups : OnePlace(c)
  PROVE  SignInSpec => SaidIsSo
<1>. DEFINE Said(p) ==
       /\ run'[p].said = "signed in" =>
            \A c \in setup.commands, useKeychain \in setup.keychains :
              c = run[p].command /\ useKeychain = run[p].keychain =>
                LeftBy(c, useKeychain)' = run[p].new
       /\ run'[p].said = "nothing kept" => run[p].new \notin KeptTokens'
<1>1. ASSUME SignInInv, [SignInNext]_signInVars, Alone, NEW p \in Runs, Running(p),
             run'[p].said # run[p].said
      PROVE  Said(p)
  <2>1. RunIsSo(run[p]) /\ AloneIsSo(run[p])
    BY <1>1, RunIs
  <2>2. CASE Finish(p) \/ RevokeOld(p)
    <3>1. run[p].at \in Done /\ UNCHANGED <<keychain, credentials, path>>
      BY <2>2 DEF Finish, RevokeOld, placeVars, Done
    <3>2. LeftBy(run[p].command, run[p].keychain) = run[p].new
      BY <2>1, <3>1 DEF AloneIsSo
    <3>3. run'[p].said # "nothing kept"
      BY <1>1, <2>2, SaidBy DEF Discard, Finish, RevokeOld
    <3>. QED
      BY <3>1, <3>2, <3>3 DEF LeftBy
  <2>3. CASE Discard(p)
    <3>1. run[p].at = "discard" /\ UNCHANGED <<keychain, credentials, path>>
      BY <2>3 DEF Discard, placeVars
    <3>2. run[p].new \notin KeptTokens
      BY <2>1, <3>1 DEF RunIsSo, Pending, Keeping
    <3>3. KeptTokens' = KeptTokens
      BY <3>1 DEF KeptTokens, KeptFor
    <3>4. run'[p].said # "signed in"
      BY <1>1, <2>3, SaidBy DEF Discard, Finish, RevokeOld
    <3>. QED
      BY <3>2, <3>3, <3>4
  <2>4. CASE run'[p].said \notin {"signed in", "nothing kept"}
    BY <2>4
  <2>. QED
    BY <1>1, <2>2, <2>3, <2>4, SaidBy
<1>2. SignInInv /\ [SignInNext]_signInVars =>
        [Alone => \A p \in Runs : Running(p) /\ run'[p].said # run[p].said => Said(p)]_signInVars
  BY <1>1
<1>. QED
  BY <1>2, SignInInvariant, PTL DEF SaidIsSo, SignInSpec

=============================================================================
