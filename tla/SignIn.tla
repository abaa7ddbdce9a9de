------------------------------- MODULE SignIn --------------------------------
(***************************************************************************)
(* Signing in to servers and out (crates/cli/src/commands/login.rs and     *)
(* logout.rs, credentials.rs, store-remote/src/signin.rs): a login gets a  *)
(* new token by the browser or by a code, checks it, keeps it in the       *)
(* keychain or in the credentials file, and revokes the one it replaced; a *)
(* logout revokes the kept one and forgets it.  Either may be killed, and  *)
(* any answer may be lost, come late, or be a failure.                     *)
(*                                                                         *)
(* A token is a number, in the order the servers made them.  What a        *)
(* request asks in several tries, or in two requests that nothing here     *)
(* comes between, is one step.                                             *)
(***************************************************************************)
EXTENDS Naturals, Sequences, FiniteSets

CONSTANTS
  Runs,        \* the commands that may be running at once
  Servers,
  Setups,      \* the computers it is checked on, see Setup
  ServerTries, \* how often an exchange that gave 503 is sent again
  MaxTokens,   \* bound: the tokens made
  MaxRuns      \* bound: the commands run

Command == [does : {"login"}, server : Servers, way : {"browser", "code"},
            path : BOOLEAN, force : BOOLEAN]
           \cup [does : {"logout"}, server : Servers, path : BOOLEAN, forget : BOOLEAN]

(* A computer: whether its commands use the keychain, what may go wrong on *)
(* it, and the commands run there, at once and in all.                     *)
Setup == [keychains : SUBSET BOOLEAN, faults : SUBSET {"file", "keychain", "kill"},
          runs : SUBSET Runs, commands : SUBSET Command]

ASSUME SignInAssumption ==
  /\ Setups \subseteq Setup
  /\ ServerTries \in Nat /\ MaxTokens \in Nat /\ MaxRuns \in Nat

VARIABLES
  setup,       \* the computer
  tokens,      \* the servers': each token made
  keychain,    \* the keychain's item for each server
  credentials, \* credentials.toml: whether it can be read, and each server's token
  path,        \* the token in the file --file names
  run,         \* the commands running
  ran,         \* how many have started
  revoked,     \* history: the tokens a logout or the human revoked
  answered     \* history: the tokens the human was told of or let go

signInVars == <<setup, tokens, keychain, credentials, path, run, ran, revoked, answered>>
placeVars == <<keychain, credentials, path>>

NoToken == 0
Tokens == 1 .. Len(tokens)
Live(t) == tokens[t].live

Ended(said) == [at |-> "over", said |-> said]
NoRun == Ended("nothing")

SignInInit ==
  /\ setup \in Setups
  /\ tokens = <<>>
  /\ keychain = [s \in Servers |-> NoToken]
  /\ credentials = [ok |-> TRUE, entry |-> [s \in Servers |-> NoToken]]
  /\ path = NoToken
  /\ run = [p \in Runs |-> NoRun]
  /\ ran = 0 /\ revoked = {} /\ answered = {}

Running(p) == run[p].at # "over"
Alone == \E p \in Runs : setup.runs = {p}
For(p) == run[p].command.server
Go(p, at) == run' = [run EXCEPT ![p].at = at]
End(p, said) == run' = [run EXCEPT ![p] = Ended(said)]

-----------------------------------------------------------------------------
(* Where a login is kept *)

(* The keychain's login for s, then the file's; a place that cannot be     *)
(* read is never skipped.                                                  *)
ReadLogin(useKeychain, s) ==
  IF useKeychain /\ keychain[s] # NoToken THEN {keychain[s]}
  ELSE IF credentials.ok THEN {credentials.entry[s]} ELSE {}

(* Every token kept for s. *)
KeptFor(s) == {keychain[s], credentials.entry[s]} \ {NoToken}

-----------------------------------------------------------------------------
(* Starting *)

NewRun(c, useKeychain, old) ==
  [at |-> IF c.does = "logout" THEN "revoke" ELSE IF c.way = "browser" THEN "callback" ELSE "poll",
   command |-> c,
   keychain |-> useKeychain, old |-> old, new |-> NoToken, spent |-> FALSE,
   resent |-> FALSE, tries |-> ServerTries, entries |-> <<>>,
   said |-> "nothing"]

(* A token file is made anew, or replaced if forced. *)
PathLoginStarts(p, c, useKeychain) ==
  /\ c.does = "login" /\ c.path
  /\ path = NoToken \/ c.force
  /\ run' = [run EXCEPT ![p] = NewRun(c, useKeychain, NoToken)]
  /\ UNCHANGED answered

(* A login reads the one it will replace before it signs in, and warns of  *)
(* one it cannot read.                                                     *)
LoginStarts(p, c, useKeychain) ==
  /\ c.does = "login" /\ ~c.path
  /\ \/ \E t \in ReadLogin(useKeychain, c.server) :
          run' = [run EXCEPT ![p] = NewRun(c, useKeychain, t)] /\ UNCHANGED answered
     \/ /\ ReadLogin(useKeychain, c.server) = {} \/ (useKeychain /\ "keychain" \in setup.faults)
        /\ run' = [run EXCEPT ![p] = NewRun(c, useKeychain, NoToken)]
        /\ answered' = answered \cup KeptFor(c.server)

(* A logout has the login to revoke, or ends at once.  The file a human    *)
(* names is of the server they name.  With --forget nothing is sent, and   *)
(* it says that the token stays live.                                      *)
LogoutStarts(p, c, useKeychain) ==
  /\ c.does = "logout"
  /\ \E t \in IF c.path THEN {path} ELSE ReadLogin(useKeychain, c.server) :
       /\ t # NoToken /\ tokens[t].server = c.server
       /\ run' = [run EXCEPT ![p] = [NewRun(c, useKeychain, t) EXCEPT
                    !.at = IF ~c.forget THEN "revoke"
                           ELSE IF c.path THEN "remove path" ELSE "forget keychain"]]
       /\ answered' = IF c.forget THEN answered \cup {t} ELSE answered

StartRun(p) ==
  /\ p \in setup.runs /\ ~Running(p) /\ ran < MaxRuns
  /\ \E c \in setup.commands, useKeychain \in setup.keychains :
       \/ PathLoginStarts(p, c, useKeychain) \/ LoginStarts(p, c, useKeychain)
       \/ LogoutStarts(p, c, useKeychain)
  /\ ran' = ran + 1
  /\ UNCHANGED <<setup, tokens, placeVars, revoked>>

-----------------------------------------------------------------------------
(* The sign-in *)

Made(s, arrived) == Append(tokens, [server |-> s, live |-> TRUE, arrived |-> arrived])
NextToken == Len(tokens) + 1
CanMake(p) == ~run[p].spent /\ Len(tokens) < MaxTokens

(* The browser comes back with the code, or the sign-in is denied, runs    *)
(* out or is refused.  Its request is held, to be told what the terminal   *)
(* is, unless that takes long.                                             *)
Callback(p) ==
  /\ run[p].at = "callback" /\ Go(p, "exchange")
  /\ UNCHANGED <<setup, tokens, placeVars, ran, revoked, answered>>

NoApproval(p) ==
  /\ run[p].at \in {"callback", "poll"}
  /\ End(p, "failed")
  /\ UNCHANGED <<setup, tokens, placeVars, ran, revoked, answered>>

(* The exchange, or a poll, gives the token. *)
TokenComes(p) ==
  /\ run[p].at \in {"exchange", "poll"} /\ CanMake(p)
  /\ tokens' = Made(For(p), TRUE)
  /\ run' = [run EXCEPT ![p].at = "check", ![p].new = NextToken]
  /\ UNCHANGED <<setup, placeVars, ran, revoked, answered>>

(* No answer: the token may have been made, and the code spent.  A poll    *)
(* polls again; an exchange is sent once more.                             *)
LostAnswer(p) ==
  /\ run[p].at \in {"exchange", "poll"}
  /\ \/ UNCHANGED <<tokens, run>> /\ run[p].at = "poll"
     \/ \E made \in BOOLEAN :
          /\ IF made THEN CanMake(p) /\ tokens' = Made(For(p), FALSE) ELSE UNCHANGED tokens
          /\ IF run[p].at = "exchange" /\ run[p].resent THEN End(p, "failed")
             ELSE run' = [run EXCEPT ![p].spent = @ \/ made, ![p].resent = TRUE]
  /\ UNCHANGED <<setup, placeVars, ran, revoked, answered>>

(* 503: a store could not take the token, and the code stays good. *)
Unavailable(p) ==
  /\ run[p].at = "exchange" /\ ~run[p].spent
  /\ IF run[p].tries = 0 THEN End(p, "failed")
     ELSE run' = [run EXCEPT ![p].tries = @ - 1]
  /\ UNCHANGED <<setup, tokens, placeVars, ran, revoked, answered>>

(* The code is spent, or no more good.  After an exchange that got no      *)
(* answer it may have been spent on a token that never came, which is said.*)
CodeRefused(p) ==
  /\ run[p].at \in {"exchange", "poll"}
  /\ End(p, IF run[p].at = "exchange" /\ run[p].resent THEN "may have made one" ELSE "failed")
  /\ UNCHANGED <<setup, tokens, placeVars, ran, revoked, answered>>

-----------------------------------------------------------------------------
(* Keeping the new token *)

(* Where a login that passed its check goes on. *)
FirstPlace(p) ==
  IF run[p].command.path THEN "write path"
  ELSE IF run[p].keychain THEN "keychain" ELSE "read file"

(* Mistake: the token it replaces is revoked before the new one is kept.   *)
CheckRevokesFirst(p) ==
  /\ run[p].at = "check"
  /\ \/ Live(run[p].new) /\ Go(p, FirstPlace(p))
        /\ tokens' = [t \in Tokens |-> [tokens[t] EXCEPT !.live = @ /\ t # run[p].old]]
     \/ Go(p, "discard") /\ UNCHANGED tokens
  /\ UNCHANGED <<setup, placeVars, ran, revoked, answered>>

(* Whether the server takes the new token and says of it what the answer   *)
(* said, as far as it can be asked.                                        *)
Check(p) ==
  /\ run[p].at = "check"
  /\ (Live(run[p].new) /\ Go(p, FirstPlace(p))) \/ Go(p, "discard")
  /\ UNCHANGED <<setup, tokens, placeVars, ran, revoked, answered>>

(* A file the human let cases replace is theirs to answer for. *)
WritePath(p) ==
  /\ run[p].at = "write path"
  /\ \/ /\ path = NoToken \/ run[p].command.force
        /\ path' = run[p].new /\ answered' = answered \cup ({path} \ {NoToken})
        /\ Go(p, "finish")
     \/ /\ (path # NoToken /\ ~run[p].command.force) \/ "file" \in setup.faults
        /\ Go(p, "discard")
        /\ UNCHANGED <<path, answered>>
  /\ UNCHANGED <<setup, tokens, keychain, credentials, ran, revoked>>

(* A keychain that cannot be written leaves it to the file. *)
WriteKeychain(p) ==
  /\ run[p].at = "keychain"
  /\ \/ keychain' = [keychain EXCEPT ![For(p)] = run[p].new] /\ Go(p, "tidy file")
     \/ "keychain" \in setup.faults /\ Go(p, "read file") /\ UNCHANGED keychain
  /\ UNCHANGED <<setup, tokens, credentials, path, ran, revoked, answered>>

WithEntries(p, entries) ==
  run' = [run EXCEPT ![p].at = "write file", ![p].entries = entries]

(* The file as it is read to be written: with the new login in place of    *)
(* the server's, or, when the keychain has it, without the server's.       *)
ReadFile(p) ==
  /\ run[p].at \in {"read file", "tidy file"}
  /\ LET tidy == run[p].at = "tidy file" IN
     IF ~credentials.ok THEN Go(p, "discard")
     ELSE IF tidy /\ credentials.entry[For(p)] = NoToken THEN Go(p, "finish")
     ELSE WithEntries(p, [credentials.entry EXCEPT
                            ![For(p)] = IF tidy THEN NoToken ELSE run[p].new])
  /\ UNCHANGED <<setup, tokens, placeVars, ran, revoked, answered>>

(* Mistake: a file that could not be written is taken for kept.            *)
WriteFileAnyway(p) ==
  /\ run[p].at = "write file" /\ Go(p, "finish")
  /\ \/ credentials' = [ok |-> TRUE, entry |-> run[p].entries]
     \/ "file" \in setup.faults /\ UNCHANGED credentials
  /\ UNCHANGED <<setup, tokens, keychain, path, ran, revoked, answered>>

(* A temporary file renamed over it, so it is written whole or not at all. *)
WriteFile(p) ==
  /\ run[p].at = "write file"
  /\ \/ credentials' = [ok |-> TRUE, entry |-> run[p].entries] /\ Go(p, "finish")
     \/ "file" \in setup.faults /\ Go(p, "discard") /\ UNCHANGED credentials
  /\ UNCHANGED <<setup, tokens, keychain, path, ran, revoked, answered>>

(* Mistake: a token that could not be kept is left as it is. *)
DiscardNotRevoked(p) ==
  /\ run[p].at = "discard"
  /\ End(p, "nothing kept")
  /\ UNCHANGED <<setup, tokens, placeVars, ran, revoked, answered>>

(* A request to revoke t: whether it did, and what it says. *)
Revokes(t, did) == tokens' = IF did THEN [tokens EXCEPT ![t].live = FALSE] ELSE tokens

(* A token not kept is revoked, or the human is told where to revoke it.   *)
Discard(p) ==
  /\ run[p].at = "discard"
  /\ End(p, "nothing kept")
  /\ \/ Revokes(run[p].new, TRUE) /\ UNCHANGED answered
     \/ \E did \in BOOLEAN : Revokes(run[p].new, did) /\ answered' = answered \cup {run[p].new}
  /\ UNCHANGED <<setup, placeVars, ran, revoked>>

SaysSignedIn(p) ==
  IF run[p].old = NoToken THEN End(p, "signed in")
  ELSE run' = [run EXCEPT ![p].at = "revoke old", ![p].said = "signed in"]

(* The page, and in the end the terminal, say that it is signed in. *)
Finish(p) ==
  /\ run[p].at = "finish" /\ SaysSignedIn(p)
  /\ UNCHANGED <<setup, tokens, placeVars, ran, revoked, answered>>

(* The token it replaced is revoked, or the human is told of it. *)
RevokeOld(p) ==
  /\ run[p].at = "revoke old" /\ End(p, "signed in")
  /\ \/ Revokes(run[p].old, TRUE) /\ UNCHANGED answered
     \/ \E did \in BOOLEAN : Revokes(run[p].old, did) /\ answered' = answered \cup {run[p].old}
  /\ UNCHANGED <<setup, placeVars, ran, revoked>>

-----------------------------------------------------------------------------
(* Signing out *)

Place(p) == IF run[p].command.path THEN "remove path" ELSE "forget keychain"

(* The token is revoked, or was already; if that cannot be told, it is kept.*)
LogoutRevokes(p) ==
  /\ run[p].at = "revoke"
  /\ \E did, says \in BOOLEAN :
       /\ Revokes(run[p].old, did)
       /\ says => did \/ ~Live(run[p].old)
       /\ revoked' = IF did THEN revoked \cup {run[p].old} ELSE revoked
       /\ IF says THEN Go(p, Place(p)) ELSE End(p, "not revoked")
  /\ UNCHANGED <<setup, placeVars, ran, answered>>

RemovePath(p) ==
  /\ run[p].at = "remove path"
  /\ \/ path' = NoToken /\ End(p, "signed out")
     \/ "file" \in setup.faults /\ End(p, "failed") /\ UNCHANGED path
  /\ UNCHANGED <<setup, tokens, keychain, credentials, ran, revoked, answered>>

ForgetKeychain(p) ==
  /\ run[p].at = "forget keychain"
  /\ \/ /\ keychain' = IF run[p].keychain THEN [keychain EXCEPT ![For(p)] = NoToken] ELSE keychain
        /\ Go(p, "forget file")
     \/ "keychain" \in setup.faults /\ End(p, "failed") /\ UNCHANGED keychain
  /\ UNCHANGED <<setup, tokens, credentials, path, ran, revoked, answered>>

ForgetFile(p) ==
  /\ run[p].at = "forget file"
  /\ IF ~credentials.ok THEN End(p, "failed")
     ELSE IF credentials.entry[For(p)] = NoToken THEN End(p, "signed out")
     ELSE run' = [run EXCEPT ![p].at = "write forgotten",
                             ![p].entries = [credentials.entry EXCEPT ![For(p)] = NoToken]]
  /\ UNCHANGED <<setup, tokens, placeVars, ran, revoked, answered>>

WriteForgotten(p) ==
  /\ run[p].at = "write forgotten"
  /\ \/ credentials' = [ok |-> TRUE, entry |-> run[p].entries] /\ End(p, "signed out")
     \/ "file" \in setup.faults /\ End(p, "failed") /\ UNCHANGED credentials
  /\ UNCHANGED <<setup, tokens, keychain, path, ran, revoked, answered>>

-----------------------------------------------------------------------------
(* The human *)

(* On the account's token page. *)
RevokedAtPage ==
  /\ \E t \in Tokens : Live(t) /\ Revokes(t, TRUE) /\ revoked' = revoked \cup {t}
  /\ UNCHANGED <<setup, placeVars, run, ran, answered>>

(* The file is edited to what cannot be read, or put right. *)
FileEdited ==
  /\ "file" \in setup.faults
  /\ credentials' = [credentials EXCEPT !.ok = ~@]
  /\ UNCHANGED <<setup, tokens, keychain, path, run, ran, revoked, answered>>

(* A human who ends a command answers for what it had out. *)
Killed(p) ==
  /\ "kill" \in setup.faults /\ Running(p)
  /\ End(p, run[p].said)
  /\ answered' = answered \cup ({run[p].old, run[p].new} \ {NoToken})
  /\ UNCHANGED <<setup, tokens, placeVars, ran, revoked>>

SignIn(p) ==
  \/ Callback(p) \/ NoApproval(p) \/ TokenComes(p) \/ LostAnswer(p)
  \/ Unavailable(p) \/ CodeRefused(p)

Keep(p) ==
  \/ Check(p) \/ WritePath(p) \/ WriteKeychain(p) \/ ReadFile(p) \/ WriteFile(p)
  \/ Discard(p) \/ Finish(p) \/ RevokeOld(p)

SignOut(p) ==
  LogoutRevokes(p) \/ RemovePath(p) \/ ForgetKeychain(p) \/ ForgetFile(p) \/ WriteForgotten(p)

SignInNext ==
  \/ \E p \in Runs : StartRun(p) \/ SignIn(p) \/ Keep(p) \/ SignOut(p) \/ Killed(p)
  \/ RevokedAtPage \/ FileEdited

SignInSpec == SignInInit /\ [][SignInNext]_signInVars

-----------------------------------------------------------------------------
(* Properties *)

SignInTypeOK ==
  /\ setup \in Setups /\ ran \in 0 .. MaxRuns /\ Len(tokens) <= MaxTokens
  /\ \A t \in Tokens : tokens[t] \in [server : Servers, live : BOOLEAN, arrived : BOOLEAN]
  /\ keychain \in [Servers -> Tokens \cup {NoToken}] /\ path \in Tokens \cup {NoToken}
  /\ credentials \in [ok : BOOLEAN, entry : [Servers -> Tokens \cup {NoToken}]]
  /\ revoked \subseteq Tokens /\ answered \subseteq Tokens

KeptTokens == {path} \cup UNION {KeptFor(s) : s \in Servers}

Held ==
  KeptTokens \cup UNION {{run[p].old, run[p].new} : p \in {p \in Runs : Running(p)}}

(***************************************************************************)
(* No live token is left that nobody holds: a token that came to this      *)
(* computer is kept here, or revoked, or the human was told of it or let   *)
(* it go (logout.rs: "so that a live token is never left that nobody       *)
(* holds"), whichever of the requests and writes of a command fails.       *)
(***************************************************************************)
NoneLeft ==
  Alone => \A t \in Tokens : Live(t) /\ tokens[t].arrived => t \in Held \cup answered

(***************************************************************************)
(* A login that fails part-way, or is killed, or runs beside another to    *)
(* the same server, never leaves the computer with no token: what is kept  *)
(* is live, unless a logout or the human revoked it (login.rs `run`, which *)
(* keeps the new token before it revokes the old one, and `discard`).      *)
(***************************************************************************)
NeverLeftWithout ==
  \A s \in Servers : \A t \in KeptFor(s) : Live(t) \/ t \in revoked

(* Where command c leaves its token: what the next command reads, as far   *)
(* as it can be read, or the file it named.                                *)
LeftBy(c, useKeychain) ==
  IF c.path THEN path
  ELSE IF useKeychain /\ keychain[c.server] # NoToken THEN keychain[c.server]
  ELSE credentials.entry[c.server]

(***************************************************************************)
(* What a login says it did is so: one that says it signed in has its      *)
(* token where the next command reads it, and one that says nothing was    *)
(* kept left nothing of it (login.rs `run`: "Nothing is kept then", and    *)
(* the page of `Held`, "so that its page tells the truth").                *)
(***************************************************************************)
SaidIsSo ==
  [][Alone => \A p \in Runs : Running(p) /\ run'[p].said # run[p].said =>
       /\ run'[p].said = "signed in" =>
            \A c \in setup.commands, useKeychain \in setup.keychains :
              c = run[p].command /\ useKeychain = run[p].keychain =>
                LeftBy(c, useKeychain)' = run[p].new
       /\ run'[p].said = "nothing kept" => run[p].new \notin KeptTokens']_signInVars

=============================================================================
