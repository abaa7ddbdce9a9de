------------------------------ MODULE MCSignIn -------------------------------
(***************************************************************************)
(* SignIn on a few computers, each with what may go wrong on it and the    *)
(* commands run there.                                                     *)
(***************************************************************************)
EXTENDS SignIn

CONSTANTS s1, s2, p1, p2

LoginTo(s, way, toPath, force) ==
  [does |-> "login", server |-> s, way |-> way, path |-> toPath, force |-> force]
LogoutsOf(s) == [does : {"logout"}, server : {s}, path : BOOLEAN, forget : BOOLEAN]

JustThese ==
  {LoginTo(s1, "code", FALSE, FALSE),
   [does |-> "logout", server |-> s1, path |-> FALSE, forget |-> FALSE]}
EveryKind ==
  {LoginTo(s1, "browser", FALSE, FALSE)} \cup LogoutsOf(s1)
    \cup [does : {"login"}, server : {s1}, way : {"code"}, path : {TRUE}, force : BOOLEAN]

Computer(keychains, mayFail, at, commands) ==
  [keychains |-> keychains, faults |-> mayFail, runs |-> at, commands |-> commands]

(* One that keeps its logins in the file, which may be unreadable or not   *)
(* be written; one that keeps them in its keychain; and one where two      *)
(* commands run at once.                                                   *)
BothAtOnce == {Computer({FALSE}, {"kill"}, {p1, p2}, JustThese)}
EachPlace ==
  {Computer({FALSE}, {"file", "kill"}, {p1}, EveryKind \cup {LoginTo(s2, "code", FALSE, FALSE)}),
   Computer({TRUE}, {"kill"}, {p1}, EveryKind)} \cup BothAtOnce

(* One that uses its keychain in some commands and not in others.          *)
BothPlaces == {Computer(BOOLEAN, {}, {p1}, JustThese)}

(* One that uses its keychain beside a file that may be unreadable.        *)
BesideTheFile == {Computer({TRUE}, {"file"}, {p1}, JustThese)}

=============================================================================
