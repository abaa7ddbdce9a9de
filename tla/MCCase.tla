------------------------------- MODULE MCCase --------------------------------
(***************************************************************************)
(* Case and Freshness on small inputs: opens of each kind, and the amends  *)
(* that can tell one rule from another.                                    *)
(***************************************************************************)
EXTENDS Freshness

CONSTANTS
  OpenKinds,  \* the kinds opened in a run
  b1, b2, i1, i2, r1, r2, rest1, rest2

MCRowIds == {r1, r2}
MCBodies == {b1, b2}
MCItems == {i1, i2}
MCRests == {rest1, rest2}

OpenOf(kind) ==
  [event |-> "open", kind |-> kind,
   options |-> IF kind = "decision" THEN 1 ELSE 0,
   rows |-> IF kind = "approval" THEN {r1} ELSE {},
   body |-> b1,
   leftOut |-> IF kind = "briefing" THEN <<i1>> ELSE <<>>,
   rest |-> rest1]

MCOpens == {OpenOf(kind) : kind \in OpenKinds}

(* An amend that changes nothing but what it is told to. *)
AmendOf(reopen, options, rs, body, leftOut, rest) ==
  [event |-> "amend", reopen |-> reopen, options |-> options, rows |-> rs,
   body |-> body, leftOut |-> leftOut, rest |-> rest]

MCAmends ==
  UNION {{AmendOf(reopen, 1, {}, None, <<>>, None),
          AmendOf(reopen, 0, {r2}, None, <<>>, None),
          AmendOf(reopen, 0, {}, b2, <<>>, None),
          AmendOf(reopen, 0, {}, None, <<i2>>, None)} : reopen \in BOOLEAN}
    \cup {AmendOf(FALSE, 0, {}, b1, <<>>, rest2)}

By(author, r) == [author |-> author, rec |-> r]

(* A later build's event, a note from before `reopen`, a drop that saw no  *)
(* amend, and a human's open, which starts a case or is one too many.      *)
MCStored ==
  {By("agent", Foreign),
   By("agent", [event |-> "note", reopen |-> FALSE]),
   By("human", [event |-> "answer", amendSeq |-> 0, drop |-> TRUE,
                choice |-> 0, rows |-> {}, file |-> {}])}
    \cup {By("human", r) : r \in {o \in MCOpens : o.kind = "message"}}

=============================================================================
