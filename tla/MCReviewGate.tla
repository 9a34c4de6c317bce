----------------------------- MODULE MCReviewGate -----------------------------
(* Two members, two lines, four contents and two HEADs.  The contents have a   *)
(* blocker that the filters hide, alone or beside one they show, or two        *)
(* members that find one; each HEAD makes other lines the changed ones.        *)
EXTENDS ReviewGate

CONSTANTS lint, pytest

Finding(n, blocking, hidden) == [line |-> n, blocking |-> blocking, hidden |-> hidden]

MCMembers == {lint, pytest}
MCDependent == {pytest}
MCLines == {1, 2}
MCContents == {"clean", "buried", "hidden", "both"}
MCHeads == {"old", "new"}

MCFindings ==
  [clean  |-> [m \in MCMembers |-> IF m = lint THEN {Finding(1, FALSE, FALSE)} ELSE {}],
   buried |-> [m \in MCMembers |-> IF m = lint THEN {Finding(2, TRUE, TRUE)} ELSE {}],
   hidden |-> [m \in MCMembers |-> IF m = lint THEN {Finding(1, TRUE, TRUE), Finding(2, TRUE, FALSE)}
                                               ELSE {}],
   both   |-> [m \in MCMembers |-> {Finding(2, TRUE, FALSE)}]]

MCChangedLines ==
  [clean  |-> [old |-> {1}, new |-> {}],
   buried |-> [old |-> {1}, new |-> {2}],
   hidden |-> [old |-> {1}, new |-> {2}],
   both   |-> [old |-> {1}, new |-> {1, 2}]]
=============================================================================
