---------------------------- MODULE MCRangeReview ----------------------------
(* Two members.  Pairs of short files with insertions, deletions, duplicates,  *)
(* swapped blocks and controls, one of them too large for MaxCells and one with *)
(* two controls and cells for one; the findings of lint are lists of at most    *)
(* two, with equal and mixed severities.  Then files that are renamed, copied   *)
(* or deleted.                                                                  *)
EXTENDS RangeReview

CONSTANTS lint, pytest

MCMembers == {lint, pytest}
MCPaths == {"e", "f", "g"}

\* k and l are lines with the same token, v is a pragma for coverage.
MCControl ==
  LET silence(t, m) == [token |-> t, members |-> {m}]
  IN  [k |-> silence("noqa", lint), l |-> silence("noqa", lint), v |-> silence("no cover", pytest)]

\* The filters hide what does not block, and all of rule s.
Finding(rule, path, n, blocking) ==
  [rule |-> rule, path |-> path, line |-> n, blocking |-> blocking,
   hidden |-> ~blocking \/ rule = "s", state |-> "new"]

\* Findings of one rule on the given lines.
On(path, places) == [k \in DOMAIN places |-> Finding("r", path, places[k][1], places[k][2])]

One == {<<>>, <<<<1, TRUE>>>>, <<<<2, FALSE>>>>}
Places == One \union {<<<<1, TRUE>>, <<1, TRUE>>>>, <<<<2, FALSE>>, <<1, FALSE>>>>,
                      <<<<1, TRUE>>, <<1, FALSE>>>>}

AB == <<"a", "b">>
ABC == <<"a", "b", "c">>
PAN == <<"p", "a", "n", "q", "b", "m">>

SourcePairs ==
  {<<AB, AB>>, <<AB, <<"x", "a", "b">>>>, <<AB, <<"b", "a">>>>, <<<<"a">>, <<"a", "a">>>>,
   <<ABC, <<"a", "b", "x", "c">>>>, <<ABC, <<"b", "c">>>>, <<ABC, <<"c", "a", "b">>>>,
   <<ABC, <<"a", "c", "b">>>>, <<PAN, <<"q", "b", "m", "p", "a", "n">>>>,
   <<PAN, <<"b", "m", "p", "a", "n", "q">>>>,
   <<ABC, <<"a", "b", "c", "d", "e", "f", "g", "h", "i", "j", "k", "l">>>>}

\* Added, kept, moved, changed, repeated, swapped; over the budget; malformed.
ControlPairs ==
  {<<<<"a">>, <<"a", "k">>>>, <<<<"a", "k">>, <<"a", "k">>>>, <<<<"a", "k">>, <<"x", "a", "k">>>>,
   <<<<"a", "k">>, <<"a", "l">>>>, <<<<"k", "a">>, <<"l", "a", "k">>>>,
   <<<<"k", "a", "k">>, <<"k", "k", "k">>>>, <<<<"a", "k">>, <<"k", "a", "k">>>>,
   <<<<"k", "a", "b", "l">>, <<"l", "k", "a", "b">>>>, <<<<"a", "v">>, <<"v">>>>,
   <<<<"k", "a", "v", "b", "c", "d">>, <<"k", "a", "v", "b", "c", "x">>>>,
   <<<<"a", "!">>, AB>>, <<AB, <<"k", "!">>>>}

Snapshots(base, head, inBase, inHead, tests) ==
  [base_sources |-> base, head_sources |-> head,
   base |-> [m \in MCMembers |-> IF m = lint THEN inBase ELSE <<>>],
   head |-> [m \in MCMembers |-> IF m = lint THEN inHead ELSE tests]]

SameFile ==
  {Snapshots("f" :> p[1], "f" :> p[2], On("f", x), On("f", y), <<>>) :
     p \in SourcePairs, x \in Places, y \in Places}
  \union {Snapshots("f" :> p[1], "f" :> p[2], On("f", x), On("f", y), <<>>) :
            p \in ControlPairs, x \in One, y \in One}

\* Renamed; renamed with an edit; the source or the target of the rename not
\* unique; copied; deleted.
Moved ==
  LET fe == "f" :> AB @@ "e" :> AB
      moves == {<<"f" :> AB, "g" :> AB>>, <<"f" :> AB, "g" :> <<"x", "a", "b">>>>,
                <<fe, "g" :> AB>>, <<"f" :> AB, "g" :> AB @@ "e" :> AB>>,
                <<"f" :> AB, "f" :> AB @@ "g" :> AB>>, <<fe, fe @@ "g" :> AB>>,
                <<"f" :> <<"a", "k">>, "g" :> <<"a", "k">>>>}
  IN  {Snapshots(p[1], p[2], On("f", x), On("g", y), <<>>) : p \in moves, x \in One, y \in One}
      \union {Snapshots("f" :> AB @@ "e" :> <<"a">>, "e" :> <<"a">>, On("f", x), <<>>, tests) :
                x \in One, tests \in {<<>>, On("e", <<<<1, TRUE>>>>)}}

\* Two rules on one line, each with its own multiplicity, and a blocker that is
\* hidden.
Mixed ==
  LET some == {<<Finding("s", "f", 1, TRUE)>>,
               <<Finding("r", "f", 1, TRUE), Finding("s", "f", 1, TRUE), Finding("s", "f", 1, TRUE)>>,
               <<Finding("s", "f", 1, TRUE), Finding("r", "f", 2, TRUE), Finding("r", "f", 1, TRUE)>>,
               <<Finding("s", "f", 2, FALSE), Finding("r", "f", 2, TRUE)>>}
  IN  {Snapshots("f" :> p[1], "f" :> p[2], x, y, <<>>) :
         p \in {<<AB, AB>>, <<AB, <<"b", "a">>>>, <<ABC, <<"a", "b", "x", "c">>>>},
         x \in some, y \in some}

MCCases == SameFile \union Moved \union Mixed

MCOptions ==
  {[mode |-> "changed", noTests |-> n, platform |-> "linux", pinned |-> TRUE] : n \in BOOLEAN}
  \union {[mode |-> "shadow", noTests |-> FALSE, platform |-> "linux", pinned |-> TRUE],
          [mode |-> "full", noTests |-> FALSE, platform |-> "darwin", pinned |-> FALSE]}

Fine == [failing |-> {}, idle |-> {}]
Fails(m) == [failing |-> {m}, idle |-> {}]
Idle(m) == [failing |-> {}, idle |-> {m}]
Pair(b, h) == [base |-> b, head |-> h]

MCFaults == {Pair(Fine, Fine), Pair(Fails(lint), Fine), Pair(Fine, Fails(lint)),
             Pair(Fine, Fails(pytest)), Pair(Idle(lint), Fine), Pair(Idle(lint), Idle(lint))}
=============================================================================
