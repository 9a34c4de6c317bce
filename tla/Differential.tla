----------------------------- MODULE Differential -----------------------------
(* The base/head differential of a range review (run/differential.py): how the *)
(* findings of one member on two snapshots become introduced, fixed, unchanged *)
(* or unknown.  Everything here is a pure operator.                            *)
(*                                                                             *)
(* A source is the sequence of its lines.  A finding is a record with a path,  *)
(* a line, a rule (analyzer, rule and message in the code) and a blocking flag *)
(* (severity and blocking in the code).  The findings of a side are a          *)
(* sequence, so that equal findings stay apart; a result refers to them as     *)
(* <<side, index>>.                                                            *)
EXTENDS Naturals, Sequences, SequencesExt, FiniteSetsExt

CONSTANT MaxCells   \* _MAX_CORRESPONDENCE_CELLS: size of the largest cost table

ASSUME CellsAssumption == MaxCells \in Nat

(***************************************************************************)
(* Line correspondence                                                      *)
(***************************************************************************)
NoPair == <<0, 0>>

\* One more row of the cost table: base line i against every head line.  A cell
\* is reached from above, diagonally, or from the left (here: any cell k of the
\* row, then j - k insertions).
CostRow(row, i, base, head, forbidden) ==
  LET enter(k) == IF k = 0 THEN i
                  ELSE IF forbidden = <<i, k>> THEN row[k] + 1
                  ELSE IF base[i] = head[k] THEN Min({row[k] + 1, row[k - 1]})
                  ELSE Min({row[k] + 1, row[k - 1] + 2})
  IN  [j \in 0..Len(head) |-> Min({enter(k) + (j - k) : k \in 0..j})]

\* _edit_costs: insert and delete cost 1, replace 2, match 0; entry [i][j] is the
\* cost of the first i base and j head lines.
edit_costs(base, head, forbidden) ==
  LET rows[i \in 0..Len(base)] ==
        IF i = 0 THEN [j \in 0..Len(head) |-> j]
        ELSE CostRow(rows[i - 1], i, base, head, forbidden)
  IN  rows

Cost(base, head, forbidden) == edit_costs(base, head, forbidden)[Len(base)][Len(head)]

\* _suffix_edit_costs: entry [i][j] is the cost of the lines after i and j, from the
\* table of the reversed sources.
suffix_edit_costs(base, head) ==
  LET reversed == edit_costs(Reverse(base), Reverse(head), NoPair)
  IN  [i \in 0..Len(base) |-> [j \in 0..Len(head) |-> reversed[Len(base) - i][Len(head) - j]]]

\* The cheapest alignment that matches base line i with head line j.
ForcedCost(base, head, i, j) ==
  edit_costs(base, head, NoPair)[i - 1][j - 1]
  + (IF base[i] = head[j] THEN 0 ELSE 2)
  + suffix_edit_costs(base, head)[i][j]

line_anchor(s, i) ==
  <<IF i > 1 THEN <<s[i - 1]>> ELSE <<>>, s[i], IF i < Len(s) THEN <<s[i + 1]>> ELSE <<>>>>

Occurrences(s, x) == Cardinality({i \in 1..Len(s) : s[i] = x})

\* Mutant: one optimal alignment through the pair is enough.
DecideAnyOptimum(global, forced, without) ==
  IF forced = global THEN "unchanged" ELSE "introduced"

\* global: the cheapest alignment; forced: through the pair; without: around it.
Decide(global, forced, without) ==
  IF forced = global /\ without > global THEN "unchanged"
  ELSE IF forced > global THEN "introduced" ELSE "unknown"

continuity_decision(base, head, i, j) ==
  IF Occurrences(base, base[i]) # 1 \/ Occurrences(head, head[j]) # 1 THEN "unknown"
  ELSE IF line_anchor(base, i) # line_anchor(head, j) THEN "introduced"
  ELSE Decide(Cost(base, head, NoPair), ForcedCost(base, head, i, j), Cost(base, head, <<i, j>>))

\* A source that is missing (not a member of DOMAIN), too large, or shorter
\* than the finding says leaves the pair undecided.
continuity(b, h, req) ==
  IF b.path \notin DOMAIN req.base_sources \/ h.path \notin DOMAIN req.head_sources
  THEN "unknown"
  ELSE LET base == req.base_sources[b.path]
           head == req.head_sources[h.path]
       IN  IF \/ (Len(base) + 1) * (Len(head) + 1) > MaxCells
              \/ b.line \notin 1..Len(base) \/ h.line \notin 1..Len(head)
           THEN "unknown"
           ELSE continuity_decision(base, head, b.line, h.line)

(***************************************************************************)
(* Pairing and classification                                               *)
(***************************************************************************)
\* Findings of the head are filed under the path they had in the base.
BasePath(path, renames) ==
  IF \E old \in DOMAIN renames : renames[old] = path
  THEN CHOOSE old \in DOMAIN renames : renames[old] = path ELSE path

Identity(f, renames) == <<f.rule, BasePath(f.path, renames)>>

\* S as a sequence in the order of the pairs in before: the k-th element has k - 1
\* before it.
InOrder(S, before) ==
  [k \in 1..Cardinality(S) |-> CHOOSE x \in S : Cardinality({y \in S : <<y, x>> \in before}) = k - 1]

\* Indexes of S in the order of _pairing_sort_key: by line, then as reported.
InLineOrder(S, findings) ==
  InOrder(S, {p \in S \X S : \/ findings[p[1]].line < findings[p[2]].line
                             \/ findings[p[1]].line = findings[p[2]].line /\ p[1] < p[2]})

\* continuity of every base finding of B with every head finding of H.
Continuities(B, H, req) == [p \in B \X H |-> continuity(req.base[p[1]], req.head[p[2]], req)]

\* Mutant: a base finding stays available after it was taken.
PairsReuseBase(B, H, same, req) == {p \in B \X H : same[p] = "unchanged"}

\* The left-over findings are paired off in order.
PairOff(base, head) == {<<base[k], head[k]>> : k \in DOMAIN base \intersect DOMAIN head}

\* A head finding with exactly one unchanged candidate takes it.
TakeOne(pairs, h, B, same) ==
  LET candidates == {b \in B : same[<<b, h>>] = "unchanged" /\ \A p \in pairs : p[1] # b}
  IN  IF Cardinality(candidates) = 1 THEN pairs \union (candidates \X {h}) ELSE pairs

\* The pairs after each head finding had its turn.
TakeCertain(H, B, same, req) ==
  LET order == InLineOrder(H, req.head)
      taken[k \in 0..Len(order)] ==
        IF k = 0 THEN {} ELSE TakeOne(taken[k - 1], order[k], B, same)
  IN  taken[Len(order)]

WithRest(pairs, B, H, req) ==
  pairs \union PairOff(InLineOrder(B \ {p[1] : p \in pairs}, req.base),
                       InLineOrder(H \ {p[2] : p \in pairs}, req.head))

continuity_compatible_pairs(B, H, same, req) ==
  WithRest(TakeCertain(H, B, same, req), B, H, req)

Empty == [introduced |-> {}, fixed |-> {}, unchanged |-> {}, unknown |-> {}]

\* The lists of _ClassificationState collect what every part adds to them.
Collected(parts) == [state \in DOMAIN Empty |-> UNION {r[state] : r \in parts}]

RemovedIsUnknown(f, req) ==
  f.path \in DOMAIN req.renames \/ (f.path \in req.deleted /\ req.added # {})

\* Mutant: head findings without a partner are not recorded.
PartitionDropsUnpaired(B, H, pairs, same, req) ==
  LET paired(c) == {<<"head", p[2]>> : p \in {q \in pairs : same[q] = c}}
  IN  [introduced |-> paired("introduced"), unchanged |-> paired("unchanged"),
       fixed |-> {<<"base", b>> : b \in B \ {p[1] : p \in pairs}}, unknown |-> paired("unknown")]

\* The body of _classify_partition, given the pairs.
ClassifyPairs(B, H, pairs, same, req) ==
  LET paired(c) == {<<"head", p[2]>> : p \in {q \in pairs : same[q] = c}}
      removed == B \ {p[1] : p \in pairs}
      lost == {b \in removed : RemovedIsUnknown(req.base[b], req)}
  IN  [introduced |-> paired("introduced")
                      \union {<<"head", h>> : h \in H \ {p[2] : p \in pairs}},
       unchanged  |-> paired("unchanged"),
       fixed      |-> {<<"base", b>> : b \in removed \ lost},
       unknown    |-> paired("unknown") \union {<<"base", b>> : b \in lost}]

PartitionBy(B, H, same, req) ==
  ClassifyPairs(B, H, continuity_compatible_pairs(B, H, same, req), same, req)

classify_partition(B, H, req) == PartitionBy(B, H, Continuities(B, H, req), req)

\* One identity: when both sides have it, they must agree on its severities.
classify_identity(id, req) ==
  LET B == {b \in DOMAIN req.base : Identity(req.base[b], <<>>) = id}
      H == {h \in DOMAIN req.head : Identity(req.head[h], req.renames) = id}
      severities == {req.base[b].blocking : b \in B} \union {req.head[h].blocking : h \in H}
      part(s) == classify_partition({b \in B : req.base[b].blocking = s},
                                    {h \in H : req.head[h].blocking = s}, req)
  IN  IF /\ B # {} /\ H # {}
         /\ {req.base[b].blocking : b \in B} # {req.head[h].blocking : h \in H}
      THEN [Empty EXCEPT !.unknown = {<<"head", h>> : h \in H}]
      ELSE Collected({part(s) : s \in severities})

classify_findings(req) ==
  LET identities == {Identity(f, <<>>) : f \in Range(req.base)}
                    \union {Identity(f, req.renames) : f \in Range(req.head)}
  IN  IF req.ambiguous
      THEN [Empty EXCEPT !.unknown = IF req.head # <<>>
                                     THEN {<<"head", h>> : h \in DOMAIN req.head}
                                     ELSE {<<"base", b>> : b \in DOMAIN req.base}]
      ELSE Collected({classify_identity(id, req) : id \in identities})

FindingAt(ref, req) == IF ref[1] = "base" THEN req.base[ref[2]] ELSE req.head[ref[2]]

\* Mutant: only introduced blockers fail.
StatusForgivesOld(result, req) ==
  IF req.ambiguous \/ result.unknown # {} THEN "UNKNOWN"
  ELSE IF \E ref \in result.introduced : FindingAt(ref, req).blocking THEN "FAIL" ELSE "PASS"

final_status(result, req) ==
  IF req.ambiguous \/ result.unknown # {} THEN "UNKNOWN"
  ELSE IF \E ref \in result.introduced \union result.unchanged : FindingAt(ref, req).blocking
  THEN "FAIL" ELSE "PASS"

(***************************************************************************)
(* Reference: alignments of two sources                                     *)
(***************************************************************************)
\* An alignment matches equal lines and never crosses itself.
Alignments(base, head) ==
  LET equal == {p \in (1..Len(base)) \X (1..Len(head)) : base[p[1]] = head[p[2]]}
  IN  {A \in SUBSET equal : \A p, q \in A : p # q => (p[1] < q[1] /\ p[2] < q[2])
                                                      \/ (q[1] < p[1] /\ q[2] < p[2])}

Longest(base, head) ==
  LET all == Alignments(base, head)
      best == Max({Cardinality(A) : A \in all})
  IN  {A \in all : Cardinality(A) = best}
=============================================================================
