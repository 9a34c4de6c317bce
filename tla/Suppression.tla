----------------------------- MODULE Suppression -----------------------------
(* The comment controls a head snapshot adds or keeps                          *)
(* (differential.classify_suppression_delta): "noqa", "type: ignore" and the   *)
(* like, compared with those of the base.  A control is a line of a source     *)
(* whose text is in DOMAIN Control; two texts may hold the same token.         *)
EXTENDS Differential

CONSTANTS Control,       \* text of a line -> [token, members]: what it silences, for whom
          Malformed,     \* text of a line that Python's tokenizer rejects
          PythonPaths    \* paths that end in .py or .pyi

\* _python_sources
python_sources(sources) == Restrict(sources, DOMAIN sources \intersect PythonPaths)

\* The errors of _suppression_occurrences.
manifest_error(sources) ==
  \E path \in DOMAIN python_sources(sources) : Malformed \in Range(sources[path])

\* _tokenize_comments of one source: the lines with a control.
tokenize_comments(source) == {i \in DOMAIN source : source[i] \in DOMAIN Control}

\* _suppression_identity_buckets: the controls of a source with one token.
Bucket(source, token) == {i \in tokenize_comments(source) : Control[source[i]].token = token}

\* Their order, by ordinal, is that of their lines.
ByOrdinal(S) == InOrder(S, {p \in S \X S : p[1] < p[2]})

(***************************************************************************)
(* Correspondence of two controls in a file that changed                    *)
(***************************************************************************)
Cells(base, head) == (Len(base) + 1) * (Len(head) + 1)

\* The pairs whose cost table is computed: equal lines that occur once.  Each
\* needs Cells cells of one budget for the two sources.
Costed(base, head) ==
  {p \in tokenize_comments(base) \X tokenize_comments(head) :
     /\ base[p[1]] = head[p[2]]
     /\ Occurrences(base, base[p[1]]) = 1 /\ Occurrences(head, head[p[2]]) = 1}

\* _reserve_forbidden_correspondence: the first pairs get the budget.  Which come
\* first depends on the spelling of tokens, so it is left open.
Reservations(base, head) ==
  LET room == Min({Cardinality(Costed(base, head)), MaxCells \div Cells(base, head)})
  IN  kSubset(room, Costed(base, head))

\* _suppression_occurrence_continuity: stricter than continuity_decision, for a
\* pair that is not on every optimal alignment is introduced.
occurrence_continuity(base, head, p, reserved) ==
  IF Cells(base, head) > MaxCells THEN "unknown"
  ELSE IF base[p[1]] # head[p[2]] THEN "introduced"
  ELSE IF p \notin reserved THEN "unknown"
  ELSE IF "unchanged" = Decide(Cost(base, head, NoPair), ForcedCost(base, head, p[1], p[2]),
                               Cost(base, head, p))
  THEN "unchanged" ELSE "introduced"

\* _suppression_pair_evidence: equal lines that are alone in their buckets.
LinePairs(B, H, base, head) ==
  {p \in B \X H :
     /\ base[p[1]] = head[p[2]]
     /\ \A i \in B : base[i] = base[p[1]] => i = p[1]
     /\ \A j \in H : head[j] = head[p[2]] => j = p[2]}

\* _suppression_fallback_pairs: the rest in order.
FallbackPairs(B, H, taken) ==
  PairOff(ByOrdinal(B \ {p[1] : p \in taken}), ByOrdinal(H \ {p[2] : p \in taken}))

\* Mutant: controls without a partner are forgotten.
JudgeDropsSurplus(H, taken, fallback, status) ==
  LET pairs == taken \union fallback
      new   == {p[2] : p \in {q \in pairs : status[q] = "introduced"}}
  IN  [introduced  |-> new, quarantined |-> {p[2] : p \in pairs} \ new]

\* What becomes of the head's controls with one token: introduced, or kept in a
\* file that changed.  Controls without a partner are new, unless a pair of the
\* fallback is undecided: then any of them may be the old one.
Judge(H, taken, fallback, status) ==
  LET pairs   == taken \union fallback
      new     == {p[2] : p \in {q \in pairs : status[q] = "introduced"}}
      surplus == H \ {p[2] : p \in pairs}
      unsure  == \E p \in fallback : status[p] = "unknown"
  IN  [introduced  |-> IF unsure THEN new ELSE new \union surplus,
       quarantined |-> ({p[2] : p \in pairs} \ new) \union (IF unsure THEN surplus ELSE {})]

ByPairs(base, head, H, taken, fallback, reserved) ==
  Judge(H, taken, fallback,
         [p \in taken \union fallback |-> occurrence_continuity(base, head, p, reserved)])

WithFallback(base, head, B, H, taken, reserved) ==
  ByPairs(base, head, H, taken, FallbackPairs(B, H, taken), reserved)

\* _classify_changed_suppression_identity
changed_identity(base, head, B, H, reserved) ==
  WithFallback(base, head, B, H, LinePairs(B, H, base, head), reserved)

(***************************************************************************)
(* The delta                                                                *)
(***************************************************************************)
\* The source a head file had in the base, if any.
Former(path, snap, renames) ==
  LET old == BasePath(path, renames)
  IN  IF old \in DOMAIN snap.base_sources THEN snap.base_sources[old] ELSE <<>>

Tokens == {Control[x].token : x \in DOMAIN Control}

\* _introduced_suppression_findings, _append_quarantined_suppressions
Findings(path, head, part) ==
  UNION {{[kind |-> k, path |-> path, line |-> i, members |-> Control[head[i]].members] :
            i \in part[k]} : k \in DOMAIN part}

\* _classify_suppression_identity for every token of one head file: an identical
\* file keeps its controls.
file_findings(path, base, head, reserved) ==
  IF base = head THEN {}
  ELSE UNION {Findings(path, head, changed_identity(base, head, Bucket(base, t), Bucket(head, t),
                                                    reserved)) : t \in Tokens}

\* reserved: head path -> pairs of its lines that got a cost table.
classify_suppression_delta(snap, renames, reserved) ==
  IF manifest_error(snap.base_sources) \/ manifest_error(snap.head_sources)
  THEN [error |-> TRUE, findings |-> {}]
  ELSE [error |-> FALSE,
        findings |-> UNION {file_findings(path, Former(path, snap, renames),
                                          snap.head_sources[path], reserved[path]) :
                              path \in DOMAIN reserved}]
=============================================================================
