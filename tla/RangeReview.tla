------------------------------ MODULE RangeReview ------------------------------
(* The review of a commit range or of the index (run_immutable_scope_review):  *)
(* every member runs on the base and on the head snapshot, the two results are *)
(* compared member by member, the suppressions the head adds or keeps are      *)
(* merged in, and one report is built.  The snapshots are immutable, so the    *)
(* members of a side are one step; what varies is what fails, and where.       *)
EXTENDS ReviewReport, Suppression

CONSTANTS Cases,        \* base and head snapshots with what each member finds in them
          Options,      \* mode, no_tests, platform, pinned (the runtime has the C14 versions)
          Faults        \* per side: members that fail, members without input

VARIABLES
  opt,         \* options of the run and facts of the host
  snap,        \* the snapshots under review (one of Cases)
  pc,
  side,        \* side -> member -> evidence
  found,       \* side -> member -> findings (a sequence)
  combined,    \* member -> merged evidence of the range
  classified,  \* member -> result of classify_findings, or Empty
  labelled,    \* member -> the findings of the report
  report,
  delta,       \* what classify_suppression_delta found
  unsure       \* history: members that were UNKNOWN at some stage

vars == <<opt, snap, pc, side, found, combined, classified, labelled, report, delta, unsure>>

Sides == {"base", "head"}
NoReport == [assurance |-> "none"]
NothingFound == [s \in Sides |-> [m \in Members |-> <<>>]]

\* Sources and findings are sequences, and a finding has a line number.
ASSUME RangeAssumption ==
  \A c \in Cases :
    /\ \A p \in DOMAIN c.base_sources : c.base_sources[p] \in Seq(Range(c.base_sources[p]))
    /\ \A p \in DOMAIN c.head_sources : c.head_sources[p] \in Seq(Range(c.head_sources[p]))
    /\ \A s \in Sides, m \in Members :
         /\ c[s][m] \in Seq(Range(c[s][m]))
         /\ \A f \in Range(c[s][m]) : f.line \in Nat

\* analyzer_versions of the runtime, and the pinned versions the range evidence
\* carries.
Expected == "runtime"
PinnedVersion == IF opt.pinned THEN "runtime" ELSE "c14"

Init ==
  /\ opt \in Options
  /\ snap \in Cases
  /\ pc = "prepare"
  /\ side = [s \in Sides |-> [m \in Members |-> ErrorEvidence(Expected)]]
  /\ found = NothingFound
  /\ combined = [m \in Members |-> ErrorEvidence(Expected)]
  /\ classified = [m \in Members |-> Empty]
  /\ labelled = [m \in Members |-> {}]
  /\ report = NoReport
  /\ delta = [error |-> FALSE, findings |-> {}]
  /\ unsure = {}

(***************************************************************************)
(* Facts of the range                                                       *)
(***************************************************************************)
Removed == DOMAIN snap.base_sources \ DOMAIN snap.head_sources
Added == DOMAIN snap.head_sources \ DOMAIN snap.base_sources

\* Base paths, of those in S, with the blob of the added path.
SameBlob(path, S) == {p \in S : snap.base_sources[p] = snap.head_sources[path]}

\* _rename_disposition: a rename needs one deleted and one added file with the
\* same blob; several candidates are ambiguous.
rename_disposition(path) ==
  LET gone  == SameBlob(path, Removed)
      all   == SameBlob(path, DOMAIN snap.base_sources)
      twins == {q \in Added : snap.head_sources[q] = snap.head_sources[path]}
  IN  IF Cardinality(gone) = 1 /\ Cardinality(twins) = 1 THEN "exact_rename"
      ELSE IF all = {} \/ (gone = {} /\ Cardinality(all) = 1) THEN "other"
      ELSE "ambiguous"

\* Old path -> new path.
exact_renames ==
  LET moved == {path \in Added : rename_disposition(path) = "exact_rename"}
  IN  [old \in UNION {SameBlob(path, Removed) : path \in moved} |->
         CHOOSE path \in moved : old \in SameBlob(path, Removed)]

Ambiguous == \E path \in Added : rename_disposition(path) = "ambiguous"

ReportOptions(catalog) ==
  [mode |-> opt.mode, noTests |-> opt.noTests, platform |-> opt.platform,
   local |-> FALSE, catalog |-> catalog, expected |-> Expected]

\* The project runtime layer, the capsule runtime, both snapshots, the pytest
\* plugins, the two test inventories and the trusted policy must all be there.
Prepare ==
  /\ pc = "prepare"
  /\ \/ pc' = "run" /\ UNCHANGED report
     \/ pc' = "done" /\ report' = unknown_capsule_report(ReportOptions(TRUE))
  /\ UNCHANGED <<opt, snap, side, found, combined, classified, labelled, delta, unsure>>

FindingsIn(seq) == {seq[k] : k \in DOMAIN seq}

\* What the members say of one side; pytest may be switched off.
Disabled(m) == m = Pytest /\ opt.noTests

SideResult(s, fault) ==
  [m \in Members |->
     IF m \in fault.failing \/ (Disabled(m) /\ opt.platform = "darwin")
     THEN ErrorEvidence(Expected)
     ELSE IF m \in fault.idle \/ Disabled(m) THEN NotApplicableEvidence(Expected)
     ELSE RanEvidence(FindingsIn(snap[s][m]), Expected)]

\* _run_bound_snapshot_pair, or the two project snapshots of
\* run_project_scope_pair.  A member that failed may have found something before,
\* or had its evidence taken back afterwards: its findings are kept.
RunSides ==
  /\ pc = "run"
  /\ \E fault \in Faults, kept \in BOOLEAN :
       LET result == [s \in Sides |-> SideResult(s, fault[s])] IN
       /\ side' = result
       /\ found' = [s \in Sides |-> [m \in Members |->
                      IF \/ result[s][m].exec = "ran"
                         \/ kept /\ m \in fault[s].failing /\ ~Disabled(m)
                      THEN snap[s][m] ELSE <<>>]]
       /\ unsure' = {m \in Members : \E s \in Sides : result[s][m].outcome = "UNKNOWN"}
  /\ pc' = "classify"
  /\ UNCHANGED <<opt, snap, combined, classified, labelled, report, delta>>

(***************************************************************************)
(* One member                                                               *)
(***************************************************************************)
Request(m) ==
  [base |-> found["base"][m], head |-> found["head"][m],
   base_sources |-> snap.base_sources, head_sources |-> snap.head_sources,
   renames |-> exact_renames, ambiguous |-> Ambiguous, deleted |-> Removed, added |-> Added]

member_snapshot_is_consistent(s, m) ==
  LET e == side[s][m] IN
  /\ e.outcome # "UNKNOWN"
  /\ IF e.outcome = "NOT_APPLICABLE" THEN found[s][m] = <<>>
     ELSE e.outcome = RanEvidence(FindingsIn(found[s][m]), Expected).outcome

Incomplete(m) == \E s \in Sides : ~member_snapshot_is_consistent(s, m)

Compared(m) == ~Incomplete(m)
               /\ \E s \in Sides : side[s][m].outcome # "NOT_APPLICABLE"

\* _classify_range_member
RangeEvidence(m, result) ==
  IF \A s \in Sides : side[s][m].outcome = "NOT_APPLICABLE"
  THEN NotApplicableEvidence(PinnedVersion)
  ELSE IF Incomplete(m) THEN ErrorEvidence(PinnedVersion)
  ELSE [exec |-> "ran", outcome |-> final_status(result, Request(m)),
        version |-> PinnedVersion, reasons |-> FALSE]

\* _classified_findings: a fixed finding no longer blocks; an incomplete member
\* keeps what it found in the head.  In the files of doubtful, what the base had
\* is not fixed but unknown, and blocks as before
\* (_reclassify_missing_base_findings).
Labelled(m, result, doubtful) ==
  LET req == Request(m)
      final(r, state) == IF state = "fixed" /\ FindingAt(r, req).path \in doubtful
                         THEN "unknown" ELSE state
      as(refs, state) == {[FindingAt(r, req) EXCEPT !.state = final(r, state),
                             !.blocking = @ /\ final(r, state) # "fixed"] : r \in refs}
  IN  IF Compared(m)
      THEN UNION {as(result[state], state) : state \in DOMAIN result}
      ELSE {[f EXCEPT !.state = "unknown"] : f \in FindingsIn(found["head"][m])}

(***************************************************************************)
(* Suppressions                                                             *)
(***************************************************************************)
\* Mutant: the reasons are kept only while the outcome is UNKNOWN.
MergeDropsReasons(e, outcome) ==
  LET merged == IF "FAIL" \in {e.outcome, outcome} THEN "FAIL" ELSE "UNKNOWN"
  IN  [e EXCEPT !.outcome = merged, !.reasons = merged = "UNKNOWN"]

\* _merge_member_outcome: FAIL wins, and whatever was uncertain stays recorded.
merge_member_outcome(e, outcome) ==
  [e EXCEPT !.outcome = IF "FAIL" \in {e.outcome, outcome} THEN "FAIL" ELSE "UNKNOWN",
            !.reasons = @ \/ e.outcome = "UNKNOWN" \/ outcome = "UNKNOWN"]

\* The controls that concern a member; one without input is left alone.
Controls(m, ev, d) ==
  {c \in d.findings : m \in c.members /\ ev[m].outcome # "NOT_APPLICABLE"}

Kinds(m, ev, d) == {c.kind : c \in Controls(m, ev, d)}

SuppressionFinding(c) ==
  [rule |-> c.kind, path |-> c.path, line |-> c.line, blocking |-> TRUE, hidden |-> FALSE,
   state |-> IF c.kind = "introduced" THEN "introduced" ELSE "unknown"]

\* _apply_suppression_delta: sources that could not be read make every member
\* unknown; an introduced control fails its members, one kept in a changed file
\* makes them unknown.
Suppressed(ev, d) ==
  [m \in Members |->
     LET a == IF "introduced" \in Kinds(m, ev, d) THEN merge_member_outcome(ev[m], "FAIL")
              ELSE ev[m]
     IN  IF d.error \/ "quarantined" \in Kinds(m, ev, d)
         THEN merge_member_outcome(a, "UNKNOWN") ELSE a]

\* missing_base_disposition: beside an introduced control, findings that the base
\* had and the head has not may be silenced rather than fixed.
Doubtful(m, ev, d) ==
  IF /\ \E c \in d.findings : c.kind = "introduced"
     /\ \E n \in Members : found["base"][n] # <<>>
  THEN {c.path : c \in Controls(m, ev, d)} ELSE {}

\* For every head file, pairs of lines that may get a cost table.
Reserved ==
  LET paths == DOMAIN python_sources(snap.head_sources)
      of(path) == Reservations(Former(path, snap, exact_renames), snap.head_sources[path])
  IN  {f \in [paths -> UNION {of(path) : path \in paths}] : \A path \in paths : f[path] \in of(path)}

Classify ==
  /\ pc = "classify"
  /\ classified' = [m \in Members |-> IF Compared(m) THEN classify_findings(Request(m)) ELSE Empty]
  /\ \E reserved \in Reserved :
       delta' = classify_suppression_delta(snap, exact_renames, reserved)
  /\ LET plain == [m \in Members |-> RangeEvidence(m, classified'[m])]
     IN  /\ combined' = Suppressed(plain, delta')
         /\ labelled' = [m \in Members |->
                           Labelled(m, classified'[m], Doubtful(m, plain, delta'))
                           \union {SuppressionFinding(c) : c \in Controls(m, plain, delta')}]
         /\ unsure' = unsure \union {m \in Members : \/ delta'.error
                                                    \/ plain[m].outcome = "UNKNOWN"
                                                    \/ "quarantined" \in Kinds(m, plain, delta')}
  /\ pc' = "report"
  /\ UNCHANGED <<opt, snap, side, found, report>>

\* project_range_runtime_identity_mismatch: the sides ran on different runtimes.
BuildReport ==
  /\ pc = "report"
  /\ \E catalog, sameRuntime \in BOOLEAN :
       LET ev == IF sameRuntime THEN combined
                 ELSE [m \in Members |-> [combined[m] EXCEPT !.exec = "error",
                                                             !.outcome = "UNKNOWN"]]
       IN  report' = capsule_report(ev, labelled, ReportOptions(catalog))
  /\ pc' = "done"
  /\ UNCHANGED <<opt, snap, side, found, combined, classified, labelled, delta, unsure>>

Next == Prepare \/ RunSides \/ Classify \/ BuildReport

Spec == Init /\ [][Next]_vars

(***************************************************************************)
(* Properties                                                               *)
(***************************************************************************)
\* The two cost tables and the forbidden diagonal of _continuity_decision decide
\* what they are meant to decide: a pair of lines with the same, unique anchor
\* is unchanged exactly when every longest alignment of the two sources matches
\* it, introduced when none does, and unknown when they disagree.
ContinuityIsExact ==
  pc = "prepare" =>
    \A p \in DOMAIN snap.base_sources, q \in DOMAIN snap.head_sources :
      LET base == snap.base_sources[p]
          head == snap.head_sources[q]
          best == Longest(base, head)
      IN  \A i \in DOMAIN base, j \in DOMAIN head :
            /\ Occurrences(base, base[i]) = 1 /\ Occurrences(head, head[j]) = 1
            /\ line_anchor(base, i) = line_anchor(head, j)
            => continuity_decision(base, head, i, j) =
                 IF \A A \in best : <<i, j>> \in A THEN "unchanged"
                 ELSE IF \A A \in best : <<i, j>> \notin A THEN "introduced"
                 ELSE "unknown"

ComparedMembers == IF pc \in {"report", "done"} THEN {m \in Members : Compared(m)} ELSE {}

\* Whatever the multiplicities, severities and renames, classify_findings puts
\* every finding of the head in exactly one class, never calls a head finding
\* fixed, and drops a base finding only against a head finding of its own or
\* when the head is unknown.
NoFindingVanishes ==
  \A m \in ComparedMembers :
    LET r == classified[m]
        heads == {<<"head", h>> : h \in DOMAIN found["head"][m]}
        bases == {<<"base", b>> : b \in DOMAIN found["base"][m]}
    IN  /\ heads \subseteq r.introduced \union r.unchanged \union r.unknown
        /\ \A x, y \in DOMAIN r : x # y => r[x] \intersect r[y] = {}
        /\ r.fixed \subseteq bases
        /\ \/ Cardinality(bases \ (r.fixed \union r.unknown)) <= Cardinality(heads)
           \/ heads \intersect r.unknown # {}

\* "unchanged" is claimed at most as often as the base backs it: the head
\* findings called unchanged that continue a base finding's line, with its rule
\* and severity, are no more than the base findings like it.  A second finding on
\* an old line is not old.
UnchangedIsBacked ==
  \A m \in ComparedMembers : \A b \in DOMAIN found["base"][m] :
    LET req == Request(m)
        kind(f, renames) == <<Identity(f, renames), f.blocking>>
        backing == {c \in DOMAIN req.base : /\ kind(req.base[c], <<>>) = kind(req.base[b], <<>>)
                                            /\ req.base[c].line = req.base[b].line}
    IN  Cardinality({h \in DOMAIN req.head :
                       /\ <<"head", h>> \in classified[m].unchanged
                       /\ kind(req.head[h], req.renames) = kind(req.base[b], <<>>)
                       /\ continuity(req.base[b], req.head[h], req) = "unchanged"})
        <= Cardinality(backing)

\* The head's controls are judged file by file.  A file that is the same as in
\* the base, under its old or its new name, gives none away; in any other every
\* control is introduced or kept under quarantine, never both.  Of each token no
\* more are kept than the base had, unless lines that occur twice leave it open
\* which are new; and a control whose line every longest alignment carries over
\* is not taken for new.
ControlsAreJudged ==
  pc = "report" /\ ~delta.error =>
    \A path \in DOMAIN python_sources(snap.head_sources) :
      LET base == Former(path, snap, exact_renames)
          head == snap.head_sources[path]
          lines(kind) == {c.line : c \in {d \in delta.findings : d.path = path /\ d.kind = kind}}
          new  == lines("introduced")
          kept == lines("quarantined")
          certain == /\ Cells(base, head) <= MaxCells
                     /\ \A i \in kept : Occurrences(head, head[i]) = 1 /\ Occurrences(base, head[i]) = 1
      IN  /\ new \union kept = IF base = head THEN {} ELSE tokenize_comments(head)
          /\ new \intersect kept = {}
          /\ certain => \A t \in Tokens :
               Cardinality(kept \intersect Bucket(head, t)) <= Cardinality(Bucket(base, t))
          /\ \A p \in Costed(base, head) :
               (\A A \in Longest(base, head) : p \in A) => p[2] \notin new

\* A range review that exits 0 (not in shadow mode) was certain of every member
\* on both sides, found no blocker in the head - new, old or hidden by the
\* filters - and no control of a member that ran in a file that differs from the
\* base.
RangePassIsClean ==
  pc = "done" /\ report.exit = 0 /\ opt.mode # "shadow" =>
    /\ unsure = {}
    /\ \A m \in Members : Blocking(FindingsIn(found["head"][m])) = {}
    /\ \A path \in DOMAIN python_sources(snap.head_sources) :
         LET base == Former(path, snap, exact_renames)
             head == snap.head_sources[path]
         IN  base # head => \A i \in tokenize_comments(head), m \in Members :
               m \in Control[head[i]].members => combined[m].outcome = "NOT_APPLICABLE"

\* Uncertainty about a member - an incomplete side, an ambiguous differential, a
\* suppression kept on a changed file - is still flagged in the report when a
\* blocker of the same or another member makes it FAIL: _merge_member_outcome
\* records the reason beside the outcome.
UncertaintyIsKept == pc = "done" /\ unsure # {} => report.unknown

(***************************************************************************)
(* The invariants behind the properties                                     *)
(***************************************************************************)
\* A member in doubt says so: its outcome is UNKNOWN, or the reason is recorded
\* beside an outcome that a blocker made FAIL.
InDoubt(e) == e.outcome = "UNKNOWN" \/ e.reasons

DoubtInv ==
  /\ pc \in {"prepare", "run", "classify", "report", "done"}
  /\ combined \in [Members -> Evidence]
  /\ unsure \subseteq Members
  /\ pc \in {"prepare", "run"} => unsure = {}
  /\ pc = "classify" => \A m \in unsure : \E s \in Sides : side[s][m].outcome = "UNKNOWN"
  /\ pc = "report" => \A m \in unsure : InDoubt(combined[m])
  /\ UncertaintyIsKept

\* A member that ran on a side found what is there; one that did not, found
\* nothing and is not trusted.
SideInv ==
  /\ snap \in Cases
  /\ \A s \in Sides, m \in Members :
       \/ found[s][m] = <<>> /\ side[s][m] \in {ErrorEvidence(Expected), NotApplicableEvidence(Expected)}
       \/ /\ found[s][m] = snap[s][m]
          /\ side[s][m] \in {ErrorEvidence(Expected), RanEvidence(FindingsIn(snap[s][m]), Expected)}
  /\ pc \in {"prepare", "run"} => \A s \in Sides, m \in Members : side[s][m].outcome = "UNKNOWN"

ClassifiedInv ==
  pc \in {"report", "done"} =>
    \A m \in Members : Compared(m) => classified[m] = classify_findings(Request(m))

\* What a member that is accepted after the suppressions has to show.
Clean(m) ==
  /\ Blocking(FindingsIn(found["head"][m])) = {}
  /\ \A path \in DOMAIN python_sources(snap.head_sources) :
       LET base == Former(path, snap, exact_renames)
           head == snap.head_sources[path]
       IN  base # head => \A i \in tokenize_comments(head) :
             m \in Control[head[i]].members => combined[m].outcome = "NOT_APPLICABLE"

CleanInv ==
  /\ pc = "report" => \A m \in Members : combined[m].outcome \in Accepted => Clean(m)
  /\ RangePassIsClean

RangeInv == DoubtInv /\ SideInv /\ ClassifiedInv /\ CleanInv
=============================================================================
