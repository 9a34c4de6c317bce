----------------------------- MODULE ReviewReport -----------------------------
(* The arithmetic of a code-review verdict, as pure operators: how the         *)
(* evidence of the analyzer members becomes an assurance status                *)
(* (aggregate_profile_evidence), how the report validator turns that status    *)
(* into a verdict and an exit code (ReviewReport in findings.py), and what     *)
(* each enforcement mode makes of a finished report (_with_enforcement).       *)
(*                                                                             *)
(* A finding keeps what those steps look at: its line, whether it blocks, and  *)
(* whether the noise, level and focus filters of the run hide it.              *)
EXTENDS Naturals, FiniteSets

CONSTANTS Members,      \* analyzer members of the pr-range-v1 profile
          Pytest        \* the member "targeted-pytest-coverage"

ASSUME MembersAssumption == Pytest \in Members /\ IsFiniteSet(Members)

Outcomes == {"PASS", "FAIL", "UNKNOWN", "NOT_APPLICABLE"}
Executions == {"ran", "error", "not_applicable"}
Accepted == {"PASS", "NOT_APPLICABLE"}

\* "c14": the versions pinned in the module; "runtime": those the selected
\* runtime reports.  reasons: required_unknown_reasons is not empty.
Evidence == [exec: Executions, outcome: Outcomes,
             version: {"c14", "runtime"}, reasons: BOOLEAN]

ErrorEvidence(version) ==
  [exec |-> "error", outcome |-> "UNKNOWN", version |-> version, reasons |-> FALSE]

NotApplicableEvidence(version) ==
  [exec |-> "not_applicable", outcome |-> "NOT_APPLICABLE",
   version |-> version, reasons |-> FALSE]

Blocking(F) == {f \in F : f.blocking}

\* Mutant: the outcome looks at the findings the filters leave.
RanEvidenceFiltered(F, version) ==
  [exec |-> "ran", outcome |-> IF Blocking({f \in F : ~f.hidden}) # {} THEN "FAIL" ELSE "PASS",
   version |-> version, reasons |-> FALSE]

\* What a member that ran says: FAIL exactly when one of its findings blocks.
RanEvidence(F, version) ==
  [exec |-> "ran", outcome |-> IF Blocking(F) # {} THEN "FAIL" ELSE "PASS",
   version |-> version, reasons |-> FALSE]

(***************************************************************************)
(* Evidence to assurance                                                    *)
(***************************************************************************)
TrustedOutcome(e, expected) ==
  IF e.exec = "error" \/ e.version # expected THEN "UNKNOWN" ELSE e.outcome

aggregate_profile_evidence(ev, expected) ==
  LET outcome(m) == TrustedOutcome(ev[m], expected)
      knownFail  == \E m \in Members : outcome(m) = "FAIL"
      unknown    == \E m \in Members : outcome(m) = "UNKNOWN" \/ ev[m].reasons
  IN  [assurance |-> IF knownFail THEN "FAIL"
                     ELSE IF unknown THEN "UNKNOWN" ELSE "PASS",
       unknown   |-> unknown]

(***************************************************************************)
(* The report validator                                                     *)
(***************************************************************************)
VerdictOf(assurance, findings) ==
  CASE assurance = "PASS" -> IF findings = {} THEN "PASS" ELSE "PASS_WITH_ADVISORY"
    [] assurance = "NOT_APPLICABLE" -> "PASS_WITH_ADVISORY"
    [] OTHER -> "FAIL"

\* A report with an assurance status: the evidence overrides whatever verdict
\* and exit code the caller put in.
derive_authoritative_governance(r) ==
  LET unknown == \/ r.unknown
                 \/ r.assurance = "UNKNOWN"
                 \/ /\ r.assurance = "PASS"
                    /\ \E m \in Members : r.evidence[m].outcome \notin Accepted
                 \/ \E m \in Members : \/ r.evidence[m].reasons
                                       \/ r.evidence[m].outcome = "UNKNOWN"
      status  == IF unknown /\ r.assurance \in Accepted THEN "UNKNOWN" ELSE r.assurance
  IN  [r EXCEPT !.unknown = unknown,
                !.assurance = status,
                !.verdict = VerdictOf(status, r.findings),
                !.exit = IF r.mode = "shadow" \/ status \in Accepted THEN 0 ELSE 1]

\* A report without one (the development-host runner): the score decides.
derive_score_governance(r, score) ==
  LET verdict == IF Blocking(r.findings) # {} \/ score = "low" THEN "FAIL"
                 ELSE IF score = "advisory" THEN "PASS_WITH_ADVISORY" ELSE "PASS"
  IN  [r EXCEPT !.verdict = verdict, !.exit = IF verdict = "FAIL" THEN 1 ELSE 0]

\* ReviewReport.model_validate: explicit governance of a report without an
\* assurance status is kept as it is.
Revalidated(r) ==
  IF r.assurance = "NONE" THEN r ELSE derive_authoritative_governance(r)

(***************************************************************************)
(* Building the report of a capsule run                                     *)
(***************************************************************************)
\* The packaged suppression catalogue must activate, or nothing is known.
activated_evidence(ev, o) ==
  IF o.catalog THEN ev
  ELSE [m \in Members |-> [ev[m] EXCEPT !.exec = "error", !.outcome = "UNKNOWN",
                                        !.version = o.expected]]

\* On macOS the pytest member is evidence of a local review only.
native_pytest_evidence(ev, o) ==
  LET e == ev[Pytest]
      refused == \/ e.exec = "not_applicable"
                 \/ o.noTests /\ e.outcome = "PASS"
                 \/ ~o.local /\ e.outcome # "UNKNOWN"
  IN  IF o.platform = "darwin" /\ refused
      THEN [ev EXCEPT ![Pytest].exec = "error", ![Pytest].outcome = "UNKNOWN"]
      ELSE ev

\* The noise, review-level and focus filters.
FilteredFindings(fbm) == {f \in UNION {fbm[m] : m \in Members} : ~f.hidden}

capsule_report(ev, fbm, o) ==
  LET evidence == native_pytest_evidence(activated_evidence(ev, o), o)
      profile  == aggregate_profile_evidence(evidence, o.expected)
  IN  derive_authoritative_governance(
        [assurance |-> profile.assurance, unknown |-> profile.unknown,
         verdict |-> "FAIL", exit |-> 1, findings |-> FilteredFindings(fbm),
         evidence |-> evidence, mode |-> o.mode])

unknown_capsule_report(o) ==
  capsule_report([m \in Members |-> ErrorEvidence(o.expected)],
                 [m \in Members |-> {}], o)

(***************************************************************************)
(* Enforcement                                                              *)
(***************************************************************************)
OnChangedLine(F, changed) == {f \in F : f.line \in changed}

\* A failing member is forgiven when it has blockers, every one of them is
\* still in the (filtered) report, and none is on a changed line.
Forgiven(r, F, changed) ==
  /\ Blocking(F) # {}
  /\ Blocking(F) \subseteq r.findings
  /\ OnChangedLine(Blocking(F), changed) = {}

FailingMembers(r) == {m \in Members : r.evidence[m].outcome = "FAIL"}

\* Whether project_unchanged_member_failures returns a projection at all.
Projectable(r, fbm, changed) ==
  /\ \A m \in FailingMembers(r) : Forgiven(r, fbm[m], changed)
  /\ ~(r.assurance = "FAIL" /\ FailingMembers(r) = {})

project_unchanged_member_failures(r) ==
  [m \in Members |-> IF m \in FailingMembers(r)
                     THEN [r.evidence[m] EXCEPT !.outcome = "PASS"]
                     ELSE r.evidence[m]]

\* The diff could not be read (None in the code; no line has number 0).
Unavailable == {0}

Keep(r, status) == IF r.assurance = "NONE" THEN "NONE" ELSE status

\* Mutant: the exit code is set and the status left alone.
DiffUnavailableExitOnly(r, cached) ==
  IF ~cached THEN r ELSE [r EXCEPT !.verdict = "FAIL", !.exit = 1]

\* A worktree review keeps its verdict, a staged one (cached: the diff bound to
\* the snapshot) fails closed.
DiffUnavailable(r, cached) ==
  IF ~cached THEN r
  ELSE [r EXCEPT !.assurance = Keep(r, "UNKNOWN"), !.unknown = TRUE,
                 !.verdict = "FAIL", !.exit = 1]

\* changed: the changed lines, or Unavailable.
with_changed_enforcement(r, fbm, changed, cached) ==
  LET blocked == Blocking(OnChangedLine(r.findings, changed))
      tagged == [r EXCEPT !.mode = "changed"]
  IN  IF r.assurance = "UNKNOWN" \/ r.unknown THEN tagged
      ELSE IF changed = Unavailable
      THEN DiffUnavailable(tagged, cached)
      ELSE IF blocked # {}
      THEN Revalidated([tagged EXCEPT !.assurance = Keep(r, "FAIL"),
                                      !.verdict = "FAIL", !.exit = 1])
      ELSE IF r.assurance # "NONE" /\ ~Projectable(r, fbm, changed)
      THEN Revalidated(tagged)
      ELSE Revalidated([tagged EXCEPT
             !.assurance = Keep(r, "PASS"),
             !.verdict = IF r.findings = {} THEN "PASS" ELSE "PASS_WITH_ADVISORY",
             !.exit = 0,
             !.evidence = IF r.assurance = "NONE" THEN @
                          ELSE project_unchanged_member_failures(r)])

with_enforcement(r, mode, fbm, changed, cached) ==
  CASE mode = "full"    -> [r EXCEPT !.mode = "full"]
    [] mode = "shadow"  -> [r EXCEPT !.mode = "shadow", !.exit = 0]
    [] mode = "changed" -> with_changed_enforcement(r, fbm, changed, cached)

Modes == {"full", "shadow", "changed"}
=============================================================================
