--------------------------- MODULE ReviewGateProofs ---------------------------
(* For every set of members, trees and findings, and however often the         *)
(* developer edits: the four properties of a local review.                     *)
(*                                                                             *)
(* The first part is about the pure operators of ReviewReport.  The validator  *)
(* is idempotent (GovernedTwice); CapsuleReport and CapsuleEnforced say what   *)
(* the evidence of the members implies for the report of a capsule run, and    *)
(* HostEnforced what the shown findings imply for one of the development host. *)
(* The second part is about the steps: GateInv ties what was read to what was  *)
(* captured, the findings to what was read, the evidence to the findings and   *)
(* to the failures, and the report to all of them.                             *)
EXTENDS ReviewGate, TLAPS

-----------------------------------------------------------------------------
(* The arithmetic of a report, for every set of members.                     *)

Statuses == Outcomes \cup {"NONE"}
AllVerdicts == {"PASS", "PASS_WITH_ADVISORY", "FAIL"}

\* The reports that the review builds.
ReportSet ==
  [assurance : Statuses, unknown : BOOLEAN, verdict : AllVerdicts, exit : {0, 1},
   findings : SUBSET AnyFinding, evidence : [Members -> Evidence], mode : Modes]

\* A report from its fields.
Fields(a, u, v, x, f, e, m) ==
  [assurance |-> a, unknown |-> u, verdict |-> v, exit |-> x, findings |-> f, evidence |-> e,
   mode |-> m]

\* A report is its fields.
LEMMA ReportFields ==
    ASSUME NEW r \in ReportSet
    PROVE  r = Fields(r.assurance, r.unknown, r.verdict, r.exit, r.findings, r.evidence, r.mode)
  BY DEF ReportSet, Fields

\* What the evidence of a report leaves in doubt (derive_authoritative_governance).
Doubt(r) ==
  \/ r.unknown
  \/ r.assurance = "UNKNOWN"
  \/ r.assurance = "PASS" /\ \E m \in Members : r.evidence[m].outcome \notin Accepted
  \/ \E m \in Members : r.evidence[m].reasons \/ r.evidence[m].outcome = "UNKNOWN"

Status(r) == IF Doubt(r) /\ r.assurance \in Accepted THEN "UNKNOWN" ELSE r.assurance

LEMMA StatusType ==
    ASSUME NEW r \in ReportSet
    PROVE  /\ Doubt(r) \in BOOLEAN /\ Status(r) \in Statuses
           /\ VerdictOf(Status(r), r.findings) \in AllVerdicts
  <1>1. Doubt(r) \in BOOLEAN
    BY DEF Doubt
  <1>2. Status(r) \in Statuses
    BY DEF Status, Statuses, ReportSet, Outcomes
  <1> QED
    BY <1>1, <1>2 DEF VerdictOf, AllVerdicts

\* The validator, field by field.
ExitOf(r) == IF r.mode = "shadow" \/ Status(r) \in Accepted THEN 0 ELSE 1
Governed(r) ==
  Fields(Status(r), Doubt(r), VerdictOf(Status(r), r.findings), ExitOf(r), r.findings, r.evidence,
         r.mode)

LEMMA Governance ==
    ASSUME NEW r \in ReportSet
    PROVE  derive_authoritative_governance(r) = Governed(r) /\ Governed(r) \in ReportSet
  <1>1. derive_authoritative_governance(r) =
          [r EXCEPT !.unknown = Doubt(r), !.assurance = Status(r),
                    !.verdict = VerdictOf(Status(r), r.findings), !.exit = ExitOf(r)]
    BY Zenon DEF derive_authoritative_governance, Status, Doubt, ExitOf
  <1>2. ExitOf(r) \in {0, 1}
    BY DEF ExitOf
  <1>3. derive_authoritative_governance(r) = Governed(r)
    <2>1. PICK u \in BOOLEAN, a \in Statuses, v \in AllVerdicts, x \in {0, 1} :
             /\ u = Doubt(r) /\ a = Status(r)
             /\ v = VerdictOf(Status(r), r.findings) /\ x = ExitOf(r)
      BY <1>2, StatusType
    <2>2. [r EXCEPT !.unknown = u, !.assurance = a, !.verdict = v, !.exit = x]
          = Fields(a, u, v, x, r.findings, r.evidence, r.mode)
      <3> DEFINE q == [r EXCEPT !.unknown = u, !.assurance = a, !.verdict = v, !.exit = x]
      <3>1. /\ q.unknown = u /\ q.assurance = a /\ q.verdict = v /\ q.exit = x
            /\ q.findings = r.findings /\ q.evidence = r.evidence /\ q.mode = r.mode
            /\ q \in ReportSet
        BY DEF ReportSet
      <3>2. q = Fields(a, u, v, x, r.findings, r.evidence, r.mode)
        <4> HIDE DEF q
        <4> QED
          BY <3>1, ReportFields
      <3> QED
        BY <3>2
    <2> QED
      BY <1>1, <2>1, <2>2, Zenon DEF Governed
  <1>4. Governed(r) \in ReportSet
    BY <1>2, StatusType DEF Governed, Fields, ReportSet
  <1> QED
    BY <1>3, <1>4

\* Validating a report a second time changes nothing.
LEMMA GovernedTwice ==
    ASSUME NEW r \in ReportSet
    PROVE  Governed(Governed(r)) = Governed(r)
  <1> DEFINE g == Governed(r)
  <1>1. /\ g.assurance = Status(r) /\ g.findings = r.findings
        /\ g.evidence = r.evidence /\ g.mode = r.mode /\ g.unknown = Doubt(r)
    BY DEF Governed, Fields
  <1> HIDE DEF g
  <1>3. Doubt(g) = Doubt(r)
    BY <1>1 DEF Doubt, Status, Accepted
  <1>4. Status(g) = Status(r)
    BY <1>1, <1>3 DEF Status, Accepted
  <1>5. Governed(g) = Governed(r)
    BY <1>1, <1>3, <1>4 DEF Governed, ExitOf
  <1> QED
    BY <1>5 DEF g

\* A report that reading leaves alone.
Stable(r) == r \in ReportSet /\ Revalidated(r) = r

LEMMA RevalidatedIsStable ==
    ASSUME NEW r \in ReportSet
    PROVE  /\ Stable(Revalidated(r))
           /\ r.assurance = "NONE" => Revalidated(r) = r
           /\ r.assurance # "NONE" => Revalidated(r) = Governed(r) /\ Status(r) # "NONE"
  <1>1. CASE r.assurance = "NONE"
    BY <1>1 DEF Stable, Revalidated
  <1>2. CASE r.assurance # "NONE"
    <2>1. Revalidated(r) = Governed(r) /\ Governed(r) \in ReportSet
      BY <1>2, Governance DEF Revalidated
    <2>2. Status(r) # "NONE" /\ Governed(r).assurance = Status(r)
      BY <1>2 DEF Status, Governed, Fields
    <2>3. Revalidated(Governed(r)) = Governed(Governed(r))
      BY <2>1, <2>2, Governance DEF Revalidated
    <2> QED
      BY <1>2, <2>1, <2>2, <2>3, GovernedTwice DEF Stable
  <1> QED
    BY <1>1, <1>2

-----------------------------------------------------------------------------
(* The report of a capsule run (capsule_report).                              *)

OptionSet ==
  [mode : Modes, noTests : BOOLEAN, platform : {"linux", "darwin"}, local : BOOLEAN,
   catalog : BOOLEAN, expected : {"runtime"}]

FindingsByMember == [Members -> SUBSET AnyFinding]

\* A member that failed or is unknown is so after the catalogue and the macOS
\* rules too.
LEMMA EvidenceKeepsFailure ==
    ASSUME NEW e \in [Members -> Evidence], NEW o \in OptionSet
    PROVE  LET E == native_pytest_evidence(activated_evidence(e, o), o)
           IN  /\ E \in [Members -> Evidence]
               /\ \A m \in Members : e[m].outcome = "UNKNOWN" => E[m].outcome = "UNKNOWN"
               /\ \A m \in Members : e[m].outcome \notin Accepted => E[m].outcome \notin Accepted
  <1> DEFINE A == activated_evidence(e, o)
             E == native_pytest_evidence(A, o)
  <1>1. ASSUME NEW x \in Evidence, NEW v \in {"c14", "runtime"}
        PROVE  /\ [x EXCEPT !.exec = "error", !.outcome = "UNKNOWN", !.version = v] \in Evidence
               /\ [x EXCEPT !.exec = "error", !.outcome = "UNKNOWN", !.version = v].outcome = "UNKNOWN"
               /\ [x EXCEPT !.exec = "error", !.outcome = "UNKNOWN"] \in Evidence
               /\ [x EXCEPT !.exec = "error", !.outcome = "UNKNOWN"].outcome = "UNKNOWN"
    BY DEF Evidence, Executions, Outcomes
  <1>2. /\ A \in [Members -> Evidence]
        /\ \A m \in Members : A[m] = e[m] \/ A[m].outcome = "UNKNOWN"
    <2>1. CASE o.catalog
      BY <2>1 DEF activated_evidence
    <2>2. CASE ~o.catalog
      <3>1. A = [m \in Members |-> [e[m] EXCEPT !.exec = "error", !.outcome = "UNKNOWN",
                                               !.version = o.expected]]
        BY <2>2 DEF activated_evidence
      <3>2. o.expected \in {"c14", "runtime"}
        BY DEF OptionSet
      <3> HIDE DEF A
      <3> QED
        BY <1>1, <3>1, <3>2
    <2> QED
      BY <2>1, <2>2
  <1> HIDE DEF A
  <1>3. /\ E \in [Members -> Evidence]
        /\ \A m \in Members : E[m] = A[m] \/ E[m].outcome = "UNKNOWN"
    <2>1. CASE E = A
      BY <1>2, <2>1
    <2>2. CASE E # A
      <3>1. E = [A EXCEPT ![Pytest].exec = "error", ![Pytest].outcome = "UNKNOWN"]
        BY <2>2 DEF native_pytest_evidence
      <3>2. E = [A EXCEPT ![Pytest] = [A[Pytest] EXCEPT !.exec = "error", !.outcome = "UNKNOWN"]]
        BY <1>2, <3>1, MembersAssumption
      <3> HIDE DEF E
      <3> QED
        BY <1>1, <1>2, <3>2, MembersAssumption
    <2> QED
      BY <2>1, <2>2
  <1> QED
    BY <1>2, <1>3 DEF Accepted, A

\* What a report of a capsule run says, from the evidence e and the findings F:
\* it is stable, a failure or a doubt about one member shows in it, and it exits
\* 0 only in shadow mode or with an accepted status.
Capsule(r, e, F, mode) ==
  /\ Stable(r) /\ r.assurance # "NONE" /\ r.mode = mode
  /\ r.findings = FilteredFindings(F)
  /\ r.exit = IF mode = "shadow" \/ r.assurance \in Accepted THEN 0 ELSE 1
  /\ r.unknown => r.assurance \notin Accepted
  /\ \A m \in Members : e[m].outcome = "UNKNOWN" => r.unknown
  /\ \A m \in Members : e[m].outcome \notin Accepted =>
        r.assurance \notin Accepted /\ (r.unknown \/ r.evidence[m].outcome = "FAIL")

LEMMA CapsuleReport ==
    ASSUME NEW e \in [Members -> Evidence], NEW F \in FindingsByMember, NEW o \in OptionSet
    PROVE  Capsule(capsule_report(e, F, o), e, F, o.mode)
  <1> DEFINE E == native_pytest_evidence(activated_evidence(e, o), o)
             P == aggregate_profile_evidence(E, o.expected)
             q == Fields(P.assurance, P.unknown, "FAIL", 1, FilteredFindings(F), E, o.mode)
             r == Governed(q)
  <1>1. /\ E \in [Members -> Evidence]
        /\ \A m \in Members : e[m].outcome = "UNKNOWN" => E[m].outcome = "UNKNOWN"
        /\ \A m \in Members : e[m].outcome \notin Accepted => E[m].outcome \notin Accepted
    BY EvidenceKeepsFailure
  <1> HIDE DEF E
  <1>2. P.assurance \in {"PASS", "FAIL", "UNKNOWN"} /\ P.unknown \in BOOLEAN
    BY DEF aggregate_profile_evidence
  <1>3. \A m \in Members : E[m].outcome \notin Accepted => P.assurance # "PASS"
    BY <1>1 DEF aggregate_profile_evidence, TrustedOutcome, Accepted, Evidence, Outcomes
  <1>4. FilteredFindings(F) \in SUBSET AnyFinding
    BY DEF FilteredFindings, FindingsByMember
  <1> HIDE DEF P
  <1>5. q \in ReportSet
    BY <1>1, <1>2, <1>4 DEF Fields, ReportSet, Statuses, Outcomes, AllVerdicts, OptionSet
  <1>6. /\ q.assurance = P.assurance /\ q.evidence = E /\ q.mode = o.mode
        /\ q.findings = FilteredFindings(F) /\ q.unknown = P.unknown
    BY DEF Fields
  <1>7. capsule_report(e, F, o) = derive_authoritative_governance(q)
    BY Zenon DEF capsule_report, Fields, P, E
  <1> HIDE DEF q
  <1>8. capsule_report(e, F, o) = r /\ Stable(r)
    BY <1>2, <1>5, <1>6, <1>7, Governance, RevalidatedIsStable DEF Revalidated
  <1>9. /\ r.assurance = Status(q) /\ r.unknown = Doubt(q) /\ r.exit = ExitOf(q)
        /\ r.findings = q.findings /\ r.evidence = E /\ r.mode = o.mode
    BY <1>6 DEF Governed, Fields
  <1> HIDE DEF r
  <1>10. r.assurance # "NONE" /\ (r.unknown => r.assurance \notin Accepted)
    BY <1>2, <1>6, <1>9 DEF Status, Accepted
  <1>11. ASSUME NEW m \in Members, e[m].outcome = "UNKNOWN" PROVE r.unknown
    BY <1>1, <1>6, <1>9, <1>11 DEF Doubt
  <1>12. ASSUME NEW m \in Members, e[m].outcome \notin Accepted
         PROVE  r.assurance \notin Accepted /\ (r.unknown \/ r.evidence[m].outcome = "FAIL")
    <2>1. E[m].outcome \notin Accepted /\ P.assurance # "PASS"
      BY <1>1, <1>3, <1>12
    <2>2. r.assurance \notin Accepted
      BY <1>2, <1>6, <1>9, <2>1 DEF Status, Accepted
    <2>3. E[m].outcome \in {"FAIL", "UNKNOWN"}
      BY <1>1, <2>1 DEF Evidence, Outcomes, Accepted
    <2>4. E[m].outcome = "UNKNOWN" => r.unknown
      BY <1>6, <1>9 DEF Doubt
    <2> QED
      BY <1>9, <2>2, <2>3, <2>4
  <1> QED
    BY <1>6, <1>8, <1>9, <1>10, <1>11, <1>12 DEF Capsule, ExitOf

-----------------------------------------------------------------------------
(* Enforcement (with_enforcement).                                            *)

\* The edits of with_changed_enforcement, field by field.
AsBlocked(r) ==
  [r EXCEPT !.assurance = Keep(r, "FAIL"), !.verdict = "FAIL", !.exit = 1]
AsProjected(r) ==
  [r EXCEPT !.assurance = Keep(r, "PASS"),
            !.verdict = IF r.findings = {} THEN "PASS" ELSE "PASS_WITH_ADVISORY",
            !.exit = 0,
            !.evidence = IF r.assurance = "NONE" THEN @ ELSE project_unchanged_member_failures(r)]

LEMMA KeepType ==
    ASSUME NEW r \in ReportSet, NEW s \in {"PASS", "FAIL", "UNKNOWN"}
    PROVE  Keep(r, s) \in Statuses /\ (Keep(r, s) = "NONE" <=> r.assurance = "NONE")
  BY DEF Keep, Statuses, Outcomes

LEMMA BlockedFields ==
    ASSUME NEW r \in ReportSet
    PROVE  /\ AsBlocked(r) \in ReportSet /\ AsBlocked(r).assurance = Keep(r, "FAIL")
           /\ AsBlocked(r).exit = 1 /\ AsBlocked(r).mode = r.mode
  <1>1. PICK a \in Statuses : a = Keep(r, "FAIL")
    BY KeepType
  <1>2. LET q == [r EXCEPT !.assurance = a, !.verdict = "FAIL", !.exit = 1]
        IN  q \in ReportSet /\ q.assurance = a /\ q.exit = 1 /\ q.mode = r.mode
    BY DEF ReportSet, AllVerdicts
  <1> QED
    BY <1>1, <1>2 DEF AsBlocked

LEMMA ProjectedFields ==
    ASSUME NEW r \in ReportSet
    PROVE  AsProjected(r) \in ReportSet /\ AsProjected(r).assurance = Keep(r, "PASS")
           /\ AsProjected(r).exit = 0
  <1>1. PICK a \in Statuses : a = Keep(r, "PASS")
    BY KeepType
  <1>2. PICK v \in AllVerdicts : v = IF r.findings = {} THEN "PASS" ELSE "PASS_WITH_ADVISORY"
    BY DEF AllVerdicts
  <1>3. project_unchanged_member_failures(r) \in [Members -> Evidence]
    <2>1. ASSUME NEW x \in Evidence PROVE [x EXCEPT !.outcome = "PASS"] \in Evidence
      BY DEF Evidence, Outcomes
    <2>2. r.evidence \in [Members -> Evidence]
      BY DEF ReportSet
    <2> QED
      BY <2>1, <2>2 DEF project_unchanged_member_failures
  <1>4. PICK e \in [Members -> Evidence] :
          e = IF r.assurance = "NONE" THEN r.evidence ELSE project_unchanged_member_failures(r)
    BY <1>3 DEF ReportSet
  <1>5. LET q == [r EXCEPT !.assurance = a, !.verdict = v, !.exit = 0, !.evidence = e]
        IN  q \in ReportSet /\ q.assurance = a /\ q.exit = 0
    BY DEF ReportSet, AllVerdicts
  <1>6. AsProjected(r) = [r EXCEPT !.assurance = a, !.verdict = v, !.exit = 0, !.evidence = e]
    BY <1>1, <1>2, <1>4, Zenon DEF AsProjected
  <1> QED
    BY <1>1, <1>5, <1>6

HasBlocked(r, c) == Blocking(OnChangedLine(r.findings, c)) # {}

\* The five ways through with_changed_enforcement.
LEMMA ChangedCases ==
    ASSUME NEW r \in ReportSet, r.mode = "changed", NEW F, NEW c, NEW cached
    PROVE  LET s == with_changed_enforcement(r, F, c, cached)
               known == ~(r.assurance = "UNKNOWN" \/ r.unknown)
               blocked == HasBlocked(r, c)
               stays == r.assurance # "NONE" /\ ~Projectable(r, F, c)
           IN  /\ ~known => s = r
               /\ known /\ c = Unavailable => s = DiffUnavailable(r, cached)
               /\ known /\ c # Unavailable /\ blocked => s = Revalidated(AsBlocked(r))
               /\ known /\ c # Unavailable /\ ~blocked /\ stays => s = Revalidated(r)
               /\ known /\ c # Unavailable /\ ~blocked /\ ~stays => s = Revalidated(AsProjected(r))
  <1> DEFINE tag == [r EXCEPT !.mode = "changed"]
             s == with_changed_enforcement(r, F, c, cached)
             known == ~(r.assurance = "UNKNOWN" \/ r.unknown)
             blocked == HasBlocked(r, c)
             stays == r.assurance # "NONE" /\ ~Projectable(r, F, c)
             hit == [tag EXCEPT !.assurance = Keep(r, "FAIL"), !.verdict = "FAIL", !.exit = 1]
             ok == [tag EXCEPT !.assurance = Keep(r, "PASS"),
                       !.verdict = IF r.findings = {} THEN "PASS" ELSE "PASS_WITH_ADVISORY",
                       !.exit = 0,
                       !.evidence = IF r.assurance = "NONE" THEN @
                                    ELSE project_unchanged_member_failures(r)]
  <1>1. tag = r
    BY DEF ReportSet
  <1>2. s = IF r.assurance = "UNKNOWN" \/ r.unknown THEN tag
            ELSE IF c = Unavailable THEN DiffUnavailable(tag, cached)
            ELSE IF blocked THEN Revalidated(hit)
            ELSE IF stays THEN Revalidated(tag) ELSE Revalidated(ok)
    BY Zenon DEF with_changed_enforcement, HasBlocked
  <1> HIDE DEF tag
  <1>3. hit = AsBlocked(r) /\ ok = AsProjected(r)
    BY <1>1, Zenon DEF AsBlocked, AsProjected
  <1> HIDE DEF s, blocked, stays, hit, ok
  <1>4. /\ ~known => s = r
        /\ known /\ c = Unavailable => s = DiffUnavailable(r, cached)
        /\ known /\ c # Unavailable /\ blocked => s = Revalidated(AsBlocked(r))
        /\ known /\ c # Unavailable /\ ~blocked /\ stays => s = Revalidated(r)
        /\ known /\ c # Unavailable /\ ~blocked /\ ~stays => s = Revalidated(AsProjected(r))
    BY <1>1, <1>2, <1>3
  <1> QED
    BY <1>4, Zenon DEF s, blocked, stays

\* A staged review whose diff is missing fails, and reading keeps that.
LEMMA DiffFields ==
    ASSUME NEW r \in ReportSet, r.mode = "changed", Stable(r), NEW cached \in BOOLEAN
    PROVE  LET d == DiffUnavailable(r, cached)
           IN  /\ Stable(d) /\ (d.assurance = "NONE" <=> r.assurance = "NONE")
               /\ d.exit = IF cached THEN 1 ELSE r.exit
  <1>1. CASE ~cached
    BY <1>1 DEF DiffUnavailable
  <1>2. CASE cached
    <2>1. PICK a \in Statuses : a = Keep(r, "UNKNOWN")
      BY KeepType
    <2> DEFINE d == [r EXCEPT !.assurance = a, !.unknown = TRUE, !.verdict = "FAIL", !.exit = 1]
    <2>2. DiffUnavailable(r, cached) = d
      BY <1>2, <2>1, Zenon DEF DiffUnavailable
    <2>3. /\ d \in ReportSet /\ d.assurance = a /\ d.unknown = TRUE /\ d.verdict = "FAIL"
          /\ d.exit = 1 /\ d.mode = "changed"
      BY DEF ReportSet, AllVerdicts
    <2> HIDE DEF d
    <2>4. a = "NONE" \/ a = "UNKNOWN"
      BY <2>1 DEF Keep
    <2>5. CASE a = "NONE"
      BY <1>2, <2>1, <2>2, <2>3, <2>5 DEF Stable, Revalidated, Keep
    <2>6. CASE a = "UNKNOWN"
      <3>1. Doubt(d) = TRUE /\ Status(d) = "UNKNOWN" /\ VerdictOf("UNKNOWN", d.findings) = "FAIL"
        BY <2>3, <2>6 DEF Doubt, Status, Accepted, VerdictOf
      <3>2. ExitOf(d) = 1
        BY <2>3, <3>1 DEF ExitOf, Accepted
      <3>3. Governed(d) = d
        BY <2>3, <2>6, <3>1, <3>2, ReportFields DEF Governed
      <3>4. Stable(d)
        BY <2>3, <2>6, <3>3, Governance DEF Stable, Revalidated
      <3> QED
        BY <1>2, <2>1, <2>2, <2>3, <2>6, <3>4 DEF Keep
    <2> QED
      BY <2>4, <2>5, <2>6
  <1> QED
    BY <1>1, <1>2

\* What enforcement makes of the report of a capsule run.
LEMMA CapsuleEnforced ==
    ASSUME NEW mode \in Modes, NEW e \in [Members -> Evidence], NEW F \in FindingsByMember,
           NEW r, Capsule(r, e, F, mode), NEW c, NEW cached \in BOOLEAN
    PROVE  LET s == with_enforcement(r, mode, F, c, cached)
           IN  /\ Stable(s) /\ s.assurance # "NONE"
               /\ r.unknown => s.assurance \notin Accepted /\ (mode # "shadow" => s.exit = 1)
               /\ mode = "full" /\ s.exit = 0 => \A m \in Members : e[m].outcome \in Accepted
               /\ mode = "changed" /\ s.exit = 0 =>
                     \A m \in Members : e[m].outcome \notin Accepted =>
                        c # Unavailable /\ OnChangedLine(Blocking(F[m]), c) = {}
  <1> DEFINE s == with_enforcement(r, mode, F, c, cached)
  <1>0. r \in ReportSet /\ r.mode = mode /\ Stable(r) /\ r.assurance # "NONE"
    BY DEF Capsule, Stable
  <1>1. CASE mode = "full"
    <2>1. [r EXCEPT !.mode = "full"] = r
      BY <1>0, <1>1 DEF ReportSet
    <2>2. s = r
      BY <1>1, <2>1 DEF with_enforcement
    <2> HIDE DEF s
    <2> QED
      BY <1>1, <2>2 DEF Capsule, s
  <1>2. CASE mode = "shadow"
    <2>0. r.exit = 0
      BY <1>2 DEF Capsule
    <2>1. [r EXCEPT !.mode = "shadow", !.exit = 0] = r
      <3> DEFINE q == [r EXCEPT !.mode = "shadow", !.exit = 0]
      <3>1. /\ q \in ReportSet /\ q.assurance = r.assurance /\ q.unknown = r.unknown
            /\ q.verdict = r.verdict /\ q.exit = r.exit /\ q.findings = r.findings
            /\ q.evidence = r.evidence /\ q.mode = r.mode
        BY <1>0, <1>2, <2>0 DEF ReportSet, Modes
      <3> HIDE DEF q
      <3>2. q = r
        BY <1>0, <3>1, ReportFields
      <3> QED
        BY <3>2 DEF q
    <2>2. s = r
      BY <1>2, <2>1, Zenon DEF with_enforcement
    <2> HIDE DEF s
    <2> QED
      BY <1>2, <2>2 DEF Capsule, s
  <1>3. CASE mode = "changed"
    <2>1. s = with_changed_enforcement(r, F, c, cached)
      BY <1>3, Zenon DEF with_enforcement
    <2>2. r.exit = 0 => \A m \in Members : e[m].outcome \in Accepted
      BY <1>3 DEF Capsule
    <2>3. CASE r.assurance = "UNKNOWN" \/ r.unknown
      <3>1. s = r
        BY <1>0, <1>3, <2>1, <2>3, ChangedCases
      <3>2. r.assurance \notin Accepted
        BY <2>3 DEF Capsule, Accepted
      <3> HIDE DEF s
      <3>3. r.exit = 1
        BY <1>3, <3>2 DEF Capsule
      <3> QED
        BY <1>0, <1>3, <3>1, <3>2, <3>3 DEF s
    <2>4. CASE ~(r.assurance = "UNKNOWN" \/ r.unknown) /\ c = Unavailable
      <3>1. s = DiffUnavailable(r, cached)
        BY <1>0, <1>3, <2>1, <2>4, ChangedCases
      <3> HIDE DEF s
      <3>2. /\ Stable(s) /\ s.assurance # "NONE"
            /\ s.exit = IF cached THEN 1 ELSE r.exit
        BY <1>0, <1>3, <3>1, DiffFields
      <3> QED
        BY <1>3, <2>2, <2>4, <3>2 DEF s
    <2>5. CASE /\ ~(r.assurance = "UNKNOWN" \/ r.unknown) /\ c # Unavailable
               /\ HasBlocked(r, c)
      <3>1. s = Revalidated(AsBlocked(r))
        BY <1>0, <1>3, <2>1, <2>5, ChangedCases
      <3> HIDE DEF s
      <3>2. /\ AsBlocked(r) \in ReportSet /\ AsBlocked(r).assurance = "FAIL"
            /\ AsBlocked(r).mode = "changed"
        BY <1>0, <1>3, BlockedFields DEF Keep
      <3>3. /\ Stable(s) /\ s = Governed(AsBlocked(r))
        BY <3>1, <3>2, RevalidatedIsStable
      <3>4. s.assurance = "FAIL" /\ s.exit = 1
        BY <3>2, <3>3 DEF Governed, Fields, Status, ExitOf, Accepted
      <3> QED
        BY <1>3, <2>5, <3>3, <3>4 DEF s
    <2>6. CASE /\ ~(r.assurance = "UNKNOWN" \/ r.unknown) /\ c # Unavailable
               /\ ~HasBlocked(r, c) /\ ~Projectable(r, F, c)
      <3>1. s = r
        BY <1>0, <1>3, <2>1, <2>6, ChangedCases DEF Stable
      <3> HIDE DEF s
      <3> QED
        BY <1>0, <1>3, <2>2, <2>6, <3>1 DEF s
    <2>7. CASE /\ ~(r.assurance = "UNKNOWN" \/ r.unknown) /\ c # Unavailable
               /\ ~HasBlocked(r, c) /\ Projectable(r, F, c)
      <3>1. s = Revalidated(AsProjected(r))
        BY <1>0, <1>3, <2>1, <2>7, ChangedCases
      <3> HIDE DEF s
      <3>2. AsProjected(r) \in ReportSet /\ AsProjected(r).assurance = "PASS"
        BY <1>0, ProjectedFields DEF Keep
      <3>3. Stable(s) /\ s = Governed(AsProjected(r)) /\ Status(AsProjected(r)) # "NONE"
        BY <3>1, <3>2, RevalidatedIsStable
      <3>4. s.assurance # "NONE"
        BY <3>3 DEF Governed, Fields
      <3>5. ASSUME NEW m \in Members, e[m].outcome \notin Accepted
            PROVE  OnChangedLine(Blocking(F[m]), c) = {}
        <4>1. m \in FailingMembers(r)
          BY <2>7, <3>5 DEF Capsule, FailingMembers
        <4> QED
          BY <2>7, <4>1 DEF Projectable, Forgiven
      <3> QED
        BY <1>3, <2>7, <3>3, <3>4, <3>5 DEF s
    <2> QED
      BY <2>3, <2>4, <2>5, <2>6, <2>7
  <1> QED
    BY <1>1, <1>2, <1>3 DEF Modes

\* A report of the development host before it is enforced.
HostLike(r, mode) ==
  /\ r.assurance = "NONE" /\ r.unknown = FALSE /\ r.mode = mode
  /\ r.exit = 0 => Blocking(r.findings) = {}

\* What enforcement makes of the report of the development host: one that exits
\* 0 in changed mode has no blocker among the findings it shows, not on a changed
\* line and, without a diff, nowhere.
LEMMA HostEnforced ==
    ASSUME NEW mode \in Modes, NEW F, NEW c, NEW cached \in BOOLEAN,
           NEW r \in ReportSet, HostLike(r, mode)
    PROVE  LET s == with_enforcement(r, mode, F, c, cached)
           IN  /\ s.assurance = "NONE"
               /\ mode = "changed" /\ s.exit = 0 =>
                     \A f \in Blocking(r.findings) : ~(c = Unavailable \/ f.line \in c)
  <1> DEFINE s == with_enforcement(r, mode, F, c, cached)
  <1> USE DEF HostLike
  <1>1. CASE mode = "full"
    BY <1>1 DEF with_enforcement, ReportSet
  <1>2. CASE mode = "shadow"
    <2>1. [r EXCEPT !.mode = "shadow", !.exit = 0].assurance = r.assurance
      BY DEF ReportSet
    <2>2. s = [r EXCEPT !.mode = "shadow", !.exit = 0]
      BY <1>2, Zenon DEF with_enforcement
    <2>3. s.assurance = "NONE"
      BY <2>1, <2>2, Zenon
    <2> QED
      BY <1>2, <2>3
  <1>3. CASE mode = "changed"
    <2>1. s = with_changed_enforcement(r, F, c, cached)
      BY <1>3, Zenon DEF with_enforcement
    <2>2. Stable(r) /\ ~(r.assurance = "UNKNOWN" \/ r.unknown)
      BY DEF Stable, Revalidated
    <2> HIDE DEF s
    <2>3. CASE c = Unavailable
      <3>1. s = DiffUnavailable(r, cached)
        BY <1>3, <2>1, <2>2, <2>3, ChangedCases
      <3>2. s.assurance = "NONE" /\ s.exit = IF cached THEN 1 ELSE r.exit
        BY <1>3, <2>2, <3>1, DiffFields
      <3> QED
        BY <3>2 DEF s
    <2>4. CASE c # Unavailable /\ HasBlocked(r, c)
      <3>1. s = Revalidated(AsBlocked(r))
        BY <1>3, <2>1, <2>2, <2>4, ChangedCases
      <3>2. AsBlocked(r).assurance = "NONE" /\ AsBlocked(r).exit = 1
        BY BlockedFields DEF Keep
      <3>3. s = AsBlocked(r)
        BY <3>1, <3>2 DEF Revalidated
      <3> QED
        BY <3>2, <3>3 DEF s
    <2>5. CASE c # Unavailable /\ ~HasBlocked(r, c)
      <3>1. s = Revalidated(AsProjected(r))
        BY <1>3, <2>1, <2>2, <2>5, ChangedCases
      <3>2. AsProjected(r).assurance = "NONE"
        BY ProjectedFields DEF Keep
      <3>3. s = AsProjected(r)
        BY <3>1, <3>2 DEF Revalidated
      <3>4. \A f \in Blocking(r.findings) : f.line \notin c
        BY <2>5 DEF HasBlocked, Blocking, OnChangedLine
      <3> QED
        BY <2>5, <3>2, <3>3, <3>4 DEF s
    <2> QED
      BY <2>3, <2>4, <2>5
  <1> QED
    BY <1>1, <1>2, <1>3 DEF Modes

LEMMA OptionsType ==
    ASSUME opt \in Options, NEW catalog \in BOOLEAN
    PROVE  ReportOptions(catalog) \in OptionSet /\ ReportOptions(catalog).mode = opt.mode
           /\ opt.mode \in Modes
  BY DEF Options, ReportOptions, OptionSet

\* A report that says nothing is known never passes, and reading it keeps that.
LEMMA UnknownFacts ==
    ASSUME opt \in Options
    PROVE  /\ Revalidated(UnknownReport) = UnknownReport
           /\ UnknownReport.assurance \notin Accepted \union {"NONE"}
           /\ opt.mode # "shadow" => UnknownReport.exit = 1
  <1> DEFINE o == ReportOptions(TRUE)
             e == [m \in Members |-> ErrorEvidence(o.expected)]
             r == capsule_report(e, NoFindings, o)
  <1>1. o \in OptionSet /\ o.mode = opt.mode /\ opt.mode \in Modes /\ o.expected = "runtime"
    BY OptionsType DEF ReportOptions
  <1> HIDE DEF o
  <1>2. e \in [Members -> Evidence] /\ \A m \in Members : e[m].outcome = "UNKNOWN"
    BY <1>1 DEF ErrorEvidence, Evidence, Executions, Outcomes
  <1>3. NoFindings \in FindingsByMember
    BY DEF NoFindings, FindingsByMember
  <1>4. UnknownReport = with_enforcement(r, opt.mode, NoFindings, Unavailable, FALSE)
    BY Zenon DEF UnknownReport, unknown_capsule_report, NoFindings, o
  <1> HIDE DEF e
  <1>5. Capsule(r, e, NoFindings, opt.mode)
    BY <1>1, <1>2, <1>3, CapsuleReport
  <1> HIDE DEF r
  <1>6. r.unknown
    BY <1>2, <1>5, MembersAssumption DEF Capsule
  <1> QED
    <2> DEFINE s == with_enforcement(r, opt.mode, NoFindings, Unavailable, FALSE)
    <2>0. FALSE \in BOOLEAN /\ opt.mode \in Modes
      BY <1>1
    <2>1. Stable(s) /\ s.assurance # "NONE" /\ s.assurance \notin Accepted
          /\ (opt.mode # "shadow" => s.exit = 1)
      BY <2>0, <1>2, <1>3, <1>5, <1>6, CapsuleEnforced, Zenon
    <2> HIDE DEF s
    <2> QED
      BY <1>4, <2>1 DEF Stable, s

-----------------------------------------------------------------------------
(* The steps in which a member runs, or the run starts over.                  *)

FindingsIn(tree, m) == IF tree = NoTree THEN {} ELSE FindingsOf[tree.src][m]

\* One member ran, on the tree it reads or on none.
RanOne ==
  /\ pc \in Running \union {"host"}
  /\ UNCHANGED <<opt, world, staged, returned, pc, frozen, copy, lines, report>>
  /\ \E m \in todo, e \in Evidence, tree \in {NoTree, Source} :
       /\ Ran(m, e, FindingsIn(tree, m), tree)
       /\ Blocking(FindingsIn(tree, m)) # {} => e.outcome \notin Accepted
       /\ broken' = broken \/ e.outcome = "UNKNOWN"
       /\ pc = "host" => e.outcome = "UNKNOWN"

\* The run starts over and some members stay unknown.
StartedOver ==
  /\ UNCHANGED <<opt, world, staged, returned, frozen, copy, lines, report>>
  /\ pc \in Running \union {"copy", "recopy", "verify"}
  /\ pc' \in {"untested", "recopy", "unprepared"}
  /\ \E M \in SUBSET Members : M # {} /\ Restart(pc', M)

LEMMA CurrentInTodo ==
    ASSUME todo # {}
    PROVE  Current \in todo
  <1>1. \E m \in todo : m # Pytest \/ todo = {Pytest}
    OBVIOUS
  <1> QED
    BY <1>1 DEF Current

LEMMA NoTreeIsNone == NoTree \notin Trees
  <1>1. ASSUME NEW t \in Trees PROVE t.src \in Contents
    BY DEF Trees, Tree
  <1> QED
    BY <1>1, GateAssumption

LEMMA NowInTrees ==
    ASSUME TypeInv
    PROVE  Now \in Trees /\ Tree(staged, world.head) \in Trees
  BY DEF TypeInv, Worlds, Now, Trees

LEMMA SourceInTrees ==
    ASSUME TypeInv, FrozenInv
    PROVE  Source \in Trees /\ Source # NoTree
  <1>1. frozen.kind = "snapshot" => frozen.tree \in Trees
    BY DEF FrozenInv, NotRepository
  <1>2. Now \in Trees /\ copy \in Trees \union {NoTree}
    BY NowInTrees DEF TypeInv
  <1> QED
    BY <1>1, <1>2, NoTreeIsNone DEF Source

LEMMA EvidenceTypes ==
    ASSUME NEW F
    PROVE  /\ RanEvidence(F, "runtime") \in Evidence
           /\ NotApplicableEvidence("runtime") \in Evidence
           /\ ErrorEvidence("runtime") \in Evidence /\ ErrorEvidence("runtime").outcome = "UNKNOWN"
           /\ DisabledEvidence \in Evidence
           /\ Blocking(F) # {} => RanEvidence(F, "runtime").outcome = "FAIL"
  BY DEF RanEvidence, NotApplicableEvidence, ErrorEvidence, DisabledEvidence, Evidence, Executions,
         Outcomes

LEMMA RunsOne ==
    ASSUME TypeInv, FrozenInv, FindingsInv, RunMember \/ MemberFails \/ HostMember
    PROVE  RanOne
  <1> DEFINE m == Current
             F == FindingsOf[Source.src][m]
  <1>1. m \in todo /\ pc \in Running \union {"host"} /\ m \in Members
        /\ UNCHANGED <<opt, world, staged, returned, pc, frozen, copy, lines, report>>
    BY CurrentInTodo DEF RunMember, MemberFails, HostMember, TypeInv, repo
  <1>2. Source # NoTree /\ FindingsIn(Source, m) = F /\ FindingsIn(NoTree, m) = {}
    BY SourceInTrees DEF FindingsIn
  <1>3. /\ RanEvidence(F, "runtime") \in Evidence
        /\ NotApplicableEvidence("runtime") \in Evidence
        /\ ErrorEvidence("runtime") \in Evidence /\ ErrorEvidence("runtime").outcome = "UNKNOWN"
        /\ DisabledEvidence \in Evidence
        /\ Blocking(F) # {} => RanEvidence(F, "runtime").outcome = "FAIL"
        /\ ev[m] \in Evidence
    BY <1>1, EvidenceTypes DEF TypeInv
  <1>4. Blocking({}) = {}
    BY DEF Blocking
  <1> HIDE DEF m, F
  <1>5. CASE RunMember
    <2>1. \/ Ran(m, RanEvidence(F, "runtime"), F, Source)
          \/ Ran(m, DisabledEvidence, {}, NoTree)
          \/ Ran(m, NotApplicableEvidence("runtime"), {}, NoTree)
      BY <1>5, Zenon DEF RunMember, m, F
    <2>2. broken' = broken /\ pc # "host"
      BY <1>5 DEF RunMember, Running
    <2> QED
      BY <1>1, <1>2, <1>3, <1>4, <2>1, <2>2 DEF RanOne, Accepted
  <1>6. CASE MemberFails
    <2>1. \/ Ran(m, ErrorEvidence("runtime"), {}, NoTree)
          \/ Ran(m, ErrorEvidence("runtime"), F, Source)
      BY <1>6, Zenon DEF MemberFails, m, F
    <2> QED
      BY <1>1, <1>2, <1>3, <2>1 DEF RanOne, Accepted
  <1>7. CASE HostMember
    <2>1. Ran(m, ev[m], {}, NoTree) \/ Ran(m, ev[m], F, Source)
      BY <1>7, Zenon DEF HostMember, m, F
    <2>2. broken' = broken /\ ev[m].outcome = "UNKNOWN"
      BY <1>1, <1>7 DEF HostMember, FindingsInv
    <2> QED
      BY <1>1, <1>2, <1>3, <2>1, <2>2 DEF RanOne, Accepted
  <1> QED
    BY <1>5, <1>6, <1>7

\* MemberRaises and CopySource, apart from where they start the run over.
Raises == MemberRaises /\ pc' = "raised"
Copies ==
  /\ pc \in {"copy", "recopy"}
  /\ copy' = IF frozen.kind = "snapshot" THEN frozen.tree ELSE Now
  /\ pc' = IF pc = "copy" THEN "private" ELSE "unprepared"
  /\ UNCHANGED <<repo, todo, ev, fbm, seen, broken, frozen, lines, report>>

LEMMA StartsOver ==
    ASSUME MemberRaises \/ CopySource \/ VerifyRaises
    PROVE  StartedOver \/ Raises \/ Copies
  <1>0. Dependent \in SUBSET Members /\ Dependent # {}
        /\ {Pytest} \in SUBSET Members /\ Members \in SUBSET Members /\ Members # {}
    BY GateAssumption, MembersAssumption
  <1>1. CASE MemberRaises
    <2>1. \/ pc = "run" /\ Restart("untested", {Pytest})
          \/ pc = "private" /\ Restart("recopy", Dependent)
          \/ pc = "unprepared" /\ Restart("unprepared", Members)
          \/ pc' = "raised"
      BY <1>1 DEF MemberRaises
    <2>2. UNCHANGED <<opt, world, staged, returned, frozen, copy, lines, report>> /\ pc \in Running
      BY <1>1 DEF MemberRaises, repo
    <2>3. CASE pc' = "raised"
      BY <1>1, <2>3 DEF Raises
    <2>4. CASE pc = "run" /\ Restart("untested", {Pytest})
      <3>1. pc' = "untested"
        BY <2>4 DEF Restart
      <3> QED
        BY <1>0, <2>2, <2>4, <3>1 DEF StartedOver
    <2>5. CASE pc = "private" /\ Restart("recopy", Dependent)
      <3>1. pc' = "recopy"
        BY <2>5 DEF Restart
      <3> QED
        BY <1>0, <2>2, <2>5, <3>1 DEF StartedOver
    <2>6. CASE pc = "unprepared" /\ Restart("unprepared", Members)
      <3>1. pc' = "unprepared"
        BY <2>6 DEF Restart
      <3> QED
        BY <1>0, <2>2, <2>6, <3>1 DEF StartedOver
    <2> QED
      BY <2>1, <2>3, <2>4, <2>5, <2>6
  <1>2. CASE CopySource
    <2>1. \/ Copies
          \/ pc = "copy" /\ Restart("recopy", Dependent) /\ UNCHANGED copy
          \/ pc = "recopy" /\ Restart("unprepared", Members) /\ UNCHANGED copy
      BY <1>2 DEF CopySource, Copies
    <2>2. UNCHANGED <<opt, world, staged, returned, frozen, lines, report>>
      BY <1>2 DEF CopySource, repo
    <2>3. CASE pc = "copy" /\ Restart("recopy", Dependent) /\ UNCHANGED copy
      <3>1. pc' = "recopy"
        BY <2>3 DEF Restart
      <3> QED
        BY <1>0, <2>2, <2>3, <3>1 DEF StartedOver
    <2>4. CASE pc = "recopy" /\ Restart("unprepared", Members) /\ UNCHANGED copy
      <3>1. pc' = "unprepared"
        BY <2>4 DEF Restart
      <3> QED
        BY <1>0, <2>2, <2>4, <3>1 DEF StartedOver
    <2> QED
      BY <2>1, <2>3, <2>4
  <1>3. CASE VerifyRaises
    <2>1. pc' = "recopy" /\ Restart("recopy", Dependent)
      BY <1>3 DEF VerifyRaises, Restart
    <2>2. UNCHANGED <<opt, world, staged, returned, frozen, copy, lines, report>> /\ pc = "verify"
      BY <1>3 DEF VerifyRaises, repo
    <2> QED
      BY <1>0, <2>1, <2>2 DEF StartedOver
  <1> QED
    BY <1>1, <1>2, <1>3

\* The steps that leave what the members said alone.
Aside ==
  \/ Developer \/ PrepareRuntime \/ Capture \/ CaptureFails \/ Copies \/ Raises
  \/ MembersDone \/ Finalize \/ Enforce \/ Recheck \/ HostMutates \/ HostEnforce
  \/ HostEnforceStaged

\* A step of the developer leaves the review alone; one that brings the captured
\* identity back is noted.
LEMMA DeveloperSteps ==
    ASSUME TypeInv, FrozenInv, Developer
    PROVE  /\ UNCHANGED <<opt, pc, todo, frozen, copy, ev, fbm, lines, report, seen, broken>>
           /\ ~Over
           /\ world' \in Worlds /\ staged' \in Contents /\ returned' \in BOOLEAN
           /\ world'.v <= world'.moves /\ world'.without.v <= world'.moves
           /\ world.moves <= world'.moves
           /\ \/ UNCHANGED <<world, returned>>
              \/ frozen.kind = "identity" /\ frozen.id = Identity' => returned'
  <1>1. CASE Stage
    BY <1>1 DEF Stage, review, TypeInv, FrozenInv, Worlds
  <1>2. /\ world.moves \in Nat /\ world.v \in 0 .. world.moves /\ world.src \in Contents
        /\ world.head \in Heads /\ world.without \in Worktrees
        /\ world.without.v \in 0 .. world.moves /\ world.without.src \in Contents
    BY DEF TypeInv, FrozenInv, Worlds, Worktrees
  <1> DEFINE Later == 0 .. world.moves + 1
  <1>3. ASSUME NEW tree, NEW without, NEW head \in Heads, Moves(tree, without, head),
               tree.v \in Later, tree.src \in Contents,
               without \in Worktrees, without.v \in Later
        PROVE  /\ UNCHANGED <<opt, pc, todo, frozen, copy, ev, fbm, lines, report, seen, broken>>
               /\ ~Over
               /\ world' \in Worlds /\ staged' \in Contents /\ returned' \in BOOLEAN
               /\ world'.v <= world'.moves /\ world'.without.v <= world'.moves
               /\ world.moves <= world'.moves
               /\ frozen.kind = "identity" /\ frozen.id = Identity' => returned'
    <2>1. returned' = (returned \/ (frozen.kind = "identity" /\ frozen.id = Identity'))
      BY <1>3 DEF Moves
    <2>2. returned' \in BOOLEAN /\ (frozen.kind = "identity" /\ frozen.id = Identity' => returned')
      BY <2>1, Zenon
    <2>3. world' = [v |-> tree.v, src |-> tree.src, without |-> without, head |-> head,
                    moves |-> world.moves + 1]
      BY <1>3 DEF Moves
    <2>4. world' \in Worlds
      BY <1>2, <1>3, <2>3 DEF Worlds
    <2>5. /\ world'.v <= world'.moves /\ world'.without.v <= world'.moves
          /\ world.moves <= world'.moves
      BY <1>2, <1>3, <2>3
    <2> QED
      BY <1>3, <2>2, <2>4, <2>5 DEF Moves, review, TypeInv
  <1>4. ASSUME NEW src \in Contents
        PROVE  Fresh(src) \in Worktrees /\ Fresh(src).v \in Later /\ Fresh(src).src \in Contents
    BY <1>2 DEF Fresh, Worktrees
  <1>5. CASE Edit
    <2>1. PICK src \in Contents : Moves(Fresh(src), Fresh(src), world.head)
      BY <1>5 DEF Edit
    <2> QED
      BY <1>2, <1>3, <1>4, <2>1
  <1>6. CASE CreatePath
    <2>1. PICK src \in Contents : Moves(Fresh(src), world.without, world.head)
      BY <1>6 DEF CreatePath
    <2> QED
      BY <1>2, <1>3, <1>4, <2>1
  <1>7. CASE RemovePath
    BY <1>2, <1>3, <1>7 DEF RemovePath
  <1>8. CASE MoveHead
    <2>1. PICK head \in Heads : Moves(world, world.without, head)
      BY <1>8 DEF MoveHead
    <2> QED
      BY <1>2, <1>3, <2>1
  <1> QED
    BY <1>1, <1>5, <1>6, <1>7, <1>8 DEF Developer

LEMMA NextCases ==
    ASSUME TypeInv, FrozenInv, FindingsInv, Next
    PROVE  Aside \/ RanOne \/ StartedOver \/ PlanInventory \/ VerifyInputs
  BY RunsOne, StartsOver DEF Next, Review, Aside

LEMMA AsideKeeps ==
    ASSUME TypeInv, FrozenInv, Aside
    PROVE  UNCHANGED <<opt, todo, ev, fbm, seen, broken>>
  <1>0. CASE Developer
    BY <1>0, DeveloperSteps
  <1>1. CASE PrepareRuntime \/ Capture \/ CaptureFails \/ Copies
    BY <1>1 DEF PrepareRuntime, Capture, CaptureFails, Copies, repo
  <1>2. CASE Raises
    <2>1. CASE \E M : \E w \in {"untested", "recopy", "unprepared"} : Restart(w, M)
      BY <1>2, <2>1 DEF Raises, Restart
    <2>2. CASE UNCHANGED <<todo, ev, fbm, seen, broken>>
      BY <1>2, <2>2 DEF Raises, MemberRaises, repo
    <2> QED
      BY <1>2, <2>1, <2>2 DEF Raises, MemberRaises
  <1>3. CASE MembersDone \/ Finalize \/ Enforce \/ Recheck
    BY <1>3 DEF MembersDone, Finalize, Enforce, Recheck, repo
  <1>4. CASE HostMutates \/ HostEnforce \/ HostEnforceStaged
    BY <1>4 DEF HostMutates, HostEnforce, HostEnforceStaged, repo
  <1> QED
    BY <1>0, <1>1, <1>2, <1>3, <1>4 DEF Aside

LEMMA TypeStep ==
    ASSUME TypeInv, FrozenInv, FindingsInv, [Next]_vars
    PROVE  TypeInv'
  <1> SUFFICES ASSUME Next PROVE TypeInv'
    BY DEF TypeInv, vars, repo, review
  <1>1. CASE Aside
    <2>1. UNCHANGED <<opt, todo, ev, fbm, seen>>
      BY <1>1, AsideKeeps
    <2>2. world' \in Worlds /\ staged' \in Contents /\ returned' \in BOOLEAN
      <3>1. CASE Developer
        BY <3>1, DeveloperSteps
      <3>2. CASE UNCHANGED <<world, staged, returned>>
        BY <3>2 DEF TypeInv
      <3> QED
        BY <1>1, <3>1, <3>2
        DEF Aside, PrepareRuntime, Capture, CaptureFails, Copies, Raises, MemberRaises, MembersDone,
            Finalize, Enforce, Recheck, HostMutates, HostEnforce, HostEnforceStaged, repo
    <2>3. copy' \in Trees \union {NoTree}
      <3>1. CASE Copies
        <4>1. frozen.kind = "snapshot" => frozen.tree \in Trees
          BY DEF FrozenInv, NotRepository
        <4> QED
          BY <3>1, <4>1, NowInTrees DEF Copies
      <3>2. CASE UNCHANGED copy
        BY <3>2 DEF TypeInv
      <3>3. CASE Developer
        BY <3>2, <3>3, DeveloperSteps
      <3> QED
        BY <1>1, <3>1, <3>2, <3>3
        DEF Aside, PrepareRuntime, Capture, CaptureFails, Raises, MemberRaises,
            MembersDone, Finalize, Enforce, Recheck, HostMutates, HostEnforce, HostEnforceStaged
    <2> QED
      BY <2>1, <2>2, <2>3 DEF TypeInv
  <1>2. CASE RanOne
    <2>1. PICK m \in todo, e \in Evidence, tree \in {NoTree, Source} : Ran(m, e, FindingsIn(tree, m), tree)
      BY <1>2 DEF RanOne
    <2>2. tree \in Trees \union {NoTree} /\ m \in Members
      BY SourceInTrees DEF TypeInv
    <2>3. FindingsIn(tree, m) \in SUBSET AnyFinding
      BY <2>2, GateAssumption DEF FindingsIn, AnyFinding, Trees, Tree
    <2>4. UNCHANGED <<opt, world, staged, returned, copy>>
      BY <1>2 DEF RanOne
    <2> QED
      BY <2>1, <2>2, <2>3, <2>4 DEF Ran, TypeInv
  <1>3. CASE StartedOver
    <2>1. PICK M \in SUBSET Members : Restart(pc', M)
      BY <1>3 DEF StartedOver
    <2>2. NotRun \in [Members -> Evidence] /\ NoFindings \in [Members -> SUBSET AnyFinding]
      BY EvidenceTypes DEF NotRun, NoFindings
    <2> QED
      BY <1>3, <2>1, <2>2 DEF StartedOver, Restart, TypeInv
  <1>4. CASE PlanInventory
    BY <1>4 DEF PlanInventory, TypeInv, repo
  <1>5. CASE VerifyInputs
    <2>1. ev' \in [Members -> Evidence]
      BY <1>5, EvidenceTypes DEF VerifyInputs, TypeInv
    <2> QED
      BY <1>5, <2>1 DEF VerifyInputs, TypeInv, repo
  <1> QED
    BY <1>1, <1>2, <1>3, <1>4, <1>5, NextCases

LEMMA FindingsStep ==
    ASSUME TypeInv, FrozenInv, FindingsInv, [Next]_vars
    PROVE  FindingsInv'
  <1> SUFFICES ASSUME Next PROVE FindingsInv'
    BY DEF FindingsInv, vars, repo, review
  <1>0. SUFFICES ASSUME NEW m \in Members
                 PROVE  /\ fbm'[m] = IF seen'[m] = NoTree THEN {} ELSE FindingsOf[seen'[m].src][m]
                        /\ Blocking(fbm'[m]) # {} => ev'[m].outcome \notin Accepted
                        /\ pc' \in Uncaptured \union {"host", "plan"} => ev'[m].outcome = "UNKNOWN"
    BY DEF FindingsInv
  <1>1. CASE Aside
    <2>1. UNCHANGED <<ev, fbm, seen>>
      BY <1>1, AsideKeeps
    <2>2. pc' \in Uncaptured \union {"host", "plan"} => pc \in Uncaptured \union {"host", "plan"}
      BY <1>1, DeveloperSteps
      DEF Aside, PrepareRuntime, Capture, CaptureFails, Copies, Raises, MembersDone, Finalize,
          Enforce, Recheck, HostMutates, HostEnforce, HostEnforceStaged, Uncaptured, Deliver
    <2> QED
      BY <2>1, <2>2 DEF FindingsInv
  <1>2. CASE RanOne
    <2>1. PICK n \in todo, e \in Evidence, tree \in {NoTree, Source} :
             /\ Ran(n, e, FindingsIn(tree, n), tree)
             /\ Blocking(FindingsIn(tree, n)) # {} => e.outcome \notin Accepted
             /\ pc = "host" => e.outcome = "UNKNOWN"
      BY <1>2 DEF RanOne
    <2>2. pc' = pc /\ pc \notin Uncaptured \union {"plan"}
      BY <1>2 DEF RanOne, Running, Uncaptured
    <2>3. CASE m = n
      <3>1. fbm'[m] = FindingsIn(tree, m) /\ seen'[m] = tree /\ ev'[m] = e
        BY <2>1, <2>3 DEF Ran, TypeInv
      <3> QED
        BY <2>1, <2>2, <2>3, <3>1 DEF FindingsIn
    <2>4. CASE m # n
      <3>1. fbm'[m] = fbm[m] /\ seen'[m] = seen[m] /\ ev'[m] = ev[m]
        BY <2>1, <2>4 DEF Ran, TypeInv
      <3> QED
        BY <2>2, <3>1 DEF FindingsInv
    <2> QED
      BY <2>3, <2>4
  <1>3. CASE StartedOver
    <2>1. fbm'[m] = {} /\ seen'[m] = NoTree /\ pc' \notin Uncaptured \union {"host", "plan"}
      BY <1>3 DEF StartedOver, Restart, NoFindings, Uncaptured
    <2> QED
      BY <2>1 DEF Blocking
  <1>4. CASE PlanInventory
    BY <1>4 DEF PlanInventory, FindingsInv, Uncaptured
  <1>5. CASE VerifyInputs
    <2>1. UNCHANGED <<fbm, seen>> /\ pc' = "finalize"
      BY <1>5 DEF VerifyInputs
    <2>2. ev'[m] = ev[m] \/ ev'[m].outcome = "UNKNOWN"
      BY <1>5, EvidenceTypes DEF VerifyInputs
    <2> QED
      BY <2>1, <2>2 DEF FindingsInv, Uncaptured, Accepted
  <1> QED
    BY <1>1, <1>2, <1>3, <1>4, <1>5, NextCases

LEMMA BrokenStep ==
    ASSUME TypeInv, FrozenInv, FindingsInv, BrokenInv, [Next]_vars
    PROVE  BrokenInv'
  <1> SUFFICES ASSUME Next PROVE BrokenInv'
    BY DEF BrokenInv, vars, repo, review
  <1>1. CASE Aside
    <2>1. UNCHANGED <<todo, ev, broken>>
      BY <1>1, AsideKeeps
    <2>2. pc' = "verify" => todo = {}
      BY <1>1, DeveloperSteps
      DEF Aside, PrepareRuntime, Capture, CaptureFails, Copies, Raises, MembersDone, Finalize,
          Enforce, Recheck, HostMutates, HostEnforce, HostEnforceStaged, Deliver, BrokenInv
    <2> QED
      BY <2>1, <2>2 DEF BrokenInv
  <1>2. CASE RanOne
    <2>1. PICK n \in todo, e \in Evidence, tree \in {NoTree, Source} :
             Ran(n, e, FindingsIn(tree, n), tree) /\ (broken' = broken \/ e.outcome = "UNKNOWN")
      BY <1>2 DEF RanOne
    <2>2. /\ ev' = [ev EXCEPT ![n] = e] /\ todo' = todo \ {n} /\ n \in Members
          /\ pc' # "verify"
      BY <1>2, <2>1 DEF RanOne, Ran, TypeInv, Running
    <2>3. CASE e.outcome = "UNKNOWN"
      BY <2>2, <2>3 DEF BrokenInv, TypeInv
    <2>4. CASE broken' = broken
      BY <2>2, <2>4 DEF BrokenInv, TypeInv
    <2> QED
      BY <2>1, <2>3, <2>4
  <1>3. CASE StartedOver
    <2>1. PICK M \in SUBSET Members : M # {} /\ Restart(pc', M)
      BY <1>3 DEF StartedOver
    <2>2. PICK m \in M : TRUE
      BY <2>1
    <2>3. ev'[m].outcome = "UNKNOWN" /\ m \in Members \ todo' /\ pc' # "verify"
      BY <1>3, <2>1, EvidenceTypes DEF StartedOver, Restart, NotRun
    <2> QED
      BY <2>3 DEF BrokenInv
  <1>4. CASE PlanInventory
    <2>1. CASE UNCHANGED <<todo, broken>>
      BY <1>4, <2>1 DEF PlanInventory, BrokenInv
    <2>2. CASE todo' = Members \ {Pytest}
      <3>1. ev'[Pytest].outcome = "UNKNOWN"
        BY <1>4, MembersAssumption DEF PlanInventory, FindingsInv
      <3> QED
        BY <1>4, <2>2, <3>1, MembersAssumption DEF PlanInventory, BrokenInv
    <2> QED
      BY <1>4, <2>1, <2>2 DEF PlanInventory
  <1>5. CASE VerifyInputs
    <2>1. todo' = {} /\ todo = {} /\ pc' # "verify"
      BY <1>5 DEF VerifyInputs, BrokenInv
    <2>2. CASE UNCHANGED <<ev, broken>>
      BY <2>1, <2>2 DEF BrokenInv
    <2>3. CASE /\ ev' = [m \in Members |-> IF m \in Dependent THEN ErrorEvidence("runtime") ELSE ev[m]]
               /\ broken' = broken \union Dependent
      <3>1. PICK m \in Dependent : TRUE
        BY GateAssumption
      <3> QED
        BY <2>1, <2>3, <3>1, GateAssumption, EvidenceTypes DEF BrokenInv
    <2> QED
      BY <1>5, <2>2, <2>3 DEF VerifyInputs
  <1> QED
    BY <1>1, <1>2, <1>3, <1>4, <1>5, NextCases

-----------------------------------------------------------------------------
(* What was captured, and what was read.                                      *)

LEMMA FrozenStep ==
    ASSUME TypeInv, FrozenInv, FindingsInv, [Next]_vars
    PROVE  FrozenInv'
  <1> SUFFICES ASSUME Next PROVE FrozenInv'
    BY DEF FrozenInv, vars, repo, review
  <1>0. world.moves \in Nat
    BY DEF TypeInv, Worlds
  <1>1. CASE Developer
    <2>1. /\ UNCHANGED <<opt, pc, frozen, copy, lines, seen>>
          /\ world'.v <= world'.moves /\ world'.without.v <= world'.moves
          /\ world.moves <= world'.moves /\ world'.moves \in Nat
      BY <1>1, DeveloperSteps DEF Worlds
    <2> QED
      BY <1>0, <2>1 DEF FrozenInv
  <1>2. CASE Capture
    <2>1. pc' \notin Uncaptured /\ frozen' = Captured /\ UNCHANGED <<opt, world>>
      BY <1>2 DEF Capture, Uncaptured, repo
    <2>2. CASE opt.cached
      <3>1. PICK t \in Trees : frozen' = [kind |-> "snapshot", tree |-> t, entries |-> t]
        BY <2>1, <2>2, NowInTrees DEF Captured
      <3> QED
        BY <2>1, <3>1 DEF FrozenInv
    <2>3. CASE ~opt.cached /\ opt.mode = "changed"
      <3>1. /\ frozen' = [kind |-> "identity", id |-> [v |-> world.v, head |-> world.head]]
            /\ world.v \in 0 .. world.moves /\ world.head \in Heads
        BY <2>1, <2>3 DEF Captured, Identity, TypeInv, Worlds, FrozenInv
      <3> QED
        BY <2>1, <3>1 DEF FrozenInv
    <2>4. CASE ~opt.cached /\ opt.mode # "changed"
      BY <2>1, <2>4 DEF Captured, FrozenInv
    <2> QED
      BY <2>2, <2>3, <2>4
  <1>3. CASE HostMutates
    <2>1. PICK t \in Trees : frozen' = [frozen EXCEPT !.tree = t]
      BY <1>3 DEF HostMutates
    <2>2. PICK a, u \in Trees : frozen = [kind |-> "snapshot", tree |-> a, entries |-> u]
      BY <1>3 DEF HostMutates, FrozenInv, NotRepository
    <2>3. frozen' = [kind |-> "snapshot", tree |-> t, entries |-> u]
      BY <2>1, <2>2
    <2>4. pc' \notin Uncaptured /\ UNCHANGED world
      BY <1>3 DEF HostMutates, Uncaptured, repo
    <2> QED
      BY <2>3, <2>4 DEF FrozenInv
  <1>4. CASE PrepareRuntime \/ CaptureFails
    <2>1. /\ UNCHANGED <<opt, world, frozen, copy, lines, seen>>
          /\ pc \in Uncaptured /\ pc' \in Uncaptured \union {"done"}
      BY <1>4 DEF PrepareRuntime, CaptureFails, Deliver, Uncaptured, repo
    <2> QED
      BY <2>1 DEF FrozenInv
  <1>6. CASE /\ UNCHANGED <<opt, world, frozen>>
             /\ pc' \notin Uncaptured /\ pc \notin Uncaptured \union {"done"}
    BY <1>6 DEF FrozenInv
  <1>7. CASE RanOne \/ StartedOver \/ PlanInventory \/ VerifyInputs
    BY <1>6, <1>7 DEF RanOne, StartedOver, PlanInventory, VerifyInputs, Running, Uncaptured, repo
  <1>8. CASE Copies \/ Raises \/ MembersDone \/ Finalize
    BY <1>6, <1>8 DEF Copies, Raises, MemberRaises, MembersDone, Finalize, Deliver, Running,
                      Uncaptured, repo
  <1>9. CASE Enforce \/ Recheck \/ HostEnforce \/ HostEnforceStaged
    BY <1>6, <1>9 DEF Enforce, Recheck, HostEnforce, HostEnforceStaged, Deliver, Uncaptured, repo
  <1> QED
    BY <1>1, <1>2, <1>3, <1>4, <1>7, <1>8, <1>9, NextCases DEF Aside

\* A member reads the tree that everything was read from.
LEMMA SourceIsRead ==
    ASSUME TypeInv, FrozenInv
    PROVE  /\ frozen.kind = "identity" /\ ReadFrom(Now) => Source = Now
           /\ frozen.kind = "snapshot" /\ ReadFrom(frozen.entries) /\ frozen.tree = frozen.entries
                => Source = frozen.entries
  BY DEF Source, ReadFrom

LEMMA AboutStep ==
    ASSUME TypeInv, FrozenInv, FindingsInv, AboutInv, [Next]_vars
    PROVE  AboutInv'
  <1> SUFFICES ASSUME Next PROVE AboutInv'
    BY DEF AboutInv, ReadFrom, Identity, Now, Tree, vars, repo, review
  <1>1. CASE Developer
    <2>1. UNCHANGED <<pc, frozen, copy, lines, seen>>
      BY <1>1, DeveloperSteps
    <2>2. CASE UNCHANGED <<world, returned>>
      BY <2>1, <2>2 DEF AboutInv, ReadFrom, Identity, Now, Tree
    <2>3. CASE frozen.kind = "identity" /\ frozen.id = Identity' => returned'
      BY <2>1, <2>3 DEF AboutInv, ReadFrom
    <2> QED
      BY <1>1, <2>2, <2>3, DeveloperSteps
  \* as long as neither the worktree nor HEAD moves
  <1>0. ASSUME UNCHANGED world PROVE Identity' = Identity /\ Now' = Now
    BY <1>0 DEF Identity, Now, Tree
  <1>2. CASE Capture
    <2>1. /\ frozen' = Captured /\ UNCHANGED <<world, returned, copy, lines, seen>>
          /\ copy = NoTree /\ lines = Unavailable /\ \A m \in Members : seen[m] = NoTree
      BY <1>2 DEF Capture, FrozenInv, Uncaptured, repo
    <2>2. frozen'.kind = "snapshot" => frozen'.tree = frozen'.entries
      BY <2>1 DEF Captured, NotRepository
    <2> QED
      BY <2>1, <2>2 DEF AboutInv, ReadFrom
  <1>3. CASE HostMutates
    <2>1. PICK t \in Trees \ {frozen.entries} : frozen' = [frozen EXCEPT !.tree = t]
      BY <1>3 DEF HostMutates
    <2>2. PICK a, u \in Trees : frozen = [kind |-> "snapshot", tree |-> a, entries |-> u]
      BY <1>3 DEF HostMutates, FrozenInv, NotRepository
    <2>3. frozen' = [kind |-> "snapshot", tree |-> t, entries |-> u] /\ t # u
      BY <2>1, <2>2
    <2>4. pc' = "host"
      BY <1>3 DEF HostMutates
    <2> QED
      BY <2>3, <2>4 DEF AboutInv
  <1>4. CASE Copies
    <2>1. /\ UNCHANGED <<world, returned, frozen, lines, seen>> /\ pc \notin {"host", "done"}
          /\ copy' = IF frozen.kind = "snapshot" THEN frozen.tree ELSE Now
      BY <1>4 DEF Copies, repo
    <2> QED
      BY <1>0, <2>1 DEF AboutInv, ReadFrom
  <1>5. CASE RanOne
    <2>1. PICK n \in todo, e \in Evidence, tree \in {NoTree, Source} : Ran(n, e, FindingsIn(tree, n), tree)
      BY <1>5 DEF RanOne
    <2>2. /\ \A m \in Members : seen'[m] \in {seen[m], tree}
          /\ UNCHANGED <<world, returned, pc, frozen, copy, lines>>
      BY <1>5, <2>1 DEF RanOne, Ran, TypeInv
    <2> QED
      BY <1>0, <2>2, SourceIsRead DEF AboutInv, ReadFrom
  <1>6. CASE StartedOver
    <2>1. /\ UNCHANGED <<world, returned, frozen, copy, lines>> /\ pc \notin {"host", "done"}
          /\ \A m \in Members : seen'[m] = NoTree
      BY <1>6 DEF StartedOver, Restart, Running
    <2> QED
      BY <1>0, <2>1 DEF AboutInv, ReadFrom
  <1>7. CASE Enforce \/ HostEnforce \/ HostEnforceStaged
    <2>1. /\ UNCHANGED <<world, returned, frozen, copy, seen>> /\ lines' \in Diffs
          /\ (pc # "host" \/ pc' = "done" \/ frozen.kind # "snapshot") /\ pc # "done"
      BY <1>7 DEF Enforce, HostEnforce, HostEnforceStaged, Deliver, repo
    <2> QED
      BY <1>0, <2>1 DEF AboutInv, ReadFrom, Diffs
  <1>8. CASE /\ UNCHANGED <<world, returned, frozen, copy, lines, seen>>
             /\ pc' = pc \/ pc \notin {"host", "done"}
    BY <1>0, <1>8 DEF AboutInv, ReadFrom
  <1>9. CASE PrepareRuntime \/ CaptureFails \/ Raises \/ MembersDone \/ Finalize \/ Recheck
    <2>1. UNCHANGED <<world, returned, frozen, copy, lines>> /\ (pc' = pc \/ pc \notin {"host", "done"})
      BY <1>9 DEF PrepareRuntime, CaptureFails, Raises, MemberRaises, MembersDone, Finalize,
                  Recheck, Running, repo
    <2> QED
      BY <1>8, <1>9, <2>1, AsideKeeps DEF Aside
  <1>10. CASE PlanInventory \/ VerifyInputs
    BY <1>8, <1>10 DEF PlanInventory, VerifyInputs, repo
  <1> QED
    BY <1>1, <1>2, <1>3, <1>4, <1>5, <1>6, <1>7, <1>9, <1>10, NextCases DEF Aside

-----------------------------------------------------------------------------
(* The report.                                                                *)

\* The report of a capsule run, enforced, against what the members said.
LEMMA EnforceReport ==
    ASSUME TypeInv, FrozenInv, FindingsInv, BrokenInv, Enforce
    PROVE  ReportInv'
  <1>1. PICK changed \in Diffs, catalog \in BOOLEAN :
          /\ lines' = changed
          /\ report' = with_enforcement(capsule_report(ev, fbm, ReportOptions(catalog)),
                                        opt.mode, fbm, changed, frozen.kind = "snapshot")
    BY DEF Enforce
  <1>2. UNCHANGED <<opt, fbm, ev, broken, todo>>
    BY DEF Enforce, repo
  <1> DEFINE r == capsule_report(ev, fbm, ReportOptions(catalog))
             cached == frozen.kind = "snapshot"
             s == with_enforcement(r, opt.mode, fbm, changed, cached)
  <1>3. /\ ev \in [Members -> Evidence] /\ fbm \in FindingsByMember /\ opt.mode \in Modes
        /\ ReportOptions(catalog) \in OptionSet /\ ReportOptions(catalog).mode = opt.mode
        /\ cached \in BOOLEAN
    BY OptionsType DEF TypeInv, FindingsByMember
  <1>4. Capsule(r, ev, fbm, opt.mode)
    BY <1>3, CapsuleReport
  <1> HIDE DEF r, cached
  <1>5. /\ Stable(s) /\ s.assurance # "NONE"
        /\ r.unknown => s.assurance \notin Accepted /\ (opt.mode # "shadow" => s.exit = 1)
        /\ opt.mode = "full" /\ s.exit = 0 => \A m \in Members : ev[m].outcome \in Accepted
        /\ opt.mode = "changed" /\ s.exit = 0 =>
              \A m \in Members : ev[m].outcome \notin Accepted =>
                 changed # Unavailable /\ OnChangedLine(Blocking(fbm[m]), changed) = {}
    BY <1>3, <1>4, CapsuleEnforced
  <1>6. report' = s
    BY <1>1 DEF r, cached
  <1> HIDE DEF s
  <1>7. broken # {} => r.unknown
    BY <1>4 DEF BrokenInv, Capsule
  <1>8. ASSUME NEW m \in Members, NEW f \in Blocking(fbm[m]) PROVE ev[m].outcome \notin Accepted
    BY <1>8 DEF FindingsInv
  <1>9. ASSUME opt.mode = "changed", s.exit = 0, NEW m \in Members, NEW f \in Blocking(fbm[m])
        PROVE  ~(changed = Unavailable \/ f.line \in changed)
    <2>1. changed # Unavailable /\ OnChangedLine(Blocking(fbm[m]), changed) = {}
      BY <1>5, <1>8, <1>9
    <2> QED
      BY <1>9, <2>1 DEF OnChangedLine
  <1>10. opt.mode = "full" /\ s.exit = 0 => \A m \in Members : Blocking(fbm[m]) = {}
    BY <1>5, <1>8
  <1>11. Revalidated(s) = s
    BY <1>5 DEF Stable
  <1> QED
    BY <1>1, <1>2, <1>5, <1>6, <1>7, <1>9, <1>10, <1>11 DEF ReportInv, OnHost

\* The report of the development host.
LEMMA HostEnforcedFacts ==
    ASSUME TypeInv, NEW cached \in BOOLEAN, NEW score \in {"good", "advisory", "low"}, NEW s,
           s = with_enforcement(HostReport(score, opt.mode), opt.mode, NoFindings, lines', cached)
    PROVE  /\ s.assurance = "NONE"
           /\ opt.mode = "changed" /\ s.exit = 0 =>
                \A m \in Members : \A f \in Blocking(fbm[m]) :
                  lines' = Unavailable \/ f.line \in lines' => f.hidden
  <1> DEFINE q == [assurance |-> "NONE", unknown |-> FALSE, verdict |-> "FAIL", exit |-> 1,
                   findings |-> FilteredFindings(fbm), evidence |-> ev, mode |-> opt.mode]
             r == HostReport(score, opt.mode)
  <1>2. opt.mode \in Modes
    BY OptionsType DEF TypeInv
  <1>3. FilteredFindings(fbm) \in SUBSET AnyFinding
    BY DEF FilteredFindings, TypeInv
  <1>4. q \in ReportSet
    BY <1>2, <1>3 DEF ReportSet, Statuses, AllVerdicts, TypeInv
  <1>5. /\ q.assurance = "NONE" /\ q.unknown = FALSE /\ q.findings = FilteredFindings(fbm)
        /\ q.mode = opt.mode
    OBVIOUS
  <1>6. r = derive_score_governance(q, score)
    BY DEF HostReport
  <1> HIDE DEF q
  <1>7. PICK v \in AllVerdicts, x \in {0, 1} :
          r = [q EXCEPT !.verdict = v, !.exit = x] /\ (x = 0 => Blocking(q.findings) = {})
    <2>1. PICK v \in AllVerdicts :
             v = IF Blocking(q.findings) # {} \/ score = "low" THEN "FAIL"
                 ELSE IF score = "advisory" THEN "PASS_WITH_ADVISORY" ELSE "PASS"
      BY DEF AllVerdicts
    <2>2. PICK x \in {0, 1} : x = IF v = "FAIL" THEN 1 ELSE 0
      OBVIOUS
    <2>3. r = [q EXCEPT !.verdict = v, !.exit = x]
      BY <1>6, <2>1, <2>2, Zenon DEF derive_score_governance
    <2>4. x = 0 => Blocking(q.findings) = {}
      BY <2>1, <2>2
    <2> QED
      BY <2>3, <2>4
  <1>9. LET p == [q EXCEPT !.verdict = v, !.exit = x]
        IN  /\ p \in ReportSet /\ p.assurance = q.assurance /\ p.unknown = q.unknown
            /\ p.mode = q.mode /\ p.exit = x /\ p.findings = q.findings
    BY <1>4 DEF ReportSet
  <1> HIDE DEF r
  <1>11. /\ r \in ReportSet /\ r.assurance = "NONE" /\ r.unknown = FALSE /\ r.mode = opt.mode
         /\ r.findings = FilteredFindings(fbm) /\ (r.exit = 0 => Blocking(r.findings) = {})
    BY <1>5, <1>7, <1>9
  <1>12. /\ s.assurance = "NONE"
         /\ opt.mode = "changed" /\ s.exit = 0 =>
              \A f \in Blocking(r.findings) : ~(lines' = Unavailable \/ f.line \in lines')
    <2> DEFINE c == lines'
               e == with_enforcement(r, opt.mode, NoFindings, c, cached)
    <2> HIDE DEF c
    <2>1. /\ e.assurance = "NONE"
          /\ opt.mode = "changed" /\ e.exit = 0 =>
               \A f \in Blocking(r.findings) : ~(c = Unavailable \/ f.line \in c)
      <3>1. r \in ReportSet /\ HostLike(r, opt.mode)
        BY <1>11 DEF HostLike
      <3> QED
        BY <1>2, <3>1, HostEnforced
    <2>2. s = e
      BY DEF r, c
    <2> HIDE DEF e
    <2> QED
      BY <2>1, <2>2 DEF c
  <1>13. ASSUME NEW m \in Members, NEW f \in Blocking(fbm[m]), ~f.hidden
         PROVE  f \in Blocking(r.findings)
    BY <1>11, <1>13 DEF Blocking, FilteredFindings
  <1> QED
    BY <1>12, <1>13

LEMMA HostReportFacts ==
    ASSUME TypeInv, NEW cached \in BOOLEAN, NEW s \in HostReports(cached)
    PROVE  /\ s.assurance = "NONE"
           /\ opt.mode = "changed" /\ s.exit = 0 =>
                \A m \in Members : \A f \in Blocking(fbm[m]) :
                  lines' = Unavailable \/ f.line \in lines' => f.hidden
  <1> DEFINE E(score) == with_enforcement(HostReport(score, opt.mode), opt.mode, NoFindings,
                                          lines', cached)
             Scores == {"good", "advisory", "low"}
  <1>1. \/ \E score \in Scores : s = E(score)
        \/ opt.mode = "full" /\ \E score \in Scores : s = [E(score) EXCEPT !.verdict = "FAIL", !.exit = 1]
    BY Zenon DEF HostReports
  <1>2. ASSUME NEW score \in Scores
        PROVE  /\ E(score).assurance = "NONE"
               /\ opt.mode = "changed" /\ E(score).exit = 0 =>
                    \A m \in Members : \A f \in Blocking(fbm[m]) :
                      lines' = Unavailable \/ f.line \in lines' => f.hidden
    BY HostEnforcedFacts
  <1> HIDE DEF E
  <1>3. CASE \E score \in Scores : s = E(score)
    BY <1>2, <1>3
  <1>4. CASE opt.mode = "full" /\ \E score \in Scores : s = [E(score) EXCEPT !.verdict = "FAIL", !.exit = 1]
    <2>1. PICK score \in Scores : s = [E(score) EXCEPT !.verdict = "FAIL", !.exit = 1]
      BY <1>4
    <2>2. s.assurance = E(score).assurance
      BY <2>1
    <2> QED
      BY <1>2, <1>4, <2>2
  <1> QED
    BY <1>1, <1>3, <1>4

LEMMA ReportStep ==
    ASSUME TypeInv, FrozenInv, FindingsInv, BrokenInv, ReportInv, [Next]_vars
    PROVE  ReportInv'
  <1> SUFFICES ASSUME Next, pc' \in {"recheck", "done"} PROVE ReportInv'
    BY DEF ReportInv, OnHost, vars, repo, review
  <1>1. CASE UNCHANGED <<opt, pc, broken, fbm, lines, report>>
    BY <1>1 DEF ReportInv, OnHost
  <1>2. CASE UNCHANGED opt /\ report' = UnknownReport
    <2>1. /\ Revalidated(report') = report' /\ report'.assurance \notin Accepted
          /\ opt.mode # "shadow" => report'.exit = 1
      BY <1>2, UnknownFacts DEF TypeInv
    <2> QED
      BY <1>2, <2>1 DEF ReportInv
  <1>3. CASE Developer
    BY <1>1, <1>3, DeveloperSteps
  <1>4. CASE PrepareRuntime \/ CaptureFails
    BY <1>2, <1>4 DEF PrepareRuntime, CaptureFails, Deliver, repo
  <1>5. CASE Finalize
    BY <1>2, <1>5 DEF Finalize, Deliver, repo
  <1>6. CASE Enforce
    BY <1>6, EnforceReport
  <1>7. CASE Recheck
    <2>1. CASE report' = UnknownReport
      BY <1>2, <1>7, <2>1 DEF Recheck, repo
    <2>2. CASE report' = report
      <3>1. UNCHANGED <<opt, broken, fbm, lines, report>> /\ pc = "recheck"
        BY <1>7, <2>2 DEF Recheck, repo
      <3> QED
        BY <3>1 DEF ReportInv, OnHost
    <2> QED
      BY <1>7, <2>1, <2>2 DEF Recheck, Deliver
  <1>8. ASSUME UNCHANGED <<opt, fbm>>, NEW cached \in BOOLEAN, report' \in HostReports(cached)
        PROVE  ReportInv'
    <2>1. /\ report'.assurance = "NONE"
          /\ opt.mode = "changed" /\ report'.exit = 0 =>
               \A m \in Members : \A f \in Blocking(fbm[m]) :
                 lines' = Unavailable \/ f.line \in lines' => f.hidden
      BY <1>8, HostReportFacts
    <2> QED
      BY <1>8, <2>1 DEF ReportInv, OnHost, Revalidated
  <1>9. CASE HostEnforce
    BY <1>8, <1>9 DEF HostEnforce, repo
  <1>10. CASE HostEnforceStaged
    BY <1>2, <1>8, <1>10 DEF HostEnforceStaged, Deliver, repo
  <1>11. CASE \/ Capture \/ Copies \/ Raises \/ MembersDone \/ HostMutates \/ RanOne \/ StartedOver
              \/ PlanInventory \/ VerifyInputs
    BY <1>11 DEF Capture, Copies, Raises, MembersDone, HostMutates, RanOne, StartedOver,
                 PlanInventory, VerifyInputs, Running
  <1> QED
    BY <1>3, <1>4, <1>5, <1>6, <1>7, <1>9, <1>10, <1>11, NextCases DEF Aside

LEMMA DeliveredStep ==
    ASSUME TypeInv, FrozenInv, FindingsInv, AboutInv, DeliveredInv, [Next]_vars
    PROVE  DeliveredInv'
  <1> SUFFICES ASSUME Next, pc' = "done", report'.exit = 0, opt'.mode = "changed"
               PROVE  /\ frozen'.kind # "not_repository"
                      /\ frozen'.kind = "identity" => frozen'.id = Identity'
                      /\ frozen'.kind = "snapshot" => frozen'.tree = frozen'.entries
    BY DEF DeliveredInv, Passed, Identity, vars, repo, review
  <1>1. CASE UNCHANGED opt /\ report' = UnknownReport
    BY <1>1, UnknownFacts DEF TypeInv
  <1>2. CASE Developer
    BY <1>2, DeveloperSteps DEF Over
  <1>3. CASE PrepareRuntime \/ CaptureFails \/ Finalize
    BY <1>1, <1>3 DEF PrepareRuntime, CaptureFails, Finalize, Deliver, repo
  <1>4. CASE Recheck
    <2>1. UNCHANGED <<opt, world, frozen>> /\ pc = "recheck"
      BY <1>4 DEF Recheck, repo
    <2>2. CASE report' = UnknownReport
      BY <1>1, <2>1, <2>2
    <2>3. CASE ~worktree_analysis_identity_changed
      <3>1. frozen.kind # "not_repository"
        BY <2>1 DEF FrozenInv, Uncaptured, NotRepository
      <3>2. frozen.kind = "snapshot" => frozen.tree = frozen.entries
        BY <2>1 DEF AboutInv
      <3> QED
        BY <2>1, <2>3, <3>1, <3>2 DEF worktree_analysis_identity_changed, Identity
    <2> QED
      BY <1>4, <2>2, <2>3 DEF Recheck, Deliver
  <1>5. CASE HostEnforceStaged
    BY <1>1, <1>5 DEF HostEnforceStaged, Deliver, materialized_tree_matches_entries, repo
  <1>6. CASE \/ Capture \/ Copies \/ Raises \/ MembersDone \/ HostMutates \/ RanOne \/ StartedOver
             \/ PlanInventory \/ VerifyInputs \/ Enforce \/ HostEnforce
    BY <1>6 DEF Capture, Copies, Raises, MembersDone, HostMutates, RanOne, StartedOver,
                PlanInventory, VerifyInputs, Enforce, HostEnforce, Running
  <1> QED
    BY <1>2, <1>3, <1>4, <1>5, <1>6, NextCases DEF Aside

-----------------------------------------------------------------------------
\* Whatever the developer does meanwhile, and whatever fails, each step of a
\* local review keeps the invariant.
THEOREM GateInvariant == Spec => []GateInv
  <1>1. Init => GateInv
    <2> SUFFICES ASSUME Init PROVE GateInv
      OBVIOUS
    <2>1. NotRun \in [Members -> Evidence] /\ \A m \in Members : NotRun[m].outcome = "UNKNOWN"
      BY EvidenceTypes DEF NotRun
    <2>2. NoFindings \in [Members -> SUBSET AnyFinding] /\ \A m \in Members : NoFindings[m] = {}
      BY DEF NoFindings
    <2>3. TypeInv
      <3>1. PICK src \in Contents, head \in Heads :
              /\ world = [v |-> 0, src |-> src, without |-> [v |-> 0, src |-> src],
                          head |-> head, moves |-> 0]
              /\ staged = src
        BY DEF Init
      <3> DEFINE o == [v |-> 0, src |-> src]
      <3>2. o \in Worktrees /\ world = [v |-> 0, src |-> src, without |-> o, head |-> head, moves |-> 0]
        BY <3>1 DEF Worktrees
      <3> HIDE DEF o
      <3>3. world \in Worlds
        BY <3>2 DEF Worlds
      <3> QED
        BY <2>1, <2>2, <3>1, <3>3 DEF Init, TypeInv
    <2>4. FrozenInv
      BY DEF Init, FrozenInv, Uncaptured, NotRepository
    <2>7. AboutInv
      BY DEF Init, AboutInv, NotRepository
    <2>5. FindingsInv
      BY <2>1, <2>2 DEF Init, FindingsInv, Blocking
    <2>6. BrokenInv /\ ReportInv /\ DeliveredInv
      BY DEF Init, BrokenInv, ReportInv, DeliveredInv, Passed
    <2> QED
      BY <2>3, <2>4, <2>5, <2>6, <2>7 DEF GateInv
  <1>2. GateInv /\ [Next]_vars => GateInv'
    BY TypeStep, FrozenStep, AboutStep, FindingsStep, BrokenStep, ReportStep, DeliveredStep
    DEF GateInv
  <1> QED
    BY <1>1, <1>2, PTL DEF Spec

\* Two identity checks (_finalize_local_capsule_snapshot), the comparison of the
\* materialised tree on the development host and blockers_are_retained are enough
\* for a passing review in changed mode to have no found blocker on a line it
\* read as changed, and - unless the captured identity was left and came back -
\* to be about the one tree it ends with.
THEOREM GateChangedPassIsAboutOneTree == Spec => []ChangedPassIsAboutOneTree
  <1>1. GateInv => ChangedPassIsAboutOneTree
    <2> DEFINE t == IF frozen.kind = "snapshot" THEN frozen.entries ELSE Now
    <2> SUFFICES ASSUME GateInv, Passed("changed")
                 PROVE  /\ \A m \in Members : \A f \in Blocking(fbm[m]) :
                             lines = Unavailable \/ f.line \in lines => OnHost /\ f.hidden
                        /\ ~returned =>
                             \E u \in Trees :
                               /\ u = t
                               /\ \A m \in Members : seen[m] \in {NoTree, u}
                               /\ lines \in {u.chg, Unavailable}
                               /\ \A m \in Members : seen[m] = u =>
                                    \A f \in OnChangedLine(Blocking(FindingsOf[u.src][m]), u.chg) :
                                      OnHost /\ f.hidden
      BY DEF ChangedPassIsAboutOneTree
    <2>1. \A m \in Members : \A f \in Blocking(fbm[m]) :
            lines = Unavailable \/ f.line \in lines => OnHost /\ f.hidden
      BY DEF GateInv, ReportInv, Passed
    <2>2. ASSUME ~returned PROVE t \in Trees /\ ReadFrom(t)
      <3>1. CASE frozen.kind = "identity"
        BY <2>2, <3>1, NowInTrees DEF GateInv, DeliveredInv, AboutInv
      <3>2. CASE frozen.kind = "snapshot"
        BY <3>2 DEF GateInv, DeliveredInv, AboutInv, FrozenInv, NotRepository
      <3>3. frozen.kind \in {"identity", "snapshot"}
        BY DEF GateInv, DeliveredInv, FrozenInv, NotRepository
      <3> QED
        BY <3>1, <3>2, <3>3
    <2> HIDE DEF t
    <2>3. ASSUME ~returned, NEW m \in Members, seen[m] = t,
                 NEW f \in OnChangedLine(Blocking(FindingsOf[t.src][m]), t.chg)
          PROVE  OnHost /\ f.hidden
      <3>1. fbm[m] = FindingsOf[t.src][m]
        BY <2>2, <2>3, NoTreeIsNone DEF GateInv, FindingsInv
      <3>2. f \in Blocking(fbm[m]) /\ (lines = Unavailable \/ f.line \in lines)
        BY <2>2, <2>3, <3>1 DEF OnChangedLine, ReadFrom
      <3> QED
        BY <2>1, <3>2
    <2> QED
      BY <2>1, <2>2, <2>3 DEF ReadFrom
  <1> QED
    BY <1>1, GateInvariant, PTL

\* However often a capsule run starts over, one of its failures stays in the
\* evidence and keeps the review from passing.
THEOREM GateFailuresAreNotForgotten == Spec => []FailuresAreNotForgotten
  <1>1. GateInv => FailuresAreNotForgotten
    BY DEF GateInv, ReportInv, FailuresAreNotForgotten
  <1> QED
    BY <1>1, GateInvariant, PTL

\* A full review that exits 0 in the capsule has no blocker, filtered or not.
THEOREM GateFullPassHasNoBlocker == Spec => []FullPassHasNoBlocker
  <1>1. GateInv => FullPassHasNoBlocker
    BY DEF GateInv, ReportInv, FullPassHasNoBlocker, Passed
  <1> QED
    BY <1>1, GateInvariant, PTL

\* Every delivered report is a fixed point of the report validator.
THEOREM GateReportSurvivesReading == Spec => []ReportSurvivesReading
  <1>1. GateInv => ReportSurvivesReading
    BY DEF GateInv, ReportInv, ReportSurvivesReading
  <1> QED
    BY <1>1, GateInvariant, PTL
=============================================================================
