-------------------------- MODULE RangeReviewProofs --------------------------
(* Proofs about RangeReview, for every set of members, every pair of snapshots *)
(* and every failure of a side.                                                *)
(*                                                                             *)
(* First the doubts: three places could lose one, the comparison of the sides, *)
(* the merge of the suppressions, where a FAIL overrides an UNKNOWN, and the   *)
(* report, where the catalogue and the macOS rule rewrite the evidence; there  *)
(* is a lemma for each.  Then the operators and the invariants that rest on    *)
(* them: sorting, pairing, classification; the cost table against the longest  *)
(* alignments; the controls of a file.  The theorems are at the end.           *)
EXTENDS RangeReview, FiniteSetTheorems, WellFoundedInduction, TLAPS

-----------------------------------------------------------------------------
(* The comparison of the sides (_classify_range_member).                      *)

LEMMA SideEvidenceType ==
    ASSUME NEW v \in {"c14", "runtime"}
    PROVE  /\ ErrorEvidence(v) \in Evidence /\ ErrorEvidence(v).outcome = "UNKNOWN"
           /\ NotApplicableEvidence(v) \in Evidence
BY DEF ErrorEvidence, NotApplicableEvidence, Evidence, Executions, Outcomes

LEMMA RangeEvidenceType ==
    ASSUME NEW m, NEW result
    PROVE  RangeEvidence(m, result) \in Evidence
<1>1. PinnedVersion \in {"c14", "runtime"}
  BY DEF PinnedVersion
<1>2. final_status(result, Request(m)) \in Outcomes
  BY DEF final_status, Outcomes
<1>3. [exec |-> "ran", outcome |-> final_status(result, Request(m)),
       version |-> PinnedVersion, reasons |-> FALSE] \in Evidence
  BY <1>1, <1>2 DEF Evidence, Executions
<1> QED
  BY <1>1, <1>3, SideEvidenceType DEF RangeEvidence

\* A side that is UNKNOWN makes the member UNKNOWN.
LEMMA SideInDoubt ==
    ASSUME NEW m, NEW result, NEW s \in Sides, side[s][m].outcome = "UNKNOWN"
    PROVE  RangeEvidence(m, result).outcome = "UNKNOWN"
<1>1. ~\A t \in Sides : side[t][m].outcome = "NOT_APPLICABLE"
  OBVIOUS
<1>2. ~member_snapshot_is_consistent(s, m)
  BY DEF member_snapshot_is_consistent
<1>3. RangeEvidence(m, result) = ErrorEvidence(PinnedVersion)
  BY <1>1, <1>2 DEF RangeEvidence, Incomplete
<1> QED
  BY <1>3 DEF ErrorEvidence

-----------------------------------------------------------------------------
(* The merge of the suppressions (_merge_member_outcome).                     *)

LEMMA MergeKeepsDoubt ==
    ASSUME NEW e \in Evidence, NEW outcome \in {"FAIL", "UNKNOWN"}
    PROVE  /\ merge_member_outcome(e, outcome) \in Evidence
           /\ InDoubt(e) \/ outcome = "UNKNOWN" => InDoubt(merge_member_outcome(e, outcome))
<1>1. PICK o \in {"FAIL", "UNKNOWN"}, r \in BOOLEAN :
         /\ o = IF "FAIL" \in {e.outcome, outcome} THEN "FAIL" ELSE "UNKNOWN"
         /\ r = (e.reasons \/ e.outcome = "UNKNOWN" \/ outcome = "UNKNOWN")
  OBVIOUS
<1>2. merge_member_outcome(e, outcome) = [e EXCEPT !.outcome = o, !.reasons = r]
  BY <1>1 DEF merge_member_outcome, Evidence
<1>3. /\ [e EXCEPT !.outcome = o, !.reasons = r] \in Evidence
      /\ [e EXCEPT !.outcome = o, !.reasons = r].reasons = r
  BY DEF Evidence, Outcomes
<1> QED
  BY <1>1, <1>2, <1>3 DEF InDoubt

\* Whatever a member was in doubt about before the suppressions, and whatever
\* they add to it, it is in doubt after them.
LEMMA SuppressedKeepsDoubt ==
    ASSUME NEW ev \in [Members -> Evidence], NEW d
    PROVE  /\ Suppressed(ev, d) \in [Members -> Evidence]
           /\ \A m \in Members :
                 InDoubt(ev[m]) \/ d.error \/ "quarantined" \in Kinds(m, ev, d)
                 => InDoubt(Suppressed(ev, d)[m])
<1> DEFINE A(m) == IF "introduced" \in Kinds(m, ev, d) THEN merge_member_outcome(ev[m], "FAIL")
                   ELSE ev[m]
           B(m) == IF d.error \/ "quarantined" \in Kinds(m, ev, d)
                   THEN merge_member_outcome(A(m), "UNKNOWN") ELSE A(m)
<1>1. Suppressed(ev, d) = [m \in Members |-> B(m)]
  BY Zenon DEF Suppressed
<1>2. \A m \in Members : A(m) \in Evidence /\ (InDoubt(ev[m]) => InDoubt(A(m)))
  BY MergeKeepsDoubt
<1> HIDE DEF A
<1>3. \A m \in Members :
         /\ B(m) \in Evidence
         /\ InDoubt(ev[m]) \/ d.error \/ "quarantined" \in Kinds(m, ev, d) => InDoubt(B(m))
  BY <1>2, MergeKeepsDoubt
<1> HIDE DEF B
<1> QED
  BY <1>1, <1>3

\* A member that is accepted after the suppressions is as it was, and no control
\* concerns it.
LEMMA SuppressedAccepted ==
    ASSUME NEW ev \in [Members -> Evidence], NEW d, NEW m \in Members,
           Suppressed(ev, d)[m].outcome \in Accepted
    PROVE  /\ Suppressed(ev, d)[m] = ev[m] /\ ~d.error
           /\ "introduced" \notin Kinds(m, ev, d) /\ "quarantined" \notin Kinds(m, ev, d)
<1> DEFINE A == IF "introduced" \in Kinds(m, ev, d) THEN merge_member_outcome(ev[m], "FAIL")
                ELSE ev[m]
<1>1. Suppressed(ev, d)[m] = IF d.error \/ "quarantined" \in Kinds(m, ev, d)
                             THEN merge_member_outcome(A, "UNKNOWN") ELSE A
  BY DEF Suppressed
<1>2. ASSUME NEW e \in Evidence, NEW outcome \in {"FAIL", "UNKNOWN"}
      PROVE  merge_member_outcome(e, outcome).outcome \notin Accepted
  <2>1. PICK o \in {"FAIL", "UNKNOWN"}, r \in BOOLEAN :
           /\ o = IF "FAIL" \in {e.outcome, outcome} THEN "FAIL" ELSE "UNKNOWN"
           /\ r = (e.reasons \/ e.outcome = "UNKNOWN" \/ outcome = "UNKNOWN")
    OBVIOUS
  <2>2. merge_member_outcome(e, outcome) = [e EXCEPT !.outcome = o, !.reasons = r]
    BY <2>1 DEF merge_member_outcome, Evidence
  <2>3. [e EXCEPT !.outcome = o, !.reasons = r].outcome = o
    BY DEF Evidence
  <2> QED
    BY <2>2, <2>3 DEF Accepted
<1>3. A \in Evidence
  BY MergeKeepsDoubt
<1>4. "introduced" \in Kinds(m, ev, d) => A.outcome \notin Accepted
  BY <1>2
<1>5. "introduced" \notin Kinds(m, ev, d) => A = ev[m]
  OBVIOUS
<1> HIDE DEF A
<1> QED
  BY <1>1, <1>2, <1>3, <1>4, <1>5

-----------------------------------------------------------------------------
(* The report (capsule_report).                                               *)

\* The macOS rule of the pytest member, given the evidence it starts from.
LEMMA PytestKeepsDoubt ==
    ASSUME NEW e \in [Members -> Evidence], NEW o, NEW m \in Members, InDoubt(e[m])
    PROVE  InDoubt(native_pytest_evidence(e, o)[m])
<1> DEFINE E == native_pytest_evidence(e, o)
<1>1. CASE E = e
  BY <1>1
<1>2. CASE E # e
  <2>1. E = [e EXCEPT ![Pytest].exec = "error", ![Pytest].outcome = "UNKNOWN"]
    BY <1>2 DEF native_pytest_evidence
  <2>2. E = [e EXCEPT ![Pytest] = [e[Pytest] EXCEPT !.exec = "error", !.outcome = "UNKNOWN"]]
    BY <2>1, MembersAssumption
  <2>3. [e[Pytest] EXCEPT !.exec = "error", !.outcome = "UNKNOWN"].outcome = "UNKNOWN"
    BY MembersAssumption DEF Evidence
  <2>4. E[m] = e[m] \/ E[m].outcome = "UNKNOWN"
    BY <2>2, <2>3, MembersAssumption
  <2> HIDE DEF E
  <2>5. InDoubt(E[m])
    BY <2>4 DEF InDoubt
  <2> QED
    BY <2>5 DEF E
<1> QED
  BY <1>1, <1>2

LEMMA CatalogKeepsDoubt ==
    ASSUME NEW e \in [Members -> Evidence], NEW o, o.expected \in {"c14", "runtime"}
    PROVE  /\ activated_evidence(e, o) \in [Members -> Evidence]
           /\ \A m \in Members : InDoubt(e[m]) => InDoubt(activated_evidence(e, o)[m])
<1> DEFINE X(m) == [e[m] EXCEPT !.exec = "error", !.outcome = "UNKNOWN", !.version = o.expected]
<1>1. \A m \in Members : X(m) \in Evidence /\ X(m).outcome = "UNKNOWN"
  BY DEF Evidence, Executions, Outcomes
<1>2. activated_evidence(e, o) = e \/ activated_evidence(e, o) = [m \in Members |-> X(m)]
  BY Zenon DEF activated_evidence
<1> HIDE DEF X
<1> QED
  BY <1>1, <1>2 DEF InDoubt

\* The validator sets the flag when some evidence is in doubt.
LEMMA GovernanceShowsDoubt ==
    ASSUME NEW a, NEW u, NEW F, NEW E, NEW mode, NEW m \in Members, InDoubt(E[m])
    PROVE  derive_authoritative_governance(
             [assurance |-> a, unknown |-> u, verdict |-> "FAIL", exit |-> 1,
              findings |-> F, evidence |-> E, mode |-> mode]).unknown
<1> DEFINE r == [assurance |-> a, unknown |-> u, verdict |-> "FAIL", exit |-> 1,
                 findings |-> F, evidence |-> E, mode |-> mode]
           doubt == \/ r.unknown
                    \/ r.assurance = "UNKNOWN"
                    \/ /\ r.assurance = "PASS"
                       /\ \E n \in Members : r.evidence[n].outcome \notin Accepted
                    \/ \E n \in Members : \/ r.evidence[n].reasons
                                          \/ r.evidence[n].outcome = "UNKNOWN"
           status == IF doubt /\ r.assurance \in Accepted THEN "UNKNOWN" ELSE r.assurance
           verdict == VerdictOf(status, r.findings)
           exit == IF r.mode = "shadow" \/ status \in Accepted THEN 0 ELSE 1
<1>1. derive_authoritative_governance(r) =
        [r EXCEPT !.unknown = doubt, !.assurance = status, !.verdict = verdict, !.exit = exit]
  BY Zenon DEF derive_authoritative_governance
<1>2. r.evidence = E
  OBVIOUS
<1>3. doubt
  <2> HIDE DEF r
  <2> QED
    BY <1>2 DEF InDoubt
<1>4. "unknown" \in DOMAIN r
  OBVIOUS
<1> HIDE DEF r, doubt, status, verdict, exit
<1>5. [r EXCEPT !.unknown = doubt, !.assurance = status, !.verdict = verdict, !.exit = exit].unknown
      = doubt
  BY <1>4
<1>6. derive_authoritative_governance(r).unknown
  BY <1>1, <1>3, <1>5
<1> QED
  BY <1>6 DEF r

LEMMA ReportShowsDoubt ==
    ASSUME NEW e \in [Members -> Evidence], NEW F, NEW o, o.expected \in {"c14", "runtime"},
           NEW m \in Members, InDoubt(e[m])
    PROVE  capsule_report(e, F, o).unknown
<1> DEFINE A == activated_evidence(e, o)
           E == native_pytest_evidence(A, o)
           P == aggregate_profile_evidence(E, o.expected)
<1>1. A \in [Members -> Evidence] /\ InDoubt(A[m])
  BY CatalogKeepsDoubt
<1>2. InDoubt(E[m])
  <2> HIDE DEF A
  <2> QED
    BY <1>1, PytestKeepsDoubt
<1>3. capsule_report(e, F, o) =
        derive_authoritative_governance(
          [assurance |-> P.assurance, unknown |-> P.unknown, verdict |-> "FAIL", exit |-> 1,
           findings |-> FilteredFindings(F), evidence |-> E, mode |-> o.mode])
  BY Zenon DEF capsule_report
<1> HIDE DEF A, E, P
<1> QED
  BY <1>2, <1>3, GovernanceShowsDoubt

\* A report that exits 0, not in shadow mode, has nothing but accepted evidence.
LEMMA GovernanceAccepts ==
    ASSUME NEW a \in {"PASS", "FAIL", "UNKNOWN"}, NEW u, NEW F, NEW E, NEW mode, mode # "shadow",
           derive_authoritative_governance(
             [assurance |-> a, unknown |-> u, verdict |-> "FAIL", exit |-> 1,
              findings |-> F, evidence |-> E, mode |-> mode]).exit = 0
    PROVE  \A m \in Members : E[m].outcome \in Accepted /\ ~InDoubt(E[m])
<1> DEFINE r == [assurance |-> a, unknown |-> u, verdict |-> "FAIL", exit |-> 1,
                 findings |-> F, evidence |-> E, mode |-> mode]
           doubt == \/ r.unknown
                    \/ r.assurance = "UNKNOWN"
                    \/ /\ r.assurance = "PASS"
                       /\ \E n \in Members : r.evidence[n].outcome \notin Accepted
                    \/ \E n \in Members : \/ r.evidence[n].reasons
                                          \/ r.evidence[n].outcome = "UNKNOWN"
           status == IF doubt /\ r.assurance \in Accepted THEN "UNKNOWN" ELSE r.assurance
           verdict == VerdictOf(status, r.findings)
           exit == IF r.mode = "shadow" \/ status \in Accepted THEN 0 ELSE 1
<1>1. derive_authoritative_governance(r) =
        [r EXCEPT !.unknown = doubt, !.assurance = status, !.verdict = verdict, !.exit = exit]
  BY Zenon DEF derive_authoritative_governance
<1>2. r.evidence = E /\ r.mode = mode /\ r.assurance = a /\ "exit" \in DOMAIN r
  OBVIOUS
<1>3. derive_authoritative_governance(r).exit = exit
  <2> HIDE DEF r, doubt, status, verdict, exit
  <2> QED
    BY <1>1, <1>2
<1>4. exit = 0
  BY <1>3
<1> HIDE DEF r
<1>5. status \in Accepted
  <2> HIDE DEF status
  <2> QED
    BY <1>2, <1>4
<1>6. ~doubt /\ a = "PASS"
  <2> HIDE DEF doubt
  <2> QED
    BY <1>2, <1>5 DEF Accepted
<1> QED
  BY <1>2, <1>6 DEF InDoubt

LEMMA ReportAccepts ==
    ASSUME NEW e \in [Members -> Evidence], NEW F, NEW o, o.expected \in {"c14", "runtime"},
           o.mode # "shadow", capsule_report(e, F, o).exit = 0
    PROVE  \A m \in Members : e[m].outcome \in Accepted /\ ~InDoubt(e[m])
<1> DEFINE A == activated_evidence(e, o)
           E == native_pytest_evidence(A, o)
           P == aggregate_profile_evidence(E, o.expected)
<1>1. A \in [Members -> Evidence] /\ \A m \in Members : InDoubt(e[m]) => InDoubt(A[m])
  BY CatalogKeepsDoubt
<1>2. \A m \in Members : InDoubt(A[m]) => InDoubt(E[m])
  <2> HIDE DEF A
  <2> QED
    BY <1>1, PytestKeepsDoubt
<1>3. capsule_report(e, F, o) =
        derive_authoritative_governance(
          [assurance |-> P.assurance, unknown |-> P.unknown, verdict |-> "FAIL", exit |-> 1,
           findings |-> FilteredFindings(F), evidence |-> E, mode |-> o.mode])
  BY Zenon DEF capsule_report
<1>4. P.assurance \in {"PASS", "FAIL", "UNKNOWN"}
  <2> HIDE DEF E
  <2> QED
    BY DEF aggregate_profile_evidence
<1>5. \A m \in Members : A[m] = e[m] \/ A[m].outcome = "UNKNOWN"
  <2> DEFINE X(m) == [e[m] EXCEPT !.exec = "error", !.outcome = "UNKNOWN", !.version = o.expected]
  <2>1. \A m \in Members : X(m).outcome = "UNKNOWN"
    BY DEF Evidence
  <2>2. A = e \/ A = [m \in Members |-> X(m)]
    BY Zenon DEF activated_evidence
  <2> HIDE DEF X, A
  <2> QED
    BY <2>1, <2>2
<1>6. \A m \in Members : E[m] = A[m] \/ E[m].outcome = "UNKNOWN"
  <2> HIDE DEF A
  <2>1. CASE E # A
    <3>1. E = [A EXCEPT ![Pytest].exec = "error", ![Pytest].outcome = "UNKNOWN"]
      BY <2>1 DEF native_pytest_evidence
    <3>2. E = [A EXCEPT ![Pytest] = [A[Pytest] EXCEPT !.exec = "error", !.outcome = "UNKNOWN"]]
      BY <1>1, <3>1, MembersAssumption
    <3>3. [A[Pytest] EXCEPT !.exec = "error", !.outcome = "UNKNOWN"].outcome = "UNKNOWN"
      BY <1>1, MembersAssumption DEF Evidence
    <3> HIDE DEF E
    <3> QED
      BY <1>1, <3>2, <3>3, MembersAssumption
  <2> QED
    BY <2>1
<1> HIDE DEF A, E, P
<1>7. \A m \in Members : E[m].outcome \in Accepted /\ ~InDoubt(E[m])
  BY <1>3, <1>4, GovernanceAccepts
<1> QED
  BY <1>1, <1>2, <1>5, <1>6, <1>7 DEF InDoubt

-----------------------------------------------------------------------------
(* DoubtInv is an invariant.                                                  *)

LEMMA InitDoubtInv == Init => DoubtInv
BY SideEvidenceType DEF Init, DoubtInv, Expected, UncertaintyIsKept

LEMMA ClassifyKeeps ==
    ASSUME DoubtInv, Classify
    PROVE  DoubtInv'
<1> DEFINE plain == [m \in Members |-> RangeEvidence(m, classified'[m])]
<1>1. /\ combined' = Suppressed(plain, delta')
      /\ unsure' = unsure \union {m \in Members : \/ delta'.error
                                                  \/ plain[m].outcome = "UNKNOWN"
                                                  \/ "quarantined" \in Kinds(m, plain, delta')}
      /\ pc = "classify" /\ pc' = "report"
  BY DEF Classify
<1>2. plain \in [Members -> Evidence]
  BY RangeEvidenceType
<1>3. \A m \in unsure : m \in Members /\ plain[m].outcome = "UNKNOWN"
  BY <1>1, SideInDoubt DEF DoubtInv
<1> HIDE DEF plain
<1>4. \A m \in unsure' : InDoubt(combined'[m])
  BY <1>1, <1>2, <1>3, SuppressedKeepsDoubt DEF InDoubt
<1>5. combined' \in [Members -> Evidence] /\ unsure' \subseteq Members
  BY <1>1, <1>2, <1>3, SuppressedKeepsDoubt
<1> QED
  BY <1>1, <1>4, <1>5 DEF DoubtInv, UncertaintyIsKept

LEMMA BuildReportKeeps ==
    ASSUME DoubtInv, BuildReport
    PROVE  DoubtInv'
<1>1. PICK catalog \in BOOLEAN, sameRuntime \in BOOLEAN :
         report' = capsule_report(
           IF sameRuntime THEN combined
           ELSE [m \in Members |-> [combined[m] EXCEPT !.exec = "error", !.outcome = "UNKNOWN"]],
           labelled, ReportOptions(catalog))
  BY DEF BuildReport
<1>2. pc = "report" /\ pc' = "done" /\ combined' = combined /\ unsure' = unsure
  BY DEF BuildReport
<1> DEFINE X == [m \in Members |-> [combined[m] EXCEPT !.exec = "error", !.outcome = "UNKNOWN"]]
           ev == IF sameRuntime THEN combined ELSE X
<1>3. X \in [Members -> Evidence] /\ \A m \in Members : InDoubt(X[m])
  <2>1. ASSUME NEW e \in Evidence
        PROVE  /\ [e EXCEPT !.exec = "error", !.outcome = "UNKNOWN"] \in Evidence
               /\ [e EXCEPT !.exec = "error", !.outcome = "UNKNOWN"].outcome = "UNKNOWN"
    BY DEF Evidence, Executions, Outcomes
  <2>2. combined \in [Members -> Evidence]
    BY DEF DoubtInv
  <2> QED
    BY <2>1, <2>2 DEF InDoubt
<1>4. report' = capsule_report(ev, labelled, ReportOptions(catalog))
  BY <1>1
<1> HIDE DEF X
<1>5. ev \in [Members -> Evidence] /\ \A m \in unsure : m \in Members /\ InDoubt(ev[m])
  BY <1>2, <1>3 DEF DoubtInv
<1>6. ReportOptions(catalog).expected \in {"c14", "runtime"}
  BY DEF ReportOptions, Expected
<1> HIDE DEF ev
<1>7. unsure # {} => report'.unknown
  BY <1>4, <1>5, <1>6, ReportShowsDoubt
<1> QED
  BY <1>2, <1>7 DEF DoubtInv, UncertaintyIsKept

LEMMA NextDoubtInv == DoubtInv /\ [Next]_vars => DoubtInv'
<1> SUFFICES ASSUME DoubtInv, [Next]_vars
             PROVE  DoubtInv'
  OBVIOUS
<1>1. CASE Prepare
  BY <1>1 DEF Prepare, DoubtInv, UncertaintyIsKept
<1>2. CASE RunSides
  <2>1. PICK fault \in Faults, kept \in BOOLEAN :
          LET result == [s \in Sides |-> SideResult(s, fault[s])] IN
          /\ side' = result
          /\ unsure' = {m \in Members : \E s \in Sides : result[s][m].outcome = "UNKNOWN"}
    BY <1>2 DEF RunSides
  <2>2. /\ unsure' \subseteq Members
        /\ \A m \in unsure' : \E s \in Sides : side'[s][m].outcome = "UNKNOWN"
    BY <2>1
  <2>3. pc' = "classify" /\ combined' = combined
    BY <1>2 DEF RunSides
  <2> QED
    BY <2>2, <2>3 DEF DoubtInv, UncertaintyIsKept
<1>3. CASE UNCHANGED vars
  BY <1>3 DEF vars, DoubtInv, UncertaintyIsKept
<1> QED
  BY <1>1, <1>2, <1>3, ClassifyKeeps, BuildReportKeeps DEF Next

-----------------------------------------------------------------------------
(* Induction over the naturals, stated for sets.                              *)

LEMMA LeastElement ==
    ASSUME NEW T, T \subseteq Nat, T # {}
    PROVE  \E x \in T : \A y \in T : x <= y
<1>1. IsWellFoundedOn(OpToRel(<, Nat), Nat)
  BY NatLessThanWellFounded
<1>2. \E x \in T : \A y \in T : <<y, x>> \notin OpToRel(<, Nat)
  BY <1>1, WFMin
<1>3. \E x \in T : \A y \in T : ~(y < x)
  BY <1>2 DEF OpToRel
<1> QED
  BY <1>3

LEMMA SetInduction ==
    ASSUME NEW S, 0 \in S, \A n \in Nat : n \in S => n + 1 \in S
    PROVE  Nat \subseteq S
<1> DEFINE T == Nat \ S
<1> SUFFICES ASSUME T # {}
             PROVE  FALSE
  OBVIOUS
<1>1. PICK x \in T : \A y \in T : x <= y
  BY LeastElement
<1>2. x # 0 /\ x - 1 \in Nat /\ x - 1 \notin T
  BY <1>1
<1> QED
  BY <1>1, <1>2

-----------------------------------------------------------------------------
(* InOrder lists every element of a finite set once.                          *)

IsOrder(S, R) ==
    /\ \A x \in S : <<x, x>> \notin R
    /\ \A x, y \in S : x # y => <<x, y>> \in R \/ <<y, x>> \in R
    /\ \A x, y, z \in S : <<x, y>> \in R /\ <<y, z>> \in R => <<x, z>> \in R

Lists(s, S) ==
    /\ s \in [1..Cardinality(S) -> S]
    /\ \A x \in S : \E k \in 1..Cardinality(S) : s[k] = x
    /\ \A j, k \in 1..Cardinality(S) : s[j] = s[k] => j = k

LEMMA InOrderLists ==
    ASSUME NEW S, IsFiniteSet(S), NEW R, IsOrder(S, R)
    PROVE  Lists(InOrder(S, R), S)
<1> DEFINE n == Cardinality(S)
           Below(x) == {y \in S : <<y, x>> \in R}
           rank == [x \in S |-> Cardinality(Below(x))]
           at(k) == CHOOSE x \in S : Cardinality(Below(x)) = k - 1
           s == InOrder(S, R)
<1>1. n \in Nat
  BY FS_CardinalityType
<1>2. ASSUME NEW x \in S
      PROVE  /\ IsFiniteSet(Below(x)) /\ Cardinality(Below(x)) \in Nat
             /\ Cardinality(Below(x)) < n
  <2>1. Below(x) \in SUBSET S /\ Below(x) # S
    BY DEF IsOrder
  <2> HIDE DEF Below
  <2>2. IsFiniteSet(Below(x)) /\ Cardinality(Below(x)) <= n /\ Cardinality(Below(x)) # n
    BY <2>1, FS_Subset
  <2> QED
    BY <1>1, <2>2, FS_CardinalityType
<1>3. ASSUME NEW x \in S, NEW y \in S, <<x, y>> \in R
      PROVE  Cardinality(Below(x)) # Cardinality(Below(y))
  <2>1. Below(x) \in SUBSET Below(y) /\ Below(x) # Below(y)
    BY <1>3 DEF IsOrder
  <2>2. IsFiniteSet(Below(y))
    BY <1>2
  <2> HIDE DEF Below
  <2> QED
    BY <2>1, <2>2, FS_Subset
<1> HIDE DEF Below
<1>4. \A x, y \in S : rank[x] = rank[y] => x = y
  BY <1>3 DEF IsOrder
<1>5. rank \in [S -> 0 .. n - 1]
  BY <1>1, <1>2
<1>6. rank \in Injection(S, 0 .. n - 1)
  BY <1>4, <1>5 DEF Injection, IsInjective
<1>7. IsFiniteSet(0 .. n - 1) /\ Cardinality(0 .. n - 1) = n
  BY <1>1, FS_Interval
<1>8. \A k \in 0 .. n - 1 : \E x \in S : rank[x] = k
  <2> HIDE DEF n, rank
  <2>1. rank \in Surjection(S, 0 .. n - 1)
    BY <1>6, <1>7, FS_Injection DEF n
  <2> QED
    BY <2>1 DEF Surjection
<1>9. s = [k \in 1 .. n |-> at(k)]
  BY Zenon DEF InOrder, Below
<1>10. \A k \in 1 .. n : at(k) \in S /\ rank[at(k)] = k - 1
  <2> SUFFICES ASSUME NEW k \in 1 .. n
               PROVE  at(k) \in S /\ rank[at(k)] = k - 1
    OBVIOUS
  <2>1. \E x \in S : Cardinality(Below(x)) = k - 1
    BY <1>1, <1>8
  <2> QED
    BY <2>1
<1> HIDE DEF at
<1> HIDE DEF s, rank, n
<1>11. s \in [1 .. n -> S]
  BY <1>9, <1>10
<1>12. \A k \in 1 .. n : rank[s[k]] = k - 1
  BY <1>9, <1>10
<1>13. ASSUME NEW x \in S
       PROVE  \E k \in 1 .. n : s[k] = x
  <2>1. rank[x] + 1 \in 1 .. n /\ rank[s[rank[x] + 1]] = rank[x] /\ s[rank[x] + 1] \in S
    BY <1>1, <1>5, <1>11, <1>12
  <2> QED
    BY <1>4, <2>1
<1>14. \A j, k \in 1 .. n : s[j] = s[k] => j = k
  BY <1>1, <1>12
<1> QED
  BY <1>11, <1>13, <1>14 DEF Lists, s, n

LEMMA LineOrderLists ==
    ASSUME NEW S, IsFiniteSet(S), S \subseteq Nat, NEW f, \A x \in S : f[x].line \in Nat
    PROVE  Lists(InLineOrder(S, f), S)
<1> DEFINE R == {p \in S \X S : \/ f[p[1]].line < f[p[2]].line
                                \/ f[p[1]].line = f[p[2]].line /\ p[1] < p[2]}
<1>1. \A x, y \in S : <<x, y>> \in R <=> \/ f[x].line < f[y].line
                                         \/ f[x].line = f[y].line /\ x < y
  OBVIOUS
<1>2. InLineOrder(S, f) = InOrder(S, R)
  BY Zenon DEF InLineOrder
<1> HIDE DEF R
<1>3. IsOrder(S, R)
  BY <1>1 DEF IsOrder
<1> QED
  BY <1>2, <1>3, InOrderLists

-----------------------------------------------------------------------------
(* Pairing: no finding is used twice.                                         *)

Matching(P) == \A p, q \in P : p[1] = q[1] \/ p[2] = q[2] => p = q

\* The recursion of TakeCertain over the first n findings of order.
Turns(g, n, order, B, same) ==
    [k \in 0 .. n |-> IF k = 0 THEN {} ELSE TakeOne(g[k - 1], order[k], B, same)]

LEMMA TakenExists ==
    ASSUME NEW n \in Nat, NEW order, NEW B, NEW same
    PROVE  \E g : g = Turns(g, n, order, B, same)
<1> DEFINE step(g, k) == IF k = 0 THEN {} ELSE TakeOne(g[k - 1], order[k], B, same)
           Fits(g, m) == g = [k \in 0 .. m |-> step(g, k)]
           Good == {m \in Nat : \E g : Fits(g, m)}
<1>1. 0 \in Good
  <2> DEFINE g == [k \in 0 .. 0 |-> {}]
  <2>1. \A k \in 0 .. 0 : step(g, k) = {}
    OBVIOUS
  <2>2. Fits(g, 0)
    BY <2>1
  <2> QED
    BY <2>2
<1>2. ASSUME NEW m \in Nat, m \in Good
      PROVE  m + 1 \in Good
  <2>1. PICK g : Fits(g, m)
    BY <1>2
  <2> DEFINE h == [k \in 0 .. m + 1 |-> step(g, k)]
  <2>2. \A k \in 0 .. m : g[k] = step(g, k)
    BY <2>1
  <2> HIDE DEF step
  <2>3. \A k \in 0 .. m : h[k] = g[k]
    BY <2>2
  <2> HIDE DEF h
  <2>4. \A k \in 0 .. m + 1 : step(h, k) = step(g, k)
    <3> SUFFICES ASSUME NEW k \in 0 .. m + 1, k # 0
                 PROVE  step(h, k) = step(g, k)
      BY DEF step
    <3>1. h[k - 1] = g[k - 1]
      BY <2>3
    <3> QED
      BY <3>1 DEF step
  <2>5. Fits(h, m + 1)
    BY <2>4 DEF h
  <2> QED
    BY <2>5
<1> HIDE DEF Good
<1>3. Nat \subseteq Good
  BY <1>1, <1>2, SetInduction
<1>4. n \in Good
  BY <1>3
<1>5. PICK g : Fits(g, n)
  BY <1>4 DEF Good
<1>6. g = Turns(g, n, order, B, same)
  BY <1>5, Zenon DEF Turns
<1> QED
  BY <1>6

LEMMA TakeOneKeeps ==
    ASSUME NEW B, NEW H, IsFiniteSet(B), NEW same, NEW P \in SUBSET (B \X H), Matching(P),
           NEW h \in H, \A p \in P : p[2] # h
    PROVE  LET Q == TakeOne(P, h, B, same) IN
           /\ Q \in SUBSET (B \X H) /\ Matching(Q)
           /\ \A p \in Q : p \in P \/ p[2] = h
<1> DEFINE C == {b \in B : same[<<b, h>>] = "unchanged" /\ \A p \in P : p[1] # b}
<1>1. CASE Cardinality(C) = 1
  <2>1. IsFiniteSet(C)
    BY FS_Subset
  <2>2. PICK b : C = {b}
    BY <1>1, <2>1, FS_Singleton
  <2>3. TakeOne(P, h, B, same) = P \union (C \X {h})
    BY <1>1 DEF TakeOne
  <2>4. b \in B /\ \A p \in P : p[1] # b
    BY <2>2
  <2> HIDE DEF C
  <2>5. TakeOne(P, h, B, same) = P \union {<<b, h>>}
    BY <2>2, <2>3
  <2> QED
    BY <2>4, <2>5 DEF Matching
<1>2. CASE Cardinality(C) # 1
  <2>1. TakeOne(P, h, B, same) = P
    BY <1>2, Zenon DEF TakeOne
  <2> QED
    BY <2>1
<1> QED
  BY <1>1, <1>2

LEMMA ListLen ==
    ASSUME NEW S, IsFiniteSet(S), NEW s, Lists(s, S)
    PROVE  Len(s) = Cardinality(S) /\ DOMAIN s = 1 .. Cardinality(S)
<1>1. Cardinality(S) \in Nat
  BY FS_CardinalityType
<1>2. s \in [1 .. Cardinality(S) -> S]
  BY DEF Lists
<1>3. s \in Seq(S)
  BY <1>1, <1>2
<1> QED
  BY <1>1, <1>2, <1>3

LEMMA TakeCertainPairs ==
    ASSUME NEW B, NEW H, IsFiniteSet(B), IsFiniteSet(H), NEW same, NEW req,
           Lists(InLineOrder(H, req.head), H)
    PROVE  /\ TakeCertain(H, B, same, req) \in SUBSET (B \X H)
           /\ Matching(TakeCertain(H, B, same, req))
<1> DEFINE order == InLineOrder(H, req.head)
           n == Cardinality(H)
           Rec(g) == Turns(g, n, order, B, same)
           taken == CHOOSE g : g = Rec(g)
<1>1. n \in Nat /\ Len(order) = n
  BY ListLen, FS_CardinalityType
<1>2. TakeCertain(H, B, same, req) = taken[n]
  <2>1. TakeCertain(H, B, same, req) =
          (CHOOSE g : g = [k \in 0 .. Len(order) |->
                             IF k = 0 THEN {} ELSE TakeOne(g[k - 1], order[k], B, same)])[Len(order)]
    BY Zenon DEF TakeCertain
  <2> QED
    BY <1>1, <2>1, Zenon DEF Turns
<1>3. taken = Rec(taken)
  <2>1. \E g : g = Rec(g)
    <3> HIDE DEF order, n
    <3> QED
      BY <1>1, TakenExists
  <2> HIDE DEF Rec
  <2> QED
    BY <2>1
<1>4. \A k \in 1 .. n : order[k] \in H
  BY DEF Lists
<1>5. \A j, k \in 1 .. n : order[j] = order[k] => j = k
  BY DEF Lists
<1> HIDE DEF order, n, taken
<1>6. taken[0] = {} /\ \A k \in 1 .. n : taken[k] = TakeOne(taken[k - 1], order[k], B, same)
  <2>1. \A k \in 0 .. n : taken[k] = IF k = 0 THEN {} ELSE TakeOne(taken[k - 1], order[k], B, same)
    BY <1>3 DEF Turns
  <2> QED
    BY <1>1, <2>1
<1> HIDE DEF Rec
<1> DEFINE Fine(k) == /\ taken[k] \in SUBSET (B \X H) /\ Matching(taken[k])
                      /\ \A p \in taken[k] : \E j \in 1 .. k : p[2] = order[j]
           Good == {k \in Nat : k <= n => Fine(k)}
<1>7. 0 \in Good
  BY <1>6 DEF Matching
<1>8. ASSUME NEW k \in Nat, k \in Good
      PROVE  k + 1 \in Good
  <2> SUFFICES ASSUME k + 1 <= n
               PROVE  Fine(k + 1)
    OBVIOUS
  <2>1. Fine(k) /\ k + 1 \in 1 .. n
    BY <1>1, <1>8
  <2> DEFINE P == taken[k]
             h == order[k + 1]
  <2>2. taken[k + 1] = TakeOne(P, h, B, same) /\ h \in H
    BY <1>1, <1>4, <1>6, <2>1
  <2>3. \A p \in P : p[2] # h
    BY <1>1, <1>5, <2>1
  <2>4. P \in SUBSET (B \X H) /\ Matching(P)
    BY <2>1
  <2>5. \A p \in P : \E j \in 1 .. k : p[2] = order[j]
    BY <2>1
  <2> HIDE DEF P, h, Fine
  <2>6. /\ taken[k + 1] \in SUBSET (B \X H) /\ Matching(taken[k + 1])
        /\ \A p \in taken[k + 1] : p \in P \/ p[2] = h
    BY <2>2, <2>3, <2>4, TakeOneKeeps
  <2>7. \A p \in taken[k + 1] : \E j \in 1 .. k + 1 : p[2] = order[j]
    BY <2>5, <2>6 DEF h
  <2> QED
    BY <2>6, <2>7 DEF Fine
<1> HIDE DEF Good
<1>9. n \in Good
  BY <1>1, <1>7, <1>8, SetInduction
<1> QED
  BY <1>1, <1>2, <1>9 DEF Good

LEMMA PairOffPairs ==
    ASSUME NEW S, NEW T, IsFiniteSet(S), IsFiniteSet(T), NEW s, NEW t, Lists(s, S), Lists(t, T)
    PROVE  PairOff(s, t) \in SUBSET (S \X T) /\ Matching(PairOff(s, t))
<1>1. DOMAIN s = 1 .. Cardinality(S) /\ DOMAIN t = 1 .. Cardinality(T)
  BY ListLen
<1>2. /\ \A k \in DOMAIN s : s[k] \in S
      /\ \A k \in DOMAIN t : t[k] \in T
      /\ \A j, k \in DOMAIN s : s[j] = s[k] => j = k
      /\ \A j, k \in DOMAIN t : t[j] = t[k] => j = k
  BY <1>1 DEF Lists
<1> QED
  BY <1>2 DEF PairOff, Matching

\* What a partition of findings needs: finitely many, with line numbers.
Findable(S, f) == IsFiniteSet(S) /\ S \subseteq Nat /\ \A x \in S : f[x].line \in Nat

LEMMA SubsetFindable ==
    ASSUME NEW S, NEW f, Findable(S, f), NEW T \in SUBSET S
    PROVE  Findable(T, f)
BY FS_Subset DEF Findable

LEMMA PairsMatch ==
    ASSUME NEW B, NEW H, NEW same, NEW req, Findable(B, req.base), Findable(H, req.head)
    PROVE  /\ continuity_compatible_pairs(B, H, same, req) \in SUBSET (B \X H)
           /\ Matching(continuity_compatible_pairs(B, H, same, req))
<1> DEFINE P == TakeCertain(H, B, same, req)
           S == B \ {p[1] : p \in P}
           T == H \ {p[2] : p \in P}
           rest == PairOff(InLineOrder(S, req.base), InLineOrder(T, req.head))
<1>1. Lists(InLineOrder(H, req.head), H)
  BY LineOrderLists DEF Findable
<1>2. P \in SUBSET (B \X H) /\ Matching(P)
  BY <1>1, TakeCertainPairs DEF Findable
<1>3. Findable(S, req.base) /\ Findable(T, req.head)
  BY SubsetFindable
<1>4. continuity_compatible_pairs(B, H, same, req) = P \union rest
  BY Zenon DEF continuity_compatible_pairs, WithRest
<1>5. \A p \in P : p[1] \notin S /\ p[2] \notin T
  OBVIOUS
<1>6. S \subseteq B /\ T \subseteq H
  OBVIOUS
<1> HIDE DEF P, S, T
<1>7. rest \in SUBSET (S \X T) /\ Matching(rest)
  <2>1. Lists(InLineOrder(S, req.base), S) /\ Lists(InLineOrder(T, req.head), T)
    BY <1>3, LineOrderLists DEF Findable
  <2> QED
    BY <1>3, <2>1, PairOffPairs DEF Findable
<1> HIDE DEF rest
<1>8. P \union rest \in SUBSET (B \X H)
  BY <1>2, <1>6, <1>7
<1>9. \A q \in rest : q[1] \in S /\ q[2] \in T
  BY <1>7
<1>10. Matching(P \union rest)
  BY <1>2, <1>5, <1>7, <1>9 DEF Matching
<1> QED
  BY <1>4, <1>8, <1>10

-----------------------------------------------------------------------------
(* One partition (_classify_partition): the findings of one kind, which is an *)
(* identity and a severity.                                                   *)

HeadStates == {"introduced", "unchanged", "unknown"}
States == HeadStates \union {"fixed"}

\* r sorts the findings B of the base and H of the head.
Sorts(r, B, H) ==
    /\ DOMAIN r = States
    /\ \A x \in States : r[x] \subseteq ({"base"} \X B) \union ({"head"} \X H)
    /\ r.fixed \subseteq {"base"} \X B
    /\ \A h \in H : \E x \in HeadStates : <<"head", h>> \in r[x]
    /\ \A x, y \in States : x # y => r[x] \intersect r[y] = {}

\* r and the pairs it was made from: a base finding that is nowhere is paired, and
\* an unchanged one is paired with a finding it continues.
Follows(r, B, P, same) ==
    /\ \A b \in B : <<"base", b>> \in r.fixed \union r.unknown \/ \E h : <<b, h>> \in P
    /\ \A ref \in r.unchanged : \E p \in P : ref = <<"head", p[2]>> /\ same[p] = "unchanged"

LEMMA ContinuityStates ==
    ASSUME NEW b, NEW h, NEW req
    PROVE  continuity(b, h, req) \in HeadStates
BY DEF continuity, continuity_decision, Decide, HeadStates

LEMMA PartitionSorts ==
    ASSUME NEW B, NEW H, NEW P \in SUBSET (B \X H), Matching(P), NEW same,
           \A p \in P : same[p] \in HeadStates, NEW req
    PROVE  /\ Sorts(ClassifyPairs(B, H, P, same, req), B, H)
           /\ Follows(ClassifyPairs(B, H, P, same, req), B, P, same)
<1> DEFINE paired(c) == {<<"head", p[2]>> : p \in {q \in P : same[q] = c}}
           removed == B \ {p[1] : p \in P}
           lost == {b \in removed : RemovedIsUnknown(req.base[b], req)}
           alone == H \ {p[2] : p \in P}
           r == ClassifyPairs(B, H, P, same, req)
<1>1. r = [introduced |-> paired("introduced") \union {<<"head", h>> : h \in alone},
           unchanged |-> paired("unchanged"),
           fixed |-> {<<"base", b>> : b \in removed \ lost},
           unknown |-> paired("unknown") \union {<<"base", b>> : b \in lost}]
  BY Zenon DEF ClassifyPairs
<1>2. /\ lost \subseteq removed /\ removed \subseteq B /\ alone \subseteq H
      /\ \A b \in B : b \in removed \/ \E h : <<b, h>> \in P
      /\ \A h \in H : h \in alone \/ \E p \in P : p[2] = h
      /\ \A p \in P : p[2] \in H /\ p[2] \notin alone
  <2>1. \A p \in P : p[2] \in H /\ p = <<p[1], p[2]>>
    OBVIOUS
  <2>2. \A b \in B : b \in removed \/ \E p \in P : p[1] = b
    OBVIOUS
  <2>3. \A h \in H : h \in alone \/ \E p \in P : p[2] = h
    OBVIOUS
  <2>4. ASSUME NEW b \in B, b \notin removed
        PROVE  \E h : <<b, h>> \in P
    <3>1. PICK p \in P : p[1] = b
      BY <2>2, <2>4
    <3>2. p = <<b, p[2]>>
      BY <2>1, <3>1
    <3> QED
      BY <3>2
  <2> QED
    BY <2>1, <2>3, <2>4
<1>3. \A c, ref : ref \in paired(c) <=> \E p \in P : same[p] = c /\ ref = <<"head", p[2]>>
  OBVIOUS
<1> HIDE DEF removed, lost, alone, paired
<1>4. /\ DOMAIN r = States
      /\ r.introduced = paired("introduced") \union {<<"head", h>> : h \in alone}
      /\ r.unchanged = paired("unchanged")
      /\ r.fixed = {<<"base", b>> : b \in removed \ lost}
      /\ r.unknown = paired("unknown") \union {<<"base", b>> : b \in lost}
  BY <1>1 DEF States, HeadStates
<1> HIDE DEF r
<1>5. \A ref, c : ref \in paired(c) => \E h \in H : ref = <<"head", h>> /\ h \notin alone
  BY <1>2, <1>3
<1>6. \A x \in States : r[x] \subseteq ({"base"} \X B) \union ({"head"} \X H)
  BY <1>2, <1>4, <1>5 DEF States, HeadStates
<1>7. r.fixed \subseteq {"base"} \X B
  BY <1>2, <1>4
<1>8. ASSUME NEW h \in H
      PROVE  \E x \in HeadStates : <<"head", h>> \in r[x]
  <2>1. CASE h \in alone
    BY <1>4, <2>1 DEF HeadStates
  <2>2. CASE h \notin alone
    <3>1. PICK p \in P : p[2] = h
      BY <1>2, <2>2
    <3>2. <<"head", h>> \in paired(same[p]) /\ same[p] \in HeadStates
      BY <1>3, <3>1
    <3> QED
      BY <1>4, <3>2 DEF HeadStates
  <2> QED
    BY <2>1, <2>2
<1>9. \A c, d, ref : ref \in paired(c) /\ ref \in paired(d) => c = d
  <2> SUFFICES ASSUME NEW c, NEW d, NEW ref, ref \in paired(c), ref \in paired(d)
               PROVE  c = d
    OBVIOUS
  <2>1. PICK p \in P : same[p] = c /\ ref = <<"head", p[2]>>
    BY <1>3
  <2>2. PICK q \in P : same[q] = d /\ ref = <<"head", q[2]>>
    BY <1>3
  <2> QED
    BY <2>1, <2>2 DEF Matching
<1>10. \A x, y \in States : x # y => r[x] \intersect r[y] = {}
  <2>1. /\ r.introduced \intersect r.unchanged = {} /\ r.introduced \intersect r.unknown = {}
        /\ r.unchanged \intersect r.unknown = {}
    BY <1>4, <1>5, <1>9
  <2>2. /\ r.introduced \intersect r.fixed = {} /\ r.unchanged \intersect r.fixed = {}
        /\ r.unknown \intersect r.fixed = {}
    BY <1>4, <1>5
  <2> QED
    BY <2>1, <2>2 DEF States, HeadStates
<1>11. Follows(r, B, P, same)
  <2>1. \A b \in B : <<"base", b>> \in r.fixed \union r.unknown \/ \E h : <<b, h>> \in P
    BY <1>2, <1>4
  <2>2. \A ref \in r.unchanged : \E p \in P : ref = <<"head", p[2]>> /\ same[p] = "unchanged"
    BY <1>3, <1>4
  <2> QED
    BY <2>1, <2>2 DEF Follows
<1> QED
  BY <1>4, <1>6, <1>7, <1>8, <1>10, <1>11 DEF Sorts, r

-----------------------------------------------------------------------------
(* All findings of a request (classify_findings).                             *)

BaseKind(b, req) == <<Identity(req.base[b], <<>>), req.base[b].blocking>>
HeadKind(h, req) == <<Identity(req.head[h], req.renames), req.head[h].blocking>>
BaseOf(k, req) == {b \in DOMAIN req.base : BaseKind(b, req) = k}
HeadOf(k, req) == {h \in DOMAIN req.head : HeadKind(h, req) = k}
FindingKinds(req) ==
    {BaseKind(b, req) : b \in DOMAIN req.base} \union {HeadKind(h, req) : h \in DOMAIN req.head}

SameOf(k, req) == Continuities(BaseOf(k, req), HeadOf(k, req), req)
PairsOf(k, req) ==
    continuity_compatible_pairs(BaseOf(k, req), HeadOf(k, req), SameOf(k, req), req)

\* The sides have an identity with different severities.
Mixed(id, req) ==
    LET B == {b \in DOMAIN req.base : Identity(req.base[b], <<>>) = id}
        H == {h \in DOMAIN req.head : Identity(req.head[h], req.renames) = id}
    IN  /\ B # {} /\ H # {}
        /\ {req.base[b].blocking : b \in B} # {req.head[h].blocking : h \in H}

\* What the findings of one kind add to the result.
Filed(k, req) ==
    IF Mixed(k[1], req) THEN [Empty EXCEPT !.unknown = {<<"head", h>> : h \in HeadOf(k, req)}]
    ELSE ClassifyPairs(BaseOf(k, req), HeadOf(k, req), PairsOf(k, req), SameOf(k, req), req)

LEMMA CollectedIn ==
    ASSUME NEW parts, NEW x \in States, NEW ref
    PROVE  ref \in Collected(parts)[x] <=> \E r \in parts : ref \in r[x]
<1>1. Collected(parts)[x] = UNION {r[x] : r \in parts}
  BY DEF Collected, Empty, States, HeadStates
<1> QED
  BY <1>1

LEMMA IdentityFiled ==
    ASSUME NEW id, NEW req, NEW x \in States, NEW ref
    PROVE  ref \in classify_identity(id, req)[x] <=>
             \E k \in FindingKinds(req) : k[1] = id /\ ref \in Filed(k, req)[x]
<1> DEFINE B == {b \in DOMAIN req.base : Identity(req.base[b], <<>>) = id}
           H == {h \in DOMAIN req.head : Identity(req.head[h], req.renames) = id}
           severities == {req.base[b].blocking : b \in B} \union {req.head[h].blocking : h \in H}
           part(s) == classify_partition({b \in B : req.base[b].blocking = s},
                                         {h \in H : req.head[h].blocking = s}, req)
           heads == {<<"head", h>> : h \in H}
           mine(s) == {<<"head", h>> : h \in HeadOf(<<id, s>>, req)}
<1>1. classify_identity(id, req) = IF Mixed(id, req) THEN [Empty EXCEPT !.unknown = heads]
                                   ELSE Collected({part(s) : s \in severities})
  BY Zenon DEF classify_identity, Mixed
<1>2. \A s : /\ {b \in B : req.base[b].blocking = s} = BaseOf(<<id, s>>, req)
             /\ {h \in H : req.head[h].blocking = s} = HeadOf(<<id, s>>, req)
  BY DEF BaseOf, HeadOf, BaseKind, HeadKind
<1>3. \A s : <<id, s>> \in FindingKinds(req) <=> s \in severities
  BY DEF FindingKinds, BaseKind, HeadKind
<1>4. \A k \in FindingKinds(req) : k[1] = id => k = <<id, k[2]>>
  BY DEF FindingKinds, BaseKind, HeadKind
<1>5. \A s : part(s) = ClassifyPairs(BaseOf(<<id, s>>, req), HeadOf(<<id, s>>, req),
                                     PairsOf(<<id, s>>, req), SameOf(<<id, s>>, req), req)
  BY <1>2, Zenon DEF classify_partition, PartitionBy, PairsOf, SameOf
<1>6. \A s : <<id, s>>[1] = id
  OBVIOUS
<1>7. ref \in heads <=> \E s \in severities : ref \in mine(s)
  <2>1. \A h \in H : req.head[h].blocking \in severities /\ h \in HeadOf(<<id, req.head[h].blocking>>, req)
    BY DEF HeadOf, HeadKind
  <2>2. \A s : HeadOf(<<id, s>>, req) \subseteq H
    BY DEF HeadOf, HeadKind
  <2> HIDE DEF H, severities
  <2> QED
    BY <2>1, <2>2
<1> HIDE DEF B, H, severities, part, heads, mine
<1>8. (\E k \in FindingKinds(req) : k[1] = id /\ ref \in Filed(k, req)[x])
      <=> \E s \in severities : ref \in Filed(<<id, s>>, req)[x]
  BY <1>3, <1>4, <1>6
<1>9. CASE Mixed(id, req)
  <2>1. \A s : Filed(<<id, s>>, req) = [Empty EXCEPT !.unknown = mine(s)]
    BY <1>6, <1>9, Zenon DEF Filed, mine
  <2>2. classify_identity(id, req) = [Empty EXCEPT !.unknown = heads]
    BY <1>1, <1>9
  <2>3. \A S : [Empty EXCEPT !.unknown = S][x] = IF x = "unknown" THEN S ELSE {}
    BY DEF Empty, States, HeadStates
  <2>4. CASE x = "unknown"
    <3>1. classify_identity(id, req)[x] = heads /\ \A s : Filed(<<id, s>>, req)[x] = mine(s)
      BY <2>1, <2>2, <2>3, <2>4
    <3> QED
      BY <1>7, <1>8, <3>1
  <2>5. CASE x # "unknown"
    <3>1. classify_identity(id, req)[x] = {} /\ \A s : Filed(<<id, s>>, req)[x] = {}
      BY <2>1, <2>2, <2>3, <2>5
    <3> QED
      BY <1>8, <3>1
  <2> QED
    BY <2>4, <2>5
<1>10. CASE ~Mixed(id, req)
  <2>1. \A s : Filed(<<id, s>>, req) = part(s)
    BY <1>5, <1>6, <1>10, Zenon DEF Filed
  <2>2. classify_identity(id, req) = Collected({part(s) : s \in severities})
    BY <1>1, <1>10
  <2>3. ref \in classify_identity(id, req)[x] <=> \E r \in {part(s) : s \in severities} : ref \in r[x]
    BY <2>2, CollectedIn
  <2> QED
    BY <1>8, <2>1, <2>3
<1> QED
  BY <1>9, <1>10

LEMMA FindingsFiled ==
    ASSUME NEW req, ~req.ambiguous, NEW x \in States, NEW ref
    PROVE  ref \in classify_findings(req)[x] <=> \E k \in FindingKinds(req) : ref \in Filed(k, req)[x]
<1> DEFINE identities == {Identity(f, <<>>) : f \in Range(req.base)}
                         \union {Identity(f, req.renames) : f \in Range(req.head)}
<1>1. classify_findings(req) = Collected({classify_identity(id, req) : id \in identities})
  BY Zenon DEF classify_findings
<1>2. \A k \in FindingKinds(req) : k[1] \in identities
  BY DEF FindingKinds, BaseKind, HeadKind, Range
<1> HIDE DEF identities
<1>3. ref \in classify_findings(req)[x] <=> \E id \in identities : ref \in classify_identity(id, req)[x]
  BY <1>1, CollectedIn
<1>4. ref \in classify_findings(req)[x] <=>
        \E id \in identities : \E k \in FindingKinds(req) : k[1] = id /\ ref \in Filed(k, req)[x]
  BY <1>3, IdentityFiled
<1> QED
  BY <1>2, <1>4

WellFormed(req) ==
    /\ \A p \in DOMAIN req.base_sources : req.base_sources[p] \in Seq(Range(req.base_sources[p]))
    /\ req.base \in Seq(Range(req.base)) /\ req.head \in Seq(Range(req.head))
    /\ \A b \in DOMAIN req.base : req.base[b].line \in Nat
    /\ \A h \in DOMAIN req.head : req.head[h].line \in Nat

LEMMA RequestFinite ==
    ASSUME NEW req, WellFormed(req)
    PROVE  Findable(DOMAIN req.base, req.base) /\ Findable(DOMAIN req.head, req.head)
<1>1. ASSUME NEW s, s \in Seq(Range(s))
      PROVE  DOMAIN s \subseteq Nat /\ IsFiniteSet(DOMAIN s)
  <2>1. Len(s) \in Nat /\ DOMAIN s = 1 .. Len(s)
    BY <1>1
  <2>2. IsFiniteSet(1 .. Len(s))
    BY <2>1, FS_Interval
  <2> QED
    BY <2>1, <2>2
<1> QED
  BY <1>1 DEF WellFormed, Findable

LEMMA KindPairs ==
    ASSUME NEW req, WellFormed(req), NEW k
    PROVE  /\ PairsOf(k, req) \in SUBSET (BaseOf(k, req) \X HeadOf(k, req))
           /\ Matching(PairsOf(k, req))
           /\ \A p \in PairsOf(k, req) :
                /\ SameOf(k, req)[p] = continuity(req.base[p[1]], req.head[p[2]], req)
                /\ SameOf(k, req)[p] \in HeadStates
<1>1. BaseOf(k, req) \in SUBSET DOMAIN req.base /\ HeadOf(k, req) \in SUBSET DOMAIN req.head
  BY DEF BaseOf, HeadOf
<1>2. Findable(BaseOf(k, req), req.base) /\ Findable(HeadOf(k, req), req.head)
  BY <1>1, RequestFinite, SubsetFindable
<1>3. /\ PairsOf(k, req) \in SUBSET (BaseOf(k, req) \X HeadOf(k, req))
      /\ Matching(PairsOf(k, req))
  BY <1>2, PairsMatch DEF PairsOf
<1>4. \A p \in BaseOf(k, req) \X HeadOf(k, req) :
         SameOf(k, req)[p] = continuity(req.base[p[1]], req.head[p[2]], req)
  BY DEF SameOf, Continuities
<1> QED
  BY <1>3, <1>4, ContinuityStates

LEMMA FiledSorts ==
    ASSUME NEW req, WellFormed(req), NEW k
    PROVE  /\ Sorts(Filed(k, req), BaseOf(k, req), HeadOf(k, req))
           /\ ~Mixed(k[1], req) => Follows(Filed(k, req), BaseOf(k, req), PairsOf(k, req), SameOf(k, req))
<1>1. CASE Mixed(k[1], req)
  <2> DEFINE heads == {<<"head", h>> : h \in HeadOf(k, req)}
             r == [Empty EXCEPT !.unknown = heads]
  <2>1. Filed(k, req) = r
    BY <1>1 DEF Filed
  <2>2. /\ DOMAIN r = States
        /\ r.introduced = {} /\ r.fixed = {} /\ r.unchanged = {} /\ r.unknown = heads
    BY DEF Empty, States, HeadStates
  <2> HIDE DEF r
  <2>3. Sorts(r, BaseOf(k, req), HeadOf(k, req))
    BY <2>2 DEF Sorts, States, HeadStates
  <2> QED
    BY <1>1, <2>1, <2>3
<1>2. CASE ~Mixed(k[1], req)
  <2>1. Filed(k, req) = ClassifyPairs(BaseOf(k, req), HeadOf(k, req), PairsOf(k, req), SameOf(k, req), req)
    BY <1>2 DEF Filed
  <2> QED
    BY <2>1, KindPairs, PartitionSorts
<1> QED
  BY <1>1, <1>2

LEMMA FindingsDomain ==
    ASSUME NEW req
    PROVE  DOMAIN classify_findings(req) = States
<1>1. DOMAIN Empty = States
  BY DEF Empty, States, HeadStates
<1>2. \A parts : DOMAIN Collected(parts) = States
  BY <1>1 DEF Collected
<1>3. \A S : DOMAIN [Empty EXCEPT !.unknown = S] = States
  BY <1>1 DEF Empty
<1>4. \/ \E parts : classify_findings(req) = Collected(parts)
      \/ \E S : classify_findings(req) = [Empty EXCEPT !.unknown = S]
  BY Zenon DEF classify_findings
<1> QED
  BY <1>2, <1>3, <1>4

\* The references of the findings of the sides.
Bases(req) == {<<"base", b>> : b \in DOMAIN req.base}
Heads(req) == {<<"head", h>> : h \in DOMAIN req.head}

\* When the sides can be compared, every finding of the head is in one class.
LEMMA FindingsSort ==
    ASSUME NEW req, WellFormed(req), ~req.ambiguous
    PROVE  Sorts(classify_findings(req), DOMAIN req.base, DOMAIN req.head)
<1> DEFINE r == classify_findings(req)
           F(k) == Filed(k, req)
<1>1. \A k : Sorts(F(k), BaseOf(k, req), HeadOf(k, req))
  BY FiledSorts
<1>2. \A x \in States : \A ref : ref \in r[x] <=> \E k \in FindingKinds(req) : ref \in F(k)[x]
  BY FindingsFiled
<1>3. DOMAIN r = States
  BY FindingsDomain
<1> HIDE DEF r, F
<1>4. /\ \A k : BaseOf(k, req) \subseteq DOMAIN req.base /\ HeadOf(k, req) \subseteq DOMAIN req.head
      /\ \A h \in DOMAIN req.head : HeadKind(h, req) \in FindingKinds(req)
                                    /\ h \in HeadOf(HeadKind(h, req), req)
      /\ \A k, l : BaseOf(k, req) \intersect BaseOf(l, req) # {} => k = l
      /\ \A k, l : HeadOf(k, req) \intersect HeadOf(l, req) # {} => k = l
  BY DEF BaseOf, HeadOf, FindingKinds
<1>5. \A k : \A x \in States : F(k)[x] \subseteq ({"base"} \X BaseOf(k, req)) \union ({"head"} \X HeadOf(k, req))
  BY <1>1 DEF Sorts
<1>6. \A x \in States : r[x] \subseteq ({"base"} \X DOMAIN req.base) \union ({"head"} \X DOMAIN req.head)
  BY <1>2, <1>4, <1>5
<1>7. r.fixed \subseteq {"base"} \X DOMAIN req.base
  <2>1. \A ref \in r.fixed : \E k : ref \in F(k).fixed
    BY <1>2 DEF States
  <2>2. \A k : F(k).fixed \subseteq {"base"} \X BaseOf(k, req)
    BY <1>1 DEF Sorts
  <2> QED
    BY <1>4, <2>1, <2>2
<1>8. \A h \in DOMAIN req.head : \E x \in HeadStates : <<"head", h>> \in r[x]
  <2> SUFFICES ASSUME NEW h \in DOMAIN req.head
               PROVE  \E x \in HeadStates : <<"head", h>> \in r[x]
    OBVIOUS
  <2>1. PICK x \in HeadStates : <<"head", h>> \in F(HeadKind(h, req))[x]
    BY <1>1, <1>4 DEF Sorts
  <2> QED
    BY <1>2, <1>4, <2>1 DEF States
<1>9. ASSUME NEW x \in States, NEW y \in States, x # y
      PROVE  r[x] \intersect r[y] = {}
  <2> SUFFICES ASSUME NEW ref, ref \in r[x], ref \in r[y]
               PROVE  FALSE
    OBVIOUS
  <2>1. PICK k \in FindingKinds(req) : ref \in F(k)[x]
    BY <1>2
  <2>2. PICK l \in FindingKinds(req) : ref \in F(l)[y]
    BY <1>2
  <2>3. k = l
    <3>1. ref \in ({"base"} \X BaseOf(k, req)) \union ({"head"} \X HeadOf(k, req))
      BY <1>5, <2>1
    <3>2. ref \in ({"base"} \X BaseOf(l, req)) \union ({"head"} \X HeadOf(l, req))
      BY <1>5, <2>2
    <3> QED
      BY <1>4, <3>1, <3>2
  <2> QED
    BY <1>1, <1>9, <2>1, <2>2, <2>3 DEF Sorts
<1> QED
  BY <1>3, <1>6, <1>7, <1>8, <1>9 DEF Sorts, r

\* A base finding that is neither fixed nor unknown has a head finding of its own.
LEMMA DroppedArePaired ==
    ASSUME NEW req, WellFormed(req), ~req.ambiguous,
           \A k \in FindingKinds(req) : ~Mixed(k[1], req)
    PROVE  LET r == classify_findings(req) IN
           Cardinality(Bases(req) \ (r.fixed \union r.unknown)) <= Cardinality(Heads(req))
<1> DEFINE r == classify_findings(req)
           D == Bases(req) \ (r.fixed \union r.unknown)
           at(ref) == <<"head", CHOOSE h : <<ref[2], h>> \in PairsOf(BaseKind(ref[2], req), req)>>
           partner == [ref \in D |-> at(ref)]
<1>1. ASSUME NEW ref \in D
      PROVE  \E b, h : /\ b \in DOMAIN req.base /\ ref = <<"base", b>>
                       /\ <<b, h>> \in PairsOf(BaseKind(b, req), req)
  <2>1. PICK b \in DOMAIN req.base : ref = <<"base", b>>
    BY DEF Bases
  <2> DEFINE k == BaseKind(b, req)
  <2>2. k \in FindingKinds(req) /\ b \in BaseOf(k, req)
    BY DEF FindingKinds, BaseOf
  <2>3. Follows(Filed(k, req), BaseOf(k, req), PairsOf(k, req), SameOf(k, req))
    BY <2>2, FiledSorts
  <2>4. ref \notin Filed(k, req).fixed \union Filed(k, req).unknown
    BY <2>2, FindingsFiled DEF States, HeadStates
  <2> HIDE DEF k
  <2>5. \E h : <<b, h>> \in PairsOf(k, req)
    BY <2>1, <2>2, <2>3, <2>4 DEF Follows
  <2> QED
    BY <2>1, <2>5 DEF k
<1> HIDE DEF D
<1>2. ASSUME NEW ref \in D
      PROVE  \E b, h :
               /\ b \in DOMAIN req.base /\ ref = <<"base", b>> /\ partner[ref] = <<"head", h>>
               /\ <<b, h>> \in PairsOf(BaseKind(b, req), req)
  <2>1. PICK b \in DOMAIN req.base : /\ ref = <<"base", b>>
                                     /\ \E h : <<b, h>> \in PairsOf(BaseKind(b, req), req)
    BY <1>1
  <2>2. partner[ref] = <<"head", CHOOSE h : <<b, h>> \in PairsOf(BaseKind(b, req), req)>>
    BY <2>1
  <2> QED
    BY <2>1, <2>2
<1>3. \A k, b, h : <<b, h>> \in PairsOf(k, req) => h \in DOMAIN req.head /\ HeadKind(h, req) = k
  BY KindPairs DEF HeadOf
<1>4. partner = [ref \in D |-> partner[ref]]
  <2> HIDE DEF at
  <2> QED
    OBVIOUS
<1> HIDE DEF partner
<1>5. partner \in [D -> Heads(req)]
  BY <1>2, <1>3, <1>4 DEF Heads
<1>6. ASSUME NEW ref \in D, NEW other \in D, partner[ref] = partner[other]
      PROVE  ref = other
  <2>1. PICK b, h : /\ b \in DOMAIN req.base /\ ref = <<"base", b>> /\ partner[ref] = <<"head", h>>
                    /\ <<b, h>> \in PairsOf(BaseKind(b, req), req)
    BY <1>2
  <2>2. PICK c, i : /\ c \in DOMAIN req.base /\ other = <<"base", c>> /\ partner[other] = <<"head", i>>
                    /\ <<c, i>> \in PairsOf(BaseKind(c, req), req)
    BY <1>2
  <2>3. h = i
    BY <1>6, <2>1, <2>2
  <2>4. BaseKind(b, req) = BaseKind(c, req)
    BY <1>3, <2>1, <2>2, <2>3
  <2>5. Matching(PairsOf(BaseKind(b, req), req))
    BY KindPairs
  <2>6. b = c
    BY <2>1, <2>2, <2>3, <2>4, <2>5 DEF Matching
  <2> QED
    BY <2>1, <2>2, <2>6
<1>7. partner \in Injection(D, Heads(req))
  BY <1>5, <1>6 DEF Injection, IsInjective
<1>8. IsFiniteSet(Heads(req))
  <2>1. IsFiniteSet(DOMAIN req.head)
    BY RequestFinite DEF Findable
  <2> DEFINE f == [h \in DOMAIN req.head |-> <<"head", h>>]
  <2>2. f \in Surjection(DOMAIN req.head, Heads(req))
    BY DEF Surjection, Heads
  <2> QED
    BY <2>1, <2>2, FS_Surjection
<1>9. Cardinality(D) <= Cardinality(Heads(req))
  BY <1>7, <1>8, FS_Injection
<1> QED
  BY <1>9 DEF D

\* What NoFindingVanishes says of one request and its result.
Accounted(r, req) ==
    /\ Heads(req) \subseteq r.introduced \union r.unchanged \union r.unknown
    /\ \A x, y \in DOMAIN r : x # y => r[x] \intersect r[y] = {}
    /\ r.fixed \subseteq Bases(req)
    /\ \/ Cardinality(Bases(req) \ (r.fixed \union r.unknown)) <= Cardinality(Heads(req))
       \/ Heads(req) \intersect r.unknown # {}

LEMMA FindingsAccounted ==
    ASSUME NEW req, WellFormed(req)
    PROVE  Accounted(classify_findings(req), req)
<1> DEFINE r == classify_findings(req)
<1>1. CASE req.ambiguous
  <2> DEFINE S == IF req.head # <<>> THEN Heads(req) ELSE Bases(req)
  <2>1. r = [Empty EXCEPT !.unknown = S]
    BY <1>1, Zenon DEF classify_findings, Heads, Bases
  <2>2. CASE req.head = <<>>
    <3>1. S = Bases(req) /\ Heads(req) = {}
      BY <2>2 DEF Heads
    <3>2. /\ r.introduced = {} /\ r.fixed = {} /\ r.unchanged = {} /\ r.unknown = Bases(req)
          /\ DOMAIN r = States
      BY <2>1, <3>1 DEF Empty, States, HeadStates
    <3> HIDE DEF r
    <3>3. Bases(req) \ (r.fixed \union r.unknown) = {}
      BY <3>2
    <3>4. Cardinality(Bases(req) \ (r.fixed \union r.unknown)) <= Cardinality(Heads(req))
      BY <3>1, <3>3, FS_EmptySet
    <3>5. Accounted(r, req)
      BY <3>1, <3>2, <3>4 DEF Accounted, States, HeadStates
    <3> QED
      BY <3>5 DEF r
  <2>3. CASE req.head # <<>>
    <3>1. S = Heads(req) /\ Heads(req) # {}
      <4>1. req.head \in Seq(Range(req.head))
        BY DEF WellFormed
      <4>2. 1 \in DOMAIN req.head
        BY <2>3, <4>1
      <4> QED
        BY <2>3, <4>2 DEF Heads
    <3>2. /\ r.introduced = {} /\ r.fixed = {} /\ r.unchanged = {} /\ r.unknown = Heads(req)
          /\ DOMAIN r = States
      BY <2>1, <3>1 DEF Empty, States, HeadStates
    <3> HIDE DEF r
    <3> QED
      BY <3>1, <3>2 DEF Accounted, States, HeadStates, r
  <2> QED
    BY <2>2, <2>3
<1>2. CASE ~req.ambiguous
  <2>1. Sorts(r, DOMAIN req.base, DOMAIN req.head)
    BY <1>2, FindingsSort
  <2>2. \A k \in FindingKinds(req) : Mixed(k[1], req) => Heads(req) \intersect r.unknown # {}
    <3> SUFFICES ASSUME NEW k \in FindingKinds(req), Mixed(k[1], req)
                 PROVE  Heads(req) \intersect r.unknown # {}
      OBVIOUS
    <3>1. PICK h \in DOMAIN req.head : Identity(req.head[h], req.renames) = k[1]
      BY DEF Mixed
    <3> DEFINE l == HeadKind(h, req)
    <3>2. l \in FindingKinds(req) /\ l[1] = k[1] /\ h \in HeadOf(l, req)
      BY <3>1 DEF HeadKind, FindingKinds, HeadOf
    <3> HIDE DEF l
    <3>3. Filed(l, req) = [Empty EXCEPT !.unknown = {<<"head", i>> : i \in HeadOf(l, req)}]
      BY <3>2 DEF Filed
    <3>4. <<"head", h>> \in Filed(l, req).unknown
      BY <3>2, <3>3 DEF Empty
    <3>5. <<"head", h>> \in r.unknown
      BY <1>2, <3>2, <3>4, FindingsFiled DEF States, HeadStates
    <3> QED
      BY <3>5 DEF Heads
  <2>3. \/ Cardinality(Bases(req) \ (r.fixed \union r.unknown)) <= Cardinality(Heads(req))
        \/ Heads(req) \intersect r.unknown # {}
    BY <1>2, <2>2, DroppedArePaired
  <2> HIDE DEF r
  <2>4. Heads(req) \subseteq r.introduced \union r.unchanged \union r.unknown
    BY <2>1 DEF Sorts, Heads, HeadStates
  <2>5. r.fixed \subseteq Bases(req)
    BY <2>1 DEF Sorts, Bases
  <2>6. \A x, y \in DOMAIN r : x # y => r[x] \intersect r[y] = {}
    BY <2>1 DEF Sorts
  <2> QED
    BY <2>3, <2>4, <2>5, <2>6 DEF Accounted, r
<1> QED
  BY <1>1, <1>2

LEMMA OneOccurrence ==
    ASSUME NEW s, s \in Seq(Range(s)), NEW i \in 1 .. Len(s), NEW j \in 1 .. Len(s),
           s[i] = s[j], Occurrences(s, s[i]) = 1
    PROVE  i = j
<1> DEFINE S == {k \in 1 .. Len(s) : s[k] = s[i]}
<1>1. Len(s) \in Nat
  OBVIOUS
<1>2. IsFiniteSet(S)
  <2>1. IsFiniteSet(1 .. Len(s))
    BY <1>1, FS_Interval
  <2>2. S \in SUBSET (1 .. Len(s))
    OBVIOUS
  <2> HIDE DEF S
  <2> QED
    BY <2>1, <2>2, FS_Subset
<1>3. Cardinality(S) = 1
  BY DEF Occurrences
<1>4. \E x : S = {x}
  BY <1>2, <1>3, FS_Singleton
<1> QED
  BY <1>4

\* Two findings of one base file that a head finding continues are on one line.
LEMMA ContinuedFromOneLine ==
    ASSUME NEW req, WellFormed(req), NEW b, NEW c, NEW h, b.path = c.path,
           continuity(b, h, req) = "unchanged", continuity(c, h, req) = "unchanged"
    PROVE  b.line = c.line
<1> DEFINE base == req.base_sources[b.path]
           head == req.head_sources[h.path]
<1>1. b.path \in DOMAIN req.base_sources
  BY DEF continuity
<1>2. ASSUME NEW f, f.path = b.path, continuity(f, h, req) = "unchanged"
      PROVE  /\ f.line \in 1 .. Len(base) /\ continuity_decision(base, head, f.line, h.line) = "unchanged"
  <2>1. continuity(f, h, req) =
          IF f.path \notin DOMAIN req.base_sources \/ h.path \notin DOMAIN req.head_sources
          THEN "unknown"
          ELSE IF \/ (Len(base) + 1) * (Len(head) + 1) > MaxCells
                  \/ f.line \notin 1 .. Len(base) \/ h.line \notin 1 .. Len(head)
               THEN "unknown" ELSE continuity_decision(base, head, f.line, h.line)
    BY <1>2, Zenon DEF continuity
  <2> HIDE DEF base, head
  <2> QED
    BY <1>2, <2>1
<1>3. ASSUME NEW i, continuity_decision(base, head, i, h.line) = "unchanged"
      PROVE  Occurrences(base, base[i]) = 1 /\ base[i] = head[h.line]
  <2>1. Occurrences(base, base[i]) = 1 /\ line_anchor(base, i) = line_anchor(head, h.line)
    BY <1>3 DEF continuity_decision
  <2> QED
    BY <2>1 DEF line_anchor
<1>4. base \in Seq(Range(base))
  BY <1>1 DEF WellFormed
<1>5. /\ b.line \in 1 .. Len(base) /\ c.line \in 1 .. Len(base)
      /\ base[b.line] = head[h.line] /\ base[c.line] = head[h.line]
      /\ Occurrences(base, base[b.line]) = 1
  BY <1>2, <1>3
<1> HIDE DEF base
<1> QED
  BY <1>4, <1>5, OneOccurrence

\* What UnchangedIsBacked says of one base finding, a request and its result.
Claimed(b, r, req) ==
    {h \in DOMAIN req.head : /\ <<"head", h>> \in r.unchanged
                             /\ HeadKind(h, req) = BaseKind(b, req)
                             /\ continuity(req.base[b], req.head[h], req) = "unchanged"}
Backing(b, req) ==
    {c \in DOMAIN req.base : /\ BaseKind(c, req) = BaseKind(b, req)
                             /\ req.base[c].line = req.base[b].line}

LEMMA FindingsBacked ==
    ASSUME NEW req, WellFormed(req), NEW b \in DOMAIN req.base
    PROVE  Cardinality(Claimed(b, classify_findings(req), req)) <= Cardinality(Backing(b, req))
<1> DEFINE r == classify_findings(req)
           U == Claimed(b, r, req)
           k == BaseKind(b, req)
           P == PairsOf(k, req)
           at(h) == CHOOSE c : <<c, h>> \in P
           partner == [h \in U |-> at(h)]
<1>1. ASSUME NEW h \in U
      PROVE  \E c \in Backing(b, req) : <<c, h>> \in P
  <2>1. /\ h \in DOMAIN req.head /\ <<"head", h>> \in r.unchanged
        /\ HeadKind(h, req) = k /\ continuity(req.base[b], req.head[h], req) = "unchanged"
    BY DEF Claimed
  <2>2. ~req.ambiguous
    <3> SUFFICES ASSUME req.ambiguous
                 PROVE  FALSE
      OBVIOUS
    <3>1. PICK S : r = [Empty EXCEPT !.unknown = S]
      BY Zenon DEF classify_findings
    <3>2. r.unchanged = {}
      BY <3>1 DEF Empty
    <3> QED
      BY <2>1, <3>2
  <2>3. PICK l \in FindingKinds(req) : <<"head", h>> \in Filed(l, req).unchanged
    BY <2>1, <2>2, FindingsFiled DEF States, HeadStates
  <2>4. h \in HeadOf(l, req)
    BY <2>3, FiledSorts DEF Sorts, States, HeadStates
  <2>5. l = k
    BY <2>1, <2>4 DEF HeadOf
  <2> HIDE DEF k
  <2>6. ~Mixed(k[1], req)
    <3> SUFFICES ASSUME Mixed(k[1], req)
                 PROVE  FALSE
      OBVIOUS
    <3>1. PICK S : Filed(k, req) = [Empty EXCEPT !.unknown = S]
      BY Zenon DEF Filed
    <3>2. Filed(k, req).unchanged = {}
      BY <3>1 DEF Empty
    <3> QED
      BY <2>3, <2>5, <3>2
  <2>7. Follows(Filed(k, req), BaseOf(k, req), P, SameOf(k, req))
    BY <2>6, FiledSorts
  <2>8. PICK p \in P : <<"head", h>> = <<"head", p[2]>> /\ SameOf(k, req)[p] = "unchanged"
    BY <2>3, <2>5, <2>7 DEF Follows
  <2>9. /\ p \in BaseOf(k, req) \X HeadOf(k, req)
        /\ continuity(req.base[p[1]], req.head[p[2]], req) = "unchanged"
    BY <2>8, KindPairs
  <2>10. p = <<p[1], h>> /\ p[1] \in BaseOf(k, req)
    BY <2>8, <2>9
  <2> DEFINE c == p[1]
  <2>11. c \in DOMAIN req.base /\ BaseKind(c, req) = BaseKind(b, req)
    BY <2>10 DEF BaseOf, k
  <2>12. req.base[c].path = req.base[b].path
    <3>1. \A f : Identity(f, <<>>)[2] = f.path
      BY DEF Identity, BasePath
    <3> QED
      BY <2>11, <3>1 DEF BaseKind
  <2>13. req.base[c].line = req.base[b].line
    BY <2>1, <2>8, <2>9, <2>12, ContinuedFromOneLine
  <2> QED
    BY <2>8, <2>10, <2>11, <2>13 DEF Backing
<1>2. Matching(P)
  BY KindPairs
<1> HIDE DEF U, P
<1>3. ASSUME NEW h \in U
      PROVE  at(h) \in Backing(b, req) /\ <<at(h), h>> \in P
  <2>1. PICK c \in Backing(b, req) : <<c, h>> \in P
    BY <1>1
  <2>2. <<at(h), h>> \in P
    BY <2>1
  <2>3. at(h) = c
    BY <1>2, <2>1, <2>2 DEF Matching
  <2> QED
    BY <2>1, <2>2, <2>3
<1> HIDE DEF at
<1>4. partner \in [U -> Backing(b, req)]
  BY <1>3
<1>5. \A h, i \in U : at(h) = at(i) => h = i
  BY <1>2, <1>3 DEF Matching
<1>6. partner \in Injection(U, Backing(b, req))
  BY <1>4, <1>5 DEF Injection, IsInjective
<1>7. IsFiniteSet(Backing(b, req))
  <2>1. Backing(b, req) \in SUBSET DOMAIN req.base
    BY DEF Backing
  <2> QED
    BY <2>1, RequestFinite, FS_Subset DEF Findable
<1>8. Cardinality(U) <= Cardinality(Backing(b, req))
  BY <1>6, <1>7, FS_Injection
<1> QED
  BY <1>8 DEF U

-----------------------------------------------------------------------------
(* What the sides found is what the snapshots hold (SideInv), and the result  *)
(* of a member that is compared is that of its request (ClassifiedInv).       *)

LEMMA InitSideInv == Init => SideInv
BY DEF Init, SideInv, NothingFound, ErrorEvidence

LEMMA RunSidesGivesSideInv ==
    ASSUME SideInv, RunSides
    PROVE  SideInv'
<1>1. PICK fault \in Faults, kept \in BOOLEAN :
        LET result == [s \in Sides |-> SideResult(s, fault[s])] IN
        /\ side' = result
        /\ found' = [s \in Sides |-> [m \in Members |->
                       IF \/ result[s][m].exec = "ran"
                          \/ kept /\ m \in fault[s].failing /\ ~Disabled(m)
                       THEN snap[s][m] ELSE <<>>]]
  BY DEF RunSides
<1>2. snap' = snap /\ pc' = "classify" /\ snap \in Cases
  BY DEF RunSides, SideInv
<1>3. ASSUME NEW s \in Sides, NEW m \in Members
      PROVE  \/ /\ found'[s][m] = <<>>
                /\ side'[s][m] \in {ErrorEvidence(Expected), NotApplicableEvidence(Expected)}
             \/ /\ found'[s][m] = snap[s][m]
                /\ side'[s][m] \in {ErrorEvidence(Expected),
                                    RanEvidence(FindingsIn(snap[s][m]), Expected)}
  <2>1. /\ side'[s][m] = SideResult(s, fault[s])[m]
        /\ \/ /\ found'[s][m] = snap[s][m]
              /\ side'[s][m].exec = "ran" \/ m \in fault[s].failing
           \/ found'[s][m] = <<>> /\ side'[s][m].exec # "ran"
    BY <1>1
  <2>2. /\ SideResult(s, fault[s])[m] \in {ErrorEvidence(Expected), NotApplicableEvidence(Expected),
                                           RanEvidence(FindingsIn(snap[s][m]), Expected)}
        /\ m \in fault[s].failing => SideResult(s, fault[s])[m] = ErrorEvidence(Expected)
    BY DEF SideResult
  <2>3. /\ ErrorEvidence(Expected).exec # "ran" /\ NotApplicableEvidence(Expected).exec # "ran"
        /\ RanEvidence(FindingsIn(snap[s][m]), Expected).exec = "ran"
    BY DEF ErrorEvidence, NotApplicableEvidence, RanEvidence
  <2> QED
    BY <2>1, <2>2, <2>3
<1> QED
  BY <1>2, <1>3 DEF SideInv, Expected

LEMMA NextSideInv == SideInv /\ [Next]_vars => SideInv'
<1> SUFFICES ASSUME SideInv, [Next]_vars
             PROVE  SideInv'
  OBVIOUS
<1>1. CASE RunSides
  BY <1>1, RunSidesGivesSideInv
<1>2. CASE Prepare
  BY <1>2 DEF Prepare, SideInv, Expected
<1>3. CASE Classify
  BY <1>3 DEF Classify, SideInv, Expected
<1>4. CASE BuildReport
  BY <1>4 DEF BuildReport, SideInv, Expected
<1>5. CASE UNCHANGED vars
  BY <1>5 DEF vars, SideInv, Expected
<1> QED
  BY <1>1, <1>2, <1>3, <1>4, <1>5 DEF Next

\* The sides and what a member's request is made of stay as they are.
LEMMA SameRequest ==
    ASSUME UNCHANGED <<side, found, snap>>, NEW m
    PROVE  Compared(m)' = Compared(m) /\ Request(m)' = Request(m)
BY DEF Compared, Incomplete, member_snapshot_is_consistent, Request, Expected, exact_renames,
       Ambiguous, rename_disposition, SameBlob, Removed, Added

LEMMA NextClassifiedInv ==
    ASSUME SideInv, ClassifiedInv, [Next]_vars
    PROVE  ClassifiedInv'
<1>1. CASE Prepare
  <2>1. UNCHANGED <<side, found, snap>> /\ pc = "prepare"
    BY <1>1 DEF Prepare
  <2>2. \A m \in Members : ~Compared(m)
    BY <2>1 DEF SideInv, Compared, Incomplete, member_snapshot_is_consistent, Sides
  <2> QED
    BY <2>1, <2>2, SameRequest DEF ClassifiedInv
<1>2. CASE RunSides
  BY <1>2 DEF RunSides, ClassifiedInv
<1>3. CASE Classify
  <2>1. /\ UNCHANGED <<side, found, snap>>
        /\ classified' = [m \in Members |-> IF Compared(m) THEN classify_findings(Request(m)) ELSE Empty]
    BY <1>3 DEF Classify
  <2> QED
    BY <2>1, SameRequest DEF ClassifiedInv
<1>4. CASE BuildReport
  <2>1. UNCHANGED <<side, found, snap, classified>> /\ pc = "report"
    BY <1>4 DEF BuildReport
  <2> QED
    BY <2>1, SameRequest DEF ClassifiedInv
<1>5. CASE UNCHANGED vars
  <2>1. UNCHANGED <<side, found, snap, classified, pc>>
    BY <1>5 DEF vars
  <2> QED
    BY <2>1, SameRequest DEF ClassifiedInv
<1> QED
  BY <1>1, <1>2, <1>3, <1>4, <1>5 DEF Next

LEMMA RequestWellFormed ==
    ASSUME SideInv, NEW m \in Members
    PROVE  WellFormed(Request(m))
<1>1. snap \in Cases /\ "base" \in Sides /\ "head" \in Sides
  BY DEF SideInv, Sides
<1>2. ASSUME NEW s \in Sides
      PROVE  /\ found[s][m] \in Seq(Range(found[s][m]))
             /\ \A k \in DOMAIN found[s][m] : found[s][m][k].line \in Nat
  <2>1. CASE found[s][m] = <<>>
    BY <2>1
  <2>2. CASE found[s][m] = snap[s][m]
    <3>1. /\ snap[s][m] \in Seq(Range(snap[s][m]))
          /\ \A f \in Range(snap[s][m]) : f.line \in Nat
      BY <1>1, RangeAssumption
    <3>2. \A k \in DOMAIN snap[s][m] : snap[s][m][k] \in Range(snap[s][m])
      BY DEF Range
    <3> QED
      BY <2>2, <3>1, <3>2
  <2> QED
    BY <2>1, <2>2 DEF SideInv
<1>3. /\ Request(m).base = found["base"][m] /\ Request(m).head = found["head"][m]
      /\ Request(m).base_sources = snap.base_sources
  BY DEF Request
<1>4. \A p \in DOMAIN snap.base_sources : snap.base_sources[p] \in Seq(Range(snap.base_sources[p]))
  BY <1>1, RangeAssumption
<1> QED
  BY <1>1, <1>2, <1>3, <1>4 DEF WellFormed

-----------------------------------------------------------------------------
(* A control of a head file that differs from its base is in the delta.       *)

LEMMA JudgeCovers ==
    ASSUME NEW H, NEW taken, NEW fallback, NEW status, NEW i \in H
    PROVE  LET part == Judge(H, taken, fallback, status) IN
           /\ DOMAIN part = {"introduced", "quarantined"}
           /\ i \in part.introduced \/ i \in part.quarantined
<1> DEFINE pairs == taken \union fallback
           new == {p[2] : p \in {q \in pairs : status[q] = "introduced"}}
           second == {p[2] : p \in pairs}
           surplus == H \ second
           doubt == \E p \in fallback : status[p] = "unknown"
<1>1. Judge(H, taken, fallback, status) =
        [introduced |-> IF doubt THEN new ELSE new \union surplus,
         quarantined |-> (second \ new) \union (IF doubt THEN surplus ELSE {})]
  BY Zenon DEF Judge
<1>2. i \in second \/ i \in surplus
  OBVIOUS
<1> HIDE DEF new, second, surplus, doubt
<1> QED
  BY <1>1, <1>2

LEMMA DeltaCovers ==
    ASSUME NEW sn, NEW renames, NEW reserved, NEW path \in DOMAIN reserved,
           LET head == sn.head_sources[path] IN
             head \in Seq(Range(head)) /\ Former(path, sn, renames) # head,
           NEW i \in tokenize_comments(sn.head_sources[path]),
           ~classify_suppression_delta(sn, renames, reserved).error
    PROVE  \E c \in classify_suppression_delta(sn, renames, reserved).findings :
             /\ c.members = Control[sn.head_sources[path][i]].members
             /\ c.kind \in {"introduced", "quarantined"}
<1> DEFINE head == sn.head_sources[path]
           base == Former(path, sn, renames)
           t == Control[head[i]].token
           part == changed_identity(base, head, Bucket(base, t), Bucket(head, t), reserved[path])
           d == classify_suppression_delta(sn, renames, reserved)
           file(p) == file_findings(p, Former(p, sn, renames), sn.head_sources[p], reserved[p])
<1>1. /\ DOMAIN part = {"introduced", "quarantined"}
      /\ i \in part.introduced \/ i \in part.quarantined
  <2>1. \E taken, fallback, status : part = Judge(Bucket(head, t), taken, fallback, status)
    BY Zenon DEF changed_identity, WithFallback, ByPairs
  <2>2. i \in Bucket(head, t)
    BY DEF Bucket
  <2> HIDE DEF part, head, t
  <2> QED
    BY <2>1, <2>2, JudgeCovers
<1>2. t \in Tokens
  BY DEF Tokens, tokenize_comments
<1>3. PICK k \in DOMAIN part : i \in part[k] /\ k \in {"introduced", "quarantined"}
  BY <1>1
<1> DEFINE c == [kind |-> k, path |-> path, line |-> i, members |-> Control[head[i]].members]
           found_in(u) == Findings(path, head, changed_identity(base, head, Bucket(base, u),
                                                                Bucket(head, u), reserved[path]))
<1>4. c \in found_in(t)
  <2> HIDE DEF part, head
  <2> QED
    BY <1>3 DEF Findings, part
<1>5. file(path) = UNION {found_in(u) : u \in Tokens}
  BY Zenon DEF file_findings
<1>6. c \in file(path)
  <2> HIDE DEF c, found_in, file, t
  <2> QED
    BY <1>2, <1>4, <1>5
<1>7. d.findings = UNION {file(p) : p \in DOMAIN reserved}
  <2>1. d = IF manifest_error(sn.base_sources) \/ manifest_error(sn.head_sources)
            THEN [error |-> TRUE, findings |-> {}]
            ELSE [error |-> FALSE, findings |-> UNION {file(p) : p \in DOMAIN reserved}]
    BY Zenon DEF classify_suppression_delta
  <2> HIDE DEF file
  <2> QED
    BY <2>1 DEF d
<1>8. c.members = Control[head[i]].members /\ c.kind = k
  OBVIOUS
<1>9. c \in d.findings
  <2> HIDE DEF c, file, d
  <2> QED
    BY <1>6, <1>7
<1> HIDE DEF c, d
<1> QED
  BY <1>3, <1>8, <1>9 DEF d

-----------------------------------------------------------------------------
(* CleanInv is an invariant.                                                  *)

\* A member that the comparison accepts has no blocker in the head.
LEMMA AcceptedHasNoBlocker ==
    ASSUME SideInv, NEW m \in Members, NEW r,
           Compared(m) => r = classify_findings(Request(m)),
           RangeEvidence(m, r).outcome \in Accepted
    PROVE  Blocking(FindingsIn(found["head"][m])) = {}
<1> DEFINE req == Request(m)
<1>0. "head" \in Sides
  BY DEF Sides
<1>1. CASE \A s \in Sides : side[s][m].outcome = "NOT_APPLICABLE"
  <2>1. side["head"][m].outcome = "NOT_APPLICABLE"
    BY <1>0, <1>1
  <2>2. /\ RanEvidence(FindingsIn(snap["head"][m]), Expected).outcome # "NOT_APPLICABLE"
        /\ ErrorEvidence(Expected).outcome # "NOT_APPLICABLE"
    BY DEF RanEvidence, ErrorEvidence
  <2>3. found["head"][m] = <<>>
    BY <1>0, <2>1, <2>2 DEF SideInv
  <2> QED
    BY <2>3 DEF FindingsIn, Blocking
<1>2. CASE ~\A s \in Sides : side[s][m].outcome = "NOT_APPLICABLE"
  <2>1. ~Incomplete(m)
    BY <1>2 DEF RangeEvidence, ErrorEvidence, Accepted
  <2>2. Compared(m)
    BY <1>2, <2>1 DEF Compared
  <2>3. RangeEvidence(m, r).outcome = final_status(r, req)
    BY <1>2, <2>1 DEF RangeEvidence
  <2>4. Accounted(r, req)
    BY <2>2, FindingsAccounted, RequestWellFormed
  <2>5. req.head = found["head"][m]
    BY DEF Request
  <2> HIDE DEF req
  <2>6. /\ r.unknown = {}
        /\ \A ref \in r.introduced \union r.unchanged : ~FindingAt(ref, req).blocking
    BY <2>3 DEF final_status, Accepted
  <2>7. \A h \in DOMAIN req.head : ~req.head[h].blocking
    <3> SUFFICES ASSUME NEW h \in DOMAIN req.head
                 PROVE  ~req.head[h].blocking
      OBVIOUS
    <3>1. <<"head", h>> \in r.introduced \union r.unchanged
      BY <2>4, <2>6 DEF Accounted, Heads
    <3>2. FindingAt(<<"head", h>>, req) = req.head[h]
      BY DEF FindingAt
    <3> QED
      BY <2>6, <3>1, <3>2
  <2> QED
    BY <2>5, <2>7 DEF FindingsIn, Blocking
<1> QED
  BY <1>1, <1>2

LEMMA SameClean ==
    ASSUME UNCHANGED <<found, snap, combined>>, NEW m
    PROVE  Clean(m)' <=> Clean(m)
BY DEF Clean, exact_renames, rename_disposition, SameBlob, Removed, Added

LEMMA ClassifyCleans ==
    ASSUME DoubtInv, SideInv, Classify
    PROVE  \A m \in Members : combined'[m].outcome \in Accepted => Clean(m)'
<1> SUFFICES ASSUME NEW m \in Members, combined'[m].outcome \in Accepted
             PROVE  Clean(m)'
  OBVIOUS
<1> DEFINE plain == [n \in Members |-> RangeEvidence(n, classified'[n])]
<1>1. /\ combined' = Suppressed(plain, delta')
      /\ classified' = [n \in Members |-> IF Compared(n) THEN classify_findings(Request(n)) ELSE Empty]
      /\ UNCHANGED <<snap, found, side>>
  BY DEF Classify
<1>2. PICK reserved \in Reserved : delta' = classify_suppression_delta(snap, exact_renames, reserved)
  BY DEF Classify
<1>3. plain \in [Members -> Evidence]
  BY RangeEvidenceType
<1>4. plain[m] = RangeEvidence(m, classified'[m])
  OBVIOUS
<1> HIDE DEF plain
<1>5. /\ combined'[m] = plain[m] /\ ~delta'.error
      /\ "introduced" \notin Kinds(m, plain, delta') /\ "quarantined" \notin Kinds(m, plain, delta')
  BY <1>1, <1>3, SuppressedAccepted
<1>6. Blocking(FindingsIn(found["head"][m])) = {}
  <2>1. Compared(m) => classified'[m] = classify_findings(Request(m))
    BY <1>1
  <2> QED
    BY <1>4, <1>5, <2>1, AcceptedHasNoBlocker
<1>7. ASSUME NEW path \in DOMAIN python_sources(snap.head_sources),
             Former(path, snap, exact_renames) # snap.head_sources[path],
             NEW i \in tokenize_comments(snap.head_sources[path]),
             m \in Control[snap.head_sources[path][i]].members
      PROVE  combined'[m].outcome = "NOT_APPLICABLE"
  <2> SUFFICES ASSUME plain[m].outcome # "NOT_APPLICABLE"
               PROVE  FALSE
    BY <1>5
  <2>1. path \in DOMAIN reserved
    BY <1>2 DEF Reserved
  <2>2. path \in DOMAIN snap.head_sources
    BY DEF python_sources, Restrict
  <2>3. snap.head_sources[path] \in Seq(Range(snap.head_sources[path]))
    BY <2>2, RangeAssumption DEF SideInv
  <2>4. PICK c \in delta'.findings : /\ c.members = Control[snap.head_sources[path][i]].members
                                     /\ c.kind \in {"introduced", "quarantined"}
    BY <1>2, <1>5, <1>7, <2>1, <2>3, DeltaCovers
  <2>5. c.kind \in Kinds(m, plain, delta')
    BY <1>7, <2>4 DEF Kinds, Controls
  <2> QED
    BY <1>5, <2>4, <2>5
<1>8. exact_renames' = exact_renames
  BY <1>1 DEF exact_renames, rename_disposition, SameBlob, Removed, Added
<1> QED
  BY <1>1, <1>6, <1>7, <1>8 DEF Clean

LEMMA BuildReportCleans ==
    ASSUME DoubtInv, DoubtInv', CleanInv, BuildReport
    PROVE  RangePassIsClean'
<1> SUFFICES ASSUME report'.exit = 0, opt'.mode # "shadow"
             PROVE  /\ unsure' = {}
                    /\ \A m \in Members : Clean(m)'
  BY DEF RangePassIsClean, Clean
<1>1. PICK catalog \in BOOLEAN, sameRuntime \in BOOLEAN :
         report' = capsule_report(
           IF sameRuntime THEN combined
           ELSE [m \in Members |-> [combined[m] EXCEPT !.exec = "error", !.outcome = "UNKNOWN"]],
           labelled, ReportOptions(catalog))
  BY DEF BuildReport
<1>2. /\ pc = "report" /\ pc' = "done" /\ unsure' = unsure /\ opt' = opt
      /\ UNCHANGED <<found, snap, combined>>
  BY DEF BuildReport
<1> DEFINE X == [m \in Members |-> [combined[m] EXCEPT !.exec = "error", !.outcome = "UNKNOWN"]]
           ev == IF sameRuntime THEN combined ELSE X
<1>3. X \in [Members -> Evidence] /\ \A m \in Members : InDoubt(X[m])
  <2>1. ASSUME NEW e \in Evidence
        PROVE  /\ [e EXCEPT !.exec = "error", !.outcome = "UNKNOWN"] \in Evidence
               /\ [e EXCEPT !.exec = "error", !.outcome = "UNKNOWN"].outcome = "UNKNOWN"
    BY DEF Evidence, Executions, Outcomes
  <2>2. combined \in [Members -> Evidence]
    BY DEF DoubtInv
  <2> QED
    BY <2>1, <2>2 DEF InDoubt
<1>4. report' = capsule_report(ev, labelled, ReportOptions(catalog))
  BY <1>1
<1> HIDE DEF X
<1>5. ev \in [Members -> Evidence]
  BY <1>3 DEF DoubtInv
<1>6. ReportOptions(catalog).expected \in {"c14", "runtime"} /\ ReportOptions(catalog).mode # "shadow"
  BY <1>2 DEF ReportOptions, Expected
<1>7. \A m \in Members : ev[m].outcome \in Accepted /\ ~InDoubt(ev[m])
  <2> HIDE DEF ev
  <2> QED
    BY <1>4, <1>5, <1>6, ReportAccepts
<1>8. ev = combined
  BY <1>3, <1>7, MembersAssumption
<1>9. unsure = {}
  BY <1>2, <1>7, <1>8 DEF DoubtInv
<1>10. \A m \in Members : Clean(m)'
  BY <1>2, <1>7, <1>8, SameClean DEF CleanInv
<1> QED
  BY <1>2, <1>9, <1>10

LEMMA InitCleanInv == Init => CleanInv
BY DEF Init, CleanInv, RangePassIsClean

LEMMA NextCleanInv ==
    ASSUME DoubtInv, DoubtInv', SideInv, CleanInv, [Next]_vars
    PROVE  CleanInv'
<1>1. CASE Prepare
  <2>1. pc' = "run" \/ (pc' = "done" /\ report' = unknown_capsule_report(ReportOptions(TRUE)))
    BY <1>1 DEF Prepare
  <2>2. CASE pc' = "run"
    BY <2>2 DEF CleanInv, RangePassIsClean
  <2>3. CASE pc' = "done" /\ report' = unknown_capsule_report(ReportOptions(TRUE))
    <3> DEFINE o == ReportOptions(TRUE)
               none == [m \in Members |-> ErrorEvidence(o.expected)]
    <3>1. o.expected \in {"c14", "runtime"} /\ o.mode = opt.mode /\ opt' = opt
      BY <1>1 DEF ReportOptions, Expected, Prepare
    <3>2. report' = capsule_report(none, [m \in Members |-> {}], o)
      BY <2>3, Zenon DEF unknown_capsule_report
    <3> HIDE DEF o
    <3>3. none \in [Members -> Evidence] /\ none[Pytest].outcome = "UNKNOWN"
      BY <3>1, SideEvidenceType, MembersAssumption
    <3> HIDE DEF none
    <3>4. ~(report'.exit = 0 /\ opt'.mode # "shadow")
      BY <3>1, <3>2, <3>3, ReportAccepts, MembersAssumption DEF Accepted
    <3> QED
      BY <2>3, <3>4 DEF CleanInv, RangePassIsClean
  <2> QED
    BY <2>1, <2>2, <2>3
<1>2. CASE RunSides
  BY <1>2 DEF RunSides, CleanInv, RangePassIsClean
<1>3. CASE Classify
  <2>1. pc' = "report"
    BY <1>3 DEF Classify
  <2> QED
    BY <1>3, <2>1, ClassifyCleans DEF CleanInv, RangePassIsClean
<1>4. CASE BuildReport
  <2>1. pc' = "done"
    BY <1>4 DEF BuildReport
  <2> QED
    BY <1>4, <2>1, BuildReportCleans DEF CleanInv
<1>5. CASE UNCHANGED vars
  <2>1. UNCHANGED <<found, snap, combined, pc, opt, report, unsure>>
    BY <1>5 DEF vars
  <2>2. \A m : Clean(m)' <=> Clean(m)
    BY <2>1, SameClean
  <2>3. RangePassIsClean' <=> RangePassIsClean
    BY <2>1 DEF RangePassIsClean, exact_renames, rename_disposition, SameBlob, Removed, Added
  <2> QED
    BY <2>1, <2>2, <2>3 DEF CleanInv
<1> QED
  BY <1>1, <1>2, <1>3, <1>4, <1>5 DEF Next

-----------------------------------------------------------------------------
(* Alignments of prefixes.                                                    *)

\* Equal lines among the first i of the base and j of the head, but for one pair.
Equal(base, head, avoid, i, j) ==
    {p \in (1 .. i) \X (1 .. j) : base[p[1]] = head[p[2]] /\ p # avoid}

Chain(A) == \A p, q \in A : p # q => (p[1] < q[1] /\ p[2] < q[2]) \/ (q[1] < p[1] /\ q[2] < p[2])

Prefix(base, head, avoid, i, j) == {A \in SUBSET Equal(base, head, avoid, i, j) : Chain(A)}

\* k is the size of the largest sets of S.
Best(k, S) == /\ k \in Nat
              /\ \E A \in S : Cardinality(A) = k
              /\ \A A \in S : Cardinality(A) <= k

\* A cell of the cost table: the lines, less two for each that is matched.
CellOf(c, base, head, avoid, i, j) ==
    \E k : Best(k, Prefix(base, head, avoid, i, j)) /\ c = i + j - 2 * k

LEMMA PrefixFinite ==
    ASSUME NEW base, NEW head, NEW avoid, NEW i \in Nat, NEW j \in Nat,
           NEW A \in Prefix(base, head, avoid, i, j)
    PROVE  IsFiniteSet(A) /\ Cardinality(A) \in Nat
<1>1. IsFiniteSet(1 .. i) /\ IsFiniteSet(1 .. j)
  BY FS_Interval
<1>2. IsFiniteSet((1 .. i) \X (1 .. j))
  BY <1>1, FS_Product
<1>3. A \in SUBSET ((1 .. i) \X (1 .. j))
  BY DEF Prefix, Equal
<1>4. IsFiniteSet(A)
  BY <1>2, <1>3, FS_Subset
<1> QED
  BY <1>4, FS_CardinalityType

LEMMA BestExists ==
    ASSUME NEW base, NEW head, NEW avoid, NEW i \in Nat, NEW j \in Nat
    PROVE  \E k : Best(k, Prefix(base, head, avoid, i, j))
<1> DEFINE S == Prefix(base, head, avoid, i, j)
           G == (1 .. i) \X (1 .. j)
           T == {c \in Nat : \A A \in S : Cardinality(A) <= c}
<1>1. IsFiniteSet(G) /\ Cardinality(G) \in Nat
  <2>1. IsFiniteSet(1 .. i) /\ IsFiniteSet(1 .. j)
    BY FS_Interval
  <2> QED
    BY <2>1, FS_Product, FS_CardinalityType
<1>2. \A A \in S : A \in SUBSET G
  BY DEF Prefix, Equal
<1>3. {} \in S
  BY DEF Prefix, Chain
<1>4. \A A \in S : Cardinality(A) \in Nat
  BY PrefixFinite
<1> HIDE DEF S, G
<1>5. Cardinality(G) \in T
  BY <1>1, <1>2, FS_Subset
<1>6. PICK k \in T : \A c \in T : k <= c
  BY <1>5, LeastElement
<1>7. \E A \in S : Cardinality(A) = k
  <2> SUFFICES ASSUME \A A \in S : Cardinality(A) # k
               PROVE  FALSE
    OBVIOUS
  <2>1. \A A \in S : Cardinality(A) <= k - 1
    BY <1>4, <1>6
  <2>2. k - 1 \in Nat
    BY <1>3, <1>4, <2>1
  <2>3. k - 1 \in T
    BY <2>1, <2>2
  <2> QED
    BY <1>6, <2>3
<1> QED
  BY <1>6, <1>7 DEF Best, S

LEMMA BestOfNone ==
    ASSUME NEW S, S = {{}}
    PROVE  Best(0, S)
<1>1. Cardinality({}) = 0
  BY FS_EmptySet
<1>2. {} \in S /\ \A A \in S : A = {}
  OBVIOUS
<1> QED
  BY <1>1, <1>2 DEF Best

LEMMA BestUnique ==
    ASSUME NEW S, NEW k, NEW l, Best(k, S), Best(l, S)
    PROVE  k = l
BY DEF Best

LEMMA PrefixGrows ==
    ASSUME NEW base, NEW head, NEW avoid, NEW i \in Nat, NEW j \in Nat, NEW x \in Nat, NEW y \in Nat,
           x <= i, y <= j
    PROVE  Prefix(base, head, avoid, x, y) \subseteq Prefix(base, head, avoid, i, j)
BY DEF Prefix, Equal

LEMMA BestGrows ==
    ASSUME NEW S, NEW T, S \subseteq T, NEW k, NEW l, Best(k, S), Best(l, T)
    PROVE  k <= l
BY DEF Best

\* One more pair of equal lines.
Extends(C, A, base, head, avoid, i, j) ==
    /\ A \in Prefix(base, head, avoid, i - 1, j - 1) /\ C = A \union {<<i, j>>}
    /\ i > 0 /\ j > 0 /\ base[i] = head[j] /\ <<i, j>> # avoid

LEMMA PrefixExtends ==
    ASSUME NEW base, NEW head, NEW avoid, NEW i \in Nat, NEW j \in Nat, NEW A, NEW C,
           Extends(C, A, base, head, avoid, i, j)
    PROVE  C \in Prefix(base, head, avoid, i, j) /\ Cardinality(C) = Cardinality(A) + 1
<1>0. /\ A \in Prefix(base, head, avoid, i - 1, j - 1) /\ C = A \union {<<i, j>>}
      /\ i > 0 /\ j > 0 /\ base[i] = head[j] /\ <<i, j>> # avoid
      /\ i - 1 \in Nat /\ j - 1 \in Nat
  BY DEF Extends
<1>1. \A p \in A : /\ p \in (1 .. i - 1) \X (1 .. j - 1)
                   /\ base[p[1]] = head[p[2]] /\ p # avoid
  BY <1>0 DEF Prefix, Equal
<1>2. Chain(A)
  BY <1>0 DEF Prefix
<1>3. \A p \in A : p[1] \in Nat /\ p[1] < i /\ p[2] \in Nat /\ p[2] < j /\ p \in (1 .. i) \X (1 .. j)
  BY <1>0, <1>1
<1>4. Chain(A \union {<<i, j>>})
  BY <1>0, <1>2, <1>3 DEF Chain
<1>5. A \union {<<i, j>>} \subseteq Equal(base, head, avoid, i, j)
  BY <1>0, <1>1, <1>3 DEF Equal
<1>6. IsFiniteSet(A)
  BY <1>0, PrefixFinite
<1>7. <<i, j>> \notin A
  BY <1>0, <1>3
<1> QED
  BY <1>0, <1>4, <1>5, <1>6, <1>7, FS_AddElement DEF Prefix

\* The last base line is matched, with some line of the head, or it is not.
Ends(A, base, head, avoid, i, j) ==
    \/ A \in Prefix(base, head, avoid, i - 1, j)
    \/ \E y \in 1 .. j : /\ base[i] = head[y] /\ <<i, y>> # avoid
                         /\ A \ {<<i, y>>} \in Prefix(base, head, avoid, i - 1, y - 1)
                         /\ Cardinality(A \ {<<i, y>>}) = Cardinality(A) - 1

LEMMA PrefixEnds ==
    ASSUME NEW base, NEW head, NEW avoid, NEW i \in Nat, NEW j \in Nat, i > 0,
           NEW A \in Prefix(base, head, avoid, i, j)
    PROVE  Ends(A, base, head, avoid, i, j)
<1>1. \A p \in A : /\ p[1] \in 1 .. i /\ p[2] \in 1 .. j /\ p = <<p[1], p[2]>>
                   /\ base[p[1]] = head[p[2]] /\ p # avoid
  BY DEF Prefix, Equal
<1>2. Chain(A) /\ IsFiniteSet(A)
  BY PrefixFinite DEF Prefix
<1>3. CASE \A p \in A : p[1] # i
  <2>1. \A p \in A : p[1] \in 1 .. i - 1
    BY <1>1, <1>3
  <2>2. A \subseteq Equal(base, head, avoid, i - 1, j)
    BY <1>1, <2>1 DEF Equal
  <2> QED
    BY <1>2, <2>2 DEF Prefix, Ends
<1>4. CASE \E p \in A : p[1] = i
  <2>1. PICK p \in A : p[1] = i
    BY <1>4
  <2> DEFINE y == p[2]
             B == A \ {<<i, y>>}
  <2>2. p = <<i, y>> /\ y \in 1 .. j /\ base[i] = head[y] /\ <<i, y>> # avoid
    BY <1>1, <2>1
  <2>3. \A q \in B : q \in A /\ q # p
    BY <2>2
  <2>4. \A q \in B : q[1] < i /\ q[2] < y
    <3> SUFFICES ASSUME NEW q \in B
                 PROVE  q[1] < i /\ q[2] < y
      OBVIOUS
    <3>1. (p[1] < q[1] /\ p[2] < q[2]) \/ (q[1] < p[1] /\ q[2] < p[2])
      BY <1>2, <2>3 DEF Chain
    <3>2. q[1] \in 1 .. i
      BY <1>1, <2>3
    <3> QED
      BY <2>1, <3>1, <3>2
  <2>5. \A q \in B : q \in (1 .. i - 1) \X (1 .. y - 1)
    <3> SUFFICES ASSUME NEW q \in B
                 PROVE  q \in (1 .. i - 1) \X (1 .. y - 1)
      OBVIOUS
    <3>1. q[1] \in 1 .. i /\ q[2] \in 1 .. j /\ q = <<q[1], q[2]>>
      BY <1>1, <2>3
    <3>2. q[1] \in 1 .. i - 1 /\ q[2] \in 1 .. y - 1
      BY <2>2, <2>4, <3>1
    <3> QED
      BY <3>1, <3>2
  <2>6. B \subseteq Equal(base, head, avoid, i - 1, y - 1)
    BY <1>1, <2>3, <2>5 DEF Equal
  <2>7. Chain(B)
    BY <1>2 DEF Chain
  <2>8. Cardinality(B) = Cardinality(A) - 1
    BY <1>2, <2>1, <2>2, FS_RemoveElement
  <2> QED
    BY <2>2, <2>6, <2>7, <2>8 DEF Prefix, Ends
<1> QED
  BY <1>3, <1>4

-----------------------------------------------------------------------------
(* The cost table (_edit_costs).                                              *)

LEMMA MinIs ==
    ASSUME NEW S, NEW v \in S, \A x \in S : x \in Int /\ v <= x
    PROVE  Min(S) = v
BY DEF Min

LEMMA MinOfTwo ==
    ASSUME NEW a \in Int, NEW b \in Int
    PROVE  Min({a, b}) = IF a <= b THEN a ELSE b
<1>1. CASE a <= b
  BY <1>1, MinIs
<1>2. CASE ~(a <= b)
  BY <1>2, MinIs
<1> QED
  BY <1>1, <1>2

\* What it costs to enter row i at head line k.
Enter(row, i, k, base, head, forbidden) ==
    IF k = 0 THEN i
    ELSE IF forbidden = <<i, k>> THEN row[k] + 1
    ELSE IF base[i] = head[k] THEN Min({row[k] + 1, row[k - 1]})
    ELSE Min({row[k] + 1, row[k - 1] + 2})

\* Entry j of row i: entered at some k, and from there to the right.
Entry(row, i, j, base, head, forbidden) ==
    Min({Enter(row, i, k, base, head, forbidden) + (j - k) : k \in 0 .. j})

LEMMA CostRowCells ==
    ASSUME NEW base, NEW head, NEW avoid, NEW i \in Nat, i > 0, NEW j \in Nat, NEW row,
           \A y \in 0 .. j : CellOf(row[y], base, head, avoid, i - 1, y)
    PROVE  CellOf(Entry(row, i, j, base, head, avoid), base, head, avoid, i, j)
<1> DEFINE P(x, y) == Prefix(base, head, avoid, x, y)
           E(k) == Enter(row, i, k, base, head, avoid)
           S == {E(k) + (j - k) : k \in 0 .. j}
<1>1. PICK best : Best(best, P(i, j))
  BY BestExists
<1>2. best \in Nat
  BY <1>1 DEF Best
<1> DEFINE v == i + j - 2 * best
<1>3. ASSUME NEW y \in 0 .. j
      PROVE  \E k : Best(k, P(i - 1, y)) /\ row[y] = i - 1 + y - 2 * k /\ k \in Nat /\ row[y] \in Int
  BY <1>3 DEF CellOf, Best
<1>4. ASSUME NEW k \in 0 .. j
      PROVE  E(k) \in Int /\ E(k) + (j - k) >= v
  <2>1. CASE k = 0
    BY <1>2, <2>1 DEF Enter
  <2>2. CASE k # 0
    <3>1. PICK a : Best(a, P(i - 1, k)) /\ row[k] = i - 1 + k - 2 * a /\ a \in Nat
      BY <1>3
    <3>2. PICK b : Best(b, P(i - 1, k - 1)) /\ row[k - 1] = i - 1 + (k - 1) - 2 * b /\ b \in Nat
      BY <1>3, <2>2
    <3>3. P(i - 1, k) \subseteq P(i, j) /\ P(i - 1, k - 1) \subseteq P(i, j)
      BY <2>2, PrefixGrows
    <3>4. a <= best /\ b <= best
      BY <1>1, <3>1, <3>2, <3>3, BestGrows
    <3>5. base[i] = head[k] /\ <<i, k>> # avoid => b + 1 <= best
      <4> SUFFICES ASSUME base[i] = head[k], <<i, k>> # avoid
                   PROVE  b + 1 <= best
        OBVIOUS
      <4>1. PICK A \in P(i - 1, k - 1) : Cardinality(A) = b
        BY <3>2 DEF Best
      <4> DEFINE C == A \union {<<i, k>>}
      <4>2. k \in Nat /\ k > 0 /\ A \in Prefix(base, head, avoid, i - 1, k - 1)
        BY <2>2, <4>1
      <4>3. C \in P(i, k) /\ Cardinality(C) = b + 1
        <5>1. C = A \union {<<i, k>>}
          OBVIOUS
        <5> HIDE DEF C
        <5>2. Extends(C, A, base, head, avoid, i, k)
          BY <4>2, <5>1 DEF Extends
        <5>3. C \in Prefix(base, head, avoid, i, k) /\ Cardinality(C) = Cardinality(A) + 1
          BY <4>2, <5>2, PrefixExtends
        <5> QED
          BY <4>1, <5>3
      <4> HIDE DEF C
      <4>4. C \in P(i, j)
        BY <4>3, PrefixGrows
      <4> QED
        BY <1>1, <4>3, <4>4 DEF Best
    <3> HIDE DEF P
    <3>6. row[k] + 1 = i + k - 2 * a /\ row[k - 1] = i + k - 2 - 2 * b /\ row[k - 1] + 2 = i + k - 2 * b
      BY <2>2, <3>1, <3>2
    <3>7. row[k] + 1 \in Int /\ row[k - 1] \in Int /\ row[k - 1] + 2 \in Int
      BY <3>1, <3>2
    <3>8. CASE avoid = <<i, k>>
      <4>1. E(k) = row[k] + 1
        BY <2>2, <3>8 DEF Enter
      <4> QED
        BY <1>2, <3>1, <3>4, <3>6, <4>1
    <3>9. CASE avoid # <<i, k>> /\ base[i] = head[k]
      <4>1. E(k) = Min({row[k] + 1, row[k - 1]})
        BY <2>2, <3>9 DEF Enter
      <4>2. E(k) = row[k] + 1 \/ E(k) = row[k - 1]
        BY <3>7, <4>1, MinOfTwo
      <4> QED
        BY <1>2, <3>1, <3>2, <3>4, <3>5, <3>6, <3>9, <4>2
    <3>10. CASE avoid # <<i, k>> /\ base[i] # head[k]
      <4>1. E(k) = Min({row[k] + 1, row[k - 1] + 2})
        BY <2>2, <3>10 DEF Enter
      <4>2. E(k) = row[k] + 1 \/ E(k) = row[k - 1] + 2
        BY <3>7, <4>1, MinOfTwo
      <4> QED
        BY <1>2, <3>1, <3>2, <3>4, <3>6, <4>2
    <3> QED
      BY <3>8, <3>9, <3>10
  <2> QED
    BY <2>1, <2>2
<1>5. \E k \in 0 .. j : E(k) + (j - k) <= v
  <2>1. PICK A \in P(i, j) : Cardinality(A) = best
    BY <1>1 DEF Best
  <2>2. CASE A \in P(i - 1, j)
    <3>1. PICK a : Best(a, P(i - 1, j)) /\ row[j] = i - 1 + j - 2 * a /\ a \in Nat
      BY <1>3
    <3>2. best <= a
      BY <2>1, <2>2, <3>1 DEF Best
    <3>3. CASE j = 0
      <4>1. A = {}
        BY <2>2, <3>3 DEF Prefix, Equal
      <4>2. best = 0
        BY <2>1, <4>1, FS_EmptySet
      <4>3. E(0) = i
        BY DEF Enter
      <4> QED
        BY <3>3, <4>2, <4>3
    <3>4. CASE j # 0
      <4>1. PICK b : row[j - 1] = i - 1 + (j - 1) - 2 * b /\ b \in Nat
        BY <1>3, <3>4
      <4>2. row[j] + 1 \in Int /\ row[j - 1] \in Int /\ row[j - 1] + 2 \in Int
        BY <3>1, <4>1
      <4>3. \/ E(j) = row[j] + 1 \/ E(j) = Min({row[j] + 1, row[j - 1]})
            \/ E(j) = Min({row[j] + 1, row[j - 1] + 2})
        BY <3>4 DEF Enter
      <4>4. E(j) <= row[j] + 1
        BY <4>2, <4>3, MinOfTwo
      <4>5. E(j) \in Int
        BY <1>4
      <4> HIDE DEF E
      <4>6. E(j) + (j - j) <= v
        BY <1>2, <3>1, <3>2, <4>4, <4>5
      <4> QED
        BY <4>6
    <3> QED
      BY <3>3, <3>4
  <2>3. CASE A \notin P(i - 1, j)
    <3>1. PICK y \in 1 .. j : /\ base[i] = head[y] /\ <<i, y>> # avoid
                              /\ A \ {<<i, y>>} \in P(i - 1, y - 1)
                              /\ Cardinality(A \ {<<i, y>>}) = Cardinality(A) - 1
      <4>1. i \in Nat /\ j \in Nat /\ i > 0 /\ A \in Prefix(base, head, avoid, i, j)
            /\ A \notin Prefix(base, head, avoid, i - 1, j)
        BY <2>1, <2>3
      <4>2. Ends(A, base, head, avoid, i, j)
        BY <4>1, PrefixEnds
      <4> QED
        BY <4>1, <4>2, Zenon DEF Ends
    <3>2. PICK b : Best(b, P(i - 1, y - 1)) /\ row[y - 1] = i - 1 + (y - 1) - 2 * b /\ b \in Nat
      <4>1. y - 1 \in 0 .. j
        OBVIOUS
      <4> QED
        BY <1>3, <4>1
    <3>3. best - 1 <= b
      BY <2>1, <3>1, <3>2 DEF Best
    <3>4. PICK a : row[y] = i - 1 + y - 2 * a /\ a \in Nat
      BY <1>3
    <3>5. row[y] + 1 \in Int /\ row[y - 1] \in Int
      BY <3>2, <3>4
    <3>6. E(y) = Min({row[y] + 1, row[y - 1]})
      <4>1. y # 0 /\ avoid # <<i, y>>
        BY <3>1
      <4> QED
        BY <3>1, <4>1 DEF Enter
    <3>7. E(y) <= row[y - 1] /\ E(y) \in Int
      BY <3>5, <3>6, MinOfTwo
    <3> HIDE DEF E, P
    <3>8. E(y) + (j - y) <= v
      BY <1>2, <3>2, <3>3, <3>7
    <3> QED
      BY <3>8
  <2> QED
    BY <2>2, <2>3
<1> HIDE DEF E, P
<1>6. PICK k \in 0 .. j : E(k) + (j - k) <= v
  BY <1>5
<1>7. E(k) + (j - k) = v
  BY <1>2, <1>4, <1>6
<1>8. v \in S
  BY <1>7
<1>9. \A x \in S : x \in Int /\ v <= x
  BY <1>2, <1>4
<1> HIDE DEF S, v
<1>10. Min(S) = v
  BY <1>8, <1>9, MinIs
<1> QED
  BY <1>1, <1>10 DEF CellOf, Entry, P, S, E, v

\* The recursion of edit_costs over the first n rows.
Rows(g, n, base, head, forbidden) ==
    [i \in 0 .. n |-> IF i = 0 THEN [j \in 0 .. Len(head) |-> j]
                      ELSE CostRow(g[i - 1], i, base, head, forbidden)]

LEMMA RowsExist ==
    ASSUME NEW n \in Nat, NEW base, NEW head, NEW forbidden
    PROVE  \E g : g = Rows(g, n, base, head, forbidden)
<1> DEFINE step(g, i) == IF i = 0 THEN [j \in 0 .. Len(head) |-> j]
                         ELSE CostRow(g[i - 1], i, base, head, forbidden)
           Fits(g, m) == g = [i \in 0 .. m |-> step(g, i)]
           Good == {m \in Nat : \E g : Fits(g, m)}
<1>1. 0 \in Good
  <2> DEFINE first == [j \in 0 .. Len(head) |-> j]
             g == [i \in 0 .. 0 |-> first]
  <2>1. \A i \in 0 .. 0 : step(g, i) = first
    OBVIOUS
  <2> HIDE DEF first
  <2>2. Fits(g, 0)
    BY <2>1
  <2> QED
    BY <2>2
<1>2. ASSUME NEW m \in Nat, m \in Good
      PROVE  m + 1 \in Good
  <2>1. PICK g : Fits(g, m)
    BY <1>2
  <2> DEFINE h == [i \in 0 .. m + 1 |-> step(g, i)]
  <2> HIDE DEF step
  <2>2. \A i \in 0 .. m : g[i] = step(g, i)
    BY <2>1
  <2>3. \A i \in 0 .. m : h[i] = g[i]
    BY <2>2
  <2> HIDE DEF h
  <2>4. \A i \in 0 .. m + 1 : step(h, i) = step(g, i)
    <3> SUFFICES ASSUME NEW i \in 0 .. m + 1, i # 0
                 PROVE  step(h, i) = step(g, i)
      BY DEF step
    <3>1. h[i - 1] = g[i - 1]
      BY <2>3
    <3> QED
      BY <3>1 DEF step
  <2>5. Fits(h, m + 1)
    BY <2>4 DEF h
  <2> QED
    BY <2>5
<1> HIDE DEF Good
<1>3. n \in Good
  BY <1>1, <1>2, SetInduction
<1>4. PICK g : Fits(g, n)
  BY <1>3 DEF Good
<1>5. g = Rows(g, n, base, head, forbidden)
  BY <1>4, Zenon DEF Rows
<1> QED
  BY <1>5

\* Every cell of the table is what it should be.
LEMMA EditCosts ==
    ASSUME NEW base, NEW head, Len(base) \in Nat, Len(head) \in Nat, NEW avoid,
           NEW x \in 0 .. Len(base), NEW y \in 0 .. Len(head)
    PROVE  CellOf(edit_costs(base, head, avoid)[x][y], base, head, avoid, x, y)
<1> DEFINE n == Len(base)
           m == Len(head)
           Rec(g) == Rows(g, n, base, head, avoid)
           rows == CHOOSE g : g = Rec(g)
           first == [j \in 0 .. m |-> j]
<1>1. edit_costs(base, head, avoid) = rows
  BY Zenon DEF edit_costs, Rows
<1>2. rows = Rec(rows)
  <2>1. \E g : g = Rec(g)
    <3>1. n \in Nat
      OBVIOUS
    <3> HIDE DEF n
    <3> QED
      BY <3>1, RowsExist
  <2> HIDE DEF Rec
  <2> QED
    BY <2>1
<1>3. \A i \in 0 .. n : rows[i] = IF i = 0 THEN first ELSE CostRow(rows[i - 1], i, base, head, avoid)
  <2> HIDE DEF rows, first
  <2> QED
    BY <1>2 DEF Rows, first
<1>n. n \in Nat /\ m \in Nat
  OBVIOUS
<1> HIDE DEF rows, first, Rec
<1> DEFINE Fine(i) == \A j \in 0 .. m : CellOf(rows[i][j], base, head, avoid, i, j)
           Good == {i \in Nat : i <= n => Fine(i)}
<1>4. 0 \in Good
  <2> SUFFICES ASSUME NEW j \in 0 .. m
               PROVE  CellOf(rows[0][j], base, head, avoid, 0, j)
    OBVIOUS
  <2>1. rows[0][j] = j
    <3>1. 0 \in 0 .. n
      BY <1>n
    <3>2. rows[0] = first
      BY <1>3, <3>1
    <3> QED
      BY <3>2 DEF first
  <2>2. Prefix(base, head, avoid, 0, j) = {{}}
    <3>1. Equal(base, head, avoid, 0, j) = {}
      BY DEF Equal
    <3> QED
      BY <3>1 DEF Prefix, Chain
  <2>3. Best(0, Prefix(base, head, avoid, 0, j))
    BY <2>2, BestOfNone
  <2> QED
    BY <2>1, <2>3 DEF CellOf
<1>5. ASSUME NEW k \in Nat, k \in Good
      PROVE  k + 1 \in Good
  <2> SUFFICES ASSUME k + 1 <= n, NEW j \in 0 .. m
               PROVE  CellOf(rows[k + 1][j], base, head, avoid, k + 1, j)
    OBVIOUS
  <2> DEFINE i == k + 1
             row == rows[k]
  <2>1. rows[i] = CostRow(row, i, base, head, avoid)
    <3>1. i \in 0 .. n /\ i # 0 /\ i - 1 = k
      BY <1>n
    <3> QED
      BY <1>3, <3>1
  <2>2. CostRow(row, i, base, head, avoid)[j] = Entry(row, i, j, base, head, avoid)
    <3>1. CostRow(row, i, base, head, avoid) = [z \in 0 .. m |-> Entry(row, i, z, base, head, avoid)]
      BY Zenon DEF CostRow, Enter, Entry
    <3> QED
      BY <3>1
  <2>3. Fine(k)
    BY <1>5
  <2>4. \A z \in 0 .. j : CellOf(row[z], base, head, avoid, i - 1, z)
    BY <2>3
  <2>5. i \in Nat /\ i > 0 /\ j \in Nat
    OBVIOUS
  <2> HIDE DEF i, row
  <2>6. CellOf(rows[i][j], base, head, avoid, i, j)
    <3>1. CellOf(Entry(row, i, j, base, head, avoid), base, head, avoid, i, j)
      BY <2>4, <2>5, CostRowCells
    <3> QED
      BY <2>1, <2>2, <3>1, Zenon
  <2> QED
    BY <2>6 DEF i
<1> HIDE DEF Good
<1>6. x \in Good
  BY <1>4, <1>5, SetInduction
<1> QED
  BY <1>1, <1>6 DEF Good

-----------------------------------------------------------------------------
(* Alignments through one pair.                                               *)

Mirror(A, n, m) == {<<n + 1 - p[1], m + 1 - p[2]>> : p \in A}

\* Alignments of the lines after i and j.
After(base, head, i, j) ==
    {A \in Prefix(base, head, NoPair, Len(base), Len(head)) : \A p \in A : p[1] > i /\ p[2] > j}

Through(base, head, i, j) ==
    {A \in Prefix(base, head, NoPair, Len(base), Len(head)) : <<i, j>> \in A}

LEMMA MirrorSize ==
    ASSUME NEW n \in Nat, NEW m \in Nat, NEW A, IsFiniteSet(A),
           \A p \in A : p[1] \in Nat /\ p[2] \in Nat /\ p = <<p[1], p[2]>>
    PROVE  Cardinality(Mirror(A, n, m)) = Cardinality(A)
<1> DEFINE f == [p \in A |-> <<n + 1 - p[1], m + 1 - p[2]>>]
           B == Mirror(A, n, m)
<1>1. f \in [A -> B] /\ \A q \in B : \E p \in A : f[p] = q
  BY DEF Mirror
<1>2. f \in Surjection(A, B)
  BY <1>1 DEF Surjection
<1>3. \A p, q \in A : f[p] = f[q] => p = q
  <2> SUFFICES ASSUME NEW p \in A, NEW q \in A, f[p] = f[q]
               PROVE  p = q
    OBVIOUS
  <2>1. n + 1 - p[1] = n + 1 - q[1] /\ m + 1 - p[2] = m + 1 - q[2]
    OBVIOUS
  <2>2. p[1] = q[1] /\ p[2] = q[2]
    BY <2>1
  <2> QED
    BY <2>2
<1> HIDE DEF f, B
<1>4. f \in Injection(A, B)
  BY <1>1, <1>3 DEF Injection, IsInjective
<1> QED
  BY <1>2, <1>4, FS_Surjection DEF B

LEMMA MirrorChain ==
    ASSUME NEW n \in Nat, NEW m \in Nat, NEW A, Chain(A),
           \A p \in A : p[1] \in Nat /\ p[2] \in Nat
    PROVE  Chain(Mirror(A, n, m))
<1> SUFFICES ASSUME NEW q \in Mirror(A, n, m), NEW r \in Mirror(A, n, m), q # r
             PROVE  (q[1] < r[1] /\ q[2] < r[2]) \/ (r[1] < q[1] /\ r[2] < q[2])
  BY DEF Chain
<1>1. PICK a \in A : q = <<n + 1 - a[1], m + 1 - a[2]>>
  BY DEF Mirror
<1>2. PICK c \in A : r = <<n + 1 - c[1], m + 1 - c[2]>>
  BY DEF Mirror
<1>3. (a[1] < c[1] /\ a[2] < c[2]) \/ (c[1] < a[1] /\ c[2] < a[2])
  BY <1>1, <1>2 DEF Chain
<1>4. q[1] = n + 1 - a[1] /\ q[2] = m + 1 - a[2] /\ r[1] = n + 1 - c[1] /\ r[2] = m + 1 - c[2]
  BY <1>1, <1>2
<1>5. \A a1, c1, l \in Nat : a1 < c1 => l + 1 - c1 < l + 1 - a1
  OBVIOUS
<1> QED
  BY <1>3, <1>4, <1>5

\* What is equal line by line stays equal when both sources are reversed.
LEMMA MirrorAfter ==
    ASSUME NEW X, NEW base \in Seq(X), NEW head \in Seq(X), NEW i \in 1 .. Len(base), NEW j \in 1 .. Len(head),
           NEW A \in After(base, head, i, j)
    PROVE  /\ Mirror(A, Len(base), Len(head))
                \in Prefix(Reverse(base), Reverse(head), NoPair, Len(base) - i, Len(head) - j)
           /\ Cardinality(Mirror(A, Len(base), Len(head))) = Cardinality(A)
<1> DEFINE n == Len(base)
           m == Len(head)
           B == Mirror(A, n, m)
<1>n. n \in Nat /\ m \in Nat
  OBVIOUS
<1>1. \A p \in A : /\ p[1] \in Nat /\ p[2] \in Nat /\ p = <<p[1], p[2]>>
                   /\ i < p[1] /\ p[1] <= n /\ j < p[2] /\ p[2] <= m
                   /\ base[p[1]] = head[p[2]]
  BY DEF After, Prefix, Equal
<1>2. Chain(A)
  BY DEF After, Prefix
<1>3. \A x \in 1 .. n : Reverse(base)[x] = base[n - x + 1]
  BY DEF Reverse
<1>4. \A x \in 1 .. m : Reverse(head)[x] = head[m - x + 1]
  BY DEF Reverse
<1>5. ASSUME NEW q \in B
      PROVE  q \in Equal(Reverse(base), Reverse(head), NoPair, n - i, m - j)
  <2>1. PICK p \in A : q = <<n + 1 - p[1], m + 1 - p[2]>>
    BY <1>5 DEF Mirror
  <2> DEFINE x == n + 1 - p[1]
             y == m + 1 - p[2]
  <2>2. x \in 1 .. n - i /\ y \in 1 .. m - j /\ x \in 1 .. n /\ y \in 1 .. m
    BY <1>n, <1>1
  <2>3. n - x + 1 = p[1] /\ m - y + 1 = p[2]
    BY <1>n, <1>1
  <2> HIDE DEF x, y
  <2>4. Reverse(base)[x] = base[p[1]] /\ Reverse(head)[y] = head[p[2]]
    BY <1>3, <1>4, <2>2, <2>3
  <2>5. q = <<x, y>> /\ <<x, y>> # NoPair
    BY <2>1, <2>2 DEF x, y, NoPair
  <2> QED
    BY <1>1, <2>2, <2>4, <2>5 DEF Equal
<1>6. Chain(B)
  BY <1>n, <1>1, <1>2, MirrorChain
<1>7. IsFiniteSet(A)
  BY PrefixFinite, <1>n DEF After
<1>8. Cardinality(B) = Cardinality(A)
  BY <1>n, <1>1, <1>7, MirrorSize
<1> QED
  BY <1>5, <1>6, <1>8 DEF Prefix

LEMMA MirrorBack ==
    ASSUME NEW X, NEW base \in Seq(X), NEW head \in Seq(X), NEW i \in 1 .. Len(base), NEW j \in 1 .. Len(head),
           NEW A \in Prefix(Reverse(base), Reverse(head), NoPair, Len(base) - i, Len(head) - j)
    PROVE  /\ Mirror(A, Len(base), Len(head)) \in After(base, head, i, j)
           /\ Cardinality(Mirror(A, Len(base), Len(head))) = Cardinality(A)
<1> DEFINE n == Len(base)
           m == Len(head)
           B == Mirror(A, n, m)
<1>n. n \in Nat /\ m \in Nat /\ n - i \in Nat /\ m - j \in Nat
  OBVIOUS
<1>1. \A p \in A : /\ p[1] \in Nat /\ p[2] \in Nat /\ p = <<p[1], p[2]>>
                   /\ 1 <= p[1] /\ p[1] <= n - i /\ 1 <= p[2] /\ p[2] <= m - j
                   /\ Reverse(base)[p[1]] = Reverse(head)[p[2]]
  BY <1>n DEF Prefix, Equal
<1>2. Chain(A)
  BY DEF Prefix
<1>3. \A x \in 1 .. n : Reverse(base)[x] = base[n - x + 1]
  BY DEF Reverse
<1>4. \A x \in 1 .. m : Reverse(head)[x] = head[m - x + 1]
  BY DEF Reverse
<1>5. ASSUME NEW q \in B
      PROVE  q \in Equal(base, head, NoPair, n, m) /\ q[1] > i /\ q[2] > j
  <2>1. PICK p \in A : q = <<n + 1 - p[1], m + 1 - p[2]>>
    BY <1>5 DEF Mirror
  <2> DEFINE x == n + 1 - p[1]
             y == m + 1 - p[2]
  <2>2. x \in 1 .. n /\ y \in 1 .. m /\ x > i /\ y > j /\ p[1] \in 1 .. n /\ p[2] \in 1 .. m
    BY <1>n, <1>1
  <2>3. n - p[1] + 1 = x /\ m - p[2] + 1 = y
    BY <1>n, <1>1
  <2> HIDE DEF x, y
  <2>4. base[x] = head[y]
    BY <1>1, <1>3, <1>4, <2>2, <2>3
  <2>5. q = <<x, y>> /\ <<x, y>> # NoPair
    BY <2>1, <2>2 DEF x, y, NoPair
  <2> QED
    BY <2>2, <2>4, <2>5 DEF Equal
<1>6. Chain(B)
  BY <1>n, <1>1, <1>2, MirrorChain
<1>7. IsFiniteSet(A)
  BY PrefixFinite, <1>n
<1>8. Cardinality(B) = Cardinality(A)
  BY <1>n, <1>1, <1>7, MirrorSize
<1> QED
  BY <1>5, <1>6, <1>8 DEF After, Prefix

LEMMA AfterBest ==
    ASSUME NEW X, NEW base \in Seq(X), NEW head \in Seq(X), NEW i \in 1 .. Len(base), NEW j \in 1 .. Len(head),
           NEW k, Best(k, Prefix(Reverse(base), Reverse(head), NoPair, Len(base) - i, Len(head) - j))
    PROVE  Best(k, After(base, head, i, j))
<1> DEFINE S == Prefix(Reverse(base), Reverse(head), NoPair, Len(base) - i, Len(head) - j)
           T == After(base, head, i, j)
           M(A) == Mirror(A, Len(base), Len(head))
<1>1. \A A \in T : M(A) \in S /\ Cardinality(M(A)) = Cardinality(A)
  BY MirrorAfter
<1>2. \A A \in S : M(A) \in T /\ Cardinality(M(A)) = Cardinality(A)
  BY MirrorBack
<1>3. Best(k, S)
  OBVIOUS
<1> HIDE DEF S, T, M
<1>4. Best(k, T)
  BY <1>1, <1>2, <1>3 DEF Best
<1> QED
  BY <1>4 DEF T

LEMMA Disjoint ==
    ASSUME NEW S, NEW T, IsFiniteSet(S), IsFiniteSet(T), S \intersect T = {}
    PROVE  Cardinality(S \union T) = Cardinality(S) + Cardinality(T)
<1>1. Cardinality(S \cap T) = 0
  BY FS_EmptySet
<1>2. Cardinality(S) \in Nat /\ Cardinality(T) \in Nat
  BY FS_CardinalityType
<1>3. Cardinality(S \union T) = Cardinality(S) + Cardinality(T) - Cardinality(S \cap T)
  BY FS_Union
<1> QED
  BY <1>1, <1>2, <1>3

\* An alignment through a pair: one before it, the pair, and one after it.
LEMMA ThroughSplits ==
    ASSUME NEW base, NEW head, Len(base) \in Nat, Len(head) \in Nat,
           NEW i \in 1 .. Len(base), NEW j \in 1 .. Len(head), NEW A \in Through(base, head, i, j)
    PROVE  \E L \in Prefix(base, head, NoPair, i - 1, j - 1), R \in After(base, head, i, j) :
             Cardinality(A) = Cardinality(L) + 1 + Cardinality(R)
<1> DEFINE n == Len(base)
           m == Len(head)
           L == {p \in A : p[1] < i}
           R == {p \in A : p[1] > i}
<1>1. /\ A \in Prefix(base, head, NoPair, n, m) /\ <<i, j>> \in A /\ Chain(A)
      /\ \A p \in A : /\ p[1] \in 1 .. n /\ p[2] \in 1 .. m /\ p = <<p[1], p[2]>>
                      /\ base[p[1]] = head[p[2]] /\ p # NoPair
  BY DEF Through, Prefix, Equal
<1>2. \A p \in A : \/ p = <<i, j>> \/ (p[1] < i /\ p[2] < j) \/ (i < p[1] /\ j < p[2])
  BY <1>1 DEF Chain
<1>3. \A p \in L : p[1] \in 1 .. i - 1 /\ p[2] \in 1 .. j - 1
  <2> SUFFICES ASSUME NEW p \in L
               PROVE  p[1] \in 1 .. i - 1 /\ p[2] \in 1 .. j - 1
    OBVIOUS
  <2>1. p[1] < i /\ p[2] < j
    BY <1>1, <1>2
  <2> QED
    BY <1>1, <2>1
<1>4. L \in Prefix(base, head, NoPair, i - 1, j - 1)
  <2>1. L \subseteq Equal(base, head, NoPair, i - 1, j - 1)
    BY <1>1, <1>3 DEF Equal
  <2>2. Chain(L)
    BY <1>1 DEF Chain
  <2> QED
    BY <2>1, <2>2 DEF Prefix
<1>5. R \in After(base, head, i, j)
  <2>1. R \subseteq Equal(base, head, NoPair, n, m)
    BY <1>1 DEF Prefix
  <2>2. Chain(R)
    BY <1>1 DEF Chain
  <2>3. \A p \in R : p[1] > i /\ p[2] > j
    BY <1>1, <1>2
  <2> QED
    BY <2>1, <2>2, <2>3 DEF Prefix, After
<1>6. IsFiniteSet(A) /\ IsFiniteSet(L) /\ IsFiniteSet(R)
  <2>1. IsFiniteSet(A)
    BY <1>1, PrefixFinite
  <2>2. L \subseteq A /\ R \subseteq A
    OBVIOUS
  <2> HIDE DEF L, R
  <2> QED
    BY <2>1, <2>2, FS_Subset
<1>7. (L \union {<<i, j>>}) \union R = A
  <2>1. \A p \in A : p = <<i, j>> \/ p \in L \/ p \in R
    BY <1>2
  <2> HIDE DEF n, m
  <2> QED
    BY <1>1, <2>1
<1>8. <<i, j>> \notin L /\ (L \union {<<i, j>>}) \intersect R = {}
  <2>1. \A p \in L : p[1] < i
    OBVIOUS
  <2>2. \A p \in R : p[1] > i
    OBVIOUS
  <2>3. <<i, j>>[1] = i /\ i \in Int /\ \A p \in L \union R : p[1] \in Int
    BY <1>1
  <2> HIDE DEF L, R
  <2>4. <<i, j>> \notin L /\ <<i, j>> \notin R
    BY <2>1, <2>2, <2>3
  <2>5. \A p \in L : p \notin R
    BY <2>1, <2>2, <2>3
  <2> QED
    BY <2>4, <2>5
<1> HIDE DEF L, R
<1>9. /\ IsFiniteSet(L \union {<<i, j>>})
      /\ Cardinality(L \union {<<i, j>>}) = Cardinality(L) + 1
  BY <1>6, <1>8, FS_AddElement
<1>10. Cardinality(A) = Cardinality(L) + 1 + Cardinality(R)
  BY <1>6, <1>7, <1>8, <1>9, Disjoint
<1> QED
  BY <1>4, <1>5, <1>10

LEMMA ThroughJoins ==
    ASSUME NEW base, NEW head, Len(base) \in Nat, Len(head) \in Nat,
           NEW i \in 1 .. Len(base), NEW j \in 1 .. Len(head), base[i] = head[j],
           NEW L \in Prefix(base, head, NoPair, i - 1, j - 1), NEW R \in After(base, head, i, j)
    PROVE  /\ (L \union {<<i, j>>}) \union R \in Through(base, head, i, j)
           /\ Cardinality((L \union {<<i, j>>}) \union R) = Cardinality(L) + 1 + Cardinality(R)
<1> DEFINE n == Len(base)
           m == Len(head)
           A == (L \union {<<i, j>>}) \union R
<1>1. \A p \in L : /\ p[1] \in 1 .. n /\ p[2] \in 1 .. m /\ p = <<p[1], p[2]>>
                   /\ base[p[1]] = head[p[2]] /\ p # NoPair /\ p[1] < i /\ p[2] < j
  BY DEF Prefix, Equal
<1>2. \A p \in R : /\ p[1] \in 1 .. n /\ p[2] \in 1 .. m /\ p = <<p[1], p[2]>>
                   /\ base[p[1]] = head[p[2]] /\ p # NoPair /\ i < p[1] /\ j < p[2]
  BY DEF After, Prefix, Equal
<1>3. Chain(L) /\ Chain(R)
  BY DEF After, Prefix
<1>4. <<i, j>> # NoPair
  BY DEF NoPair
<1>5. A \subseteq Equal(base, head, NoPair, n, m)
  BY <1>1, <1>2, <1>4 DEF Equal
<1>6. Chain(A)
  <2> HIDE DEF n, m
  <2>1. n \in Nat /\ m \in Nat
    BY DEF n, m
  <2> QED
    BY <1>1, <1>2, <1>3, <2>1 DEF Chain
<1>7. IsFiniteSet(L) /\ IsFiniteSet(R)
  <2>1. i - 1 \in Nat /\ j - 1 \in Nat
    OBVIOUS
  <2> QED
    BY <2>1, PrefixFinite DEF After
<1>8. <<i, j>> \notin L /\ (L \union {<<i, j>>}) \intersect R = {}
  BY <1>1, <1>2
<1>9. /\ IsFiniteSet(L \union {<<i, j>>})
      /\ Cardinality(L \union {<<i, j>>}) = Cardinality(L) + 1
  BY <1>7, <1>8, FS_AddElement
<1>10. Cardinality(A) = Cardinality(L) + 1 + Cardinality(R)
  BY <1>7, <1>8, <1>9, Disjoint
<1> QED
  BY <1>5, <1>6, <1>10 DEF Through, Prefix

LEMMA ThroughBest ==
    ASSUME NEW base, NEW head, Len(base) \in Nat, Len(head) \in Nat,
           NEW i \in 1 .. Len(base), NEW j \in 1 .. Len(head), base[i] = head[j],
           NEW k, Best(k, Prefix(base, head, NoPair, i - 1, j - 1)),
           NEW l, Best(l, After(base, head, i, j))
    PROVE  Best(k + 1 + l, Through(base, head, i, j))
<1> DEFINE S == Prefix(base, head, NoPair, i - 1, j - 1)
           T == After(base, head, i, j)
           U == Through(base, head, i, j)
<1>1. \A A \in U : \E L \in S, R \in T : Cardinality(A) = Cardinality(L) + 1 + Cardinality(R)
  BY ThroughSplits
<1>2. \A L \in S, R \in T : \E A \in U : Cardinality(A) = Cardinality(L) + 1 + Cardinality(R)
  <2> SUFFICES ASSUME NEW L \in S, NEW R \in T
               PROVE  \E A \in U : Cardinality(A) = Cardinality(L) + 1 + Cardinality(R)
    OBVIOUS
  <2> DEFINE A == (L \union {<<i, j>>}) \union R
  <2>1. A \in U /\ Cardinality(A) = Cardinality(L) + 1 + Cardinality(R)
    BY ThroughJoins
  <2> HIDE DEF A, S, T, U
  <2> QED
    BY <2>1
<1>3. \A L \in S : Cardinality(L) \in Nat
  <2>1. i - 1 \in Nat /\ j - 1 \in Nat
    OBVIOUS
  <2> QED
    BY <2>1, PrefixFinite
<1>4. \A R \in T : Cardinality(R) \in Nat
  BY PrefixFinite DEF After
<1> HIDE DEF S, T, U
<1>5. Best(k, S) /\ Best(l, T)
  BY DEF S, T
<1>6. k + 1 + l \in Nat
  BY <1>5 DEF Best
<1>7. \E A \in U : Cardinality(A) = k + 1 + l
  BY <1>2, <1>5 DEF Best
<1>8. \A A \in U : Cardinality(A) <= k + 1 + l
  <2> SUFFICES ASSUME NEW A \in U
               PROVE  Cardinality(A) <= k + 1 + l
    OBVIOUS
  <2>1. PICK L \in S, R \in T : Cardinality(A) = Cardinality(L) + 1 + Cardinality(R)
    BY <1>1
  <2>2. Cardinality(L) <= k /\ Cardinality(R) <= l
    BY <1>5 DEF Best
  <2> QED
    BY <1>3, <1>4, <1>5, <2>1, <2>2 DEF Best
<1>9. Best(k + 1 + l, U)
  BY <1>6, <1>7, <1>8 DEF Best
<1> QED
  BY <1>9 DEF U

-----------------------------------------------------------------------------
(* The decision.                                                              *)

Around(base, head, i, j) ==
    {A \in Prefix(base, head, NoPair, Len(base), Len(head)) : <<i, j>> \notin A}

LEMMA AlignmentsArePrefix ==
    ASSUME NEW base, NEW head, Len(base) \in Nat, Len(head) \in Nat
    PROVE  Alignments(base, head) = Prefix(base, head, NoPair, Len(base), Len(head))
<1> DEFINE n == Len(base)
           m == Len(head)
           equal == {p \in (1 .. n) \X (1 .. m) : base[p[1]] = head[p[2]]}
<1>1. equal = Equal(base, head, NoPair, n, m)
  BY DEF Equal, NoPair
<1>2. Alignments(base, head) = {A \in SUBSET equal : Chain(A)}
  BY Zenon DEF Alignments, Chain
<1> HIDE DEF equal
<1> QED
  BY <1>1, <1>2 DEF Prefix

LEMMA AroundIsPrefix ==
    ASSUME NEW base, NEW head, Len(base) \in Nat, Len(head) \in Nat, NEW i, NEW j
    PROVE  Around(base, head, i, j) = Prefix(base, head, <<i, j>>, Len(base), Len(head))
<1> DEFINE n == Len(base)
           m == Len(head)
<1>1. \A p : p \in Equal(base, head, <<i, j>>, n, m) <=> p \in Equal(base, head, NoPair, n, m) /\ p # <<i, j>>
  BY DEF Equal, NoPair
<1> QED
  BY <1>1 DEF Around, Prefix

LEMMA LongestAre ==
    ASSUME NEW base, NEW head, Len(base) \in Nat, Len(head) \in Nat,
           NEW g, Best(g, Alignments(base, head))
    PROVE  Longest(base, head) = {A \in Alignments(base, head) : Cardinality(A) = g}
<1> DEFINE all == Alignments(base, head)
           sizes == {Cardinality(A) : A \in all}
<1>1. \A A \in all : Cardinality(A) \in Nat
  BY AlignmentsArePrefix, PrefixFinite
<1>2. Longest(base, head) = {A \in all : Cardinality(A) = Max(sizes)}
  BY Zenon DEF Longest
<1> HIDE DEF all
<1>3. Best(g, all)
  BY DEF all
<1>4. g \in sizes /\ \A c \in sizes : c \in Nat /\ g >= c
  BY <1>1, <1>3 DEF Best
<1> HIDE DEF sizes
<1>5. Max(sizes) = g
  BY <1>4 DEF Max
<1> QED
  BY <1>2, <1>5 DEF all

\* What the alignments in best say of a pair of lines.
Agreed(best, p) ==
    IF \A A \in best : p \in A THEN "unchanged"
    ELSE IF \A A \in best : p \notin A THEN "introduced"
    ELSE "unknown"

\* Decide, from the largest alignments: all of them, through the pair, around it.
LEMMA DecideIsExact ==
    ASSUME NEW all, NEW p, NEW g, NEW f, NEW w, NEW c \in Nat, NEW best,
           NEW through, NEW around, Best(g, all), Best(f, through), Best(w, around),
           best = {A \in all : Cardinality(A) = g},
           through = {A \in all : p \in A}, around = {A \in all : p \notin A}
    PROVE  Decide(c - 2 * g, c - 2 * f, c - 2 * w) = Agreed(best, p)
<1>1. g \in Nat /\ f \in Nat /\ w \in Nat /\ f <= g /\ w <= g
  BY DEF Best
<1>2. f = g <=> \E A \in best : p \in A
  BY <1>1 DEF Best
<1>3. w = g <=> \E A \in best : p \notin A
  BY <1>1 DEF Best
<1>4. best # {}
  BY DEF Best
<1>5. /\ c - 2 * f = c - 2 * g <=> f = g
      /\ c - 2 * w > c - 2 * g <=> w # g
      /\ c - 2 * f > c - 2 * g <=> f # g
  BY <1>1
<1>6. Decide(c - 2 * g, c - 2 * f, c - 2 * w) =
        IF f = g /\ w # g THEN "unchanged" ELSE IF f # g THEN "introduced" ELSE "unknown"
  BY <1>5 DEF Decide
<1> QED
  BY <1>2, <1>3, <1>4, <1>6 DEF Agreed

LEMMA CostIs ==
    ASSUME NEW X, NEW base \in Seq(X), NEW head \in Seq(X), NEW avoid
    PROVE  \E k : /\ Best(k, Prefix(base, head, avoid, Len(base), Len(head)))
                  /\ Cost(base, head, avoid) = (Len(base) + Len(head)) - 2 * k
<1>1. Len(base) \in Nat /\ Len(head) \in Nat
  OBVIOUS
<1>2. Len(base) \in 0 .. Len(base) /\ Len(head) \in 0 .. Len(head)
  BY <1>1
<1>3. CellOf(Cost(base, head, avoid), base, head, avoid, Len(base), Len(head))
  BY <1>1, <1>2, EditCosts DEF Cost
<1>4. PICK k : /\ Best(k, Prefix(base, head, avoid, Len(base), Len(head)))
               /\ Cost(base, head, avoid) = Len(base) + Len(head) - 2 * k
  BY <1>3 DEF CellOf
<1>5. Cost(base, head, avoid) = (Len(base) + Len(head)) - 2 * k
  BY <1>1, <1>4 DEF Best
<1> QED
  BY <1>4, <1>5

LEMMA ForcedCostIs ==
    ASSUME NEW X, NEW base \in Seq(X), NEW head \in Seq(X),
           NEW i \in 1 .. Len(base), NEW j \in 1 .. Len(head), base[i] = head[j]
    PROVE  \E k : /\ Best(k, Through(base, head, i, j))
                  /\ ForcedCost(base, head, i, j) = (Len(base) + Len(head)) - 2 * k
<1> DEFINE n == Len(base)
           m == Len(head)
           before == edit_costs(base, head, NoPair)[i - 1][j - 1]
           behind == edit_costs(Reverse(base), Reverse(head), NoPair)[n - i][m - j]
<1>1. n \in Nat /\ m \in Nat /\ i - 1 \in 0 .. n /\ j - 1 \in 0 .. m /\ n - i \in 0 .. n /\ m - j \in 0 .. m
  OBVIOUS
<1>2. Len(Reverse(base)) = n /\ Len(Reverse(head)) = m
  <2>1. Reverse(base) \in Seq(X) /\ Reverse(head) \in Seq(X)
    BY DEF Reverse
  <2>2. DOMAIN Reverse(base) = 1 .. n /\ DOMAIN Reverse(head) = 1 .. m
    BY DEF Reverse
  <2> QED
    BY <1>1, <2>1, <2>2
<1> HIDE DEF n, m
<1>3. CellOf(before, base, head, NoPair, i - 1, j - 1)
  BY <1>1, EditCosts DEF n, m
<1>4. CellOf(behind, Reverse(base), Reverse(head), NoPair, n - i, m - j)
  BY <1>1, <1>2, EditCosts
<1>5. PICK k : Best(k, Prefix(base, head, NoPair, i - 1, j - 1)) /\ before = (i - 1) + (j - 1) - 2 * k
  BY <1>3 DEF CellOf
<1>6. PICK l : /\ Best(l, Prefix(Reverse(base), Reverse(head), NoPair, n - i, m - j))
               /\ behind = (n - i) + (m - j) - 2 * l
  BY <1>4 DEF CellOf
<1>7. Best(l, After(base, head, i, j))
  BY <1>6, AfterBest DEF n, m
<1>8. Best(k + 1 + l, Through(base, head, i, j))
  BY <1>1, <1>5, <1>7, ThroughBest DEF n, m
<1>9. k \in Nat /\ l \in Nat
  BY <1>5, <1>6 DEF Best
<1>10. ForcedCost(base, head, i, j) = before + 0 + behind
  <2> DEFINE reversed == edit_costs(Reverse(base), Reverse(head), NoPair)
  <2>1. suffix_edit_costs(base, head) = [x \in 0 .. n |-> [y \in 0 .. m |-> reversed[n - x][m - y]]]
    BY Zenon DEF suffix_edit_costs, n, m
  <2> HIDE DEF reversed
  <2>2. i \in 0 .. n /\ j \in 0 .. m
    BY DEF n, m
  <2>3. suffix_edit_costs(base, head)[i][j] = reversed[n - i][m - j]
    BY <2>1, <2>2
  <2> QED
    BY <2>3 DEF ForcedCost, reversed
<1> HIDE DEF before, behind
<1>11. ForcedCost(base, head, i, j) = (n + m) - 2 * (k + 1 + l)
  BY <1>1, <1>5, <1>6, <1>9, <1>10
<1> QED
  BY <1>8, <1>11 DEF n, m

LEMMA CostsDecide ==
    ASSUME NEW X, NEW base \in Seq(X), NEW head \in Seq(X),
           NEW i \in 1 .. Len(base), NEW j \in 1 .. Len(head), base[i] = head[j]
    PROVE  Decide(Cost(base, head, NoPair), ForcedCost(base, head, i, j), Cost(base, head, <<i, j>>))
             = Agreed(Longest(base, head), <<i, j>>)
<1> DEFINE n == Len(base)
           m == Len(head)
           all == Prefix(base, head, NoPair, n, m)
           p == <<i, j>>
           c == n + m
           best == Longest(base, head)
<1>1. n \in Nat /\ m \in Nat /\ c \in Nat
  OBVIOUS
<1>2. PICK g : Best(g, all) /\ Cost(base, head, NoPair) = c - 2 * g
  BY CostIs
<1>3. PICK f : Best(f, Through(base, head, i, j)) /\ ForcedCost(base, head, i, j) = c - 2 * f
  BY ForcedCostIs
<1>4. PICK w : Best(w, Prefix(base, head, p, n, m)) /\ Cost(base, head, p) = c - 2 * w
  BY CostIs
<1>5. all = Alignments(base, head)
  BY <1>1, AlignmentsArePrefix
<1>6. /\ Through(base, head, i, j) = {A \in all : p \in A}
      /\ Around(base, head, i, j) = {A \in all : p \notin A}
      /\ Best(w, Around(base, head, i, j))
  BY <1>1, <1>4, AroundIsPrefix DEF Through, Around
<1>7. best = {A \in all : Cardinality(A) = g}
  BY <1>1, <1>2, <1>5, LongestAre
<1> HIDE DEF n, m, all, p, c, best
<1>8. Decide(c - 2 * g, c - 2 * f, c - 2 * w) = Agreed(best, p)
  BY <1>1, <1>2, <1>3, <1>6, <1>7, DecideIsExact
<1> QED
  BY <1>2, <1>3, <1>4, <1>8 DEF p, best

LEMMA ContinuityDecision ==
    ASSUME NEW X, NEW base \in Seq(X), NEW head \in Seq(X),
           NEW i \in 1 .. Len(base), NEW j \in 1 .. Len(head),
           Occurrences(base, base[i]) = 1, Occurrences(head, head[j]) = 1,
           line_anchor(base, i) = line_anchor(head, j)
    PROVE  continuity_decision(base, head, i, j) = Agreed(Longest(base, head), <<i, j>>)
<1>1. base[i] = head[j]
  BY DEF line_anchor
<1> QED
  BY <1>1, CostsDecide DEF continuity_decision

-----------------------------------------------------------------------------
(* The controls of one token in a file that changed                           *)
(* (_classify_changed_suppression_identity).                                  *)

LEMMA BucketFinite ==
    ASSUME NEW X, NEW s \in Seq(X), NEW t
    PROVE  /\ Bucket(s, t) \subseteq 1 .. Len(s) /\ Bucket(s, t) \subseteq Nat
           /\ IsFiniteSet(Bucket(s, t)) /\ Cardinality(Bucket(s, t)) \in Nat
<1>1. Bucket(s, t) \subseteq 1 .. Len(s) /\ Len(s) \in Nat
  BY DEF Bucket, tokenize_comments
<1>2. IsFiniteSet(1 .. Len(s))
  BY <1>1, FS_Interval
<1>3. IsFiniteSet(Bucket(s, t))
  BY <1>1, <1>2, FS_Subset
<1> QED
  BY <1>1, <1>3, FS_CardinalityType

LEMMA OrdinalLists ==
    ASSUME NEW S, IsFiniteSet(S), S \subseteq Nat
    PROVE  Lists(ByOrdinal(S), S)
<1> DEFINE R == {p \in S \X S : p[1] < p[2]}
<1>1. \A x, y \in S : <<x, y>> \in R <=> x < y
  OBVIOUS
<1>2. ByOrdinal(S) = InOrder(S, R)
  BY Zenon DEF ByOrdinal
<1> HIDE DEF R
<1>3. IsOrder(S, R)
  BY <1>1 DEF IsOrder
<1> QED
  BY <1>2, <1>3, InOrderLists

\* No control is paired twice, and the fallback leaves the line pairs alone.
Apart(taken, fallback, B, H) ==
    /\ taken \union fallback \in SUBSET (B \X H)
    /\ Matching(taken \union fallback)
    /\ \A p \in taken, q \in fallback : p[2] # q[2]

LEMMA SuppressionPairs ==
    ASSUME NEW B, NEW H, IsFiniteSet(B), IsFiniteSet(H), B \subseteq Nat, H \subseteq Nat,
           NEW base, NEW head, NEW taken, taken = LinePairs(B, H, base, head),
           NEW fallback, fallback = FallbackPairs(B, H, taken)
    PROVE  Apart(taken, fallback, B, H)
<1> DEFINE S == B \ {p[1] : p \in taken}
           T == H \ {p[2] : p \in taken}
<1>1. taken \in SUBSET (B \X H) /\ Matching(taken)
  <2>1. \A p \in taken : /\ p \in B \X H /\ p = <<p[1], p[2]>> /\ base[p[1]] = head[p[2]]
                         /\ p[1] \in B /\ p[2] \in H
                         /\ \A i \in B : base[i] = base[p[1]] => i = p[1]
                         /\ \A j \in H : head[j] = head[p[2]] => j = p[2]
    BY DEF LinePairs
  <2>2. ASSUME NEW p \in taken, NEW q \in taken, p[1] = q[1] \/ p[2] = q[2]
        PROVE  p[1] = q[1] /\ p[2] = q[2]
    BY <2>1, <2>2
  <2> QED
    BY <2>1, <2>2 DEF Matching
<1>2. fallback = PairOff(ByOrdinal(S), ByOrdinal(T))
  BY Zenon DEF FallbackPairs
<1>3. \A p \in taken : p[1] \notin S /\ p[2] \notin T
  OBVIOUS
<1>4. S \subseteq B /\ T \subseteq H
  OBVIOUS
<1> HIDE DEF S, T
<1>5. IsFiniteSet(S) /\ IsFiniteSet(T)
  BY <1>4, FS_Subset
<1>6. Lists(ByOrdinal(S), S) /\ Lists(ByOrdinal(T), T)
  BY <1>4, <1>5, OrdinalLists
<1>7. fallback \in SUBSET (S \X T) /\ Matching(fallback)
  BY <1>2, <1>5, <1>6, PairOffPairs
<1>8. \A q \in fallback : q[1] \in S /\ q[2] \in T
  BY <1>7
<1>9. taken \union fallback \in SUBSET (B \X H)
  BY <1>1, <1>4, <1>7
<1>10. Matching(taken \union fallback)
  BY <1>1, <1>3, <1>7, <1>8 DEF Matching
<1> QED
  BY <1>3, <1>8, <1>9, <1>10 DEF Apart

\* part divides the controls H by what became of their pairs.
Judged(part, H, pairs, fallback, status) ==
    /\ DOMAIN part = {"introduced", "quarantined"}
    /\ \A h : h \in H <=> h \in part.introduced \/ h \in part.quarantined
    /\ \A h \in part.introduced : h \notin part.quarantined
    /\ \A h \in part.introduced : (\E p \in pairs : p[2] = h) => \E p \in pairs : p[2] = h /\ status[p] = "introduced"
    /\ \A h \in part.quarantined : (\E p \in pairs : p[2] = h) \/ \E p \in fallback : status[p] = "unknown"
    /\ \A p \in pairs : p[2] \in part.quarantined \/ status[p] = "introduced"

LEMMA JudgeSorts ==
    ASSUME NEW B, NEW H, NEW taken, NEW fallback, NEW status,
           taken \union fallback \in SUBSET (B \X H), Matching(taken \union fallback)
    PROVE  Judged(Judge(H, taken, fallback, status), H, taken \union fallback, fallback, status)
<1> DEFINE pairs == taken \union fallback
           new == {p[2] : p \in {q \in pairs : status[q] = "introduced"}}
           second == {p[2] : p \in pairs}
           surplus == H \ second
           doubt == \E p \in fallback : status[p] = "unknown"
           part == Judge(H, taken, fallback, status)
<1>1. part = [introduced |-> IF doubt THEN new ELSE new \union surplus,
              quarantined |-> (second \ new) \union (IF doubt THEN surplus ELSE {})]
  BY Zenon DEF Judge
<1>2. \A h : h \in new <=> \E p \in pairs : p[2] = h /\ status[p] = "introduced"
  OBVIOUS
<1>3. \A h : h \in second <=> \E p \in pairs : p[2] = h
  OBVIOUS
<1>4. \A h : h \in surplus <=> h \in H /\ h \notin second
  OBVIOUS
<1>5. \A h \in second : h \in H
  OBVIOUS
<1>6. /\ DOMAIN part = {"introduced", "quarantined"}
      /\ \A h : h \in part.introduced <=> h \in new \/ (~doubt /\ h \in surplus)
      /\ \A h : h \in part.quarantined <=> (h \in second /\ h \notin new) \/ (doubt /\ h \in surplus)
  <2> HIDE DEF doubt, new, second, surplus
  <2> QED
    BY <1>1
<1>7. \A p \in pairs : p[2] \in new => status[p] = "introduced"
  BY <1>2 DEF Matching
<1> HIDE DEF new, second, surplus, part, pairs
<1>8. Judged(part, H, pairs, fallback, status)
  BY <1>2, <1>3, <1>4, <1>5, <1>6, <1>7 DEF Judged
<1> QED
  BY <1>8 DEF part, pairs

\* What became of the controls of one token.
Part(base, head, t, reserved) == changed_identity(base, head, Bucket(base, t), Bucket(head, t), reserved)

LEMMA PartIsJudged ==
    ASSUME NEW X, NEW base \in Seq(X), NEW head \in Seq(X), NEW t, NEW reserved,
           NEW taken, taken = LinePairs(Bucket(base, t), Bucket(head, t), base, head),
           NEW fallback, fallback = FallbackPairs(Bucket(base, t), Bucket(head, t), taken)
    PROVE  \E status :
             /\ \A p \in taken \union fallback : status[p] = occurrence_continuity(base, head, p, reserved)
             /\ Judged(Part(base, head, t, reserved), Bucket(head, t), taken \union fallback, fallback, status)
<1> DEFINE B == Bucket(base, t)
           H == Bucket(head, t)
           status == [p \in taken \union fallback |-> occurrence_continuity(base, head, p, reserved)]
<1>1. Part(base, head, t, reserved) = Judge(H, taken, fallback, status)
  BY Zenon DEF Part, changed_identity, WithFallback, ByPairs
<1>2. \A p \in taken \union fallback : status[p] = occurrence_continuity(base, head, p, reserved)
  OBVIOUS
<1> HIDE DEF status
<1>3. IsFiniteSet(B) /\ IsFiniteSet(H) /\ B \subseteq Nat /\ H \subseteq Nat
  BY BucketFinite
<1> HIDE DEF B, H
<1>4. taken = LinePairs(B, H, base, head) /\ fallback = FallbackPairs(B, H, taken)
  BY DEF B, H
<1>5. taken \union fallback \in SUBSET (B \X H) /\ Matching(taken \union fallback)
  BY <1>3, <1>4, SuppressionPairs DEF Apart
<1>6. Judged(Judge(H, taken, fallback, status), H, taken \union fallback, fallback, status)
  BY <1>5, JudgeSorts
<1> QED
  BY <1>1, <1>2, <1>6 DEF H

\* Each control is judged once, and under the token it has.
LEMMA PartDivides ==
    ASSUME NEW X, NEW base \in Seq(X), NEW head \in Seq(X), NEW t, NEW reserved
    PROVE  LET part == Part(base, head, t, reserved) IN
           /\ DOMAIN part = {"introduced", "quarantined"}
           /\ \A h : h \in Bucket(head, t) <=> h \in part.introduced \/ h \in part.quarantined
           /\ \A h \in part.introduced : h \notin part.quarantined
<1> DEFINE part == Part(base, head, t, reserved)
<1>1. \E H, pairs, fallback, status : H = Bucket(head, t) /\ Judged(part, H, pairs, fallback, status)
  BY PartIsJudged
<1> HIDE DEF part
<1>2. /\ DOMAIN part = {"introduced", "quarantined"}
      /\ \A h : h \in Bucket(head, t) <=> h \in part.introduced \/ h \in part.quarantined
      /\ \A h \in part.introduced : h \notin part.quarantined
  BY <1>1 DEF Judged
<1> QED
  BY <1>2 DEF part

\* Equal lines that occur once each are a line pair.
LEMMA CostedIsTaken ==
    ASSUME NEW X, NEW base \in Seq(X), NEW head \in Seq(X), NEW i \in tokenize_comments(base),
           NEW j \in tokenize_comments(head), base[i] = head[j],
           Occurrences(base, base[i]) = 1, Occurrences(head, head[j]) = 1,
           NEW t, t = Control[head[j]].token
    PROVE  <<i, j>> \in LinePairs(Bucket(base, t), Bucket(head, t), base, head)
<1>1. base \in Seq(Range(base)) /\ head \in Seq(Range(head))
  BY DEF Range
<1>2. i \in Bucket(base, t) /\ j \in Bucket(head, t)
  BY DEF Bucket
<1>3. Bucket(base, t) \subseteq 1 .. Len(base) /\ Bucket(head, t) \subseteq 1 .. Len(head)
  BY BucketFinite
<1>4. \A k \in Bucket(base, t) : base[k] = base[i] => k = i
  BY <1>1, <1>2, <1>3, OneOccurrence
<1>5. \A k \in Bucket(head, t) : head[k] = head[j] => k = j
  BY <1>1, <1>2, <1>3, OneOccurrence
<1> QED
  BY <1>2, <1>4, <1>5 DEF LinePairs

\* A control whose line every longest alignment carries over is not new.
LEMMA CarriedIsNotNew ==
    ASSUME NEW X, NEW base \in Seq(X), NEW head \in Seq(X), NEW p \in Costed(base, head), NEW reserved,
           \A A \in Longest(base, head) : p \in A, NEW t
    PROVE  p[2] \notin Part(base, head, t, reserved).introduced
<1> DEFINE part == Part(base, head, t, reserved)
           taken == LinePairs(Bucket(base, t), Bucket(head, t), base, head)
           fallback == FallbackPairs(Bucket(base, t), Bucket(head, t), taken)
<1> SUFFICES ASSUME p[2] \in part.introduced
             PROVE  FALSE
  OBVIOUS
<1>1. /\ p = <<p[1], p[2]>> /\ p[1] \in tokenize_comments(base) /\ p[2] \in tokenize_comments(head)
      /\ base[p[1]] = head[p[2]]
      /\ Occurrences(base, base[p[1]]) = 1 /\ Occurrences(head, head[p[2]]) = 1
  BY DEF Costed
<1>2. p[1] \in 1 .. Len(base) /\ p[2] \in 1 .. Len(head)
  BY <1>1 DEF tokenize_comments
<1>3. p[2] \in Bucket(head, t)
  BY PartDivides
<1>4. t = Control[head[p[2]]].token
  BY <1>3 DEF Bucket
<1>5. p \in taken
  BY <1>1, <1>4, CostedIsTaken
<1>6. PICK status :
        /\ \A q \in taken \union fallback : status[q] = occurrence_continuity(base, head, q, reserved)
        /\ Judged(part, Bucket(head, t), taken \union fallback, fallback, status)
  BY PartIsJudged
<1>7. Matching(taken \union fallback)
  <2> DEFINE B == Bucket(base, t)
             H == Bucket(head, t)
  <2>1. IsFiniteSet(B) /\ IsFiniteSet(H) /\ B \subseteq Nat /\ H \subseteq Nat
    BY BucketFinite
  <2> HIDE DEF B, H
  <2>2. taken = LinePairs(B, H, base, head) /\ fallback = FallbackPairs(B, H, taken)
    BY DEF B, H
  <2> HIDE DEF taken, fallback
  <2> QED
    BY <2>1, <2>2, SuppressionPairs DEF Apart
<1> HIDE DEF taken, fallback, part
<1>8. status[p] = "introduced"
  BY <1>5, <1>6, <1>7 DEF Judged, Matching
<1>9. occurrence_continuity(base, head, p, reserved) = "introduced"
  BY <1>5, <1>6, <1>8
<1>10. Agreed(Longest(base, head), p) = "unchanged"
  BY DEF Agreed
<1>11. Decide(Cost(base, head, NoPair), ForcedCost(base, head, p[1], p[2]), Cost(base, head, p)) = "unchanged"
  BY <1>1, <1>2, <1>10, CostsDecide
<1> QED
  BY <1>1, <1>9, <1>11 DEF occurrence_continuity

\* Among controls on lines that occur once, no more are kept than the base had.
LEMMA KeptAreBacked ==
    ASSUME NEW X, NEW base \in Seq(X), NEW head \in Seq(X), NEW t, NEW reserved,
           Cells(base, head) <= MaxCells,
           NEW kept, kept = Part(base, head, t, reserved).quarantined,
           \A h \in kept : Occurrences(head, head[h]) = 1 /\ Occurrences(base, head[h]) = 1
    PROVE  Cardinality(kept) <= Cardinality(Bucket(base, t))
<1> DEFINE part == Part(base, head, t, reserved)
           B == Bucket(base, t)
           H == Bucket(head, t)
           taken == LinePairs(B, H, base, head)
           fallback == FallbackPairs(B, H, taken)
           pairs == taken \union fallback
<1>1. PICK status :
        /\ \A q \in pairs : status[q] = occurrence_continuity(base, head, q, reserved)
        /\ Judged(part, H, pairs, fallback, status)
  BY PartIsJudged
<1>2. IsFiniteSet(B) /\ IsFiniteSet(H) /\ B \subseteq Nat /\ H \subseteq Nat
  BY BucketFinite
<1>3. pairs \in SUBSET (B \X H) /\ Matching(pairs) /\ \A p \in taken, q \in fallback : p[2] # q[2]
  <2> HIDE DEF B, H
  <2>1. taken = LinePairs(B, H, base, head) /\ fallback = FallbackPairs(B, H, taken)
    OBVIOUS
  <2> HIDE DEF taken, fallback
  <2>2. Apart(taken, fallback, B, H)
    BY <1>2, <2>1, SuppressionPairs
  <2> QED
    BY <2>2 DEF Apart
<1>4. kept = part.quarantined /\ \A h \in kept : h \in H
  BY <1>1 DEF Judged
<1>5. ASSUME NEW q \in fallback, status[q] = "unknown"
      PROVE  FALSE
  <2>1. q \in pairs /\ q[1] \in B /\ q[2] \in H
    BY <1>3, <1>5
  <2>2. base[q[1]] = head[q[2]]
    <3>1. occurrence_continuity(base, head, q, reserved) = "unknown"
      BY <1>1, <1>5, <2>1
    <3>2. ~(Cells(base, head) > MaxCells)
      BY CellsAssumption DEF Cells
    <3> QED
      BY <3>1, <3>2 DEF occurrence_continuity
  <2>3. q[2] \in kept
    BY <1>1, <1>4, <1>5, <2>1 DEF Judged
  <2>4. Occurrences(head, head[q[2]]) = 1 /\ Occurrences(base, base[q[1]]) = 1
    BY <2>2, <2>3
  <2>5. /\ q[1] \in tokenize_comments(base) /\ q[2] \in tokenize_comments(head)
        /\ t = Control[head[q[2]]].token
    BY <2>1 DEF Bucket
  <2>6. <<q[1], q[2]>> \in taken
    BY <2>2, <2>4, <2>5, CostedIsTaken
  <2>7. <<q[1], q[2]>>[2] = q[2]
    OBVIOUS
  <2> HIDE DEF taken, fallback
  <2> QED
    BY <1>3, <1>5, <2>6, <2>7
<1> HIDE DEF part, B, H, taken, fallback, pairs
<1>6. \A h \in kept : \E p \in pairs : p[2] = h
  BY <1>1, <1>4, <1>5 DEF Judged
<1> DEFINE of(h) == CHOOSE p \in pairs : p[2] = h
           f == [h \in kept |-> of(h)[1]]
<1>7. \A h \in kept : of(h) \in pairs /\ of(h)[2] = h
  BY <1>6
<1> HIDE DEF of
<1>8. f \in [kept -> B]
  BY <1>3, <1>7
<1>9. \A g, h \in kept : f[g] = f[h] => g = h
  BY <1>3, <1>7 DEF Matching
<1> HIDE DEF f
<1>10. f \in Injection(kept, B)
  BY <1>8, <1>9 DEF Injection, IsInjective
<1>11. Cardinality(kept) <= Cardinality(B)
  BY <1>2, <1>10, FS_Injection
<1> QED
  BY <1>11 DEF B

-----------------------------------------------------------------------------
(* The delta of a whole head file.                                            *)

\* Lines of a file that the delta d lists.
Lines(d, path, kind) == {c.line : c \in {e \in d.findings : e.path = path /\ e.kind = kind}}

LEMMA FindingsLines ==
    ASSUME NEW path, NEW head, NEW part, NEW c \in Findings(path, head, part)
    PROVE  c.kind \in DOMAIN part /\ c.path = path /\ c.line \in part[c.kind]
BY DEF Findings

LEMMA FileLines ==
    ASSUME NEW path, NEW base, NEW head, base # head, NEW reserved, NEW c
    PROVE  c \in file_findings(path, base, head, reserved) <=>
             \E t \in Tokens : c \in Findings(path, head, Part(base, head, t, reserved))
<1> DEFINE in(t) == Findings(path, head, Part(base, head, t, reserved))
<1>1. file_findings(path, base, head, reserved) = UNION {in(t) : t \in Tokens}
  BY Zenon DEF file_findings, Part
<1> HIDE DEF in
<1>2. c \in file_findings(path, base, head, reserved) <=> \E t \in Tokens : c \in in(t)
  BY <1>1
<1> QED
  BY <1>2 DEF in

LEMMA FilePath ==
    ASSUME NEW path, NEW base, NEW head, NEW reserved, NEW c \in file_findings(path, base, head, reserved)
    PROVE  c.path = path
<1>1. CASE base = head
  BY <1>1 DEF file_findings
<1>2. CASE base # head
  <2>1. PICK t \in Tokens : c \in Findings(path, head, Part(base, head, t, reserved))
    BY <1>2, FileLines
  <2> QED
    BY <2>1, FindingsLines
<1> QED
  BY <1>1, <1>2

LEMMA DeltaLines ==
    ASSUME NEW sn, NEW renames, NEW reserved, NEW path \in DOMAIN reserved, NEW X,
           NEW d, d = classify_suppression_delta(sn, renames, reserved), ~d.error,
           NEW base, base = Former(path, sn, renames), base \in Seq(X),
           NEW head, head = sn.head_sources[path], head \in Seq(X),
           NEW kind \in {"introduced", "quarantined"}, NEW i
    PROVE  i \in Lines(d, path, kind) <=>
             base # head /\ \E t \in Tokens : i \in Part(base, head, t, reserved[path])[kind]
<1> DEFINE file(p) == file_findings(p, Former(p, sn, renames), sn.head_sources[p], reserved[p])
           part(t) == Part(base, head, t, reserved[path])
<1>1. d.findings = UNION {file(p) : p \in DOMAIN reserved}
  <2>1. d = IF manifest_error(sn.base_sources) \/ manifest_error(sn.head_sources)
            THEN [error |-> TRUE, findings |-> {}]
            ELSE [error |-> FALSE, findings |-> UNION {file(p) : p \in DOMAIN reserved}]
    BY Zenon DEF classify_suppression_delta
  <2> HIDE DEF file
  <2> QED
    BY <2>1
<1>2. \A c : c \in d.findings <=> \E p \in DOMAIN reserved : c \in file(p)
  <2> HIDE DEF file
  <2> QED
    BY <1>1
<1>3. \A p : \A c \in file(p) : c.path = p
  BY FilePath
<1>4. file(path) = file_findings(path, base, head, reserved[path])
  OBVIOUS
<1> HIDE DEF file
<1>5. \A c : c \in d.findings /\ c.path = path <=> c \in file(path)
  BY <1>2, <1>3
<1>6. i \in Lines(d, path, kind) <=> \E c \in file(path) : c.kind = kind /\ c.line = i
  BY <1>5 DEF Lines
<1>7. CASE base = head
  <2>1. file(path) = {}
    BY <1>4, <1>7 DEF file_findings
  <2> QED
    BY <1>6, <1>7, <2>1
<1>8. CASE base # head
  <2>1. \A c : c \in file(path) <=> \E t \in Tokens : c \in Findings(path, head, part(t))
    BY <1>4, <1>8, FileLines
  <2>2. \A t : kind \in DOMAIN part(t)
    BY PartDivides
  <2> HIDE DEF part
  <2>3. ASSUME NEW t \in Tokens, i \in part(t)[kind]
        PROVE  \E c \in Findings(path, head, part(t)) : c.kind = kind /\ c.line = i
    <3> DEFINE c == [kind |-> kind, path |-> path, line |-> i, members |-> Control[head[i]].members]
    <3>1. c \in Findings(path, head, part(t))
      BY <2>2, <2>3 DEF Findings
    <3>2. c.kind = kind /\ c.line = i
      OBVIOUS
    <3> HIDE DEF c
    <3> QED
      BY <3>1, <3>2
  <2>4. ASSUME NEW t \in Tokens, NEW c \in Findings(path, head, part(t)), c.kind = kind, c.line = i
        PROVE  i \in part(t)[kind]
    BY <2>4, FindingsLines
  <2>5. i \in Lines(d, path, kind) <=> \E t \in Tokens : i \in part(t)[kind]
    BY <1>6, <2>1, <2>3, <2>4
  <2> QED
    BY <1>8, <2>5 DEF part
<1> QED
  BY <1>7, <1>8

\* What ControlsAreJudged asks of one head file.
FileJudged(base, head, new, kept) ==
    /\ new \union kept = IF base = head THEN {} ELSE tokenize_comments(head)
    /\ new \intersect kept = {}
    /\ /\ Cells(base, head) <= MaxCells
       /\ \A i \in kept : Occurrences(head, head[i]) = 1 /\ Occurrences(base, head[i]) = 1
       => \A t \in Tokens :
            Cardinality(kept \intersect Bucket(head, t)) <= Cardinality(Bucket(base, t))
    /\ \A p \in Costed(base, head) : (\A A \in Longest(base, head) : p \in A) => p[2] \notin new

LEMMA DeltaJudges ==
    ASSUME NEW sn, NEW renames, NEW reserved, NEW path \in DOMAIN reserved, NEW X,
           NEW d, d = classify_suppression_delta(sn, renames, reserved), ~d.error,
           NEW base, base = Former(path, sn, renames), base \in Seq(X),
           NEW head, head = sn.head_sources[path], head \in Seq(X)
    PROVE  FileJudged(base, head, Lines(d, path, "introduced"), Lines(d, path, "quarantined"))
<1> DEFINE new == Lines(d, path, "introduced")
           kept == Lines(d, path, "quarantined")
           part(t) == Part(base, head, t, reserved[path])
<1>1. \A i : i \in new <=> base # head /\ \E t \in Tokens : i \in part(t).introduced
  BY DeltaLines
<1>2. \A i : i \in kept <=> base # head /\ \E t \in Tokens : i \in part(t).quarantined
  BY DeltaLines
<1>3. \A t : /\ \A h : h \in Bucket(head, t) <=> h \in part(t).introduced \/ h \in part(t).quarantined
             /\ \A h \in part(t).introduced : h \notin part(t).quarantined
  BY PartDivides
<1> HIDE DEF new, kept, part
<1>4. \A i, t : i \in Bucket(head, t) => i \in tokenize_comments(head) /\ t = Control[head[i]].token
  BY DEF Bucket
<1>5. \A i \in tokenize_comments(head) : Control[head[i]].token \in Tokens
                                         /\ i \in Bucket(head, Control[head[i]].token)
  BY DEF Bucket, Tokens, tokenize_comments
<1>6. new \union kept = IF base = head THEN {} ELSE tokenize_comments(head)
  <2>1. \A i : i \in new \/ i \in kept <=> base # head /\ i \in tokenize_comments(head)
    BY <1>1, <1>2, <1>3, <1>4, <1>5
  <2> QED
    BY <2>1
<1>7. new \intersect kept = {}
  <2> SUFFICES ASSUME NEW i, i \in new, i \in kept
               PROVE  FALSE
    OBVIOUS
  <2>1. PICK t \in Tokens : i \in part(t).introduced
    BY <1>1
  <2>2. PICK u \in Tokens : i \in part(u).quarantined
    BY <1>2
  <2>3. t = u
    BY <1>3, <1>4, <2>1, <2>2
  <2> QED
    BY <1>3, <2>1, <2>2, <2>3
<1>8. ASSUME Cells(base, head) <= MaxCells,
             \A i \in kept : Occurrences(head, head[i]) = 1 /\ Occurrences(base, head[i]) = 1,
             NEW t \in Tokens
      PROVE  Cardinality(kept \intersect Bucket(head, t)) <= Cardinality(Bucket(base, t))
  <2>1. CASE base = head
    <3>1. kept \intersect Bucket(head, t) = {}
      BY <1>2, <2>1
    <3>2. Cardinality(kept \intersect Bucket(head, t)) = 0
      BY <3>1, FS_EmptySet, Zenon
    <3>3. Cardinality(Bucket(base, t)) \in Nat
      BY BucketFinite
    <3> QED
      BY <3>2, <3>3
  <2>2. CASE base # head
    <3>1. kept \intersect Bucket(head, t) = part(t).quarantined
      <4>1. \A i : i \in kept /\ i \in Bucket(head, t) <=> i \in part(t).quarantined
        BY <1>2, <1>3, <1>4, <2>2
      <4>2. \A i \in part(t).quarantined : i \in kept /\ i \in Bucket(head, t)
        BY <4>1
      <4> QED
        BY <4>1, <4>2
    <3> DEFINE mine == kept \intersect Bucket(head, t)
    <3>2. /\ mine = Part(base, head, t, reserved[path]).quarantined
          /\ \A h \in mine : Occurrences(head, head[h]) = 1 /\ Occurrences(base, head[h]) = 1
      BY <1>8, <3>1 DEF part
    <3> HIDE DEF mine
    <3> DEFINE r == reserved[path]
    <3>3. mine = Part(base, head, t, r).quarantined
      BY <3>2
    <3> HIDE DEF r
    <3>4. Cardinality(mine) <= Cardinality(Bucket(base, t))
      BY <1>8, <3>2, <3>3, KeptAreBacked
    <3> QED
      BY <3>4 DEF mine
  <2> QED
    BY <2>1, <2>2
<1>9. ASSUME NEW p \in Costed(base, head), \A A \in Longest(base, head) : p \in A
      PROVE  p[2] \notin new
  <2>1. \A t : p[2] \notin part(t).introduced
    BY <1>9, CarriedIsNotNew DEF part
  <2> QED
    BY <1>1, <2>1
<1>10. FileJudged(base, head, new, kept)
  BY <1>6, <1>7, <1>8, <1>9, Zenon DEF FileJudged
<1> QED
  BY <1>10 DEF new, kept

LEMMA ControlsByFile ==
    ControlsAreJudged <=>
      (pc = "report" /\ ~delta.error =>
         \A path \in DOMAIN python_sources(snap.head_sources) :
           FileJudged(Former(path, snap, exact_renames), snap.head_sources[path],
                      Lines(delta, path, "introduced"), Lines(delta, path, "quarantined")))
BY Zenon DEF ControlsAreJudged, FileJudged, Lines

LEMMA ClassifyJudges ==
    ASSUME SideInv, Classify
    PROVE  ControlsAreJudged'
<1>1. PICK reserved \in Reserved : delta' = classify_suppression_delta(snap, exact_renames, reserved)
  BY DEF Classify
<1>2. snap' = snap /\ snap \in Cases
  BY DEF Classify, SideInv
<1>3. exact_renames' = exact_renames
  BY <1>2 DEF exact_renames, rename_disposition, SameBlob, Removed, Added
<1>4. ASSUME ~delta'.error, NEW path \in DOMAIN python_sources(snap.head_sources)
      PROVE  FileJudged(Former(path, snap, exact_renames), snap.head_sources[path],
                        Lines(delta', path, "introduced"), Lines(delta', path, "quarantined"))
  <2> DEFINE base == Former(path, snap, exact_renames)
             head == snap.head_sources[path]
             X == Range(base) \union Range(head)
  <2>1. path \in DOMAIN reserved
    BY <1>1 DEF Reserved
  <2>2. path \in DOMAIN snap.head_sources
    BY DEF python_sources, Restrict
  <2>3. head \in Seq(Range(head))
    BY <1>2, <2>2, RangeAssumption
  <2>4. base \in Seq(Range(base))
    <3>1. base = <<>> \/ \E old \in DOMAIN snap.base_sources : base = snap.base_sources[old]
      BY DEF Former
    <3> HIDE DEF base
    <3>2. CASE base = <<>>
      BY <3>2
    <3>3. CASE \E old \in DOMAIN snap.base_sources : base = snap.base_sources[old]
      BY <1>2, <3>3, RangeAssumption
    <3> QED
      BY <3>1, <3>2, <3>3
  <2> HIDE DEF base, head
  <2>5. base \in Seq(X) /\ head \in Seq(X)
    BY <2>3, <2>4
  <2>6. FileJudged(base, head, Lines(delta', path, "introduced"), Lines(delta', path, "quarantined"))
    <3>1. base = Former(path, snap, exact_renames) /\ head = snap.head_sources[path]
      BY DEF base, head
    <3> DEFINE d == delta'
    <3>2. d = classify_suppression_delta(snap, exact_renames, reserved) /\ ~d.error
      BY <1>1, <1>4
    <3> HIDE DEF d
    <3>3. FileJudged(base, head, Lines(d, path, "introduced"), Lines(d, path, "quarantined"))
      BY <2>1, <2>5, <3>1, <3>2, DeltaJudges
    <3> QED
      BY <3>3 DEF d
  <2> QED
    BY <2>6 DEF base, head
<1>5. (pc = "report" /\ ~delta.error =>
         \A path \in DOMAIN python_sources(snap.head_sources) :
           FileJudged(Former(path, snap, exact_renames), snap.head_sources[path],
                      Lines(delta, path, "introduced"), Lines(delta, path, "quarantined")))'
  BY <1>2, <1>3, <1>4
<1> QED
  BY <1>5, Zenon DEF ControlsAreJudged, FileJudged, Lines

LEMMA NextJudged == SideInv /\ ControlsAreJudged /\ [Next]_vars => ControlsAreJudged'
<1> SUFFICES ASSUME SideInv, ControlsAreJudged, [Next]_vars
             PROVE  ControlsAreJudged'
  OBVIOUS
<1>1. CASE Classify
  BY <1>1, ClassifyJudges
<1>2. CASE Prepare \/ RunSides \/ BuildReport
  <2>1. pc' # "report"
    BY <1>2 DEF Prepare, RunSides, BuildReport
  <2> QED
    BY <2>1 DEF ControlsAreJudged
<1>3. CASE UNCHANGED vars
  <2>1. pc' = pc /\ delta' = delta /\ snap' = snap
    BY <1>3 DEF vars
  <2>2. exact_renames' = exact_renames
    BY <2>1 DEF exact_renames, rename_disposition, SameBlob, Removed, Added
  <2>3. (pc = "report" /\ ~delta.error =>
           \A path \in DOMAIN python_sources(snap.head_sources) :
             FileJudged(Former(path, snap, exact_renames), snap.head_sources[path],
                        Lines(delta, path, "introduced"), Lines(delta, path, "quarantined")))'
    BY <2>1, <2>2, ControlsByFile
  <2> QED
    BY <2>3, Zenon DEF ControlsAreJudged, FileJudged, Lines
<1> QED
  BY <1>1, <1>2, <1>3 DEF Next

-----------------------------------------------------------------------------
(* The theorems.                                                              *)

\* At every stage of run_immutable_scope_review, a member that was UNKNOWN at
\* some stage still says so.
THEOREM RangeDoubtInvariant == Spec => []DoubtInv
BY InitDoubtInv, NextDoubtInv, PTL DEF Spec

\* A finished report of a range flags whatever the review was unsure of, also
\* when a blocker turned the outcome into FAIL (_merge_member_outcome).
THEOREM RangeUncertaintyIsKept == Spec => []UncertaintyIsKept
<1>1. DoubtInv => UncertaintyIsKept
  BY DEF DoubtInv
<1> QED
  BY <1>1, RangeDoubtInvariant, PTL

\* The inductive invariant of a range review: doubts are kept, the sides found
\* what the snapshots hold, the results are those of classify_findings, and an
\* accepted member is clean.
THEOREM RangeInvariant == Spec => []RangeInv
<1>1. Init => RangeInv
  BY InitDoubtInv, InitSideInv, InitCleanInv DEF RangeInv, ClassifiedInv, Init
<1>2. RangeInv /\ [Next]_vars => RangeInv'
  BY NextDoubtInv, NextSideInv, NextClassifiedInv, NextCleanInv DEF RangeInv
<1> QED
  BY <1>1, <1>2, PTL DEF Spec

\* Whatever the findings, severities and renames, classify_findings puts every
\* head finding in one class, and drops a base finding only against a head finding
\* of its own or when the head is unknown.
THEOREM RangeNoFindingVanishes == Spec => []NoFindingVanishes
<1>1. RangeInv => NoFindingVanishes
  <2> SUFFICES ASSUME RangeInv, NEW m \in ComparedMembers
               PROVE  Accounted(classified[m], Request(m))
    BY DEF NoFindingVanishes, Accounted, Heads, Bases, Request
  <2>1. m \in Members /\ Compared(m) /\ pc \in {"report", "done"}
    BY DEF ComparedMembers
  <2>2. classified[m] = classify_findings(Request(m)) /\ WellFormed(Request(m))
    BY <2>1, RequestWellFormed DEF RangeInv, ClassifiedInv
  <2> QED
    BY <2>2, FindingsAccounted
<1> QED
  BY <1>1, RangeInvariant, PTL

\* A head finding is called unchanged at most as often as the base has findings of
\* its kind on the line it continues (_continuity_compatible_pairs).
THEOREM RangeUnchangedIsBacked == Spec => []UnchangedIsBacked
<1>1. RangeInv => UnchangedIsBacked
  <2> SUFFICES ASSUME RangeInv, NEW m \in ComparedMembers, NEW b \in DOMAIN found["base"][m]
               PROVE  Cardinality(Claimed(b, classified[m], Request(m)))
                      <= Cardinality(Backing(b, Request(m)))
    BY Zenon DEF UnchangedIsBacked, Claimed, Backing, HeadKind, BaseKind
  <2>1. m \in Members /\ Compared(m) /\ pc \in {"report", "done"}
    BY DEF ComparedMembers
  <2>2. classified[m] = classify_findings(Request(m)) /\ WellFormed(Request(m))
    BY <2>1, RequestWellFormed DEF RangeInv, ClassifiedInv
  <2>3. b \in DOMAIN Request(m).base
    BY DEF Request
  <2> QED
    BY <2>2, <2>3, FindingsBacked
<1> QED
  BY <1>1, RangeInvariant, PTL

\* A range review that exits 0, not in shadow mode, was certain of every member,
\* saw no blocker in the head and no control in a file that changed.
THEOREM RangePassTheorem == Spec => []RangePassIsClean
<1>1. RangeInv => RangePassIsClean
  BY DEF RangeInv, CleanInv
<1> QED
  BY <1>1, RangeInvariant, PTL

\* The lines that carry a finding's continuity are decided exactly: the tables of
\* _edit_costs and _suffix_edit_costs say unchanged when every longest alignment of
\* the two sources matches the pair, introduced when none does, and unknown when they
\* disagree, for sources of any length (_continuity_decision).
THEOREM RangeContinuityIsExact == Spec => []ContinuityIsExact
<1>1. SideInv => ContinuityIsExact
  <2> SUFFICES ASSUME SideInv,
                      NEW p \in DOMAIN snap.base_sources, NEW q \in DOMAIN snap.head_sources,
                      NEW i \in DOMAIN snap.base_sources[p], NEW j \in DOMAIN snap.head_sources[q],
                      Occurrences(snap.base_sources[p], snap.base_sources[p][i]) = 1,
                      Occurrences(snap.head_sources[q], snap.head_sources[q][j]) = 1,
                      line_anchor(snap.base_sources[p], i) = line_anchor(snap.head_sources[q], j)
               PROVE  continuity_decision(snap.base_sources[p], snap.head_sources[q], i, j) =
                        Agreed(Longest(snap.base_sources[p], snap.head_sources[q]), <<i, j>>)
    BY Zenon DEF ContinuityIsExact, Agreed
  <2> DEFINE base == snap.base_sources[p]
             head == snap.head_sources[q]
             lines == Range(base) \union Range(head)
  <2>1. snap \in Cases
    BY DEF SideInv
  <2>2. base \in Seq(Range(base)) /\ head \in Seq(Range(head))
    BY <2>1, RangeAssumption
  <2> HIDE DEF base, head
  <2>3. base \in Seq(lines) /\ head \in Seq(lines)
    BY <2>2
  <2>4. i \in 1 .. Len(base) /\ j \in 1 .. Len(head)
    BY <2>2 DEF base, head
  <2>5. /\ Occurrences(base, base[i]) = 1 /\ Occurrences(head, head[j]) = 1
        /\ line_anchor(base, i) = line_anchor(head, j)
    BY DEF base, head
  <2>6. continuity_decision(base, head, i, j) = Agreed(Longest(base, head), <<i, j>>)
    BY <2>3, <2>4, <2>5, ContinuityDecision
  <2> QED
    BY <2>6 DEF base, head
<1>2. RangeInv => ContinuityIsExact
  BY <1>1 DEF RangeInv
<1> QED
  BY <1>2, RangeInvariant, PTL

\* Every control of a head file that differs from its base is introduced or kept
\* under quarantine, never both; on lines that occur once no more are kept than the
\* base had, and one that every longest alignment carries over is not new, for
\* sources of any length and whichever pairs got a cost table
\* (classify_suppression_delta).
THEOREM RangeControlsAreJudged == Spec => []ControlsAreJudged
<1>1. Init => ControlsAreJudged
  BY DEF Init, ControlsAreJudged
<1>2. RangeInv => SideInv
  BY DEF RangeInv
<1>3. SideInv /\ ControlsAreJudged /\ [Next]_vars => ControlsAreJudged'
  BY NextJudged
<1> QED
  BY <1>1, <1>2, <1>3, RangeInvariant, PTL DEF Spec
=============================================================================
