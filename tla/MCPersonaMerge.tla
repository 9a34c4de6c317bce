--------------------------- MODULE MCPersonaMerge ---------------------------
(* Instances of PersonaMerge: one aspect and one feature with one story.    *)
EXTENDS PersonaMerge, TLC

CONSTANTS v0, v1, v2, po, arch, F1

MCValues == {v0, v1, v2}
MCPersonas == {po, arch}
MCSymmetry == Permutations({v1, v2})

\* The rules look at one field at a time, and at a story below its feature:
\* either the aspect varies and there is no feature, or the feature varies.
AspectOnly == {b \in Bundle : b[Title(F1)] = None}
FeatureOnly == {b \in Bundle : \A p \in AspectPaths : b[p] = v0}

MCInit ==
    /\ \E S \in {AspectOnly, FeatureOnly} : base \in S /\ ours \in S /\ theirs \in S
    /\ owns \in [Personas -> SUBSET Paths]
    /\ who \in {[ours |-> po, theirs |-> arch], [ours |-> po, theirs |-> po]}
    /\ interactive \in BOOLEAN
    /\ Started

MCSpec == MCInit /\ [][Next]_vars
=============================================================================
