------------------------------ MODULE MCLedger ------------------------------
(* Instances of Ledger: two processes, reports of every kind of verdict.    *)
EXTENDS Ledger, TLC

CONSTANTS c1, c2, E501

MCClients == {c1, c2}
MCSymmetry == Permutations(MCClients)

Legacy(o, d, n) ==
    [schema6 |-> FALSE, status |-> "none", overall |-> o, delta |-> d, rules |-> [r \in Rules |-> n]]
Governed(a, d, n) ==
    [schema6 |-> TRUE, status |-> a, overall |-> "none", delta |-> d, rules |-> [r \in Rules |-> n]]

\* A pass that earns coins and a failure with a finding.
MCReports == {Legacy("PASS", 5, 0), Governed("FAIL", -5, 1)}
\* No ledger yet, and one before the fifth pass of a streak, which a run
\* without evidence does not break.
MCHistories ==
    {<<>>, Append([i \in 1 .. 4 |-> Legacy("PASS", 5, 0)], Governed("none", 7, 0))}
MCNoHistory == {<<>>}
\* Nobody, one or both talk to Supabase.
MCConfigs == SUBSET MCClients
MCLocalOnly == {{}}
=============================================================================
