---------------------------- MODULE LedgerProofs ----------------------------
(***************************************************************************)
(* Proofs about Ledger: what the two stores hold after any interleaving of *)
(* updates, failed requests, crashes and resets, for every number of       *)
(* processes, every set of reports and every length of the history.        *)
(*                                                                         *)
(* LocalLedgerAddsUp is about sums over a history, so it rests on an       *)
(* induction over the naturals.  It is stated here for sets (SetInduction) *)
(* and derived from the well-foundedness of <.                             *)
(***************************************************************************)
EXTENDS Ledger, FiniteSetTheorems, SequenceTheorems, WellFoundedInduction, TLAPS

-----------------------------------------------------------------------------
(* Induction. *)

LEMMA LeastElement ==
    ASSUME NEW T, T \subseteq Nat, T # {}
    PROVE  \E x \in T : \A y \in T : x <= y
<1>1. IsWellFoundedOn(OpToRel(<, Nat), Nat)
  BY NatLessThanWellFounded
<1>2. \E x \in T : \A y \in T : <<y, x>> \notin OpToRel(<, Nat)
  BY <1>1, WFMin
<1>3. \E x \in T : \A y \in T : ~(y < x)
  BY <1>2 DEF OpToRel
<1> QED
  BY <1>3

LEMMA SetInduction ==
    ASSUME NEW S, 0 \in S, \A n \in Nat : n \in S => n + 1 \in S
    PROVE  Nat \subseteq S
<1> DEFINE T == Nat \ S
<1> SUFFICES ASSUME T # {}
             PROVE  FALSE
  OBVIOUS
<1>1. PICK x \in T : \A y \in T : x <= y
  BY LeastElement
<1>2. x # 0 /\ x - 1 \in Nat /\ x - 1 \notin T
  BY <1>1
<1> QED
  BY <1>1, <1>2

-----------------------------------------------------------------------------
(* A fold over a finite set is what its recursion says. *)

\* it is the fold of step over the subsets of S, taking pick[s] first.
IsFold(it, S, V, start, step, pick) ==
    /\ it \in [SUBSET S -> V]
    /\ it[{}] = start
    /\ \A s \in SUBSET S : s # {} => it[s] = step[pick[s]][it[s \ {pick[s]}]]

Picks(pick, S) ==
    \A s \in SUBSET S : s # {} => pick[s] \in s

LEMMA FoldExists ==
    ASSUME NEW S, IsFiniteSet(S), NEW V, NEW start \in V, NEW step \in [S -> [V -> V]],
           NEW pick, Picks(pick, S)
    PROVE  \E it : IsFold(it, S, V, start, step, pick)
<1> DEFINE Level(n) == {s \in SUBSET S : Cardinality(s) <= n}
           Fits(g, s) == g[s] = IF s = {} THEN start ELSE step[pick[s]][g[s \ {pick[s]}]]
           Good == {n \in Nat : \E g \in [Level(n) -> V] : \A s \in Level(n) : Fits(g, s)}
<1>1. \A s \in SUBSET S : /\ IsFiniteSet(s) /\ Cardinality(s) \in Nat
                          /\ Cardinality(s) <= Cardinality(S)
                          /\ Cardinality(s) = 0 <=> s = {}
                          /\ s # {} => Cardinality(s \ {pick[s]}) = Cardinality(s) - 1
  <2> SUFFICES ASSUME NEW s \in SUBSET S
               PROVE  /\ IsFiniteSet(s) /\ Cardinality(s) \in Nat
                      /\ Cardinality(s) <= Cardinality(S)
                      /\ Cardinality(s) = 0 <=> s = {}
                      /\ s # {} => Cardinality(s \ {pick[s]}) = Cardinality(s) - 1
    OBVIOUS
  <2>1. IsFiniteSet(s) /\ Cardinality(s) <= Cardinality(S)
    BY FS_Subset
  <2>2. Cardinality(s) \in Nat
    BY <2>1, FS_CardinalityType
  <2>3. Cardinality(s) = 0 <=> s = {}
    BY <2>1, FS_EmptySet
  <2>4. s # {} => pick[s] \in s
    BY DEF Picks
  <2>5. s # {} => Cardinality(s \ {pick[s]}) = Cardinality(s) - 1
    BY <2>1, <2>4, FS_RemoveElement
  <2> QED
    BY <2>1, <2>2, <2>3, <2>5
<1>2. 0 \in Good
  <2>1. \A s \in Level(0) : s = {}
    <3> SUFFICES ASSUME NEW s \in SUBSET S, Cardinality(s) <= 0
                 PROVE  s = {}
      OBVIOUS
    <3>1. Cardinality(s) \in Nat /\ (Cardinality(s) = 0 <=> s = {})
      BY <1>1
    <3> QED
      BY <3>1
  <2>2. [s \in Level(0) |-> start] \in [Level(0) -> V]
    OBVIOUS
  <2>3. \A s \in Level(0) : Fits([t \in Level(0) |-> start], s)
    BY <2>1
  <2> QED
    BY <2>2, <2>3
<1>3. ASSUME NEW n \in Nat, n \in Good
      PROVE  n + 1 \in Good
  <2>1. PICK g \in [Level(n) -> V] : \A s \in Level(n) : Fits(g, s)
    BY <1>3
  <2> DEFINE h == [s \in Level(n + 1) |->
                     IF s = {} THEN start ELSE step[pick[s]][g[s \ {pick[s]}]]]
  <2>2. ASSUME NEW s \in Level(n + 1), s # {}
        PROVE  s \ {pick[s]} \in Level(n) /\ pick[s] \in S
    <3>1. s \in SUBSET S /\ Cardinality(s) <= n + 1
      OBVIOUS
    <3>2. pick[s] \in s /\ s \ {pick[s]} \in SUBSET S
      BY <2>2, <3>1 DEF Picks
    <3>3. Cardinality(s \ {pick[s]}) = Cardinality(s) - 1 /\ Cardinality(s) \in Nat
      BY <1>1, <2>2, <3>1
    <3>4. Cardinality(s \ {pick[s]}) <= n
      BY <3>1, <3>3
    <3> QED
      BY <3>1, <3>2, <3>4
  <2>3. ASSUME NEW s \in Level(n)
        PROVE  s \in Level(n + 1)
    <3>1. s \in SUBSET S /\ Cardinality(s) <= n
      OBVIOUS
    <3>2. Cardinality(s) \in Nat
      BY <1>1, <3>1
    <3>3. Cardinality(s) <= n + 1
      BY <3>1, <3>2
    <3> QED
      BY <3>1, <3>3
  <2> HIDE DEF Level
  <2>4. h \in [Level(n + 1) -> V]
    <3>1. ASSUME NEW s \in Level(n + 1)
          PROVE  h[s] \in V
      <4>1. CASE s = {}
        BY <4>1
      <4>2. CASE s # {}
        BY <2>2, <4>2
      <4> QED
        BY <4>1, <4>2
    <3> QED
      BY <3>1
  <2>5. \A s \in Level(n) : h[s] = g[s]
    BY <2>1, <2>3
  <2>6. ASSUME NEW s \in Level(n + 1)
        PROVE  Fits(h, s)
    <3>1. CASE s = {}
      BY <3>1
    <3>2. CASE s # {}
      <4>1. h[s] = step[pick[s]][g[s \ {pick[s]}]]
        BY <3>2
      <4>2. h[s \ {pick[s]}] = g[s \ {pick[s]}]
        BY <2>2, <2>5, <3>2
      <4> HIDE DEF h
      <4> QED
        BY <3>2, <4>1, <4>2
    <3> QED
      BY <3>1, <3>2
  <2> HIDE DEF h, Fits
  <2> QED
    BY <2>4, <2>6
<1>4. Cardinality(S) \in Good
  <2> HIDE DEF Good
  <2>1. Nat \subseteq Good
    BY <1>2, <1>3, SetInduction
  <2> QED
    BY <2>1, FS_CardinalityType
<1>5. Level(Cardinality(S)) = SUBSET S
  BY <1>1
<1>6. PICK g \in [SUBSET S -> V] : \A s \in SUBSET S : Fits(g, s)
  BY <1>4, <1>5
<1>7. IsFold(g, S, V, start, step, pick)
  BY <1>6 DEF IsFold
<1> QED
  BY <1>7
-----------------------------------------------------------------------------
(* Sums of sequences. *)

First(s) == CHOOSE x \in s : TRUE

\* it gives the sums of w over the subsets of S.
Sums(it, S, w) ==
    /\ it \in [SUBSET S -> Int]
    /\ it[{}] = 0
    /\ \A s \in SUBSET S : s # {} => it[s] = w[First(s)] + it[s \ {First(s)}]

LEMMA FirstIn == \A s : s # {} => First(s) \in s
BY DEF First

LEMMA SumsExist ==
    ASSUME NEW S, IsFiniteSet(S), NEW w \in [S -> Int]
    PROVE  \E it : Sums(it, S, w) /\ MapThenSumSet(LAMBDA i : w[i], S) = it[S]
<1> DEFINE pick == [s \in SUBSET S |-> First(s)]
           step == [x \in S |-> [v \in Int |-> w[x] + v]]
           Rec(it) == [s \in SUBSET S |-> IF s = {} THEN 0
                                          ELSE w[First(s)] + it[s \ {First(s)}]]
           sum == CHOOSE it : it = Rec(it)
<1>1. step \in [S -> [Int -> Int]]
  OBVIOUS
<1>2. Picks(pick, S)
  BY FirstIn DEF Picks
<1>3. PICK it : IsFold(it, S, Int, 0, step, pick)
  <2>1. 0 \in Int
    OBVIOUS
  <2> HIDE DEF step, pick
  <2> QED
    BY <1>1, <1>2, <2>1, FoldExists, Zenon
<1>4. it = Rec(it)
  <2>1. it \in [SUBSET S -> Int] /\ it[{}] = 0
    BY <1>3 DEF IsFold
  <2>2. ASSUME NEW s \in SUBSET S, s # {}
        PROVE  it[s] = w[First(s)] + it[s \ {First(s)}]
    <3>1. it[s] = step[pick[s]][it[s \ {pick[s]}]]
      BY <1>3, <2>2 DEF IsFold
    <3>2. pick[s] = First(s) /\ First(s) \in S /\ it[s \ {First(s)}] \in Int
      BY <2>1, <2>2, FirstIn
    <3> HIDE DEF pick
    <3> QED
      BY <3>1, <3>2
  <2>3. it = [s \in SUBSET S |-> it[s]]
    BY <2>1
  <2>4. \A s \in SUBSET S :
            it[s] = IF s = {} THEN 0 ELSE w[First(s)] + it[s \ {First(s)}]
    BY <2>1, <2>2
  <2> QED
    BY <2>3, <2>4, Zenon
<1>5. sum = Rec(sum)
  <2> HIDE DEF Rec
  <2> QED
    BY <1>4
<1>6. MapThenSumSet(LAMBDA i : w[i], S) = sum[S]
  BY Zenon DEF MapThenSumSet, MapThenFoldSet, First
<1>7. Sums(sum, S, w)
  <2> HIDE DEF sum
  <2>0. sum = [s \in SUBSET S |-> sum[s]]
    BY <1>5
  <2>1. /\ sum[{}] = 0
        /\ \A s \in SUBSET S : s # {} => sum[s] = w[First(s)] + sum[s \ {First(s)}]
    BY <1>5
  <2> DEFINE Good == {n \in Nat : \A s \in SUBSET S : Cardinality(s) = n => sum[s] \in Int}
  <2>2. \A s \in SUBSET S : /\ IsFiniteSet(s) /\ Cardinality(s) \in Nat
                            /\ Cardinality(s) = 0 <=> s = {}
    BY FS_Subset, FS_CardinalityType, FS_EmptySet
  <2>3. 0 \in Good
    <3>1. \A s \in SUBSET S : Cardinality(s) = 0 => sum[s] = 0
      BY <2>1, <2>2
    <3> QED
      BY <3>1
  <2>4. ASSUME NEW n \in Nat, n \in Good
        PROVE  n + 1 \in Good
    <3> SUFFICES ASSUME NEW s \in SUBSET S, Cardinality(s) = n + 1
                 PROVE  sum[s] \in Int
      OBVIOUS
    <3>1. s # {} /\ IsFiniteSet(s)
      BY <2>2
    <3>2. First(s) \in s /\ First(s) \in S
      BY <3>1, FirstIn
    <3>3. Cardinality(s \ {First(s)}) = Cardinality(s) - 1
      BY <3>1, <3>2, FS_RemoveElement
    <3>4. s \ {First(s)} \in SUBSET S /\ Cardinality(s \ {First(s)}) = n
      BY <3>3
    <3>5. sum[s \ {First(s)}] \in Int
      BY <2>4, <3>4
    <3>6. sum[s] = w[First(s)] + sum[s \ {First(s)}] /\ w[First(s)] \in Int
      BY <2>1, <3>1, <3>2
    <3> QED
      BY <3>5, <3>6
  <2>5. Nat \subseteq Good
    <3> HIDE DEF Good
    <3> QED
      BY <2>3, <2>4, SetInduction
  <2>6. \A s \in SUBSET S : sum[s] \in Int
    BY <2>2, <2>5
  <2> QED
    BY <2>0, <2>1, <2>6 DEF Sums
<1> QED
  BY <1>6, <1>7
\* Any element of a subset of S may be added last.
AnyOrder(it, S, w) == \A s \in SUBSET S : \A y \in s : it[s] = w[y] + it[s \ {y}]

LEMMA SumsAnyOrder ==
    ASSUME NEW S, IsFiniteSet(S), NEW w \in [S -> Int], NEW it, Sums(it, S, w)
    PROVE  AnyOrder(it, S, w)
<1> DEFINE Claim(t, z) == it[t] = w[z] + it[t \ {z}]
           Good == {n \in Nat : \A t \in SUBSET S : Cardinality(t) = n => \A z \in t : Claim(t, z)}
<1>1. \A t \in SUBSET S : /\ IsFiniteSet(t) /\ Cardinality(t) \in Nat
                          /\ Cardinality(t) = 0 <=> t = {}
                          /\ it[t] \in Int
  BY FS_Subset, FS_CardinalityType, FS_EmptySet DEF Sums
<1>2. 0 \in Good
  BY <1>1
<1>3. ASSUME NEW n \in Nat, n \in Good
      PROVE  n + 1 \in Good
  <2> SUFFICES ASSUME NEW t \in SUBSET S, Cardinality(t) = n + 1, NEW z \in t
               PROVE  Claim(t, z)
    OBVIOUS
  <2> DEFINE x == First(t)
             rest == (t \ {x}) \ {z}
  <2>1. x \in t /\ x \in S /\ z \in S
    BY FirstIn
  <2>2. it[t] = w[x] + it[t \ {x}]
    BY DEF Sums
  <2> HIDE DEF x
  <2>3. CASE x = z
    BY <2>2, <2>3
  <2>4. CASE x # z
    <3>1. IsFiniteSet(t)
      BY <1>1
    <3>2. Cardinality(t \ {x}) = n /\ Cardinality(t \ {z}) = n
      <4>1. /\ Cardinality(t \ {x}) = Cardinality(t) - 1
            /\ Cardinality(t \ {z}) = Cardinality(t) - 1
        BY <2>1, <3>1, FS_RemoveElement
      <4> QED
        BY <4>1
    <3>3. /\ t \ {x} \in SUBSET S /\ z \in t \ {x}
          /\ t \ {z} \in SUBSET S /\ x \in t \ {z} /\ (t \ {z}) \ {x} = rest
      BY <2>1, <2>4
    <3>4. Claim(t \ {x}, z) /\ Claim(t \ {z}, x)
      <4>1. \A u \in SUBSET S : Cardinality(u) = n => \A v \in u : Claim(u, v)
        BY <1>3
      <4> HIDE DEF Claim
      <4> QED
        BY <3>2, <3>3, <4>1
    <3>5. it[t \ {x}] = w[z] + it[rest] /\ it[t \ {z}] = w[x] + it[rest]
      BY <3>3, <3>4
    <3>6. rest \in SUBSET S
      OBVIOUS
    <3>7. it[rest] \in Int /\ w[x] \in Int /\ w[z] \in Int
      BY <1>1, <2>1, <3>6
    <3> HIDE DEF rest
    <3> QED
      BY <2>2, <3>5, <3>7
  <2> QED
    BY <2>3, <2>4
<1>4. Nat \subseteq Good
  <2> HIDE DEF Good
  <2> QED
    BY <1>2, <1>3, SetInduction
<1>5. ASSUME NEW s \in SUBSET S, NEW y \in s
      PROVE  Claim(s, y)
  <2>1. Cardinality(s) \in Good
    BY <1>1, <1>4
  <2> QED
    BY <2>1
<1> QED
  BY <1>5 DEF AnyOrder

\* Sums of two functions that agree on T.
LEMMA SumsAgree ==
    ASSUME NEW S, IsFiniteSet(S), NEW w \in [S -> Int], NEW it, Sums(it, S, w),
           NEW T \in SUBSET S, NEW v \in [T -> Int], NEW jt, Sums(jt, T, v),
           \A i \in T : v[i] = w[i]
    PROVE  it[T] = jt[T]
<1> DEFINE Good == {n \in Nat : \A t \in SUBSET T : Cardinality(t) = n => it[t] = jt[t]}
<1>1. \A t \in SUBSET T : /\ IsFiniteSet(t) /\ Cardinality(t) \in Nat
                          /\ Cardinality(t) = 0 <=> t = {}
  BY FS_Subset, FS_CardinalityType, FS_EmptySet
<1>2. 0 \in Good
  <2>1. it[{}] = 0 /\ jt[{}] = 0
    BY DEF Sums
  <2>2. \A t \in SUBSET T : Cardinality(t) = 0 => it[t] = jt[t]
    BY <1>1, <2>1
  <2> QED
    BY <2>2
<1>3. ASSUME NEW n \in Nat, n \in Good
      PROVE  n + 1 \in Good
  <2> SUFFICES ASSUME NEW t \in SUBSET T, Cardinality(t) = n + 1
               PROVE  it[t] = jt[t]
    OBVIOUS
  <2> DEFINE x == First(t)
  <2>1. t # {} /\ IsFiniteSet(t)
    BY <1>1
  <2>2. x \in t /\ x \in T
    BY <2>1, FirstIn
  <2>3. it[t] = w[x] + it[t \ {x}] /\ jt[t] = v[x] + jt[t \ {x}]
    BY <2>1 DEF Sums
  <2> HIDE DEF x
  <2>4. Cardinality(t \ {x}) = n /\ t \ {x} \in SUBSET T
    <3>1. Cardinality(t \ {x}) = Cardinality(t) - 1
      BY <2>1, <2>2, FS_RemoveElement
    <3> QED
      BY <3>1
  <2>5. it[t \ {x}] = jt[t \ {x}]
    BY <1>3, <2>4
  <2> QED
    BY <2>2, <2>3, <2>5
<1>4. Nat \subseteq Good
  <2> HIDE DEF Good
  <2> QED
    BY <1>2, <1>3, SetInduction
<1>5. Cardinality(T) \in Good
  BY <1>1, <1>4
<1> QED
  BY <1>5

\* One more number adds itself to the total.
LEMMA TotalAppend ==
    ASSUME NEW n \in Nat, NEW v \in [1 .. n -> Int], NEW w \in [1 .. n + 1 -> Int],
           \A i \in 1 .. n : v[i] = w[i]
    PROVE  /\ Total(v) \in Int
           /\ Total(w) = Total(v) + w[n + 1]
<1>1. IsFiniteSet(1 .. n) /\ IsFiniteSet(1 .. n + 1)
  BY FS_Interval
<1>2. PICK jt : Sums(jt, 1 .. n, v) /\ MapThenSumSet(LAMBDA i : v[i], 1 .. n) = jt[1 .. n]
  BY <1>1, SumsExist
<1>3. PICK it : Sums(it, 1 .. n + 1, w)
                /\ MapThenSumSet(LAMBDA i : w[i], 1 .. n + 1) = it[1 .. n + 1]
  BY <1>1, SumsExist
<1>4. Total(v) = jt[1 .. n] /\ Total(w) = it[1 .. n + 1]
  <2>1. DOMAIN v = 1 .. n /\ DOMAIN w = 1 .. n + 1
    OBVIOUS
  <2> QED
    BY <1>2, <1>3, <2>1, Zenon DEF Total
<1>5. it[1 .. n] = jt[1 .. n]
  <2>1. 1 .. n \in SUBSET (1 .. n + 1)
    OBVIOUS
  <2> QED
    BY <1>1, <1>2, <1>3, <2>1, SumsAgree
<1>6. it[1 .. n + 1] = w[n + 1] + it[(1 .. n + 1) \ {n + 1}]
  <2> DEFINE N == 1 .. n + 1
             last == n + 1
  <2>1. last \in N /\ N \in SUBSET N
    OBVIOUS
  <2>2. IsFiniteSet(N) /\ w \in [N -> Int] /\ Sums(it, N, w)
    BY <1>1, <1>3
  <2>3. it[N] = w[last] + it[N \ {last}]
    <3> HIDE DEF N, last
    <3>1. AnyOrder(it, N, w)
      BY <2>2, SumsAnyOrder, Zenon
    <3> QED
      BY <2>1, <3>1 DEF AnyOrder
  <2> QED
    BY <2>3
<1>7. it[1 .. n + 1] = w[n + 1] + it[1 .. n]
  <2>1. (1 .. n + 1) \ {n + 1} = 1 .. n
    OBVIOUS
  <2> QED
    BY <1>6, <2>1, Zenon
<1>8. jt[1 .. n] \in Int /\ w[n + 1] \in Int
  BY <1>2 DEF Sums
<1> QED
  BY <1>4, <1>5, <1>7, <1>8

LEMMA TotalEmpty == ASSUME NEW v, DOMAIN v = {}
                    PROVE  Total(v) = 0
<1>1. IsFiniteSet({})
  BY FS_EmptySet
<1>2. \A x : x \in {} => v[x] \in Int
  OBVIOUS
<1>3. Total(v) = MapThenSumSet(LAMBDA i : v[i], {})
  BY Zenon DEF Total
<1>4. MapThenSumSet(LAMBDA i : v[i], {}) =
        (CHOOSE it : it = [s \in SUBSET {} |-> IF s = {} THEN 0
                                              ELSE v[First(s)] + it[s \ {First(s)}]])[{}]
  BY Zenon DEF MapThenSumSet, MapThenFoldSet, First
<1> DEFINE Rec(it) == [s \in SUBSET {} |-> IF s = {} THEN 0
                                           ELSE v[First(s)] + it[s \ {First(s)}]]
           sum == CHOOSE it : it = Rec(it)
<1>5. [s \in SUBSET {} |-> 0] = Rec([s \in SUBSET {} |-> 0])
  OBVIOUS
<1>6. sum = Rec(sum)
  <2> HIDE DEF Rec
  <2> QED
    BY <1>5
<1>7. sum[{}] = 0
  <2> HIDE DEF sum
  <2> QED
    BY <1>6
<1> QED
  BY <1>3, <1>4, <1>7
-----------------------------------------------------------------------------
(* One run more: _apply_report. *)

LEMMA RunEntryType ==
    ASSUME NEW id \in 0 .. MaxRuns, NEW r \in Report
    PROVE  RunEntry(id, r) \in Run
BY DEF RunEntry, Report, Run, Verdicts, VerdictFor, RewardDeltaFor

LEMMA FreshState == Fresh \in State
BY DEF Fresh, State, NoCounts

LEMMA ApplyReportType ==
    ASSUME NEW s \in State, NEW run \in Run
    PROVE  ApplyReport(s, run) \in State
<1>1. /\ s.coins \in Int /\ s.streak_pass \in Nat /\ s.streak_block \in Nat
      /\ s.counts \in [Rules -> Nat] /\ s.runs \in Seq(Run)
      /\ run.delta \in Int /\ run.rules \in [Rules -> Nat]
  BY DEF State, Run
<1>2. CoinDelta(s, run) \in Int
  BY <1>1 DEF CoinDelta
<1>3. NextPassStreak(s, run.verdict) \in Nat /\ NextBlockStreak(s, run.verdict) \in Nat
  BY <1>1 DEF NextPassStreak, NextBlockStreak
<1>4. [r \in Rules |-> s.counts[r] + run.rules[r]] \in [Rules -> Nat]
  BY <1>1
<1>5. Append(s.runs, run) \in Seq(Run)
  BY <1>1
<1> QED
  BY <1>1, <1>2, <1>3, <1>4, <1>5 DEF ApplyReport, State

\* The history up to a run does not depend on what follows.
LEMMA Appended ==
    ASSUME NEW runs \in Seq(Run), NEW run \in Run
    PROVE  LET W == Append(runs, run)
               n == Len(runs)
           IN  /\ W \in Seq(Run) /\ n \in Nat /\ Len(W) = n + 1
               /\ DOMAIN runs = 1 .. n /\ DOMAIN W = 1 .. n + 1
               /\ W[n + 1] = run
               /\ \A i \in 1 .. n : W[i] = runs[i]
OBVIOUS

\* The runs that a streak counts.
PassRuns(runs, n) == {i \in 1 .. n : Passing(runs[i]) /\ \A j \in i .. n : ~Failing(runs[j])}
BlockRuns(runs, n) == {i \in 1 .. n : Failing(runs[i]) /\ \A j \in i .. n : ~Passing(runs[j])}

LEMMA StreakSets ==
    ASSUME NEW runs, NEW n \in Nat
    PROVE  /\ PassStreakOf(runs, n) = Cardinality(PassRuns(runs, n))
           /\ BlockStreakOf(runs, n) = Cardinality(BlockRuns(runs, n))
           /\ IsFiniteSet(PassRuns(runs, n)) /\ IsFiniteSet(BlockRuns(runs, n))
           /\ PassStreakOf(runs, n) \in Nat /\ BlockStreakOf(runs, n) \in Nat
<1>1. IsFiniteSet(1 .. n)
  BY FS_Interval
<1>2. PassRuns(runs, n) \subseteq 1 .. n /\ BlockRuns(runs, n) \subseteq 1 .. n
  BY DEF PassRuns, BlockRuns
<1>3. IsFiniteSet(PassRuns(runs, n)) /\ IsFiniteSet(BlockRuns(runs, n))
  BY <1>1, <1>2, FS_Subset
<1> QED
  BY <1>3, FS_CardinalityType DEF PassStreakOf, BlockStreakOf, PassRuns, BlockRuns

\* A run that passed, failed or gave no evidence.
LEMMA VerdictCases ==
    ASSUME NEW run \in Run
    PROVE  /\ Passing(run) <=> ~Neutral(run.verdict) /\ run.verdict # "FAIL"
           /\ Failing(run) <=> run.verdict = "FAIL"
           /\ ~(Passing(run) /\ Failing(run))
           /\ Neutral(run.verdict) <=> ~Passing(run) /\ ~Failing(run)
BY DEF Run, Verdicts, Passing, Failing, Neutral

LEMMA EarlierStreaks ==
    ASSUME NEW runs, NEW W, NEW n \in Nat, \A i \in 1 .. n : W[i] = runs[i],
           NEW m \in 0 .. n
    PROVE  /\ PassRuns(W, m) = PassRuns(runs, m)
           /\ BlockRuns(W, m) = BlockRuns(runs, m)
<1>1. \A i \in 1 .. m : W[i] = runs[i] /\ \A j \in i .. m : W[j] = runs[j]
  OBVIOUS
<1>2. PassRuns(W, m) = PassRuns(runs, m)
  BY <1>1 DEF PassRuns
<1>3. BlockRuns(W, m) = BlockRuns(runs, m)
  BY <1>1 DEF BlockRuns
<1> QED
  BY <1>2, <1>3

\* NextPassStreak and NextBlockStreak count the streaks of the history.
LEMMA NextStreaks ==
    ASSUME NEW runs \in Seq(Run), NEW run \in Run, NEW s,
           s.streak_pass = PassStreakOf(runs, Len(runs)),
           s.streak_block = BlockStreakOf(runs, Len(runs))
    PROVE  /\ PassStreakOf(Append(runs, run), Len(runs) + 1) = NextPassStreak(s, run.verdict)
           /\ BlockStreakOf(Append(runs, run), Len(runs) + 1) = NextBlockStreak(s, run.verdict)
<1> DEFINE W == Append(runs, run)
           n == Len(runs)
<1>1. /\ n \in Nat /\ W[n + 1] = run /\ \A i \in 1 .. n : W[i] = runs[i]
  BY Appended
<1> HIDE DEF W, n
<1>2. PassRuns(W, n) = PassRuns(runs, n) /\ BlockRuns(W, n) = BlockRuns(runs, n)
  <2>1. n \in 0 .. n
    BY <1>1
  <2> QED
    BY <1>1, <2>1, EarlierStreaks
<1>3. /\ Failing(run) => PassRuns(W, n + 1) = {}
      /\ Passing(run) => PassRuns(W, n + 1) = PassRuns(W, n) \cup {n + 1}
      /\ ~Failing(run) /\ ~Passing(run) => PassRuns(W, n + 1) = PassRuns(W, n)
  <2>1. CASE Failing(run)
    BY <1>1, <2>1, VerdictCases DEF PassRuns
  <2>2. CASE ~Failing(run)
    <3>1. \A i \in 1 .. n : (\A j \in i .. n + 1 : ~Failing(W[j])) <=> (\A j \in i .. n : ~Failing(W[j]))
      <4> SUFFICES ASSUME NEW i \in 1 .. n, \A j \in i .. n : ~Failing(W[j]), NEW k \in i .. n + 1
                   PROVE  ~Failing(W[k])
        BY <1>1
      <4>1. k = n + 1 \/ k \in i .. n
        BY <1>1
      <4> QED
        BY <1>1, <2>2, <4>1
    <3>2. (\A j \in n + 1 .. n + 1 : ~Failing(W[j]))
      BY <1>1, <2>2
    <3>3. 1 .. n + 1 = (1 .. n) \cup {n + 1}
      BY <1>1
    <3>4. n + 1 \in PassRuns(W, n + 1) <=> Passing(run)
      BY <1>1, <3>2, <3>3 DEF PassRuns
    <3>5. \A i \in 1 .. n : i \in PassRuns(W, n + 1) <=> i \in PassRuns(W, n)
      BY <3>1, <3>3 DEF PassRuns
    <3>6. PassRuns(W, n + 1) \subseteq (1 .. n) \cup {n + 1} /\ PassRuns(W, n) \subseteq 1 .. n
      BY <3>3 DEF PassRuns
    <3> QED
      BY <2>2, <3>4, <3>5, <3>6
  <2> QED
    BY <2>1, <2>2, VerdictCases
<1>4. /\ Passing(run) => BlockRuns(W, n + 1) = {}
      /\ Failing(run) => BlockRuns(W, n + 1) = BlockRuns(W, n) \cup {n + 1}
      /\ ~Failing(run) /\ ~Passing(run) => BlockRuns(W, n + 1) = BlockRuns(W, n)
  <2>1. CASE Passing(run)
    BY <1>1, <2>1, VerdictCases DEF BlockRuns
  <2>2. CASE ~Passing(run)
    <3>1. \A i \in 1 .. n : (\A j \in i .. n + 1 : ~Passing(W[j])) <=> (\A j \in i .. n : ~Passing(W[j]))
      <4> SUFFICES ASSUME NEW i \in 1 .. n, \A j \in i .. n : ~Passing(W[j]), NEW k \in i .. n + 1
                   PROVE  ~Passing(W[k])
        BY <1>1
      <4>1. k = n + 1 \/ k \in i .. n
        BY <1>1
      <4> QED
        BY <1>1, <2>2, <4>1
    <3>2. (\A j \in n + 1 .. n + 1 : ~Passing(W[j]))
      BY <1>1, <2>2
    <3>3. 1 .. n + 1 = (1 .. n) \cup {n + 1}
      BY <1>1
    <3>4. n + 1 \in BlockRuns(W, n + 1) <=> Failing(run)
      BY <1>1, <3>2, <3>3 DEF BlockRuns
    <3>5. \A i \in 1 .. n : i \in BlockRuns(W, n + 1) <=> i \in BlockRuns(W, n)
      BY <3>1, <3>3 DEF BlockRuns
    <3>6. BlockRuns(W, n + 1) \subseteq (1 .. n) \cup {n + 1} /\ BlockRuns(W, n) \subseteq 1 .. n
      BY <3>3 DEF BlockRuns
    <3> QED
      BY <2>2, <3>4, <3>5, <3>6
  <2> QED
    BY <2>1, <2>2, VerdictCases
<1>5. /\ IsFiniteSet(PassRuns(W, n)) /\ IsFiniteSet(BlockRuns(W, n))
      /\ n + 1 \notin PassRuns(W, n) /\ n + 1 \notin BlockRuns(W, n)
  <2>1. IsFiniteSet(PassRuns(W, n)) /\ IsFiniteSet(BlockRuns(W, n))
    BY <1>1, StreakSets
  <2> QED
    BY <1>1, <2>1 DEF PassRuns, BlockRuns
<1>6. /\ Cardinality(PassRuns(W, n) \cup {n + 1}) = Cardinality(PassRuns(W, n)) + 1
      /\ Cardinality(BlockRuns(W, n) \cup {n + 1}) = Cardinality(BlockRuns(W, n)) + 1
      /\ Cardinality({}) = 0
  BY <1>5, FS_AddElement, FS_EmptySet
<1>7. n + 1 \in Nat
  BY <1>1
<1>8. /\ PassStreakOf(W, n + 1) = Cardinality(PassRuns(W, n + 1))
      /\ BlockStreakOf(W, n + 1) = Cardinality(BlockRuns(W, n + 1))
  BY <1>7, StreakSets
<1>9. /\ s.streak_pass = Cardinality(PassRuns(W, n))
      /\ s.streak_block = Cardinality(BlockRuns(W, n))
  BY <1>1, <1>2, StreakSets DEF n
<1>10. /\ PassStreakOf(W, n + 1) = NextPassStreak(s, run.verdict)
       /\ BlockStreakOf(W, n + 1) = NextBlockStreak(s, run.verdict)
  BY <1>3, <1>4, <1>6, <1>8, <1>9, VerdictCases DEF NextPassStreak, NextBlockStreak
<1> QED
  BY <1>10 DEF W, n
\* What a run is worth does not depend on the runs after it.
LEMMA EarlierWorth ==
    ASSUME NEW runs \in Seq(Run), NEW run \in Run, NEW i \in 1 .. Len(runs)
    PROVE  Worth(Append(runs, run), i) = Worth(runs, i)
<1> DEFINE W == Append(runs, run)
           n == Len(runs)
<1>1. n \in Nat /\ \A j \in 1 .. n : W[j] = runs[j]
  BY Appended
<1>2. W[i] = runs[i] /\ i \in 0 .. n /\ i \in Nat
  BY <1>1
<1> HIDE DEF W, n
<1>3. PassRuns(W, i) = PassRuns(runs, i) /\ BlockRuns(W, i) = BlockRuns(runs, i)
  BY <1>1, <1>2, EarlierStreaks
<1>4. PassStreakOf(W, i) = PassStreakOf(runs, i) /\ BlockStreakOf(W, i) = BlockStreakOf(runs, i)
  BY <1>2, <1>3, StreakSets
<1>5. Worth(W, i) = Worth(runs, i)
  BY <1>2, <1>4 DEF Worth
<1> QED
  BY <1>5 DEF W

LEMMA WorthType ==
    ASSUME NEW runs \in Seq(Run), NEW i \in 1 .. Len(runs)
    PROVE  Worth(runs, i) \in Int
<1>1. runs[i] \in Run
  OBVIOUS
<1>2. runs[i].delta \in Int
  BY <1>1 DEF Run
<1> QED
  BY <1>2 DEF Worth

\* _apply_report keeps a ledger that adds up adding up.
LEMMA ApplyReportAddsUp ==
    ASSUME NEW s \in State, AddsUp(s), NEW run \in Run
    PROVE  AddsUp(ApplyReport(s, run))
<1> DEFINE runs == s.runs
           W == Append(runs, run)
           n == Len(runs)
           a == ApplyReport(s, run)
<1>1. /\ runs \in Seq(Run) /\ s.coins \in Int /\ s.counts \in [Rules -> Nat]
      /\ run.delta \in Int /\ run.rules \in [Rules -> Nat]
  BY DEF State, Run
<1>2. /\ W \in Seq(Run) /\ n \in Nat /\ Len(W) = n + 1
      /\ DOMAIN runs = 1 .. n /\ DOMAIN W = 1 .. n + 1
      /\ W[n + 1] = run /\ \A i \in 1 .. n : W[i] = runs[i]
  BY <1>1, Appended
<1>3. /\ a.runs = W /\ a.coins = s.coins + CoinDelta(s, run)
      /\ a.streak_pass = NextPassStreak(s, run.verdict)
      /\ a.streak_block = NextBlockStreak(s, run.verdict)
      /\ a.counts = [r \in Rules |-> s.counts[r] + run.rules[r]]
  BY DEF ApplyReport
<1>4. /\ s.coins = Total([i \in 1 .. n |-> Worth(runs, i)])
      /\ s.streak_pass = PassStreakOf(runs, n)
      /\ s.streak_block = BlockStreakOf(runs, n)
      /\ \A r \in Rules : s.counts[r] = Total([i \in 1 .. n |-> runs[i].rules[r]])
  <2>1. DOMAIN s.runs = 1 .. n
    BY <1>2
  <2> QED
    BY <2>1, Zenon DEF AddsUp
<1>5. /\ PassStreakOf(W, n + 1) = NextPassStreak(s, run.verdict)
      /\ BlockStreakOf(W, n + 1) = NextBlockStreak(s, run.verdict)
  BY <1>1, <1>4, NextStreaks
<1>6. Worth(W, n + 1) = CoinDelta(s, run)
  BY <1>2, <1>5, VerdictCases DEF Worth, CoinDelta
<1>7. a.coins = Total([i \in 1 .. n + 1 |-> Worth(W, i)])
  <2> DEFINE v == [i \in 1 .. n |-> Worth(runs, i)]
             w == [i \in 1 .. n + 1 |-> Worth(W, i)]
  <2>1. \A i \in 1 .. n : Worth(W, i) = Worth(runs, i)
    BY <1>1, EarlierWorth
  <2>2. \A i \in 1 .. n : Worth(runs, i) \in Int
    BY <1>1, WorthType
  <2>3. \A i \in 1 .. n + 1 : Worth(W, i) \in Int
    BY <1>2, WorthType
  <2> HIDE DEF W, n, runs
  <2>4. v \in [1 .. n -> Int] /\ w \in [1 .. n + 1 -> Int]
    BY <2>2, <2>3
  <2>5. \A i \in 1 .. n : v[i] = w[i]
    BY <1>2, <2>1
  <2>6. w[n + 1] = CoinDelta(s, run)
    BY <1>2, <1>6
  <2> HIDE DEF v, w
  <2>7. Total(w) = Total(v) + w[n + 1]
    BY <1>2, <2>4, <2>5, TotalAppend
  <2>8. s.coins = Total(v)
    BY <1>4 DEF v
  <2>9. a.coins = Total(w)
    BY <1>3, <2>6, <2>7, <2>8
  <2> QED
    BY <2>9 DEF w
<1>8. ASSUME NEW r \in Rules
      PROVE  a.counts[r] = Total([i \in 1 .. n + 1 |-> W[i].rules[r]])
  <2> DEFINE v == [i \in 1 .. n |-> runs[i].rules[r]]
             w == [i \in 1 .. n + 1 |-> W[i].rules[r]]
  <2>0. \A x \in Run : x.rules[r] \in Int
    BY DEF Run
  <2>1. \A i \in 1 .. n : runs[i].rules[r] \in Int
    <3>1. \A i \in 1 .. n : runs[i] \in Run
      BY <1>1, <1>2
    <3> QED
      BY <2>0, <3>1
  <2>2. \A i \in 1 .. n + 1 : W[i].rules[r] \in Int
    <3>1. \A i \in 1 .. n + 1 : W[i] \in Run
      BY <1>2
    <3> QED
      BY <2>0, <3>1
  <2> HIDE DEF W, n, runs
  <2>3. v \in [1 .. n -> Int] /\ w \in [1 .. n + 1 -> Int]
    BY <2>1, <2>2
  <2>4. \A i \in 1 .. n : v[i] = w[i]
    BY <1>2
  <2>5. w[n + 1] = run.rules[r]
    BY <1>2
  <2>6. s.counts[r] = Total(v)
    BY <1>4
  <2> HIDE DEF v, w
  <2>7. Total(w) = Total(v) + w[n + 1]
    BY <1>2, <2>3, <2>4, TotalAppend
  <2>8. a.counts[r] = Total(w)
    <3>1. a.counts[r] = s.counts[r] + run.rules[r]
      BY <1>3
    <3> QED
      BY <2>5, <2>6, <2>7, <3>1
  <2> QED
    BY <2>8 DEF w
<1> HIDE DEF a, W, n, runs
<1>9. DOMAIN a.runs = 1 .. n + 1 /\ Len(a.runs) = n + 1
  BY <1>2, <1>3
<1>10. AddsUp(a)
  BY <1>3, <1>5, <1>7, <1>8, <1>9 DEF AddsUp
<1> QED
  BY <1>10 DEF a

\* A new ledger adds up.
LEMMA FreshAddsUp == AddsUp(Fresh)
<1>1. Fresh.runs = <<>> /\ DOMAIN <<>> = {} /\ Len(<<>>) = 0
  BY DEF Fresh
<1>2. \A v : DOMAIN v = {} => Total(v) = 0
  BY TotalEmpty
<1>3. PassStreakOf(<<>>, 0) = 0 /\ BlockStreakOf(<<>>, 0) = 0
  <2> DEFINE e == <<>>
  <2>1. 1 .. 0 = {} /\ 0 \in Nat
    OBVIOUS
  <2> HIDE DEF e
  <2>2. PassRuns(e, 0) = {} /\ BlockRuns(e, 0) = {}
    BY <2>1 DEF PassRuns, BlockRuns
  <2>3. PassStreakOf(e, 0) = Cardinality(PassRuns(e, 0)) /\ BlockStreakOf(e, 0) = Cardinality(BlockRuns(e, 0))
    BY <2>1, StreakSets
  <2>4. PassStreakOf(e, 0) = 0 /\ BlockStreakOf(e, 0) = 0
    BY <2>2, <2>3, FS_EmptySet
  <2> QED
    BY <2>4 DEF e
<1>4. Total([i \in {} |-> Worth(<<>>, i)]) = 0
  BY <1>2
<1>5. \A r \in Rules : Total([i \in {} |-> <<>>[i].rules[r]]) = 0
  BY <1>2
<1>6. Fresh.coins = 0 /\ Fresh.streak_pass = 0 /\ Fresh.streak_block = 0
      /\ \A r \in Rules : Fresh.counts[r] = 0
  BY DEF Fresh, NoCounts
<1> QED
  BY <1>1, <1>3, <1>4, <1>5, <1>6 DEF AddsUp
-----------------------------------------------------------------------------
(* The ledgers of Histories. *)

LEMMA MaxIn ==
    ASSUME NEW n \in Nat, NEW s \in SUBSET (1 .. n), s # {}
    PROVE  Max(s) \in s /\ \A y \in s : y <= Max(s)
<1> DEFINE T == {m \in Nat : \A y \in s : y <= m}
<1>1. n \in T
  OBVIOUS
<1>2. PICK m \in T : \A k \in T : m <= k
  BY <1>1, LeastElement
<1>3. m \in s
  <2> SUFFICES ASSUME m \notin s
               PROVE  FALSE
    OBVIOUS
  <2>1. \A y \in s : y < m
    <3>1. \A y \in s : y <= m /\ y # m /\ y \in Nat
      OBVIOUS
    <3> QED
      BY <3>1
  <2>2. m - 1 \in Nat /\ \A y \in s : y <= m - 1
    <3>1. PICK z : z \in s
      OBVIOUS
    <3>2. z \in Nat /\ z < m /\ m \in Nat /\ \A y \in s : y \in Nat
      BY <2>1, <3>1
    <3> QED
      BY <2>1, <3>2
  <2>3. m - 1 \in T
    BY <2>2
  <2> QED
    BY <1>2, <2>3
<1>4. \E x \in s : \A y \in s : x >= y
  BY <1>2, <1>3
<1> QED
  BY <1>4 DEF Max

\* A ledger that recorded any sequence of reports is well formed and adds up.
LEMMA RecordedAddsUp ==
    ASSUME NEW h \in Seq(Report)
    PROVE  Recorded(h) \in State /\ AddsUp(Recorded(h))
<1> DEFINE N == Len(h)
           S == 1 .. N
           Entry(i) == RunEntry(0, h[i])
           pick == [s \in SUBSET S |-> Max(s)]
           step == [i \in S |-> [v \in State |-> ApplyReport(v, Entry(i))]]
           Rec(it) == [s \in SUBSET S |-> IF s = {} THEN Fresh
                         ELSE ApplyReport(it[s \ {Max(s)}], Entry(Max(s)))]
           after == CHOOSE it : it = Rec(it)
<1>1. N \in Nat /\ DOMAIN h = S /\ IsFiniteSet(S)
  BY FS_Interval
<1>2. ASSUME NEW i \in S
      PROVE  Entry(i) \in Run
  <2>1. h[i] \in Report /\ 0 \in 0 .. MaxRuns
    BY <1>1, LedgerAssumption
  <2> QED
    BY <2>1, RunEntryType
<1> HIDE DEF Entry
<1>3. step \in [S -> [State -> State]]
  BY <1>2, ApplyReportType
<1>4. Picks(pick, S)
  BY <1>1, MaxIn DEF Picks
<1>5. PICK it : IsFold(it, S, State, Fresh, step, pick)
  <2> HIDE DEF step, pick, S
  <2> QED
    BY <1>1, <1>3, <1>4, FreshState, FoldExists, Zenon
<1>6. it = Rec(it)
  <2>1. it \in [SUBSET S -> State] /\ it[{}] = Fresh
    BY <1>5 DEF IsFold
  <2>2. ASSUME NEW s \in SUBSET S, s # {}
        PROVE  it[s] = ApplyReport(it[s \ {Max(s)}], Entry(Max(s)))
    <3>1. it[s] = step[pick[s]][it[s \ {pick[s]}]]
      BY <1>5, <2>2 DEF IsFold
    <3>2. pick[s] = Max(s) /\ Max(s) \in S
      BY <1>1, <2>2, MaxIn
    <3>3. it[s \ {Max(s)}] \in State
      BY <2>1, <2>2
    <3> HIDE DEF pick, S
    <3> QED
      BY <3>1, <3>2, <3>3
  <2>3. it = [s \in SUBSET S |-> it[s]]
    BY <2>1
  <2>4. \A s \in SUBSET S :
            it[s] = IF s = {} THEN Fresh
                    ELSE ApplyReport(it[s \ {Max(s)}], Entry(Max(s)))
    BY <2>1, <2>2
  <2> QED
    BY <2>3, <2>4, Zenon
<1>7. after = Rec(after)
  <2> HIDE DEF Rec
  <2> QED
    BY <1>6
<1>8. Recorded(h) = after[S]
  BY <1>1, Zenon DEF Recorded, FoldLeft, MapThenFoldSet, Entry
<1> HIDE DEF after
<1>9. /\ after[{}] = Fresh
      /\ \A s \in SUBSET S : s # {} =>
             after[s] = ApplyReport(after[s \ {Max(s)}], Entry(Max(s)))
  BY <1>7
<1> DEFINE Good == {k \in Nat : k <= N => after[1 .. k] \in State /\ AddsUp(after[1 .. k])}
<1>10. 0 \in Good
  <2>1. 1 .. 0 = {}
    OBVIOUS
  <2> QED
    BY <1>9, <2>1, FreshState, FreshAddsUp
<1>11. ASSUME NEW k \in Nat, k \in Good
       PROVE  k + 1 \in Good
  <2> SUFFICES ASSUME k + 1 <= N
               PROVE  after[1 .. k + 1] \in State /\ AddsUp(after[1 .. k + 1])
    OBVIOUS
  <2>1. 1 .. k + 1 \in SUBSET S /\ 1 .. k + 1 # {} /\ k + 1 \in S /\ k <= N
    <3>1. N \in Nat
      BY <1>1
    <3> HIDE DEF N
    <3>2. k + 1 \in 1 .. k + 1 /\ k + 1 \in 1 .. N /\ k <= N
      BY <3>1
    <3>3. \A i \in 1 .. k + 1 : i \in 1 .. N
      BY <3>1
    <3> QED
      BY <3>2, <3>3
  <2>2. Max(1 .. k + 1) = k + 1
    <3>1. Max(1 .. k + 1) \in 1 .. k + 1 /\ \A y \in 1 .. k + 1 : y <= Max(1 .. k + 1)
      BY <1>1, <2>1, MaxIn
    <3> QED
      BY <3>1
  <2>3. (1 .. k + 1) \ {k + 1} = 1 .. k
    OBVIOUS
  <2>4. after[1 .. k + 1] = ApplyReport(after[(1 .. k + 1) \ {Max(1 .. k + 1)}], Entry(Max(1 .. k + 1)))
    BY <1>9, <2>1
  <2>5. after[1 .. k + 1] = ApplyReport(after[1 .. k], Entry(k + 1))
    BY <2>2, <2>3, <2>4, Zenon
  <2>6. after[1 .. k] \in State /\ AddsUp(after[1 .. k])
    BY <1>11, <2>1
  <2> DEFINE e == Entry(k + 1)
             s == after[1 .. k]
  <2>7. e \in Run
    BY <1>2, <2>1
  <2> HIDE DEF e, s
  <2>8. ApplyReport(s, e) \in State /\ AddsUp(ApplyReport(s, e))
    BY <2>6, <2>7, ApplyReportType, ApplyReportAddsUp DEF s
  <2> QED
    BY <2>5, <2>8 DEF e, s
<1>12. Nat \subseteq Good
  <2> HIDE DEF Good
  <2> QED
    BY <1>10, <1>11, SetInduction
<1>13. N \in Good
  BY <1>1, <1>12
<1> QED
  BY <1>1, <1>8, <1>13
-----------------------------------------------------------------------------
(* LedgerInv is an invariant. *)

Frame == [pc : PCs, run : Run, state : State, inode : Nat]
FileType == [kind : {"missing", "empty", "torn", "state"}, inode : Nat, state : State]
SnapshotType == [id : 0 .. MaxRuns, coins : Int, streak_pass : Nat, streak_block : Nat]

LEMMA IdleFrame == \A how \in PCs : Ended(how) \in Frame /\ Ended(how).pc = how
<1>1. NoRun \in Run
  BY LedgerAssumption DEF NoRun, Run, NoCounts, Verdicts
<1> QED
  BY <1>1, FreshState DEF Ended, Idle, Frame

LEMMA InitLedgerInv == Init => LedgerInv
<1> SUFFICES ASSUME Init
             PROVE  LedgerInv
  OBVIOUS
<1>1. \A c \in Clients : client[c] = Idle
  BY DEF Init
<1>2. Idle \in Frame /\ Idle.pc = "idle"
  <2>1. Ended("idle") = Idle
    BY DEF Ended, Idle
  <2> QED
    BY <2>1, IdleFrame DEF PCs, Resting
<1>3. client \in [Clients -> Frame]
  BY <1>2 DEF Init
<1>4. file \in FileType /\ (file.kind = "state" => AddsUp(file.state))
  <2>1. PICK h \in Histories : file = IF h = <<>> THEN Missing ELSE Holds(1, Recorded(h))
    BY DEF Init
  <2>2. Recorded(h) \in State /\ AddsUp(Recorded(h))
    BY LedgerAssumption, RecordedAddsUp
  <2> QED
    BY <2>1, <2>2, FreshState DEF Missing, Holds, FileType
<1>5. TypeInv
  BY <1>1, <1>2, <1>3, <1>4, LedgerAssumption DEF Init, TypeInv, Frame, FileType, Resting
<1>6. LocalInv
  BY <1>1, <1>2, <1>4 DEF LocalInv
<1>7. TablesInv
  BY <1>1, <1>2 DEF Init, TablesInv, LedgerIds
<1> QED
  BY <1>5, <1>6, <1>7 DEF LedgerInv

\* A step that gives process c the frame x, and changes nothing else of the
\* frames.
Moves(c, x) == x \in Frame /\ client' = [client EXCEPT ![c] = x]

LEMMA MovesType ==
    ASSUME TypeInv, NEW c \in Clients, NEW x, Moves(c, x)
    PROVE  /\ client' \in [Clients -> Frame]
           /\ client'[c] = x
           /\ \A d \in Clients : d # c => client'[d] = client[d]
BY DEF TypeInv, Moves, Frame

\* A frame whose pc alone changes.
SetsPc(c, q) == client' = [client EXCEPT ![c].pc = q]

LEMMA NewPc ==
    ASSUME TypeInv, NEW c \in Clients, NEW q \in PCs, SetsPc(c, q)
    PROVE  \E x : /\ Moves(c, x) /\ x.pc = q /\ x.run = client[c].run
                  /\ x.state = client[c].state
<1> DEFINE x == [client[c] EXCEPT !.pc = q]
<1>1. client[c] \in Frame
  BY DEF TypeInv, Frame
<1>2. x \in Frame /\ x.pc = q /\ x.run = client[c].run /\ x.state = client[c].state
  BY <1>1 DEF Frame
<1>3. client' = [client EXCEPT ![c] = x]
  BY DEF SetsPc
<1> QED
  BY <1>2, <1>3 DEF Moves

\* A report applied to the state s.
LEMMA AppliedMoves ==
    ASSUME TypeInv, NEW c \in Clients, NEW s \in State, NEW q \in PCs, Applied(c, s, q)
    PROVE  \E x : /\ Moves(c, x) /\ x.pc = q /\ x.run = client[c].run
                  /\ x.state = ApplyReport(s, client[c].run)
<1> DEFINE a == ApplyReport(s, client[c].run)
           x == [client[c] EXCEPT !.pc = q, !.state = a]
<1>1. client[c] \in Frame /\ client[c].run \in Run
  BY DEF TypeInv, Frame
<1>2. a \in State
  BY <1>1, ApplyReportType
<1>3. client' = [client EXCEPT ![c].pc = q, ![c].state = a]
  BY DEF Applied
<1> HIDE DEF a
<1>4. x \in Frame /\ x.pc = q /\ x.run = client[c].run /\ x.state = a
  BY <1>1, <1>2 DEF Frame
<1>5. client' = [client EXCEPT ![c] = x]
  <2>1. client \in [Clients -> Frame]
    BY DEF TypeInv, Frame
  <2> QED
    BY <1>3, <2>1
<1> QED
  BY <1>4, <1>5 DEF Moves, a
\* What the step of one process has to respect: the shapes, a local ledger that
\* adds up, and tables that only grow and stay backed.
StoresKept ==
    /\ enabled' = enabled /\ resets' = resets
    /\ file' \in FileType
    /\ runsTable' \in Seq(Run) /\ ledgerTable' \in Seq(SnapshotType)
    /\ nextRun' \in 1 .. MaxRuns + 1 /\ kept' \subseteq 1 .. MaxRuns
    /\ enabled = {} /\ file'.kind = "state" => AddsUp(file'.state)
    /\ RunIds \subseteq RunIds' /\ LedgerIds \subseteq LedgerIds'
    /\ LedgerIds' \subseteq RunIds'

FrameFits(x) ==
    /\ x.pc \notin Resting => x.run.id \in 1 .. MaxRuns
    /\ enabled = {} => /\ x.pc \notin {"get", "postRun", "postLedger", "remote"}
                       /\ x.pc \in {"open", "write"} => AddsUp(x.state)

LEMMA MoveKeeps ==
    ASSUME LedgerInv, NEW c \in Clients, NEW x, Moves(c, x), StoresKept, FrameFits(x),
           x.pc \in {"postLedger", "remote"} => x.run.id \in RunIds',
           x.pc = "remote" => x.run.id \in LedgerIds'
    PROVE  LedgerInv'
<1>1. TypeInv /\ LocalInv /\ TablesInv
  BY DEF LedgerInv
<1>2. /\ client' \in [Clients -> Frame] /\ client'[c] = x
      /\ \A d \in Clients : d # c => client'[d] = client[d]
  BY <1>1, MovesType
<1>3. TypeInv'
  <2>1. ASSUME NEW d \in Clients, client'[d].pc \notin Resting
        PROVE  client'[d].run.id \in 1 .. MaxRuns
    <3>1. CASE d = c
      BY <1>2, <2>1, <3>1 DEF FrameFits
    <3>2. CASE d # c
      BY <1>1, <1>2, <2>1, <3>2 DEF TypeInv
    <3> QED
      BY <3>1, <3>2
  <2>2. enabled' \in Configs /\ resets' \in Nat
    BY <1>1 DEF StoresKept, TypeInv
  <2> QED
    BY <1>2, <2>1, <2>2 DEF StoresKept, TypeInv, Frame, FileType, SnapshotType
<1>4. LocalInv'
  <2> SUFFICES ASSUME enabled = {}
               PROVE  /\ file'.kind = "state" => AddsUp(file'.state)
                      /\ \A d \in Clients :
                           /\ client'[d].pc \notin {"get", "postRun", "postLedger", "remote"}
                           /\ client'[d].pc \in {"open", "write"} => AddsUp(client'[d].state)
    BY DEF LocalInv, StoresKept, AddsUp
  <2>1. ASSUME NEW d \in Clients
        PROVE  /\ client'[d].pc \notin {"get", "postRun", "postLedger", "remote"}
               /\ client'[d].pc \in {"open", "write"} => AddsUp(client'[d].state)
    <3>1. CASE d = c
      BY <1>2, <3>1 DEF FrameFits
    <3>2. CASE d # c
      BY <1>1, <1>2, <3>2 DEF LocalInv
    <3> QED
      BY <3>1, <3>2
  <2> QED
    BY <2>1 DEF StoresKept
<1>5. TablesInv'
  <2>1. ASSUME NEW d \in Clients
        PROVE  /\ client'[d].pc \in {"postLedger", "remote"} => client'[d].run.id \in RunIds'
               /\ client'[d].pc = "remote" => client'[d].run.id \in LedgerIds'
    <3>1. CASE d = c
      BY <1>2, <3>1
    <3>2. CASE d # c
      <4>1. client'[d] = client[d]
        BY <1>2, <3>2
      <4>2. /\ client[d].pc \in {"postLedger", "remote"} => client[d].run.id \in RunIds
            /\ client[d].pc = "remote" => client[d].run.id \in LedgerIds
        BY <1>1 DEF TablesInv
      <4> QED
        BY <4>1, <4>2 DEF StoresKept
    <3> QED
      BY <3>1, <3>2
  <2> QED
    BY <2>1 DEF StoresKept, TablesInv
<1> QED
  BY <1>3, <1>4, <1>5 DEF LedgerInv
\* The stores when none of them is written.
LEMMA NothingWritten ==
    ASSUME LedgerInv, UNCHANGED <<enabled, file, runsTable, ledgerTable, resets>>,
           nextRun' \in 1 .. MaxRuns + 1, kept' \subseteq 1 .. MaxRuns
    PROVE  /\ StoresKept
           /\ RunIds' = RunIds /\ LedgerIds' = LedgerIds
<1>1. TypeInv /\ LocalInv /\ TablesInv
  BY DEF LedgerInv
<1>2. RunIds' = RunIds /\ LedgerIds' = LedgerIds
  BY DEF RunIds, LedgerIds
<1> QED
  BY <1>1, <1>2 DEF StoresKept, TypeInv, LocalInv, TablesInv, FileType, SnapshotType

\* The stores when only the file is written.
LEMMA FileWritten ==
    ASSUME LedgerInv, UNCHANGED <<enabled, runsTable, ledgerTable, nextRun, resets>>,
           kept' \subseteq 1 .. MaxRuns, file' \in FileType,
           enabled = {} /\ file'.kind = "state" => AddsUp(file'.state)
    PROVE  StoresKept
<1>1. TypeInv /\ LocalInv /\ TablesInv
  BY DEF LedgerInv
<1>2. RunIds' = RunIds /\ LedgerIds' = LedgerIds
  BY DEF RunIds, LedgerIds
<1> QED
  BY <1>1, <1>2 DEF StoresKept, TypeInv, TablesInv, SnapshotType

LEMMA StartKeeps ==
    ASSUME LedgerInv, NEW c \in Clients, Start(c)
    PROVE  LedgerInv'
<1>1. TypeInv
  BY DEF LedgerInv
<1> DEFINE q == IF c \in enabled THEN "get" ELSE "read"
<1>2. PICK r \in Reports :
          client' = [client EXCEPT ![c] = [Idle EXCEPT !.pc = q, !.run = RunEntry(nextRun, r)]]
  BY DEF Start
<1> DEFINE x == [Idle EXCEPT !.pc = q, !.run = RunEntry(nextRun, r)]
<1>3. nextRun \in 1 .. MaxRuns /\ nextRun' \in 1 .. MaxRuns + 1
  BY <1>1, LedgerAssumption DEF Start, TypeInv
<1>4. RunEntry(nextRun, r) \in Run /\ RunEntry(nextRun, r).id = nextRun
  <2>1. r \in Report /\ nextRun \in 0 .. MaxRuns
    BY <1>3, LedgerAssumption
  <2> QED
    BY <2>1, RunEntryType DEF RunEntry
<1>5. Idle \in Frame
  <2>1. Ended("idle") = Idle
    BY DEF Ended, Idle
  <2> QED
    BY <2>1, IdleFrame DEF PCs, Resting
<1>6. q \in {"get", "read"} /\ (q = "get" => c \in enabled)
  OBVIOUS
<1>7. x \in Frame /\ x.pc = q /\ x.run.id = nextRun
  <2> HIDE DEF q
  <2>1. PICK e \in Run : e = RunEntry(nextRun, r)
    BY <1>4
  <2>2. q \in PCs /\ x = [Idle EXCEPT !.pc = q, !.run = e]
    BY <1>6, <2>1 DEF PCs
  <2>3. [Idle EXCEPT !.pc = q, !.run = e] \in Frame
    BY <1>5, <2>2 DEF Frame
  <2>4. x.pc = q /\ x.run = e
    BY <1>5, <2>2 DEF Frame
  <2> QED
    BY <1>4, <2>1, <2>2, <2>3, <2>4
<1> HIDE DEF x, q
<1>8. Moves(c, x)
  BY <1>2, <1>7 DEF Moves, x
<1>9. FrameFits(x)
  BY <1>3, <1>6, <1>7 DEF FrameFits
<1>10. StoresKept
  BY <1>1, <1>3, NothingWritten DEF Start, TypeInv
<1> QED
  BY <1>6, <1>7, <1>8, <1>9, <1>10, MoveKeeps

LEMMA ReadSupabaseStateType == TypeInv => ReadSupabaseState \in State
<1> SUFFICES ASSUME TypeInv
             PROVE  ReadSupabaseState \in State
  OBVIOUS
<1>1. CASE ledgerTable = <<>>
  BY <1>1, FreshState DEF ReadSupabaseState
<1>2. CASE ledgerTable # <<>>
  <2> DEFINE row == ledgerTable[Len(ledgerTable)]
  <2>1. row \in SnapshotType
    <3>1. ledgerTable \in Seq(SnapshotType)
      BY DEF TypeInv, SnapshotType
    <3>2. Len(ledgerTable) \in DOMAIN ledgerTable
      BY <1>2, <3>1
    <3> QED
      BY <3>1, <3>2
  <2>2. row.coins \in Int /\ row.streak_pass \in Nat /\ row.streak_block \in Nat
    BY <2>1 DEF SnapshotType
  <2>3. ReadSupabaseState = [Fresh EXCEPT !.coins = row.coins, !.streak_pass = row.streak_pass,
                                          !.streak_block = row.streak_block]
    BY <1>2 DEF ReadSupabaseState
  <2>4. PICK coins \in Int, pass \in Nat, block \in Nat :
            coins = row.coins /\ pass = row.streak_pass /\ block = row.streak_block
    BY <2>2
  <2>5. ReadSupabaseState = [Fresh EXCEPT !.coins = coins, !.streak_pass = pass,
                                          !.streak_block = block]
    BY <2>3, <2>4
  <2> QED
    BY <2>5, FreshState DEF State
<1> QED
  BY <1>1, <1>2

LEMMA ReadSupabaseKeeps ==
    ASSUME LedgerInv, NEW c \in Clients, ReadSupabase(c)
    PROVE  LedgerInv'
<1>1. TypeInv /\ LocalInv
  BY DEF LedgerInv
<1>2. /\ client[c].pc = "get" /\ enabled # {}
      /\ client[c].run.id \in 1 .. MaxRuns
  BY <1>1 DEF ReadSupabase, LocalInv, TypeInv, Resting
<1>3. PICK x : Moves(c, x) /\ x.pc \in {"postRun", "read"} /\ x.run = client[c].run
  <2>1. CASE Applied(c, ReadSupabaseState, "postRun")
    <3>1. ReadSupabaseState \in State /\ "postRun" \in PCs
      BY <1>1, ReadSupabaseStateType DEF PCs
    <3>2. PICK x : Moves(c, x) /\ x.pc = "postRun" /\ x.run = client[c].run
      BY <1>1, <2>1, <3>1, AppliedMoves
    <3> QED
      BY <3>2
  <2>2. CASE client' = [client EXCEPT ![c].pc = "read"]
    <3>1. "read" \in PCs /\ SetsPc(c, "read")
      BY <2>2 DEF PCs, SetsPc
    <3>2. PICK x : Moves(c, x) /\ x.pc = "read" /\ x.run = client[c].run
      BY <1>1, <3>1, NewPc
    <3> QED
      BY <3>2
  <2> QED
    BY <2>1, <2>2 DEF ReadSupabase
<1>4. FrameFits(x)
  BY <1>2, <1>3 DEF FrameFits
<1>5. StoresKept
  BY <1>1, NothingWritten DEF ReadSupabase, TypeInv
<1> QED
  BY <1>3, <1>4, <1>5, MoveKeeps

LEMMA ReadLocalKeeps ==
    ASSUME LedgerInv, NEW c \in Clients, ReadLocal(c)
    PROVE  LedgerInv'
<1>1. TypeInv /\ LocalInv
  BY DEF LedgerInv
<1>2. client[c].pc = "read" /\ client[c].run.id \in 1 .. MaxRuns /\ client[c].run \in Run
  BY <1>1 DEF ReadLocal, TypeInv, Resting
<1>3. PICK s \in {ReadLocalState, Fresh} :
          Applied(c, s, IF c \in enabled THEN "postRun" ELSE "open")
  BY DEF ReadLocal
<1>4. s \in State /\ (enabled = {} => AddsUp(s))
  BY <1>1, FreshState, FreshAddsUp DEF ReadLocalState, TypeInv, LocalInv
<1>5. PICK q \in {"postRun", "open"} : q = IF c \in enabled THEN "postRun" ELSE "open"
  OBVIOUS
<1>6. PICK x : /\ Moves(c, x) /\ x.pc = q /\ x.run = client[c].run
               /\ x.state = ApplyReport(s, client[c].run)
  <2>1. Applied(c, s, q) /\ q \in PCs
    BY <1>3, <1>5 DEF PCs
  <2> QED
    BY <1>1, <1>4, <2>1, AppliedMoves
<1>7. enabled = {} => AddsUp(x.state) /\ q = "open"
  BY <1>2, <1>4, <1>5, <1>6, ApplyReportAddsUp
<1>8. FrameFits(x)
  BY <1>2, <1>6, <1>7 DEF FrameFits
<1>9. StoresKept
  BY <1>1, NothingWritten DEF ReadLocal, TypeInv
<1> QED
  BY <1>6, <1>8, <1>9, MoveKeeps
\* A request that was carried out adds its row, and no row is ever removed.
IdsOf(table) == {table[j].id : j \in DOMAIN table}

LEMMA RowAdded ==
    ASSUME NEW T, NEW table \in Seq(T), NEW row \in T
    PROVE  /\ Append(table, row) \in Seq(T)
           /\ IdsOf(Append(table, row)) = IdsOf(table) \cup {row.id}
<1> DEFINE n == Len(table)
           W == Append(table, row)
<1>1. /\ W \in Seq(T) /\ n \in Nat /\ DOMAIN table = 1 .. n /\ DOMAIN W = 1 .. n + 1
      /\ W[n + 1] = row /\ \A j \in 1 .. n : W[j] = table[j]
  OBVIOUS
<1> HIDE DEF n, W
<1>2. 1 .. n + 1 = (1 .. n) \cup {n + 1}
  BY <1>1
<1>3. {W[j].id : j \in DOMAIN W} = {table[j].id : j \in DOMAIN table} \cup {row.id}
  BY <1>1, <1>2
<1> QED
  BY <1>1, <1>3 DEF W, IdsOf

LEMMA PostRunKeeps ==
    ASSUME LedgerInv, NEW c \in Clients, PostRun(c)
    PROVE  LedgerInv'
<1>1. TypeInv /\ LocalInv /\ TablesInv
  BY DEF LedgerInv
<1>2. /\ client[c].pc = "postRun" /\ enabled # {}
      /\ client[c].run.id \in 1 .. MaxRuns /\ client[c].run \in Run
  BY <1>1 DEF PostRun, LocalInv, TypeInv, Resting
<1>3. PICK stored, ok \in BOOLEAN :
          /\ ok => stored
          /\ runsTable' = IF stored THEN Append(runsTable, client[c].run) ELSE runsTable
          /\ client' = [client EXCEPT ![c].pc = AfterPost(ok, "postLedger")]
  BY DEF PostRun
<1>4. PICK q \in {"postLedger", "open"} : q = AfterPost(ok, "postLedger")
  BY DEF AfterPost
<1>5. q = "postLedger" => ok
  BY <1>4 DEF AfterPost
<1>6. PICK x : Moves(c, x) /\ x.pc = q /\ x.run = client[c].run
  <2>1. q \in PCs /\ SetsPc(c, q)
    BY <1>3, <1>4 DEF PCs, SetsPc
  <2> QED
    BY <1>1, <2>1, NewPc
<1>7. /\ runsTable' \in Seq(Run) /\ RunIds \subseteq RunIds'
      /\ ok => client[c].run.id \in RunIds'
  <2>1. runsTable \in Seq(Run)
    BY <1>1 DEF TypeInv
  <2>2. CASE stored
    <3>1. runsTable' = Append(runsTable, client[c].run)
      BY <1>3, <2>2
    <3>2. /\ Append(runsTable, client[c].run) \in Seq(Run)
          /\ IdsOf(Append(runsTable, client[c].run)) = IdsOf(runsTable) \cup {client[c].run.id}
      BY <1>2, <2>1, RowAdded
    <3>3. RunIds' = IdsOf(runsTable') /\ RunIds = IdsOf(runsTable)
      BY DEF RunIds, IdsOf
    <3> QED
      BY <3>1, <3>2, <3>3
  <2>3. CASE ~stored
    BY <1>3, <2>1, <2>3 DEF RunIds
  <2> QED
    BY <2>2, <2>3
<1>8. LedgerIds' = LedgerIds
  BY DEF PostRun, LedgerIds
<1>9. StoresKept
  BY <1>1, <1>2, <1>7, <1>8 DEF PostRun, StoresKept, TypeInv, TablesInv, FileType, SnapshotType
<1>10. FrameFits(x)
  BY <1>2, <1>6 DEF FrameFits
<1> QED
  BY <1>5, <1>6, <1>7, <1>9, <1>10, MoveKeeps

LEMMA PostLedgerKeeps ==
    ASSUME LedgerInv, NEW c \in Clients, PostLedger(c)
    PROVE  LedgerInv'
<1>1. TypeInv /\ LocalInv /\ TablesInv
  BY DEF LedgerInv
<1>2. /\ client[c].pc = "postLedger" /\ enabled # {}
      /\ client[c].run.id \in 1 .. MaxRuns /\ client[c].run \in Run
      /\ client[c].state \in State /\ client[c].run.id \in RunIds
  BY <1>1 DEF PostLedger, LocalInv, TypeInv, TablesInv, Resting
<1> DEFINE row == Snapshot(client[c].run.id, client[c].state)
<1>3. PICK stored, ok \in BOOLEAN :
          /\ ok => stored
          /\ ledgerTable' = IF stored THEN Append(ledgerTable, row) ELSE ledgerTable
          /\ client' = [client EXCEPT ![c].pc = AfterPost(ok, "remote")]
  BY DEF PostLedger
<1>4. PICK q \in {"remote", "open"} : q = AfterPost(ok, "remote")
  BY DEF AfterPost
<1>5. q = "remote" => ok
  BY <1>4 DEF AfterPost
<1>6. PICK x : Moves(c, x) /\ x.pc = q /\ x.run = client[c].run
  <2>1. q \in PCs /\ SetsPc(c, q)
    BY <1>3, <1>4 DEF PCs, Resting, SetsPc
  <2> QED
    BY <1>1, <2>1, NewPc
<1>7. row \in SnapshotType /\ row.id = client[c].run.id
  BY <1>2, LedgerAssumption DEF Snapshot, SnapshotType, State
<1> HIDE DEF row
<1>8. /\ ledgerTable' \in Seq(SnapshotType) /\ LedgerIds \subseteq LedgerIds'
      /\ LedgerIds' \subseteq LedgerIds \cup {client[c].run.id}
      /\ ok => client[c].run.id \in LedgerIds'
  <2>1. ledgerTable \in Seq(SnapshotType)
    BY <1>1 DEF TypeInv, SnapshotType
  <2>2. CASE stored
    <3>1. ledgerTable' = Append(ledgerTable, row)
      BY <1>3, <2>2
    <3>2. /\ Append(ledgerTable, row) \in Seq(SnapshotType)
          /\ IdsOf(Append(ledgerTable, row)) = IdsOf(ledgerTable) \cup {row.id}
      BY <1>7, <2>1, RowAdded
    <3>3. LedgerIds' = IdsOf(ledgerTable') /\ LedgerIds = IdsOf(ledgerTable)
      BY DEF LedgerIds, IdsOf
    <3> QED
      BY <1>7, <3>1, <3>2, <3>3
  <2>3. CASE ~stored
    BY <1>3, <2>1, <2>3 DEF LedgerIds
  <2> QED
    BY <2>2, <2>3
<1>9. RunIds' = RunIds
  BY DEF PostLedger, RunIds
<1>10. StoresKept
  BY <1>1, <1>2, <1>8, <1>9 DEF PostLedger, StoresKept, TypeInv, TablesInv, FileType
<1>11. FrameFits(x)
  BY <1>2, <1>6 DEF FrameFits
<1> QED
  BY <1>2, <1>5, <1>6, <1>8, <1>9, <1>10, <1>11, MoveKeeps
LEMMA WriteOpenKeeps ==
    ASSUME LedgerInv, NEW c \in Clients, WriteOpen(c)
    PROVE  LedgerInv'
<1>1. TypeInv /\ LocalInv
  BY DEF LedgerInv
<1>2. /\ client[c].pc = "open" /\ client[c] \in Frame
      /\ client[c].run.id \in 1 .. MaxRuns
      /\ enabled = {} => AddsUp(client[c].state)
  BY <1>1 DEF WriteOpen, LocalInv, TypeInv, Resting, Frame
<1>3. PICK i \in Nat : i = resets + 1
  BY <1>1 DEF TypeInv
<1> DEFINE x == [client[c] EXCEPT !.pc = "write", !.inode = i]
<1>4. /\ x \in Frame /\ x.pc = "write" /\ x.run = client[c].run
      /\ x.state = client[c].state
  BY <1>2 DEF Frame, PCs
<1>5. Moves(c, x)
  <2>1. client \in [Clients -> Frame]
    BY <1>1 DEF TypeInv, Frame
  <2>2. client' = [client EXCEPT ![c].pc = "write", ![c].inode = i]
    BY <1>3 DEF WriteOpen
  <2>3. client' = [client EXCEPT ![c] = x]
    BY <2>1, <2>2
  <2> QED
    BY <1>4, <2>3 DEF Moves
<1> HIDE DEF x
<1>6. FrameFits(x)
  BY <1>2, <1>4 DEF FrameFits
<1>7. file' \in FileType /\ file'.kind # "state" /\ kept' \subseteq 1 .. MaxRuns
  BY <1>1, <1>3, FreshState DEF WriteOpen, Emptied, FileType, TypeInv
<1>8. StoresKept
  BY <1>7, FileWritten DEF WriteOpen
<1> QED
  BY <1>4, <1>5, <1>6, <1>8, MoveKeeps

\* An update that ends leaves an idle frame.
LEMMA EndedMoves ==
    ASSUME LedgerInv, NEW c \in Clients, NEW how \in {"local", "failed", "dead"},
           client' = [client EXCEPT ![c] = Ended(how)], StoresKept
    PROVE  LedgerInv'
<1>1. Ended(how) \in Frame /\ Ended(how).pc = how
  BY IdleFrame DEF PCs, Resting
<1>2. Moves(c, Ended(how))
  BY <1>1 DEF Moves
<1>3. FrameFits(Ended(how))
  BY <1>1 DEF FrameFits, Resting
<1> QED
  BY <1>1, <1>2, <1>3, MoveKeeps

LEMMA WriteCloseKeeps ==
    ASSUME LedgerInv, NEW c \in Clients, WriteClose(c)
    PROVE  LedgerInv'
<1>1. TypeInv /\ LocalInv
  BY DEF LedgerInv
<1>2. /\ client[c].pc = "write" /\ client[c].state \in State
      /\ client[c].run.id \in 1 .. MaxRuns
      /\ enabled = {} => AddsUp(client[c].state)
  BY <1>1 DEF WriteClose, LocalInv, TypeInv, Resting
<1>3. file \in FileType /\ (enabled = {} /\ file.kind = "state" => AddsUp(file.state))
  BY <1>1 DEF TypeInv, LocalInv, FileType
<1>4. file' \in {file, Holds(file.inode, client[c].state), Torn(file.inode)}
  BY DEF WriteClose, Written
<1>5. file' \in FileType /\ (enabled = {} /\ file'.kind = "state" => AddsUp(file'.state))
  <2>1. CASE file' = file
    BY <1>3, <2>1
  <2>2. CASE file' = Holds(file.inode, client[c].state)
    BY <1>2, <1>3, <2>2 DEF Holds, FileType
  <2>3. CASE file' = Torn(file.inode)
    BY <1>3, <2>3, FreshState DEF Torn, FileType
  <2> QED
    BY <1>4, <2>1, <2>2, <2>3
<1>6. kept' \subseteq 1 .. MaxRuns
  BY <1>1, <1>2 DEF WriteClose, TypeInv
<1>7. StoresKept
  BY <1>5, <1>6, FileWritten DEF WriteClose
<1> QED
  BY <1>7, EndedMoves DEF WriteClose

\* A write that breaks off leaves the file as it was, or unreadable.
LEMMA PartlyWrittenKeeps ==
    ASSUME LedgerInv, NEW c \in Clients, file' \in PartlyWritten(c),
           UNCHANGED <<enabled, runsTable, ledgerTable, nextRun, resets, kept>>
    PROVE  StoresKept
<1>1. TypeInv /\ LocalInv
  BY DEF LedgerInv
<1>2. /\ file \in FileType /\ (enabled = {} /\ file.kind = "state" => AddsUp(file.state))
      /\ kept \subseteq 1 .. MaxRuns
  BY <1>1 DEF TypeInv, LocalInv, FileType
<1>3. file' = file \/ file' = Torn(file.inode)
  BY DEF PartlyWritten
<1>4. file' \in FileType /\ (enabled = {} /\ file'.kind = "state" => AddsUp(file'.state))
  <2>1. CASE file' = file
    BY <1>2, <2>1
  <2>2. CASE file' = Torn(file.inode)
    BY <1>2, <2>2, FreshState DEF Torn, FileType
  <2> QED
    BY <1>3, <2>1, <2>2
<1> QED
  BY <1>2, <1>4, FileWritten

LEMMA WriteFailKeeps ==
    ASSUME LedgerInv, NEW c \in Clients, WriteFail(c)
    PROVE  LedgerInv'
<1>1. StoresKept
  BY PartlyWrittenKeeps DEF WriteFail
<1> QED
  BY <1>1, EndedMoves DEF WriteFail

LEMMA CrashKeeps ==
    ASSUME LedgerInv, NEW c \in Clients, Crash(c)
    PROVE  LedgerInv'
<1>1. StoresKept
  BY PartlyWrittenKeeps DEF Crash
<1> QED
  BY <1>1, EndedMoves DEF Crash

LEMMA ResetLocalKeeps ==
    ASSUME LedgerInv, ResetLocal
    PROVE  LedgerInv'
<1>1. TypeInv /\ LocalInv /\ TablesInv
  BY DEF LedgerInv
<1>2. file' \in FileType /\ file'.kind # "state"
  BY FreshState DEF ResetLocal, Missing, FileType
<1>3. TypeInv'
  BY <1>1, <1>2 DEF ResetLocal, TypeInv, FileType
<1>4. LocalInv'
  BY <1>1, <1>2 DEF ResetLocal, LocalInv
<1>5. TablesInv'
  BY <1>1 DEF ResetLocal, TablesInv, RunIds, LedgerIds
<1> QED
  BY <1>3, <1>4, <1>5 DEF LedgerInv

LEMMA NextLedgerInv == LedgerInv /\ [Next]_vars => LedgerInv'
<1> SUFFICES ASSUME LedgerInv, [Next]_vars
             PROVE  LedgerInv'
  OBVIOUS
<1>1. ASSUME NEW c \in Clients, Start(c)
      PROVE  LedgerInv'
  BY <1>1, StartKeeps
<1>2. ASSUME NEW c \in Clients, ReadSupabase(c)
      PROVE  LedgerInv'
  BY <1>2, ReadSupabaseKeeps
<1>3. ASSUME NEW c \in Clients, ReadLocal(c)
      PROVE  LedgerInv'
  BY <1>3, ReadLocalKeeps
<1>4. ASSUME NEW c \in Clients, PostRun(c)
      PROVE  LedgerInv'
  BY <1>4, PostRunKeeps
<1>5. ASSUME NEW c \in Clients, PostLedger(c)
      PROVE  LedgerInv'
  BY <1>5, PostLedgerKeeps
<1>6. ASSUME NEW c \in Clients, WriteOpen(c)
      PROVE  LedgerInv'
  BY <1>6, WriteOpenKeeps
<1>7. ASSUME NEW c \in Clients, WriteClose(c)
      PROVE  LedgerInv'
  BY <1>7, WriteCloseKeeps
<1>8. ASSUME NEW c \in Clients, WriteFail(c)
      PROVE  LedgerInv'
  BY <1>8, WriteFailKeeps
<1>9. ASSUME NEW c \in Clients, Crash(c)
      PROVE  LedgerInv'
  BY <1>9, CrashKeeps
<1>10. CASE ResetLocal
  BY <1>10, ResetLocalKeeps
<1>11. CASE UNCHANGED vars
  <2>1. /\ enabled' = enabled /\ file' = file /\ runsTable' = runsTable
        /\ ledgerTable' = ledgerTable /\ client' = client /\ nextRun' = nextRun
        /\ resets' = resets /\ kept' = kept
    BY <1>11 DEF vars
  <2>2. TypeInv'
    BY <2>1 DEF LedgerInv, TypeInv
  <2>3. LocalInv'
    BY <2>1 DEF LedgerInv, LocalInv
  <2>4. TablesInv'
    BY <2>1 DEF LedgerInv, TablesInv, RunIds, LedgerIds
  <2> QED
    BY <2>2, <2>3, <2>4 DEF LedgerInv
<1> QED
  BY <1>1, <1>2, <1>3, <1>4, <1>5, <1>6, <1>7, <1>8, <1>9, <1>10, <1>11 DEF Next, Quiet

-----------------------------------------------------------------------------
(* The theorems. *)

\* The invariant of the two stores and of the processes that update them.
THEOREM LedgerInvariant == Spec => []LedgerInv
<1>1. Init => LedgerInv
  BY InitLedgerInv
<1>2. LedgerInv /\ [Next]_vars => LedgerInv'
  BY NextLedgerInv
<1> QED
  BY <1>1, <1>2, PTL DEF Spec

\* The files, tables and frames keep the shape of LedgerRun and LedgerState.
THEOREM LedgerTypeOK == Spec => []TypeOK
<1>1. LedgerInv => TypeOK
  <2> SUFFICES ASSUME LedgerInv
               PROVE  TypeOK
    OBVIOUS
  <2>1. TypeInv
    BY DEF LedgerInv
  <2>2. \A i \in DOMAIN ledgerTable : ledgerTable[i] \in SnapshotType
    <3>1. ledgerTable \in Seq(SnapshotType)
      BY <2>1 DEF TypeInv, SnapshotType
    <3> QED
      BY <3>1
  <2>3. \A i \in DOMAIN ledgerTable : ledgerTable[i].streak_pass \in Nat
    BY <2>2 DEF SnapshotType
  <2> QED
    BY <2>1, <2>3 DEF TypeInv, TypeOK
<1> QED
  BY <1>1, LedgerInvariant, PTL

\* A readable local ledger is consistent with itself: its coins, streaks and
\* violation counts are those of the runs it lists, after any interleaving of
\* updates, crashes, broken-off writes and resets.
THEOREM LedgerLocalAddsUp == Spec => []LocalLedgerAddsUp
<1>1. LedgerInv => LocalLedgerAddsUp
  BY DEF LedgerInv, LocalInv, LocalLedgerAddsUp
<1> QED
  BY <1>1, LedgerInvariant, PTL

\* Every snapshot of reward_ledger belongs to a row of review_runs.
THEOREM LedgerSnapshotsBacked == Spec => []SnapshotsBacked
<1>1. LedgerInv => SnapshotsBacked
  BY DEF LedgerInv, TablesInv, RunIds, LedgerIds, SnapshotsBacked
<1> QED
  BY <1>1, LedgerInvariant, PTL

\* An update that record_run reports as stored in Supabase is in both tables.
THEOREM LedgerRemoteSuccess == Spec => []RemoteSuccessIsComplete
<1>1. LedgerInv => RemoteSuccessIsComplete
  BY DEF LedgerInv, TablesInv, RunIds, LedgerIds, RemoteSuccessIsComplete
<1> QED
  BY <1>1, LedgerInvariant, PTL
=============================================================================
