-------------------------- MODULE PersonaMergeProofs --------------------------
(***************************************************************************)
(* Proofs about PersonaMerge: MergeInv is inductive, and the properties    *)
(* that the runs check on one aspect and one feature hold for every set of *)
(* aspects, features, values and personas.                                 *)
(***************************************************************************)
EXTENDS PersonaMerge, TLAPS

-----------------------------------------------------------------------------
(* The resolver's operators. *)

\* The three kinds of paths are different: the story of a feature is neither an
\* aspect nor a title.
LEMMA PathKinds ==
    /\ AspectPaths \cup TitlePaths \cup StoryPaths = Paths
    /\ (AspectPaths \cup TitlePaths) \cap StoryPaths = {}
    /\ \A f \in Features : Title(f) \in Paths /\ Story(f) \in StoryPaths
BY DEF Paths, AspectPaths, TitlePaths, StoryPaths, Aspect, Title, Story

\* _find_conflicts does not depend on which of the two versions is called ours.
LEMMA ConflictsSymmetric ==
    ASSUME NEW b, NEW o, NEW t
    PROVE  FindConflicts(b, o, t) = FindConflicts(b, t, o)
<1>1. \A p : Differ(b, o, t, p) <=> Differ(b, t, o, p)
  BY DEF Differ
<1>2. \A f : StoryClash(b, o, t, f) <=> StoryClash(b, t, o, f)
  BY <1>1 DEF StoryClash
<1> QED
  BY <1>1, <1>2 DEF FindConflicts

\* A conflict is a path; outside of stories the three versions all have the
\* field and differ in it, and a story in conflict is missing in the base.
LEMMA ConflictFacts ==
    ASSUME NEW b, NEW o, NEW t, NEW p \in FindConflicts(b, o, t)
    PROVE  /\ p \in Paths
           /\ p \notin StoryPaths => Differ(b, o, t, p)
           /\ p \in StoryPaths => b[p] = None
<1>1. CASE p \in AspectPaths \cup TitlePaths /\ Differ(b, o, t, p)
  BY <1>1, PathKinds
<1>2. CASE \E f \in Features : p = Story(f) /\ StoryClash(b, o, t, f)
  BY <1>2, PathKinds DEF StoryClash
<1> QED
  BY <1>1, <1>2 DEF FindConflicts

\* The ownership rule is one of three, and exchanging two different personas
\* exchanges ours and theirs.
LEMMA StrategyFacts ==
    ASSUME NEW oo \in BOOLEAN, NEW ot \in BOOLEAN, NEW same \in BOOLEAN
    PROVE  /\ Strategy(oo, ot, same) \in {"ours", "theirs", "manual"}
           /\ oo /\ ~ot => Strategy(oo, ot, same) = "ours"
           /\ ot /\ ~oo => Strategy(oo, ot, same) = "theirs"
           /\ ~same => /\ Strategy(oo, ot, same) = "ours" <=> Strategy(ot, oo, same) = "theirs"
                       /\ Strategy(oo, ot, same) = "theirs" <=> Strategy(ot, oo, same) = "ours"
                       /\ Strategy(oo, ot, same) = "manual" <=> Strategy(ot, oo, same) = "manual"
BY DEF Strategy

LEMMA DecideFacts ==
    ASSUME NEW ow, NEW po, NEW pt, NEW p
    PROVE  /\ Decide(ow, po, pt, p) \in {"ours", "theirs", "manual"}
           /\ p \in ow[po] /\ p \notin ow[pt] => Decide(ow, po, pt, p) = "ours"
           /\ p \in ow[pt] /\ p \notin ow[po] => Decide(ow, po, pt, p) = "theirs"
           /\ po # pt =>
                  /\ Decide(ow, po, pt, p) = "ours" <=> Decide(ow, pt, po, p) = "theirs"
                  /\ Decide(ow, po, pt, p) = "theirs" <=> Decide(ow, pt, po, p) = "ours"
                  /\ Decide(ow, po, pt, p) = "manual" <=> Decide(ow, pt, po, p) = "manual"
<1> DEFINE oo == p \in ow[po]
           ot == p \in ow[pt]
           same == po = pt
           emas == pt = po
<1>1. /\ Decide(ow, po, pt, p) = Strategy(oo, ot, same)
      /\ Decide(ow, pt, po, p) = Strategy(ot, oo, emas)
  BY DEF Decide, SectionOf
<1>2. oo \in BOOLEAN /\ ot \in BOOLEAN /\ same \in BOOLEAN /\ emas \in BOOLEAN
  OBVIOUS
<1>3. same = emas
  OBVIOUS
<1> HIDE DEF oo, ot, same, emas
<1>4. /\ Strategy(oo, ot, same) \in {"ours", "theirs", "manual"}
      /\ oo /\ ~ot => Strategy(oo, ot, same) = "ours"
      /\ ot /\ ~oo => Strategy(oo, ot, same) = "theirs"
      /\ ~same => /\ Strategy(oo, ot, same) = "ours" <=> Strategy(ot, oo, same) = "theirs"
                  /\ Strategy(oo, ot, same) = "theirs" <=> Strategy(ot, oo, same) = "ours"
                  /\ Strategy(oo, ot, same) = "manual" <=> Strategy(ot, oo, same) = "manual"
  BY <1>2, StrategyFacts
<1>5. /\ Decide(ow, pt, po, p) = Strategy(ot, oo, same)
  BY <1>1, <1>3
<1> QED
  BY <1>1, <1>4, <1>5 DEF oo, ot, same

\* The value that the resolver gives a path.
LEMMA ResolveAt ==
    ASSUME NEW b, NEW o, NEW t, NEW ow, NEW po, NEW pt, NEW p \in Paths
    PROVE  LET v == Resolve(b, o, t, ow, po, pt)[p]
               d == Decide(ow, po, pt, p)
               hit == p \in FindConflicts(b, o, t) /\ p \notin StoryPaths
           IN  /\ hit /\ d = "ours" => v = o[p]
               /\ hit /\ d = "theirs" => v = t[p]
               /\ hit /\ d = "manual" => v = b[p]
               /\ ~hit => v = b[p]
<1>1. Resolve(b, o, t, ow, po, pt)[p] =
          IF p \in FindConflicts(b, o, t) /\ Applicable(b, p)
          THEN CASE Decide(ow, po, pt, p) = "ours" -> o[p]
                 [] Decide(ow, po, pt, p) = "theirs" -> t[p]
                 [] OTHER -> b[p]
          ELSE b[p]
  BY DEF Resolve
<1>2. p \in FindConflicts(b, o, t) => (Applicable(b, p) <=> p \notin StoryPaths)
  BY ConflictFacts DEF Applicable, Differ
<1>3. Decide(ow, po, pt, p) \in {"ours", "theirs", "manual"}
  BY DecideFacts
<1> QED
  BY <1>1, <1>2, <1>3

\* With two personas, exchanging the sides of the merge changes nothing.
LEMMA ResolveSymmetric ==
    ASSUME NEW b, NEW o, NEW t, NEW ow, NEW po, NEW pt, po # pt
    PROVE  Resolve(b, o, t, ow, po, pt) = Resolve(b, t, o, ow, pt, po)
<1>1. ASSUME NEW p \in Paths
      PROVE  Resolve(b, o, t, ow, po, pt)[p] = Resolve(b, t, o, ow, pt, po)[p]
  <2>1. FindConflicts(b, o, t) = FindConflicts(b, t, o)
    BY ConflictsSymmetric
  <2>2. /\ Decide(ow, po, pt, p) = "ours" <=> Decide(ow, pt, po, p) = "theirs"
        /\ Decide(ow, po, pt, p) = "theirs" <=> Decide(ow, pt, po, p) = "ours"
        /\ Decide(ow, po, pt, p) = "manual" <=> Decide(ow, pt, po, p) = "manual"
        /\ Decide(ow, po, pt, p) \in {"ours", "theirs", "manual"}
    BY DecideFacts
  <2>3. CASE p \in FindConflicts(b, o, t) /\ p \notin StoryPaths
    BY <2>1, <2>2, <2>3, ResolveAt
  <2>4. CASE ~(p \in FindConflicts(b, o, t) /\ p \notin StoryPaths)
    BY <2>1, <2>4, ResolveAt
  <2> QED
    BY <2>3, <2>4
<1>2. /\ Resolve(b, o, t, ow, po, pt) =
             [p \in Paths |-> Resolve(b, o, t, ow, po, pt)[p]]
      /\ Resolve(b, t, o, ow, pt, po) =
             [p \in Paths |-> Resolve(b, t, o, ow, pt, po)[p]]
  BY DEF Resolve
<1> QED
  BY <1>1, <1>2
-----------------------------------------------------------------------------
(* MergeInv is an invariant. *)

\* The value of an answer.
LEMMA ChoiceValues ==
    ASSUME NEW p
    PROVE  /\ ChoiceValue(p, "ours") = ours[p]
           /\ ChoiceValue(p, "theirs") = theirs[p]
           /\ ChoiceValue(p, "base") = base[p]
           /\ ChoiceValue(p, "typed") = Typed
BY DEF ChoiceValue

LEMMA InitMergeInv == Init => MergeInv
<1> SUFFICES ASSUME Init
             PROVE  MergeInv
  OBVIOUS
<1>1. InputsInv
  BY DEF Init, InputsInv
<1>2. pc = "start" /\ branch = "current" /\ merged = base /\ settled = [p \in {} |-> "manual"]
  BY DEF Init, Started
<1>3. DOMAIN settled = {}
  BY <1>2
<1>4. SettledInv
  BY <1>2, <1>3 DEF SettledInv
<1>5. merged \in [Paths -> Values \cup {None, Typed}]
  BY <1>1, <1>2 DEF InputsInv, Bundle
<1>6. MergedInv
  BY <1>2, <1>3, <1>5 DEF MergedInv, MergedAt
<1> QED
  BY <1>1, <1>2, <1>4, <1>6 DEF MergeInv

\* The resolver settles the conflicts by the personas' rule, and the merged
\* bundle follows it.
LEMMA ResolveAllKeeps == MergeInv /\ ResolveAll => MergeInv'
<1> SUFFICES ASSUME MergeInv, ResolveAll
             PROVE  MergeInv'
  OBVIOUS
<1> DEFINE C == FindConflicts(base, ours, theirs)
           R == Resolve(base, ours, theirs, owns, who.ours, who.theirs)
           D(p) == Decide(owns, who.ours, who.theirs, p)
<1>1. /\ base' = base /\ ours' = ours /\ theirs' = theirs /\ owns' = owns
      /\ who' = who /\ interactive' = interactive /\ branch' = branch
      /\ pc' = "resolved" /\ merged' = R /\ settled' = [p \in C |-> D(p)]
  BY DEF ResolveAll, inputs, Resolutions
<1>2. InputsInv'
  BY <1>1 DEF MergeInv, InputsInv
<1>3. C' = C /\ R' = R /\ (\A p : D(p)' = D(p))
  BY <1>1
<1>4. DOMAIN settled' = C /\ \A p \in C : settled'[p] = D(p)
  BY <1>1
<1>5. \A p : D(p) \in {"ours", "theirs", "manual"}
  BY DecideFacts
<1>6. SettledInv'
  <2>1. \A p \in C : DecidedOrAnswered(p)'
    BY <1>1, <1>3, <1>4 DEF DecidedOrAnswered
  <2> QED
    BY <1>1, <1>3, <1>4, <2>1 DEF SettledInv
<1>7. \A p \in Paths : MergedAt(p)'
  <2> SUFFICES ASSUME NEW p \in Paths
               PROVE  MergedAt(p)'
    OBVIOUS
  <2>1. CASE p \in C /\ p \notin StoryPaths
    <3>1. /\ D(p) = "ours" => merged'[p] = ours[p]
          /\ D(p) = "theirs" => merged'[p] = theirs[p]
          /\ D(p) = "manual" => merged'[p] = base[p]
      BY <1>1, <2>1, ResolveAt
    <3>2. /\ ChoiceValue(p, "ours")' = ours[p]
          /\ ChoiceValue(p, "theirs")' = theirs[p]
      BY <1>1 DEF ChoiceValue
    <3>3. settled'[p] = D(p)
      BY <1>4, <2>1
    <3>4. CASE D(p) = "ours"
      BY <1>1, <1>4, <2>1, <3>1, <3>2, <3>3, <3>4 DEF MergedAt, Accepts
    <3>5. CASE D(p) = "theirs"
      BY <1>1, <1>4, <2>1, <3>1, <3>2, <3>3, <3>5 DEF MergedAt, Accepts
    <3>6. CASE D(p) = "manual"
      BY <1>1, <1>4, <2>1, <3>1, <3>3, <3>6 DEF MergedAt
    <3> QED
      BY <1>5, <3>4, <3>5, <3>6
  <2>2. CASE ~(p \in C /\ p \notin StoryPaths)
    <3>1. merged'[p] = base[p]
      BY <1>1, <2>2, ResolveAt
    <3> QED
      BY <1>1, <1>4, <2>2, <3>1 DEF MergedAt
  <2> QED
    BY <2>1, <2>2
<1>8. merged' \in [Paths -> Values \cup {None, Typed}]
  <2>1. base \in [Paths -> Values \cup {None}] /\ ours \in [Paths -> Values \cup {None}]
        /\ theirs \in [Paths -> Values \cup {None}]
    BY DEF MergeInv, InputsInv, Bundle
  <2>2. \A p \in Paths : R[p] \in {base[p], ours[p], theirs[p]}
    BY <1>5, ResolveAt
  <2>3. R = [p \in Paths |-> R[p]]
    BY DEF Resolve
  <2> HIDE DEF R
  <2> QED
    BY <1>1, <2>1, <2>2, <2>3
<1> QED
  BY <1>1, <1>2, <1>3, <1>6, <1>7, <1>8 DEF MergeInv, MergedInv, Resolutions
\* An answer settles its path and disturbs no other.
LEMMA SettleKeeps ==
    ASSUME NEW p \in Paths, NEW choice \in Choices
    PROVE  MergeInv /\ Settle(p, choice) => MergeInv'
<1> SUFFICES ASSUME MergeInv, Settle(p, choice)
             PROVE  MergeInv'
  OBVIOUS
<1> DEFINE C == FindConflicts(base, ours, theirs)
           hit == Applicable(merged, p) /\ Accepts(p, choice)
<1>1. /\ base' = base /\ ours' = ours /\ theirs' = theirs /\ owns' = owns
      /\ who' = who /\ interactive' = interactive /\ branch' = branch
      /\ pc = "asking" /\ pc' = "asking" /\ p \in Open
      /\ settled' = [settled EXCEPT ![p] = choice]
      /\ merged' = IF hit THEN [merged EXCEPT ![p] = ChoiceValue(p, choice)] ELSE merged
  BY DEF Settle, inputs
<1>2. /\ InputsInv /\ SettledInv /\ MergedInv
      /\ branch \in {"current", "base", "ours", "theirs"}
  BY DEF MergeInv
<1>3. InputsInv'
  BY <1>1, <1>2 DEF InputsInv
<1>4. /\ DOMAIN settled = C /\ settled = [q \in C |-> settled[q]]
      /\ \A q \in C : DecidedOrAnswered(q)
  BY <1>1, <1>2 DEF SettledInv
<1>5. /\ p \in C /\ settled[p] = "manual"
      /\ DOMAIN settled' = C /\ settled' = [q \in C |-> settled'[q]]
      /\ settled'[p] = choice /\ \A q \in C : q # p => settled'[q] = settled[q]
  BY <1>1, <1>4 DEF Open
<1>6. SettledInv'
  <2>1. Decide(owns, who.ours, who.theirs, p) = "manual"
    BY <1>4, <1>5 DEF DecidedOrAnswered, Choices
  <2>2. DecidedOrAnswered(p)'
    BY <1>1, <1>5, <2>1 DEF DecidedOrAnswered
  <2>3. ASSUME NEW q \in C, q # p
        PROVE  DecidedOrAnswered(q)'
    <3>1. DecidedOrAnswered(q) /\ settled'[q] = settled[q]
      BY <1>4, <1>5, <2>3
    <3> QED
      BY <1>1, <3>1 DEF DecidedOrAnswered
  <2>4. C' = C
    BY <1>1
  <2> QED
    BY <1>1, <1>5, <2>2, <2>3, <2>4 DEF SettledInv
<1>7. /\ merged \in [Paths -> Values \cup {None, Typed}]
      /\ \A q \in Paths : MergedAt(q)
  BY <1>2 DEF MergedInv
<1>8. merged[p] = base[p]
  BY <1>4, <1>5, <1>7 DEF MergedAt
<1>9. /\ ChoiceValue(p, "ours") = ours[p] /\ ChoiceValue(p, "theirs") = theirs[p]
      /\ ChoiceValue(p, "base") = base[p] /\ ChoiceValue(p, "typed") = Typed
  BY ChoiceValues
<1>10. merged' \in [Paths -> Values \cup {None, Typed}]
  <2>1. base \in [Paths -> Values \cup {None}] /\ ours \in [Paths -> Values \cup {None}]
        /\ theirs \in [Paths -> Values \cup {None}]
    BY <1>2 DEF InputsInv, Bundle
  <2>2. ChoiceValue(p, choice) \in Values \cup {None, Typed}
    BY <1>9, <2>1 DEF Choices
  <2> QED
    BY <1>1, <1>7, <2>2
<1>11. ASSUME NEW q \in Paths, q # p
       PROVE  MergedAt(q)'
  <2>1. merged'[q] = merged[q]
    BY <1>1, <1>7, <1>11
  <2>2. MergedAt(q) /\ (q \in C => settled'[q] = settled[q])
    BY <1>5, <1>7, <1>11
  <2>3. CASE q \notin C
    BY <1>1, <1>4, <1>5, <2>1, <2>2, <2>3 DEF MergedAt
  <2>4. CASE q \in C
    <3>1. ChoiceValue(q, settled[q])' = ChoiceValue(q, settled[q])
      BY <1>1, <1>5, <1>11, <2>4 DEF ChoiceValue
    <3> QED
      BY <1>1, <1>4, <1>5, <2>1, <2>2, <2>4, <3>1 DEF MergedAt
  <2> QED
    BY <2>3, <2>4
<1>12. MergedAt(p)'
  <2>1. CASE p \in StoryPaths
    <3>1. merged'[p] = base[p]
      BY <1>1, <1>5, <1>8, <2>1, ConflictFacts DEF Applicable
    <3> QED
      BY <1>1, <2>1, <3>1 DEF MergedAt
  <2>2. CASE p \notin StoryPaths
    <3>1. Applicable(merged, p)
      BY <1>5, <1>8, <2>2, ConflictFacts DEF Applicable, Differ
    <3>2. Accepts(p, choice) => merged'[p] = ChoiceValue(p, choice)
      BY <1>1, <1>7, <3>1
    <3>3. ~Accepts(p, choice) => merged'[p] = base[p]
      BY <1>1, <1>8
    <3>4. ChoiceValue(p, choice)' = ChoiceValue(p, choice)
      BY <1>1 DEF ChoiceValue
    <3>5. choice # "manual"
      BY DEF Choices
    <3> QED
      BY <1>1, <1>5, <2>2, <3>2, <3>3, <3>4, <3>5 DEF MergedAt, Accepts
  <2> QED
    BY <2>1, <2>2
<1> QED
  BY <1>1, <1>2, <1>3, <1>6, <1>10, <1>11, <1>12 DEF MergeInv, MergedInv

\* The other steps leave the bundle and the list of conflicts as they are.
LEMMA FrameKeeps ==
    ASSUME MergeInv, UNCHANGED <<inputs, merged, settled>>
    PROVE  /\ InputsInv' /\ MergedInv'
           /\ FindConflicts(base, ours, theirs)' = FindConflicts(base, ours, theirs)
           /\ Resolve(base, ours, theirs, owns, who.ours, who.theirs)' =
                  Resolve(base, ours, theirs, owns, who.ours, who.theirs)
           /\ Resolutions(base, ours, theirs, owns, who.ours, who.theirs)' =
                  Resolutions(base, ours, theirs, owns, who.ours, who.theirs)
           /\ Open' = Open
           /\ \A p \in DOMAIN settled' : DecidedOrAnswered(p)'
<1>1. /\ base' = base /\ ours' = ours /\ theirs' = theirs /\ owns' = owns
      /\ who' = who /\ interactive' = interactive
      /\ merged' = merged /\ settled' = settled
  BY DEF inputs
<1>2. InputsInv'
  BY <1>1 DEF MergeInv, InputsInv
<1>3. MergedInv'
  <2>1. ASSUME NEW p \in Paths
        PROVE  MergedAt(p)'
    <3>1. MergedAt(p)
      BY DEF MergeInv, MergedInv
    <3>2. ChoiceValue(p, settled[p])' = ChoiceValue(p, settled[p])
      BY <1>1 DEF ChoiceValue
    <3> QED
      BY <1>1, <3>1, <3>2 DEF MergedAt
  <2> QED
    BY <1>1, <2>1 DEF MergeInv, MergedInv
<1>4. \A p \in DOMAIN settled' : DecidedOrAnswered(p)'
  BY <1>1 DEF MergeInv, SettledInv, DecidedOrAnswered
<1> QED
  BY <1>1, <1>2, <1>3, <1>4 DEF Open

LEMMA NextMergeInv == MergeInv /\ [Next]_vars => MergeInv'
<1> SUFFICES ASSUME MergeInv, [Next]_vars
             PROVE  MergeInv'
  OBVIOUS
<1>1. CASE Load
  <2>1. /\ pc = "start" /\ pc' = "loaded" /\ UNCHANGED <<inputs, merged, settled>>
        /\ branch' \in {"current", "theirs"}
    BY <1>1 DEF Load, Restored
  <2> QED
    BY <2>1, FrameKeeps DEF MergeInv, SettledInv
<1>2. CASE LoadFails
  <2>1. /\ pc = "start" /\ pc' = "failed" /\ UNCHANGED <<inputs, merged, settled>>
        /\ branch' \in {"current", "base", "ours", "theirs"}
    BY <1>2 DEF LoadFails, Restored
  <2> QED
    BY <2>1, FrameKeeps DEF MergeInv, SettledInv, Ended
<1>3. CASE ResolveAll
  BY <1>3, ResolveAllKeeps
<1>4. CASE Cancel
  <2>1. /\ pc = "resolved" /\ pc' = "cancelled" /\ UNCHANGED <<inputs, merged, settled>>
        /\ branch' = branch
    BY <1>4 DEF Cancel
  <2> QED
    BY <2>1, FrameKeeps DEF MergeInv, SettledInv, Ended
<1>5. CASE Ask
  <2>1. /\ pc = "resolved" /\ pc' = "asking" /\ UNCHANGED <<inputs, merged, settled>>
        /\ branch' = branch
    BY <1>5 DEF Ask
  <2> QED
    BY <2>1, FrameKeeps DEF MergeInv, SettledInv
<1>6. CASE \E p \in Paths, choice \in Choices : Settle(p, choice)
  BY <1>6, SettleKeeps
<1>7. CASE Save
  <2>1. /\ pc \in {"resolved", "asking"} /\ (Open = {} \/ ~interactive)
        /\ pc' = "saved" /\ UNCHANGED <<inputs, merged, settled>> /\ branch' = branch
    BY <1>7 DEF Save, MaySave
  <2>2. interactive' = interactive
    BY <2>1 DEF inputs
  <2> QED
    BY <2>1, <2>2, FrameKeeps DEF MergeInv, SettledInv, Ended
<1>8. CASE SaveFails
  <2>1. /\ pc' = "failed" /\ UNCHANGED <<inputs, merged, settled>> /\ branch' = branch
    BY <1>8 DEF SaveFails
  <2> QED
    BY <2>1, FrameKeeps DEF MergeInv, SettledInv, Ended
<1>9. CASE UNCHANGED vars
  <2>1. /\ UNCHANGED <<inputs, merged, settled>> /\ pc' = pc /\ branch' = branch
        /\ interactive' = interactive
    BY <1>9 DEF vars, inputs
  <2> QED
    BY <2>1, FrameKeeps DEF MergeInv, SettledInv
<1> QED
  BY <1>1, <1>2, <1>3, <1>4, <1>5, <1>6, <1>7, <1>8, <1>9 DEF Next, Done, Choices

\* The invariant of the merge command: what is settled is what the resolver
\* found, by the personas' rule or by the user where that rule has no answer,
\* and the merged bundle is the base with exactly the settled values applied.
THEOREM MergeInvariant == Spec => []MergeInv
<1>1. Init => MergeInv
  BY InitMergeInv
<1>2. MergeInv /\ [Next]_vars => MergeInv'
  BY NextMergeInv
<1> QED
  BY <1>1, <1>2, PTL DEF Spec
-----------------------------------------------------------------------------
(* The properties. *)

\* merge_bundles keeps the shape of bundles: a path is settled only if the
\* resolver found it, and no aspect, feature or story appears or vanishes.
THEOREM MergeTypeOK == Spec => []TypeOK
<1>1. MergeInv => TypeOK
  <2> SUFFICES ASSUME MergeInv
               PROVE  TypeOK
    OBVIOUS
  <2>1. InputsInv /\ SettledInv /\ MergedInv
    BY DEF MergeInv
  <2>2. DOMAIN settled \subseteq FindConflicts(base, ours, theirs)
    BY <2>1 DEF SettledInv
  <2>3. ASSUME NEW p \in Paths
        PROVE  merged[p] = None <=> base[p] = None
    <3>1. MergedAt(p)
      BY <2>1 DEF MergedInv
    <3>2. CASE p \notin DOMAIN settled \/ p \in StoryPaths \/ settled[p] = "manual"
      BY <3>1, <3>2 DEF MergedAt
    <3>3. CASE p \in DOMAIN settled /\ p \notin StoryPaths /\ settled[p] # "manual"
      <4>1. base[p] # None /\ ours[p] # None /\ theirs[p] # None
        BY <2>2, <3>3, ConflictFacts DEF Differ
      <4>2. settled[p] \in Choices
        BY <2>1, <3>3, DecideFacts DEF SettledInv, DecidedOrAnswered, Choices
      <4>3. merged[p] \in {base[p], ours[p], theirs[p], Typed}
        BY <3>1, <3>3, <4>2, ChoiceValues DEF MergedAt, Choices
      <4> QED
        BY <4>1, <4>3, PersonaMergeAssumption
    <3> QED
      BY <3>2, <3>3
  <2> QED
    BY <2>1, <2>2, <2>3 DEF TypeOK, MergeInv, MergedInv
<1> QED
  BY <1>1, MergeInvariant, PTL

\* Where one of the two personas alone owns the section of a conflict, the
\* saved bundle has that persona's version, whatever the user answered about
\* the other conflicts.
THEOREM MergeSoleOwnerWins == Spec => []SoleOwnerWins
<1>1. MergeInv => SoleOwnerWins
  <2> SUFFICES ASSUME MergeInv, pc = "saved",
                      NEW p \in FindConflicts(base, ours, theirs) \ StoryPaths
               PROVE  /\ p \in owns[who.ours] /\ p \notin owns[who.theirs] => merged[p] = ours[p]
                      /\ p \in owns[who.theirs] /\ p \notin owns[who.ours] => merged[p] = theirs[p]
    BY DEF SoleOwnerWins
  <2> DEFINE d == Decide(owns, who.ours, who.theirs, p)
  <2>1. p \in DOMAIN settled /\ DecidedOrAnswered(p)
    BY DEF MergeInv, SettledInv
  <2>2. /\ p \in owns[who.ours] /\ p \notin owns[who.theirs] => d = "ours"
        /\ p \in owns[who.theirs] /\ p \notin owns[who.ours] => d = "theirs"
    BY DecideFacts
  <2>3. d \in {"ours", "theirs"} => settled[p] = d
    BY <2>1 DEF DecidedOrAnswered
  <2>4. MergedAt(p)
    BY ConflictFacts DEF MergeInv, MergedInv
  <2> HIDE DEF d
  <2> QED
    BY <2>1, <2>2, <2>3, <2>4, ChoiceValues DEF MergedAt, Accepts
<1> QED
  BY <1>1, MergeInvariant, PTL

\* With two different personas the resolver computes the same bundle, and
\* leaves the same conflicts to the user, when ours and theirs are exchanged.
THEOREM MergeSidesInterchangeable == Spec => []SidesInterchangeable
<1>1. MergeInv => SidesInterchangeable
  <2> SUFFICES ASSUME MergeInv, pc = "resolved", who.ours # who.theirs
               PROVE  /\ merged = Resolve(base, theirs, ours, owns, who.theirs, who.ours)
                      /\ Open = {p \in FindConflicts(base, theirs, ours) :
                                    Decide(owns, who.theirs, who.ours, p) = "manual"}
    BY DEF SidesInterchangeable
  <2>1. /\ merged = Resolve(base, ours, theirs, owns, who.ours, who.theirs)
        /\ settled = Resolutions(base, ours, theirs, owns, who.ours, who.theirs)
    BY DEF MergeInv
  <2>2. merged = Resolve(base, theirs, ours, owns, who.theirs, who.ours)
    BY <2>1, ResolveSymmetric
  <2>3. FindConflicts(base, ours, theirs) = FindConflicts(base, theirs, ours)
    BY ConflictsSymmetric
  <2>4. Open = {p \in FindConflicts(base, ours, theirs) :
                   Decide(owns, who.ours, who.theirs, p) = "manual"}
    BY <2>1 DEF Open, Resolutions
  <2>5. \A p : Decide(owns, who.ours, who.theirs, p) = "manual"
               <=> Decide(owns, who.theirs, who.ours, p) = "manual"
    BY DecideFacts
  <2> QED
    BY <2>2, <2>3, <2>4, <2>5
<1> QED
  BY <1>1, MergeInvariant, PTL

\* An interactive merge is saved with no conflict open, and every field of an
\* aspect or a feature has the value of the side that was chosen for it, or the
\* text that was typed - for the themes of the product the text is not taken.
THEOREM MergeAnswersSaved == Spec => []AnswersSaved
<1>1. MergeInv => AnswersSaved
  <2> SUFFICES ASSUME MergeInv, pc = "saved", interactive, NEW p \in DOMAIN settled
               PROVE  /\ settled[p] # "manual"
                      /\ p \notin StoryPaths /\ ~(p = Aspect("product") /\ settled[p] = "typed") =>
                             merged[p] = ChoiceValue(p, settled[p])
    BY DEF AnswersSaved
  <2>1. settled[p] # "manual"
    BY DEF MergeInv, Open
  <2>2. p \in Paths
    BY ConflictFacts DEF MergeInv, SettledInv
  <2>3. MergedAt(p)
    BY <2>2 DEF MergeInv, MergedInv
  <2> QED
    BY <2>1, <2>3 DEF MergedAt, Accepts
<1> QED
  BY <1>1, MergeInvariant, PTL
=============================================================================
