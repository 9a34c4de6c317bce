---------------------------- MODULE PersonaMerge ----------------------------
(***************************************************************************)
(* `specfact project merge` (project/commands.py: merge_bundles) and its   *)
(* PersonaMergeResolver (merge/resolver.py): the three versions of a       *)
(* project bundle are loaded by checking out three branches in turn, the   *)
(* conflicting fields are settled by the personas that own their sections, *)
(* the user settles the rest, and the result is saved.                     *)
(*                                                                         *)
(* A bundle is a function from field paths to values.  The paths are those *)
(* that the resolver compares: the field of an aspect (idea.title,         *)
(* business.value_proposition, product.themes), the title of a feature and *)
(* the description of a story of a feature.                                *)
(***************************************************************************)
EXTENDS FiniteSets

CONSTANTS
    Aspects,     \* among idea, business and product
    Features,    \* feature keys
    Values,      \* values of a field in some version of the bundle
    Typed,       \* a value that the user types
    None,        \* the aspect, feature or story is absent
    Personas     \* personas of the base manifest

ASSUME PersonaMergeAssumption ==
    /\ Aspects \subseteq {"idea", "business", "product"}
    /\ None \notin Values \cup {Typed}
    /\ Typed \notin Values

Aspect(a) == <<"aspect", a>>
Title(f) == <<"title", f>>
Story(f) == <<"story", f>>
AspectPaths == {Aspect(a) : a \in Aspects}
TitlePaths == {Title(f) : f \in Features}
StoryPaths == {Story(f) : f \in Features}
Paths == AspectPaths \cup TitlePaths \cup StoryPaths

\* A bundle of a branch: it has a product, and a story belongs to a feature.
Bundle == {b \in [Paths -> Values \cup {None}] :
               /\ \A p \in AspectPaths : p = Aspect("product") => b[p] # None
               /\ \A f \in Features : b[Title(f)] = None => b[Story(f)] = None}

VARIABLES
    base, ours, theirs,   \* the versions on the three branches
    owns,                 \* the sections each persona owns in the base manifest
    who,                  \* [ours, theirs]: the personas on the command line
    interactive,          \* no --no-interactive
    pc,                   \* progress of the command, or how it ended
    branch,               \* the branch that is checked out
    merged,               \* resolution.merged_bundle
    settled               \* resolution.conflicts: path -> resolution

vars == <<base, ours, theirs, owns, who, interactive, pc, branch, merged, settled>>
inputs == <<base, ours, theirs, owns, who, interactive>>

-----------------------------------------------------------------------------
(* PersonaMergeResolver.                                                   *)

\* _get_section_path: an aspect, a feature, or the stories of a feature; the
\* path of its representative field stands for the section.
SectionOf(p) == p

Differ(b, o, t, p) ==
    /\ None \notin {b[p], o[p], t[p]}
    /\ b[p] # o[p] /\ b[p] # t[p] /\ o[p] # t[p]

\* A story that both versions added, with different descriptions; only looked
\* for below a feature whose title is in conflict.
StoryClash(b, o, t, f) ==
    /\ Differ(b, o, t, Title(f))
    /\ b[Story(f)] = None
    /\ None \notin {o[Story(f)], t[Story(f)]}
    /\ o[Story(f)] # t[Story(f)]

\* _find_conflicts
FindConflicts(b, o, t) ==
    {p \in AspectPaths \cup TitlePaths : Differ(b, o, t, p)}
    \cup {Story(f) : f \in {g \in Features : StoryClash(b, o, t, g)}}

\* The ownership rules of resolve.
StrategyOursOnly(oo, ot, same) == IF oo /\ (~ot \/ same) THEN "ours" ELSE "manual"
StrategyTheirsFirst(oo, ot, same) ==
    IF ot THEN "theirs" ELSE IF oo THEN "ours" ELSE "manual"
Strategy(oo, ot, same) ==
    IF oo /\ (~ot \/ same) THEN "ours"
    ELSE IF ot /\ ~oo THEN "theirs"
    ELSE "manual"

\* _get_owner, for the two personas of the command line.
Decide(ow, po, pt, p) ==
    Strategy(SectionOf(p) \in ow[po], SectionOf(p) \in ow[pt], po = pt)

\* _apply_resolution sets only what exists in the bundle.
ApplicableAlways(bundle, p) == TRUE
Applicable(bundle, p) == bundle[p] # None

\* Rule 1 is never taken: _sections_disjoint returns False.  The merged bundle
\* is the base with the settled conflicts applied.
Resolve(b, o, t, ow, po, pt) ==
    LET C == FindConflicts(b, o, t)
    IN  [p \in Paths |->
            IF p \in C /\ Applicable(b, p)
            THEN CASE Decide(ow, po, pt, p) = "ours" -> o[p]
                   [] Decide(ow, po, pt, p) = "theirs" -> t[p]
                   [] OTHER -> b[p]
            ELSE b[p]]

Resolutions(b, o, t, ow, po, pt) ==
    [p \in FindConflicts(b, o, t) |-> Decide(ow, po, pt, p)]

-----------------------------------------------------------------------------
(* merge_bundles. *)

Open == {p \in DOMAIN settled : settled[p] = "manual"}

\* git checkout and load of the three versions; each may fail.  Whatever
\* happened, the original branch is checked out again, unless that fails too:
\* the failure is suppressed.
Restored(from) == {"current", from}

Load ==
    /\ pc = "start"
    /\ branch' \in Restored("theirs")
    /\ pc' = "loaded"
    /\ UNCHANGED <<inputs, merged, settled>>

LoadFails ==
    /\ pc = "start"
    /\ \E at \in {"current", "base", "ours", "theirs"} : branch' \in Restored(at)
    /\ pc' = "failed"
    /\ UNCHANGED <<inputs, merged, settled>>

ResolveAll ==
    /\ pc = "loaded"
    /\ merged' = Resolve(base, ours, theirs, owns, who.ours, who.theirs)
    /\ settled' = Resolutions(base, ours, theirs, owns, who.ours, who.theirs)
    /\ pc' = "resolved"
    /\ UNCHANGED <<inputs, branch>>

\* Unresolved conflicts: the user may cancel ...
Cancel ==
    /\ pc = "resolved"
    /\ Open # {}
    /\ interactive
    /\ pc' = "cancelled"
    /\ UNCHANGED <<inputs, branch, merged, settled>>

\* ... or is asked for each of them.
Ask ==
    /\ pc = "resolved"
    /\ Open # {}
    /\ interactive
    /\ pc' = "asking"
    /\ UNCHANGED <<inputs, branch, merged, settled>>

\* The list of themes is not replaced by the text a user types.
AcceptsSidesOnly(p, choice) == choice # "typed"
Accepts(p, choice) == choice # "typed" \/ p # Aspect("product")

ChoiceValue(p, choice) ==
    CASE choice = "ours" -> ours[p]
      [] choice = "theirs" -> theirs[p]
      [] choice = "base" -> base[p]
      [] OTHER -> Typed

\* One prompt and _apply_resolution.
Settle(p, choice) ==
    /\ pc = "asking"
    /\ p \in Open
    /\ settled' = [settled EXCEPT ![p] = choice]
    /\ merged' = IF Applicable(merged, p) /\ Accepts(p, choice)
                 THEN [merged EXCEPT ![p] = ChoiceValue(p, choice)] ELSE merged
    /\ UNCHANGED <<inputs, pc, branch>>

\* The merged bundle is saved into the bundle directory of whatever branch is
\* checked out; without prompts nothing stops it.
MaySave ==
    \/ pc = "resolved" /\ (Open = {} \/ ~interactive)
    \/ pc = "asking" /\ Open = {}

Save ==
    /\ MaySave
    /\ pc' = "saved"
    /\ UNCHANGED <<inputs, branch, merged, settled>>

\* The save raises: the bundle is written atomically or not at all.
SaveFails ==
    /\ MaySave
    /\ pc' = "failed"
    /\ UNCHANGED <<inputs, branch, merged, settled>>

Ended == {"saved", "cancelled", "failed"}

Done ==
    /\ pc \in Ended
    /\ UNCHANGED vars

Started ==
    /\ pc = "start"
    /\ branch = "current"
    /\ merged = base
    /\ settled = [p \in {} |-> "manual"]

Init ==
    /\ base \in Bundle /\ ours \in Bundle /\ theirs \in Bundle
    /\ owns \in [Personas -> SUBSET Paths]
    /\ who \in [ours : Personas, theirs : Personas]
    /\ interactive \in BOOLEAN
    /\ Started

Next ==
    \/ Load \/ LoadFails \/ ResolveAll \/ Cancel \/ Ask
    \/ \E p \in Paths, choice \in {"ours", "theirs", "base", "typed"} : Settle(p, choice)
    \/ Save \/ SaveFails \/ Done

Spec == Init /\ [][Next]_vars

-----------------------------------------------------------------------------
(* Properties. *)

\* The command keeps the shape of bundles and of its conflict list: a path is
\* settled only if the resolver found it, and merging makes no aspect, feature
\* or story appear or vanish.
TypeOK ==
    /\ pc \in {"start", "loaded", "resolved", "asking"} \cup Ended
    /\ branch \in {"current", "base", "ours", "theirs"}
    /\ merged \in [Paths -> Values \cup {None, Typed}]
    /\ \A p \in Paths : merged[p] = None <=> base[p] = None
    /\ DOMAIN settled \subseteq FindConflicts(base, ours, theirs)

\* docs/guides/agile-scrum-workflows.md: "If only one persona owns the section
\* -> that persona's version wins".  Holds in what is saved for every field
\* that the base has, whatever the user answers about other conflicts.
SoleOwnerWins ==
    pc = "saved" =>
        \A p \in FindConflicts(base, ours, theirs) \ StoryPaths :
            LET oo == p \in owns[who.ours]
                ot == p \in owns[who.theirs]
            IN  /\ oo /\ ~ot => merged[p] = ours[p]
                /\ ot /\ ~oo => merged[p] = theirs[p]

\* Which branch is called ours does not matter when two personas merge: with
\* the sides exchanged the resolver computes the same bundle and leaves the
\* same conflicts to the user.
SidesInterchangeable ==
    pc = "resolved" /\ who.ours # who.theirs =>
        /\ merged = Resolve(base, theirs, ours, owns, who.theirs, who.ours)
        /\ Open = {p \in FindConflicts(base, theirs, ours) :
                      Decide(owns, who.theirs, who.ours, p) = "manual"}

\* An interactive merge is saved only when no conflict is open, and every
\* settled field of an aspect or a feature has the value of its resolution, the
\* text a user typed for a title or a value proposition included: an answer
\* about one conflict does not disturb another.  Two kinds of answer are excepted:
\* one about a story, which the base does not have, and a text typed for the
\* themes of the product; _apply_resolution drops both.
AnswersSaved ==
    pc = "saved" /\ interactive =>
        \A p \in DOMAIN settled :
            /\ settled[p] # "manual"
            /\ p \notin StoryPaths /\ ~(p = Aspect("product") /\ settled[p] = "typed") =>
                   merged[p] = ChoiceValue(p, settled[p])

\* merge_bundles promises "a three-way merge between base, ours, and theirs":
\* a field that one side alone changed has that side's value in what is saved.
OneSidedChangesKept ==
    pc = "saved" =>
        \A p \in Paths :
            /\ theirs[p] = base[p] /\ ours[p] # base[p] => merged[p] = ours[p]
            /\ ours[p] = base[p] /\ theirs[p] # base[p] => merged[p] = theirs[p]
-----------------------------------------------------------------------------
(* The invariant behind the properties: PersonaMergeProofs shows that it is *)
(* inductive.                                                               *)

Choices == {"ours", "theirs", "base", "typed"}

\* The inputs of the command never change.
InputsInv ==
    /\ base \in Bundle /\ ours \in Bundle /\ theirs \in Bundle
    /\ owns \in [Personas -> SUBSET Paths]
    /\ who \in [ours : Personas, theirs : Personas]
    /\ interactive \in BOOLEAN

\* The personas' rule decided about p, or left it to the user who may have
\* answered since.
DecidedOrAnswered(p) ==
    \/ settled[p] = Decide(owns, who.ours, who.theirs, p)
    \/ /\ Decide(owns, who.ours, who.theirs, p) = "manual"
       /\ settled[p] \in Choices

\* Before the resolver ran there is no conflict; afterwards every conflict it
\* finds is on the list.
SettledInv ==
    /\ DOMAIN settled \in {{}, FindConflicts(base, ours, theirs)}
    /\ pc \in {"resolved", "asking", "cancelled", "saved"} =>
           DOMAIN settled = FindConflicts(base, ours, theirs)
    /\ pc \in {"start", "loaded"} => DOMAIN settled = {}
    /\ settled = [p \in DOMAIN settled |-> settled[p]]
    /\ \A p \in DOMAIN settled : DecidedOrAnswered(p)

\* What the merged bundle has for a path: the base's value, unless the path
\* is in conflict and a side or a text was chosen for it and is accepted.
MergedAt(p) ==
    IF p \in DOMAIN settled /\ p \notin StoryPaths /\ settled[p] # "manual"
       /\ Accepts(p, settled[p])
    THEN merged[p] = ChoiceValue(p, settled[p])
    ELSE merged[p] = base[p]

MergedInv ==
    /\ merged \in [Paths -> Values \cup {None, Typed}]
    /\ \A p \in Paths : MergedAt(p)

MergeInv ==
    /\ pc \in {"start", "loaded", "resolved", "asking"} \cup Ended
    /\ branch \in {"current", "base", "ours", "theirs"}
    /\ InputsInv
    /\ SettledInv
    /\ MergedInv
    /\ pc = "resolved" => /\ merged = Resolve(base, ours, theirs, owns, who.ours, who.theirs)
                          /\ settled = Resolutions(base, ours, theirs, owns, who.ours, who.theirs)
    /\ pc = "saved" /\ interactive => Open = {}
=============================================================================
