------------------------------ MODULE ReviewGate ------------------------------
(* A local code review, from run_capsule_review to the delivered report, while *)
(* a developer keeps editing, staging and committing in the same repository.   *)
(*                                                                             *)
(* The analyzer members run one after the other and each reads the tree at the *)
(* time it runs; the changed lines are read after the last member.  Only an    *)
(* identity captured before the first member and compared twice at the end     *)
(* ties the pieces together.  A staged ("cached") review instead works on a    *)
(* private copy of the index tree, and a project-runtime review on a private   *)
(* copy of the source.                                                         *)
EXTENDS ReviewReport

CONSTANTS Dependent,    \* members that run inside the project runtime
          Lines,        \* line numbers of the reviewed files
          Contents,     \* contents of the reviewed files
          Heads,        \* trees that HEAD may name
          ChangedLines, \* lines of each content that are changed against each HEAD
          FindingsOf,   \* what each member finds in each content
          MaxEdits      \* bound: edits and commits of the developer during one review

\* A content with the lines of it that are changed against some HEAD.
Tree(src, head) == [src |-> src, chg |-> ChangedLines[src][head]]
Trees == {Tree(src, head) : src \in Contents, head \in Heads}
NoTree == [src |-> "none", chg |-> {}]

\* Some member needs the project runtime (_PROJECT_RUNTIME_MEMBERS).
ASSUME GateAssumption ==
  /\ Dependent \subseteq Members /\ Dependent # {}
  /\ MaxEdits \in Nat
  /\ NoTree.src \notin Contents
  /\ Lines \subseteq Nat \ {0}
  /\ ChangedLines \in [Contents -> [Heads -> SUBSET Lines]]
  /\ \A src \in Contents, m \in Members : \A f \in FindingsOf[src][m] :
        f.line \in Lines /\ f.blocking \in BOOLEAN /\ f.hidden \in BOOLEAN

VARIABLES
  opt,       \* options of the run and the platform; fixed once chosen
  world,     \* the worktree (version of its path identities, content, what it
             \* is without a path that was just created), HEAD, and moves so far
  staged,    \* the content in the index
  pc,        \* next step of the review
  todo,      \* members that have not run yet
  frozen,    \* what was captured before the first member
  copy,      \* private copy of the source, or NoTree
  ev,        \* evidence per member
  fbm,       \* findings_by_member
  lines,     \* the changed lines enforcement used
  report,    \* the report, or NoReport
  seen,      \* history: the tree each member read
  broken,    \* history: members whose execution failed at some point
  returned   \* history: the captured identity was left and came back

repo == <<opt, world, staged, returned>>
review == <<pc, todo, frozen, copy, ev, fbm, lines, report, seen, broken>>
vars == <<repo, review>>

NoReport == [assurance |-> "none"]
NotRepository == [kind |-> "not_repository"]

\* A staged diff only counts in changed mode (_cached_review_requested).
Options == {o \in [mode : Modes, cached : BOOLEAN, noTests : BOOLEAN,
                   platform : {"linux", "darwin"}] : o.cached => o.mode = "changed"}

NotRun == [m \in Members |-> ErrorEvidence("runtime")]
NoFindings == [m \in Members |-> {}]

Init ==
  /\ opt \in Options
  /\ \E src \in Contents, head \in Heads :
       /\ world = [v |-> 0, src |-> src, without |-> [v |-> 0, src |-> src],
                   head |-> head, moves |-> 0]
       /\ staged = src
  /\ pc = "prepare"
  /\ todo = Members
  /\ frozen = NotRepository
  /\ copy = NoTree
  /\ ev = NotRun
  /\ fbm = NoFindings
  /\ lines = Unavailable
  /\ report = NoReport
  /\ seen = [m \in Members |-> NoTree]
  /\ broken = {}
  /\ returned = FALSE

(***************************************************************************)
(* The developer                                                            *)
(***************************************************************************)
Over == pc \in {"done", "raised"}

Now == Tree(world.src, world.head)

\* What a WorktreeAnalysisIdentity holds: the tree of HEAD, and per path inode,
\* size, times and content - or the constant "missing".
Identity == [v |-> world.v, head |-> world.head]

\* A move of the developer, to a worktree - which without its newest path is
\* the one given - and a HEAD.
Moves(tree, without, head) ==
  /\ ~Over /\ world.moves < MaxEdits
  /\ world' = [v |-> tree.v, src |-> tree.src, without |-> without, head |-> head,
               moves |-> world.moves + 1]
  /\ returned' = (returned \/ (frozen.kind = "identity" /\ frozen.id = Identity'))
  /\ UNCHANGED <<opt, staged, review>>

Fresh(src) == [v |-> world.moves + 1, src |-> src]

\* A save: even one that restores a content gives a path another ctime, so the
\* version is new.
Edit == \E src \in Contents : Moves(Fresh(src), Fresh(src), world.head)

\* A path comes, and goes: a path that does not exist has the identity it had
\* before it was created.
CreatePath ==
  /\ world.without.v = world.v
  /\ \E src \in Contents \ {world.src} : Moves(Fresh(src), world.without, world.head)

RemovePath ==
  /\ world.without.v # world.v
  /\ Moves(world.without, world.without, world.head)

\* git commit, git reset --soft: the worktree stays as it is, HEAD may come back.
MoveHead == \E head \in Heads \ {world.head} : Moves(world, world.without, head)

\* git add: the index takes the content of the worktree.
Stage ==
  /\ ~Over /\ staged # world.src
  /\ staged' = world.src
  /\ UNCHANGED <<opt, world, returned, review>>

(***************************************************************************)
(* Starting                                                                 *)
(***************************************************************************)
\* The options as _capsule_report sees them; catalog: the packaged suppression
\* catalogue could be activated.
ReportOptions(catalog) ==
  [mode |-> opt.mode, noTests |-> opt.noTests, platform |-> opt.platform,
   local |-> TRUE, catalog |-> catalog, expected |-> "runtime"]

Deliver(r) == pc' = "done" /\ report' = r

\* _with_capsule_enforcement over an all-UNKNOWN report.
UnknownReport ==
  with_enforcement(unknown_capsule_report(ReportOptions(TRUE)), opt.mode, NoFindings,
                   Unavailable, FALSE)

\* Without a capsule runtime only a development checkout may go on, with the
\* tools of the host.
PrepareRuntime ==
  /\ pc = "prepare"
  /\ \/ pc' \in {"capture", "host_capture"} /\ UNCHANGED report
     \/ Deliver(UnknownReport)
  /\ UNCHANGED <<repo, todo, frozen, copy, ev, fbm, lines, seen, broken>>

Captured ==
  IF opt.cached THEN LET tree == Tree(staged, world.head)
                     IN  [kind |-> "snapshot", tree |-> tree, entries |-> tree]
  ELSE IF opt.mode = "changed" THEN [kind |-> "identity", id |-> Identity]
  ELSE NotRepository

\* "copy": a project runtime is requested.
Capture ==
  /\ pc \in {"capture", "host_capture"}
  /\ frozen' = Captured
  /\ pc' \in IF pc = "host_capture" THEN {"host"} ELSE {"plan", "copy"}
  /\ UNCHANGED <<repo, todo, copy, ev, fbm, lines, report, seen, broken>>

\* The staged tree cannot be materialised, or a path has no stable identity.
CaptureFails ==
  /\ pc \in {"capture", "host_capture"} /\ opt.mode = "changed"
  /\ Deliver(UnknownReport)
  /\ UNCHANGED <<repo, todo, frozen, copy, ev, fbm, lines, seen, broken>>

(***************************************************************************)
(* Members in the capsule                                                   *)
(***************************************************************************)
\* What a member that runs now reads.
Source == IF copy # NoTree THEN copy
          ELSE IF frozen.kind = "snapshot" THEN frozen.tree ELSE Now

Ran(m, e, F, tree) ==
  /\ ev' = [ev EXCEPT ![m] = e]
  /\ fbm' = [fbm EXCEPT ![m] = F]
  /\ seen' = [seen EXCEPT ![m] = tree]
  /\ todo' = todo \ {m}

\* no_tests: not applicable on Linux, missing evidence on macOS.
Disabled(m) == m = Pytest /\ opt.noTests
DisabledEvidence ==
  IF opt.platform = "darwin" THEN ErrorEvidence("runtime") ELSE NotApplicableEvidence("runtime")

\* Mutant: the run without tests leaves pytest "not applicable".
PlanInventoryForgets ==
  /\ pc = "plan"
  /\ \/ pc' = "run" /\ UNCHANGED <<todo, ev, broken>>
     \/ /\ ~opt.noTests
        /\ pc' = "untested"
        /\ todo' = Members \ {Pytest}
        /\ ev' = [ev EXCEPT ![Pytest] = NotApplicableEvidence("runtime")]
        /\ broken' = broken \union {Pytest}
  /\ UNCHANGED <<repo, frozen, copy, fbm, lines, report, seen>>

\* The local pytest inventory is planned before the first member; when that
\* fails the other members run and pytest stays unknown ("untested").
PlanInventory ==
  /\ pc = "plan"
  /\ \/ pc' = "run" /\ UNCHANGED <<todo, broken>>
     \/ /\ ~opt.noTests
        /\ pc' = "untested"
        /\ todo' = Members \ {Pytest}
        /\ broken' = broken \union {Pytest}
  /\ UNCHANGED <<repo, frozen, copy, ev, fbm, lines, report, seen>>

Running == {"run", "untested", "private", "unprepared"}
Current == CHOOSE m \in todo : m # Pytest \/ todo = {Pytest}   \* pytest is last

RunMember ==
  /\ pc \in Running /\ todo # {}
  /\ LET F == FindingsOf[Source.src][Current] IN
       \/ ~Disabled(Current) /\ Ran(Current, RanEvidence(F, "runtime"), F, Source)
       \/ Disabled(Current) /\ Ran(Current, DisabledEvidence, {}, NoTree)
       \* none of the selected files is of a kind the member reads
       \/ Ran(Current, NotApplicableEvidence("runtime"), {}, NoTree)
  /\ UNCHANGED <<repo, pc, frozen, copy, lines, report, broken>>

\* Launch, budget, output or identity failure of one member, a project runtime
\* that conflicts with it, or a tool error beside the findings it reported.
MemberFails ==
  /\ pc \in Running /\ todo # {} /\ ~Disabled(Current)
  /\ \/ Ran(Current, ErrorEvidence("runtime"), {}, NoTree)
     \/ Ran(Current, ErrorEvidence("runtime"), FindingsOf[Source.src][Current], Source)
  /\ broken' = broken \union {Current}
  /\ UNCHANGED <<repo, pc, frozen, copy, lines, report>>

\* Start over: none of the members in M is to run again.
Restart(where, M) ==
  /\ pc' = where
  /\ todo' = Members \ M
  /\ broken' = broken \union M
  /\ ev' = NotRun /\ fbm' = NoFindings
  /\ seen' = [m \in Members |-> NoTree]

\* An OSError or a ValueError escapes: the local snapshot starts over without
\* tests, a project snapshot without the project runtime, and then without any
\* source; elsewhere the exception leaves the review.
MemberRaises ==
  /\ pc \in Running /\ todo # {}
  /\ CASE pc = "run" /\ ~opt.noTests -> Restart("untested", {Pytest})
       [] pc = "private"    -> Restart("recopy", Dependent)
       [] pc = "unprepared" -> Restart("unprepared", Members)
       [] OTHER -> pc' = "raised" /\ UNCHANGED <<todo, ev, fbm, seen, broken>>
  /\ UNCHANGED <<repo, frozen, copy, lines, report>>

(***************************************************************************)
(* Members on a private copy, with a project runtime                        *)
(***************************************************************************)
\* copy_project: every member then reads the copy, whatever happens outside.
\* When the runtime cannot be prepared the dependent members are unavailable;
\* when the source cannot be copied after that, no member runs at all.
CopySource ==
  /\ pc \in {"copy", "recopy"}
  /\ \/ /\ copy' = IF frozen.kind = "snapshot" THEN frozen.tree ELSE Now
        /\ pc' = IF pc = "copy" THEN "private" ELSE "unprepared"
        /\ UNCHANGED <<todo, ev, fbm, seen, broken>>
     \/ pc = "copy" /\ Restart("recopy", Dependent) /\ UNCHANGED copy
     \/ pc = "recopy" /\ Restart("unprepared", Members) /\ UNCHANGED copy
  /\ UNCHANGED <<repo, frozen, lines, report>>

MembersDone ==
  /\ pc \in Running /\ todo = {}
  /\ pc' = IF pc = "private" THEN "verify" ELSE "finalize"
  /\ UNCHANGED <<repo, todo, frozen, copy, ev, fbm, lines, report, seen, broken>>

\* The project's inputs and the prepared runtime are verified again after the
\* members ran; a difference takes the dependent members' evidence back.  A
\* file that cannot be read starts the review over, as in MemberRaises.
VerifyInputs ==
  /\ pc = "verify"
  /\ pc' = "finalize"
  /\ \/ UNCHANGED <<ev, broken>>
     \/ /\ ev' = [m \in Members |-> IF m \in Dependent THEN ErrorEvidence("runtime") ELSE ev[m]]
        /\ broken' = broken \union Dependent
  /\ UNCHANGED <<repo, todo, frozen, copy, fbm, lines, report, seen>>

VerifyRaises ==
  /\ pc = "verify"
  /\ Restart("recopy", Dependent)
  /\ UNCHANGED <<repo, frozen, copy, lines, report>>

(***************************************************************************)
(* Delivering                                                               *)
(***************************************************************************)
worktree_analysis_identity_changed == frozen.kind = "identity" /\ frozen.id # Identity

\* The identity is captured again, or the paths of staged findings are mapped
\* back to the worktree; both can fail.
Finalize ==
  /\ pc = "finalize"
  /\ \/ frozen.kind # "not_repository" /\ Deliver(UnknownReport)
     \/ /\ ~worktree_analysis_identity_changed
        /\ pc' = "enforce" /\ UNCHANGED report
  /\ UNCHANGED <<repo, todo, frozen, copy, ev, fbm, lines, seen, broken>>

\* The staged snapshot has its own diff; otherwise git is asked about the
\* worktree and the HEAD of this moment.  The diff may be unavailable.
Diffs == {Unavailable, IF frozen.kind = "snapshot" THEN frozen.entries.chg ELSE Now.chg}

Enforce ==
  /\ pc = "enforce"
  /\ \E changed \in Diffs, catalog \in BOOLEAN :
       /\ lines' = changed
       /\ report' = with_enforcement(capsule_report(ev, fbm, ReportOptions(catalog)),
                                     opt.mode, fbm, changed, frozen.kind = "snapshot")
  /\ pc' = "recheck"
  /\ UNCHANGED <<repo, todo, frozen, copy, ev, fbm, seen, broken>>

\* Mutant: no second identity check.
RecheckSkipped ==
  /\ pc = "recheck"
  /\ Deliver(report)
  /\ UNCHANGED <<repo, todo, frozen, copy, ev, fbm, lines, seen, broken>>

Recheck ==
  /\ pc = "recheck"
  /\ \/ ~worktree_analysis_identity_changed /\ Deliver(report)
     \/ frozen.kind = "identity" /\ Deliver(UnknownReport)
  /\ UNCHANGED <<repo, todo, frozen, copy, ev, fbm, lines, seen, broken>>

(***************************************************************************)
(* The development host                                                     *)
(***************************************************************************)
HostMember ==
  /\ pc = "host" /\ todo # {}
  /\ LET F == FindingsOf[Source.src][Current] IN
       IF Disabled(Current) THEN Ran(Current, ev[Current], {}, NoTree)
       ELSE Ran(Current, ev[Current], F, Source)
  /\ UNCHANGED <<repo, pc, frozen, copy, lines, report, broken>>

\* A tool that writes to the materialised tree while it analyses it.
HostMutates ==
  /\ pc = "host" /\ frozen.kind = "snapshot" /\ frozen.tree = frozen.entries
  /\ \E t \in Trees \ {frozen.entries} : frozen' = [frozen EXCEPT !.tree = t]
  /\ UNCHANGED <<repo, pc, todo, copy, ev, fbm, lines, report, seen, broken>>

HostReport(score, mode) ==
  derive_score_governance(
    [assurance |-> "NONE", unknown |-> FALSE, verdict |-> "FAIL", exit |-> 1,
     findings |-> FilteredFindings(fbm), evidence |-> ev, mode |-> mode], score)

materialized_tree_matches_entries == frozen.tree = frozen.entries

\* A full review with focus on simplification may fail all the same.
HostReports(cached) ==
  LET enforced == {with_enforcement(HostReport(score, opt.mode), opt.mode, NoFindings, lines', cached) :
                     score \in {"good", "advisory", "low"}}
  IN  enforced \union {[r EXCEPT !.verdict = "FAIL", !.exit = 1] :
                         r \in {e \in enforced : opt.mode = "full"}}

\* Worktree: run_review enforces, then the identity is compared.
HostEnforce ==
  /\ pc = "host" /\ todo = {} /\ frozen.kind # "snapshot"
  /\ lines' \in Diffs
  /\ report' \in HostReports(FALSE)
  /\ pc' = "recheck"
  /\ UNCHANGED <<repo, todo, frozen, copy, ev, fbm, seen, broken>>

\* Staged: the copy is compared with its entries and the paths are mapped back,
\* which can fail; then the report is enforced.
HostEnforceStaged ==
  /\ pc = "host" /\ todo = {} /\ frozen.kind = "snapshot"
  /\ lines' \in Diffs
  /\ \/ Deliver(UnknownReport)
     \/ /\ materialized_tree_matches_entries
        /\ \E r \in HostReports(TRUE) : Deliver(r)
  /\ UNCHANGED <<repo, todo, frozen, copy, ev, fbm, seen, broken>>

Review ==
  \/ PrepareRuntime \/ Capture \/ CaptureFails \/ PlanInventory \/ CopySource
  \/ RunMember \/ MemberFails \/ MemberRaises \/ MembersDone \/ VerifyInputs \/ VerifyRaises
  \/ Finalize \/ Enforce \/ Recheck
  \/ HostMember \/ HostMutates \/ HostEnforce \/ HostEnforceStaged

Developer == Edit \/ CreatePath \/ RemovePath \/ MoveHead \/ Stage

Next == Developer \/ Review

Spec == Init /\ [][Next]_vars

(***************************************************************************)
(* Properties                                                               *)
(***************************************************************************)
OnHost == report.assurance = "NONE"
Passed(mode) == pc = "done" /\ report.exit = 0 /\ opt.mode = mode

\* A review in changed mode that exits 0 is about one tree, the one it ends
\* with: every member read it, the changed lines are its changed lines, and no
\* member found a blocker on one of them - not even one the noise, level and
\* focus filters hide (the development host, which scores the filtered findings,
\* excepted).  It takes the two identity checks of
\* _finalize_local_capsule_snapshot, the tree comparison of the host review and
\* blockers_are_retained to hold while the developer edits and commits.
\* The checks compare two moments: a path that is created and removed, or a HEAD
\* that is moved and set back, between them is not seen.  Then only the first
\* part holds: no blocker that was found is on a line that was read as changed.
ChangedPassIsAboutOneTree ==
  Passed("changed") =>
    /\ \A m \in Members : \A f \in Blocking(fbm[m]) :
         lines = Unavailable \/ f.line \in lines => OnHost /\ f.hidden
    /\ ~returned =>
         \E t \in Trees :
           /\ t = IF frozen.kind = "snapshot" THEN frozen.entries ELSE Now
           /\ \A m \in Members : seen[m] \in {NoTree, t}
           /\ lines \in {t.chg, Unavailable}
           /\ \A m \in Members : seen[m] = t =>
                \A f \in OnChangedLine(Blocking(FindingsOf[t.src][m]), t.chg) :
                  OnHost /\ f.hidden

\* A member that failed at any point of a capsule review - its launch, the
\* pytest inventory, the project runtime, the verification afterwards - keeps
\* the review from passing, even when the run was started over since
\* (_local_pytest_failure_snapshot, _failed_project_snapshot).
FailuresAreNotForgotten ==
  pc = "done" /\ broken # {} /\ ~OnHost =>
    /\ report.assurance \notin Accepted
    /\ opt.mode # "shadow" => report.exit = 1

\* Full enforcement that exits 0 in the capsule has no blocker at all, hidden
\* ones included: the exit code follows the evidence of the members, not the
\* filtered findings.
FullPassHasNoBlocker ==
  Passed("full") /\ ~OnHost => \A m \in Members : Blocking(fbm[m]) = {}

\* A consumer that reads the delivered report may run the validator on it again
\* (`ledger update`, ledger/commands.py:45): the verdict, the status and the exit code it finds are
\* the ones delivered, although enforcement edits reports with model_copy,
\* which does not validate.
ReportSurvivesReading == pc = "done" => Revalidated(report) = report

(***************************************************************************)
(* The inductive invariant behind those properties                          *)
(***************************************************************************)
AnyFinding == UNION {FindingsOf[src][m] : src \in Contents, m \in Members}

Worktrees == [v : Nat, src : Contents]
Worlds == [v : Nat, src : Contents, without : Worktrees, head : Heads, moves : Nat]

TypeInv ==
  /\ opt \in Options
  /\ world \in Worlds
  /\ staged \in Contents
  /\ todo \subseteq Members
  /\ copy \in Trees \union {NoTree}
  /\ ev \in [Members -> Evidence]
  /\ fbm \in [Members -> SUBSET AnyFinding]
  /\ seen \in [Members -> Trees \union {NoTree}]
  /\ returned \in BOOLEAN

\* What is captured, and when.
Uncaptured == {"prepare", "capture", "host_capture"}
FrozenInv ==
  /\ world.v <= world.moves /\ world.without.v <= world.moves
  /\ pc \in Uncaptured =>
       /\ frozen = NotRepository /\ copy = NoTree /\ lines = Unavailable
       /\ \A m \in Members : seen[m] = NoTree
  /\ \/ frozen = NotRepository /\ (opt.mode = "changed" => pc \in Uncaptured \union {"done"})
     \/ \E v \in 0 .. world.moves, head \in Heads :
          frozen = [kind |-> "identity", id |-> [v |-> v, head |-> head]]
     \/ \E t, u \in Trees : frozen = [kind |-> "snapshot", tree |-> t, entries |-> u]

\* Everything that was read is of the tree t.
ReadFrom(t) ==
  /\ copy \in {NoTree, t}
  /\ lines \in {Unavailable, t.chg}
  /\ \A m \in Members : seen[m] \in {NoTree, t}

\* The review is about one tree as long as the captured identity holds and was
\* not lost in between, or the materialised tree is what was staged.
AboutInv ==
  /\ frozen.kind = "identity" /\ frozen.id = Identity /\ ~returned => ReadFrom(Now)
  /\ frozen.kind = "snapshot" =>
       /\ frozen.tree = frozen.entries => ReadFrom(frozen.entries)
       /\ frozen.tree # frozen.entries => pc \in {"host", "done"}

\* The findings are those of what was read, and a blocker shows in the evidence.
\* The development host leaves no evidence.
FindingsInv ==
  \A m \in Members :
    /\ fbm[m] = IF seen[m] = NoTree THEN {} ELSE FindingsOf[seen[m].src][m]
    /\ Blocking(fbm[m]) # {} => ev[m].outcome \notin Accepted
    /\ pc \in Uncaptured \union {"host", "plan"} => ev[m].outcome = "UNKNOWN"

\* Of the members that failed one is not run again.
BrokenInv ==
  /\ broken # {} => \E m \in Members \ todo : ev[m].outcome = "UNKNOWN"
  /\ pc = "verify" => todo = {}

ReportInv ==
  pc \in {"recheck", "done"} =>
    /\ Revalidated(report) = report
    /\ broken # {} /\ ~OnHost =>
         report.assurance \notin Accepted /\ (opt.mode # "shadow" => report.exit = 1)
    /\ opt.mode = "full" /\ report.exit = 0 /\ ~OnHost => \A m \in Members : Blocking(fbm[m]) = {}
    /\ opt.mode = "changed" /\ report.exit = 0 =>
         \A m \in Members : \A f \in Blocking(fbm[m]) :
           lines = Unavailable \/ f.line \in lines => OnHost /\ f.hidden

\* A review that passes was captured, and what it captured still holds.
DeliveredInv ==
  Passed("changed") =>
    /\ frozen.kind # "not_repository"
    /\ frozen.kind = "identity" => frozen.id = Identity
    /\ frozen.kind = "snapshot" => frozen.tree = frozen.entries

GateInv ==
  TypeInv /\ FrozenInv /\ AboutInv /\ FindingsInv /\ BrokenInv /\ ReportInv /\ DeliveredInv
=============================================================================
