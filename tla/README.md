# TLA+ models of specfact-cli-modules

This directory holds formal models of the stateful parts of the specfact-cli
bundles, the TLC runs that check them, and proofs checked by TLAPS. Paths below
are relative to the repository; `broker.c` is
`packages/specfact-code-review/native/macos-arm64/broker.c`, `client.py` is the
ledger's, `resolver.py` the merge's, `runner.py`, `native_*.py`, `differential.py`,
`portable_snapshot.py` and `findings.py` are below
`packages/specfact-code-review/src/specfact_code_review/run/`, `watcher.py` and
`bridge_watch.py` below `specfact_project/sync_runtime/`. `PROJECT.json` maps every definition to the
lines it models.

    tlc -workers 2 -config MCBroker.cfg MCBroker     # any run
    tlapm BrokerProofs.tla                           # any module *Proofs

## 1. Inventory

The repository is a set of CLI bundles (backlog, code-review, codebase, govern,
project, requirements, spec) on top of a core package that is not part of it.
Most commands are one-shot transformations of text or calls of external tools.
State that outlives a step, and steps of several actors, are found in these
parts:

| Component | State | Operations | Interacts with | What is hard | Module |
|---|---|---|---|---|---|
| Native broker (`broker.c`, `managed_workers.inc`, `control_mach.inc`) | table of 8 worker records, `next_handle`, frames of a launch and a wait | LAUNCH, WAIT, CANCEL; for workers: launch, poll, signal, read, write, close, release | controller (socket), workers (pipes), kernel (pids, exits, Mach exceptions) | exits, hang-ups, timeouts and controller loss at any moment; pid reuse; nested launches; two places that reap | Broker, BrokerService, BrokerRefinement, BrokerProofs |
| Execution session and transport (`native_execution.py`) | active handles, pending requests, closed flag | launch, wait, cancel, close | broker | the two layers forget a handle at different moments; a socket without timeout; interrupts | NativeSession, NativeSessionProofs |
| Replay of an analyzer (`runner.py`, `native_worker.py`) | replies so far, stage | run the analyzer, run the tool it asks for, start over | session | an adapter that asks differently in a later stage; the limit | NativeSession |
| Native capsule cache (`native_capsule.py`) | lock file, staging directories, published directory | acquire | other processes, disk | crash or power loss between extraction, verification, rename and sync | CapsuleCache, CapsuleCacheProofs |
| Local review (`runner.py`, `portable_snapshot.py`, `findings.py`) | snapshot or identity of the worktree, evidence and findings per member, report | run members, start over, verify, enforce, deliver | the developer's edits, Git, native execution | evidence about several trees in one report; failures forgotten by a restart; filters against enforcement | ReviewGate, ReviewReport, ReviewGateProofs |
| Range review (`differential.py`, `runner.py`) | both sides' results, classification | correspond, pair, classify findings and comment controls, merge | Git objects | ambiguous alignments, multiplicities, uncertainty lost in a merge of outcomes | RangeReview, Differential, Suppression, RangeReviewProofs |
| Watch mode (`watcher.py`, `bridge_watch.py`) | event queue, debounce times | event, poll, callback, stop | observer thread, developer | leading-edge debounce, failing callback, own output in the watched tree | SyncWatch, SyncWatchProofs |
| Reward ledger (`client.py`) | local JSON file, two remote tables | update, status, reset | other processes, Supabase | no lock, non-atomic write, two requests, fall-back | Ledger, LedgerProofs |
| Persona merge (`resolver.py`, `project/commands.py`) | three versions, merged bundle, conflict list, checked-out branch | merge | user, Git | ownership rules, order of answers, failing restore | PersonaMerge, PersonaMergeProofs |
| Section locks (`project/commands.py`) | locks in the bundle manifest | lock, unlock, import, export | other processes | load, check, save without a lock | - |
| Managed child processes (`native_managed_process.py`) | child handle, buffered streams | Popen-like operations | broker (pipes) | timeouts against late replies | - |
| Patch mode (`patch_mode/`) | idempotency marker | apply | Git | check, apply, mark | - |
| Requirements lifecycle (`lifecycle.py`) | none (pure) | evaluate, reconcile | JUnit results | order of proofs | - |

What makes them correct:

* broker: handles are unambiguous; no process without a record, no record
  without its process; a subtree goes with its root; a lost controller ends
  everything; every request is answered; nobody else's process is signalled;
* session: no root that the session forgot and the broker still runs; an answer
  belongs to the request it follows; every call returns; evidence rests on
  exactly the tool runs the analyzer asked for;
* capsule cache: a published capsule is complete, whatever crashed, and a
  process that waits for the lock gets an answer;
* review: a pass is about one tree, certain, and free of blockers that matter;
  what failed once is not forgotten; a report means the same to its reader;
* watch mode: nothing is lost between the threads; the last change of a file is
  eventually synced; the watcher comes to rest;
* ledger: the totals are those of the runs; a reported success is stored; a
  recorded run stays;
* merge: the sole owner of a section wins, sides are interchangeable, answers
  are kept, one-sided changes are kept.

`PROJECT.json` lists the other parts (analysers, importers, generators,
backlog adapters, release scripts) with the reason they are not modelled, and
the hazards, each at its line.

## 2. Modules

Which module uses which:

    Broker <- BrokerRefinement -> BrokerService <- NativeSession
    BrokerRefinement <- BrokerProofs
    ReviewReport <- ReviewGate
    Differential <- Suppression
    ReviewReport, Suppression <- RangeReview
    Ledger, PersonaMerge, CapsuleCache, SyncWatch alone
    M <- MProofs for each M of NativeSession, CapsuleCache, ReviewGate, RangeReview,
                                Ledger, PersonaMerge, SyncWatch

Each `MC` module gives the constants of one of them small values. Definitions
marked as mutants, or named after the bug they contain (`LockPrivate`,
`PollBatches`, ...), are not part of a specification: each is a plausible wrong
form of the definition that follows it, and shows that a property can fail.

### Broker

One thread (`pc`, with the frames `launch` and `wait`), the worker table
(`workers`), the kernel's view of each pid (`proc`), the socket to the
controller (`control`, `reply`).

* `MainLaunch`, `MainLaunchRefused`, `MainWait`, `MainCancel`, `MainUnknown`,
  `MainEof` are the request loop of `main`; a request is sent and read in one
  step, and the controller sends the next one after it took the reply, as
  `_send` does.
* `Spawn`, `LaunchAdvance`, `LaunchDone`, `LaunchFail` are `launch_worker`.
  `active` is set before the handle is known, so a starting worker has handle 0.
  The stages are the trace stop, the readiness marker and the admitted image.
  The same actions serve `main` and `child_launch`: a child's launch runs nested
  in the service pass of a pending WAIT, and returns to it.
* `WaitCheck`, `ServiceReap`, `WaitObserve` are the loop of `wait_bounded`;
  `WaitRetire` and `WaitStop` the code of `main` after it. `WaitObserve` keeps
  what the code does: it reaps with its own `waitpid` and leaves `reaped` alone.
  `WaitStop` is possible after a successful wait too, for the checks of the
  stream files (`broker.c:583-596`) may fail.
* `FlushReply`, `NoRequest`, `RequestEof`, `ServiceStop` are one record's turn in
  `service_workers`; `ChildLaunch`, `ChildSignal`, `ChildOverBudget`,
  `ChildRelease` and `ReplyOnly` are `worker_operation`. Requests are not
  stored: what a worker may have written is chosen when it is read, so every
  order of requests is covered.
* `StopWorkers` is `stop_worker` with its recursion: `SubTree` is the least set
  with the record that holds the children of its members. Kill and reap of a
  subtree is one step because the thread does nothing else meanwhile; the other
  actors can only make its processes exit, which it does anyway.
* The environment: `WorkerExit`, `WorkerHangup`, `PidReuse`, `TakeReply`,
  `ControllerClose`, `WaitDeadline`; `BrokerDie` is `die()`, possible at any
  moment.

Abstracted: paths, grants, signatures and budgets (a nondeterministic refusal),
stream contents, Mach ports, byte-wise partial frames (`NoRequest`, and
`FlushReply` that leaves the reply pending), the wrap of `next_handle`
(`broker.c:511`) and the error of `wait_bounded` for a root that stopped without an exit (552),
after which `main` stops the root and answers with an error as at the deadline. After `die()` the model says
nothing of the workers.

`MultiRoot` says whether the controller keeps several roots. The CLI calls
`session.wait(session.launch(...))` (`run/runner.py:1792`,
`run/native_project_runtime.py:829`), so the runs use FALSE; the broker
and `NativeExecutionSession` accept more.

### BrokerService and BrokerRefinement

`BrokerService` is what the controller may rely on: a request at a time, each
answered; a root that was answered by WAIT or CANCEL, with success or not, does
not run any more; handles are fresh; end of file ends every root. It knows no
table, no pids, no deadlines and no children. `BrokerRefinement` instantiates it
with expressions over Broker's state (the service's roots are the active
records without parent that have their handle) and states both directions of the
contract: `ImplementsService` (safety) and `AnswersRequests` (with fairness).
`ControllerLossEnds` and `WaitEnds` follow from `AnswersRequests` but are kept,
for a violation of either names the cause.

### NativeSession

Composes the controller with BrokerService: `Calls` are steps of the
controller's thread, which take a step of the service with them when a request is
written or an answer read; `Broker` are the service's own steps. `active` and
`requests` are the handle sets of `NativeExecutionSession` and of the transport;
`WaitFails` drops the handle from the second only, as the `finally` clause in
`BinaryNativeExecutionTransport.wait` does. `job`, `replies` are the state of the
loop in `_execute_native_capsule_member`. An adapter is a sequence of requests
(`trace`), chosen anew in every stage, for nothing makes an adapter repeat
itself; `ReplaysTo`, `Pending` and `Finished` are `ReplayTransport`. A response
keeps what it rests on as pairs of request and result, so a reply that was given
to another request than the one it answers shows in `ResponseIsBacked`.
`Interrupt` is KeyboardInterrupt between two calls or in a blocking one.
`InterruptClose` is one inside `close`: `wait(timeout=5)` is left by it, `kill()`
is skipped and `_closed` stays set (`native_execution.py:567-571`), so the
session is `abandoned` with a broker that may still serve. `Released` is the end
of its socket, with the last reference to it or with the process; the broker then
reads end of file. `CloseEndsBroker` is therefore about a close that runs to its
end, and `CallsReturn` says that the broker of an abandoned session ends too.
A second wait that times out after `kill()` leaves `close` with an exception;
`Drain` has it. `WaitRetried` is a use of
the session's API that the CLI never makes: an owner that catches the broker's
error and goes on with the same session; it is there because only then a
forgotten root could do harm. After `kill()` (a broker that needs more than five
seconds) nothing is claimed of its workers.

Because Broker implements BrokerService, what `session` shows holds of the
broker in the repository as far as the instance `broker` covers it.

### CapsuleCache

One action per step of `acquire_native_capsule` between two of which a process
can die. A directory has the members it holds, those whose bytes are synced and
whether its entries are; `PowerLoss` leaves any subset that contains what was
synced, and may undo a rename that was not. `Start` and `VerifyFinal` may refuse
for reasons of their own (authenticity, signatures). A crashed process starts
over. The content of a member is not modelled: its digest is compared while it
is extracted. Outside interference with the private cache directory is not
modelled either.

### ReviewReport and ReviewGate

`ReviewReport` has the pure part: `aggregate_profile_evidence`, the validator's
governance (`derive_authoritative_governance`, `derive_score_governance`),
`capsule_report` and `with_enforcement`, with the names of the code. A finding
keeps its line, whether it blocks and whether the filters of the run hide it; a
report keeps status, verdict, exit code, findings and evidence.

`ReviewGate` is the pipeline around it. `world` is the worktree (content, and a
version that stands for the path identities) with HEAD, `staged` the index; the
changed lines are a function of content and HEAD (`Now`). The developer acts
between any two steps: `Edit` saves (the ctime makes the version a new one even
when the content is not), `CreatePath` and `RemovePath` make a path and take it
away again, which restores the old identity because a missing path has a constant
one (`runner.py:5446-5448`), `MoveHead` commits or resets, `Stage` fills the
index. `Identity` is what `_worktree_analysis_identity` compares: version and
HEAD. The paths
are: worktree (`frozen.kind = "identity"`), staged (`"snapshot"`), project
runtime (`copy`), development host (`pc = "host"`). `Restart` is what
`_local_pytest_failure_snapshot` and `_failed_project_snapshot` do. `seen` and
`broken` are history variables. A member is a function from the content it reads
to findings; that it may fail, not apply or raise is a choice.

Full and shadow reviews of a worktree take no identity: their findings may come
from several trees, and the properties do not claim otherwise. The development
host scores the filtered findings, so a hidden blocker passes there;
`ChangedPassIsAboutOneTree` says so.

The identity is compared at two moments only. A path that is created and removed,
or a HEAD that is moved and set back, between them is not seen; members may have
read the other tree, and the changed lines may be those against the other HEAD,
which `_changed_diff_revision` resolves anew instead of using the captured one
(`runner.py:6092-6106`). The history variable `returned` marks such runs. For
them `ChangedPassIsAboutOneTree` claims only that no blocker that was found is on
a line that was read as changed; for all others it claims one tree.

Left out: the result `not_repository` for an empty list of files
(`runner.py:5731-5732`; the CLI refuses one), and the identity of files outside a
repository, which is that of a worktree without HEAD. The validator that
`ReportSurvivesReading` speaks of runs when a report is loaded as a model, as
`ledger update` does (`ledger/commands.py:45`).

### Differential, Suppression and RangeReview

`Differential` translates `differential.py`: cost tables (`edit_costs`, and
`suffix_edit_costs` from the reversed sources), the three costs of
`continuity_decision`, pairing, classification. Sources are short
sequences of lines. `sorted` is `InOrder`, defined by how many elements come
before each, for the sorting operator of the library has no definition a prover
can use. `Alignments` and `Longest` are the reference definition that
`ContinuityIsExact` compares with: all non-crossing matchings of equal lines.
`Suppression` is `classify_suppression_delta`: a line's text may hold a control
(`Control`), a file that Python cannot tokenise holds `Malformed`. Equal lines
that are alone with their token are paired first, the rest in order
(`ByOrdinal`); a pair is
judged by the same costs, but strictly, and by a budget of cost tables per pair
of sources. Which pairs come first in that budget depends on the spelling of
tokens and is left open (`Reservations`). Sources are compared by their lines, so
a file that changed only its line ends counts as identical.
`RangeReview` derives deleted, added and renamed files from the snapshots
(`rename_disposition`; file modes are left out), runs members on both sides,
classifies, merges the controls and builds the report. A failing member may
keep the findings it reported before it failed. An incomplete member (execution state "error") that an introduced
suppression turns into FAIL is aggregated as UNKNOWN, for the state decides
first; that is fail-closed, and the model shows it.

Left out: the fallback of `_source_for` to the only file of a snapshot
(`differential.py:390-395`); the bounds in bytes and lines (514-523), which have
the effect of the bound in cells; a line that reads like the sentinels of
`_line_anchor` (572-577), which are values of their own here;
`differential_finding_mapping_failed` (`runner.py:8162-8171`), which cannot happen
because every classified entry comes from one of the two lists; the tool errors
of the base as findings of their own (8110-8117), for the member is UNKNOWN with
or without them.

### SyncWatch

Three parties: the developer (`Edit`, `Delete`), the observer thread (`Accept`,
`Debounce`), the main thread (`Poll`, `Read`, `CallbackDone`). Time is abstract:
`recent` holds the files in their debounce window, which ends at some moment. The
callback of each of the three commands reads what the code reads: every source
file (`repository`), what differs from the bundle loaded at the start
(`intelligent`), the artifacts of the batch (`bridge`). What it writes below
`.specfact` is an event in the watched tree. An edit may give a file the content
it had when the watch started (`original`): `intelligent` compares hashes with
the bundle of the start and then takes the file for unchanged, although it synced
another content since. `Restored` names these files; they are the exception of
`NoSilentLoss` and `QueuedIsSynced`. `excused` is a history variable:
files whose change was dropped by the debounce or hit a failing callback.

Observations outside the runs: the handler has no `on_moved`, so an editor that
saves by renaming is seen only through the events of its temporary file;
`sync intelligent --watch` never comes to rest once a file differs from the
bundle.

### Ledger

Each `ledger update` is a process with a frame `client[c]`; one action per
access to a store: `ReadSupabase`, `ReadLocal`, `PostRun`, `PostLedger`,
`WriteOpen` (truncates), `WriteClose`. `WriteFail` and `Crash` may leave a torn
file, and so may a writer over the bytes of another one. A file deleted by
`ResetLocal` and created anew is another inode; a write to the old one is lost.
A request that fails may have been carried out. The latest remote row is the last
one appended (the query sorts by the clients' `updated_at`, `client.py:252`), and
the remote payloads are well-formed (262-280). The file is ASCII, so a torn one
is invalid JSON and never a decoding error (196). Coins are counted in tenths, so
that the halves of the code stay integers. `kept` is a history variable: the
runs whose local update ended well since the last reset.

Abstracted: report documents (verdict, delta and rule counts remain), the agent
name, session identifiers (distinct). Not modelled: `status` and the recent
runs, which read only.

Two observations outside the runs: the CLI constructs `LedgerClient()` without
arguments, so the remote store is reached only by programs that pass a URL and
a key, although `docs/modules/code-review.md:431` names the environment variables
`SUPABASE_URL` and `SUPABASE_KEY`; and a state that was read remotely has no
runs and no counts, so its fall-back write replaces those of the file.

### PersonaMerge

A bundle maps the field paths that the resolver compares to values, `None` where
the aspect, feature or story is absent. `FindConflicts`, `Strategy`, `Resolve`
are `PersonaMergeResolver`; `Load`, `ResolveAll`, `Ask`, `Settle`, `Cancel`,
`Save` are `merge_bundles` in its order. `branch` is what is checked out: the
failure of the last checkout is suppressed in the code and possible here.
Section patterns are abstracted to the set of sections a persona owns (`owns`);
any set is allowed, which includes everything the globs can express. The order
of the prompts follows a Python set and is left open.

`SoleOwnerWins` and `AnswersSaved` leave out stories: a story that both versions
added does not exist in the base copy, so `_apply_resolution` finds nothing to
set and the resolution, though counted, has no effect. `AnswersSaved` covers the
text a user types for a title or a value proposition; it excepts
a text typed for `product.themes`, which is not a list and is ignored
(`resolver.py:408-413`). A further observation: `--strategy` is accepted and never
used. The paths, joined with dots in the code and split again
(`resolver.py:277`, 400), are tuples here: keys with a dot in them are left out.

## 3. Runs

Nine runs pass; three show a disagreement between the code and what a document
or a comment says of it (the `findings` of `PROJECT.json` quote both).

| Run | Bounds | Distinct states | Shows |
|---|---|---|---|
| `broker` | 3 records, 4 handles, 3 pids, symmetric pids | 863,670 | `TypeOK`, `UniqueHandles`, `ChildrenHaveParents`, `NoLeakedProcess`, `RecordsBacked`, `ExitLeavesNoWorker`, `ImplementsService` |
| `broker_live` | 2 records, 3 handles, 3 pids, one reusable | 152,054 | `ControllerLossEnds`, `WaitEnds`, `AnswersRequests` |
| `session` | 6 handles, 2 tool requests, 2 results, replay limit 2 | 62,144 | `NoForgottenRoot`, `AnswersInStep`, `CloseEndsBroker`, `ResponseIsBacked`, `CallsReturn` |
| `capsule` | 3 processes (one offline), 2 members, 3 faults | 6,686 | `PublishedIsComplete`, `NoCollision`, `OrphansFromFaults`, `AcquireEnds` |
| `review` | 2 members, 4 contents over 2 lines, 2 HEADs, 2 moves of the developer, every option | 7.6 million | `ChangedPassIsAboutOneTree`, `FailuresAreNotForgotten`, `FullPassHasNoBlocker`, `ReportSurvivesReading` |
| `range` | 2 members, sources of up to 6 lines (and one over the limit), up to 3 findings a side, up to 3 controls | 86,689 | `ContinuityIsExact`, `NoFindingVanishes`, `UnchangedIsBacked`, `ControlsAreJudged`, `RangePassIsClean`, `UncertaintyIsKept` |
| `watch` | 1 source file, 1 artifact, 3 edits, all modes, failures and Ctrl+C | 189,694 | `NoSilentLoss`, `QueuedIsSynced`, `ComesToRest` |
| `watch_lost` | 2 edits, no failures | | `LastEditSynced` fails |
| `ledger` | 2 clients with any of them remote, 2 reports, 2 histories, 3 runs, 1 reset | 4.5 million | `TypeOK`, `LocalLedgerAddsUp`, `SnapshotsBacked`, `RemoteSuccessIsComplete` |
| `ledger_lost` | 2 clients, 2 runs | | `RecordedRunsKept` fails |
| `merge` | one aspect, one feature with one story, 3 values, 2 personas | 3.6 million | `TypeOK`, `SoleOwnerWins`, `SidesInterchangeable`, `AnswersSaved` |
| `merge_one_sided` | as `merge` | | `OneSidedChangesKept` fails |

Why the bounds are enough. Broker: three records hold a root, a child and a
grandchild (the recursion of `stop_worker` beyond one level) or two siblings, and
a full table; four handles let a record be reused; three pids let every record
have a process, and a freed pid be given to the next worker. Session: two
requests let an adapter ask differently than before, with two replies in hand;
six handles allow all stages and a retry. Capsule: two members make a partly
extracted directory, three faults hit the recovery from one another. Review:
two members can see two trees; each HEAD makes other lines of a content the
changed ones, with a blocker on, off, beside and hidden from them; two moves of
the developer go to another content or HEAD and back.
Range: the pairs of sources have insertions, deletions, repetitions, swapped
blocks with the same anchors (the smallest sources in which an optimal
alignment is not unique have six lines); the controls are added, kept, moved,
changed, repeated and swapped, with cells for one of two; files are renamed,
copied, deleted, and renamed with several candidates; two rules report on one
line, each with its own number of findings, and the filters hide the blockers of
one of them. Watch: an edit
before, during and after a callback. Ledger: one history stands before the fifth
pass of a streak, three more runs reach the bonus and, from the other history,
the penalty of the third failure. Merge: three values are what a three-way
comparison can tell apart; the rules look at one field at a time and at a story
below its feature, so the initial states vary either the aspect or the feature,
with every ownership of all sections.

Deadlock is checked except in `review` and `range`, which end with a delivered
report (or an exception). `Halted`, `Quiet`, `Done` and `Asleep` are the ends in
which nothing remains to do.

Fairness, and why the code justifies it:

* `broker_live`: weak fairness of the broker's own steps, for its thread polls
  and never blocks inside a launch or a WAIT, and of the deadline, for time
  passes. Nothing is assumed of workers or controller: a worker may run for ever
  and a reply may stay unread. `LaunchFail` is always possible in a launch
  because the startup deadline is; after `BrokerDie` nothing is claimed beyond
  the end of the broker.
* `session`: weak fairness of the controller's thread and of the service's own
  steps, which is what `AnswersRequests` establishes for the broker. An open
  socket does not outlive its process (`Released`). Interrupts and the broker's
  death are never required.
* `capsule`: weak fairness of each process that runs; crashes are bounded.
  `flock` need not be fair, for every process ends after one acquire.
* `watch`: both threads run and half a second passes. The developer may stop or
  go on.

What the failing runs show:

* `watch_lost`: a save is queued, polled and read; a second save within half a
  second of the first is dropped; nothing follows. The main thread's poll is not
  synchronised with the window, so the interval of five seconds does not help.
* `ledger_lost`: shortest with one unreadable file; two overlapping updates
  suffice as well. `LocalLedgerAddsUp` shows what is left: a lost update is lost
  as a whole.
* `merge_one_sided`: a single field suffices.

Three more weaknesses are steps of the models without a run of their own: with a
reused pid, `WaitStop` signals the pid of a root that `wait_bounded` reaped
itself (`broker.c:598`; `RecordsBacked` excludes the state `pc = "outcome"` for
this reason); with `MultiRoot`, the record of a pending WAIT can belong to a
child of another root when the WAIT ends (`broker.c:578`); and with
`--no-interactive` a merge with open conflicts is saved
(`project/commands.py:2149`, against `docs/guides/agile-scrum-workflows.md:571`).

Every property of a passing run has a mutant, a definition changed the way a
plausible bug would, under which TLC finds it violated: for example
`SubTreeOneLevel` (children are stopped, grandchildren not), `WaitStopRepliesOnly`
(a failed WAIT is answered and its root runs on), `ReplaysInOrder` (a reply is
handed out without comparing the request), `RecheckSkipped` (no second look
at the worktree), `DecideAnyOptimum` (one optimal alignment is enough),
`ExtractUnsynced` (members are not synced), `CoinDeltaLate` (the streak before the
run decides), `AfterPostBlind` (the status of a request is ignored).

## 4. Proofs

TLC checks the instances of section 3; the theorems hold for every value of the
constants. The inductive invariant of a component is at the end of its module,
as a conjunction of named parts; each was checked by TLC on the component's run
before it was proved.

| Module | Properties proved | Invariant | Assumptions |
|---|---|---|---|
| BrokerProofs | `TypeOK`, `UniqueHandles`, `ChildrenHaveParents` | `IInv` | `BrokerAssumption`: at least one record, `NoPid` not a pid |
| BrokerProofs | `NoLeakedProcess`, `RecordsBacked`, `ExitLeavesNoWorker`, `ImplementsService` | `IInv`, `ProcInv`, `FrameInv` | and `MultiRoot = FALSE` |
| NativeSessionProofs | `NoForgottenRoot`, `AnswersInStep`, `CloseEndsBroker`, `ResponseIsBacked` | `SessionInv` | those of NativeSession |
| CapsuleCacheProofs | `PublishedIsComplete`, `NoCollision`, `OrphansFromFaults` | `CacheInv` | those of CapsuleCache |
| ReviewGateProofs | `ChangedPassIsAboutOneTree`, `FailuresAreNotForgotten`, `FullPassHasNoBlocker`, `ReportSurvivesReading` | `GateInv` | `MembersAssumption`, `GateAssumption` |
| RangeReviewProofs | `UncertaintyIsKept`, `NoFindingVanishes`, `UnchangedIsBacked`, `RangePassIsClean`, `ContinuityIsExact`, `ControlsAreJudged` | `RangeInv` | `MembersAssumption`, `CellsAssumption`: the limit is a number, `RangeAssumption`: sources and findings are sequences, a finding has a line number |
| PersonaMergeProofs | `TypeOK`, `SoleOwnerWins`, `SidesInterchangeable`, `AnswersSaved` | `MergeInv` | those of PersonaMerge |
| LedgerProofs | `TypeOK`, `LocalLedgerAddsUp`, `SnapshotsBacked`, `RemoteSuccessIsComplete` | `LedgerInv` | those of Ledger |
| SyncWatchProofs | `NoSilentLoss` | `WatchInv` | `WatchAssumption` |

### The broker's table

None of the three table properties is inductive by itself. `IInv` adds:

* `TableInv`: an inactive record is empty, and a worker's parent has a smaller
  handle than the worker; without the order, a subtree could contain the worker
  whose request is being served, and the reply would go to a cleared record;
* `HandleInv`: every handle in the table is below `nextHandle`, so a new one is
  fresh;
* `LaunchInv`: only the record that `launch` names has handle 0, and a child's
  launch is nested in the turn of its active parent;
* `WaitInv`: the wait frame indexes the table, and the record in its turn is
  active and not reaped.

The argument: `StoppedClosed` (what `stop_worker` stops is closed under
children), `ClearKeepsTable` (clearing a closed set of records keeps the table
invariant: a surviving child has a surviving parent), `OlderSurvives` (the
subtree of a younger worker has younger workers only, so the worker that asked
is not among them). One lemma per group of actions, `NextIInv` puts them
together.

### The broker's processes and its contract

`ProcInv` ties the table to the kernel: `PidInv` (no two records wait for one
process, and nothing shares the root's), `RootInv` (one root), `BackedInv` (a
record that is not marked reaped has its process, except the one that
`wait_bounded` has just reaped), `WaitRootInv` (the record a WAIT looked up is
still the root's, or everything is gone) and `ExitInv`. `RootCovers` is the step
that needs an induction: every active record is in the subtree of the root, for
following parents to smaller handles ends there (the least element of a set of
handles, from `WFMin`). These theorems are about one root at a time, as the CLI
uses the broker; with several, `WaitRootInv` is false (`broker.c:578`, a hazard
without a property).

`BrokerImplementsService` shows step by step that the mapped state moves as
`BrokerService` allows or stutters (`ServiceMoves`), with `FrameInv` in addition:
the frame names a WAIT exactly while one is pending.

### The session

`SessionInv` says for every place of the controller's thread what the service
looks like there: nothing under way in `idle`, the request of the thread being
served, answered or lost in `waiting`. `AnswersInStep` follows from it, and that
a handle leaves `requests` only when its root is settled. The replay loop adds
that the replies are the tool runs so far (`LoopInv`), and a completed
response rests on what the last stage asked for and got (`ResponseInv`). An abandoned session is exempt from
the claims about the broker, which still may serve it.

### The capsule cache

The lock excludes (`LockInv`), only its holder has a staging directory and only
while the identity does not exist (`StageInv`), and what carries the identity has
every member and every entry synced (`FinalInv`), so a power failure has nothing
to take from it. The number of directories that a power failure can orphan is a
cardinality: `MadeAtMostOne` bounds it by one.

### The local review

The first half of `ReviewGateProofs` is about the operators of `ReviewReport`:
the validator is idempotent (`GovernedTwice`), a failing or unknown member shows
in the report of a capsule run after the catalogue and the macOS rule
(`CapsuleReport`), and after enforcement (`CapsuleEnforced`, `HostEnforced`). The
second half ties what was read to what was captured (`AboutInv`: while the
captured identity holds and was not left in between, everything read is of one
tree; `FrozenInv` bounds the versions by the moves, so a save is always a new
one), findings to what was
read, and evidence to findings and failures. Two assumptions came out of the
proof: some member runs inside the project runtime (`Dependent # {}`;
`_PROJECT_RUNTIME_MEMBERS`, `runner.py:88`), without which a restart after a
failed project runtime would forget the failure, and the value that stands for
"no tree" is not a tree.

### The range review

`RangeInv` has four parts. `DoubtInv` follows a doubt from the sides to the
report, past the three places that could lose it: the comparison of the sides
(`SideInDoubt`), the merge of the suppressions, where FAIL wins over UNKNOWN
(`MergeKeepsDoubt`), and the report (`ReportShowsDoubt`). `SideInv` says that a
member found what the snapshot holds, or nothing and is not trusted;
`ClassifiedInv` that a result is that of `classify_findings`; `CleanInv` what an
accepted member has to show.

The work is in the pure operators, which are proved for every request. A set of
findings has its sorted sequence (`InOrderLists`: the ranks are an injection into
as many numbers). By induction over the turns of the head findings, the pairs are
a matching (`TakeCertainPairs`, `PairsMatch`). So one partition sorts its head
findings into one class each, and a base finding that is nowhere is paired
(`PartitionSorts`). A result is the union of what each kind of finding, an
identity and a severity, adds to it (`FindingsFiled`), and a finding has one kind:
`FindingsAccounted` and `FindingsBacked` follow by counting along an injection.
The latter failed as first stated: with several rules on a line the number of
findings of one rule does not bound another's, so `UnchangedIsBacked` compares
rule and severity as well, and the run has such cases. For the controls,
`JudgeCovers` and `DeltaCovers` show that none of a changed file is left out.
`ReportAccepts` closes `RangePassIsClean`: a report that exits 0 has only accepted
evidence.

`ContinuityIsExact` compares the cost tables with the alignments they stand for.
`CostRowCells` and `EditCosts` show, by induction over the rows, that a cell is
the number of lines of the two prefixes less twice the size of their largest
alignment: an alignment ends in a pair of the last base line, which leaves an
alignment of shorter prefixes, or does without that line (`PrefixEnds`). A
forbidden pair is only one pair less to choose from (`AroundIsPrefix`). An
alignment through a pair is one before it, the pair, and one after it
(`ThroughSplits`, `ThroughJoins`), and what comes after is, mirrored, an alignment
of the reversed sources (`MirrorAfter`, `MirrorBack`), so the forced cost is that
of the largest alignment through the pair (`ForcedCostIs`). Comparing the three
sizes gives the answer (`DecideIsExact`, `CostsDecide`).

`ControlsAreJudged` rests on it. The line pairs and the fallback pairs of a token
are a matching (`SuppressionPairs`), so its controls are divided (`JudgeSorts`,
`PartDivides`). An undecided fallback pair has equal lines; on lines that occur
once it would have been a line pair, so none is left undecided and what is kept
maps one to one into the base (`KeptAreBacked`). A pair on every longest alignment
is a line pair that the costs call unchanged (`CarriedIsNotNew`). `DeltaLines`
carries this from a token to the delta of all files.

### The merge

`MergeInv` says that the settled paths are the conflicts the resolver finds, each
decided by the personas' rule or answered where that rule has no answer, and that
the merged bundle is the base with the settled values applied (`MergedAt`), where
`_apply_resolution` accepts them.
`MergeSidesInterchangeable` is about the operators: the rule of the personas and
the comparison of three values are symmetric.

### The ledger

`LocalLedgerAddsUp` compares the coins and counts of a file with sums over the
runs it lists, so it needs induction. The library's induction theorems take an
operator and cannot be used; `SetInduction` states the principle for a set and
follows from the well-foundedness of `<`. From it: a fold over a finite set
satisfies its recursion (`FoldExists`), a sum does not depend on the order
(`SumsAnyOrder`), appending a run adds its coins (`TotalAppend`), and recomputing
a history of any length gives a ledger that adds up (`RecordedAddsUp`).
`LocalInv` carries it through the processes: what one is about to write adds up
as well, so overlapping updates may lose a run but never mix two. `TablesInv`
orders the two requests of an update.

### Watch mode

`WatchInv` adds to `NoSilentLoss` that nothing is left to read while the main
thread sleeps.
`ReadsCover` is the step that matters: the callback that is about to run reads
every file that is behind and has a change in the queue that `Poll` empties, for
each of the three commands, unless the file is `Restored`.

### Only model-checked

* Liveness, which is beyond this proof system: `WaitEnds`, `ControllerLossEnds`,
  `AnswersRequests`, `CallsReturn`, `AcquireEnds`, `QueuedIsSynced`, `ComesToRest`.

Every safety property of the passing runs is proved.

## 5. Plan

Models: section locks and the patch marker if their commands acquire a lock.

## 6. Not modelled

Analysers, importers, generators and enrichers (text processing: their control is
a walk over a tree), the backlog adapters (calls of services through the core
package), `scope.py` and `toolchain.py` (sequential checks of revisions, digests
and versions that end in a value or a refusal, which the reviews take as a
choice; only the exact renames of `scope.py` are modelled), the release and
signing scripts (one-shot), the bootstrap's sandbox set-up (straight line, seen
by the broker as stages), `native_managed_process.py` (the worker's end of the
pipes, of which the broker's model takes every request), `watcher_enhanced.py` (used by no command), section locks
and the patch marker (load, check and save without a lock: two processes
interfere, and nothing in the repository says they do not). Most of the
repository's lines are of these kinds, so the map covers a small share of them;
the parts with several actors, failures or recovery are the ones modelled.
