------------------------------ MODULE SyncWatch ------------------------------
(***************************************************************************)
(* Watch mode of `sync repository`, `sync intelligent` and `sync bridge`    *)
(* (sync_runtime/watcher.py, bridge_watch.py and their callbacks).  Three   *)
(* parties run at once: a developer edits files; the observer's thread      *)
(* handles file events one by one, debounces them and queues changes; the   *)
(* main thread wakes up now and then, takes everything off the queue and    *)
(* runs a sync callback, which reads files and writes its result below      *)
(* .specfact, inside the watched tree.                                      *)
(*                                                                          *)
(* Time is abstract: a file is in its debounce window from an accepted      *)
(* event until WindowEnds, and the main thread may wake up at any moment.   *)
(***************************************************************************)
EXTENDS Naturals, Sequences, SequencesExt

CONSTANTS
    Code,       \* source files (type "code")
    Artifacts,  \* files below the bridge's artifact paths (type "spec_kit")
    Output,     \* what a sync writes below .specfact (type "specfact")
    Modes,      \* which of the three commands are watched
    MaxEdits,   \* bound: edits of the developer
    Faults      \* TRUE: callbacks may fail and the user may press Ctrl+C

ASSUME WatchAssumption ==
    /\ Modes \subseteq {"repository", "intelligent", "bridge"}
    /\ MaxEdits \in Nat
    /\ Faults \in BOOLEAN
    /\ Code \cap Artifacts = {}
    /\ Output \notin Code \cup Artifacts

VARIABLES
    mode,       \* the command that runs
    disk,       \* version of each file; exists or not; original: its content is
                \* the one the bundle has that the command loaded at its start
    edits,      \* edits so far
    events,     \* events the observer's thread has not handled
    recent,     \* files in their debounce window
    queue,      \* change_queue
    pc,         \* the main thread
    todo,       \* files the running callback still has to read
    synced,     \* version of each file that a sync last used
    excused     \* history: files with a change that was dropped or has failed

vars == <<mode, disk, edits, events, recent, queue, pc, todo, synced, excused>>
files == <<disk, edits>>
observer == <<events, recent, queue>>
sync == <<pc, todo, synced>>

Files == Code \cup Artifacts

Event(f, t) == [file |-> f, type |-> t]

Init ==
    /\ mode \in Modes
    /\ disk = [f \in Files |-> [version |-> 0, exists |-> TRUE, original |-> TRUE]]
    /\ edits = 0
    /\ events = <<>> /\ recent = {} /\ queue = <<>>
    /\ pc = "sleep" /\ todo = {}
    /\ synced = [f \in Files |-> 0]
    /\ excused = {}

-----------------------------------------------------------------------------
(* The developer. *)

\* BridgeWatch observes the artifact directories and .specfact, SyncWatcher the
\* whole repository.
Observed(f) == mode = "bridge" => f \notin Code

Emit(f, t) == events' = IF Observed(f) THEN Append(events, Event(f, t)) ELSE events

\* Every edit is another version, also one that sets a file back to its first
\* content.
Edit(f) ==
    /\ edits < MaxEdits
    /\ edits' = edits + 1
    /\ \E original \in BOOLEAN :
         disk' = [disk EXCEPT ![f] = [version |-> @.version + 1, exists |-> TRUE,
                                      original |-> original]]
    /\ Emit(f, IF disk[f].exists THEN "modified" ELSE "created")
    /\ UNCHANGED <<mode, recent, queue, sync, excused>>

Delete(f) ==
    /\ edits < MaxEdits
    /\ disk[f].exists
    /\ edits' = edits + 1
    /\ disk' = [disk EXCEPT ![f].exists = FALSE]
    /\ Emit(f, "deleted")
    /\ UNCHANGED <<mode, recent, queue, sync, excused>>

-----------------------------------------------------------------------------
(* The observer's thread: _queue_change. *)

\* The version is not part of a change; it is remembered for the properties.
Change(e) ==
    [file |-> e.file, type |-> e.type,
     version |-> IF e.file \in Files THEN disk[e.file].version ELSE 0]

\* The first event of a burst is kept.
Accept ==
    /\ pc # "stopped" /\ events # <<>>
    /\ Head(events).file \notin recent
    /\ recent' = recent \cup {Head(events).file}
    /\ queue' = Append(queue, Change(Head(events)))
    /\ events' = Tail(events)
    /\ UNCHANGED <<mode, files, sync, excused>>

\* The others are dropped.
Debounce ==
    /\ pc # "stopped" /\ events # <<>>
    /\ Head(events).file \in recent
    /\ events' = Tail(events)
    /\ excused' = excused \cup ({Head(events).file} \cap Files)
    /\ UNCHANGED <<mode, files, recent, queue, sync>>

WindowEnds ==
    /\ \E f \in recent : recent' = recent \ {f}
    /\ UNCHANGED <<mode, files, events, queue, sync, excused>>

-----------------------------------------------------------------------------
(* The main thread: _process_pending_changes and the three callbacks. *)

ChangedFiles(q, types) == {q[i].file : i \in {j \in DOMAIN q : q[j].type \in types}}
AnyType == {"created", "modified", "deleted"}

\* make_repository_watch_callback: nothing unless a code file changed; then
\* detect_code_changes reads every source file.
RepositoryReadsAlways(q) == IF q = <<>> THEN {} ELSE Code
RepositoryReads(q) == IF ChangedFiles(q, AnyType) \cap Code # {} THEN Code ELSE {}

\* run_intelligent_sync_cycle: whatever changed, every tracked file whose hash
\* differs from the one in the bundle that was loaded when the command started.
IntelligentReads == {f \in Code : ~disk[f].original \/ ~disk[f].exists}

\* The bridge's default callback imports what was created or modified.
BridgeReads(q) == ChangedFiles(q, {"created", "modified"}) \cap Artifacts

Reads(q) ==
    CASE mode = "repository"  -> RepositoryReads(q)
      [] mode = "intelligent" -> IntelligentReads
      [] mode = "bridge"      -> BridgeReads(q)

\* The queue is emptied before the callback runs.
PollBatches ==
    /\ pc = "sleep" /\ Len(queue) > 1
    /\ queue' = <<>>
    /\ todo' = Reads(queue)
    /\ pc' = IF Reads(queue) = {} THEN "sleep" ELSE "callback"
    /\ UNCHANGED <<mode, files, events, recent, synced, excused>>

Poll ==
    /\ pc = "sleep" /\ queue # <<>>
    /\ queue' = <<>>
    /\ todo' = Reads(queue)
    /\ pc' = IF Reads(queue) = {} THEN "sleep" ELSE "callback"
    /\ UNCHANGED <<mode, files, events, recent, synced, excused>>

\* The callback reads one file; a file that is gone contributes nothing.
Read(f) ==
    /\ pc = "callback" /\ f \in todo
    /\ todo' = todo \ {f}
    /\ synced' = IF disk[f].exists THEN [synced EXCEPT ![f] = disk[f].version] ELSE synced
    /\ excused' = excused \ {f}
    /\ UNCHANGED <<mode, files, observer, pc>>

\* It writes the plan, the bundle or the import below .specfact and returns.
CallbackDoneClears ==
    /\ pc = "callback" /\ todo = {}
    /\ pc' = "sleep"
    /\ queue' = <<>>
    /\ Emit(Output, "modified")
    /\ UNCHANGED <<mode, files, recent, todo, synced, excused>>

CallbackDone ==
    /\ pc = "callback" /\ todo = {}
    /\ pc' = "sleep"
    /\ Emit(Output, "modified")
    /\ UNCHANGED <<mode, files, recent, queue, todo, synced, excused>>

\* An exception in the callback is printed and swallowed; so is a failed import
\* of one artifact.
CallbackFails ==
    /\ Faults
    /\ pc = "callback"
    /\ pc' = "sleep"
    /\ excused' = excused \cup todo
    /\ todo' = {}
    /\ UNCHANGED <<mode, files, observer, synced>>

\* Ctrl+C: the observer stops, the queue is not processed any more.
Stop ==
    /\ Faults
    /\ pc # "stopped"
    /\ pc' = "stopped"
    /\ todo' = {}
    /\ UNCHANGED <<mode, files, observer, synced, excused>>

-----------------------------------------------------------------------------
Observe == Accept \/ Debounce
Main == Poll \/ (\E f \in Files : Read(f)) \/ CallbackDone

Asleep == pc \in {"sleep", "stopped"} /\ UNCHANGED vars

Next ==
    \/ \E f \in Files : Edit(f) \/ Delete(f)
    \/ Observe \/ WindowEnds \/ Main \/ CallbackFails \/ Stop
    \/ Asleep

Spec == Init /\ [][Next]_vars

\* Both threads run, and half a second passes.  Nothing is assumed of the
\* developer.
FairSpec == Spec /\ WF_vars(Observe) /\ WF_vars(Main) /\ WF_vars(WindowEnds)

-----------------------------------------------------------------------------
\* The files the mode's callback looks after.
Watched == IF mode = "bridge" THEN Artifacts ELSE Code

Behind(f) == disk[f].exists /\ synced[f] < disk[f].version

InPipeline(f) ==
    \/ \E e \in ToSet(events) : e.file = f /\ e.type # "deleted"
    \/ \E c \in ToSet(queue) : c.file = f /\ c.type # "deleted"
    \/ f \in todo

\* sync intelligent takes a file with its first content for unchanged, whatever
\* it synced since.
Restored(f) == mode = "intelligent" /\ disk[f].original

\* A file whose latest content was not synced is on its way to the callback, or
\* its change was dropped by the debounce or hit a failing callback: nothing is
\* lost between the two threads, also when a file changes while it is read or
\* an event is queued while the queue is emptied.  The exception is sync
\* intelligent, which never syncs a file that is set back to its first content
\* (detect_changes compares hashes with the bundle of the start).
NoSilentLoss ==
    pc # "stopped" =>
        \A f \in Watched : Behind(f) => InPipeline(f) \/ f \in excused \/ Restored(f)

\* An accepted change reaches a sync: some callback uses that version of the
\* file or a later one, unless it fails, the file is deleted or, under sync
\* intelligent, set back to its first content, or the user stops.
Queued(f, v) == \E c \in ToSet(queue) : c.file = f /\ c.type # "deleted" /\ c.version = v
QueuedIsSynced ==
    \A f \in Files, v \in 1 .. MaxEdits :
        Queued(f, v) /\ f \in Watched
        ~> \/ synced[f] >= v
           \/ f \in excused \/ ~disk[f].exists \/ Restored(f) \/ pc = "stopped"

\* When the developer stops, the watcher comes to rest: what a sync writes
\* below .specfact does not keep triggering syncs.  (sync intelligent compares
\* with the bundle it loaded at its start and never comes to rest.)
ComesToRest ==
    mode # "intelligent" => <>[](pc # "callback")

\* "Continuously watch and sync changes" (SyncWatcher.watch): when edits stop,
\* the last content of a file is synced.
LastEditSynced ==
    \A f \in Files : (f \in Watched /\ Behind(f)) ~> (synced[f] = disk[f].version \/ ~disk[f].exists)
-----------------------------------------------------------------------------
(* The invariant behind NoSilentLoss: SyncWatchProofs shows that it is      *)
(* inductive.                                                               *)

Types == {"created", "modified", "deleted"}

TypeInv ==
    /\ mode \in Modes
    /\ disk \in [Files -> [version : Nat, exists : BOOLEAN, original : BOOLEAN]]
    /\ events \in Seq([file : Files \cup {Output}, type : Types])
    /\ queue \in Seq([file : Files \cup {Output}, type : Types, version : Nat])
    /\ pc \in {"sleep", "callback", "stopped"}
    /\ todo \in SUBSET Files
    /\ synced \in [Files -> Nat]

\* Nothing is left to read while the main thread sleeps.
WatchInv ==
    /\ TypeInv
    /\ pc # "callback" => todo = {}
    /\ NoSilentLoss
=============================================================================
