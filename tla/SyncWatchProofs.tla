--------------------------- MODULE SyncWatchProofs ---------------------------
(***************************************************************************)
(* Proofs about SyncWatch: between the developer, the observer's thread    *)
(* and the main thread no change is lost silently, for every set of files, *)
(* every number of edits and each of the three commands.                   *)
(***************************************************************************)
EXTENDS SyncWatch, SequenceTheorems, TLAPS

-----------------------------------------------------------------------------
(* Queues. *)

LEMMA ToSetAppend ==
    ASSUME NEW T, NEW s \in Seq(T), NEW e \in T
    PROVE  Append(s, e) \in Seq(T) /\ ToSet(Append(s, e)) = ToSet(s) \cup {e}
<1> DEFINE n == Len(s)
           W == Append(s, e)
<1>1. /\ W \in Seq(T) /\ n \in Nat /\ DOMAIN s = 1 .. n /\ DOMAIN W = 1 .. n + 1
      /\ W[n + 1] = e /\ \A j \in 1 .. n : W[j] = s[j]
  OBVIOUS
<1> HIDE DEF n, W
<1>2. 1 .. n + 1 = (1 .. n) \cup {n + 1}
  BY <1>1
<1>3. {W[j] : j \in DOMAIN W} = {s[j] : j \in DOMAIN s} \cup {e}
  BY <1>1, <1>2
<1> QED
  BY <1>1, <1>3 DEF W, ToSet

LEMMA ToSetTail ==
    ASSUME NEW T, NEW s \in Seq(T), s # <<>>
    PROVE  /\ Head(s) \in T /\ Tail(s) \in Seq(T)
           /\ ToSet(s) = {Head(s)} \cup ToSet(Tail(s))
<1> DEFINE n == Len(s)
           W == Tail(s)
<1>1. /\ n \in Nat /\ n >= 1 /\ DOMAIN s = 1 .. n /\ Head(s) = s[1] /\ s[1] \in T
      /\ W \in Seq(T) /\ DOMAIN W = 1 .. n - 1 /\ \A j \in 1 .. n - 1 : W[j] = s[j + 1]
  BY EmptySeq
<1> HIDE DEF n, W
<1>2. {s[j] : j \in DOMAIN s} = {s[1]} \cup {W[j] : j \in DOMAIN W}
  <2>1. ASSUME NEW j \in 1 .. n
        PROVE  s[j] \in {s[1]} \cup {W[k] : k \in DOMAIN W}
    <3>1. CASE j = 1
      BY <3>1
    <3>2. CASE j # 1
      <4>1. j - 1 \in 1 .. n - 1 /\ (j - 1) + 1 = j
        BY <1>1, <3>2
      <4>2. W[j - 1] = s[j]
        BY <1>1, <4>1
      <4> QED
        BY <1>1, <4>1, <4>2
    <3> QED
      BY <3>1, <3>2
  <2>2. ASSUME NEW j \in 1 .. n - 1
        PROVE  W[j] \in {s[k] : k \in DOMAIN s}
    <3>1. j + 1 \in 1 .. n
      BY <1>1
    <3> QED
      BY <1>1, <3>1
  <2>3. s[1] \in {s[k] : k \in DOMAIN s}
    BY <1>1
  <2> QED
    BY <1>1, <2>1, <2>2, <2>3
<1> QED
  BY <1>1, <1>2 DEF W, ToSet
-----------------------------------------------------------------------------
(* WatchInv is an invariant. *)

EventType == [file : Files \cup {Output}, type : Types]
ChangeType == [file : Files \cup {Output}, type : Types, version : Nat]

\* What NoSilentLoss says of one file.
Safe(f) == Behind(f) => InPipeline(f) \/ f \in excused \/ Restored(f)

LEMMA WatchedFiles == Watched \subseteq Files /\ \A f \in Watched : Observed(f)
BY WatchAssumption DEF Watched, Files, Observed

LEMMA InitWatchInv == Init => WatchInv
<1> SUFFICES ASSUME Init
             PROVE  WatchInv
  OBVIOUS
<1>1. TypeInv
  BY DEF Init, TypeInv
<1>2. \A f \in Files : ~Behind(f)
  BY DEF Init, Behind
<1>3. NoSilentLoss
  BY <1>2, WatchedFiles DEF NoSilentLoss
<1> QED
  BY <1>1, <1>3 DEF Init, WatchInv

\* Every step keeps the mode, and with it the files that are looked after.
LEMMA SafeSuffices ==
    ASSUME WatchInv, mode' = mode, TypeInv',
           pc' # "callback" => todo' = {},
           pc' # "stopped" => \A f \in Watched : Safe(f)'
    PROVE  WatchInv'
<1>1. Watched' = Watched
  BY DEF Watched
<1>2. NoSilentLoss'
  BY <1>1 DEF NoSilentLoss, Safe
<1> QED
  BY <1>2 DEF WatchInv

\* An event of the observed tree is appended.
LEMMA EmitFacts ==
    ASSUME TypeInv, NEW g \in Files \cup {Output}, NEW t \in Types, Emit(g, t)
    PROVE  /\ events' \in Seq(EventType)
           /\ ToSet(events) \subseteq ToSet(events')
           /\ Observed(g) => Event(g, t) \in ToSet(events')
<1>1. events \in Seq(EventType) /\ Event(g, t) \in EventType
  BY DEF TypeInv, EventType, Event
<1>2. /\ Append(events, Event(g, t)) \in Seq(EventType)
      /\ ToSet(Append(events, Event(g, t))) = ToSet(events) \cup {Event(g, t)}
  BY <1>1, ToSetAppend
<1> QED
  BY <1>1, <1>2 DEF Emit

\* A file that stays where it is in the pipeline.
LEMMA StillSafe ==
    ASSUME NEW f, Safe(f), mode' = mode, disk'[f] = disk[f], synced'[f] = synced[f],
           InPipeline(f) => InPipeline(f)' \/ f \in excused',
           f \in excused => f \in excused'
    PROVE  Safe(f)'
BY DEF Safe, Behind, Restored

LEMMA EditKeeps ==
    ASSUME WatchInv, NEW g \in Files, Edit(g)
    PROVE  WatchInv'
<1>1. TypeInv /\ NoSilentLoss
  BY DEF WatchInv
<1>2. PICK t \in {"created", "modified"} : Emit(g, t)
  BY DEF Edit
<1>3. /\ events' \in Seq(EventType) /\ ToSet(events) \subseteq ToSet(events')
      /\ Observed(g) => Event(g, t) \in ToSet(events')
  BY <1>1, <1>2, EmitFacts DEF Types
<1>4. /\ mode' = mode /\ queue' = queue /\ pc' = pc /\ todo' = todo /\ synced' = synced
      /\ excused' = excused
  BY DEF Edit, sync
<1> DEFINE D == [version : Nat, exists : BOOLEAN, original : BOOLEAN]
<1>5. /\ disk' \in [Files -> D]
      /\ \A f \in Files : f # g => disk'[f] = disk[f]
  <2>1. PICK original \in BOOLEAN :
           disk' = [disk EXCEPT ![g] = [version |-> @.version + 1, exists |-> TRUE,
                                        original |-> original]]
    BY DEF Edit
  <2>2. [version |-> disk[g].version + 1, exists |-> TRUE, original |-> original] \in D
    BY <1>1 DEF TypeInv
  <2> QED
    BY <1>1, <2>1, <2>2 DEF TypeInv
<1>6. TypeInv'
  BY <1>1, <1>3, <1>4, <1>5 DEF TypeInv, EventType
<1>7. ASSUME pc' # "stopped", NEW f \in Watched
      PROVE  Safe(f)'
  <2>1. f \in Files /\ Observed(f) /\ Safe(f)
    BY <1>1, <1>4, <1>7, WatchedFiles DEF NoSilentLoss, Safe
  <2>2. CASE f = g
    <3>1. Event(f, t) \in ToSet(events') /\ Event(f, t).file = f /\ Event(f, t).type # "deleted"
      BY <1>3, <2>1, <2>2 DEF Event
    <3> QED
      BY <3>1 DEF Safe, InPipeline
  <2>3. CASE f # g
    <3>1. disk'[f] = disk[f]
      BY <1>5, <2>1, <2>3
    <3>2. InPipeline(f) => InPipeline(f)'
      BY <1>3, <1>4 DEF InPipeline
    <3> QED
      BY <1>4, <2>1, <3>1, <3>2, StillSafe
  <2> QED
    BY <2>2, <2>3
<1> QED
  BY <1>4, <1>6, <1>7, SafeSuffices DEF WatchInv

LEMMA DeleteKeeps ==
    ASSUME WatchInv, NEW g \in Files, Delete(g)
    PROVE  WatchInv'
<1>1. TypeInv /\ NoSilentLoss
  BY DEF WatchInv
<1>2. events' \in Seq(EventType) /\ ToSet(events) \subseteq ToSet(events')
  <2>1. Emit(g, "deleted") /\ "deleted" \in Types
    BY DEF Delete, Types
  <2> QED
    BY <1>1, <2>1, EmitFacts
<1>3. /\ mode' = mode /\ queue' = queue /\ pc' = pc /\ todo' = todo /\ synced' = synced
      /\ excused' = excused
      /\ disk' = [disk EXCEPT ![g].exists = FALSE]
  BY DEF Delete, sync
<1>4. disk' \in [Files -> [version : Nat, exists : BOOLEAN, original : BOOLEAN]]
      /\ disk'[g].exists = FALSE
  BY <1>1, <1>3 DEF TypeInv
<1>5. TypeInv'
  BY <1>1, <1>2, <1>3, <1>4 DEF TypeInv, EventType
<1>6. ASSUME pc' # "stopped", NEW f \in Watched
      PROVE  Safe(f)'
  <2>1. f \in Files /\ Safe(f)
    BY <1>1, <1>3, <1>6, WatchedFiles DEF NoSilentLoss, Safe
  <2>2. CASE f = g
    BY <1>4, <2>2 DEF Safe, Behind
  <2>3. CASE f # g
    <3>1. disk'[f] = disk[f]
      BY <1>1, <1>3, <2>1, <2>3 DEF TypeInv
    <3>2. InPipeline(f) => InPipeline(f)'
      BY <1>2, <1>3 DEF InPipeline
    <3> QED
      BY <1>3, <2>1, <3>1, <3>2, StillSafe
  <2> QED
    BY <2>2, <2>3
<1> QED
  BY <1>3, <1>5, <1>6, SafeSuffices DEF WatchInv

\* The event at the head becomes a change of the same file and type.
LEMMA AcceptKeeps ==
    ASSUME WatchInv, Accept
    PROVE  WatchInv'
<1>1. TypeInv /\ NoSilentLoss
  BY DEF WatchInv
<1> DEFINE e == Head(events)
           ch == Change(e)
<1>2. /\ mode' = mode /\ disk' = disk /\ pc' = pc /\ todo' = todo /\ synced' = synced
      /\ excused' = excused
      /\ queue' = Append(queue, ch) /\ events' = Tail(events) /\ events # <<>>
  BY DEF Accept, files, sync
<1>3. /\ e \in EventType /\ events' \in Seq(EventType)
      /\ ToSet(events) = {e} \cup ToSet(events')
  <2>1. events \in Seq(EventType)
    BY <1>1 DEF TypeInv, EventType
  <2> QED
    BY <1>2, <2>1, ToSetTail
<1> HIDE DEF e
<1>4. ch \in ChangeType /\ ch.file = e.file /\ ch.type = e.type
  <2>1. e.file \in Files \cup {Output} /\ e.type \in Types
    BY <1>3 DEF EventType
  <2>2. PICK v \in Nat : v = IF e.file \in Files THEN disk[e.file].version ELSE 0
    BY <1>1 DEF TypeInv
  <2>3. ch = [file |-> e.file, type |-> e.type, version |-> v]
    BY <2>2 DEF Change
  <2> QED
    BY <2>1, <2>3 DEF ChangeType
<1> HIDE DEF ch
<1>5. queue' \in Seq(ChangeType) /\ ToSet(queue') = ToSet(queue) \cup {ch}
  <2>1. queue \in Seq(ChangeType)
    BY <1>1 DEF TypeInv, ChangeType
  <2> QED
    BY <1>2, <1>4, <2>1, ToSetAppend
<1>6. TypeInv'
  BY <1>1, <1>2, <1>3, <1>5 DEF TypeInv, EventType, ChangeType
<1>7. ASSUME pc' # "stopped", NEW f \in Watched
      PROVE  Safe(f)'
  <2>1. Safe(f)
    BY <1>1, <1>2, <1>7 DEF NoSilentLoss, Safe
  <2>2. InPipeline(f) => InPipeline(f)'
    BY <1>2, <1>3, <1>4, <1>5 DEF InPipeline
  <2> QED
    BY <1>2, <2>1, <2>2, StillSafe
<1> QED
  BY <1>2, <1>6, <1>7, SafeSuffices DEF WatchInv

\* The file of an event that is dropped is excused.
LEMMA DebounceKeeps ==
    ASSUME WatchInv, Debounce
    PROVE  WatchInv'
<1>1. TypeInv /\ NoSilentLoss
  BY DEF WatchInv
<1> DEFINE e == Head(events)
<1>2. /\ mode' = mode /\ disk' = disk /\ pc' = pc /\ todo' = todo /\ synced' = synced
      /\ queue' = queue /\ events' = Tail(events) /\ events # <<>>
      /\ excused' = excused \cup ({e.file} \cap Files)
  BY DEF Debounce, files, sync
<1>3. events' \in Seq(EventType) /\ ToSet(events) = {e} \cup ToSet(events')
  <2>1. events \in Seq(EventType)
    BY <1>1 DEF TypeInv, EventType
  <2> QED
    BY <1>2, <2>1, ToSetTail
<1> HIDE DEF e
<1>4. TypeInv'
  BY <1>1, <1>2, <1>3 DEF TypeInv, EventType
<1>5. ASSUME pc' # "stopped", NEW f \in Watched
      PROVE  Safe(f)'
  <2>1. f \in Files /\ Safe(f)
    BY <1>1, <1>2, <1>5, WatchedFiles DEF NoSilentLoss, Safe
  <2>2. InPipeline(f) => InPipeline(f)' \/ f \in excused'
    BY <1>2, <1>3, <2>1 DEF InPipeline
  <2> QED
    BY <1>2, <2>1, <2>2, StillSafe
<1> QED
  BY <1>2, <1>4, <1>5, SafeSuffices DEF WatchInv

LEMMA WindowEndsKeeps ==
    ASSUME WatchInv, WindowEnds
    PROVE  WatchInv'
<1>1. /\ mode' = mode /\ disk' = disk /\ pc' = pc /\ todo' = todo /\ synced' = synced
      /\ queue' = queue /\ events' = events /\ excused' = excused
  BY DEF WindowEnds, files, sync
<1> QED
  BY <1>1 DEF WatchInv, TypeInv, NoSilentLoss, Watched, Behind, Restored, InPipeline

\* A change that is not a deletion puts its file among the changed files.
LEMMA ChangedFile ==
    ASSUME TypeInv, NEW c \in ToSet(queue), c.type # "deleted"
    PROVE  /\ c.file \in ChangedFiles(queue, {"created", "modified"})
           /\ c.file \in ChangedFiles(queue, AnyType)
<1>1. PICK i \in DOMAIN queue : c = queue[i]
  BY DEF ToSet
<1>2. c.type \in {"created", "modified", "deleted"}
  <2>1. queue \in Seq(ChangeType)
    BY DEF TypeInv, ChangeType
  <2>2. queue[i] \in ChangeType
    BY <2>1, ElementOfSeq
  <2> QED
    BY <1>1, <2>2 DEF ChangeType, Types
<1>3. /\ i \in {j \in DOMAIN queue : queue[j].type \in {"created", "modified"}}
      /\ i \in {j \in DOMAIN queue : queue[j].type \in AnyType}
  BY <1>1, <1>2 DEF AnyType
<1> QED
  BY <1>1, <1>3 DEF ChangedFiles

\* The callback that is about to run reads every file that is behind and has a
\* change in the queue, whichever command is watched - but for a file that sync
\* intelligent takes for unchanged.
LEMMA ReadsCover ==
    ASSUME WatchInv
    PROVE  /\ Reads(queue) \in SUBSET Files
           /\ \A f \in Watched : \A c \in ToSet(queue) :
                 Behind(f) /\ c.file = f /\ c.type # "deleted" => f \in Reads(queue) \/ Restored(f)
<1>1. TypeInv
  BY DEF WatchInv
<1>2. mode \in {"repository", "intelligent", "bridge"}
  BY <1>1, WatchAssumption DEF TypeInv
<1>3. CASE mode = "repository"
  <2>1. Reads(queue) = RepositoryReads(queue) /\ Watched = Code
    BY <1>3 DEF Reads, Watched
  <2> QED
    BY <1>1, <2>1, ChangedFile DEF RepositoryReads, Files
<1>4. CASE mode = "intelligent"
  <2>1. Reads(queue) = IntelligentReads /\ Watched = Code
    BY <1>4 DEF Reads, Watched
  <2> QED
    BY <1>4, <2>1 DEF IntelligentReads, Restored, Files
<1>5. CASE mode = "bridge"
  <2>1. Reads(queue) = BridgeReads(queue) /\ Watched = Artifacts
    BY <1>5 DEF Reads, Watched
  <2> QED
    BY <1>1, <2>1, ChangedFile DEF BridgeReads, Files
<1> QED
  BY <1>2, <1>3, <1>4, <1>5

\* The queue is emptied before the callback runs; what was in it is in todo.
LEMMA PollKeeps ==
    ASSUME WatchInv, Poll
    PROVE  WatchInv'
<1>1. TypeInv /\ NoSilentLoss
  BY DEF WatchInv
<1>2. /\ mode' = mode /\ disk' = disk /\ synced' = synced
      /\ events' = events /\ excused' = excused
      /\ pc = "sleep" /\ queue' = <<>> /\ todo' = Reads(queue)
      /\ pc' = IF Reads(queue) = {} THEN "sleep" ELSE "callback"
  BY DEF Poll, files
<1>3. pc' \in {"sleep", "callback", "stopped"} /\ (pc' # "callback" => todo' = {})
  BY <1>2
<1>4. queue' \in Seq([file : Files \cup {Output}, type : Types, version : Nat])
  BY <1>2
<1>5. TypeInv'
  BY <1>1, <1>2, <1>3, <1>4, ReadsCover DEF TypeInv
<1>6. ASSUME NEW f \in Watched
      PROVE  Safe(f)'
  <2>1. Safe(f) /\ todo = {}
    BY <1>1, <1>2 DEF NoSilentLoss, Safe, WatchInv
  <2>2. ASSUME Behind(f), InPipeline(f), ~Restored(f)
        PROVE  InPipeline(f)'
    <3>1. CASE \E e \in ToSet(events) : e.file = f /\ e.type # "deleted"
      BY <1>2, <3>1 DEF InPipeline
    <3>2. CASE \E c \in ToSet(queue) : c.file = f /\ c.type # "deleted"
      <4>1. f \in todo'
        BY <1>2, <2>2, <3>2, ReadsCover
      <4> QED
        BY <4>1 DEF InPipeline
    <3> QED
      BY <2>1, <2>2, <3>1, <3>2 DEF InPipeline
  <2> QED
    BY <1>2, <2>1, <2>2 DEF Safe, Behind, Restored
<1> QED
  BY <1>2, <1>3, <1>5, <1>6, SafeSuffices

\* The file that was read is not behind any more; an edit during the read is
\* another step, with an event of its own.
LEMMA ReadKeeps ==
    ASSUME WatchInv, NEW g \in Files, Read(g)
    PROVE  WatchInv'
<1>1. TypeInv /\ NoSilentLoss
  BY DEF WatchInv
<1>2. /\ mode' = mode /\ disk' = disk /\ pc' = pc
      /\ events' = events /\ queue' = queue
      /\ pc = "callback" /\ todo' = todo \ {g} /\ excused' = excused \ {g}
      /\ synced' = IF disk[g].exists THEN [synced EXCEPT ![g] = disk[g].version] ELSE synced
  BY DEF Read, files, observer
<1>3. /\ synced' \in [Files -> Nat]
      /\ \A f \in Files : f # g => synced'[f] = synced[f]
      /\ disk[g].exists => synced'[g] = disk[g].version
  BY <1>1, <1>2 DEF TypeInv
<1>4. TypeInv'
  BY <1>1, <1>2, <1>3 DEF TypeInv
<1>5. ASSUME NEW f \in Watched
      PROVE  Safe(f)'
  <2>1. f \in Files /\ Safe(f)
    BY <1>1, <1>2, WatchedFiles DEF NoSilentLoss, Safe
  <2>2. CASE f = g
    <3>1. disk[f].version \in Nat
      BY <1>1, <2>1 DEF TypeInv
    <3> QED
      BY <1>2, <1>3, <2>2, <3>1 DEF Safe, Behind
  <2>3. CASE f # g
    <3>1. InPipeline(f) => InPipeline(f)'
      BY <1>2, <2>3 DEF InPipeline
    <3> QED
      BY <1>2, <1>3, <2>1, <2>3, <3>1, StillSafe
  <2> QED
    BY <2>2, <2>3
<1> QED
  BY <1>2, <1>4, <1>5, SafeSuffices

LEMMA CallbackDoneKeeps ==
    ASSUME WatchInv, CallbackDone
    PROVE  WatchInv'
<1>1. TypeInv /\ NoSilentLoss
  BY DEF WatchInv
<1>2. /\ mode' = mode /\ disk' = disk /\ synced' = synced
      /\ queue' = queue /\ excused' = excused /\ todo' = todo
      /\ pc = "callback" /\ todo = {} /\ pc' = "sleep"
  BY DEF CallbackDone, files
<1>3. events' \in Seq(EventType) /\ ToSet(events) \subseteq ToSet(events')
  <2>1. Emit(Output, "modified") /\ "modified" \in Types
    BY DEF CallbackDone, Types
  <2> QED
    BY <1>1, <2>1, EmitFacts
<1>4. TypeInv'
  BY <1>1, <1>2, <1>3 DEF TypeInv, EventType
<1>5. ASSUME NEW f \in Watched
      PROVE  Safe(f)'
  <2>1. Safe(f)
    BY <1>1, <1>2 DEF NoSilentLoss, Safe
  <2>2. InPipeline(f) => InPipeline(f)'
    BY <1>2, <1>3 DEF InPipeline
  <2> QED
    BY <1>2, <2>1, <2>2, StillSafe
<1> QED
  BY <1>2, <1>4, <1>5, SafeSuffices

\* What a failing callback had not read is excused.
LEMMA CallbackFailsKeeps ==
    ASSUME WatchInv, CallbackFails
    PROVE  WatchInv'
<1>1. TypeInv /\ NoSilentLoss
  BY DEF WatchInv
<1>2. /\ mode' = mode /\ disk' = disk /\ synced' = synced
      /\ queue' = queue /\ events' = events /\ excused' = excused \cup todo /\ todo' = {}
      /\ pc = "callback" /\ pc' = "sleep"
  BY DEF CallbackFails, files, observer
<1>3. TypeInv'
  BY <1>1, <1>2 DEF TypeInv
<1>4. ASSUME NEW f \in Watched
      PROVE  Safe(f)'
  <2>1. Safe(f)
    BY <1>1, <1>2 DEF NoSilentLoss, Safe
  <2>2. InPipeline(f) => InPipeline(f)' \/ f \in excused'
    BY <1>2 DEF InPipeline
  <2> QED
    BY <1>2, <2>1, <2>2, StillSafe
<1> QED
  BY <1>2, <1>3, <1>4, SafeSuffices

LEMMA StopKeeps ==
    ASSUME WatchInv, Stop
    PROVE  WatchInv'
<1>1. /\ mode' = mode /\ disk' = disk /\ synced' = synced
      /\ queue' = queue /\ events' = events /\ todo' = {} /\ pc' = "stopped"
  BY DEF Stop, files, observer
<1>2. TypeInv'
  BY <1>1 DEF WatchInv, TypeInv
<1> QED
  BY <1>1, <1>2, SafeSuffices

LEMMA NextWatchInv == WatchInv /\ [Next]_vars => WatchInv'
<1> SUFFICES ASSUME WatchInv, [Next]_vars
             PROVE  WatchInv'
  OBVIOUS
<1>1. CASE UNCHANGED vars
  BY <1>1 DEF vars, WatchInv, TypeInv, NoSilentLoss, Watched, Behind, Restored, InPipeline
<1>2. ASSUME NEW f \in Files, Edit(f) \/ Delete(f)
      PROVE  WatchInv'
  BY <1>2, EditKeeps, DeleteKeeps
<1>3. CASE Observe
  BY <1>3, AcceptKeeps, DebounceKeeps DEF Observe
<1>4. CASE Main
  BY <1>4, PollKeeps, ReadKeeps, CallbackDoneKeeps DEF Main
<1> QED
  BY <1>1, <1>2, <1>3, <1>4, WindowEndsKeeps, CallbackFailsKeeps, StopKeeps DEF Next, Asleep
-----------------------------------------------------------------------------
(* The theorems. *)

\* The queue, the running callback, the debounced files and, for sync
\* intelligent, the files set back to their first content account for every
\* difference between the disk and the last sync, in all reachable states of
\* watcher.py's and bridge_watch.py's two threads.
THEOREM WatchInvariant == Spec => []WatchInv
BY InitWatchInv, NextWatchInv, PTL DEF Spec

\* _process_pending_changes and _queue_change lose no change between them: a
\* file that is behind is on its way, or its change was debounced or failed, or
\* it has the content again that sync intelligent started with.
THEOREM WatchNoSilentLoss == Spec => []NoSilentLoss
<1>1. WatchInv => NoSilentLoss
  BY DEF WatchInv
<1> QED
  BY <1>1, WatchInvariant, PTL
=============================================================================
