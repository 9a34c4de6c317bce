------------------------- MODULE CapsuleCacheProofs -------------------------
(***************************************************************************)
(* Proofs about CapsuleCache: its safety properties hold for any number of *)
(* processes, any archive and any number of crashes, power failures and    *)
(* failed removals.                                                        *)
(***************************************************************************)
EXTENDS CapsuleCache, FiniteSetTheorems, TLAPS

-----------------------------------------------------------------------------
(* Directories.                                                            *)

\* Among directories of which at most one exists, at most one is counted.
LEMMA MadeAtMostOne ==
    ASSUME NEW dirs, \A d, e \in dirs : d.made /\ e.made => d = e
    PROVE  /\ Made(dirs) \in {0, 1}
           /\ (\A d \in dirs : ~d.made) => Made(dirs) = 0
<1> DEFINE M == {d \in dirs : d.made}
<1>1. CASE M = {}
  BY <1>1, FS_EmptySet DEF Made
<1>2. CASE M # {}
  <2>1. PICK d \in M : TRUE
    BY <1>2
  <2>2. M = {d}
    BY <2>1
  <2>3. Cardinality(M) = 1
    BY <2>2, FS_Singleton
  <2> QED
    BY <2>1, <2>3 DEF Made
<1> QED
  BY <1>1, <1>2

\* A power failure takes nothing from a directory that is complete and synced
\* with its entries.
LEMMA SyncedRemains ==
    ASSUME NEW d \in Dir, NEW e \in Remains(d),
           d.made => d.held = Members /\ d.synced = Members /\ d.entries
    PROVE  /\ e \in Dir
           /\ e.made = d.made
           /\ e.made => e.held = Members /\ e.synced = Members /\ e.entries
<1>1. CASE ~d.made
  <2>1. e = NoDir
    BY <1>1, Zenon DEF Remains
  <2> QED
    BY <1>1, <2>1 DEF NoDir, Dir
<1>2. CASE d.made
  <2>1. PICK h \in SUBSET d.held :
          /\ d.entries => d.synced \subseteq h
          /\ e = [d EXCEPT !.held = h, !.synced = h, !.entries = TRUE]
    BY <1>2 DEF Remains
  <2>2. h = Members
    BY <1>2, <2>1
  <2> QED
    BY <1>2, <2>1, <2>2 DEF Dir
<1> QED
  BY <1>1, <1>2

\* Extracting a member changes what is held and synced alike; the entries are
\* written by the verification that follows.
LEMMA Extracted ==
    ASSUME NEW d \in Dir, NEW f \in Members
    PROVE  LET e == [d EXCEPT !.held = @ \cup {f}, !.synced = @ \cup {f}, !.entries = FALSE]
           IN  /\ e \in Dir /\ e.made = d.made
               /\ e.held = d.held \cup {f} /\ e.synced = d.synced \cup {f}
BY DEF Dir

LEMMA Verified ==
    ASSUME NEW d \in Dir
    PROVE  LET e == [d EXCEPT !.entries = TRUE]
           IN  /\ e \in Dir /\ e.made = d.made
               /\ e.held = d.held /\ e.synced = d.synced /\ e.entries
BY DEF Dir

\* The member that is extracted next is one of the archive's.
LEMMA NextMember ==
    ASSUME NEW held \in SUBSET Members, Cardinality(held) + 1 <= Len(Files)
    PROVE  Files[Cardinality(held) + 1] \in Members
<1>1. IsFiniteSet(DOMAIN Files)
  <2>1. DOMAIN Files = 1..Len(Files) /\ Len(Files) \in Nat
    BY CacheAssumption
  <2> QED
    BY <2>1, FS_Interval
<1>2. IsFiniteSet(Members)
  <2>1. Files \in Surjection(DOMAIN Files, Members)
    BY CacheAssumption DEF Surjection, Members
  <2> QED
    BY <1>1, <2>1, FS_Surjection
<1>3. Cardinality(held) \in Nat
  <2>1. IsFiniteSet(held)
    BY <1>2, FS_Subset
  <2> QED
    BY <2>1, FS_CardinalityType
<1>4. Cardinality(held) + 1 \in DOMAIN Files
  BY <1>3, CacheAssumption
<1> QED
  BY <1>4 DEF Members

-----------------------------------------------------------------------------
(* The steps of a process.                                                 *)

\* One step of acquire_native_capsule keeps the invariant.
LEMMA StepKeeps ==
    ASSUME CacheInv, NEW p \in Procs, Step(p)
    PROVE  CacheInv'
<1> USE DEF CacheInv, TypeInv, LockInv, StageInv, FinalInv, Complete,
            Holding, Staging, At
<1>1. CASE Start(p)
  BY <1>1 DEF Start
<1>2. CASE Lock(p)
  BY <1>2 DEF Lock
<1>3. CASE Lookup(p)
  <2>1. CASE UNCHANGED stage
    BY <1>3, <2>1 DEF Lookup
  <2>2. CASE stage' = [stage EXCEPT ![p] = NewDir]
    <3>1. /\ NewDir \in Dir
          /\ NewDir.held = NewDir.synced
      BY DEF NewDir, Dir
    <3> QED
      BY <1>3, <2>2, <3>1 DEF Lookup
  <2> QED
    BY <1>3, <2>1, <2>2 DEF Lookup
<1>4. CASE Extract(p)
  <2> DEFINE f == Files[Cardinality(stage[p].held) + 1]
             d == [stage[p] EXCEPT !.held = @ \cup {f}, !.synced = @ \cup {f},
                                   !.entries = FALSE]
  <2>1. f \in Members
    BY <1>4, NextMember DEF Extract, Dir
  <2>2. stage' = [stage EXCEPT ![p] = d]
    BY <1>4 DEF Extract
  <2>3. d \in Dir /\ d.made = stage[p].made /\ d.held = d.synced
    <3>1. stage[p] \in Dir /\ stage[p].held = stage[p].synced
      OBVIOUS
    <3> HIDE DEF f
    <3>2. d \in Dir /\ d.made = stage[p].made
      BY <2>1, <3>1, Extracted
    <3>3. d.held = stage[p].held \cup {f} /\ d.synced = stage[p].synced \cup {f}
      BY <2>1, <3>1, Extracted
    <3> QED
      BY <3>1, <3>2, <3>3
  <2>4. /\ pc[p] = "extract" /\ pc' = pc
        /\ UNCHANGED <<final, orphans, rootSynced, lock, faults>>
    BY <1>4 DEF Extract
  <2> HIDE DEF d
  <2> QED
    BY <2>2, <2>3, <2>4
<1>5. CASE ExtractFails(p)
  BY <1>5 DEF ExtractFails
<1>6. CASE VerifyStage(p)
  <2> DEFINE d == [stage[p] EXCEPT !.entries = TRUE]
  <2>1. stage' = [stage EXCEPT ![p] = d]
    BY <1>6 DEF VerifyStage
  <2>2. /\ d \in Dir /\ d.made = stage[p].made
        /\ d.held = stage[p].held /\ d.synced = stage[p].synced /\ d.entries
    BY Verified
  <2>3. /\ pc[p] = "extract" /\ pc' = [pc EXCEPT ![p] = "publish"]
        /\ Complete(stage[p])
        /\ UNCHANGED <<final, orphans, rootSynced, lock, faults>>
    BY <1>6 DEF VerifyStage
  <2> HIDE DEF d
  <2> QED
    BY <2>1, <2>2, <2>3
<1>7. CASE Publish(p)
  <2>1. ~final.made /\ pc[p] = "publish" /\ p \in lock
    BY <1>7 DEF Publish
  <2>2. CASE UNCHANGED final
    BY <1>7, <2>1, <2>2 DEF Publish
  <2>3. CASE final' = stage[p]
    <3>1. /\ stage' = [stage EXCEPT ![p] = NoDir]
          /\ pc' = [pc EXCEPT ![p] = "sync"]
          /\ UNCHANGED <<orphans, lock, faults>> /\ rootSynced' \in BOOLEAN
      BY <1>7, <2>1, <2>3 DEF Publish
    <3>2. NoDir \in Dir /\ ~NoDir.made /\ NoDir.held = NoDir.synced
      BY DEF NoDir, Dir
    <3>3. \A q \in Procs : q # p => pc[q] \notin Staging /\ ~stage[q].made
      BY <2>1
    <3> QED
      BY <2>1, <2>3, <3>1, <3>2, <3>3
  <2> QED
    BY <1>7, <2>2, <2>3 DEF Publish
<1>8. CASE SyncRoot(p)
  BY <1>8 DEF SyncRoot
<1>9. CASE VerifyFinal(p)
  BY <1>9 DEF VerifyFinal
<1>10. CASE Cleanup(p)
  BY <1>10 DEF Cleanup, Ended, Dir, NoDir
<1> QED
  BY <1>1, <1>2, <1>3, <1>4, <1>5, <1>6, <1>7, <1>8, <1>9, <1>10 DEF Step

-----------------------------------------------------------------------------
(* Crashes.                                                                *)

\* A process that dies, or cannot remove its staging directory, leaves at most
\* that directory, and counts as a fault.
LEMMA ProcessFaultKeeps ==
    ASSUME CacheInv, NEW p \in Procs, CleanupFails(p) \/ Crash(p)
    PROVE  CacheInv'
<1>1. /\ faults' = faults + 1
      /\ pc' = [pc EXCEPT ![p] = "failed"] \/ pc' = [pc EXCEPT ![p] = "start"]
      /\ lock' = lock \ {p}
      /\ orphans' \in {orphans, orphans + 1}
      /\ stage' = [stage EXCEPT ![p] = NoDir]
      /\ UNCHANGED <<final, rootSynced>>
  <2>1. Made({stage[p]}) \in {0, 1}
    BY MadeAtMostOne
  <2> QED
    BY <2>1 DEF CleanupFails, Crash, CacheInv, TypeInv
<1>2. NoDir \in Dir /\ ~NoDir.made /\ NoDir.held = NoDir.synced
  BY DEF NoDir, Dir
<1> QED
  BY <1>1, <1>2 DEF CacheInv, TypeInv, LockInv, StageInv, FinalInv, Complete, Holding, Staging

\* A power failure takes the only staging directory there is or, when the
\* rename is undone, the directory that carried the identity: never both, as
\* nobody extracts while the identity exists.
LEMMA PowerLossKeeps ==
    ASSUME CacheInv, PowerLoss
    PROVE  CacheInv'
<1> DEFINE stages == {stage[p] : p \in Procs}
<1>1. /\ Made(stages) \in {0, 1} /\ Made({final}) \in {0, 1}
      /\ final.made => Made(stages) = 0
      /\ ~final.made => Made({final}) = 0
  <2>1. \A d, e \in stages : d.made /\ e.made => d = e
    BY DEF CacheInv, LockInv, StageInv, Holding, Staging
  <2>2. final.made => \A d \in stages : ~d.made
    BY DEF CacheInv, StageInv
  <2> HIDE DEF stages
  <2> QED
    BY <2>1, <2>2, MadeAtMostOne
<1>2. /\ orphans' \in {orphans, orphans + 1}
      /\ final' \in Remains(final) \cup {NoDir}
      /\ faults' = faults + 1
      /\ stage' = [p \in Procs |-> NoDir] /\ pc' = [p \in Procs |-> "start"]
      /\ lock' = {} /\ rootSynced' = TRUE
  <2> HIDE DEF stages
  <2> QED
    BY <1>1 DEF PowerLoss, CacheInv, TypeInv, stages
<1>3. NoDir \in Dir /\ ~NoDir.made /\ NoDir.held = NoDir.synced
  BY DEF NoDir, Dir
<1>4. final' \in Dir /\ FinalInv'
  <2>1. final' \in Remains(final) => final' \in Dir /\ FinalInv'
    BY SyncedRemains DEF CacheInv, TypeInv, FinalInv, Complete
  <2> QED
    BY <1>2, <1>3, <2>1 DEF FinalInv
<1> QED
  BY <1>2, <1>3, <1>4 DEF CacheInv, TypeInv, LockInv, StageInv, Holding, Staging

-----------------------------------------------------------------------------
\* The invariant of the cache: the lock excludes, only its holder has a staging
\* directory, a directory is renamed to the identity only when every byte and
\* every entry of it is on disk, and each fault costs at most one directory.
THEOREM CacheInvariant == Spec => []CacheInv
<1>1. Init => CacheInv
  <2>1. NoDir \in Dir /\ ~NoDir.made /\ NoDir.held = NoDir.synced
    BY DEF NoDir, Dir
  <2> QED
    BY <2>1 DEF Init, CacheInv, TypeInv, LockInv, StageInv, FinalInv, Holding, Staging
<1>2. CacheInv /\ [Next]_vars => CacheInv'
  <2> SUFFICES ASSUME CacheInv, [Next]_vars PROVE CacheInv'
    OBVIOUS
  <2>1. ASSUME NEW p \in Procs, Step(p) PROVE CacheInv'
    BY <2>1, StepKeeps
  <2>2. ASSUME NEW p \in Procs, CleanupFails(p) \/ Crash(p) PROVE CacheInv'
    BY <2>2, ProcessFaultKeeps
  <2>3. CASE PowerLoss
    BY <2>3, PowerLossKeeps
  <2>4. CASE UNCHANGED vars
    BY <2>4 DEF CacheInv, TypeInv, LockInv, StageInv, FinalInv, Complete, vars
  <2> QED
    BY <2>1, <2>2, <2>3, <2>4 DEF Next, Quiet
<1> QED
  BY <1>1, <1>2, PTL DEF Spec

\* Whatever crashed and whatever the disk lost, an identity that exists in the
\* cache is a complete capsule: acquire never has to repair one.
THEOREM CachePublishedIsComplete == Spec => []PublishedIsComplete
<1>1. CacheInv => PublishedIsComplete
  BY DEF CacheInv, FinalInv, PublishedIsComplete
<1> QED
  BY <1>1, CacheInvariant, PTL

\* The rename of a finished capsule never meets one that is there already,
\* for any number of processes that acquire it at the same time.
THEOREM CacheNoCollision == Spec => []NoCollision
<1>1. CacheInv => NoCollision
  BY DEF CacheInv, TypeInv, Holding, NoCollision
<1> QED
  BY <1>1, CacheInvariant, PTL

\* The staging directories left behind are no more than the crashes, power
\* failures and failed removals.
THEOREM CacheOrphansFromFaults == Spec => []OrphansFromFaults
<1>1. CacheInv => OrphansFromFaults
  BY DEF CacheInv, OrphansFromFaults
<1> QED
  BY <1>1, CacheInvariant, PTL
=============================================================================
