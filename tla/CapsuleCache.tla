---------------------------- MODULE CapsuleCache ----------------------------
(***************************************************************************)
(* The shared cache of native capsules (native_capsule.py): processes call *)
(* acquire_native_capsule for one capsule identity on one cache root.  A    *)
(* private lock file serialises them; the first one extracts the signed     *)
(* archive into a staging directory of its own, verifies it, renames it to  *)
(* the identity and verifies the result again.  A process may die between   *)
(* any two steps, and so may the machine: what was not synced is then lost  *)
(* in any combination.  An existing final directory is verified but never   *)
(* repaired, so what is published must be right for ever.                   *)
(***************************************************************************)
EXTENDS Naturals, Sequences, FiniteSets

CONSTANTS
    Procs,        \* processes that acquire the capsule
    Offline,      \* those without a reader (offline, or none given)
    Files,        \* the archive's members, in signed order
    MaxFaults     \* bound: crashes of a process or of the machine, failed removals

ASSUME CacheAssumption ==
    /\ Offline \subseteq Procs
    /\ Files \in Seq({Files[i] : i \in DOMAIN Files})
    /\ MaxFaults \in Nat

Members == {Files[i] : i \in DOMAIN Files}

VARIABLES
    final,      \* the directory with the capsule's identity
    stage,      \* the staging directory of each process
    orphans,    \* number of staging directories whose process is gone
    rootSynced, \* the cache root's entries are on disk
    lock,       \* processes that hold the flock
    pc,         \* where each process is in acquire_native_capsule
    faults      \* crashes and failed removals so far

vars == <<final, stage, orphans, rootSynced, lock, pc, faults>>

\* A directory: the members it holds in full, those whose bytes are on disk,
\* and whether its entries are.
NoDir == [made |-> FALSE, held |-> {}, synced |-> {}, entries |-> TRUE]
NewDir == [made |-> TRUE, held |-> {}, synced |-> {}, entries |-> TRUE]

Made(dirs) == Cardinality({d \in dirs : d.made})
Complete(d) == d.made /\ d.held = Members

\* What a power failure may leave of a directory.
Remains(d) ==
    IF ~d.made THEN {NoDir}
    ELSE {[d EXCEPT !.held = h, !.synced = h, !.entries = TRUE] :
              h \in {k \in SUBSET d.held : d.entries => d.synced \subseteq k}}

Init ==
    /\ final = NoDir
    /\ stage = [p \in Procs |-> NoDir]
    /\ orphans = 0
    /\ rootSynced = TRUE
    /\ lock = {}
    /\ pc = [p \in Procs |-> "start"]
    /\ faults = 0

At(p, from, to) == pc[p] = from /\ pc' = [pc EXCEPT ![p] = to]

-----------------------------------------------------------------------------
(* acquire_native_capsule *)

\* A manifest that is not authentic or not for this host is refused before
\* anything is touched.
Start(p) ==
    /\ \E to \in {"lock", "failed"} : At(p, "start", to)
    /\ UNCHANGED <<final, stage, orphans, rootSynced, lock, faults>>

\* The lock file is never removed, so every process locks the same one.
LockPrivate(p) ==
    /\ At(p, "lock", "lookup")
    /\ lock' = lock \cup {p}
    /\ UNCHANGED <<final, stage, orphans, rootSynced, faults>>

Lock(p) ==
    /\ At(p, "lock", "lookup")
    /\ lock = {}
    /\ lock' = {p}
    /\ UNCHANGED <<final, stage, orphans, rootSynced, faults>>

\* stat of the identity: present, missing with nothing to read from, or missing
\* and to be installed (the disk may be too small).
Lookup(p) ==
    /\ \/ final.made /\ At(p, "lookup", "verify") /\ UNCHANGED stage
       \/ /\ ~final.made
          /\ At(p, "lookup", "fail")
          /\ UNCHANGED stage
       \/ /\ ~final.made /\ p \notin Offline
          /\ At(p, "lookup", "extract")
          /\ stage' = [stage EXCEPT ![p] = NewDir]
    /\ UNCHANGED <<final, orphans, rootSynced, lock, faults>>

\* _stream_extract, one member: its digest is compared, then it is synced.
ExtractUnsynced(p) ==
    LET n == Cardinality(stage[p].held) + 1
    IN  /\ n <= Len(Files)
        /\ At(p, "extract", "extract")
        /\ stage' = [stage EXCEPT ![p].held = @ \cup {Files[n]},
                                  ![p].entries = FALSE]
        /\ UNCHANGED <<final, orphans, rootSynced, lock, faults>>

Extract(p) ==
    LET n == Cardinality(stage[p].held) + 1
    IN  /\ n <= Len(Files)
        /\ At(p, "extract", "extract")
        /\ stage' = [stage EXCEPT ![p].held = @ \cup {Files[n]},
                                  ![p].synced = @ \cup {Files[n]},
                                  ![p].entries = FALSE]
        /\ UNCHANGED <<final, orphans, rootSynced, lock, faults>>

\* A short read, a wrong header, digest or size, a full disk.
ExtractFails(p) ==
    /\ At(p, "extract", "fail")
    /\ UNCHANGED <<final, stage, orphans, rootSynced, lock, faults>>

\* _verify of the staging directory: the tree is exactly the signed one, and
\* every directory is synced on the way.
VerifyStage(p) ==
    /\ At(p, "extract", "publish")
    /\ Complete(stage[p])
    /\ stage' = [stage EXCEPT ![p].entries = TRUE]
    /\ UNCHANGED <<final, orphans, rootSynced, lock, faults>>

\* rename(staging, identity): it fails when the identity exists, and may fail
\* anyway.
Publish(p) ==
    /\ \/ /\ At(p, "publish", IF final.made THEN "collided" ELSE "fail")
          /\ UNCHANGED <<final, stage, rootSynced>>
       \/ /\ ~final.made
          /\ At(p, "publish", "sync")
          /\ final' = stage[p]
          /\ stage' = [stage EXCEPT ![p] = NoDir]
          /\ rootSynced' = FALSE
    /\ UNCHANGED <<orphans, lock, faults>>

\* fsync of the root: when it fails the rename stays, and nobody syncs it later.
SyncRoot(p) ==
    /\ \/ At(p, "sync", "verify") /\ rootSynced' = TRUE
       \/ At(p, "sync", "fail") /\ UNCHANGED rootSynced
    /\ UNCHANGED <<final, stage, orphans, lock, faults>>

\* _verify and _verify_native_signatures of the final directory.
VerifyFinal(p) ==
    /\ \/ Complete(final) /\ At(p, "verify", "succeed")
       \/ At(p, "verify", "fail")
    /\ UNCHANGED <<final, stage, orphans, rootSynced, lock, faults>>

Ended == [succeed |-> "leased", fail |-> "failed", collided |-> "lost"]

\* The finally clause: remove a staging directory that was not renamed, then
\* release the lock.
CleanupKeepsStage(p) ==
    /\ pc[p] \in DOMAIN Ended
    /\ pc' = [pc EXCEPT ![p] = Ended[@]]
    /\ lock' = lock \ {p}
    /\ orphans' = orphans + Made({stage[p]})
    /\ stage' = [stage EXCEPT ![p] = NoDir]
    /\ UNCHANGED <<final, rootSynced, faults>>

CleanupKeepsLock(p) ==
    /\ pc[p] \in DOMAIN Ended
    /\ pc' = [pc EXCEPT ![p] = Ended[@]]
    /\ stage' = [stage EXCEPT ![p] = NoDir]
    /\ UNCHANGED <<final, orphans, rootSynced, lock, faults>>

Cleanup(p) ==
    /\ pc[p] \in DOMAIN Ended
    /\ pc' = [pc EXCEPT ![p] = Ended[@]]
    /\ lock' = lock \ {p}
    /\ stage' = [stage EXCEPT ![p] = NoDir]
    /\ UNCHANGED <<final, orphans, rootSynced, faults>>

\* The staging directory cannot be removed (or was made and could not be
\* opened): the lock is released all the same.
CleanupFails(p) ==
    /\ pc[p] \in DOMAIN Ended /\ stage[p].made
    /\ faults < MaxFaults
    /\ faults' = faults + 1
    /\ pc' = [pc EXCEPT ![p] = "failed"]
    /\ lock' = lock \ {p}
    /\ orphans' = orphans + 1
    /\ stage' = [stage EXCEPT ![p] = NoDir]
    /\ UNCHANGED <<final, rootSynced>>

-----------------------------------------------------------------------------
(* Crashes.  Whoever needs the capsule after a crash starts over.           *)

\* The kernel releases the lock of a process that dies; nobody ever removes
\* its staging directory.
Crash(p) ==
    /\ faults < MaxFaults
    /\ faults' = faults + 1
    /\ pc' = [pc EXCEPT ![p] = "start"]
    /\ lock' = lock \ {p}
    /\ orphans' = orphans + Made({stage[p]})
    /\ stage' = [stage EXCEPT ![p] = NoDir]
    /\ UNCHANGED <<final, rootSynced>>

\* The rename may be undone unless the root was synced; directories lose what
\* was not synced.
PowerLoss ==
    /\ faults < MaxFaults
    /\ faults' = faults + 1
    /\ pc' = [p \in Procs |-> "start"]
    /\ lock' = {}
    /\ rootSynced' = TRUE
    /\ stage' = [p \in Procs |-> NoDir]
    /\ \/ /\ final' \in Remains(final)
          /\ orphans' = orphans + Made({stage[p] : p \in Procs})
       \/ /\ ~rootSynced
          /\ final' = NoDir
          /\ orphans' = orphans + Made({stage[p] : p \in Procs}) + Made({final})

-----------------------------------------------------------------------------
Step(p) ==
    \/ Start(p) \/ Lock(p) \/ Lookup(p)
    \/ Extract(p) \/ ExtractFails(p) \/ VerifyStage(p)
    \/ Publish(p) \/ SyncRoot(p) \/ VerifyFinal(p) \/ Cleanup(p)

\* Nobody runs: every process has ended or is blocked in flock.
Quiet ==
    /\ \A p \in Procs : pc[p] \in {"lock", "leased", "failed", "lost"}
    /\ UNCHANGED vars

Next == (\E p \in Procs : Step(p) \/ CleanupFails(p) \/ Crash(p)) \/ PowerLoss \/ Quiet

Spec == Init /\ [][Next]_vars
FairSpec == Spec /\ \A p \in Procs : WF_vars(Step(p))

-----------------------------------------------------------------------------
(* The inductive invariant behind the safety properties.                    *)

Dir == [made : BOOLEAN, held : SUBSET Members, synced : SUBSET Members, entries : BOOLEAN]

\* Where a process holds the lock, and where it may own a staging directory.
Holding == {"lookup", "extract", "publish", "sync", "verify", "succeed", "fail"}
Staging == {"extract", "publish", "fail"}

TypeInv ==
    /\ final \in Dir
    /\ stage \in [Procs -> Dir]
    /\ orphans \in Nat /\ faults \in Nat
    /\ rootSynced \in BOOLEAN
    /\ lock \subseteq Procs
    /\ pc \in [Procs -> Holding \cup {"start", "lock", "leased", "failed"}]

\* The lock excludes: the processes between flock and its release are the
\* holders, and there is at most one.
LockInv ==
    /\ \A p \in Procs : p \in lock <=> pc[p] \in Holding
    /\ \A p, q \in lock : p = q

\* A staging directory belongs to the holder, has no unsynced member, and
\* exists only while the identity does not.
StageInv ==
    /\ \A p \in Procs :
          /\ stage[p].made => pc[p] \in Staging /\ ~final.made
          /\ stage[p].held = stage[p].synced
          /\ pc[p] \in {"extract", "publish"} => ~final.made
          /\ pc[p] = "publish" => Complete(stage[p]) /\ stage[p].entries

\* What carries the identity has nothing left to lose.
FinalInv == final.made => Complete(final) /\ final.synced = Members /\ final.entries

CacheInv == TypeInv /\ LockInv /\ StageInv /\ FinalInv /\ orphans <= faults

-----------------------------------------------------------------------------
\* What carries the identity is complete, whatever crashed and whatever the
\* disk lost: acquire never repairs a final directory, so an incomplete one
\* would fail every later acquire.
PublishedIsComplete == final.made => Complete(final)

\* A process that can read the archive is never refused because another one
\* installed the capsule at the same time.
NoCollision == \A p \in Procs : pc[p] \notin {"collided", "lost"}

\* Each crash or failed removal leaves at most one staging directory behind,
\* what the lock holder was extracting: any other failed acquire removes its own.
OrphansFromFaults == orphans <= faults

\* A process that waits for the lock gets an answer, whichever way the holder
\* of the lock ends.
AcquireEnds ==
    \A p \in Procs : pc[p] = "lock" ~> pc[p] \in {"leased", "failed", "lost", "start"}
=============================================================================
