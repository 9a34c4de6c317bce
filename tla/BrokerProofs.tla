---------------------------- MODULE BrokerProofs ----------------------------
(***************************************************************************)
(* Proofs about Broker, for every table size, every set of pids and every  *)
(* number of handles.  The first part is about the table and holds whether *)
(* or not the controller owns several roots at a time.  The second part is *)
(* about the processes: with one root at a time, as the CLI uses the       *)
(* broker, no process is ever without the record that stops it, no record  *)
(* is without its process while requests are served, and none is left when *)
(* the broker exits.  The third part shows that the broker then implements *)
(* BrokerService.                                                          *)
(***************************************************************************)
EXTENDS BrokerRefinement, WellFoundedInduction, TLAPS

-----------------------------------------------------------------------------
(* The process tree in the table.                                          *)

\* The subtree of a record contains the logical children of its members.
LEMMA SubTreeClosed ==
    ASSUME NEW w, NEW s \in Slots, NEW u \in SubTree(w, s), NEW t \in Slots,
           IsChild(w, t, w[u].handle)
    PROVE  t \in SubTree(w, s)
BY DEF SubTree, ChildClosed

\* What stop_worker stops for a set of records is closed under children and
\* contains the active records of the set.
LEMMA StoppedClosed ==
    ASSUME NEW w, NEW S \in SUBSET Slots
    PROVE  /\ Stopped(w, S) \subseteq Slots
           /\ ChildClosed(w, Stopped(w, S))
           /\ \A s \in S : w[s].active => s \in Stopped(w, S)
<1>1. Stopped(w, S) \subseteq Slots
  BY DEF Stopped
<1>2. ASSUME NEW u \in Stopped(w, S), NEW t \in Slots, IsChild(w, t, w[u].handle)
      PROVE  t \in Stopped(w, S)
  <2>1. PICK s \in S : w[s].active /\ u \in SubTree(w, s)
    BY DEF Stopped
  <2>2. t \in SubTree(w, s)
    BY <1>2, <2>1, SubTreeClosed
  <2> QED
    BY <2>1, <2>2 DEF Stopped
<1>3. ASSUME NEW s \in S, w[s].active
      PROVE  s \in Stopped(w, S)
  <2>1. s \in SubTree(w, s)
    BY DEF SubTree
  <2> QED
    BY <1>3, <2>1 DEF Stopped
<1> QED
  BY <1>1, <1>2, <1>3 DEF ChildClosed

\* A record is not stopped with records that started after it: the subtree
\* of a younger record holds younger records only.
LEMMA OlderSurvives ==
    ASSUME NEW w \in [Slots -> Worker], TableInv(w), MaxHandle \in Nat,
           NEW s \in Slots, w[s].handle # 0,
           NEW S \in SUBSET Slots,
           \A c \in S : w[c].active => w[c].handle = 0 \/ w[s].handle < w[c].handle
    PROVE  s \notin Stopped(w, S)
<1> DEFINE Young == {t \in Slots : w[t].active /\ (w[t].handle = 0 \/ w[s].handle < w[t].handle)}
<1>1. ChildClosed(w, Young)
  <2> SUFFICES ASSUME NEW u \in Young, NEW t \in Slots, IsChild(w, t, w[u].handle)
               PROVE  t \in Young
    BY DEF ChildClosed
  <2>1. w[t].active /\ w[t].parent = w[u].handle /\ w[u].handle # 0
    BY DEF IsChild
  <2>2. w[s].handle < w[t].parent
    BY <2>1
  <2>3. w[t].handle # 0 => w[t].parent < w[t].handle
    BY <2>1 DEF TableInv
  <2>4. w[t].handle \in Nat /\ w[t].parent \in Nat /\ w[s].handle \in Nat
    BY DEF Worker
  <2> QED
    BY <2>1, <2>2, <2>3, <2>4
<1>2. s \notin Young
  <2>1. w[s].handle \in Nat
    BY DEF Worker
  <2> QED
    BY <2>1
<1>3. ASSUME NEW c \in S, w[c].active PROVE s \notin SubTree(w, c)
  <2>1. c \in Young
    BY <1>3
  <2> QED
    BY <1>1, <1>2, <2>1 DEF SubTree
<1> QED
  BY <1>3 DEF Stopped

\* Clearing a set of records that is closed under children keeps the table
\* invariant: a record that stays keeps its parent.
LEMMA ClearKeepsTable ==
    ASSUME NEW w \in [Slots -> Worker], TableInv(w), BrokerAssumption,
           NEW D \in SUBSET Slots, ChildClosed(w, D)
    PROVE  /\ Cleared(w, D) \in [Slots -> Worker]
           /\ TableInv(Cleared(w, D))
           /\ \A n : HandleInv(w, n) => HandleInv(Cleared(w, D), n)
<1> DEFINE c == Cleared(w, D)
<1>0. Empty \in Worker /\ ~Empty.active
  BY DEF Empty, Worker, BrokerAssumption
<1>1. c \in [Slots -> Worker]
  BY <1>0 DEF Cleared
<1>2. \A s \in Slots : c[s] = IF s \in D THEN Empty ELSE w[s]
  BY DEF Cleared
<1>3. \A s \in Slots : c[s].active => s \notin D /\ c[s] = w[s]
  BY <1>0, <1>2
<1>4. \A s \in Slots : ~c[s].active => c[s] = Empty
  BY <1>2 DEF TableInv
<1>5. ASSUME NEW s \in Slots, c[s].active, c[s].parent # 0
      PROVE  \E t \in Slots : c[t].active /\ ~c[t].reaped /\ c[t].handle = c[s].parent
  <2>1. w[s].active /\ w[s].parent # 0 /\ s \notin D /\ c[s] = w[s]
    BY <1>3, <1>5
  <2>2. PICK t \in Slots : w[t].active /\ ~w[t].reaped /\ w[t].handle = w[s].parent
    BY <2>1 DEF TableInv
  <2>3. t \notin D
    BY <2>1, <2>2 DEF ChildClosed, IsChild
  <2> QED
    BY <1>2, <2>1, <2>2, <2>3
<1>6. \A s, t \in Slots : c[s].active /\ c[t].active /\ c[s].handle = c[t].handle => s = t
  BY <1>3 DEF TableInv
<1>7. \A s \in Slots : c[s].active /\ c[s].handle # 0 => c[s].parent < c[s].handle
  BY <1>3 DEF TableInv
<1>8. TableInv(c)
  BY <1>4, <1>5, <1>6, <1>7 DEF TableInv
<1>9. \A n : HandleInv(w, n) => HandleInv(c, n)
  BY <1>3 DEF HandleInv
<1> QED
  BY <1>1, <1>8, <1>9

-----------------------------------------------------------------------------
(* Steps that stop records.                                                *)

\* StopWorkers keeps types and the table invariants.
LEMMA StopKeeps ==
    ASSUME IInv, BrokerAssumption, NEW S \in SUBSET Slots, StopWorkers(S)
    PROVE  /\ workers' \in [Slots -> Worker]
           /\ proc' \in [Pids -> ProcState]
           /\ TableInv(workers')
           /\ HandleInv(workers', nextHandle)
           /\ \A s \in Slots : workers'[s].active => workers'[s] = workers[s]
<1> DEFINE D == Stopped(workers, S)
<1>1. D \in SUBSET Slots /\ ChildClosed(workers, D)
  BY StoppedClosed
<1>2. workers \in [Slots -> Worker] /\ TableInv(workers) /\ HandleInv(workers, nextHandle)
  BY DEF IInv, TypeOK
<1>3. workers' = Cleared(workers, D) /\ proc' = Freed(proc, Signalled(workers, D))
  BY DEF StopWorkers
<1>4. proc' \in [Pids -> ProcState]
  BY <1>3 DEF Freed, IInv, TypeOK, ProcState
<1>5. \A s \in Slots : workers'[s].active => workers'[s] = workers[s]
  BY <1>3 DEF Cleared, Empty
<1> QED
  BY <1>1, <1>2, <1>3, <1>4, <1>5, ClearKeepsTable

\* Clearing with the reply of a record that stays made pending.
LEMMA ReplyKeeps ==
    ASSUME NEW w \in [Slots -> Worker], TableInv(w), NEW n, HandleInv(w, n),
           NEW o \in Slots, w[o].active, NEW b \in {"none", "pending"}
    PROVE  LET v == Answering(w, o, b)
           IN  /\ v \in [Slots -> Worker]
               /\ TableInv(v)
               /\ HandleInv(v, n)
               /\ \A s \in Slots : /\ v[s].active = w[s].active
                                   /\ v[s].handle = w[s].handle
                                   /\ v[s].parent = w[s].parent
                                   /\ v[s].reaped = w[s].reaped
<1> DEFINE v == Answering(w, o, b)
<1>1. v \in [Slots -> Worker]
  BY DEF Worker, Answering
<1>2. \A s \in Slots : /\ v[s].active = w[s].active
                       /\ v[s].handle = w[s].handle
                       /\ v[s].parent = w[s].parent
                       /\ v[s].reaped = w[s].reaped
  BY DEF Worker, Answering
<1>3. \A s \in Slots : s # o => v[s] = w[s]
  BY DEF Answering
<1> HIDE DEF v
<1>4. TableInv(v)
  BY <1>2, <1>3 DEF TableInv
<1>5. HandleInv(v, n)
  BY <1>2 DEF HandleInv
<1> QED
  BY <1>1, <1>2, <1>4, <1>5 DEF v

-----------------------------------------------------------------------------
(* One lemma per group of actions: the step preserves IInv.                *)

\* Steps that leave the table, the frames' slots and the handle counter alone.
LEMMA EnvironmentKeeps ==
    ASSUME IInv, BrokerAssumption, Environment
    PROVE  IInv'
<1> USE BrokerAssumption
<1>1. ASSUME NEW p \in Pids, WorkerExit(p) PROVE IInv'
  BY <1>1 DEF WorkerExit, IInv, TypeOK, TableInv, HandleInv, LaunchInv, WaitInv, ProcState
<1>2. ASSUME NEW s \in Slots, WorkerHangup(s) PROVE IInv'
  <2> DEFINE v == [workers EXCEPT ![s].hup = TRUE]
  <2>1. v \in [Slots -> Worker]
    BY DEF IInv, TypeOK, Worker
  <2>2. \A t \in Slots : /\ v[t].active = workers[t].active
                         /\ v[t].handle = workers[t].handle
                         /\ v[t].parent = workers[t].parent
                         /\ v[t].reaped = workers[t].reaped
    BY DEF IInv, TypeOK, Worker
  <2>3. \A t \in Slots : t # s => v[t] = workers[t]
    BY DEF IInv, TypeOK
  <2>4. workers' = v /\ workers[s].active
    BY <1>2 DEF WorkerHangup
  <2>5. TableInv(workers)'
    BY <2>2, <2>3, <2>4 DEF IInv, TableInv
  <2>6. HandleInv(workers, nextHandle)'
    BY <1>2, <2>2, <2>4 DEF WorkerHangup, IInv, HandleInv
  <2>7. TypeOK'
    BY <1>2, <2>1, <2>4 DEF WorkerHangup, IInv, TypeOK
  <2>8. LaunchInv' /\ WaitInv'
    <3> HIDE DEF v
    <3> QED
      BY <1>2, <2>2, <2>4 DEF WorkerHangup, IInv, TypeOK, LaunchFrame, WaitFrame, LaunchInv, WaitInv
  <2> QED
    BY <2>5, <2>6, <2>7, <2>8 DEF IInv
<1>3. ASSUME NEW p \in ReusedPids, PidReuse(p) PROVE IInv'
  BY <1>3 DEF PidReuse, IInv, TypeOK, TableInv, HandleInv, LaunchInv, WaitInv, ProcState
<1>4. ASSUME TakeReply PROVE IInv'
  BY <1>4 DEF TakeReply, NoReply, Reply, IInv, TypeOK, TableInv, HandleInv, LaunchInv, WaitInv
<1>5. ASSUME ControllerClose PROVE IInv'
  BY <1>5 DEF ControllerClose, IInv, TypeOK, TableInv, HandleInv, LaunchInv, WaitInv
<1>6. ASSUME WaitDeadline PROVE IInv'
  <2>1. wait' \in WaitFrame
    BY <1>6 DEF WaitDeadline, IInv, TypeOK, WaitFrame
  <2>2. /\ wait'.slot = wait.slot /\ wait'.handle = wait.handle
        /\ wait'.idx = wait.idx /\ wait'.at = wait.at
    BY <1>6 DEF WaitDeadline, IInv, TypeOK, WaitFrame
  <2> QED
    BY <1>6, <2>1, <2>2 DEF WaitDeadline, IInv, TypeOK, TableInv, HandleInv, LaunchInv, WaitInv
<1> QED
  BY <1>1, <1>2, <1>3, <1>4, <1>5, <1>6 DEF Environment

\* launch_worker takes a free record for a process of a worker whose parent, if
\* any, is a running record.
LEMMA SpawnKeeps ==
    ASSUME IInv, BrokerAssumption, launch.slot = 0,
           NEW s \in FreeWorker(workers), NEW p \in Pids, NEW h \in 0 .. MaxHandle,
           h < nextHandle,
           h # 0 => \E o \in Slots : workers[o].active /\ ~workers[o].reaped /\ workers[o].handle = h,
           Spawn(s, p, h, workers), UNCHANGED <<wait, nextHandle, control, reply>>
    PROVE  /\ TypeOK' /\ TableInv(workers)' /\ HandleInv(workers, nextHandle)'
           /\ s \in Slots /\ ~workers[s].active /\ launch' = [slot |-> s, stage |-> "spawned"]
           /\ pc' = "launch" /\ nextHandle <= MaxHandle
           /\ workers'[s].active /\ workers'[s].handle = 0 /\ workers'[s].parent = h
           /\ \A t \in Slots : t # s => workers'[t] = workers[t]
<1> USE BrokerAssumption
<1> DEFINE r == Starting(p, h)
<1>1. s \in Slots /\ ~workers[s].active
  BY DEF FreeWorker
<1>2. /\ r \in Worker /\ r.active /\ ~r.reaped /\ r.handle = 0 /\ r.parent = h
  BY DEF Starting, Empty, Worker
<1>3. workers' = [workers EXCEPT ![s] = r] /\ launch' = [slot |-> s, stage |-> "spawned"]
      /\ pc' = "launch" /\ nextHandle <= MaxHandle /\ proc' = [proc EXCEPT ![p] = "live"]
  BY DEF Spawn
<1> HIDE DEF r
<1>4. workers \in [Slots -> Worker] /\ TableInv(workers) /\ HandleInv(workers, nextHandle)
  BY DEF IInv, TypeOK
<1>5. \A t \in Slots : workers'[t] = IF t = s THEN r ELSE workers[t]
  BY <1>1, <1>3, <1>4
<1>6. TypeOK'
  BY <1>1, <1>2, <1>3 DEF IInv, TypeOK, ProcState, LaunchFrame, Stages, Slots
<1>7. \A t \in Slots : workers[t].active => workers[t].handle # 0
  BY DEF IInv, LaunchInv, Slots
<1>8. TableInv(workers)'
  <2>1. \A t \in Slots : ~workers'[t].active => workers'[t] = Empty
    BY <1>2, <1>4, <1>5 DEF TableInv
  <2>2. ASSUME NEW t \in Slots, NEW u \in Slots, workers'[t].active, workers'[u].active,
               workers'[t].handle = workers'[u].handle
        PROVE  t = u
    <3>1. CASE t = s
      BY <1>2, <1>5, <1>7, <2>2, <3>1
    <3>2. CASE u = s
      BY <1>2, <1>5, <1>7, <2>2, <3>2
    <3>3. CASE t # s /\ u # s
      BY <1>4, <1>5, <2>2, <3>3 DEF TableInv
    <3> QED
      BY <3>1, <3>2, <3>3
  <2>3. ASSUME NEW t \in Slots, workers'[t].active, workers'[t].parent # 0
        PROVE  \E u \in Slots : /\ workers'[u].active /\ ~workers'[u].reaped
                                /\ workers'[u].handle = workers'[t].parent
    <3>1. \E u \in Slots : /\ workers[u].active /\ ~workers[u].reaped
                           /\ workers[u].handle = workers'[t].parent
      BY <1>2, <1>4, <1>5, <2>3 DEF TableInv
    <3> QED
      BY <1>1, <1>5, <3>1
  <2>4. \A t \in Slots : workers'[t].active /\ workers'[t].handle # 0
                         => workers'[t].parent < workers'[t].handle
    BY <1>2, <1>4, <1>5 DEF TableInv
  <2> QED
    BY <2>1, <2>2, <2>3, <2>4 DEF TableInv
<1>9. HandleInv(workers, nextHandle)'
  <2>1. nextHandle' = nextHandle /\ 0 < nextHandle
    BY DEF IInv, TypeOK
  <2> QED
    BY <1>2, <1>4, <1>5, <2>1 DEF HandleInv
<1> QED
  BY <1>1, <1>2, <1>3, <1>5, <1>6, <1>8, <1>9

\* A request of the controller: LAUNCH up to the spawn, the start of a WAIT,
\* CANCEL, or a refusal.
LEMMA RequestsKeep ==
    ASSUME IInv, BrokerAssumption, Requests
    PROVE  IInv'
<1> USE BrokerAssumption
<1>0. Requested => launch.slot = 0 /\ pc = "idle"
  BY DEF Requested, IInv, LaunchInv
<1>1. ASSUME MainLaunch PROVE IInv'
  <2>1. PICK s \in FreeWorker(workers), p \in Pids : Spawn(s, p, 0, workers)
    BY <1>1 DEF MainLaunch
  <2>2. launch.slot = 0 /\ UNCHANGED <<wait, nextHandle, control, reply>> /\ 0 < nextHandle
    BY <1>0, <1>1 DEF MainLaunch, IInv, TypeOK
  <2>3. /\ TypeOK' /\ TableInv(workers)' /\ HandleInv(workers, nextHandle)'
        /\ s \in Slots /\ launch' = [slot |-> s, stage |-> "spawned"]
        /\ pc' = "launch" /\ nextHandle <= MaxHandle
        /\ workers'[s].active /\ workers'[s].handle = 0 /\ workers'[s].parent = 0
        /\ \A t \in Slots : t # s => workers'[t] = workers[t]
    BY <2>1, <2>2, SpawnKeeps
  <2>4. LaunchInv'
    BY <2>2, <2>3 DEF IInv, LaunchInv, Slots
  <2>5. WaitInv'
    BY <2>3 DEF WaitInv
  <2> QED
    BY <2>3, <2>4, <2>5 DEF IInv
<1>2. ASSUME MainLaunchRefused PROVE IInv'
  BY <1>2 DEF MainLaunchRefused, Answer, Reply, IInv, TypeOK, TableInv, HandleInv, LaunchInv, WaitInv
<1>3. ASSUME NEW h \in RootHandles, MainWait(h) PROVE IInv'
  <2>1. h \in 1 .. MaxHandle
    BY DEF RootHandles, Issued, Handles
  <2>2. PICK s \in FindWorker(workers, h) :
            wait' = [handle |-> h, slot |-> s, pid |-> workers[s].pid, idx |-> 1,
                     at |-> "check", late |-> FALSE, ok |-> FALSE]
    BY <1>3 DEF MainWait
  <2>3. s \in Slots /\ 1 \in Slots
    BY DEF FindWorker, Slots
  <2>4. workers[s].pid \in Pids \cup {NoPid}
    BY <2>3 DEF IInv, TypeOK, Worker
  <2>5. wait' \in WaitFrame
    BY <2>1, <2>2, <2>3, <2>4 DEF WaitFrame, Slots
  <2>6. TypeOK'
    BY <1>3, <2>5 DEF MainWait, IInv, TypeOK
  <2>7. WaitInv'
    BY <1>3, <2>1, <2>2, <2>3 DEF MainWait, WaitInv
  <2>8. LaunchInv'
    BY <1>0, <1>3 DEF MainWait, IInv, LaunchInv
  <2> QED
    BY <1>3, <2>6, <2>7, <2>8 DEF MainWait, IInv, TableInv, HandleInv
<1>4. ASSUME NEW h \in RootHandles, MainCancel(h) PROVE IInv'
  <2>1. StopWorkers(FindWorker(workers, h)) /\ FindWorker(workers, h) \in SUBSET Slots
    BY <1>4 DEF MainCancel, FindWorker
  <2>2. h \in 0 .. MaxHandle
    BY DEF RootHandles, Issued, Handles
  <2>3. /\ workers' \in [Slots -> Worker] /\ proc' \in [Pids -> ProcState]
        /\ TableInv(workers') /\ HandleInv(workers', nextHandle)
        /\ \A s \in Slots : workers'[s].active => workers'[s] = workers[s]
    BY <2>1, StopKeeps
  <2>4. TypeOK'
    BY <1>4, <2>2, <2>3 DEF MainCancel, Answer, Reply, IInv, TypeOK
  <2>5. LaunchInv' /\ WaitInv'
    BY <1>0, <1>4, <2>3 DEF MainCancel, IInv, LaunchInv, WaitInv
  <2> QED
    BY <1>4, <2>3, <2>4, <2>5 DEF MainCancel, IInv
<1>5. ASSUME NEW h \in RootHandles, NEW op \in {"wait", "cancel"}, MainUnknown(op, h) PROVE IInv'
  <2>1. h \in 0 .. MaxHandle
    BY DEF RootHandles, Issued, Handles
  <2> QED
    BY <1>5, <2>1 DEF MainUnknown, Answer, Reply, IInv, TypeOK, TableInv, HandleInv, LaunchInv, WaitInv
<1> QED
  BY <1>1, <1>2, <1>3, <1>4, <1>5 DEF Requests

\* service_workers' loop stays within the table and leaves the rpc step.
LEMMA ServeNextKeeps ==
    ASSUME IInv, BrokerAssumption, wait.idx \in Slots, wait' = ServeNext
    PROVE  /\ wait' \in WaitFrame /\ wait'.idx \in Slots /\ wait'.at # "rpc"
           /\ wait'.slot = wait.slot /\ wait'.handle = wait.handle
<1>1. wait \in WaitFrame
  BY DEF IInv, TypeOK
<1>2. CASE wait.idx = MaxWorkers
  BY <1>1, <1>2 DEF ServeNext, WaitFrame
<1>3. CASE wait.idx # MaxWorkers
  <2>1. wait.idx + 1 \in Slots /\ wait.idx + 1 \in 0 .. MaxWorkers
    BY <1>3, BrokerAssumption DEF Slots
  <2>2. wait' = [wait EXCEPT !.at = "reap", !.idx = wait.idx + 1]
    BY <1>1, <1>3 DEF ServeNext, WaitFrame
  <2>3. wait' \in WaitFrame
    BY <1>1, <2>1, <2>2 DEF WaitFrame
  <2> QED
    BY <1>1, <2>1, <2>2, <2>3 DEF WaitFrame
<1> QED
  BY <1>2, <1>3

\* Stopping records and answering one that is not among them.
LEMMA StopAndReplyKeeps ==
    ASSUME IInv, BrokerAssumption, NEW D \in SUBSET Slots, ChildClosed(workers, D),
           NEW o \in Slots, workers[o].active, o \notin D,
           workers' = Answering(Cleared(workers, D), o, "pending")
    PROVE  /\ workers' \in [Slots -> Worker]
           /\ TableInv(workers')
           /\ HandleInv(workers', nextHandle)
           /\ \A s \in Slots : workers'[s].active =>
                  /\ s \notin D
                  /\ workers[s].active
                  /\ workers'[s].handle = workers[s].handle
                  /\ workers'[s].parent = workers[s].parent
           /\ workers'[o].active
<1> DEFINE w == Cleared(workers, D)
<1>1. /\ w \in [Slots -> Worker] /\ TableInv(w) /\ HandleInv(w, nextHandle)
  BY ClearKeepsTable DEF IInv, TypeOK
<1>2. \A s \in Slots : w[s] = IF s \in D THEN Empty ELSE workers[s]
  BY DEF Cleared
<1>3. w[o].active
  BY <1>2
<1>4. \A s \in Slots : w[s].active => s \notin D /\ w[s] = workers[s]
  BY <1>2 DEF Empty
<1> HIDE DEF w
<1>5. /\ workers' \in [Slots -> Worker]
      /\ TableInv(workers')
      /\ HandleInv(workers', nextHandle)
      /\ \A s \in Slots : /\ workers'[s].active = w[s].active
                          /\ workers'[s].handle = w[s].handle
                          /\ workers'[s].parent = w[s].parent
  BY <1>1, <1>3, ReplyKeeps DEF w
<1> QED
  BY <1>3, <1>4, <1>5

\* proc stays well typed when a set of pids is freed.
LEMMA FreedType ==
    ASSUME IInv, NEW P
    PROVE  Freed(proc, P) \in [Pids -> ProcState]
BY DEF Freed, IInv, TypeOK, ProcState

\* launch_worker after the spawn: an advance of the handshake, its success
\* (the handle is assigned) and every failure.
LEMMA LaunchKeeps ==
    ASSUME IInv, BrokerAssumption, LaunchAdvance \/ LaunchDone \/ LaunchFail
    PROVE  IInv'
<1> USE BrokerAssumption
<1> DEFINE s == launch.slot
           o == wait.idx
<1>0. /\ pc = "launch" /\ s \in Slots /\ workers[s].active /\ workers[s].handle = 0
      /\ nextHandle <= MaxHandle
      /\ workers[s].parent # 0 => /\ o \in Slots /\ wait.handle # 0 /\ wait.slot \in Slots
                                  /\ workers[o].active /\ workers[o].handle = workers[s].parent
  BY DEF LaunchAdvance, LaunchDone, LaunchFail, IInv, LaunchInv
<1>1. CASE LaunchAdvance
  <2>1. launch'.slot = launch.slot /\ launch' \in LaunchFrame
    BY <1>1 DEF LaunchAdvance, StageAfter, IInv, TypeOK, LaunchFrame, Stages
  <2> QED
    BY <1>0, <1>1, <2>1 DEF LaunchAdvance, IInv, TypeOK, TableInv, HandleInv, LaunchInv, WaitInv
<1>2. CASE LaunchDone
  <2> DEFINE w == [workers EXCEPT ![s].handle = nextHandle]
  <2>1. nextHandle' = nextHandle + 1 /\ launch' = NoLaunch /\ UNCHANGED <<proc, control>>
    BY <1>2 DEF LaunchDone, NextHandle
  <2>2. nextHandle \in 1 .. MaxHandle /\ nextHandle + 1 \in 1 .. MaxHandle + 1
    BY <1>0 DEF IInv, TypeOK
  <2>3. w \in [Slots -> Worker]
    BY <1>0, <2>2 DEF IInv, TypeOK, Worker
  <2>4. \A t \in Slots : /\ w[t].active = workers[t].active
                         /\ w[t].parent = workers[t].parent
                         /\ w[t].reaped = workers[t].reaped
                         /\ w[t].handle = IF t = s THEN nextHandle ELSE workers[t].handle
                         /\ t # s => w[t] = workers[t]
    BY <1>0, <2>3 DEF IInv, TypeOK, Worker
  <2> HIDE DEF w
  <2>5. \A t \in Slots : /\ workers[t].handle \in Nat /\ workers[t].parent \in Nat
                         /\ workers[t].active => /\ workers[t].handle < nextHandle
                                                 /\ workers[t].parent < nextHandle
    BY DEF IInv, TypeOK, Worker, HandleInv
  <2>6. TableInv(w)
    <3>1. \A t \in Slots : ~w[t].active => w[t] = Empty
      BY <1>0, <2>4 DEF IInv, TableInv
    <3>2. \A t, u \in Slots : w[t].active /\ w[u].active /\ w[t].handle = w[u].handle => t = u
      BY <1>0, <2>2, <2>4, <2>5 DEF IInv, TableInv
    <3>3. ASSUME NEW t \in Slots, w[t].active, w[t].parent # 0
          PROVE  \E u \in Slots : w[u].active /\ ~w[u].reaped /\ w[u].handle = w[t].parent
      <4>1. PICK u \in Slots : /\ workers[u].active /\ ~workers[u].reaped
                               /\ workers[u].handle = workers[t].parent
        BY <2>4, <3>3 DEF IInv, TableInv
      <4>2. u # s
        BY <1>0, <2>4, <3>3, <4>1
      <4> QED
        BY <2>4, <4>1, <4>2
    <3>4. \A t \in Slots : w[t].active /\ w[t].handle # 0 => w[t].parent < w[t].handle
      BY <2>4, <2>5 DEF IInv, TableInv
    <3> QED
      BY <3>1, <3>2, <3>3, <3>4 DEF TableInv
  <2>7. HandleInv(w, nextHandle + 1)
    BY <2>2, <2>4, <2>5 DEF HandleInv
  <2>8. \A t \in Slots : w[t].active => w[t].handle # 0
    BY <2>2, <2>4 DEF IInv, LaunchInv
  <2>9. CASE workers[s].parent = 0
    <3>1. workers' = w /\ pc' = "idle" /\ reply' = Answer("launch", nextHandle, TRUE) /\ wait' = wait
      BY <1>2, <2>9 DEF LaunchDone, w
    <3>2. TypeOK'
      BY <2>1, <2>2, <2>3, <3>1 DEF IInv, TypeOK, NoLaunch, LaunchFrame, Stages, Answer, Reply
    <3>3. LaunchInv' /\ WaitInv'
      BY <2>1, <2>8, <3>1 DEF LaunchInv, WaitInv, NoLaunch
    <3> QED
      BY <2>1, <2>6, <2>7, <3>1, <3>2, <3>3 DEF IInv
  <2>10. CASE workers[s].parent # 0
    <3>1. /\ workers' = Answering(w, o, "pending")
          /\ pc' = "wait" /\ reply' = reply /\ wait' = ServeNext
      BY <1>2, <2>10 DEF LaunchDone, w
    <3>2. w[o].active
      BY <1>0, <2>4, <2>10
    <3>3. /\ workers' \in [Slots -> Worker] /\ TableInv(workers') /\ HandleInv(workers', nextHandle + 1)
          /\ \A t \in Slots : workers'[t].active = w[t].active /\ workers'[t].handle = w[t].handle
      BY <1>0, <2>3, <2>6, <2>7, <2>10, <3>1, <3>2, ReplyKeeps
    <3>4. /\ wait' \in WaitFrame /\ wait'.idx \in Slots /\ wait'.at # "rpc"
          /\ wait'.slot = wait.slot /\ wait'.handle = wait.handle
      BY <1>0, <2>10, <3>1, ServeNextKeeps
    <3>5. TypeOK'
      BY <2>1, <2>2, <3>1, <3>3, <3>4 DEF IInv, TypeOK, NoLaunch, LaunchFrame, Stages
    <3>6. LaunchInv'
      BY <2>1, <2>8, <3>1, <3>3 DEF LaunchInv, NoLaunch
    <3>7. WaitInv'
      BY <1>0, <2>10, <3>1, <3>4 DEF WaitInv
    <3> QED
      BY <2>1, <3>3, <3>5, <3>6, <3>7 DEF IInv
  <2> QED
    BY <2>9, <2>10
<1>3. CASE LaunchFail
  <2>1. launch' = NoLaunch /\ UNCHANGED <<nextHandle, control>>
    BY <1>3 DEF LaunchFail
  <2>2. CASE workers[s].parent = 0
    <3>1. StopWorkers({s}) /\ pc' = "idle" /\ reply' = Answer("launch", 0, FALSE) /\ wait' = wait
      BY <1>3, <2>2 DEF LaunchFail
    <3>2. /\ workers' \in [Slots -> Worker] /\ proc' \in [Pids -> ProcState]
          /\ TableInv(workers') /\ HandleInv(workers', nextHandle)
          /\ \A t \in Slots : workers'[t].active => workers'[t] = workers[t]
      BY <1>0, <3>1, StopKeeps
    <3>3. TypeOK'
      BY <2>1, <3>1, <3>2 DEF IInv, TypeOK, NoLaunch, LaunchFrame, Stages, Answer, Reply
    <3>4. s \in Stopped(workers, {s})
      BY <1>0, StoppedClosed
    <3>5. ~workers'[s].active
      BY <1>0, <3>1, <3>4 DEF StopWorkers, Cleared, Empty
    <3>6. LaunchInv' /\ WaitInv'
      BY <2>1, <3>1, <3>2, <3>5 DEF IInv, LaunchInv, WaitInv, NoLaunch
    <3> QED
      BY <2>1, <3>2, <3>3, <3>6 DEF IInv
  <2>3. CASE workers[s].parent # 0
    <3> DEFINE D == Stopped(workers, {s})
    <3>1. StopAndReply({s}, o) /\ pc' = "wait" /\ reply' = reply /\ wait' = ServeNext
      BY <1>3, <2>3 DEF LaunchFail
    <3>2. D \in SUBSET Slots /\ ChildClosed(workers, D) /\ s \in D
      BY <1>0, StoppedClosed
    <3>3. o \notin D
      BY <1>0, <2>3, OlderSurvives DEF IInv, TypeOK
    <3>4. /\ workers' = Answering(Cleared(workers, D), o, "pending")
          /\ proc' = Freed(proc, Signalled(workers, D))
      BY <3>1 DEF StopAndReply
    <3> HIDE DEF D
    <3>5. /\ workers' \in [Slots -> Worker] /\ TableInv(workers') /\ HandleInv(workers', nextHandle)
          /\ \A t \in Slots : workers'[t].active =>
                 t \notin D /\ workers[t].active /\ workers'[t].handle = workers[t].handle
      BY <1>0, <2>3, <3>2, <3>3, <3>4, StopAndReplyKeeps
    <3>6. proc' \in [Pids -> ProcState]
      BY <3>4, FreedType
    <3>7. /\ wait' \in WaitFrame /\ wait'.idx \in Slots /\ wait'.at # "rpc"
          /\ wait'.slot = wait.slot /\ wait'.handle = wait.handle
      BY <1>0, <2>3, <3>1, ServeNextKeeps
    <3>8. TypeOK'
      BY <2>1, <3>1, <3>5, <3>6, <3>7 DEF IInv, TypeOK, NoLaunch, LaunchFrame, Stages
    <3>9. LaunchInv'
      BY <2>1, <3>1, <3>2, <3>5 DEF IInv, LaunchInv, NoLaunch
    <3>10. WaitInv'
      BY <1>0, <2>3, <3>1, <3>7 DEF WaitInv
    <3> QED
      BY <2>1, <3>5, <3>8, <3>9, <3>10 DEF IInv
  <2> QED
    BY <2>2, <2>3
<1> QED
  BY <1>1, <1>2, <1>3

\* The end of a worker: its children go, its record stays and is marked.
LEMMA ReapKeeps ==
    ASSUME IInv, BrokerAssumption, launch.slot = 0,
           NEW s \in Slots, workers[s].active,
           workers' = MarkReaped(Cleared(workers, Stopped(workers, Children(workers, workers[s].handle))), s)
    PROVE  /\ workers' \in [Slots -> Worker]
           /\ TableInv(workers')
           /\ HandleInv(workers', nextHandle)
           /\ \A t \in Slots : workers'[t].active =>
                  workers[t].active /\ workers'[t].handle = workers[t].handle
<1> DEFINE C == Children(workers, workers[s].handle)
           D == Stopped(workers, C)
           w == Cleared(workers, D)
<1>1. workers \in [Slots -> Worker] /\ TableInv(workers) /\ MaxHandle \in Nat
  BY BrokerAssumption DEF IInv, TypeOK
<1>2. workers[s].handle # 0
  BY DEF IInv, LaunchInv, Slots
<1>3. /\ D \in SUBSET Slots /\ ChildClosed(workers, D)
      /\ \A c \in C : workers[c].active => c \in D
  BY StoppedClosed DEF Children
<1>4. \A c \in C : workers[c].active => workers[c].handle = 0 \/ workers[s].handle < workers[c].handle
  BY <1>1 DEF Children, IsChild, TableInv
<1>5. s \notin D
  <2>1. C \in SUBSET Slots
    BY DEF Children
  <2> HIDE DEF C
  <2> QED
    BY <1>1, <1>2, <1>4, <2>1, OlderSurvives
<1>6. /\ w \in [Slots -> Worker] /\ TableInv(w) /\ HandleInv(w, nextHandle)
  BY <1>1, <1>3, ClearKeepsTable DEF IInv
<1>7. \A t \in Slots : w[t] = IF t \in D THEN Empty ELSE workers[t]
  BY DEF Cleared
<1>8. \A t \in Slots : w[t].active => t \notin D /\ w[t] = workers[t]
  BY <1>7 DEF Empty
<1>9. \A t \in Slots : w[t].active /\ w[t].parent # 0 => w[t].parent # w[s].handle
  <2>1. ASSUME NEW t \in Slots, w[t].active, w[t].parent # 0, w[t].parent = w[s].handle
        PROVE  FALSE
    <3>1. w[s] = workers[s] /\ w[t] = workers[t] /\ t \notin D
      BY <1>5, <1>7, <1>8, <2>1
    <3>2. t \in C /\ workers[t].active
      BY <2>1, <3>1 DEF Children, IsChild
    <3> QED
      BY <1>3, <3>1, <3>2
  <2> QED
    BY <2>1
<1> HIDE DEF w, D, C
<1>10. workers' = [w EXCEPT ![s].reaped = TRUE]
  BY DEF MarkReaped, w, D, C
<1>11. workers' \in [Slots -> Worker]
  <2>1. w[s] \in Worker
    BY <1>6
  <2>2. [w[s] EXCEPT !.reaped = TRUE] \in Worker
    BY <2>1 DEF Worker
  <2> QED
    BY <1>6, <1>10, <2>2
<1>12. \A t \in Slots : /\ workers'[t].active = w[t].active
                        /\ workers'[t].handle = w[t].handle
                        /\ workers'[t].parent = w[t].parent
                        /\ t # s => workers'[t] = w[t]
  BY <1>6, <1>10 DEF Worker
<1>13. w[s].active
  BY <1>5, <1>7
<1>14. TableInv(workers')
  <2>1. \A t \in Slots : ~workers'[t].active => workers'[t] = Empty
    BY <1>6, <1>12, <1>13 DEF TableInv
  <2>2. ASSUME NEW t \in Slots, NEW u \in Slots, workers'[t].active, workers'[u].active,
               workers'[t].handle = workers'[u].handle
        PROVE  t = u
    <3>1. w[t].active /\ w[u].active /\ w[t].handle = w[u].handle
      BY <1>12, <2>2
    <3> QED
      BY <1>6, <3>1 DEF TableInv
  <2>3. ASSUME NEW t \in Slots, workers'[t].active, workers'[t].parent # 0
        PROVE  \E u \in Slots : /\ workers'[u].active /\ ~workers'[u].reaped
                                /\ workers'[u].handle = workers'[t].parent
    <3>1. PICK u \in Slots : w[u].active /\ ~w[u].reaped /\ w[u].handle = w[t].parent
      BY <1>6, <1>12, <2>3 DEF TableInv
    <3>2. u # s
      BY <1>9, <1>12, <2>3, <3>1
    <3> QED
      BY <1>12, <3>1, <3>2
  <2>4. \A t \in Slots : workers'[t].active /\ workers'[t].handle # 0
                         => workers'[t].parent < workers'[t].handle
    BY <1>6, <1>12 DEF TableInv
  <2> QED
    BY <2>1, <2>2, <2>3, <2>4 DEF TableInv
<1>15. HandleInv(workers', nextHandle)
  BY <1>6, <1>12 DEF HandleInv
<1> QED
  BY <1>8, <1>11, <1>12, <1>14, <1>15

\* Steps of wait_bounded and of main after it.
LEMMA WaitKeeps ==
    ASSUME IInv, BrokerAssumption,
           MainEof \/ WaitCheck \/ WaitObserve \/ WaitRetire \/ WaitStop \/ ServiceReap
    PROVE  IInv'
<1> USE BrokerAssumption
<1>0. launch.slot = 0 /\ pc \in {"idle", "wait", "outcome"}
  BY DEF MainEof, WaitCheck, WaitObserve, WaitRetire, WaitStop, ServiceReap, IInv, LaunchInv
<1>a. wait \in WaitFrame /\ nextHandle \in Nat
  BY DEF IInv, TypeOK
<1>b. ASSUME NEW S \in SUBSET Slots, StopWorkers(S)
      PROVE  /\ workers' \in [Slots -> Worker] /\ proc' \in [Pids -> ProcState]
             /\ TableInv(workers') /\ HandleInv(workers', nextHandle)
             /\ \A t \in Slots : workers'[t].active => workers'[t] = workers[t]
  BY <1>b, StopKeeps
<1>c. ASSUME NEW ok \in BOOLEAN, WaitReturns(ok)
      PROVE  /\ pc' = "outcome" /\ wait' \in WaitFrame
             /\ wait'.slot = wait.slot /\ wait'.handle = wait.handle
  BY <1>a, <1>c DEF WaitReturns, WaitFrame
<1>1. CASE MainEof
  <2>1. StopWorkers(Slots) /\ pc' = "exited" /\ UNCHANGED <<launch, wait, nextHandle, control, reply>>
    BY <1>1 DEF MainEof, StopAll
  <2>2. TypeOK'
    BY <1>b, <2>1 DEF IInv, TypeOK
  <2>3. LaunchInv' /\ WaitInv'
    BY <1>0, <1>b, <2>1 DEF IInv, LaunchInv, WaitInv
  <2> QED
    BY <1>b, <2>1, <2>2, <2>3 DEF IInv
<1>2. CASE WaitCheck
  <2>0. pc = "wait" /\ wait.slot \in Slots /\ wait.handle # 0 /\ UNCHANGED <<launch, nextHandle, control, reply>>
    BY <1>2 DEF WaitCheck, IInv, WaitInv
  <2>1. CASE WaitReturns(FALSE) /\ UNCHANGED <<workers, proc>>
    BY <1>0, <1>c, <2>0, <2>1 DEF IInv, TypeOK, TableInv, HandleInv, LaunchInv, WaitInv
  <2>2. CASE StopAll /\ pc' = "exited" /\ UNCHANGED wait
    <3>1. TypeOK'
      BY <1>b, <2>0, <2>2 DEF StopAll, IInv, TypeOK
    <3>2. LaunchInv' /\ WaitInv'
      BY <1>0, <1>b, <2>0, <2>2 DEF StopAll, IInv, LaunchInv, WaitInv
    <3> QED
      BY <1>b, <2>0, <2>2, <3>1, <3>2 DEF StopAll, IInv
  <2>3. CASE wait' = [wait EXCEPT !.at = "reap", !.idx = 1] /\ UNCHANGED <<workers, proc, pc>>
    <3>1. 1 \in Slots /\ 1 \in 0 .. MaxWorkers
      BY DEF Slots
    <3>2. /\ wait' \in WaitFrame /\ wait'.slot = wait.slot /\ wait'.handle = wait.handle
          /\ wait'.idx = 1 /\ wait'.at = "reap"
      BY <1>a, <2>3, <3>1 DEF WaitFrame
    <3> QED
      BY <1>0, <2>0, <2>3, <3>1, <3>2 DEF IInv, TypeOK, TableInv, HandleInv, LaunchInv, WaitInv
  <2> QED
    BY <1>2, <2>1, <2>2, <2>3 DEF WaitCheck
<1>3. CASE WaitObserve
  <2>0. /\ pc = "wait" /\ wait.slot \in Slots /\ wait.handle # 0 /\ wait.idx \in Slots
        /\ UNCHANGED <<workers, launch, nextHandle, control, reply>>
    BY <1>3 DEF WaitObserve, IInv, WaitInv
  <2>1. proc' \in [Pids -> ProcState]
    BY <1>3 DEF WaitObserve, IInv, TypeOK, ProcState
  <2>2. \/ WaitReturns(FALSE) \/ WaitReturns(TRUE)
        \/ wait' = [wait EXCEPT !.at = "check"] /\ UNCHANGED pc
    BY <1>3 DEF WaitObserve
  <2>3. CASE WaitReturns(FALSE) \/ WaitReturns(TRUE)
    <3>1. /\ pc' = "outcome" /\ wait' \in WaitFrame
          /\ wait'.slot = wait.slot /\ wait'.handle = wait.handle
      BY <1>a, <2>3 DEF WaitReturns, WaitFrame
    <3> QED
      BY <1>0, <2>0, <2>1, <3>1 DEF IInv, TypeOK, TableInv, HandleInv, LaunchInv, WaitInv
  <2>4. CASE wait' = [wait EXCEPT !.at = "check"] /\ UNCHANGED pc
    <3>1. /\ wait' \in WaitFrame /\ wait'.slot = wait.slot /\ wait'.handle = wait.handle
          /\ wait'.idx = wait.idx /\ wait'.at = "check"
      BY <1>a, <2>4 DEF WaitFrame
    <3> QED
      BY <1>0, <2>0, <2>1, <2>4, <3>1 DEF IInv, TypeOK, TableInv, HandleInv, LaunchInv, WaitInv
  <2> QED
    BY <2>2, <2>3, <2>4
<1>4. CASE WaitRetire
  <2> DEFINE s == wait.slot
             C == Children(workers, workers[s].handle)
             D == Stopped(workers, C)
  <2>0. /\ s \in Slots /\ pc' = "idle" /\ wait' = NoWait
        /\ reply' = Answer("wait", wait.handle, TRUE) /\ UNCHANGED <<launch, nextHandle, control>>
    BY <1>4 DEF WaitRetire, IInv, WaitInv
  <2>1. workers' = Cleared(workers, D \cup {s}) /\ proc' = Freed(proc, Signalled(workers, D))
    BY <1>4 DEF WaitRetire, RetireWorker
  <2>2. /\ D \in SUBSET Slots /\ ChildClosed(workers, D)
        /\ \A c \in C : workers[c].active => c \in D
    BY StoppedClosed DEF Children
  <2>3. ChildClosed(workers, D \cup {s})
    <3> SUFFICES ASSUME NEW u \in D \cup {s}, NEW t \in Slots, IsChild(workers, t, workers[u].handle)
                 PROVE  t \in D
      BY DEF ChildClosed
    <3>1. CASE u \in D
      BY <2>2, <3>1 DEF ChildClosed
    <3>2. CASE u = s
      BY <2>2, <3>2 DEF Children, IsChild
    <3> QED
      BY <3>1, <3>2
  <2>4. proc' \in [Pids -> ProcState]
    BY <2>1, FreedType
  <2>5. workers \in [Slots -> Worker] /\ TableInv(workers) /\ HandleInv(workers, nextHandle)
    BY DEF IInv, TypeOK
  <2> HIDE DEF D
  <2>6. /\ workers' \in [Slots -> Worker] /\ TableInv(workers') /\ HandleInv(workers', nextHandle)
    BY <2>0, <2>1, <2>2, <2>3, <2>5, ClearKeepsTable
  <2>7. \A t \in Slots : workers'[t].active => workers'[t] = workers[t]
    BY <2>1 DEF Cleared, Empty
  <2>8. TypeOK'
    BY <1>a, <2>0, <2>4, <2>6 DEF IInv, TypeOK, NoWait, WaitFrame, Answer, Reply
  <2>9. LaunchInv' /\ WaitInv'
    BY <1>0, <2>0, <2>7 DEF IInv, LaunchInv, WaitInv
  <2> QED
    BY <2>0, <2>6, <2>8, <2>9 DEF IInv
<1>5. CASE WaitStop
  <2>0. /\ wait.slot \in Slots /\ pc' = "idle" /\ wait' = NoWait /\ StopWorkers({wait.slot})
        /\ reply' = Answer("wait", wait.handle, FALSE) /\ UNCHANGED <<launch, nextHandle, control>>
    BY <1>5 DEF WaitStop, IInv, WaitInv
  <2>1. /\ workers' \in [Slots -> Worker] /\ proc' \in [Pids -> ProcState]
        /\ TableInv(workers') /\ HandleInv(workers', nextHandle)
        /\ \A t \in Slots : workers'[t].active => workers'[t] = workers[t]
    BY <1>b, <2>0
  <2>2. TypeOK'
    BY <1>a, <2>0, <2>1 DEF IInv, TypeOK, NoWait, WaitFrame, Answer, Reply
  <2>3. LaunchInv' /\ WaitInv'
    BY <1>0, <2>0, <2>1 DEF IInv, LaunchInv, WaitInv
  <2> QED
    BY <2>0, <2>1, <2>2, <2>3 DEF IInv
<1>6. CASE ServiceReap
  <2> DEFINE s == wait.idx
             D == Stopped(workers, Children(workers, workers[s].handle))
  <2>0. /\ pc = "wait" /\ s \in Slots /\ wait.slot \in Slots /\ wait.handle # 0
        /\ UNCHANGED <<pc, launch, nextHandle, control, reply>>
    BY <1>6 DEF ServiceReap, IInv, WaitInv
  <2>1. CASE wait' = ServeNext /\ UNCHANGED <<workers, proc>>
    <3>1. /\ wait' \in WaitFrame /\ wait'.idx \in Slots /\ wait'.at # "rpc"
          /\ wait'.slot = wait.slot /\ wait'.handle = wait.handle
      BY <2>0, <2>1, ServeNextKeeps
    <3> QED
      BY <1>0, <2>0, <2>1, <3>1 DEF IInv, TypeOK, TableInv, HandleInv, LaunchInv, WaitInv
  <2>2. CASE /\ workers[s].active /\ ~workers[s].reaped
             /\ wait' = [wait EXCEPT !.at = "rpc"] /\ UNCHANGED <<workers, proc>>
    <3>1. /\ wait' \in WaitFrame /\ wait'.slot = wait.slot /\ wait'.handle = wait.handle
          /\ wait'.idx = wait.idx
      BY <1>a, <2>2 DEF WaitFrame
    <3> QED
      BY <1>0, <2>0, <2>2, <3>1 DEF IInv, TypeOK, TableInv, HandleInv, LaunchInv, WaitInv
  <2>3. CASE /\ workers[s].active
             /\ workers' = MarkReaped(Cleared(workers, D), s)
             /\ proc' = Freed(proc, Signalled(workers, D) \cup {workers[s].pid})
             /\ wait' = ServeNext
    <3>1. /\ wait' \in WaitFrame /\ wait'.idx \in Slots /\ wait'.at # "rpc"
          /\ wait'.slot = wait.slot /\ wait'.handle = wait.handle
      BY <2>0, <2>3, ServeNextKeeps
    <3>2. /\ workers' \in [Slots -> Worker] /\ TableInv(workers') /\ HandleInv(workers', nextHandle)
          /\ \A t \in Slots : workers'[t].active =>
                 workers[t].active /\ workers'[t].handle = workers[t].handle
      BY <1>0, <2>0, <2>3, ReapKeeps
    <3>3. proc' \in [Pids -> ProcState]
      BY <2>3, FreedType
    <3>4. TypeOK'
      BY <2>0, <3>1, <3>2, <3>3 DEF IInv, TypeOK
    <3>5. LaunchInv' /\ WaitInv'
      BY <1>0, <2>0, <3>1, <3>2 DEF IInv, LaunchInv, WaitInv
    <3> QED
      BY <2>0, <3>2, <3>4, <3>5 DEF IInv
  <2> QED
    BY <1>6, <2>1, <2>2, <2>3 DEF ServiceReap
<1> QED
  BY <1>1, <1>2, <1>3, <1>4, <1>5, <1>6

\* One record's pipe in service_workers, and worker_operation.
LEMMA ServiceKeeps ==
    ASSUME IInv, BrokerAssumption, Serving,
           \/ FlushReply \/ NoRequest \/ RequestEof \/ ServiceStop \/ ChildLaunch \/ ReplyOnly
           \/ \E h \in Issued : ChildSignal(h) \/ ChildOverBudget(h) \/ ChildRelease(h)
    PROVE  IInv'
<1> USE BrokerAssumption
<1> DEFINE o == wait.idx
<1>0. /\ pc = "wait" /\ launch.slot = 0 /\ o \in Slots /\ workers[o].active /\ ~workers[o].reaped
      /\ wait.slot \in Slots /\ wait.handle # 0
  BY DEF Serving, IInv, LaunchInv, WaitInv
<1>a. /\ workers \in [Slots -> Worker] /\ TableInv(workers) /\ HandleInv(workers, nextHandle)
      /\ MaxHandle \in Nat
  BY DEF IInv, TypeOK
<1>b. workers[o].handle # 0 /\ \A t \in Slots : workers[t].active => workers[t].handle # 0
  BY <1>0 DEF IInv, LaunchInv, Slots
\* What every step but ChildLaunch amounts to.
<1>c. ASSUME wait' = ServeNext, UNCHANGED <<pc, launch, nextHandle, control, reply>>,
             proc' \in [Pids -> ProcState], workers' \in [Slots -> Worker],
             TableInv(workers'), HandleInv(workers', nextHandle),
             \A t \in Slots : workers'[t].active =>
                 workers[t].active /\ workers'[t].handle = workers[t].handle
      PROVE  IInv'
  <2>1. /\ wait' \in WaitFrame /\ wait'.idx \in Slots /\ wait'.at # "rpc"
        /\ wait'.slot = wait.slot /\ wait'.handle = wait.handle
    BY <1>0, <1>c, ServeNextKeeps
  <2>2. TypeOK'
    BY <1>c, <2>1 DEF IInv, TypeOK
  <2>3. LaunchInv'
    BY <1>0, <1>b, <1>c DEF LaunchInv
  <2>4. WaitInv'
    BY <1>0, <1>c, <2>1 DEF WaitInv
  <2> QED
    BY <1>c, <2>2, <2>3, <2>4 DEF IInv
<1>d. ASSUME NEW a \in {"none", "pending"}, workers' = Answering(workers, o, a)
      PROVE  /\ workers' \in [Slots -> Worker] /\ TableInv(workers') /\ HandleInv(workers', nextHandle)
             /\ \A t \in Slots : workers'[t].active =>
                    workers[t].active /\ workers'[t].handle = workers[t].handle
  BY <1>0, <1>a, <1>d, ReplyKeeps
<1>e. ASSUME NEW S \in SUBSET Slots, StopWorkers(S)
      PROVE  /\ workers' \in [Slots -> Worker] /\ proc' \in [Pids -> ProcState]
             /\ TableInv(workers') /\ HandleInv(workers', nextHandle)
             /\ \A t \in Slots : workers'[t].active =>
                    workers[t].active /\ workers'[t].handle = workers[t].handle
  <2>1. /\ workers' \in [Slots -> Worker] /\ proc' \in [Pids -> ProcState]
        /\ TableInv(workers') /\ HandleInv(workers', nextHandle)
        /\ \A t \in Slots : workers'[t].active => workers'[t] = workers[t]
    BY <1>e, StopKeeps
  <2> QED
    BY <2>1
<1>f. proc \in [Pids -> ProcState]
  BY DEF IInv, TypeOK
<1>1. CASE FlushReply
  BY <1>1, <1>c, <1>d, <1>f DEF FlushReply
<1>2. CASE NoRequest
  BY <1>2, <1>a, <1>c, <1>f DEF NoRequest
<1>3. CASE RequestEof
  <2>1. Children(workers, workers[o].handle) \in SUBSET Slots
    BY DEF Children
  <2> QED
    BY <1>3, <1>c, <1>e, <2>1 DEF RequestEof, Owner
<1>4. CASE ServiceStop
  BY <1>0, <1>4, <1>c, <1>e DEF ServiceStop
<1>5. CASE ReplyOnly
  BY <1>5, <1>c, <1>d, <1>f DEF ReplyOnly
<1>6. CASE ChildLaunch
  <2>1. PICK s \in FreeWorker(workers), p \in Pids : Spawn(s, p, workers[o].handle, workers)
    BY <1>6 DEF ChildLaunch, Owner
  <2>2. /\ workers[o].handle \in 0 .. MaxHandle /\ workers[o].handle < nextHandle
        /\ UNCHANGED <<wait, nextHandle, control, reply>>
    BY <1>0, <1>6, <1>a DEF ChildLaunch, HandleInv, Worker
  <2>3. /\ TypeOK' /\ TableInv(workers)' /\ HandleInv(workers, nextHandle)'
        /\ s \in Slots /\ ~workers[s].active /\ launch' = [slot |-> s, stage |-> "spawned"]
        /\ pc' = "launch" /\ nextHandle <= MaxHandle
        /\ workers'[s].active /\ workers'[s].handle = 0 /\ workers'[s].parent = workers[o].handle
        /\ \A t \in Slots : t # s => workers'[t] = workers[t]
    BY <1>0, <2>1, <2>2, SpawnKeeps
  <2>4. workers'[o] = workers[o]
    BY <1>0, <2>3
  <2>5. LaunchInv'
    <3>1. \A t \in Slots : workers'[t].active /\ workers'[t].handle = 0 => t = launch'.slot
      BY <1>b, <2>3
    <3> QED
      BY <1>0, <2>2, <2>3, <2>4, <3>1 DEF LaunchInv
  <2>6. WaitInv'
    BY <2>3 DEF WaitInv
  <2> QED
    BY <2>3, <2>5, <2>6 DEF IInv
<1>7. ASSUME NEW h \in Issued, ChildSignal(h) PROVE IInv'
  <2>1. proc' \in [Pids -> ProcState]
    BY <1>7, <1>f DEF ChildSignal, ProcState
  <2> QED
    BY <1>7, <1>c, <1>d, <2>1 DEF ChildSignal
<1>8. ASSUME NEW h, NEW s \in OwnedChild(h)
      PROVE  /\ s \in Slots /\ workers[s].active /\ workers[s].handle = h
             /\ workers[o].handle < workers[s].handle
  BY <1>8, <1>a, <1>b DEF OwnedChild, FindWorker, Owner, TableInv
<1>9. ASSUME NEW h \in Issued, ChildOverBudget(h) PROVE IInv'
  <2> DEFINE D == Stopped(workers, OwnedChild(h))
  <2>1. OwnedChild(h) \in SUBSET Slots
    BY DEF OwnedChild, FindWorker
  <2>2. o \notin D
    BY <1>0, <1>8, <1>a, <1>b, <2>1, OlderSurvives
  <2>3. D \in SUBSET Slots /\ ChildClosed(workers, D)
    BY <2>1, StoppedClosed
  <2>4. /\ workers' = Answering(Cleared(workers, D), o, "pending")
        /\ proc' = Freed(proc, Signalled(workers, D))
    BY <1>9 DEF ChildOverBudget, StopAndReply
  <2>5. proc' \in [Pids -> ProcState]
    BY <2>4, FreedType
  <2> HIDE DEF D
  <2>6. /\ workers' \in [Slots -> Worker] /\ TableInv(workers') /\ HandleInv(workers', nextHandle)
        /\ \A t \in Slots : workers'[t].active =>
               workers[t].active /\ workers'[t].handle = workers[t].handle
    BY <1>0, <2>2, <2>3, <2>4, StopAndReplyKeeps
  <2> QED
    BY <1>9, <1>c, <2>5, <2>6 DEF ChildOverBudget
<1>10. ASSUME NEW h \in Issued, ChildRelease(h) PROVE IInv'
  <2> DEFINE C == Children(workers, h)
             D == Stopped(workers, C)
  <2>1. PICK s \in OwnedChild(h) :
            /\ workers' = Answering(Cleared(workers, D \cup {s}), o, "pending")
            /\ proc' = Freed(proc, Signalled(workers, D))
    BY <1>10 DEF ChildRelease
  <2>2. /\ s \in Slots /\ workers[s].active /\ workers[s].handle = h
        /\ workers[o].handle < workers[s].handle
    BY <1>8
  <2>3. /\ D \in SUBSET Slots /\ ChildClosed(workers, D)
        /\ \A c \in C : workers[c].active => c \in D
    BY StoppedClosed DEF Children
  <2>4. ChildClosed(workers, D \cup {s})
    <3> SUFFICES ASSUME NEW u \in D \cup {s}, NEW t \in Slots, IsChild(workers, t, workers[u].handle)
                 PROVE  t \in D
      BY DEF ChildClosed
    <3>1. CASE u \in D
      BY <2>3, <3>1 DEF ChildClosed
    <3>2. CASE u = s
      BY <2>2, <2>3, <3>2 DEF Children, IsChild
    <3> QED
      BY <3>1, <3>2
  <2>5. \A c \in C : workers[c].active => workers[c].handle = 0 \/ workers[o].handle < workers[c].handle
    <3>1. ASSUME NEW c \in C, workers[c].active, workers[c].handle # 0
          PROVE  workers[o].handle < workers[c].handle
      <4>1. workers[c].parent < workers[c].handle /\ workers[c].parent = workers[s].handle
        BY <1>a, <2>2, <3>1 DEF Children, IsChild, TableInv
      <4>2. c \in Slots
        BY DEF Children
      <4>3. workers[c].handle \in Nat /\ workers[s].handle \in Nat /\ workers[o].handle \in Nat
        BY <1>0, <1>a, <2>2, <4>2 DEF Worker
      <4> QED
        BY <2>2, <4>1, <4>3
    <3> QED
      BY <3>1
  <2>6. o \notin D \cup {s}
    <3>1. C \in SUBSET Slots
      BY DEF Children
    <3>2. o # s
      <4>1. workers[o].handle \in Nat
        BY <1>0, <1>a DEF Worker
      <4> QED
        BY <2>2, <4>1
    <3> HIDE DEF C
    <3>3. o \notin Stopped(workers, C)
      BY <1>0, <1>a, <1>b, <2>5, <3>1, OlderSurvives
    <3> QED
      BY <3>2, <3>3
  <2>7. proc' \in [Pids -> ProcState]
    BY <2>1, FreedType
  <2> HIDE DEF D
  <2>8. D \cup {s} \in SUBSET Slots
    BY <2>2, <2>3
  <2>9. /\ workers' \in [Slots -> Worker] /\ TableInv(workers') /\ HandleInv(workers', nextHandle)
        /\ \A t \in Slots : workers'[t].active =>
               workers[t].active /\ workers'[t].handle = workers[t].handle
    BY <1>0, <2>1, <2>4, <2>6, <2>8, StopAndReplyKeeps
  <2> QED
    BY <1>10, <1>c, <2>7, <2>9 DEF ChildRelease
<1> QED
  BY <1>1, <1>2, <1>3, <1>4, <1>5, <1>6, <1>7, <1>9, <1>10

-----------------------------------------------------------------------------
(* The theorems.                                                           *)

\* The broker starts with an empty table and handle 1.
LEMMA InitIInv == ASSUME BrokerAssumption, Init PROVE IInv
<1> USE BrokerAssumption
<1>1. Empty \in Worker /\ ~Empty.active
  BY DEF Empty, Worker
<1>2. TypeOK
  BY <1>1 DEF Init, TypeOK, ProcState, NoLaunch, LaunchFrame, Stages, NoWait, WaitFrame, NoReply, Reply
<1>3. \A s \in Slots : workers[s] = Empty
  BY DEF Init
<1>4. TableInv(workers) /\ HandleInv(workers, nextHandle)
  BY <1>1, <1>3 DEF TableInv, HandleInv
<1>5. LaunchInv /\ WaitInv
  BY <1>1, <1>3 DEF Init, LaunchInv, WaitInv, NoLaunch
<1> QED
  BY <1>2, <1>4, <1>5 DEF IInv

\* Every step of the broker and of its environment preserves IInv.
LEMMA NextIInv == ASSUME BrokerAssumption, IInv, [Next]_vars PROVE IInv'
<1>1. CASE Environment
  BY <1>1, EnvironmentKeeps
<1>2. CASE Requests
  BY <1>2, RequestsKeep
<1>3. CASE BrokerStep
  <2>1. CASE LaunchAdvance \/ LaunchDone \/ LaunchFail
    BY <2>1, LaunchKeeps
  <2>2. CASE MainEof \/ WaitCheck \/ WaitObserve \/ WaitRetire \/ WaitStop \/ ServiceReap
    BY <2>2, WaitKeeps
  <2>3. CASE \/ FlushReply \/ NoRequest \/ RequestEof \/ ServiceStop \/ ChildLaunch \/ ReplyOnly
             \/ \E h \in Issued : ChildSignal(h) \/ ChildOverBudget(h) \/ ChildRelease(h)
    <3>1. Serving
      BY <2>3 DEF FlushReply, NoRequest, RequestEof, ServiceStop, ChildLaunch, ReplyOnly,
                  ChildSignal, ChildOverBudget, ChildRelease
    <3> QED
      BY <2>3, <3>1, ServiceKeeps
  <2> QED
    BY <1>3, <2>1, <2>2, <2>3 DEF BrokerStep
<1>4. CASE BrokerDie
  BY <1>4 DEF BrokerDie, IInv, TypeOK, TableInv, HandleInv, LaunchInv, WaitInv
<1>5. CASE Halted \/ UNCHANGED vars
  BY <1>5 DEF Halted, vars, IInv, TypeOK, TableInv, HandleInv, LaunchInv, WaitInv
<1> QED
  BY <1>1, <1>2, <1>3, <1>4, <1>5 DEF Next

\* The broker's table and frames keep their types, and IInv is an invariant,
\* for every size of the table, of the pid space and of the handle space.
THEOREM BrokerInvariant == Spec => []IInv
<1>1. Init => IInv
  BY BrokerAssumption, InitIInv
<1>2. IInv /\ [Next]_vars => IInv'
  BY BrokerAssumption, NextIInv
<1> QED
  BY <1>1, <1>2, PTL DEF Spec

\* The table, the frames of launch_worker and of the pending WAIT, and the
\* handle counter stay within their types in every reachable state.
THEOREM BrokerTypeOK == Spec => []TypeOK
<1>1. IInv => TypeOK
  BY DEF IInv
<1> QED
  BY <1>1, BrokerInvariant, PTL

\* find_worker is deterministic: active records never share a handle.
THEOREM BrokerUniqueHandles == Spec => []UniqueHandles
<1>1. IInv => UniqueHandles
  BY DEF IInv, TableInv, UniqueHandles
<1> QED
  BY <1>1, BrokerInvariant, PTL

\* A logical child is never in the table without the running record of its
\* parent, however the parent went.
THEOREM BrokerChildrenHaveParents == Spec => []ChildrenHaveParents
<1>1. IInv => ChildrenHaveParents
  BY DEF IInv, TableInv, ChildrenHaveParents
<1> QED
  BY <1>1, BrokerInvariant, PTL

-----------------------------------------------------------------------------
(* The root in the process tree.                                           *)

\* A non-empty set of natural numbers has a least element.
LEMMA LeastNatural ==
    ASSUME NEW T \in SUBSET Nat, T # {}
    PROVE  \E m \in T : \A k \in T : ~(k < m)
<1>1. PICK m \in T : \A k \in T : <<k, m>> \notin OpToRel(<, Nat)
  BY WFMin, NatLessThanWellFounded, Zenon
<1>2. \A k \in T : ~(k < m)
  <2> SUFFICES ASSUME NEW k \in T, k < m PROVE FALSE
    OBVIOUS
  <2>1. <<k, m>> \in OpToRel(<, Nat)
    BY Zenon DEF OpToRel
  <2> QED
    BY <1>1, <2>1, Zenon
<1> QED
  BY <1>2

\* Stopping other records than a root does not reach the root: nobody is its
\* parent.
LEMMA RootSurvives ==
    ASSUME NEW w, NEW r \in Slots, w[r].parent = 0, NEW S \in SUBSET Slots, r \notin S
    PROVE  r \notin Stopped(w, S)
<1>1. ChildClosed(w, Slots \ {r})
  BY DEF ChildClosed, IsChild
<1>2. ASSUME NEW s \in S PROVE r \notin SubTree(w, s)
  <2>1. s \in Slots \ {r}
    OBVIOUS
  <2>2. Slots \ {r} \in SUBSET Slots
    OBVIOUS
  <2>3. r \notin Slots \ {r}
    OBVIOUS
  <2> QED
    BY <1>1, <2>1, <2>2, <2>3, Zenon DEF SubTree
<1> QED
  BY <1>2 DEF Stopped

\* Everything in the table descends from the only root.
LEMMA RootCovers ==
    ASSUME NEW w \in [Slots -> Worker], TableInv(w), MaxHandle \in Nat,
           NEW r \in Slots, w[r].active,
           \A s \in Slots : w[s].active /\ w[s].parent = 0 => s = r,
           NEW t \in Slots, w[t].active
    PROVE  t \in SubTree(w, r)
<1> SUFFICES ASSUME NEW S \in SUBSET Slots, r \in S, ChildClosed(w, S)
             PROVE  t \in S
  BY DEF SubTree
<1> DEFINE Bad == {u \in Slots : w[u].active /\ u \notin S}
           T == {w[u].parent : u \in Bad}
<1> SUFFICES ASSUME Bad # {} PROVE FALSE
  OBVIOUS
<1>1. T \in SUBSET Nat /\ T # {}
  BY DEF Worker
<1>2. PICK m \in T : \A k \in T : ~(k < m)
  <2> HIDE DEF T
  <2> QED
    BY <1>1, LeastNatural
<1>3. PICK u \in Bad : w[u].parent = m
  OBVIOUS
<1>4. w[u].active /\ w[u].parent # 0 /\ u \in Slots /\ u \notin S
  BY <1>3
<1>5. PICK v \in Slots : w[v].active /\ w[v].handle = w[u].parent
  BY <1>4 DEF TableInv
<1>6. v \notin S
  BY <1>4, <1>5 DEF ChildClosed, IsChild
<1>7. w[v].parent < w[v].handle
  BY <1>4, <1>5 DEF TableInv
<1>8. w[v].parent \in T
  BY <1>5, <1>6
<1> QED
  BY <1>2, <1>3, <1>5, <1>7, <1>8

-----------------------------------------------------------------------------
(* What a step that stops records does to the processes.                   *)

\* The part of ProcInv that does not depend on where the broker is.
LinkInv == PidInv /\ RootInv /\ NoLeakedProcess

\* The records in E are cleared, those in M are marked reaped, the pids in P
\* are freed; the others keep their process.
Frees(E, M, P) ==
    /\ \A s \in Slots :
          /\ s \in E => ~workers'[s].active
          /\ s \notin E => /\ workers'[s].active = workers[s].active
                           /\ workers'[s].pid = workers[s].pid
                           /\ workers'[s].parent = workers[s].parent
                           /\ workers'[s].reaped = (workers[s].reaped \/ s \in M)
    /\ proc' = Freed(proc, P)
    /\ \A s \in (E \cup M) \cap Slots :
          workers[s].active /\ ~workers[s].reaped
          => workers[s].pid \in P \/ proc[workers[s].pid] \notin Owned
    /\ \A p \in P \cap Pids :
          \E s \in (E \cup M) \cap Slots : workers[s].active /\ ~workers[s].reaped /\ workers[s].pid = p

\* Such a step loses no process, and every record that stays unreaped keeps
\* the process it had.
LEMMA FreesKeeps ==
    ASSUME IInv, LinkInv, NEW E, NEW M, NEW P, Frees(E, M, P), TypeOK'
    PROVE  /\ LinkInv'
           /\ \A s \in Slots : workers'[s].active /\ ~workers'[s].reaped =>
                 /\ workers[s].active /\ ~workers[s].reaped
                 /\ workers'[s].pid = workers[s].pid
                 /\ workers'[s].parent = workers[s].parent
                 /\ proc'[workers[s].pid] = proc[workers[s].pid]
<1>1. \A s \in Slots : workers'[s].active =>
          /\ s \notin E /\ workers[s].active /\ workers'[s].pid = workers[s].pid
          /\ workers'[s].parent = workers[s].parent
          /\ ~workers'[s].reaped => ~workers[s].reaped /\ s \notin M
  BY DEF Frees
<1>2. PidInv' /\ RootInv'
  <2>1. RootInv'
    BY <1>1 DEF LinkInv, RootInv
  <2>2. \A s \in Slots : workers'[s].active => workers'[s].pid \in Pids
    BY <1>1 DEF LinkInv, PidInv
  <2>3. ASSUME NEW s \in Slots, NEW t \in Slots, workers'[s].active, workers'[t].active,
               workers'[s].pid = workers'[t].pid, ~workers'[s].reaped,
               ~workers'[t].reaped \/ workers'[s].parent = 0
        PROVE  s = t
    BY <1>1, <2>3 DEF LinkInv, PidInv
  <2> QED
    BY <2>1, <2>2, <2>3 DEF PidInv
<1>3. \A p \in Pids : proc'[p] = IF p \in P THEN "free" ELSE proc[p]
  BY DEF Frees, Freed
<1>4. NoLeakedProcess'
  <2> SUFFICES ASSUME NEW p \in Pids, proc'[p] \in {"live", "zombie"}
               PROVE  \E s \in Slots : workers'[s].active /\ ~workers'[s].reaped /\ workers'[s].pid = p
    BY DEF NoLeakedProcess
  <2>1. p \notin P /\ proc[p] \in Owned
    BY <1>3 DEF Owned
  <2>2. PICK s \in Slots : workers[s].active /\ ~workers[s].reaped /\ workers[s].pid = p
    BY <2>1 DEF LinkInv, NoLeakedProcess, Owned
  <2>3. s \notin E \cup M
    BY <2>1, <2>2 DEF Frees
  <2> QED
    BY <2>2, <2>3 DEF Frees
<1>5. ASSUME NEW s \in Slots, workers'[s].active, ~workers'[s].reaped
      PROVE  workers[s].pid \notin P /\ workers[s].pid \in Pids
  <2>1. /\ workers[s].active /\ ~workers[s].reaped /\ s \notin E \cup M /\ workers[s].pid \in Pids
    BY <1>1, <1>5 DEF LinkInv, PidInv
  <2>2. ASSUME workers[s].pid \in P PROVE FALSE
    <3>1. PICK t \in (E \cup M) \cap Slots :
              workers[t].active /\ ~workers[t].reaped /\ workers[t].pid = workers[s].pid
      BY <2>1, <2>2 DEF Frees
    <3> QED
      BY <2>1, <3>1 DEF LinkInv, PidInv
  <2> QED
    BY <2>1, <2>2
<1> QED
  BY <1>1, <1>2, <1>3, <1>4, <1>5 DEF LinkInv

\* What stop_worker signals and reaps: the processes of the records it stops.
LEMMA SignalledOwn ==
    ASSUME IInv, BrokerAssumption, NEW D \in SUBSET Slots, LinkInv
    PROVE  /\ \A s \in D : workers[s].active /\ ~workers[s].reaped => workers[s].pid \in Signalled(workers, D)
           /\ \A p \in Signalled(workers, D) \cap Pids :
                 \E s \in D : workers[s].active /\ ~workers[s].reaped /\ workers[s].pid = p
<1>1. \A s \in Slots : ~workers[s].active => workers[s].pid \notin Pids
  BY DEF IInv, TableInv, BrokerAssumption, Empty
<1> QED
  BY <1>1 DEF Signalled

\* Stopping the records in D and clearing those in X, whose processes are gone:
\* stop_worker, retire_worker and RELEASE, with or without a pending reply.
LEMMA ClearFrees ==
    ASSUME IInv, BrokerAssumption, LinkInv,
           NEW D \in SUBSET Slots, NEW X \in SUBSET Slots,
           \A x \in X : ~workers[x].active \/ workers[x].reaped \/ proc[workers[x].pid] \notin Owned,
           \/ workers' = Cleared(workers, D \cup X)
           \/ \E o \in Slots : workers' = Answering(Cleared(workers, D \cup X), o, "pending"),
           proc' = Freed(proc, Signalled(workers, D))
    PROVE  Frees(D \cup X, {}, Signalled(workers, D))
<1> DEFINE E == D \cup X
           c == Cleared(workers, E)
<1>1. \A s \in Slots : c[s] = IF s \in E THEN Empty ELSE workers[s]
  BY DEF Cleared
<1>2. c \in [Slots -> Worker]
  BY <1>1, BrokerAssumption DEF IInv, TypeOK, Cleared, Empty, Worker
<1> HIDE DEF c
<1>3. \A s \in Slots : /\ workers'[s].active = c[s].active /\ workers'[s].pid = c[s].pid
                       /\ workers'[s].parent = c[s].parent /\ workers'[s].reaped = c[s].reaped
  <2>1. CASE workers' = c
    BY <2>1
  <2>2. ASSUME NEW o \in Slots, workers' = Answering(c, o, "pending")
        PROVE  \A s \in Slots : /\ workers'[s].active = c[s].active /\ workers'[s].pid = c[s].pid
                                /\ workers'[s].parent = c[s].parent /\ workers'[s].reaped = c[s].reaped
    BY <1>2, <2>2 DEF Answering, Worker
  <2> QED
    BY <2>1, <2>2 DEF c
<1>4. \A s \in Slots :
          /\ s \in E => ~workers'[s].active
          /\ s \notin E => /\ workers'[s].active = workers[s].active
                           /\ workers'[s].pid = workers[s].pid
                           /\ workers'[s].parent = workers[s].parent
                           /\ workers'[s].reaped = (workers[s].reaped \/ s \in {})
  <2>1. \A s \in Slots : workers[s].reaped \in BOOLEAN
    BY DEF IInv, TypeOK, Worker
  <2> QED
    BY <1>1, <1>3, <2>1 DEF Empty
<1>5. /\ \A s \in D : workers[s].active /\ ~workers[s].reaped => workers[s].pid \in Signalled(workers, D)
      /\ \A p \in Signalled(workers, D) \cap Pids :
            \E s \in D : workers[s].active /\ ~workers[s].reaped /\ workers[s].pid = p
  BY SignalledOwn
<1>6. \A s \in (E \cup {}) \cap Slots :
          workers[s].active /\ ~workers[s].reaped
          => workers[s].pid \in Signalled(workers, D) \/ proc[workers[s].pid] \notin Owned
  BY <1>5
<1>7. \A p \in Signalled(workers, D) \cap Pids :
          \E s \in (E \cup {}) \cap Slots : workers[s].active /\ ~workers[s].reaped /\ workers[s].pid = p
  BY <1>5
<1> QED
  BY <1>4, <1>6, <1>7 DEF Frees

LEMMA StopFrees ==
    ASSUME IInv, BrokerAssumption, LinkInv, NEW S \in SUBSET Slots, StopWorkers(S)
    PROVE  Frees(Stopped(workers, S), {}, Signalled(workers, Stopped(workers, S)))
<1> DEFINE D == Stopped(workers, S)
<1>1. D \in SUBSET Slots /\ D \cup {} = D
  BY DEF Stopped
<1>2. workers' = Cleared(workers, D) /\ proc' = Freed(proc, Signalled(workers, D))
  BY DEF StopWorkers
<1> HIDE DEF D
<1>3. Frees(D \cup {}, {}, Signalled(workers, D))
  BY <1>1, <1>2, ClearFrees
<1> QED
  BY <1>1, <1>3 DEF D

LEMMA StopReplyFrees ==
    ASSUME IInv, BrokerAssumption, LinkInv, NEW S \in SUBSET Slots, NEW o \in Slots, StopAndReply(S, o)
    PROVE  Frees(Stopped(workers, S), {}, Signalled(workers, Stopped(workers, S)))
<1> DEFINE D == Stopped(workers, S)
<1>1. D \in SUBSET Slots /\ D \cup {} = D
  BY DEF Stopped
<1>2. workers' = Answering(Cleared(workers, D), o, "pending") /\ proc' = Freed(proc, Signalled(workers, D))
  BY DEF StopAndReply
<1> HIDE DEF D
<1>3. Frees(D \cup {}, {}, Signalled(workers, D))
  BY <1>1, <1>2, ClearFrees
<1> QED
  BY <1>1, <1>3 DEF D

-----------------------------------------------------------------------------
(* Where the broker goes on after such a step.                             *)

\* Back to main's loop: the record of a WAIT that has ended is among the
\* cleared ones.
LEMMA ToIdle ==
    ASSUME IInv, ProcInv, TypeOK', NEW E, NEW M, NEW P, Frees(E, M, P),
           pc # "died", pc' = "idle",
           pc = "outcome" => wait.slot \in E \/ ~workers[wait.slot].active
    PROVE  ProcInv'
<1>1. /\ LinkInv'
      /\ \A s \in Slots : workers'[s].active /\ ~workers'[s].reaped =>
             /\ workers[s].active /\ ~workers[s].reaped
             /\ workers'[s].pid = workers[s].pid
             /\ proc'[workers[s].pid] = proc[workers[s].pid]
  BY FreesKeeps DEF ProcInv, LinkInv
<1>2. \A s \in Slots : s \in E => ~workers'[s].active
  BY DEF Frees
<1>3. BackedInv'
  BY <1>1, <1>2 DEF ProcInv, BackedInv
<1> QED
  BY <1>1, <1>3 DEF ProcInv, LinkInv, WaitRootInv, WaitPending, ExitInv

\* On with the pending WAIT: its root stays, or nothing does.
LEMMA ToWait ==
    ASSUME IInv, ProcInv, TypeOK', NEW E, NEW M, NEW P, Frees(E, M, P),
           pc # "outcome", WaitPending, pc' = "wait",
           wait.slot \in Slots, wait'.slot = wait.slot, wait'.pid = wait.pid,
           wait.slot \notin E \/ \A s \in Slots : workers[s].active => s \in E
    PROVE  ProcInv'
<1>1. /\ LinkInv'
      /\ \A s \in Slots : workers'[s].active /\ ~workers'[s].reaped =>
             /\ workers[s].active /\ ~workers[s].reaped
             /\ workers'[s].pid = workers[s].pid
             /\ proc'[workers[s].pid] = proc[workers[s].pid]
  BY FreesKeeps DEF ProcInv, LinkInv
<1>2. BackedInv'
  BY <1>1 DEF ProcInv, BackedInv, WaitPending
<1>3. WaitRootInv'
  <2>1. CASE \A s \in Slots : workers[s].active => s \in E
    BY <2>1 DEF Frees, WaitRootInv
  <2>2. CASE wait.slot \notin E
    BY <2>2 DEF Frees, ProcInv, WaitRootInv
  <2> QED
    BY <2>1, <2>2
<1> QED
  BY <1>1, <1>2, <1>3 DEF ProcInv, LinkInv, ExitInv

\* Out of main's loop, with the table cleared.
LEMMA ToExit ==
    ASSUME IInv, ProcInv, TypeOK', NEW E, NEW M, NEW P, Frees(E, M, P), pc' = "exited",
           \A s \in Slots : workers[s].active => s \in E
    PROVE  ProcInv'
<1>1. LinkInv'
  BY FreesKeeps DEF ProcInv, LinkInv
<1>2. \A s \in Slots : ~workers'[s].active
  BY DEF Frees
<1> QED
  BY <1>1, <1>2 DEF ProcInv, LinkInv, BackedInv, WaitRootInv, WaitPending, ExitInv

\* A step that leaves the links between records and processes alone.
LEMMA LinksUnchanged ==
    ASSUME IInv, ProcInv, TypeOK', UNCHANGED pc,
           launch'.slot = launch.slot, wait'.slot = wait.slot,
           wait'.pid = wait.pid, wait'.ok = wait.ok,
           \A s \in Slots : /\ workers'[s].active = workers[s].active
                            /\ workers'[s].pid = workers[s].pid
                            /\ workers'[s].parent = workers[s].parent
                            /\ workers'[s].reaped = workers[s].reaped,
           \A p \in Pids : proc'[p] \in Owned <=> proc[p] \in Owned
    PROVE  ProcInv'
<1>1. PidInv' /\ RootInv'
  BY DEF ProcInv, PidInv, RootInv
<1>2. NoLeakedProcess'
  BY DEF ProcInv, NoLeakedProcess, Owned
<1>3. BackedInv'
  BY DEF ProcInv, BackedInv, PidInv
<1>4. WaitRootInv'
  <2>1. pc = "launch" => launch.slot \in Slots
    BY DEF IInv, LaunchInv
  <2>2. pc \in {"wait", "outcome"} => wait.slot \in Slots
    BY DEF IInv, WaitInv
  <2>3. pc = "launch" /\ workers[launch.slot].parent # 0 => wait.slot \in Slots
    BY DEF IInv, LaunchInv
  <2>4. WaitPending' = WaitPending
    BY <2>1 DEF WaitPending
  <2>5. pc = "outcome" /\ workers[wait.slot].active => workers[wait.slot].pid \in Pids
    BY <2>2 DEF ProcInv, PidInv
  <2> QED
    BY <2>2, <2>3, <2>4, <2>5 DEF ProcInv, WaitRootInv, WaitPending
<1>5. ExitInv'
  BY DEF ProcInv, ExitInv
<1> QED
  BY <1>1, <1>2, <1>3, <1>4, <1>5 DEF ProcInv

-----------------------------------------------------------------------------
(* One lemma per group of actions: the step preserves ProcInv.             *)

\* Workers exit and hang up, pids are reused, the controller reads and closes.
LEMMA EnvironmentProcs ==
    ASSUME IInv, IInv', BrokerAssumption, ProcInv, Environment
    PROVE  ProcInv'
<1> USE BrokerAssumption
<1>0. TypeOK /\ TypeOK'
  BY DEF IInv
<1>1. ASSUME NEW p \in Pids, WorkerExit(p) PROVE ProcInv'
  BY <1>0, <1>1, LinksUnchanged DEF WorkerExit, TypeOK, Owned
<1>2. ASSUME NEW s \in Slots, WorkerHangup(s) PROVE ProcInv'
  <2>1. \A t \in Slots : /\ workers'[t].active = workers[t].active
                         /\ workers'[t].pid = workers[t].pid
                         /\ workers'[t].parent = workers[t].parent
                         /\ workers'[t].reaped = workers[t].reaped
    BY <1>0, <1>2 DEF WorkerHangup, TypeOK, Worker
  <2> QED
    BY <1>0, <1>2, <2>1, LinksUnchanged DEF WorkerHangup
<1>3. ASSUME NEW p \in ReusedPids, PidReuse(p) PROVE ProcInv'
  BY <1>0, <1>3, LinksUnchanged DEF PidReuse, TypeOK, Owned
<1>4. ASSUME TakeReply \/ ControllerClose PROVE ProcInv'
  BY <1>0, <1>4, LinksUnchanged DEF TakeReply, ControllerClose
<1>5. ASSUME WaitDeadline PROVE ProcInv'
  <2>1. wait'.slot = wait.slot /\ wait'.pid = wait.pid /\ wait'.ok = wait.ok
    BY <1>0, <1>5 DEF WaitDeadline, TypeOK, WaitFrame
  <2> QED
    BY <1>0, <1>5, <2>1, LinksUnchanged DEF WaitDeadline
<1> QED
  BY <1>1, <1>2, <1>3, <1>4, <1>5 DEF Environment

\* A new process gets a record of its own: its pid was free, so no record
\* that is not marked reaped has it.
LEMMA SpawnProcs ==
    ASSUME IInv, IInv', BrokerAssumption, ProcInv, pc \in {"idle", "wait"},
           NEW s \in FreeWorker(workers), NEW p \in Pids, NEW h \in 0 .. MaxHandle,
           Spawn(s, p, h, workers), UNCHANGED wait,
           h = 0 => \A t \in Slots : ~workers[t].active,
           h # 0 => pc = "wait"
    PROVE  ProcInv'
<1> USE BrokerAssumption
<1> DEFINE r == Starting(p, h)
<1>1. s \in Slots /\ ~workers[s].active
  BY DEF FreeWorker
<1>2. r.active /\ ~r.reaped /\ r.parent = h /\ r.pid = p
  BY DEF Starting
<1>3. /\ workers' = [workers EXCEPT ![s] = r] /\ launch'.slot = s /\ pc' = "launch"
      /\ proc[p] = "free" /\ proc' = [proc EXCEPT ![p] = "live"]
  BY DEF Spawn
<1> HIDE DEF r
<1>4. \A t \in Slots : workers'[t] = IF t = s THEN r ELSE workers[t]
  BY <1>1, <1>3 DEF IInv, TypeOK
<1>5. \A q \in Pids : proc'[q] = IF q = p THEN "live" ELSE proc[q]
  BY <1>3 DEF IInv, TypeOK
<1>6. \A t \in Slots : workers[t].active /\ ~workers[t].reaped =>
          workers[t].pid # p /\ proc[workers[t].pid] \in Owned /\ workers[t].pid \in Pids
  BY <1>3 DEF ProcInv, BackedInv, PidInv, Owned
<1>7. PidInv'
  <2>1. \A t \in Slots : workers'[t].active => workers'[t].pid \in Pids
    BY <1>2, <1>4 DEF ProcInv, PidInv
  <2>2. ASSUME NEW t \in Slots, NEW u \in Slots, workers'[t].active, workers'[u].active,
               workers'[t].pid = workers'[u].pid, ~workers'[t].reaped,
               ~workers'[u].reaped \/ workers'[t].parent = 0
        PROVE  t = u
    <3>1. CASE t = s /\ u # s
      BY <1>2, <1>4, <1>6, <2>2, <3>1
    <3>2. CASE t # s /\ u = s
      BY <1>2, <1>4, <1>6, <2>2, <3>2
    <3>3. CASE t # s /\ u # s
      BY <1>4, <2>2, <3>3 DEF ProcInv, PidInv
    <3> QED
      BY <3>1, <3>2, <3>3
  <2> QED
    BY <2>1, <2>2 DEF PidInv
<1>8. RootInv'
  BY <1>2, <1>4 DEF ProcInv, RootInv
<1>9. NoLeakedProcess'
  <2> SUFFICES ASSUME NEW q \in Pids, proc'[q] \in {"live", "zombie"}
               PROVE  \E t \in Slots : workers'[t].active /\ ~workers'[t].reaped /\ workers'[t].pid = q
    BY DEF NoLeakedProcess
  <2>1. CASE q = p
    BY <1>1, <1>2, <1>4, <2>1
  <2>2. CASE q # p
    <3>1. PICK t \in Slots : workers[t].active /\ ~workers[t].reaped /\ workers[t].pid = q
      BY <1>5, <2>2 DEF ProcInv, NoLeakedProcess
    <3> QED
      BY <1>1, <1>4, <3>1
  <2> QED
    BY <2>1, <2>2
<1>10. BackedInv'
  BY <1>2, <1>4, <1>5, <1>6 DEF BackedInv, Owned
<1>11. WaitRootInv'
  <2>1. CASE h = 0
    BY <1>1, <1>2, <1>3, <1>4, <2>1 DEF WaitRootInv, WaitPending
  <2>2. CASE h # 0
    <3>1. \E t \in Slots : workers'[t].active /\ workers'[t].handle = h
      <4>1. workers'[s].active /\ workers'[s].parent = h
        BY <1>1, <1>2, <1>4
      <4> QED
        BY <1>1, <2>2, <4>1 DEF IInv, TableInv
    <3>2. r.handle = 0
      BY DEF r, Starting
    <3>3. \E t \in Slots : workers[t].active
      BY <1>4, <2>2, <3>1, <3>2
    <3>4. workers[wait.slot].active /\ wait.slot \in Slots
      BY <2>2, <3>3 DEF ProcInv, WaitRootInv, WaitPending, IInv, WaitInv
    <3>5. workers'[wait.slot] = workers[wait.slot]
      BY <1>1, <1>4, <3>4
    <3> QED
      BY <1>3, <2>2, <3>4, <3>5 DEF ProcInv, WaitRootInv, WaitPending
  <2> QED
    BY <2>1, <2>2
<1> QED
  BY <1>3, <1>7, <1>8, <1>9, <1>10, <1>11 DEF ProcInv, ExitInv

\* A request of the controller.  A root starts in an empty table.
LEMMA RequestsProcs ==
    ASSUME IInv, IInv', BrokerAssumption, ProcInv, MultiRoot = FALSE, Requests
    PROVE  ProcInv'
<1> USE BrokerAssumption
<1>0. TypeOK /\ TypeOK' /\ LinkInv
  BY DEF IInv, ProcInv, LinkInv
<1>1. ASSUME MainLaunch PROVE ProcInv'
  <2>1. PICK s \in FreeWorker(workers), p \in Pids : Spawn(s, p, 0, workers)
    BY <1>1 DEF MainLaunch
  <2>2. pc = "idle" /\ UNCHANGED wait /\ \A t \in Slots : ~workers[t].active
    BY <1>1 DEF MainLaunch, Requested, RootsAllowed
  <2>3. 0 \in 0 .. MaxHandle
    OBVIOUS
  <2> QED
    BY <2>1, <2>2, <2>3, SpawnProcs
<1>2. ASSUME MainLaunchRefused PROVE ProcInv'
  BY <1>0, <1>2, LinksUnchanged DEF MainLaunchRefused
<1>3. ASSUME NEW h \in RootHandles, MainWait(h) PROVE ProcInv'
  <2>1. PICK s \in FindWorker(workers, h) : wait'.slot = s /\ wait'.pid = workers[s].pid
    BY <1>3 DEF MainWait
  <2>2. s \in Slots /\ workers[s].active /\ workers[s].parent = 0
    BY DEF FindWorker, RootHandles
  <2>3. pc = "idle" /\ pc' = "wait" /\ UNCHANGED <<workers, proc>>
    BY <1>3 DEF MainWait, Requested
  <2> QED
    BY <2>1, <2>2, <2>3 DEF ProcInv, PidInv, RootInv, NoLeakedProcess, BackedInv,
                            WaitRootInv, WaitPending, ExitInv
<1>4. ASSUME NEW h \in RootHandles, MainCancel(h) PROVE ProcInv'
  <2>1. FindWorker(workers, h) \in SUBSET Slots /\ StopWorkers(FindWorker(workers, h))
        /\ pc = "idle" /\ pc' = "idle"
    BY <1>4 DEF MainCancel, FindWorker, Requested
  <2> QED
    BY <1>0, <2>1, StopFrees, ToIdle
<1>5. ASSUME NEW h \in RootHandles, NEW op \in {"wait", "cancel"}, MainUnknown(op, h) PROVE ProcInv'
  BY <1>0, <1>5, LinksUnchanged DEF MainUnknown
<1> QED
  BY <1>1, <1>2, <1>3, <1>4, <1>5 DEF Requests

\* service_workers' loop keeps the frame's root.
LEMMA ServeNextRoot ==
    ASSUME IInv, wait' = ServeNext
    PROVE  wait'.slot = wait.slot /\ wait'.pid = wait.pid /\ wait'.ok = wait.ok
<1>1. wait \in WaitFrame
  BY DEF IInv, TypeOK
<1> QED
  BY <1>1 DEF ServeNext, WaitFrame

\* Stopping records with a parent of their own leaves the root of the pending
\* WAIT, or the table is empty already.
LEMMA WaitRootSurvives ==
    ASSUME IInv, ProcInv, WaitPending, wait.slot \in Slots, NEW S \in SUBSET Slots,
           \A s \in S : workers[s].active => workers[s].parent # 0
    PROVE  \/ wait.slot \notin Stopped(workers, S)
           \/ \A s \in Slots : ~workers[s].active
<1>1. CASE workers[wait.slot].active /\ workers[wait.slot].parent = 0
  BY <1>1, RootSurvives
<1>2. CASE \A s \in Slots : ~workers[s].active
  BY <1>2
<1> QED
  BY <1>1, <1>2 DEF ProcInv, WaitRootInv

\* launch_worker after the spawn.
LEMMA LaunchProcs ==
    ASSUME IInv, IInv', BrokerAssumption, ProcInv, LaunchAdvance \/ LaunchDone \/ LaunchFail
    PROVE  ProcInv'
<1> USE BrokerAssumption
<1> DEFINE s == launch.slot
           o == wait.idx
<1>0. /\ pc = "launch" /\ s \in Slots /\ workers[s].active
      /\ workers[s].parent # 0 => o \in Slots /\ wait.slot \in Slots /\ WaitPending
  BY DEF LaunchAdvance, LaunchDone, LaunchFail, IInv, LaunchInv, WaitPending
<1>a. TypeOK /\ TypeOK' /\ LinkInv
  BY DEF IInv, ProcInv, LinkInv
<1>1. CASE LaunchAdvance
  <2>1. launch'.slot = launch.slot
    BY <1>1, <1>a DEF LaunchAdvance, TypeOK, LaunchFrame
  <2> QED
    BY <1>1, <1>a, <2>1, LinksUnchanged DEF LaunchAdvance
<1>2. CASE LaunchDone
  <2> DEFINE w == [workers EXCEPT ![s].handle = nextHandle]
  <2>1. workers' = w \/ (o \in Slots /\ workers' = Answering(w, o, "pending"))
    BY <1>0, <1>2 DEF LaunchDone
  <2>2. \A t \in Slots : /\ w[t].active = workers[t].active /\ w[t].pid = workers[t].pid
                         /\ w[t].parent = workers[t].parent /\ w[t].reaped = workers[t].reaped
    <3>1. workers \in [Slots -> Worker]
      BY <1>a DEF TypeOK
    <3>2. ASSUME NEW t \in Slots, t # s PROVE w[t] = workers[t]
      BY <3>1, <3>2
    <3>3. w[s] = [workers[s] EXCEPT !.handle = nextHandle] /\ workers[s] \in Worker
      BY <1>0, <3>1
    <3>4. /\ w[s].active = workers[s].active /\ w[s].pid = workers[s].pid
          /\ w[s].parent = workers[s].parent /\ w[s].reaped = workers[s].reaped
      BY <3>3 DEF Worker
    <3> QED
      BY <3>2, <3>4
  <2>3. w \in [Slots -> Worker]
    <3>1. workers \in [Slots -> Worker] /\ nextHandle \in 0 .. MaxHandle
      BY <1>0, <1>a DEF TypeOK, IInv, LaunchInv
    <3>2. [workers[s] EXCEPT !.handle = nextHandle] \in Worker
      BY <1>0, <3>1 DEF Worker
    <3> QED
      BY <3>1, <3>2
  <2> HIDE DEF w
  <2>4. \A t \in Slots : /\ workers'[t].active = w[t].active /\ workers'[t].pid = w[t].pid
                         /\ workers'[t].parent = w[t].parent /\ workers'[t].reaped = w[t].reaped
    BY <2>1, <2>3 DEF Answering, Worker
  <2>5. Frees({}, {}, {})
    <3>1. proc' = Freed(proc, {})
      BY <1>2, <1>a DEF LaunchDone, Freed, TypeOK
    <3>2. \A t \in Slots : workers[t].reaped \in BOOLEAN
      BY <1>a DEF TypeOK, Worker
    <3> QED
      BY <2>2, <2>4, <3>1, <3>2 DEF Frees
  <2>6. CASE workers[s].parent = 0
    BY <1>0, <1>2, <1>a, <2>5, <2>6, ToIdle DEF LaunchDone
  <2>7. CASE workers[s].parent # 0
    <3>1. pc' = "wait" /\ wait' = ServeNext
      BY <1>2, <2>7 DEF LaunchDone
    <3> QED
      BY <1>0, <1>a, <2>5, <2>7, <3>1, ServeNextRoot, ToWait
  <2> QED
    BY <2>6, <2>7
<1>3. CASE LaunchFail
  <2>1. CASE workers[s].parent = 0
    <3>1. StopWorkers({s}) /\ pc' = "idle"
      BY <1>3, <2>1 DEF LaunchFail
    <3> QED
      BY <1>0, <1>a, <3>1, StopFrees, ToIdle
  <2>2. CASE workers[s].parent # 0
    <3> DEFINE D == Stopped(workers, {s})
    <3>1. StopAndReply({s}, o) /\ pc' = "wait" /\ wait' = ServeNext
      BY <1>3, <2>2 DEF LaunchFail
    <3>2. Frees(D, {}, Signalled(workers, D))
      BY <1>0, <1>a, <2>2, <3>1, StopReplyFrees
    <3>3. wait.slot \notin D \/ \A t \in Slots : ~workers[t].active
      BY <1>0, <2>2, WaitRootSurvives
    <3> QED
      BY <1>0, <1>a, <2>2, <3>1, <3>2, <3>3, ServeNextRoot, ToWait
  <2> QED
    BY <2>1, <2>2
<1> QED
  BY <1>1, <1>2, <1>3

\* All that the broker stops when it leaves its loop.
LEMMA StopAllClears ==
    ASSUME NEW t \in Slots, workers[t].active
    PROVE  t \in Stopped(workers, Slots)
BY StoppedClosed

\* wait_bounded reaps the root itself only when no record is marked for it, and
\* then main clears exactly that record.
LEMMA WaitProcs ==
    ASSUME IInv, IInv', BrokerAssumption, ProcInv,
           MainEof \/ WaitCheck \/ WaitObserve \/ WaitRetire \/ WaitStop \/ ServiceReap
    PROVE  ProcInv'
<1> USE BrokerAssumption
<1>a. TypeOK /\ TypeOK' /\ LinkInv
  BY DEF IInv, ProcInv, LinkInv
<1>b. pc = "wait" => wait.slot \in Slots /\ wait.idx \in Slots /\ WaitPending
  BY DEF IInv, WaitInv, WaitPending
<1>c. ASSUME NEW ok \in BOOLEAN, WaitReturns(ok)
      PROVE  pc' = "outcome" /\ wait'.slot = wait.slot /\ wait'.pid = wait.pid /\ wait'.ok = ok
  BY <1>a, <1>c DEF WaitReturns, TypeOK, WaitFrame
<1>1. CASE MainEof
  <2>1. StopWorkers(Slots) /\ pc' = "exited"
    BY <1>1 DEF MainEof, StopAll
  <2> QED
    BY <1>a, <2>1, StopFrees, StopAllClears, ToExit
<1>2. CASE WaitCheck
  <2>1. CASE WaitReturns(FALSE) /\ UNCHANGED <<workers, proc>>
    <3>1. pc = "wait"
      BY <1>2 DEF WaitCheck
    <3>2. pc' = "outcome" /\ wait'.slot = wait.slot /\ wait'.pid = wait.pid /\ wait'.ok = FALSE
      BY <1>c, <2>1
    <3> QED
      BY <1>b, <2>1, <3>1, <3>2 DEF ProcInv, PidInv, RootInv, NoLeakedProcess, BackedInv,
                                    WaitRootInv, WaitPending, ExitInv
  <2>2. CASE StopAll /\ pc' = "exited"
    <3>1. StopWorkers(Slots)
      BY <2>2 DEF StopAll
    <3> QED
      BY <1>a, <2>2, <3>1, StopFrees, StopAllClears, ToExit
  <2>3. CASE wait' = [wait EXCEPT !.at = "reap", !.idx = 1] /\ UNCHANGED <<workers, proc, pc>>
    <3>1. wait'.slot = wait.slot /\ wait'.pid = wait.pid /\ wait'.ok = wait.ok
      BY <1>a, <2>3 DEF TypeOK, WaitFrame
    <3> QED
      BY <1>2, <1>a, <2>3, <3>1, LinksUnchanged DEF WaitCheck
  <2> QED
    BY <1>2, <2>1, <2>2, <2>3 DEF WaitCheck
<1>3. CASE WaitObserve
  <2> DEFINE observed == {t \in Slots : workers[t].active /\ workers[t].pid = wait.pid}
             reaped == \E t \in observed : workers[t].reaped
             r == wait.slot
  <2>0. pc = "wait" /\ r \in Slots /\ UNCHANGED <<workers, launch>>
    BY <1>3, <1>b DEF WaitObserve
  <2>a. \/ \A t \in Slots : ~workers[t].active
        \/ workers[r].active /\ workers[r].parent = 0 /\ workers[r].pid = wait.pid
    BY <1>b, <2>0 DEF ProcInv, WaitRootInv
  <2>1. CASE WaitReturns(FALSE) /\ UNCHANGED proc
    <3>1. pc' = "outcome" /\ wait'.slot = wait.slot /\ wait'.pid = wait.pid /\ wait'.ok = FALSE
      BY <1>c, <2>1
    <3> QED
      BY <2>0, <2>1, <2>a, <3>1 DEF ProcInv, PidInv, RootInv, NoLeakedProcess, BackedInv,
                                    WaitRootInv, WaitPending, ExitInv
  <2>2. CASE reaped /\ WaitReturns(TRUE) /\ UNCHANGED proc
    <3>1. pc' = "outcome" /\ wait'.slot = wait.slot /\ wait'.pid = wait.pid /\ wait'.ok = TRUE
      BY <1>c, <2>2
    <3>2. workers[r].active => workers[r].reaped
      BY <2>0, <2>2, <2>a DEF ProcInv, PidInv
    <3> QED
      BY <2>0, <2>2, <2>a, <3>1, <3>2 DEF ProcInv, PidInv, RootInv, NoLeakedProcess, BackedInv,
                                          WaitRootInv, WaitPending, ExitInv
  <2>3. CASE ~reaped /\ WaitReturns(TRUE) /\ proc[wait.pid] = "zombie" /\ proc' = [proc EXCEPT ![wait.pid] = "free"]
    <3>1. pc' = "outcome" /\ wait'.slot = wait.slot /\ wait'.pid = wait.pid /\ wait'.ok = TRUE
      BY <1>c, <2>3
    <3>2. \A p \in Pids : proc'[p] = IF p = wait.pid THEN "free" ELSE proc[p]
      BY <1>a, <2>3 DEF TypeOK
    <3>3. NoLeakedProcess'
      BY <2>0, <3>2 DEF ProcInv, NoLeakedProcess
    <3>4. BackedInv'
      <4> SUFFICES ASSUME NEW t \in Slots, workers[t].active, ~workers[t].reaped, t # r
                   PROVE  proc'[workers[t].pid] \in Owned
        BY <2>0, <3>1 DEF BackedInv
      <4>1. workers[t].pid \in Pids /\ proc[workers[t].pid] \in Owned
        BY <2>0 DEF ProcInv, PidInv, BackedInv
      <4>2. workers[t].pid # wait.pid
        BY <2>3, <2>a, <2>0 DEF ProcInv, PidInv
      <4> QED
        BY <3>2, <4>1, <4>2
    <3>5. WaitRootInv'
      <4>1. workers[r].active => workers[r].pid \in Pids
        BY <2>0 DEF ProcInv, PidInv
      <4> QED
        BY <2>0, <2>a, <3>1, <3>2, <4>1 DEF WaitRootInv, WaitPending, Owned
    <3> QED
      BY <2>0, <3>1, <3>3, <3>4, <3>5 DEF ProcInv, PidInv, RootInv, ExitInv
  <2>4. CASE wait' = [wait EXCEPT !.at = "check"] /\ UNCHANGED <<proc, pc>>
    <3>1. wait'.slot = wait.slot /\ wait'.pid = wait.pid /\ wait'.ok = wait.ok
      BY <1>a, <2>4 DEF TypeOK, WaitFrame
    <3> QED
      BY <1>a, <2>0, <2>4, <3>1, LinksUnchanged
  <2> QED
    BY <1>3, <2>1, <2>2, <2>3, <2>4 DEF WaitObserve
<1>4. CASE WaitRetire
  <2> DEFINE s == wait.slot
             D == Stopped(workers, Children(workers, workers[s].handle))
  <2>1. /\ s \in Slots /\ pc = "outcome" /\ wait.ok /\ pc' = "idle"
        /\ workers' = Cleared(workers, D \cup {s}) /\ proc' = Freed(proc, Signalled(workers, D))
    BY <1>4 DEF WaitRetire, RetireWorker, IInv, WaitInv
  <2>2. ~workers[s].active \/ workers[s].reaped \/ proc[workers[s].pid] \notin Owned
    BY <2>1 DEF ProcInv, WaitRootInv
  <2>3. D \in SUBSET Slots /\ {s} \in SUBSET Slots
    BY <2>1 DEF Stopped
  <2> HIDE DEF D
  <2>4. Frees(D \cup {s}, {}, Signalled(workers, D))
    BY <1>a, <2>1, <2>2, <2>3, ClearFrees
  <2> QED
    BY <1>a, <2>1, <2>4, ToIdle
<1>5. CASE WaitStop
  <2> DEFINE D == Stopped(workers, {wait.slot})
  <2>1. wait.slot \in Slots /\ pc = "outcome" /\ pc' = "idle" /\ StopWorkers({wait.slot})
    BY <1>5 DEF WaitStop, IInv, WaitInv
  <2>2. Frees(D, {}, Signalled(workers, D))
    BY <1>a, <2>1, StopFrees
  <2>3. workers[wait.slot].active => wait.slot \in D
    BY <2>1, StoppedClosed
  <2> QED
    BY <1>a, <2>1, <2>2, <2>3, ToIdle
<1>6. CASE ServiceReap
  <2> DEFINE s == wait.idx
             C == Children(workers, workers[s].handle)
             D == Stopped(workers, C)
             P == Signalled(workers, D) \cup {workers[s].pid}
             c == Cleared(workers, D)
  <2>0. pc = "wait" /\ pc' = "wait" /\ s \in Slots /\ UNCHANGED launch
    BY <1>6, <1>b DEF ServiceReap
  <2>1. CASE (wait' = ServeNext \/ wait' = [wait EXCEPT !.at = "rpc"]) /\ UNCHANGED <<workers, proc>>
    <3>1. wait'.slot = wait.slot /\ wait'.pid = wait.pid /\ wait'.ok = wait.ok
      BY <1>a, <2>1, ServeNextRoot DEF TypeOK, WaitFrame
    <3> QED
      BY <1>a, <2>0, <2>1, <3>1, LinksUnchanged
  <2>2. CASE /\ workers[s].active /\ ~workers[s].reaped
             /\ workers' = MarkReaped(Cleared(workers, D), s)
             /\ proc' = Freed(proc, P)
             /\ wait' = ServeNext
    <3>1. D \in SUBSET Slots /\ C \in SUBSET Slots
      BY DEF Stopped, Children
    <3>2. s \notin D
      <4>1. workers[s].handle # 0
        BY <2>0, <2>2 DEF IInv, LaunchInv, Slots
      <4>2. \A t \in C : workers[t].active => workers[t].handle = 0 \/ workers[s].handle < workers[t].handle
        BY DEF Children, IsChild, IInv, TableInv
      <4>3. workers \in [Slots -> Worker] /\ TableInv(workers)
        BY <1>a DEF TypeOK, IInv
      <4> HIDE DEF C
      <4> QED
        BY <2>0, <3>1, <4>1, <4>2, <4>3, OlderSurvives
    <3>3. \A t \in Slots : c[t] = IF t \in D THEN Empty ELSE workers[t]
      BY DEF Cleared
    <3>4. c \in [Slots -> Worker]
      BY <1>a, <3>3 DEF TypeOK, Cleared, Empty, Worker
    <3>5. /\ \A t \in D : workers[t].active /\ ~workers[t].reaped => workers[t].pid \in Signalled(workers, D)
          /\ \A p \in Signalled(workers, D) \cap Pids :
                \E t \in D : workers[t].active /\ ~workers[t].reaped /\ workers[t].pid = p
      BY <1>a, <3>1, SignalledOwn
    <3>6. workers' = [c EXCEPT ![s].reaped = TRUE]
      BY <2>2 DEF MarkReaped
    <3> HIDE DEF c, D, C
    <3>7. \A t \in Slots :
              /\ t \in D => ~workers'[t].active
              /\ t \notin D => /\ workers'[t].active = workers[t].active
                               /\ workers'[t].pid = workers[t].pid
                               /\ workers'[t].parent = workers[t].parent
                               /\ workers'[t].reaped = (workers[t].reaped \/ t \in {s})
      <4>1. \A t \in Slots : /\ workers'[t].active = c[t].active /\ workers'[t].pid = c[t].pid
                             /\ workers'[t].parent = c[t].parent
                             /\ workers'[t].reaped = (c[t].reaped \/ t = s)
        BY <3>4, <3>6 DEF Worker
      <4>2. \A t \in Slots : workers[t].reaped \in BOOLEAN
        BY <1>a DEF TypeOK, Worker
      <4> QED
        BY <3>3, <4>1, <4>2 DEF Empty
    <3>8. Frees(D, {s}, P)
      BY <2>0, <2>2, <3>1, <3>5, <3>7 DEF Frees
    <3>9. \A t \in C : workers[t].active => workers[t].parent # 0
      BY DEF C, Children, IsChild
    <3>10. wait.slot \notin D \/ \A t \in Slots : ~workers[t].active
      BY <1>b, <2>0, <3>1, <3>9, WaitRootSurvives DEF D
    <3> QED
      BY <1>a, <1>b, <2>0, <2>2, <3>8, <3>10, ServeNextRoot, ToWait
  <2> QED
    BY <1>6, <2>1, <2>2 DEF ServiceReap
<1> QED
  BY <1>1, <1>2, <1>3, <1>4, <1>5, <1>6

\* One record's pipe in service_workers, and worker_operation.
LEMMA ServiceProcs ==
    ASSUME IInv, IInv', BrokerAssumption, ProcInv, Serving,
           \/ FlushReply \/ NoRequest \/ RequestEof \/ ServiceStop \/ ChildLaunch \/ ReplyOnly
           \/ \E h \in Issued : ChildSignal(h) \/ ChildOverBudget(h) \/ ChildRelease(h)
    PROVE  ProcInv'
<1> USE BrokerAssumption
<1> DEFINE o == wait.idx
<1>0. /\ pc = "wait" /\ o \in Slots /\ workers[o].active /\ ~workers[o].reaped
      /\ wait.slot \in Slots /\ WaitPending /\ launch.slot = 0
  BY DEF Serving, IInv, WaitInv, WaitPending, LaunchInv
<1>a. TypeOK /\ TypeOK' /\ LinkInv
  BY DEF IInv, ProcInv, LinkInv
<1>b. workers[o].handle # 0
  BY <1>0 DEF IInv, LaunchInv, Slots
<1>c. \A a \in {"none", "pending"} : workers' = Answering(workers, o, a) =>
          \A t \in Slots : /\ workers'[t].active = workers[t].active
                           /\ workers'[t].pid = workers[t].pid
                           /\ workers'[t].parent = workers[t].parent
                           /\ workers'[t].reaped = workers[t].reaped
  BY <1>0, <1>a DEF Answering, TypeOK, Worker
<1>1. CASE FlushReply \/ ReplyOnly
  <2>1. \E a \in {"none", "pending"} : workers' = Answering(workers, o, a)
    BY <1>1 DEF FlushReply, ReplyOnly
  <2>2. UNCHANGED <<proc, pc, launch>> /\ wait' = ServeNext
    BY <1>1 DEF FlushReply, ReplyOnly
  <2> QED
    BY <1>a, <1>c, <2>1, <2>2, ServeNextRoot, LinksUnchanged
<1>2. CASE NoRequest
  BY <1>2, <1>a, ServeNextRoot, LinksUnchanged DEF NoRequest
<1>3. CASE RequestEof
  <2> DEFINE C == Children(workers, workers[o].handle)
  <2>1. /\ C \in SUBSET Slots /\ \A t \in C : workers[t].active => workers[t].parent # 0
        /\ StopWorkers(C) /\ wait' = ServeNext /\ pc' = "wait"
    BY <1>0, <1>3 DEF Children, IsChild, RequestEof, Owner
  <2> HIDE DEF C
  <2>2. Frees(Stopped(workers, C), {}, Signalled(workers, Stopped(workers, C)))
    BY <1>a, <2>1, StopFrees
  <2>3. wait.slot \notin Stopped(workers, C) \/ \A t \in Slots : ~workers[t].active
    BY <1>0, <2>1, WaitRootSurvives
  <2> QED
    BY <1>0, <1>a, <2>1, <2>2, <2>3, ServeNextRoot, ToWait
<1>4. CASE ServiceStop
  <2> DEFINE D == Stopped(workers, {o})
  <2>1. StopWorkers({o}) /\ wait' = ServeNext /\ pc' = "wait"
    BY <1>0, <1>4 DEF ServiceStop
  <2>2. Frees(D, {}, Signalled(workers, D))
    BY <1>0, <1>a, <2>1, StopFrees
  <2>3. workers[wait.slot].active /\ workers[wait.slot].parent = 0
    BY <1>0 DEF ProcInv, WaitRootInv
  <2>4. wait.slot \notin D \/ \A t \in Slots : workers[t].active => t \in D
    <3>1. CASE wait.slot # o
      BY <1>0, <2>3, <3>1, RootSurvives
    <3>2. CASE wait.slot = o
      <4>1. ASSUME NEW t \in Slots, workers[t].active PROVE t \in SubTree(workers, o)
        <5>1. \A u \in Slots : workers[u].active /\ workers[u].parent = 0 => u = o
          BY <1>0, <2>3, <3>2 DEF ProcInv, RootInv
        <5>2. workers \in [Slots -> Worker] /\ TableInv(workers) /\ MaxHandle \in Nat
          BY <1>a DEF TypeOK, IInv
        <5> QED
          BY <1>0, <4>1, <5>1, <5>2, RootCovers
      <4> QED
        BY <1>0, <4>1 DEF Stopped
    <3> QED
      BY <3>1, <3>2
  <2> HIDE DEF D
  <2> QED
    BY <1>0, <1>a, <2>1, <2>2, <2>4, ServeNextRoot, ToWait
<1>5. CASE ChildLaunch
  <2>1. PICK s \in FreeWorker(workers), p \in Pids : Spawn(s, p, workers[o].handle, workers)
    BY <1>5 DEF ChildLaunch, Owner
  <2>2. workers[o].handle \in 0 .. MaxHandle /\ UNCHANGED wait
    BY <1>0, <1>5, <1>a DEF ChildLaunch, TypeOK, Worker
  <2> QED
    BY <1>0, <1>b, <2>1, <2>2, SpawnProcs
<1>6. ASSUME NEW h \in Issued, ChildSignal(h) PROVE ProcInv'
  <2>1. PICK s \in OwnedChild(h) : ~workers[s].reaped /\ proc' = [proc EXCEPT ![workers[s].pid] = "zombie"]
    BY <1>6 DEF ChildSignal
  <2>2. s \in Slots /\ workers[s].active
    BY DEF OwnedChild, FindWorker
  <2>3. workers[s].pid \in Pids /\ proc[workers[s].pid] \in Owned
    BY <1>0, <2>1, <2>2 DEF ProcInv, PidInv, BackedInv
  <2>4. \A p \in Pids : proc'[p] \in Owned <=> proc[p] \in Owned
    BY <1>a, <2>1, <2>3 DEF TypeOK, Owned
  <2> QED
    BY <1>6, <1>a, <1>c, <2>4, ServeNextRoot, LinksUnchanged DEF ChildSignal
<1>7. ASSUME NEW h \in Issued, ChildOverBudget(h) PROVE ProcInv'
  <2> DEFINE C == OwnedChild(h)
  <2>1. /\ C \in SUBSET Slots /\ \A t \in C : workers[t].active => workers[t].parent # 0
        /\ StopAndReply(C, o) /\ wait' = ServeNext /\ pc' = "wait"
    BY <1>0, <1>7, <1>b DEF OwnedChild, FindWorker, Owner, ChildOverBudget
  <2> HIDE DEF C
  <2>2. Frees(Stopped(workers, C), {}, Signalled(workers, Stopped(workers, C)))
    BY <1>0, <1>a, <2>1, StopReplyFrees
  <2>3. wait.slot \notin Stopped(workers, C) \/ \A t \in Slots : ~workers[t].active
    BY <1>0, <2>1, WaitRootSurvives
  <2> QED
    BY <1>0, <1>a, <2>1, <2>2, <2>3, ServeNextRoot, ToWait
<1>8. ASSUME NEW h \in Issued, ChildRelease(h) PROVE ProcInv'
  <2> DEFINE C == Children(workers, h)
             D == Stopped(workers, C)
  <2>1. PICK s \in OwnedChild(h) :
            /\ workers[s].reaped
            /\ workers' = Answering(Cleared(workers, D \cup {s}), o, "pending")
            /\ proc' = Freed(proc, Signalled(workers, D))
    BY <1>8 DEF ChildRelease, Releasable
  <2>2. s \in Slots /\ workers[s].active /\ workers[s].parent # 0
    BY <1>b DEF OwnedChild, FindWorker, Owner
  <2>3. /\ C \in SUBSET Slots /\ \A t \in C : workers[t].active => workers[t].parent # 0
        /\ wait' = ServeNext /\ pc' = "wait" /\ D \in SUBSET Slots
    BY <1>0, <1>8 DEF Children, IsChild, ChildRelease, Stopped
  <2>4. wait.slot \notin D \/ \A t \in Slots : ~workers[t].active
    <3> HIDE DEF C
    <3> QED
      BY <1>0, <2>3, WaitRootSurvives
  <2> HIDE DEF D
  <2>5. Frees(D \cup {s}, {}, Signalled(workers, D))
    BY <1>0, <1>a, <2>1, <2>2, <2>3, ClearFrees
  <2>6. wait.slot \notin D \cup {s}
    BY <1>0, <2>2, <2>4 DEF ProcInv, WaitRootInv
  <2> QED
    BY <1>0, <1>a, <2>3, <2>5, <2>6, ServeNextRoot, ToWait
<1> QED
  BY <1>1, <1>2, <1>3, <1>4, <1>5, <1>6, <1>7, <1>8

-----------------------------------------------------------------------------
(* The theorems.                                                           *)

\* Every step of a broker with one root at a time preserves ProcInv.
LEMMA NextProcInv ==
    ASSUME BrokerAssumption, MultiRoot = FALSE, IInv, ProcInv, [Next]_vars
    PROVE  ProcInv'
<1>0. IInv'
  BY NextIInv
<1>1. CASE Environment
  BY <1>0, <1>1, EnvironmentProcs
<1>2. CASE Requests
  BY <1>0, <1>2, RequestsProcs
<1>3. CASE BrokerStep
  <2>1. CASE LaunchAdvance \/ LaunchDone \/ LaunchFail
    BY <1>0, <2>1, LaunchProcs
  <2>2. CASE MainEof \/ WaitCheck \/ WaitObserve \/ WaitRetire \/ WaitStop \/ ServiceReap
    BY <1>0, <2>2, WaitProcs
  <2>3. CASE \/ FlushReply \/ NoRequest \/ RequestEof \/ ServiceStop \/ ChildLaunch \/ ReplyOnly
             \/ \E h \in Issued : ChildSignal(h) \/ ChildOverBudget(h) \/ ChildRelease(h)
    <3>1. Serving
      BY <2>3 DEF FlushReply, NoRequest, RequestEof, ServiceStop, ChildLaunch, ReplyOnly,
                  ChildSignal, ChildOverBudget, ChildRelease
    <3> QED
      BY <1>0, <2>3, <3>1, ServiceProcs
  <2> QED
    BY <1>3, <2>1, <2>2, <2>3 DEF BrokerStep
<1>4. CASE BrokerDie
  BY <1>4 DEF BrokerDie, ProcInv, PidInv, RootInv, NoLeakedProcess, BackedInv, WaitRootInv,
              WaitPending, ExitInv
<1>5. CASE Halted \/ UNCHANGED vars
  BY <1>5 DEF Halted, vars, ProcInv, PidInv, RootInv, NoLeakedProcess, BackedInv, WaitRootInv,
              WaitPending, ExitInv
<1> QED
  BY <1>1, <1>2, <1>3, <1>4, <1>5 DEF Next

\* The links between the table and the kernel's processes, for every table
\* size, pid space and pattern of pid reuse, when the controller owns one root
\* at a time.
THEOREM BrokerProcesses == MultiRoot = FALSE /\ Spec => [](IInv /\ ProcInv)
<1> SUFFICES ASSUME MultiRoot = FALSE PROVE Spec => [](IInv /\ ProcInv)
  OBVIOUS
<1>1. Init => ProcInv
  BY DEF Init, ProcInv, PidInv, RootInv, NoLeakedProcess, BackedInv, WaitRootInv, WaitPending,
         ExitInv, Empty
<1>2. Init => IInv
  BY BrokerAssumption, InitIInv
<1>3. IInv /\ ProcInv /\ [Next]_vars => IInv' /\ ProcInv'
  BY BrokerAssumption, NextIInv, NextProcInv
<1> QED
  BY <1>1, <1>2, <1>3, PTL DEF Spec

\* No process of the broker is ever without the record that will stop it:
\* whichever of its paths reaps a process or clears a record.
THEOREM BrokerNoLeakedProcess == MultiRoot = FALSE /\ Spec => []NoLeakedProcess
<1>1. IInv /\ ProcInv => NoLeakedProcess
  BY DEF ProcInv
<1> QED
  BY <1>1, BrokerProcesses, PTL

\* While requests are served, every record that is not marked reaped has its
\* process: the waitpid of service_workers does not fail with ECHILD.
THEOREM BrokerRecordsBacked == MultiRoot = FALSE /\ Spec => []RecordsBacked
<1>1. IInv /\ ProcInv => RecordsBacked
  BY DEF ProcInv, BackedInv, Owned, RecordsBacked
<1> QED
  BY <1>1, BrokerProcesses, PTL

\* A broker that has left its loop has no process left, whatever it was doing
\* when its controller went.
THEOREM BrokerExitLeavesNoWorker == MultiRoot = FALSE /\ Spec => []ExitLeavesNoWorker
<1>1. IInv /\ ProcInv => ExitLeavesNoWorker
  BY DEF ProcInv, ExitInv, NoLeakedProcess, ExitLeavesNoWorker
<1> QED
  BY <1>1, BrokerProcesses, PTL

-----------------------------------------------------------------------------
(* The broker implements BrokerService.                                    *)

\* The frame keeps naming the root that main looked up.
RefInv == IInv /\ ProcInv /\ FrameInv

-----------------------------------------------------------------------------
(* Roots.                                                                  *)

\* Record t holds a root that has its handle.
IsRoot(w, t) == w[t].active /\ w[t].parent = 0 /\ w[t].handle # 0

LEMMA RootsDef == ServiceRoots = {workers[s].handle : s \in {t \in Slots : IsRoot(workers, t)}}
BY DEF ServiceRoots, IsRoot

\* A step that keeps the roots' records keeps the service's roots.
LEMMA RootsKept ==
    ASSUME \A t \in Slots : /\ IsRoot(workers', t) <=> IsRoot(workers, t)
                            /\ IsRoot(workers, t) => workers'[t].handle = workers[t].handle
    PROVE  ServiceRoots' = ServiceRoots
<1>1. ServiceRoots' = {workers'[s].handle : s \in {t \in Slots : IsRoot(workers', t)}}
  BY DEF ServiceRoots, IsRoot
<1> QED
  BY <1>1, RootsDef

\* A step after which exactly one root is gone.
LEMMA RootGone ==
    ASSUME IInv, NEW r \in Slots, IsRoot(workers, r),
           \A t \in Slots : /\ IsRoot(workers', t) <=> (IsRoot(workers, t) /\ t # r)
                            /\ IsRoot(workers', t) => workers'[t].handle = workers[t].handle
    PROVE  ServiceRoots' = ServiceRoots \ {workers[r].handle}
<1>1. ServiceRoots' = {workers'[s].handle : s \in {t \in Slots : IsRoot(workers', t)}}
  BY DEF ServiceRoots, IsRoot
<1>2. \A s, t \in Slots : IsRoot(workers, s) /\ IsRoot(workers, t)
                          /\ workers[s].handle = workers[t].handle => s = t
  BY DEF IInv, TableInv, IsRoot
<1> QED
  BY <1>1, <1>2, RootsDef

\* Stopping records that are no roots keeps the roots; stopping one root takes
\* that one.
LEMMA StopRoots ==
    ASSUME IInv, NEW S \in SUBSET Slots, NEW D, D = Stopped(workers, S),
           \A t \in Slots : /\ t \in D => ~workers'[t].active
                            /\ t \notin D => /\ workers'[t].active = workers[t].active
                                             /\ workers'[t].parent = workers[t].parent
                                             /\ workers'[t].handle = workers[t].handle
    PROVE  /\ (\A s \in S : ~IsRoot(workers, s)) => ServiceRoots' = ServiceRoots
           /\ \A r \in Slots : IsRoot(workers, r) /\ S = {r} =>
                  ServiceRoots' = ServiceRoots \ {workers[r].handle}
<1>1. \A t \in Slots : IsRoot(workers, t) /\ t \notin S => t \notin D
  BY RootSurvives DEF IsRoot
<1>2. \A t \in Slots : IsRoot(workers', t) => t \notin D /\ IsRoot(workers, t) /\ workers'[t].handle = workers[t].handle
  BY DEF IsRoot
<1>3. \A t \in Slots : IsRoot(workers, t) /\ t \notin D => IsRoot(workers', t)
  BY DEF IsRoot
<1>4. ASSUME \A s \in S : ~IsRoot(workers, s) PROVE ServiceRoots' = ServiceRoots
  <2>1. \A t \in Slots : /\ IsRoot(workers', t) <=> IsRoot(workers, t)
                         /\ IsRoot(workers, t) => workers'[t].handle = workers[t].handle
    BY <1>1, <1>2, <1>3, <1>4
  <2> QED
    BY <2>1, RootsKept
<1>5. ASSUME NEW r \in Slots, IsRoot(workers, r), S = {r}
      PROVE  ServiceRoots' = ServiceRoots \ {workers[r].handle}
  <2>1. r \in D
    BY <1>5, StoppedClosed DEF IsRoot
  <2>2. \A t \in Slots : /\ IsRoot(workers', t) <=> (IsRoot(workers, t) /\ t # r)
                         /\ IsRoot(workers', t) => workers'[t].handle = workers[t].handle
    BY <1>1, <1>2, <1>3, <1>5, <2>1
  <2> QED
    BY <1>5, <2>2, RootGone
<1> QED
  BY <1>4, <1>5
-----------------------------------------------------------------------------
(* What the service sees of the broker's state.                            *)

\* A step of the service, or none.
ServiceStutters == UNCHANGED <<ServiceUp, ServiceRoots, nextHandle, ServiceBusy, control, reply>>
ServiceMoves == Service!ServiceNext \/ ServiceStutters

\* The request that is being served.
LEMMA BusyNow ==
    ASSUME RefInv
    PROVE  /\ pc \notin {"exited", "died"} => ServiceUp = "serving"
           /\ pc = "idle" => ServiceBusy = [op |-> "none", handle |-> 0]
           /\ pc = "launch" /\ workers[launch.slot].parent = 0 =>
                  ServiceBusy = [op |-> "launch", handle |-> 0]
           /\ WaitPending => /\ wait.handle # 0 /\ wait.slot \in Slots
                             /\ ServiceBusy = [op |-> "wait", handle |-> wait.handle]
<1>1. WaitPending => wait.handle # 0 /\ wait.slot \in Slots
  BY DEF RefInv, IInv, WaitInv, LaunchInv, WaitPending
<1> QED
  BY <1>1 DEF RefInv, FrameInv, ServiceBusy, ServiceUp, WaitPending

\* The same in the next state of a step, from what the step does to the frame.
LEMMA BusyNext ==
           /\ pc' \notin {"exited", "died"} => ServiceUp' = "serving"
           /\ pc' \in {"exited", "died"} => ServiceUp' = pc' /\ ServiceBusy' = [op |-> "none", handle |-> 0]
           /\ pc' = "idle" /\ wait'.handle = 0 => ServiceBusy' = [op |-> "none", handle |-> 0]
           /\ pc' = "launch" /\ wait'.handle = 0 => ServiceBusy' = [op |-> "launch", handle |-> 0]
           /\ pc' \notin {"exited", "died"} /\ wait'.handle # 0 =>
                  ServiceBusy' = [op |-> "wait", handle |-> wait'.handle]
BY DEF ServiceBusy, ServiceUp

\* While a WAIT is pending the frame stays the same, so a step that keeps the
\* roots, the counter and the reply is none of the service's.
LEMMA WaitGoesOn ==
    ASSUME RefInv, WaitPending, pc' \notin {"exited", "died"}, wait'.handle = wait.handle
    PROVE  ServiceUp' = ServiceUp /\ ServiceBusy' = ServiceBusy
BY BusyNow, BusyNext DEF WaitPending

\* The frame of a pending WAIT after a step that may clear its root.
LEMMA FrameKept ==
    ASSUME RefInv, ProcInv', WaitPending, WaitPending',
           wait'.slot = wait.slot, wait'.handle = wait.handle,
           workers'[wait.slot].active => /\ workers[wait.slot].active
                                         /\ workers'[wait.slot].handle = workers[wait.slot].handle
    PROVE  FrameInv'
<1>1. wait.slot \in Slots
  BY BusyNow
<1>2. \/ \A s \in Slots : ~workers'[s].active
      \/ workers'[wait.slot].active
  BY DEF ProcInv, WaitRootInv
<1>3. workers[wait.slot].active => workers[wait.slot].handle = wait.handle
  BY <1>1 DEF RefInv, FrameInv
<1> QED
  BY <1>2, <1>3 DEF FrameInv, WaitPending

\* Records that a step clears, and those it leaves.
LEMMA ClearedRecords ==
    ASSUME TypeOK, BrokerAssumption, NEW D,
           \/ workers' = Cleared(workers, D)
           \/ \E o \in Slots : workers' = Answering(Cleared(workers, D), o, "pending")
    PROVE  \A t \in Slots : /\ t \in D => ~workers'[t].active
                            /\ t \notin D => /\ workers'[t].active = workers[t].active
                                             /\ workers'[t].parent = workers[t].parent
                                             /\ workers'[t].handle = workers[t].handle
<1> DEFINE c == Cleared(workers, D)
<1>1. \A s \in Slots : c[s] = IF s \in D THEN Empty ELSE workers[s]
  BY DEF Cleared
<1>2. c \in [Slots -> Worker]
  BY <1>1, BrokerAssumption DEF TypeOK, Cleared, Empty, Worker
<1> HIDE DEF c
<1>3. \A s \in Slots : /\ workers'[s].active = c[s].active /\ workers'[s].handle = c[s].handle
                       /\ workers'[s].parent = c[s].parent
  <2>1. CASE workers' = c
    BY <2>1
  <2>2. ASSUME NEW o \in Slots, workers' = Answering(c, o, "pending")
        PROVE  \A s \in Slots : /\ workers'[s].active = c[s].active /\ workers'[s].handle = c[s].handle
                                /\ workers'[s].parent = c[s].parent
    BY <1>2, <2>2 DEF Answering, Worker
  <2> QED
    BY <2>1, <2>2 DEF c
<1> QED
  BY <1>1, <1>3 DEF Empty

\* A step that leaves every record's place in the tree, the counter, and what
\* the service sees of the frame alone.
LEMMA TreeUnchanged ==
    ASSUME RefInv, ProcInv', UNCHANGED <<pc, nextHandle>>, launch'.slot = launch.slot,
           wait'.slot = wait.slot, wait'.handle = wait.handle,
           \A t \in Slots : /\ workers'[t].active = workers[t].active
                            /\ workers'[t].parent = workers[t].parent
                            /\ workers'[t].handle = workers[t].handle
    PROVE  /\ ServiceUp' = ServiceUp /\ ServiceBusy' = ServiceBusy /\ ServiceRoots' = ServiceRoots
           /\ FrameInv'
<1>1. ServiceRoots' = ServiceRoots
  BY RootsKept DEF IsRoot
<1>2. ServiceUp' = ServiceUp /\ ServiceBusy' = ServiceBusy
  BY DEF ServiceUp, ServiceBusy
<1>3. FrameInv'
  <2>1. pc = "launch" => launch.slot \in Slots
    BY DEF RefInv, IInv, LaunchInv
  <2>2. WaitPending => wait.slot \in Slots
    BY BusyNow
  <2>3. WaitPending' = WaitPending
    BY <2>1 DEF WaitPending
  <2> QED
    BY <2>1, <2>2, <2>3 DEF RefInv, FrameInv
<1> QED
  BY <1>1, <1>2, <1>3

-----------------------------------------------------------------------------
(* One lemma per group of actions: the step is one of the service's.       *)

\* Of the environment the service sees the controller only.
LEMMA EnvironmentServes ==
    ASSUME RefInv, ProcInv', Environment
    PROVE  FrameInv' /\ ServiceMoves
<1>0. TypeOK
  BY DEF RefInv, IInv
<1> DEFINE Quiet == /\ UNCHANGED <<pc, nextHandle>> /\ launch'.slot = launch.slot
                    /\ wait'.slot = wait.slot /\ wait'.handle = wait.handle
                    /\ \A t \in Slots : /\ workers'[t].active = workers[t].active
                                        /\ workers'[t].parent = workers[t].parent
                                        /\ workers'[t].handle = workers[t].handle
<1>1. Quiet => /\ ServiceUp' = ServiceUp /\ ServiceBusy' = ServiceBusy
               /\ ServiceRoots' = ServiceRoots /\ FrameInv'
  BY TreeUnchanged
<1>2. ASSUME NEW p \in Pids, WorkerExit(p) PROVE Quiet /\ UNCHANGED <<control, reply>>
  BY <1>2 DEF WorkerExit
<1>3. ASSUME NEW s \in Slots, WorkerHangup(s) PROVE Quiet /\ UNCHANGED <<control, reply>>
  BY <1>0, <1>3 DEF WorkerHangup, TypeOK, Worker
<1>4. ASSUME NEW p \in ReusedPids, PidReuse(p) PROVE Quiet /\ UNCHANGED <<control, reply>>
  BY <1>4 DEF PidReuse
<1>5. ASSUME WaitDeadline PROVE Quiet /\ UNCHANGED <<control, reply>>
  BY <1>0, <1>5 DEF WaitDeadline, TypeOK, WaitFrame
<1>6. ASSUME TakeReply PROVE Quiet /\ Service!TakeAnswer
  <2>1. Quiet
    BY <1>6 DEF TakeReply
  <2> QED
    BY <1>1, <1>6, <2>1 DEF TakeReply, NoReply, Service!TakeAnswer, Service!NoAnswer
<1>7. ASSUME ControllerClose PROVE Quiet /\ Service!CloseControl
  <2>1. Quiet
    BY <1>7 DEF ControllerClose
  <2> QED
    BY <1>1, <1>7, <2>1 DEF ControllerClose, Service!CloseControl
<1> HIDE DEF Quiet
<1>8. Quiet /\ (UNCHANGED <<control, reply>> \/ Service!TakeAnswer \/ Service!CloseControl)
  BY <1>2, <1>3, <1>4, <1>5, <1>6, <1>7 DEF Environment
<1>9. UNCHANGED nextHandle
  BY <1>8 DEF Quiet
<1> QED
  BY <1>1, <1>8, <1>9 DEF ServiceMoves, ServiceStutters, Service!ServiceNext

\* The requests of the controller, up to their answer or their start.
LEMMA RequestsServe ==
    ASSUME RefInv, IInv', ProcInv', BrokerAssumption, MultiRoot = FALSE, Requests
    PROVE  FrameInv' /\ ServiceMoves
<1>0. TypeOK /\ Requested
  BY DEF RefInv, IInv, Requests, MainLaunch, MainLaunchRefused, MainWait, MainCancel, MainUnknown
<1>1. /\ pc = "idle" /\ control = "open" /\ reply = NoReply /\ wait.handle = 0
      /\ ServiceUp = "serving" /\ ServiceBusy = [op |-> "none", handle |-> 0]
  BY <1>0, BusyNow DEF Requested, RefInv, FrameInv
<1>2. Service!Accepting
  BY <1>1 DEF Service!Accepting, Service!Idle, Service!NoAnswer, NoReply
<1>3. ASSUME MainLaunch PROVE FrameInv' /\ ServiceMoves
  <2>1. PICK s \in FreeWorker(workers), p \in Pids : Spawn(s, p, 0, workers)
    BY <1>3 DEF MainLaunch
  <2>2. /\ s \in Slots /\ pc' = "launch" /\ launch'.slot = s
        /\ workers' = [workers EXCEPT ![s] = Starting(p, 0)]
        /\ UNCHANGED <<wait, nextHandle, control, reply>>
        /\ \A t \in Slots : ~workers[t].active
    BY <1>3, <2>1 DEF FreeWorker, Spawn, MainLaunch, RootsAllowed
  <2>3. Starting(p, 0).handle = 0 /\ Starting(p, 0).parent = 0
    BY DEF Starting
  <2>4. \A t \in Slots : workers'[t] = IF t = s THEN Starting(p, 0) ELSE workers[t]
    BY <1>0, <2>2 DEF TypeOK
  <2>5. ServiceRoots' = ServiceRoots
    BY <2>2, <2>3, <2>4, RootsKept DEF IsRoot
  <2>6. ServiceUp' = "serving" /\ ServiceBusy' = [op |-> "launch", handle |-> 0]
    BY <1>1, <2>2, BusyNext
  <2>7. FrameInv'
    BY <1>1, <2>2, <2>3, <2>4 DEF FrameInv, WaitPending
  <2>8. Service!AcceptLaunch
    BY <1>1, <1>2, <2>2, <2>5, <2>6 DEF Service!AcceptLaunch
  <2> QED
    BY <2>7, <2>8 DEF ServiceMoves, Service!ServiceNext
<1>4. ASSUME MainLaunchRefused PROVE FrameInv' /\ ServiceMoves
  <2>1. /\ ServiceUp' = ServiceUp /\ ServiceBusy' = ServiceBusy /\ ServiceRoots' = ServiceRoots
        /\ FrameInv'
    BY <1>4, TreeUnchanged DEF MainLaunchRefused
  <2>2. Service!RefuseLaunch
    BY <1>2, <1>4, <2>1 DEF MainLaunchRefused, Answer, Service!RefuseLaunch, Service!Answered
  <2> QED
    BY <2>1, <2>2 DEF ServiceMoves, Service!ServiceNext
<1>5. ASSUME NEW h \in RootHandles, MainWait(h) PROVE FrameInv' /\ ServiceMoves
  <2>1. h # 0 /\ h \in Nat
    BY DEF RootHandles, Issued, Handles
  <2>2. PICK s \in FindWorker(workers, h) : wait'.slot = s /\ wait'.handle = h
    BY <1>5 DEF MainWait
  <2>3. s \in Slots /\ workers[s].active /\ workers[s].handle = h /\ workers[s].parent = 0
    BY DEF FindWorker, RootHandles
  <2>4. pc' = "wait" /\ UNCHANGED <<workers, nextHandle, control, reply>>
    BY <1>5 DEF MainWait
  <2>5. h \in ServiceRoots /\ ServiceRoots' = ServiceRoots
    BY <2>1, <2>3, <2>4 DEF ServiceRoots
  <2>6. ServiceUp' = "serving" /\ ServiceBusy' = [op |-> "wait", handle |-> h]
    BY <2>1, <2>2, <2>4, BusyNext
  <2>7. FrameInv'
    BY <2>2, <2>3, <2>4 DEF FrameInv
  <2>8. Service!AcceptWait(h)
    BY <1>1, <1>2, <2>4, <2>5, <2>6 DEF Service!AcceptWait
  <2> QED
    BY <2>5, <2>7, <2>8 DEF ServiceMoves, Service!ServiceNext
<1>6. ASSUME NEW h \in RootHandles, MainCancel(h) PROVE FrameInv' /\ ServiceMoves
  <2>1. h # 0
    BY DEF RootHandles, Issued, Handles
  <2>2. PICK s \in FindWorker(workers, h) : TRUE
    BY <1>6 DEF MainCancel
  <2>3. s \in Slots /\ IsRoot(workers, s) /\ workers[s].handle = h
    BY <2>1 DEF FindWorker, RootHandles, IsRoot
  <2>4. FindWorker(workers, h) = {s}
    BY <2>2, <2>3 DEF FindWorker, RefInv, IInv, TableInv
  <2>5. /\ workers' = Cleared(workers, Stopped(workers, {s}))
        /\ UNCHANGED <<pc, launch, wait, nextHandle, control>> /\ reply' = Answer("cancel", h, TRUE)
    BY <1>6, <2>4 DEF MainCancel, StopWorkers
  <2>6. \A t \in Slots : /\ t \in Stopped(workers, {s}) => ~workers'[t].active
                         /\ t \notin Stopped(workers, {s}) =>
                                /\ workers'[t].active = workers[t].active
                                /\ workers'[t].parent = workers[t].parent
                                /\ workers'[t].handle = workers[t].handle
    BY <1>0, <2>5, ClearedRecords
  <2>7. ServiceRoots' = ServiceRoots \ {h}
    BY <2>3, <2>6, StopRoots DEF RefInv
  <2>8. h \in ServiceRoots
    BY <2>3 DEF ServiceRoots, IsRoot
  <2>9. ServiceUp' = ServiceUp /\ ServiceBusy' = ServiceBusy
    BY <2>5 DEF ServiceUp, ServiceBusy
  <2>10. FrameInv'
    BY <1>1, <2>5 DEF FrameInv, WaitPending
  <2>11. Service!Cancel(h)
    BY <1>2, <2>5, <2>7, <2>8, <2>9 DEF Service!Cancel, Service!Answered, Answer
  <2> QED
    BY <2>8, <2>10, <2>11 DEF ServiceMoves, Service!ServiceNext
<1>7. ASSUME NEW h \in RootHandles, NEW op \in {"wait", "cancel"}, MainUnknown(op, h)
      PROVE  FrameInv' /\ ServiceMoves
  <2>1. h \in 1 .. MaxHandle /\ h < nextHandle /\ nextHandle \in Nat
    BY <1>0 DEF RootHandles, Issued, Handles, TypeOK
  <2>2. h \notin ServiceRoots
    BY <1>7 DEF MainUnknown, FindWorker, ServiceRoots
  <2>3. /\ ServiceUp' = ServiceUp /\ ServiceBusy' = ServiceBusy /\ ServiceRoots' = ServiceRoots
        /\ FrameInv'
    BY <1>7, TreeUnchanged DEF MainUnknown
  <2>4. h \in 1 .. nextHandle - 1
    BY <2>1
  <2>5. Service!RefuseUnknown(op, h)
    BY <1>2, <1>7, <2>2, <2>3, <2>4 DEF MainUnknown, Answer, Service!RefuseUnknown, Service!Answered
  <2> QED
    BY <2>1, <2>3, <2>5 DEF ServiceMoves, Service!ServiceNext
<1> QED
  BY <1>3, <1>4, <1>5, <1>6, <1>7 DEF Requests
\* The end of a launch: the handle of a root goes to the controller, that of a
\* child to the worker that asked for it.
LEMMA LaunchServes ==
    ASSUME RefInv, IInv', ProcInv', BrokerAssumption, LaunchAdvance \/ LaunchDone \/ LaunchFail
    PROVE  FrameInv' /\ ServiceMoves
<1> DEFINE s == launch.slot
           o == wait.idx
<1>0. TypeOK /\ IInv
  BY DEF RefInv, IInv
<1>a. /\ pc = "launch" /\ s \in Slots /\ workers[s].active /\ workers[s].handle = 0
      /\ nextHandle <= MaxHandle /\ nextHandle # 0
      /\ workers[s].parent # 0 => WaitPending /\ o \in Slots
  <2>1. pc = "launch"
    BY DEF LaunchAdvance, LaunchDone, LaunchFail
  <2>2. nextHandle # 0
    BY <1>0 DEF TypeOK
  <2> QED
    BY <1>0, <2>1, <2>2 DEF IInv, LaunchInv, WaitPending
<1>b. workers[s].parent = 0 => /\ wait.handle = 0 /\ ServiceUp = "serving"
                               /\ ServiceBusy = [op |-> "launch", handle |-> 0]
  BY <1>a, BusyNow DEF RefInv, FrameInv
<1>c. workers[s].parent # 0 =>
          /\ wait.handle # 0 /\ wait.slot \in Slots /\ ServiceUp = "serving"
          /\ ServiceBusy = [op |-> "wait", handle |-> wait.handle]
          /\ wait.slot # s
  <2>1. workers[s].parent # 0 => workers[wait.slot].parent = 0
    BY <1>a DEF RefInv, ProcInv, WaitRootInv
  <2> QED
    BY <1>a, <2>1, BusyNow
<1>1. CASE LaunchAdvance
  <2>1. launch'.slot = launch.slot
    BY <1>0, <1>1 DEF LaunchAdvance, TypeOK, LaunchFrame
  <2>2. /\ ServiceUp' = ServiceUp /\ ServiceBusy' = ServiceBusy /\ ServiceRoots' = ServiceRoots
        /\ FrameInv'
    BY <1>1, <2>1, TreeUnchanged DEF LaunchAdvance
  <2> QED
    BY <1>1, <2>2 DEF LaunchAdvance, ServiceMoves, ServiceStutters
<1>2. CASE LaunchDone
  <2> DEFINE w == [workers EXCEPT ![s].handle = nextHandle]
  <2>1. \A t \in Slots : /\ w[t].active = workers[t].active /\ w[t].parent = workers[t].parent
                         /\ w[t].handle = IF t = s THEN nextHandle ELSE workers[t].handle
    BY <1>0, <1>a DEF TypeOK, Worker
  <2>2. w \in [Slots -> Worker]
    BY <1>0, <1>a DEF TypeOK, Worker
  <2>3. control = "open" /\ nextHandle' = nextHandle + 1 /\ UNCHANGED control
    BY <1>0, <1>2 DEF LaunchDone, ControllerClosed, NextHandle, TypeOK
  <2>4. CASE workers[s].parent = 0
    <3>1. /\ workers' = w /\ pc' = "idle" /\ reply' = Answer("launch", nextHandle, TRUE) /\ wait' = wait
      BY <1>2, <2>4 DEF LaunchDone
    <3>2. ServiceUp' = "serving" /\ ServiceBusy' = [op |-> "none", handle |-> 0]
      BY <1>b, <2>4, <3>1, BusyNext
    <3>3. ServiceRoots' = ServiceRoots \cup {nextHandle}
      <4> HIDE DEF w
      <4>1. ServiceRoots' = {w[t].handle : t \in {u \in Slots : IsRoot(w, u)}}
        BY <3>1 DEF ServiceRoots, IsRoot
      <4>2. \A t \in Slots : IsRoot(w, t) <=> IsRoot(workers, t) \/ t = s
        BY <1>a, <2>1, <2>4 DEF IsRoot
      <4>3. ~IsRoot(workers, s) /\ w[s].handle = nextHandle
        BY <1>a, <2>1 DEF IsRoot
      <4>4. \A t \in Slots : IsRoot(workers, t) => w[t].handle = workers[t].handle
        BY <2>1, <4>3
      <4> QED
        BY <1>a, <4>1, <4>2, <4>3, <4>4, RootsDef
    <3>4. FrameInv'
      BY <1>b, <2>4, <3>1 DEF FrameInv, WaitPending
    <3>5. Service!Launched
      BY <1>a, <1>b, <2>3, <2>4, <3>1, <3>2, <3>3
         DEF Service!Launched, Service!Answered, Service!Idle, Answer
    <3> QED
      BY <3>4, <3>5 DEF ServiceMoves, Service!ServiceNext, Service!ServiceStep
  <2>5. CASE workers[s].parent # 0
    <3>1. /\ workers' = Answering(w, o, "pending") /\ pc' = "wait" /\ wait' = ServeNext /\ reply' = reply
      BY <1>2, <2>5 DEF LaunchDone
    <3>2. wait'.slot = wait.slot /\ wait'.handle = wait.handle
      BY <1>0, <1>a, <2>5, <3>1, ServeNextKeeps
    <3> HIDE DEF w
    <3>3. \A t \in Slots : /\ workers'[t].active = w[t].active /\ workers'[t].parent = w[t].parent
                           /\ workers'[t].handle = w[t].handle
      BY <1>a, <2>2, <2>5, <3>1 DEF Answering, Worker
    <3>4. ServiceRoots' = ServiceRoots
      <4>1. \A t \in Slots : /\ IsRoot(workers', t) <=> IsRoot(workers, t)
                             /\ IsRoot(workers, t) => workers'[t].handle = workers[t].handle
        BY <2>1, <2>5, <3>3 DEF IsRoot
      <4> QED
        BY <4>1, RootsKept
    <3>5. ServiceUp' = ServiceUp /\ ServiceBusy' = ServiceBusy
      BY <1>a, <2>5, <3>1, <3>2, WaitGoesOn
    <3>6. FrameInv'
      <4>1. workers'[wait.slot].active = workers[wait.slot].active
            /\ workers'[wait.slot].handle = workers[wait.slot].handle
        BY <1>c, <2>1, <2>5, <3>3
      <4> QED
        BY <1>a, <2>5, <3>1, <3>2, <4>1, FrameKept DEF WaitPending
    <3>7. Service!ChildHandle
      BY <1>a, <1>c, <2>3, <2>5, <3>1, <3>4, <3>5 DEF Service!ChildHandle
    <3> QED
      BY <3>6, <3>7 DEF ServiceMoves, Service!ServiceNext
  <2> QED
    BY <2>4, <2>5
<1>3. CASE LaunchFail
  <2> DEFINE D == Stopped(workers, {s})
  <2>0. UNCHANGED <<nextHandle, control>>
    BY <1>3 DEF LaunchFail
  <2>1. \/ workers' = Cleared(workers, D)
        \/ \E u \in Slots : workers' = Answering(Cleared(workers, D), u, "pending")
    BY <1>3, <1>a DEF LaunchFail, StopWorkers, StopAndReply
  <2>2. \A t \in Slots : /\ t \in D => ~workers'[t].active
                         /\ t \notin D => /\ workers'[t].active = workers[t].active
                                          /\ workers'[t].parent = workers[t].parent
                                          /\ workers'[t].handle = workers[t].handle
    BY <1>0, <2>1, ClearedRecords
  <2>3. ServiceRoots' = ServiceRoots
    <3>1. \A t \in {s} : ~IsRoot(workers, t)
      BY <1>a DEF IsRoot
    <3> QED
      BY <1>0, <1>a, <2>2, <3>1, StopRoots
  <2> HIDE DEF D
  <2>4. CASE workers[s].parent = 0
    <3>1. pc' = "idle" /\ reply' = Answer("launch", 0, FALSE) /\ wait' = wait
      BY <1>3, <2>4 DEF LaunchFail
    <3>2. ServiceUp' = "serving" /\ ServiceBusy' = [op |-> "none", handle |-> 0]
      BY <1>b, <2>4, <3>1, BusyNext
    <3>3. FrameInv'
      BY <1>b, <2>4, <3>1 DEF FrameInv, WaitPending
    <3>4. Service!LaunchFailed
      BY <1>b, <2>0, <2>3, <2>4, <3>1, <3>2 DEF Service!LaunchFailed, Service!Answered, Service!Idle, Answer
    <3> QED
      BY <3>3, <3>4 DEF ServiceMoves, Service!ServiceNext, Service!ServiceStep
  <2>5. CASE workers[s].parent # 0
    <3>1. pc' = "wait" /\ wait' = ServeNext /\ reply' = reply
      BY <1>3, <2>5 DEF LaunchFail
    <3>2. wait'.slot = wait.slot /\ wait'.handle = wait.handle
      BY <1>0, <1>a, <2>5, <3>1, ServeNextKeeps
    <3>3. ServiceUp' = ServiceUp /\ ServiceBusy' = ServiceBusy
      BY <1>a, <2>5, <3>1, <3>2, WaitGoesOn
    <3>4. FrameInv'
      BY <1>a, <1>c, <2>2, <2>5, <3>1, <3>2, FrameKept DEF WaitPending
    <3> QED
      BY <2>0, <2>3, <3>1, <3>3, <3>4 DEF ServiceMoves, ServiceStutters
  <2> QED
    BY <2>4, <2>5
<1> QED
  BY <1>1, <1>2, <1>3

\* The end of a WAIT, one way or the other: its root is gone and the controller
\* has its answer.
LEMMA WaitEndServes ==
    ASSUME RefInv, pc = "outcome", pc' = "idle", wait' = NoWait, UNCHANGED <<nextHandle, control>>,
           NEW ok \in BOOLEAN, reply' = Answer("wait", wait.handle, ok),
           NEW E, workers[wait.slot].active => wait.slot \in E,
           \A t \in Slots : IsRoot(workers, t) /\ t # wait.slot => t \notin E,
           \A t \in Slots : /\ t \in E => ~workers'[t].active
                            /\ t \notin E => /\ workers'[t].active = workers[t].active
                                             /\ workers'[t].parent = workers[t].parent
                                             /\ workers'[t].handle = workers[t].handle
    PROVE  FrameInv' /\ ServiceMoves
<1> DEFINE r == wait.slot
<1>1. /\ wait.handle # 0 /\ r \in Slots /\ ServiceUp = "serving"
      /\ ServiceBusy = [op |-> "wait", handle |-> wait.handle]
  BY BusyNow DEF WaitPending
<1>2. NoWait.handle = 0
  BY DEF NoWait
<1>3. ServiceUp' = "serving" /\ ServiceBusy' = [op |-> "none", handle |-> 0]
  BY <1>2, BusyNext
<1>4. FrameInv'
  BY <1>2 DEF FrameInv, WaitPending
<1>5. ServiceRoots' = ServiceRoots \ {wait.handle}
  <2>1. CASE workers[r].active
    <3>1. IsRoot(workers, r) /\ workers[r].handle = wait.handle
      BY <1>1, <2>1 DEF RefInv, FrameInv, ProcInv, WaitRootInv, WaitPending, IsRoot
    <3>2. \A t \in Slots : /\ IsRoot(workers', t) <=> (IsRoot(workers, t) /\ t # r)
                           /\ IsRoot(workers', t) => workers'[t].handle = workers[t].handle
      BY <2>1 DEF IsRoot
    <3>3. ServiceRoots' = ServiceRoots \ {workers[r].handle}
      BY <1>1, <3>1, <3>2, RootGone DEF RefInv
    <3> QED
      BY <3>1, <3>3
  <2>2. CASE ~workers[r].active
    <3>1. \A t \in Slots : ~workers[t].active
      BY <2>2 DEF RefInv, ProcInv, WaitRootInv, WaitPending
    <3>2. \A t \in Slots : ~workers'[t].active
      BY <3>1
    <3> QED
      BY <3>1, <3>2 DEF ServiceRoots
  <2> QED
    BY <2>1, <2>2
<1>6. Service!WaitAnswered(ok)
  BY <1>1, <1>3, <1>5 DEF Service!WaitAnswered, Service!Answered, Service!Idle, Answer
<1> QED
  BY <1>4, <1>6 DEF ServiceMoves, Service!ServiceNext, Service!ServiceStep
\* wait_bounded and main after it.
LEMMA WaitServes ==
    ASSUME RefInv, IInv', ProcInv', BrokerAssumption,
           MainEof \/ WaitCheck \/ WaitObserve \/ WaitRetire \/ WaitStop \/ ServiceReap
    PROVE  FrameInv' /\ ServiceMoves
<1>0. TypeOK /\ IInv /\ nextHandle \in Nat
  BY DEF RefInv, IInv, TypeOK
<1>a. ASSUME StopAll, control = "closed", pc' = "exited", pc \in {"idle", "wait"},
             UNCHANGED <<nextHandle, control, reply>>
      PROVE  FrameInv' /\ ServiceMoves
  <2>1. workers' = Cleared(workers, Stopped(workers, Slots))
    BY <1>a DEF StopAll, StopWorkers
  <2>2. \A t \in Slots : ~workers'[t].active
    BY <1>0, <2>1, ClearedRecords, StopAllClears
  <2>3. ServiceRoots' = {}
    BY <2>2 DEF ServiceRoots
  <2>4. /\ ServiceUp = "serving" /\ ServiceBusy.op # "launch"
        /\ ServiceUp' = "exited" /\ ServiceBusy' = [op |-> "none", handle |-> 0]
    BY <1>a, BusyNow, BusyNext DEF WaitPending
  <2>5. Service!Exit
    BY <1>a, <2>3, <2>4 DEF Service!Exit, Service!Idle
  <2>6. FrameInv'
    BY <1>a DEF FrameInv, WaitPending
  <2> QED
    BY <2>5, <2>6 DEF ServiceMoves, Service!ServiceNext, Service!ServiceStep
\* wait_bounded goes on or returns to main: nothing the service sees.
<1>b. ASSUME pc = "wait", pc' \in {"wait", "outcome"}, wait'.slot = wait.slot, wait'.handle = wait.handle,
             UNCHANGED <<workers, nextHandle, control, reply>>
      PROVE  FrameInv' /\ ServiceMoves
  <2>1. ServiceRoots' = ServiceRoots
    BY <1>b DEF ServiceRoots
  <2>2. ServiceUp' = ServiceUp /\ ServiceBusy' = ServiceBusy
    BY <1>b, WaitGoesOn DEF WaitPending
  <2>3. FrameInv'
    BY <1>b, FrameKept DEF WaitPending
  <2> QED
    BY <1>b, <2>1, <2>2, <2>3 DEF ServiceMoves, ServiceStutters
<1>1. CASE MainEof
  BY <1>1, <1>a DEF MainEof, ControllerClosed
<1>2. CASE WaitCheck
  <2>1. CASE WaitReturns(FALSE) /\ UNCHANGED <<workers, proc>>
    <3>1. pc' = "outcome" /\ wait'.slot = wait.slot /\ wait'.handle = wait.handle
      BY <1>0, <2>1 DEF WaitReturns, TypeOK, WaitFrame
    <3> QED
      BY <1>2, <1>b, <2>1, <3>1 DEF WaitCheck
  <2>2. CASE ControllerClosed /\ StopAll /\ pc' = "exited"
    BY <1>2, <1>a, <2>2 DEF WaitCheck, ControllerClosed
  <2>3. CASE wait' = [wait EXCEPT !.at = "reap", !.idx = 1] /\ UNCHANGED <<workers, proc, pc>>
    <3>1. wait'.slot = wait.slot /\ wait'.handle = wait.handle
      BY <1>0, <2>3 DEF TypeOK, WaitFrame
    <3> QED
      BY <1>2, <1>b, <2>3, <3>1 DEF WaitCheck
  <2> QED
    BY <1>2, <2>1, <2>2, <2>3 DEF WaitCheck
<1>3. CASE WaitObserve
  <2>1. \/ WaitReturns(FALSE) \/ WaitReturns(TRUE)
        \/ wait' = [wait EXCEPT !.at = "check"] /\ UNCHANGED pc
    BY <1>3 DEF WaitObserve
  <2>2. pc = "wait" /\ UNCHANGED <<workers, nextHandle, control, reply>>
    BY <1>3 DEF WaitObserve
  <2>3. pc' \in {"wait", "outcome"} /\ wait'.slot = wait.slot /\ wait'.handle = wait.handle
    BY <1>0, <2>1, <2>2 DEF WaitReturns, TypeOK, WaitFrame
  <2> QED
    BY <1>b, <2>2, <2>3
<1>4. CASE WaitRetire
  <2> DEFINE s == wait.slot
             C == Children(workers, workers[s].handle)
             D == Stopped(workers, C)
  <2>1. /\ pc = "outcome" /\ pc' = "idle" /\ wait' = NoWait /\ UNCHANGED <<nextHandle, control>>
        /\ reply' = Answer("wait", wait.handle, TRUE) /\ workers' = Cleared(workers, D \cup {s})
    BY <1>4 DEF WaitRetire, RetireWorker
  <2>2. \A t \in Slots : IsRoot(workers, t) => t \notin D
    <3>1. C \in SUBSET Slots /\ \A t \in C : workers[t].parent # 0
      BY DEF Children, IsChild
    <3> HIDE DEF C
    <3> QED
      BY <3>1, RootSurvives DEF IsRoot
  <2> HIDE DEF D
  <2>3. \A t \in Slots : /\ t \in D \cup {s} => ~workers'[t].active
                         /\ t \notin D \cup {s} => /\ workers'[t].active = workers[t].active
                                                   /\ workers'[t].parent = workers[t].parent
                                                   /\ workers'[t].handle = workers[t].handle
    BY <1>0, <2>1, ClearedRecords
  <2>4. \A t \in Slots : IsRoot(workers, t) /\ t # s => t \notin D \cup {s}
    BY <2>2
  <2> QED
    BY <2>1, <2>3, <2>4, WaitEndServes
<1>5. CASE WaitStop
  <2> DEFINE s == wait.slot
             D == Stopped(workers, {s})
  <2>1. /\ pc = "outcome" /\ pc' = "idle" /\ wait' = NoWait /\ UNCHANGED <<nextHandle, control>>
        /\ reply' = Answer("wait", wait.handle, FALSE) /\ workers' = Cleared(workers, D)
    BY <1>5 DEF WaitStop, StopWorkers
  <2>2. s \in Slots
    BY <2>1, BusyNow DEF WaitPending
  <2>3. workers[s].active => s \in D
    BY <2>2, StoppedClosed
  <2>4. \A t \in Slots : IsRoot(workers, t) /\ t # s => t \notin D
    BY <2>2, RootSurvives DEF IsRoot
  <2> HIDE DEF D
  <2>5. \A t \in Slots : /\ t \in D => ~workers'[t].active
                         /\ t \notin D => /\ workers'[t].active = workers[t].active
                                          /\ workers'[t].parent = workers[t].parent
                                          /\ workers'[t].handle = workers[t].handle
    BY <1>0, <2>1, ClearedRecords
  <2> QED
    BY <2>1, <2>3, <2>4, <2>5, WaitEndServes
<1>6. CASE ServiceReap
  <2> DEFINE s == wait.idx
             C == Children(workers, workers[s].handle)
             D == Stopped(workers, C)
             c == Cleared(workers, D)
  <2>0. /\ pc = "wait" /\ pc' = "wait" /\ s \in Slots /\ wait.slot \in Slots
        /\ UNCHANGED <<nextHandle, control, reply>>
    BY <1>0, <1>6 DEF ServiceReap, IInv, WaitInv
  <2>1. wait'.slot = wait.slot /\ wait'.handle = wait.handle
    <3>1. wait' = ServeNext \/ wait' = [wait EXCEPT !.at = "rpc"]
      BY <1>6 DEF ServiceReap
    <3> QED
      BY <1>0, <2>0, <3>1, ServeNextKeeps DEF TypeOK, WaitFrame
  <2>2. CASE UNCHANGED workers
    BY <1>b, <2>0, <2>1, <2>2
  <2>3. CASE workers' = MarkReaped(Cleared(workers, D), s)
    <3>1. C \in SUBSET Slots /\ \A t \in C : workers[t].parent # 0
      BY DEF Children, IsChild
    <3>2. c \in [Slots -> Worker] /\ \A t \in Slots : c[t] = IF t \in D THEN Empty ELSE workers[t]
      BY <1>0, BrokerAssumption DEF TypeOK, Cleared, Empty, Worker
    <3>3. workers' = [c EXCEPT ![s].reaped = TRUE]
      BY <2>3 DEF MarkReaped
    <3> HIDE DEF c
    <3>4. \A t \in Slots : /\ workers'[t].active = c[t].active /\ workers'[t].parent = c[t].parent
                           /\ workers'[t].handle = c[t].handle
      BY <3>2, <3>3 DEF Worker
    <3> HIDE DEF D
    <3>5. \A t \in Slots : /\ t \in D => ~workers'[t].active
                           /\ t \notin D => /\ workers'[t].active = workers[t].active
                                            /\ workers'[t].parent = workers[t].parent
                                            /\ workers'[t].handle = workers[t].handle
      BY <3>2, <3>4 DEF Empty
    <3> HIDE DEF C
    <3>6. ServiceRoots' = ServiceRoots
      BY <1>0, <3>1, <3>5, StopRoots DEF IsRoot, D
    <3>7. ServiceUp' = ServiceUp /\ ServiceBusy' = ServiceBusy
      BY <2>0, <2>1, WaitGoesOn DEF WaitPending
    <3>8. FrameInv'
      BY <2>0, <2>1, <3>5, FrameKept DEF WaitPending
    <3> QED
      BY <2>0, <3>6, <3>7, <3>8 DEF ServiceMoves, ServiceStutters
  <2> QED
    BY <1>6, <2>2, <2>3 DEF ServiceReap
<1> QED
  BY <1>1, <1>2, <1>3, <1>4, <1>5, <1>6

\* A worker's request: the service sees it only when it ends the root.
LEMMA WorkerServes ==
    ASSUME RefInv, IInv', ProcInv', BrokerAssumption, Serving,
           \/ FlushReply \/ NoRequest \/ RequestEof \/ ServiceStop \/ ChildLaunch \/ ReplyOnly
           \/ \E h \in Issued : ChildSignal(h) \/ ChildOverBudget(h) \/ ChildRelease(h)
    PROVE  FrameInv' /\ ServiceMoves
<1> DEFINE o == wait.idx
<1>0. TypeOK /\ IInv
  BY DEF RefInv, IInv
<1>a. /\ pc = "wait" /\ WaitPending /\ o \in Slots /\ workers[o].active /\ launch.slot = 0
      /\ wait.slot \in Slots
      /\ wait.handle # 0 /\ ServiceUp = "serving" /\ ServiceBusy = [op |-> "wait", handle |-> wait.handle]
  BY <1>0, BusyNow DEF Serving, WaitPending, IInv, WaitInv, LaunchInv
<1>b. workers[o].handle # 0
  BY <1>0, <1>a DEF IInv, LaunchInv, Slots
\* A step that clears a set of records without roots.
<1>c. ASSUME wait' = ServeNext, UNCHANGED <<pc, nextHandle, control, reply>>,
             NEW D, \A t \in Slots : IsRoot(workers, t) => t \notin D,
             \A t \in Slots : /\ t \in D => ~workers'[t].active
                              /\ t \notin D => /\ workers'[t].active = workers[t].active
                                               /\ workers'[t].parent = workers[t].parent
                                               /\ workers'[t].handle = workers[t].handle
      PROVE  FrameInv' /\ ServiceMoves
  <2>1. wait'.slot = wait.slot /\ wait'.handle = wait.handle
    BY <1>0, <1>a, <1>c, ServeNextKeeps
  <2>2. ServiceUp' = ServiceUp /\ ServiceBusy' = ServiceBusy
    BY <1>a, <1>c, <2>1, WaitGoesOn
  <2>3. \A t \in Slots : /\ IsRoot(workers', t) <=> IsRoot(workers, t)
                         /\ IsRoot(workers, t) => workers'[t].handle = workers[t].handle
    BY <1>c DEF IsRoot
  <2>4. ServiceRoots' = ServiceRoots
    BY <2>3, RootsKept
  <2>5. FrameInv'
    BY <1>a, <1>c, <2>1, FrameKept DEF WaitPending
  <2> QED
    BY <1>c, <2>2, <2>4, <2>5 DEF ServiceMoves, ServiceStutters
<1>d. ASSUME NEW S \in SUBSET Slots, \A t \in S : workers[t].parent # 0
      PROVE  \A t \in Slots : IsRoot(workers, t) => t \notin Stopped(workers, S)
  BY <1>d, RootSurvives DEF IsRoot
\* A step that clears none.
<1>e. ASSUME wait' = ServeNext, UNCHANGED <<pc, launch, nextHandle, control, reply>>,
             \A t \in Slots : /\ workers'[t].active = workers[t].active
                              /\ workers'[t].parent = workers[t].parent
                              /\ workers'[t].handle = workers[t].handle
      PROVE  FrameInv' /\ ServiceMoves
  <2>1. wait'.slot = wait.slot /\ wait'.handle = wait.handle
    BY <1>0, <1>a, <1>e, ServeNextKeeps
  <2>2. /\ ServiceUp' = ServiceUp /\ ServiceBusy' = ServiceBusy /\ ServiceRoots' = ServiceRoots
        /\ FrameInv'
    BY <1>e, <2>1, TreeUnchanged
  <2> QED
    BY <1>e, <2>2 DEF ServiceMoves, ServiceStutters
<1>1. CASE FlushReply \/ ReplyOnly \/ \E h \in Issued : ChildSignal(h)
  <2>1. PICK a \in {"none", "pending"} : workers' = Answering(workers, o, a)
    BY <1>1 DEF FlushReply, ReplyOnly, ChildSignal
  <2>2. wait' = ServeNext /\ UNCHANGED <<pc, launch, nextHandle, control, reply>>
    BY <1>1 DEF FlushReply, ReplyOnly, ChildSignal
  <2>3. \A t \in Slots : /\ workers'[t].active = workers[t].active
                         /\ workers'[t].parent = workers[t].parent
                         /\ workers'[t].handle = workers[t].handle
    BY <1>0, <1>a, <2>1 DEF Answering, TypeOK, Worker
  <2> QED
    BY <1>e, <2>2, <2>3
<1>2. CASE NoRequest
  BY <1>2, <1>e DEF NoRequest
<1>3. CASE RequestEof
  <2> DEFINE C == Children(workers, workers[o].handle)
             D == Stopped(workers, C)
  <2>1. C \in SUBSET Slots /\ \A t \in C : workers[t].parent # 0
    BY DEF Children, IsChild
  <2>2. \A t \in Slots : IsRoot(workers, t) => t \notin D
    <3> HIDE DEF C
    <3> QED
      BY <1>d, <2>1
  <2>3. /\ workers' = Cleared(workers, D) /\ wait' = ServeNext
        /\ UNCHANGED <<pc, nextHandle, control, reply>>
    BY <1>3 DEF RequestEof, StopWorkers, Owner
  <2> HIDE DEF D
  <2> QED
    BY <1>0, <1>c, <2>2, <2>3, ClearedRecords
<1>4. CASE ServiceStop
  <2> DEFINE D == Stopped(workers, {o})
  <2>1. /\ workers' = Cleared(workers, D) /\ wait' = ServeNext
        /\ UNCHANGED <<pc, nextHandle, control, reply>>
    BY <1>4 DEF ServiceStop, StopWorkers
  <2>2. \A t \in Slots : /\ t \in D => ~workers'[t].active
                         /\ t \notin D => /\ workers'[t].active = workers[t].active
                                          /\ workers'[t].parent = workers[t].parent
                                          /\ workers'[t].handle = workers[t].handle
    BY <1>0, <2>1, ClearedRecords
  <2>3. CASE workers[o].parent # 0
    <3>1. \A t \in Slots : IsRoot(workers, t) => t \notin D
      BY <1>a, <1>d, <2>3
    <3> HIDE DEF D
    <3> QED
      BY <1>c, <2>1, <2>2, <3>1
  <2>4. CASE workers[o].parent = 0
    <3>1. workers[wait.slot].active /\ workers[wait.slot].parent = 0
      BY <1>a DEF RefInv, ProcInv, WaitRootInv
    <3>2. o = wait.slot /\ IsRoot(workers, o) /\ workers[o].handle = wait.handle
      BY <1>a, <1>b, <2>4, <3>1 DEF RefInv, ProcInv, RootInv, FrameInv, IsRoot
    <3>3. ServiceRoots' = ServiceRoots \ {wait.handle}
      BY <1>0, <1>a, <2>2, <3>2, StopRoots
    <3>4. wait'.slot = wait.slot /\ wait'.handle = wait.handle
      BY <1>0, <1>a, <2>1, ServeNextKeeps
    <3>5. ServiceUp' = ServiceUp /\ ServiceBusy' = ServiceBusy
      BY <1>a, <2>1, <3>4, WaitGoesOn
    <3>6. FrameInv'
      BY <1>a, <2>1, <2>2, <3>4, FrameKept DEF WaitPending
    <3>7. Service!RootStopped
      BY <1>a, <2>1, <3>3, <3>5 DEF Service!RootStopped
    <3> QED
      BY <3>6, <3>7 DEF ServiceMoves, Service!ServiceNext
  <2> QED
    BY <2>3, <2>4
<1>5. CASE ChildLaunch
  <2>1. PICK s \in FreeWorker(workers), p \in Pids : Spawn(s, p, workers[o].handle, workers)
    BY <1>5 DEF ChildLaunch, Owner
  <2> DEFINE r == Starting(p, workers[o].handle)
  <2>2. /\ s \in Slots /\ ~workers[s].active /\ pc' = "launch" /\ launch'.slot = s
        /\ workers' = [workers EXCEPT ![s] = r]
        /\ UNCHANGED <<wait, nextHandle, control, reply>>
    BY <1>5, <2>1 DEF FreeWorker, Spawn, ChildLaunch
  <2>3. r.parent # 0 /\ r.active
    BY <1>b DEF Starting
  <2>4. \A t \in Slots : workers'[t] = IF t = s THEN r ELSE workers[t]
    BY <1>0, <2>2 DEF TypeOK
  <2> HIDE DEF r
  <2>5. ServiceRoots' = ServiceRoots
    BY <2>2, <2>3, <2>4, RootsKept DEF IsRoot
  <2>6. ServiceUp' = ServiceUp /\ ServiceBusy' = ServiceBusy
    BY <1>a, <2>2, WaitGoesOn
  <2>7. workers[wait.slot].active
    BY <1>a DEF RefInv, ProcInv, WaitRootInv
  <2>8. FrameInv'
    <3>1. workers'[wait.slot] = workers[wait.slot]
      BY <1>a, <2>2, <2>4, <2>7
    <3>2. WaitPending'
      BY <2>2, <2>3, <2>4 DEF WaitPending
    <3> QED
      BY <1>a, <2>2, <2>7, <3>1, <3>2, FrameKept
  <2> QED
    BY <2>2, <2>5, <2>6, <2>8 DEF ServiceMoves, ServiceStutters
<1>6. ASSUME NEW h \in Issued, ChildOverBudget(h) PROVE FrameInv' /\ ServiceMoves
  <2> DEFINE C == OwnedChild(h)
             D == Stopped(workers, C)
  <2>1. C \in SUBSET Slots /\ \A t \in C : workers[t].parent # 0
    BY <1>b DEF OwnedChild, FindWorker, Owner
  <2>2. \A t \in Slots : IsRoot(workers, t) => t \notin D
    <3> HIDE DEF C
    <3> QED
      BY <1>d, <2>1
  <2>3. /\ workers' = Answering(Cleared(workers, D), o, "pending") /\ wait' = ServeNext
        /\ UNCHANGED <<pc, nextHandle, control, reply>>
    BY <1>6 DEF ChildOverBudget, StopAndReply
  <2> HIDE DEF D
  <2> QED
    BY <1>0, <1>a, <1>c, <2>2, <2>3, ClearedRecords
<1>7. ASSUME NEW h \in Issued, ChildRelease(h) PROVE FrameInv' /\ ServiceMoves
  <2> DEFINE C == Children(workers, h)
             D == Stopped(workers, C)
  <2>1. PICK s \in OwnedChild(h) : workers' = Answering(Cleared(workers, D \cup {s}), o, "pending")
    BY <1>7 DEF ChildRelease
  <2>2. workers[s].parent # 0
    BY <1>b DEF OwnedChild, Owner
  <2>3. C \in SUBSET Slots /\ \A t \in C : workers[t].parent # 0
    BY DEF Children, IsChild
  <2>4. \A t \in Slots : IsRoot(workers, t) => t \notin D
    <3> HIDE DEF C
    <3> QED
      BY <1>d, <2>3
  <2>5. wait' = ServeNext /\ UNCHANGED <<pc, nextHandle, control, reply>>
    BY <1>7 DEF ChildRelease
  <2> HIDE DEF D
  <2>6. \A t \in Slots : IsRoot(workers, t) => t \notin D \cup {s}
    BY <2>2, <2>4 DEF IsRoot
  <2> QED
    BY <1>0, <1>a, <1>c, <2>1, <2>5, <2>6, ClearedRecords
<1> QED
  BY <1>1, <1>2, <1>3, <1>4, <1>5, <1>6, <1>7

-----------------------------------------------------------------------------
(* The theorem.                                                            *)

\* Every step of the broker is a step of the service or invisible to it.
LEMMA NextServes ==
    ASSUME BrokerAssumption, MultiRoot = FALSE, RefInv, [Next]_vars
    PROVE  RefInv' /\ ServiceMoves
<1>0. IInv' /\ ProcInv'
  BY NextIInv, NextProcInv DEF RefInv
<1> SUFFICES FrameInv' /\ ServiceMoves
  BY <1>0 DEF RefInv
<1>1. CASE Environment
  BY <1>0, <1>1, EnvironmentServes
<1>2. CASE Requests
  BY <1>0, <1>2, RequestsServe
<1>3. CASE BrokerStep
  <2>1. CASE LaunchAdvance \/ LaunchDone \/ LaunchFail
    BY <1>0, <2>1, LaunchServes
  <2>2. CASE MainEof \/ WaitCheck \/ WaitObserve \/ WaitRetire \/ WaitStop \/ ServiceReap
    BY <1>0, <2>2, WaitServes
  <2>3. CASE \/ FlushReply \/ NoRequest \/ RequestEof \/ ServiceStop \/ ChildLaunch \/ ReplyOnly
             \/ \E h \in Issued : ChildSignal(h) \/ ChildOverBudget(h) \/ ChildRelease(h)
    <3>1. Serving
      BY <2>3 DEF FlushReply, NoRequest, RequestEof, ServiceStop, ChildLaunch, ReplyOnly,
                  ChildSignal, ChildOverBudget, ChildRelease
    <3> QED
      BY <1>0, <2>3, <3>1, WorkerServes
  <2> QED
    BY <1>3, <2>1, <2>2, <2>3 DEF BrokerStep
<1>4. CASE BrokerDie
  <2>1. ServiceRoots' = ServiceRoots
    BY <1>4 DEF BrokerDie, ServiceRoots
  <2>2. ServiceUp = "serving" /\ ServiceUp' = "died" /\ ServiceBusy' = [op |-> "none", handle |-> 0]
    BY <1>4 DEF BrokerDie, ServiceUp, ServiceBusy
  <2>3. Service!Die
    BY <1>4, <2>1, <2>2 DEF BrokerDie, Service!Die, Service!Idle
  <2>4. FrameInv'
    BY <1>4 DEF BrokerDie, FrameInv, WaitPending
  <2> QED
    BY <2>3, <2>4 DEF ServiceMoves, Service!ServiceNext
<1>5. CASE Halted \/ UNCHANGED vars
  <2>1. UNCHANGED vars
    BY <1>5 DEF Halted
  <2>2. ServiceStutters
    BY <2>1 DEF vars, ServiceStutters, ServiceUp, ServiceRoots, ServiceBusy
  <2>3. FrameInv'
    BY <2>1 DEF vars, RefInv, FrameInv, WaitPending
  <2> QED
    BY <2>2, <2>3 DEF ServiceMoves
<1> QED
  BY <1>1, <1>2, <1>3, <1>4, <1>5 DEF Next

\* The broker keeps the promise of its socket: every request is answered in
\* turn, an answered WAIT or CANCEL leaves no root behind, no handle is issued
\* twice and no root goes without a request, a protocol error or the end.
THEOREM BrokerImplementsService == MultiRoot = FALSE /\ Spec => ImplementsService
<1> SUFFICES ASSUME MultiRoot = FALSE PROVE Spec => ImplementsService
  OBVIOUS
<1>1. Init => RefInv
  <2> SUFFICES ASSUME Init PROVE RefInv
    OBVIOUS
  <2>1. IInv
    BY BrokerAssumption, InitIInv
  <2>2. ProcInv
    BY DEF Init, ProcInv, PidInv, RootInv, NoLeakedProcess, BackedInv, WaitRootInv, WaitPending,
           ExitInv, Empty
  <2>3. FrameInv
    BY DEF Init, FrameInv, WaitPending, NoWait
  <2> QED
    BY <2>1, <2>2, <2>3 DEF RefInv
<1>2. Init => Service!ServiceInit
  <2> SUFFICES ASSUME Init PROVE Service!ServiceInit
    OBVIOUS
  <2>1. ServiceRoots = {}
    BY DEF Init, ServiceRoots, Empty
  <2>2. ServiceUp = "serving" /\ ServiceBusy = [op |-> "none", handle |-> 0]
    BY DEF Init, ServiceUp, ServiceBusy, NoWait
  <2> QED
    BY <2>1, <2>2 DEF Init, NoReply, Service!ServiceInit, Service!Idle, Service!NoAnswer
<1>3. RefInv /\ [Next]_vars => RefInv' /\ [Service!ServiceNext]_(Service!serviceVars)
  <2> SUFFICES ASSUME RefInv, [Next]_vars PROVE RefInv' /\ [Service!ServiceNext]_(Service!serviceVars)
    OBVIOUS
  <2>1. RefInv' /\ ServiceMoves
    BY BrokerAssumption, NextServes
  <2> QED
    BY <2>1 DEF ServiceMoves, ServiceStutters, Service!serviceVars
<1> QED
  BY <1>1, <1>2, <1>3, PTL DEF Spec, ImplementsService, Service!ServiceSpec
=============================================================================
