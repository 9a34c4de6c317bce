------------------------------- MODULE Broker -------------------------------
(***************************************************************************)
(* The invocation-scoped native broker (native/macos-arm64/broker.c,       *)
(* managed_workers.inc, control_mach.inc): one thread that owns a fixed    *)
(* table of worker processes.  The controller asks it on a private socket  *)
(* to LAUNCH, WAIT for and CANCEL root workers; while a WAIT is pending    *)
(* the broker also serves the workers, which ask it on private pipes to    *)
(* launch and operate logical children of their own.                       *)
(*                                                                         *)
(* The broker is sequential, its environment is not: workers exit, hang up *)
(* and write requests, the controller closes its socket, a deadline passes *)
(* and the kernel hands a freed PID to another process between any two     *)
(* steps below.  Killing and reaping a subtree is one step: the broker     *)
(* does nothing else while it polls waitpid.                               *)
(***************************************************************************)
EXTENDS Naturals

CONSTANTS
    MaxWorkers,   \* SPECFACT_MAX_WORKERS, the size of the worker table
    MaxHandle,    \* bound: handles this behaviour may issue (2^32 - 1 in C)
    Pids,         \* process identifiers the kernel may give to a worker
    NoPid,        \* the pid of a cleared record (memset 0)
    ReusedPids,   \* pids the kernel may give to a process of somebody else
    MultiRoot     \* TRUE: the controller may own several roots at once
                  \* FALSE: session.wait(session.launch(...)), as the CLI does

ASSUME BrokerAssumption ==
    /\ MaxWorkers \in Nat \ {0}
    /\ MaxHandle \in Nat
    /\ NoPid \notin Pids
    /\ ReusedPids \subseteq Pids
    /\ MultiRoot \in BOOLEAN

Slots == 1 .. MaxWorkers

VARIABLES
    workers,      \* the table: struct worker workers[SPECFACT_MAX_WORKERS]
    proc,         \* kernel view of each pid
    pc,           \* where the broker's single thread is
    launch,       \* frame of launch_worker
    wait,         \* frame of the WAIT request being served
    nextHandle,   \* next_handle
    control,      \* the controller's end of the private socket
    reply         \* reply on that socket that the controller has not read

vars == <<workers, proc, pc, launch, wait, nextHandle, control, reply>>

-----------------------------------------------------------------------------
(* Records.  handle 0 is the kernel-side state of a worker that is still   *)
(* starting: launch_worker sets active before it assigns the handle.       *)

Worker == [active : BOOLEAN, handle : 0 .. MaxHandle, parent : 0 .. MaxHandle,
           pid : Pids \cup {NoPid}, reaped : BOOLEAN, hup : BOOLEAN,
           answer : {"none", "pending"}]

Empty == [active |-> FALSE, handle |-> 0, parent |-> 0, pid |-> NoPid,
          reaped |-> FALSE, hup |-> FALSE, answer |-> "none"]

Starting(p, h) == [active |-> TRUE, handle |-> 0, parent |-> h, pid |-> p,
                   reaped |-> FALSE, hup |-> FALSE, answer |-> "none"]

\* live and zombie are children of the broker; foreign is another program's
\* process that the kernel gave a pid the broker had reaped.
ProcState == {"free", "live", "zombie", "foreign"}

Stages == {"none", "spawned", "traced", "ready", "admitted"}

NoLaunch == [slot |-> 0, stage |-> "none"]
NoWait == [handle |-> 0, slot |-> 0, pid |-> NoPid, idx |-> 0, at |-> "none",
           late |-> FALSE, ok |-> FALSE]

LaunchFrame == [slot : 0 .. MaxWorkers, stage : Stages]
WaitFrame == [handle : 0 .. MaxHandle, slot : 0 .. MaxWorkers,
              pid : Pids \cup {NoPid}, idx : 0 .. MaxWorkers,
              at : {"none", "check", "reap", "rpc", "observe"},
              late : BOOLEAN, ok : BOOLEAN]

Reply == [op : {"none", "launch", "wait", "cancel"}, handle : 0 .. MaxHandle,
          ok : BOOLEAN]
NoReply == [op |-> "none", handle |-> 0, ok |-> FALSE]
Answer(op, h, ok) == [op |-> op, handle |-> h, ok |-> ok]

-----------------------------------------------------------------------------
(* The table. *)

\* find_worker: the active record with a handle, if there is one.
FindWorker(w, h) ==
    {s \in Slots : w[s].active /\ w[s].handle = h}

\* free_worker: the first record that is not active.
FreeWorker(w) ==
    {s \in Slots : ~w[s].active /\ \A t \in Slots : t < s => w[t].active}

IsChild(w, t, h) == h # 0 /\ w[t].active /\ w[t].parent = h

\* S holds the logical children of its members.
ChildClosed(w, S) ==
    \A s \in S, t \in Slots : IsChild(w, t, w[s].handle) => t \in S

\* s and its logical descendants: what stop_children and stop_worker reach by
\* calling each other.
SubTreeOneLevel(w, s) == {t \in Slots : t = s \/ IsChild(w, t, w[s].handle)}
SubTree(w, s) ==
    {t \in Slots : \A S \in SUBSET Slots : s \in S /\ ChildClosed(w, S) => t \in S}

\* stop_worker returns at once on an inactive record.
Stopped(w, S) ==
    {t \in Slots : \E s \in S : w[s].active /\ t \in SubTree(w, s)}

Children(w, h) == {t \in Slots : IsChild(w, t, h)}

Cleared(w, S) == [s \in Slots |-> IF s \in S THEN Empty ELSE w[s]]

\* stop_worker signals and reaps the pid of every record it stops whose
\* reaped flag is not set, whatever that pid denotes by now.
Signalled(w, S) == {w[s].pid : s \in {t \in S : ~w[t].reaped}}

Freed(pr, P) == [p \in Pids |-> IF p \in P THEN "free" ELSE pr[p]]

\* A reply to the worker in slot o becomes pending (worker_reply), or is sent.
Answering(w, o, a) == [w EXCEPT ![o].answer = a]

StopWorkers(S) ==
    LET D == Stopped(workers, S)
    IN  /\ workers' = Cleared(workers, D)
        /\ proc' = Freed(proc, Signalled(workers, D))

\* The same, and the worker in slot o gets its reply.
StopAndReply(S, o) ==
    LET D == Stopped(workers, S)
    IN  /\ workers' = Answering(Cleared(workers, D), o, "pending")
        /\ proc' = Freed(proc, Signalled(workers, D))

\* retire_worker: stops the logical children, then clears the record without
\* a signal; the caller has reaped its process.
RetireWorker(s) ==
    LET D == Stopped(workers, Children(workers, workers[s].handle))
    IN  /\ workers' = Cleared(workers, D \cup {s})
        /\ proc' = Freed(proc, Signalled(workers, D))

\* main after its loop.
StopAllButFirst == StopWorkers({s \in Slots : s > 1})
StopAll == StopWorkers(Slots)

\* service_workers records the end of a worker.
MarkReapedNever(w, s) == w
MarkReaped(w, s) == [w EXCEPT ![s].reaped = TRUE]

\* next_handle++.
NextHandleNarrow(h) == IF h = 2 THEN 1 ELSE h + 1
NextHandle(h) == h + 1

\* controller_closed, and owner_closed of the worker with handle h.
ControllerClosedMissed == FALSE
ControllerClosed == control = "closed"
OwnerClosed(h) ==
    h # 0 /\ \A s \in FindWorker(workers, h) :
                 \/ workers[s].reaped
                 \/ workers[s].hup
                 \/ proc[workers[s].pid] # "live"

-----------------------------------------------------------------------------
(* The environment. *)

\* A worker's process exits, whatever the reason.
WorkerExit(p) ==
    /\ proc[p] = "live"
    /\ proc' = [proc EXCEPT ![p] = "zombie"]
    /\ UNCHANGED <<workers, pc, launch, wait, nextHandle, control, reply>>

\* A running worker closes its end of the request pipe.
WorkerHangup(s) ==
    /\ workers[s].active
    /\ workers[s].handle # 0
    /\ ~workers[s].hup
    /\ ~workers[s].reaped
    /\ proc[workers[s].pid] = "live"
    /\ workers' = [workers EXCEPT ![s].hup = TRUE]
    /\ UNCHANGED <<proc, pc, launch, wait, nextHandle, control, reply>>

\* The kernel gives a free pid to a process that is not the broker's.
PidReuse(p) ==
    /\ proc[p] = "free"
    /\ proc' = [proc EXCEPT ![p] = "foreign"]
    /\ UNCHANGED <<workers, pc, launch, wait, nextHandle, control, reply>>

\* The controller reads the reply it waits for (_send).
TakeReply ==
    /\ control = "open"
    /\ reply # NoReply
    /\ reply' = NoReply
    /\ UNCHANGED <<workers, proc, pc, launch, wait, nextHandle, control>>

\* The controller closes the socket, or dies.
ControllerClose ==
    /\ control = "open"
    /\ control' = "closed"
    /\ UNCHANGED <<workers, proc, pc, launch, wait, nextHandle, reply>>

\* The deadline of the pending WAIT passes.
WaitDeadline ==
    /\ wait.handle # 0
    /\ ~wait.late
    /\ pc \in {"wait", "launch"}
    /\ wait' = [wait EXCEPT !.late = TRUE]
    /\ UNCHANGED <<workers, proc, pc, launch, nextHandle, control, reply>>

-----------------------------------------------------------------------------
(* main: one request at a time.  A request is sent and read in one step.   *)

Requested == pc = "idle" /\ control = "open" /\ reply = NoReply

\* launch_worker up to the spawned, suspended bootstrap.
Spawn(s, p, parent, w) ==
    /\ nextHandle <= MaxHandle
    /\ proc[p] = "free"
    /\ workers' = [w EXCEPT ![s] = Starting(p, parent)]
    /\ proc' = [proc EXCEPT ![p] = "live"]
    /\ launch' = [slot |-> s, stage |-> "spawned"]
    /\ pc' = "launch"

RootsAllowed == MultiRoot \/ \A s \in Slots : ~workers[s].active

MainLaunch ==
    /\ Requested
    /\ RootsAllowed
    /\ \E s \in FreeWorker(workers), p \in Pids : Spawn(s, p, 0, workers)
    /\ UNCHANGED <<wait, nextHandle, control, reply>>

\* An invalid request, a full table, or a failure before the spawn.
MainLaunchRefused ==
    /\ Requested
    /\ reply' = Answer("launch", 0, FALSE)
    /\ UNCHANGED <<workers, proc, pc, launch, wait, nextHandle, control>>

MainWait(h) ==
    /\ Requested
    /\ \E s \in FindWorker(workers, h) :
           wait' = [handle |-> h, slot |-> s, pid |-> workers[s].pid, idx |-> 1,
                    at |-> "check", late |-> FALSE, ok |-> FALSE]
    /\ pc' = "wait"
    /\ UNCHANGED <<workers, proc, launch, nextHandle, control, reply>>

MainCancel(h) ==
    /\ Requested
    /\ FindWorker(workers, h) # {}
    /\ StopWorkers(FindWorker(workers, h))
    /\ reply' = Answer("cancel", h, TRUE)
    /\ UNCHANGED <<pc, launch, wait, nextHandle, control>>

\* WAIT or CANCEL of a handle that has no record any more.
MainUnknown(op, h) ==
    /\ Requested
    /\ FindWorker(workers, h) = {}
    /\ reply' = Answer(op, h, FALSE)
    /\ UNCHANGED <<workers, proc, pc, launch, wait, nextHandle, control>>

\* The read of the next request meets EOF; the worker table is emptied.
MainEof ==
    /\ pc = "idle"
    /\ ControllerClosed
    /\ StopAll
    /\ pc' = "exited"
    /\ UNCHANGED <<launch, wait, nextHandle, control, reply>>

-----------------------------------------------------------------------------
(* launch_worker after the spawn.                                          *)

StageAfter == [spawned |-> "traced", traced |-> "ready", ready |-> "admitted"]

\* exceptions() and the marker pipe take the bootstrap through its trace
\* stop, its readiness marker and the verified replacement of its image.
LaunchAdvance ==
    /\ pc = "launch"
    /\ launch.stage \in DOMAIN StageAfter
    /\ proc[workers[launch.slot].pid] = "live"
    /\ launch' = [launch EXCEPT !.stage = StageAfter[@]]
    /\ UNCHANGED <<workers, proc, pc, wait, nextHandle, control, reply>>

\* The next record of service_workers' loop, or the code after the loop.
ServeNextPastEnd ==
    IF wait.idx > MaxWorkers
    THEN [wait EXCEPT !.at = "observe"]
    ELSE [wait EXCEPT !.at = "reap", !.idx = @ + 1]
ServeNext ==
    IF wait.idx = MaxWorkers
    THEN [wait EXCEPT !.at = "observe"]
    ELSE [wait EXCEPT !.at = "reap", !.idx = @ + 1]

\* The handle is assigned; the caller is main or child_launch.
LaunchDone ==
    LET s == launch.slot
        parent == workers[s].parent
        started == [workers EXCEPT ![s].handle = nextHandle]
    IN  /\ pc = "launch"
        /\ launch.stage = "admitted"
        /\ ~ControllerClosed
        /\ ~OwnerClosed(parent)
        /\ nextHandle' = NextHandle(nextHandle)
        /\ launch' = NoLaunch
        /\ IF parent = 0
           THEN /\ workers' = started
                /\ pc' = "idle"
                /\ reply' = Answer("launch", nextHandle, TRUE)
                /\ UNCHANGED wait
           ELSE /\ workers' = Answering(started, wait.idx, "pending")
                /\ pc' = "wait"
                /\ wait' = ServeNext
                /\ UNCHANGED reply
        /\ UNCHANGED <<proc, control>>

\* Every error path of launch_worker: startup deadline, failure marker, wrong
\* image, controller or owner closed.  The starting worker is stopped.
LaunchFailWhileHeard ==
    /\ pc = "launch"
    /\ ~ControllerClosed
    /\ launch' = NoLaunch
    /\ workers[launch.slot].parent = 0
    /\ StopWorkers({launch.slot})
    /\ pc' = "idle"
    /\ reply' = Answer("launch", 0, FALSE)
    /\ UNCHANGED <<wait, nextHandle, control>>
LaunchFail ==
    LET s == launch.slot
        parent == workers[s].parent
    IN  /\ pc = "launch"
        /\ launch' = NoLaunch
        /\ IF parent = 0
           THEN /\ StopWorkers({s})
                /\ pc' = "idle"
                /\ reply' = Answer("launch", 0, FALSE)
                /\ UNCHANGED wait
           ELSE /\ StopAndReply({s}, wait.idx)
                /\ pc' = "wait"
                /\ wait' = ServeNext
                /\ UNCHANGED reply
        /\ UNCHANGED <<nextHandle, control>>

-----------------------------------------------------------------------------
(* wait_bounded.                                                           *)

\* exec_timestamp() > deadline.
DeadlineIgnored == FALSE
DeadlinePassed == wait.late

WaitReturns(ok) ==
    /\ pc' = "outcome"
    /\ wait' = [wait EXCEPT !.ok = ok]

\* Top of the loop: deadline, then the controller, then one service pass.
WaitCheck ==
    /\ pc = "wait"
    /\ wait.at = "check"
    /\ \/ /\ DeadlinePassed
          /\ WaitReturns(FALSE)
          /\ UNCHANGED <<workers, proc>>
       \/ /\ ~DeadlinePassed
          /\ ControllerClosed
          /\ StopAll
          /\ pc' = "exited"
          /\ UNCHANGED wait
       \/ /\ ~DeadlinePassed
          /\ ~ControllerClosed
          /\ wait' = [wait EXCEPT !.at = "reap", !.idx = 1]
          /\ UNCHANGED <<workers, proc, pc>>
    /\ UNCHANGED <<launch, nextHandle, control, reply>>

\* service_workers on one record: waitpid first; the end of a worker stops
\* its logical children.
ServiceReap ==
    LET s == wait.idx
        w == workers[s]
        D == Stopped(workers, Children(workers, w.handle))
    IN  /\ pc = "wait"
        /\ wait.at = "reap"
        /\ \/ /\ ~w.active \/ w.reaped
              /\ wait' = ServeNext
              /\ UNCHANGED <<workers, proc>>
           \/ /\ w.active /\ ~w.reaped
              /\ proc[w.pid] = "live"
              /\ wait' = [wait EXCEPT !.at = "rpc"]
              /\ UNCHANGED <<workers, proc>>
           \/ /\ w.active /\ ~w.reaped
              /\ proc[w.pid] = "zombie"
              /\ workers' = MarkReaped(Cleared(workers, D), s)
              /\ proc' = Freed(proc, Signalled(workers, D) \cup {w.pid})
              /\ wait' = ServeNext
        /\ UNCHANGED <<pc, launch, nextHandle, control, reply>>

\* The code after the service pass: deadline, the reaped record, waitpid.
\* waitpid here reaps the process without setting the record's flag.
WaitObserve ==
    LET observed == {s \in Slots : workers[s].active /\ workers[s].pid = wait.pid}
        reaped == \E s \in observed : workers[s].reaped
    IN  /\ pc = "wait"
        /\ wait.at = "observe"
        /\ \/ /\ DeadlinePassed
              /\ WaitReturns(FALSE)
              /\ UNCHANGED proc
           \/ /\ ~DeadlinePassed /\ reaped
              /\ WaitReturns(TRUE)
              /\ UNCHANGED proc
           \/ /\ ~DeadlinePassed /\ ~reaped
              /\ proc[wait.pid] = "zombie"
              /\ proc' = [proc EXCEPT ![wait.pid] = "free"]
              /\ WaitReturns(TRUE)
           \/ /\ ~DeadlinePassed /\ ~reaped
              /\ proc[wait.pid] \in {"free", "foreign"}
              /\ WaitReturns(FALSE)
              /\ UNCHANGED proc
           \/ /\ ~DeadlinePassed /\ ~reaped
              /\ proc[wait.pid] = "live"
              /\ wait' = [wait EXCEPT !.at = "check"]
              /\ UNCHANGED <<proc, pc>>
        /\ UNCHANGED <<workers, launch, nextHandle, control, reply>>

\* main after wait_bounded: success, and the streams are within budget.
WaitRetire ==
    /\ pc = "outcome"
    /\ wait.ok
    /\ RetireWorker(wait.slot)
    /\ reply' = Answer("wait", wait.handle, TRUE)
    /\ pc' = "idle"
    /\ wait' = NoWait
    /\ UNCHANGED <<launch, nextHandle, control>>

\* Any failure, or streams that are missing, replaced or over budget: the
\* record main looked up before the wait is stopped.
WaitStopRepliesOnly ==
    /\ pc = "outcome"
    /\ reply' = Answer("wait", wait.handle, FALSE)
    /\ pc' = "idle"
    /\ wait' = NoWait
    /\ UNCHANGED <<workers, proc, launch, nextHandle, control>>
WaitStop ==
    /\ pc = "outcome"
    /\ StopWorkers({wait.slot})
    /\ reply' = Answer("wait", wait.handle, FALSE)
    /\ pc' = "idle"
    /\ wait' = NoWait
    /\ UNCHANGED <<launch, nextHandle, control>>

-----------------------------------------------------------------------------
(* service_workers and worker_operation: one record's pipe.                *)

Serving == pc = "wait" /\ wait.at = "rpc"
Owner == workers[wait.idx]
PipeBroken == Owner.hup \/ proc[Owner.pid] # "live"

\* The pending reply is written, or the pipe is full.
FlushReply ==
    /\ Serving
    /\ Owner.answer = "pending"
    /\ \E a \in {"none", "pending"} : workers' = Answering(workers, wait.idx, a)
    /\ wait' = ServeNext
    /\ UNCHANGED <<proc, pc, launch, nextHandle, control, reply>>

\* No complete request has arrived.
NoRequest ==
    /\ Serving
    /\ Owner.answer = "none"
    /\ wait' = ServeNext
    /\ UNCHANGED <<workers, proc, pc, launch, nextHandle, control, reply>>

\* EOF on the request pipe stops the logical children only.
RequestEof ==
    /\ Serving
    /\ Owner.answer = "none"
    /\ PipeBroken
    /\ StopWorkers(Children(workers, Owner.handle))
    /\ wait' = ServeNext
    /\ UNCHANGED <<pc, launch, nextHandle, control, reply>>

\* A frame that fails validation, a failed read, or a failed reply write: a
\* worker may close its end of the reply pipe at any time.
ServiceStop ==
    /\ Serving
    /\ StopWorkers({wait.idx})
    /\ wait' = ServeNext
    /\ UNCHANGED <<pc, launch, nextHandle, control, reply>>

\* Opcode 1 that reaches launch_worker.
ChildLaunch ==
    /\ Serving
    /\ Owner.answer = "none"
    /\ \E s \in FreeWorker(workers), p \in Pids :
           Spawn(s, p, Owner.handle, workers)
    /\ UNCHANGED <<wait, nextHandle, control, reply>>

\* Requests that only produce a reply: a refused launch, an unknown or foreign
\* handle, POLL, WRITE_STDIN, CLOSE_STDIN, reads within budget, RELEASE of a
\* running child.
ReplyOnly ==
    /\ Serving
    /\ Owner.answer = "none"
    /\ workers' = Answering(workers, wait.idx, "pending")
    /\ wait' = ServeNext
    /\ UNCHANGED <<proc, pc, launch, nextHandle, control, reply>>

\* find_worker(request->handle) and child->parent == owner->handle.
OwnedChild(h) ==
    {s \in FindWorker(workers, h) : workers[s].parent = Owner.handle}

\* SIGNAL: SIGKILL ends a child that has not been reaped.
ChildSignal(h) ==
    /\ Serving
    /\ Owner.answer = "none"
    /\ \E s \in OwnedChild(h) :
           /\ ~workers[s].reaped
           /\ proc' = [proc EXCEPT ![workers[s].pid] = "zombie"]
    /\ workers' = Answering(workers, wait.idx, "pending")
    /\ wait' = ServeNext
    /\ UNCHANGED <<pc, launch, nextHandle, control, reply>>

\* STDOUT or STDERR of a child whose streams exceed the output budget.
ChildOverBudget(h) ==
    /\ Serving
    /\ Owner.answer = "none"
    /\ OwnedChild(h) # {}
    /\ StopAndReply(OwnedChild(h), wait.idx)
    /\ wait' = ServeNext
    /\ UNCHANGED <<pc, launch, nextHandle, control, reply>>

\* RELEASE of a reaped child.
ReleasableAny(s) == TRUE
Releasable(s) == workers[s].reaped

ChildRelease(h) ==
    /\ Serving
    /\ Owner.answer = "none"
    /\ \E s \in OwnedChild(h) :
           /\ Releasable(s)
           /\ LET D == Stopped(workers, Children(workers, h))
              IN  /\ workers' = Answering(Cleared(workers, D \cup {s}), wait.idx, "pending")
                  /\ proc' = Freed(proc, Signalled(workers, D))
    /\ wait' = ServeNext
    /\ UNCHANGED <<pc, launch, nextHandle, control, reply>>

-----------------------------------------------------------------------------
(* die(): a worker survives SIGKILL for five seconds, an exception message *)
(* is not from an owned worker, an image is rejected.  What the kernel     *)
(* then does to the traced workers is outside the model.                   *)
BrokerDie ==
    /\ pc \notin {"exited", "died"}
    /\ pc' = "died"
    /\ UNCHANGED <<workers, proc, launch, wait, nextHandle, control, reply>>

\* The broker process is gone; only the rest of the world still moves.
Halted ==
    /\ pc \in {"exited", "died"}
    /\ UNCHANGED vars

Handles == 1 .. MaxHandle
Issued == {h \in Handles : h < nextHandle}

Environment ==
    \/ \E p \in Pids : WorkerExit(p)
    \/ \E s \in Slots : WorkerHangup(s)
    \/ \E p \in ReusedPids : PidReuse(p)
    \/ TakeReply
    \/ ControllerClose
    \/ WaitDeadline

\* The controller knows the handles of roots only; a child's handle goes to
\* the worker that asked for the child.
RootHandles ==
    {h \in Issued : \A s \in FindWorker(workers, h) : workers[s].parent = 0}

Requests ==
    \/ MainLaunch
    \/ MainLaunchRefused
    \/ \E h \in RootHandles : MainWait(h) \/ MainCancel(h)
    \/ \E h \in RootHandles, op \in {"wait", "cancel"} : MainUnknown(op, h)

\* The broker's own steps: they are taken without anybody's help.
BrokerStep ==
    \/ MainEof
    \/ LaunchAdvance \/ LaunchDone \/ LaunchFail
    \/ WaitCheck \/ ServiceReap \/ WaitObserve \/ WaitRetire \/ WaitStop
    \/ FlushReply \/ NoRequest \/ RequestEof \/ ServiceStop
    \/ ChildLaunch \/ ReplyOnly
    \/ \E h \in Issued : ChildSignal(h) \/ ChildOverBudget(h) \/ ChildRelease(h)

Next == Environment \/ Requests \/ BrokerStep \/ BrokerDie \/ Halted

Init ==
    /\ workers = [s \in Slots |-> Empty]
    /\ proc = [p \in Pids |-> "free"]
    /\ pc = "idle"
    /\ launch = NoLaunch
    /\ wait = NoWait
    /\ nextHandle = 1
    /\ control = "open"
    /\ reply = NoReply

Spec == Init /\ [][Next]_vars

\* The broker's thread is never suspended, and time passes.  Nothing is
\* assumed of the workers or of the controller.
Fairness == WF_vars(BrokerStep) /\ WF_vars(WaitDeadline)
FairSpec == Spec /\ Fairness

-----------------------------------------------------------------------------
(* Properties. *)

\* The table has struct worker's fields, and the slot, index and handle that
\* launch_worker and wait_bounded hold never leave the table or the counter's
\* range.
TypeOK ==
    /\ workers \in [Slots -> Worker]
    /\ proc \in [Pids -> ProcState]
    /\ pc \in {"idle", "launch", "wait", "outcome", "exited", "died"}
    /\ launch \in LaunchFrame
    /\ wait \in WaitFrame
    /\ nextHandle \in 1 .. MaxHandle + 1
    /\ control \in {"open", "closed"}
    /\ reply \in Reply

\* find_worker is a function: two active records never share a handle, so a
\* WAIT, CANCEL or child operation reaches the worker it was issued for.
UniqueHandles ==
    \A s, t \in Slots :
        /\ workers[s].active /\ workers[t].active
        /\ workers[s].handle = workers[t].handle
        => s = t

\* A logical child outlives neither its parent's record nor the reaping of its
\* parent's process: whichever way a worker goes (exit, EOF, protocol error,
\* cancel, timeout), its whole subtree goes in the same step.
ChildrenHaveParents ==
    \A s \in Slots :
        workers[s].active /\ workers[s].parent # 0
        => \E t \in Slots : /\ workers[t].active
                             /\ ~workers[t].reaped
                             /\ workers[t].handle = workers[s].parent

\* No process of the broker is ever without a record that will stop it: the
\* two places that reap (service_workers, wait_bounded) and the two that clear
\* a record (stop_worker, retire_worker) never lose one.
NoLeakedProcess ==
    \A p \in Pids :
        proc[p] \in {"live", "zombie"}
        => \E s \in Slots : /\ workers[s].active
                             /\ ~workers[s].reaped
                             /\ workers[s].pid = p

\* While requests are served every record that is not marked reaped still has
\* its process, so the waitpid of service_workers never fails with ECHILD,
\* which would kill the broker.
RecordsBacked ==
    \A s \in Slots :
        /\ workers[s].active /\ ~workers[s].reaped
        /\ pc # "outcome"
        => proc[workers[s].pid] \in {"live", "zombie"} \/ pc = "died"

\* Controller loss terminates the whole invocation: once the broker has left
\* its loop, none of its workers exists.
ExitLeavesNoWorker ==
    pc = "exited" => \A p \in Pids : proc[p] \notin {"live", "zombie"}

\* After the controller is gone the broker leaves its loop, whatever its
\* workers do and whichever request it was serving.
ControllerLossEnds == control = "closed" ~> pc \in {"exited", "died"}

\* Every WAIT comes to an end, also when the awaited worker runs for ever and
\* its children keep the broker busy.
WaitEnds == wait.handle # 0 ~> (wait.handle = 0 \/ pc \in {"exited", "died"})

-----------------------------------------------------------------------------
(* The invariant that makes the table properties inductive: what the table *)
(* looks like, and what the two frames of the broker's thread know of it.  *)

TableInv(w) ==
    /\ \A s \in Slots : ~w[s].active => w[s] = Empty
    /\ \A s, t \in Slots : /\ w[s].active /\ w[t].active
                           /\ w[s].handle = w[t].handle
                           => s = t
    /\ \A s \in Slots :
           w[s].active /\ w[s].parent # 0
           => \E t \in Slots : /\ w[t].active /\ ~w[t].reaped
                               /\ w[t].handle = w[s].parent
    /\ \A s \in Slots :
           w[s].active /\ w[s].handle # 0 => w[s].parent < w[s].handle

HandleInv(w, n) ==
    \A s \in Slots : w[s].active => w[s].handle < n /\ w[s].parent < n

\* Only the worker that is starting has handle 0.
LaunchInv ==
    /\ \A s \in Slots :
           workers[s].active /\ workers[s].handle = 0 => s = launch.slot
    /\ pc \notin {"launch", "died"} => launch.slot = 0
    /\ pc = "launch" =>
           /\ launch.slot \in Slots
           /\ workers[launch.slot].active
           /\ workers[launch.slot].handle = 0
           /\ nextHandle <= MaxHandle
           /\ workers[launch.slot].parent # 0 =>
                  /\ wait.idx \in Slots
                  /\ wait.handle # 0
                  /\ wait.slot \in Slots
                  /\ workers[wait.idx].active
                  /\ workers[wait.idx].handle = workers[launch.slot].parent

WaitInv ==
    /\ pc \in {"wait", "outcome"} => wait.slot \in Slots /\ wait.handle # 0
    /\ pc = "wait" => wait.idx \in Slots
    /\ pc = "wait" /\ wait.at = "rpc" =>
           workers[wait.idx].active /\ ~workers[wait.idx].reaped

IInv == TypeOK /\ TableInv(workers) /\ HandleInv(workers, nextHandle) /\ LaunchInv /\ WaitInv

(* With one root at a time, the invariant that ties the table to the       *)
(* kernel's processes.                                                     *)

Owned == {"live", "zombie"}

\* The pid of a record that is not marked reaped is its own: no second record
\* waits for the same process and, for the root, no record at all shares it.
PidInv ==
    /\ \A s \in Slots : workers[s].active => workers[s].pid \in Pids
    /\ \A s, t \in Slots :
           /\ workers[s].active /\ workers[t].active
           /\ workers[s].pid = workers[t].pid
           /\ ~workers[s].reaped
           /\ ~workers[t].reaped \/ workers[s].parent = 0
           => s = t

RootInv ==
    \A s, t \in Slots :
        /\ workers[s].active /\ workers[t].active
        /\ workers[s].parent = 0 /\ workers[t].parent = 0
        => s = t

\* Only wait_bounded reaps without the flag, and only the record that main
\* clears in its next step.
BackedInv ==
    pc # "died" =>
        \A s \in Slots :
            workers[s].active /\ ~workers[s].reaped
            => \/ proc[workers[s].pid] \in Owned
               \/ pc = "outcome" /\ wait.ok /\ s = wait.slot

\* The record that main looked up stays the root's, or goes with everything.
WaitPending ==
    pc \in {"wait", "outcome"} \/ (pc = "launch" /\ workers[launch.slot].parent # 0)

WaitRootInv ==
    /\ WaitPending =>
           \/ \A s \in Slots : ~workers[s].active
           \/ /\ workers[wait.slot].active
              /\ workers[wait.slot].parent = 0
              /\ workers[wait.slot].pid = wait.pid
    /\ pc = "outcome" /\ wait.ok =>
           \/ ~workers[wait.slot].active
           \/ workers[wait.slot].reaped
           \/ proc[workers[wait.slot].pid] \notin Owned

ExitInv == pc = "exited" => \A s \in Slots : ~workers[s].active

ProcInv == PidInv /\ RootInv /\ NoLeakedProcess /\ BackedInv /\ WaitRootInv /\ ExitInv
=============================================================================
