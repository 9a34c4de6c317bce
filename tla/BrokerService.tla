--------------------------- MODULE BrokerService ---------------------------
(***************************************************************************)
(* What the native broker promises to the controller at the other end of   *)
(* its private socket: one request at a time, each answered; a root that    *)
(* was answered by WAIT or CANCEL, with success or not, does not run any    *)
(* more; a handle is never issued twice; end of file ends every root.       *)
(* Worker records, processes, deadlines and logical children are hidden:    *)
(* children show only in the handles they use up.                           *)
(***************************************************************************)
EXTENDS Naturals

CONSTANT MaxHandle      \* bound: handles this behaviour may issue

VARIABLES
    up,         \* "serving", or how the broker ended
    roots,      \* handles of the roots that may still run
    next,       \* next_handle
    busy,       \* the request being served
    control,    \* the controller's end of the socket
    reply       \* an answer the controller has not read

serviceVars == <<up, roots, next, busy, control, reply>>

Idle == [op |-> "none", handle |-> 0]
NoAnswer == [op |-> "none", handle |-> 0, ok |-> FALSE]
Answered(op, h, ok) == reply' = [op |-> op, handle |-> h, ok |-> ok]

ServiceInit ==
    /\ up = "serving"
    /\ roots = {}
    /\ next = 1
    /\ busy = Idle
    /\ control = "open"
    /\ reply = NoAnswer

\* The broker reads a request.
Accepting == up = "serving" /\ busy = Idle /\ control = "open" /\ reply = NoAnswer

AcceptLaunch ==
    /\ Accepting
    /\ busy' = [op |-> "launch", handle |-> 0]
    /\ UNCHANGED <<up, roots, next, control, reply>>

RefuseLaunch ==
    /\ Accepting
    /\ Answered("launch", 0, FALSE)
    /\ UNCHANGED <<up, roots, next, busy, control>>

AcceptWait(h) ==
    /\ Accepting
    /\ h \in roots
    /\ busy' = [op |-> "wait", handle |-> h]
    /\ UNCHANGED <<up, roots, next, control, reply>>

Cancel(h) ==
    /\ Accepting
    /\ h \in roots
    /\ roots' = roots \ {h}
    /\ Answered("cancel", h, TRUE)
    /\ UNCHANGED <<up, next, busy, control>>

RefuseUnknown(op, h) ==
    /\ Accepting
    /\ h \in (1 .. next - 1) \ roots
    /\ Answered(op, h, FALSE)
    /\ UNCHANGED <<up, roots, next, busy, control>>

\* A launch ends: with a fresh handle while the controller is there, or not.
Launched ==
    /\ up = "serving" /\ busy.op = "launch" /\ control = "open"
    /\ next <= MaxHandle
    /\ roots' = roots \cup {next}
    /\ next' = next + 1
    /\ busy' = Idle
    /\ Answered("launch", next, TRUE)
    /\ UNCHANGED <<up, control>>

LaunchFailed ==
    /\ up = "serving" /\ busy.op = "launch"
    /\ busy' = Idle
    /\ Answered("launch", 0, FALSE)
    /\ UNCHANGED <<up, roots, next, control>>

\* While it waits the broker issues handles to logical children, and stops a
\* root that breaks the worker protocol.
ChildHandle ==
    /\ up = "serving" /\ busy.op = "wait"
    /\ next <= MaxHandle
    /\ next' = next + 1
    /\ UNCHANGED <<up, roots, busy, control, reply>>

RootStopped ==
    /\ up = "serving" /\ busy.op = "wait"
    /\ roots' = roots \ {busy.handle}
    /\ UNCHANGED <<up, next, busy, control, reply>>

\* A WAIT ends: the root was retired, or it is stopped.
WaitAnsweredOnly(ok) ==
    /\ up = "serving" /\ busy.op = "wait"
    /\ roots' = IF ok THEN roots \ {busy.handle} ELSE roots
    /\ busy' = Idle
    /\ Answered("wait", busy.handle, ok)
    /\ UNCHANGED <<up, next, control>>

WaitAnswered(ok) ==
    /\ up = "serving" /\ busy.op = "wait"
    /\ roots' = roots \ {busy.handle}
    /\ busy' = Idle
    /\ Answered("wait", busy.handle, ok)
    /\ UNCHANGED <<up, next, control>>

\* End of file on the socket: every root is stopped, the broker exits.
Exit ==
    /\ up = "serving" /\ control = "closed" /\ busy.op # "launch"
    /\ up' = "exited"
    /\ roots' = {}
    /\ busy' = Idle
    /\ UNCHANGED <<next, control, reply>>

\* die(): nothing is promised of the roots that were running.
Die ==
    /\ up = "serving"
    /\ up' = "died"
    /\ busy' = Idle
    /\ UNCHANGED <<roots, next, control, reply>>

\* The controller.
TakeAnswer ==
    /\ control = "open"
    /\ reply # NoAnswer
    /\ reply' = NoAnswer
    /\ UNCHANGED <<up, roots, next, busy, control>>

CloseControl ==
    /\ control = "open"
    /\ control' = "closed"
    /\ UNCHANGED <<up, roots, next, busy, reply>>

\* The steps the broker takes on its own and cannot put off for ever.
ServiceStep == Launched \/ LaunchFailed \/ (\E ok \in BOOLEAN : WaitAnswered(ok)) \/ Exit

ServiceNext ==
    \/ AcceptLaunch \/ RefuseLaunch
    \/ \E h \in roots : AcceptWait(h) \/ Cancel(h)
    \/ \E op \in {"wait", "cancel"}, h \in 1 .. MaxHandle : RefuseUnknown(op, h)
    \/ ServiceStep \/ ChildHandle \/ RootStopped \/ Die
    \/ TakeAnswer \/ CloseControl

ServiceSpec == ServiceInit /\ [][ServiceNext]_serviceVars
FairServiceSpec == ServiceSpec /\ WF_serviceVars(ServiceStep)
=============================================================================
