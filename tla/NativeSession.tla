---------------------------- MODULE NativeSession ----------------------------
(***************************************************************************)
(* The controller's side of a native analyzer run: the constructor of       *)
(* BinaryNativeExecutionTransport, NativeExecutionSession on top of it      *)
(* (native_execution.py), and the replay loop of                            *)
(* _execute_native_capsule_member (runner.py), which runs an analyzer again *)
(* and again, each time with the results of the tools it has asked for so   *)
(* far (native_worker.py, ReplayTransport).                                 *)
(*                                                                          *)
(* The broker at the other end of the socket is BrokerService: it answers   *)
(* late, refuses, loses its root or dies between any two steps.  Session    *)
(* and transport keep a set of handles each and drop a handle at different  *)
(* moments; the socket has no timeout; KeyboardInterrupt may end any call,  *)
(* close included, which then neither awaits nor kills the broker.          *)
(***************************************************************************)
EXTENDS BrokerService, Sequences, SequencesExt

CONSTANTS
    Tools,        \* requests an adapter may make of a tool (argv, environment)
    Results,      \* what a tool run may yield (return code and output)
    ReplayLimit   \* _NATIVE_REPLAY_LIMIT

ASSUME SessionAssumption == ReplayLimit \in Nat

VARIABLES
    pc,         \* where the controller's thread is
    active,     \* session._active
    requests,   \* keys of transport._requests
    handle,     \* the handle the thread holds, 0 before launch returned
    job,        \* the plan being run: "analyzer", or the tool request
    replies,    \* replies given to the next analyzer stage
    ran,        \* history: tool runs whose result was read
    response    \* what the member's execution returned

controllerVars == <<pc, active, requests, handle, job, replies, ran, response>>
vars == <<serviceVars, controllerVars>>

Analyzer == [kind |-> "analyzer"]
ToolJob(t) == [kind |-> "tool", request |-> t]

None == [kind |-> "none"]
Incomplete == [kind |-> "incomplete"]
Raised == [kind |-> "raised"]
Completed(b) == [kind |-> "completed", basis |-> b]

Init ==
    /\ ServiceInit
    /\ pc = "construct"
    /\ active = {} /\ requests = {} /\ handle = 0
    /\ job = Analyzer /\ replies = <<>> /\ ran = <<>>
    /\ response = None

loopVars == <<job, replies, ran>>

-----------------------------------------------------------------------------
(* The constructor: the broker stops itself, is verified and continued, or *)
(* killed.  Until then it reads nothing.                                   *)

Construct ==
    /\ pc = "construct"
    /\ up = "serving"
    /\ pc' = "idle"
    /\ UNCHANGED <<serviceVars, active, requests, handle, loopVars, response>>

\* Not stopped, a rejected image, a lease that no longer verifies.
ConstructFails ==
    /\ pc = "construct"
    /\ up' = "killed" /\ control' = "closed"
    /\ pc' = "raised"
    /\ response' \in {Incomplete, Raised}
    /\ UNCHANGED <<roots, next, busy, reply, active, requests, handle, loopVars>>

-----------------------------------------------------------------------------
(* An exception leaves the with statement, and __exit__ closes the session. *)
(* OSError, ValueError and the broker's error become an incomplete response, *)
(* RuntimeError and KeyboardInterrupt go on to the caller.                   *)

Leave(r) == pc' = "closing" /\ response' = r
LeaveEither == \E r \in {Incomplete, Raised} : Leave(r)

\* _send: the socket is at its end before or after the request was written.
\* wait drops its request in a finally clause, launch and cancel do not.
SocketEofIgnored ==
    /\ pc \in {"launching", "waiting", "cancelling"}
    /\ up # "serving" /\ reply # NoAnswer
    /\ requests' = IF pc = "waiting" THEN requests \ {handle} ELSE requests
    /\ LeaveEither
    /\ UNCHANGED <<serviceVars, active, handle, loopVars>>

SocketEof ==
    /\ pc \in {"launching", "waiting", "cancelling"}
    /\ up # "serving" /\ reply = NoAnswer
    /\ requests' = IF pc = "waiting" THEN requests \ {handle} ELSE requests
    /\ LeaveEither
    /\ UNCHANGED <<serviceVars, active, handle, loopVars>>

\* KeyboardInterrupt inside a call; the answer stays in the socket.
InterruptResumes ==
    /\ pc \in {"idle", "launching", "launched", "waiting", "cancelling"}
    /\ requests' = IF pc = "waiting" THEN requests \ {handle} ELSE requests
    /\ pc' = "idle"
    /\ UNCHANGED <<serviceVars, active, handle, loopVars, response>>

Interrupt ==
    /\ pc \in {"idle", "launching", "launched", "waiting", "cancelling"}
    /\ requests' = IF pc = "waiting" THEN requests \ {handle} ELSE requests
    /\ Leave(Raised)
    /\ UNCHANGED <<serviceVars, active, handle, loopVars>>

-----------------------------------------------------------------------------
(* session.launch, session.wait and session.cancel.                        *)

\* An operation is written to the socket and read by the broker, if there is
\* one; the thread then blocks in recv.
Sending(op, at) == (up = "serving" => op) /\ (up # "serving" => UNCHANGED serviceVars)
                   /\ pc' = at

\* stage_project or prepare fails: a file changed, a runtime is missing.
StageFails ==
    /\ pc = "idle"
    /\ Leave(Incomplete)
    /\ UNCHANGED <<serviceVars, active, requests, handle, loopVars>>

Launch ==
    /\ pc = "idle"
    /\ Sending(AcceptLaunch \/ RefuseLaunch, "launching")
    /\ UNCHANGED <<active, requests, handle, loopVars, response>>

\* Both layers record the handle; a handle they know is a protocol error.
LaunchReturns ==
    /\ pc = "launching" /\ reply.op = "launch"
    /\ TakeAnswer
    /\ IF reply.ok /\ reply.handle \notin requests \cup active
       THEN /\ requests' = requests \cup {reply.handle}
            /\ active' = active \cup {reply.handle}
            /\ handle' = reply.handle
            /\ pc' = "launched"
            /\ UNCHANGED response
       ELSE LeaveEither /\ UNCHANGED <<active, requests, handle>>
    /\ UNCHANGED loopVars

Known == handle \in active \cap requests

Wait ==
    /\ pc = "launched" /\ Known
    /\ Sending(AcceptWait(handle) \/ RefuseUnknown("wait", handle), "waiting")
    /\ UNCHANGED <<active, requests, handle, loopVars, response>>

\* No caller in the repository cancels; it is an operation of the session.
CancelJob ==
    /\ pc = "launched" /\ Known
    /\ Sending(Cancel(handle) \/ RefuseUnknown("cancel", handle), "cancelling")
    /\ UNCHANGED <<active, requests, handle, loopVars, response>>

CancelReturns ==
    /\ pc = "cancelling" /\ reply.op = "cancel"
    /\ TakeAnswer
    /\ requests' = IF reply.ok THEN requests \ {handle} ELSE requests
    /\ active' = IF reply.ok THEN active \ {handle} ELSE active
    /\ Leave(Incomplete)
    /\ UNCHANGED <<handle, loopVars>>

\* The broker's error, or streams that are missing, replaced or too large:
\* the transport has dropped the handle, the session still holds it.
WaitFails ==
    /\ pc = "waiting" /\ reply.op = "wait"
    /\ TakeAnswer
    /\ requests' = requests \ {handle}
    /\ LeaveEither
    /\ UNCHANGED <<active, handle, loopVars>>

\* An owner of the session that handles the error starts over with it; the
\* replay loop never does, the session allows it.
WaitRetried ==
    /\ pc = "waiting" /\ reply.op = "wait" /\ ~reply.ok
    /\ TakeAnswer
    /\ requests' = requests \ {handle}
    /\ handle' = 0
    /\ job' = Analyzer /\ replies' = <<>> /\ ran' = <<>>
    /\ pc' = "idle"
    /\ UNCHANGED <<active, response>>

\* What happens to both sets when a result is accepted.
WaitReturns ==
    /\ pc = "waiting" /\ reply.op = "wait" /\ reply.ok
    /\ TakeAnswer
    /\ requests' = requests \ {handle}
    /\ active' = active \ {handle}
    /\ handle' = 0

-----------------------------------------------------------------------------
(* One analyzer stage (native_worker.main).  The adapter starts from        *)
(* nothing at each stage and may ask differently than it did before: trace  *)
(* is what this run would ask for, given the replies it gets.               *)

Traces == BoundedSeq(Tools, ReplayLimit + 1)

Asked == [i \in DOMAIN replies |-> replies[i].request]

\* ReplayTransport.run: every reply taken answers exactly the request made.
ReplaysInOrder(trace, n) == n <= Len(trace)
ReplaysTo(trace, n) == n <= Len(trace) /\ SubSeq(trace, 1, n) = SubSeq(Asked, 1, n)

\* RequestPending: the replies are used up and the adapter wants one more.
Pending(trace) == ReplaysTo(trace, Len(replies)) /\ Len(trace) > Len(replies)

\* verify_complete: the adapter is done, and with the last reply.
Finished(trace) == ReplaysTo(trace, Len(replies)) /\ Len(trace) = Len(replies)

\* Exit 0 with a response: the member's evidence, which rests on what this
\* stage asked for and on the results it was given.
AnalyzerCompletes ==
    /\ job = Analyzer
    /\ WaitReturns
    /\ \E trace \in Traces :
           /\ Finished(trace)
           /\ Leave(Completed([i \in DOMAIN trace |->
                                 [request |-> trace[i], result |-> replies[i].result]]))
    /\ UNCHANGED loopVars

\* Exit 75: the controller runs the tool, unless the limit is reached.
AnalyzerAsks ==
    /\ job = Analyzer
    /\ WaitReturns
    /\ \E trace \in Traces :
           /\ Pending(trace)
           /\ IF Len(replies) >= ReplayLimit
              THEN Leave(Incomplete) /\ UNCHANGED job
              ELSE /\ job' = ToolJob(trace[Len(replies) + 1])
                   /\ pc' = "idle"
                   /\ UNCHANGED response
    /\ UNCHANGED <<replies, ran>>

\* Every other end: a reply that answers another request, replies left over,
\* a crash, a response that is missing or fails validation.
AnalyzerRejected ==
    /\ job = Analyzer
    /\ WaitReturns
    /\ Leave(Incomplete)
    /\ UNCHANGED loopVars

\* The tool's result is appended to the replies; the analyzer starts over.
ToolReturns ==
    /\ job # Analyzer
    /\ WaitReturns
    /\ \E r \in Results :
           LET entry == [request |-> job.request, result |-> r]
           IN  /\ replies' = Append(replies, entry)
               /\ ran' = Append(ran, entry)
    /\ job' = Analyzer
    /\ pc' = "idle"
    /\ UNCHANGED response

\* A return code out of range, output over the limit or not UTF-8.
ToolRejected ==
    /\ job # Analyzer
    /\ WaitReturns
    /\ Leave(Incomplete)
    /\ UNCHANGED loopVars

-----------------------------------------------------------------------------
(* session.close and transport.close.                                      *)

Close ==
    /\ pc = "closing"
    /\ active' = {} /\ requests' = {}
    /\ CloseControl
    /\ pc' = "draining"
    /\ UNCHANGED <<handle, loopVars, response>>

\* process.wait(timeout=5), and kill() when the broker takes longer; if the
\* second wait takes as long, TimeoutExpired replaces what the member returned.
DrainNot ==
    /\ pc = "draining"
    /\ pc' = "closed"
    /\ UNCHANGED <<serviceVars, active, requests, handle, loopVars, response>>

Drain ==
    /\ pc = "draining"
    /\ \/ up # "serving" /\ UNCHANGED <<up, response>>
       \/ up = "serving" /\ up' = "killed" /\ response' \in {response, Raised}
    /\ pc' = "closed"
    /\ UNCHANGED <<roots, next, busy, control, reply, active, requests, handle, loopVars>>

\* KeyboardInterrupt inside close: before the socket is closed, or in wait,
\* which catches TimeoutExpired only.  The broker is not killed, and close does
\* nothing when it is called again.
InterruptClose ==
    /\ pc \in {"closing", "draining"}
    /\ active' \in {active, {}} /\ requests' \in {requests, {}}
    /\ pc' = "abandoned" /\ response' = Raised
    /\ UNCHANGED <<serviceVars, handle, loopVars>>

\* The socket of an interrupted close goes with its last reference, or with
\* the process.
Released ==
    /\ pc = "abandoned"
    /\ CloseControl
    /\ UNCHANGED controllerVars

-----------------------------------------------------------------------------
Calls ==
    \/ Construct \/ ConstructFails
    \/ StageFails \/ Launch \/ LaunchReturns \/ Wait \/ WaitFails \/ WaitRetried \/ SocketEof
    \/ AnalyzerCompletes \/ AnalyzerAsks \/ AnalyzerRejected
    \/ ToolReturns \/ ToolRejected
    \/ CancelReturns \/ Close \/ Drain \/ Released

Broker ==
    /\ pc # "construct"
    /\ ServiceStep \/ ChildHandle \/ RootStopped \/ Die
    /\ UNCHANGED controllerVars

Done ==
    /\ pc \in {"closed", "raised", "abandoned"}
    /\ UNCHANGED vars

Next == Calls \/ CancelJob \/ Interrupt \/ InterruptClose \/ Broker \/ Done

Spec == Init /\ [][Next]_vars

\* The broker answers (AnswersRequests), and the thread takes its next step
\* when it can; an open socket does not outlive the process.
FairSpec ==
    Spec /\ WF_vars(Calls) /\ WF_vars(pc # "construct" /\ ServiceStep /\ UNCHANGED controllerVars)

-----------------------------------------------------------------------------
\* No root runs that the owner of the session cannot stop: while the session is
\* open and the broker serves, session and transport both know every root, but
\* for the one whose launch is not yet read.  The transport forgets a handle
\* whose WAIT failed; the broker has stopped that root.
NoForgottenRoot ==
    up = "serving" /\ pc \notin {"closing", "draining", "closed", "raised", "abandoned"}
    => roots \subseteq (active \cap requests) \cup {reply.handle}

\* Answers stay in step: a reply in the socket answers the call that the thread
\* is in, so a late answer to an interrupted call is never taken for another's.
AnswersInStep ==
    control = "open" /\ reply # NoAnswer /\ pc \notin {"closing", "abandoned"}
    => /\ pc = [launch |-> "launching", wait |-> "waiting", cancel |-> "cancelling"][reply.op]
       /\ reply.op # "launch" => reply.handle = handle

\* When close has run to its end its broker is gone, whatever the broker was
\* doing and however long it takes; roots may only be left over from a broker
\* that died or was killed because it took too long to stop them.  A close that
\* was interrupted gives no such promise: see CallsReturn.
CloseEndsBroker ==
    pc \in {"closed", "raised"} =>
        /\ up # "serving"
        /\ roots # {} => up \in {"died", "killed"}

\* A completed response rests on the tool runs of this very session, all of
\* them and in the order in which they were run: nothing was skipped, repeated,
\* reordered or taken from a stage whose adapter asked for something else; and
\* the controller never runs more tools than one analyzer stage may replay.
ResponseIsBacked ==
    /\ response.kind = "completed" => response.basis = ran
    /\ Len(replies) <= ReplayLimit

\* Every call returns although the socket has no timeout: a WAIT without end,
\* a broker that dies before, during or after its answer, a close whose broker
\* does not exit.  And a broker that an interrupted close left serving ends by
\* itself, at the end of file on its socket.
InCall == pc \in {"launching", "waiting", "cancelling", "closing", "draining"}
CallsReturn ==
    /\ InCall ~> ~InCall
    /\ pc = "abandoned" ~> up # "serving"
-----------------------------------------------------------------------------
(* The inductive invariant behind those properties: what the service and    *)
(* both sets of handles look like at each place of the controller's thread. *)

Open == {"construct", "idle", "launching", "launched", "waiting", "cancelling", "closing"}

ControlInv ==
    /\ pc \in Open \cup {"draining", "closed", "raised", "abandoned"}
    /\ control \in {"open", "closed"}
    /\ pc # "abandoned" => control = IF pc \in Open THEN "open" ELSE "closed"
    /\ up \in {"serving", "exited", "died", "killed"}
    /\ handle \in Nat /\ next \in Nat \ {0} /\ 0 \notin roots
    /\ pc \in {"closed", "raised"} => up # "serving"
    /\ up = "exited" => roots = {}

\* Nothing is under way: no request is being served, no answer is unread.
Quiet == busy = Idle /\ reply = NoAnswer

\* The request the thread is in is being served, answered or lost.
Underway(op, h) ==
    \/ busy = [op |-> op, handle |-> h] /\ reply = NoAnswer
    \/ busy = Idle /\ reply \in [op : {op}, handle : Nat, ok : BOOLEAN]
    \/ Quiet /\ up # "serving"

Settled == reply = NoAnswer \/ (reply.handle = handle /\ handle \notin roots)

CallInv ==
    /\ pc = "construct" => Quiet /\ roots = {}
    /\ pc \in {"idle", "launched"} => Quiet
    /\ pc = "launching" => Underway("launch", 0)
    /\ pc = "waiting" => Underway("wait", handle) /\ Settled
    /\ pc = "cancelling" => Underway("cancel", handle) /\ busy = Idle /\ Settled

LoopInv ==
    /\ job = Analyzer \/ job \in {ToolJob(t) : t \in Tools}
    /\ replies \in Seq([request : Tools, result : Results])
    /\ ran = replies
    /\ Len(replies) <= ReplayLimit
    /\ job # Analyzer => Len(replies) < ReplayLimit

ResponseInv ==
    response.kind = "completed" => response.basis = ran /\ pc \in {"closing", "draining", "closed"}

SessionInv == ControlInv /\ CallInv /\ LoopInv /\ ResponseInv /\ NoForgottenRoot
=============================================================================
