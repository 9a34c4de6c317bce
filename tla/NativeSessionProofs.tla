------------------------ MODULE NativeSessionProofs ------------------------
(***************************************************************************)
(* For every number of handles, every set of tools and results and every   *)
(* replay limit: the session never loses sight of a root, an answer in the *)
(* socket belongs to the call that reads it, a close that ran to its end   *)
(* leaves no broker, and a completed response rests on the tool runs of    *)
(* the session.                                                            *)
(*                                                                         *)
(* SessionInv says, for every place of the controller's thread, what the   *)
(* service and the sets of handles look like there.  Its parts are proved  *)
(* separately: the socket and the broker's end (ControlInv), the call under *)
(* way (CallInv), the handles (NoForgottenRoot), and the replay loop       *)
(* (LoopInv, ResponseInv).                                                 *)
(***************************************************************************)
EXTENDS NativeSession, TLAPS

-----------------------------------------------------------------------------
(* The loop: traces and replies.                                           *)

\* A trace is a sequence of tool requests.
LEMMA TraceIsSequence ==
    ASSUME NEW trace \in Traces
    PROVE  trace \in Seq(Tools)
  BY SessionAssumption DEF Traces, BoundedSeq, SeqOf

Entries == [request : Tools, result : Results]

\* The stage that finished with the last reply asked for exactly what was run.
LEMMA FinishedUsesAll ==
    ASSUME replies \in Seq(Entries), NEW trace \in Traces, Finished(trace)
    PROVE  [i \in DOMAIN trace |-> [request |-> trace[i], result |-> replies[i].result]] = replies
  <1>1. trace \in Seq(Tools) /\ Len(trace) = Len(replies) /\ Len(replies) \in Nat
    BY TraceIsSequence DEF Finished
  <1>2. DOMAIN trace = DOMAIN replies /\ DOMAIN replies = 1 .. Len(replies)
    BY <1>1
  <1>3. \A i \in DOMAIN replies : replies[i] \in Entries
    BY <1>2
  <1>4. Asked \in [1 .. Len(replies) -> Tools]
    BY <1>2, <1>3 DEF Asked, Entries
  <1>5. Asked \in Seq(Tools) /\ Len(Asked) = Len(replies)
    <2> HIDE DEF Asked
    <2> QED
      BY <1>1, <1>4
  <1>6. ASSUME NEW i \in DOMAIN replies PROVE trace[i] = replies[i].request
    <2>1. SubSeq(trace, 1, Len(replies))[i] = SubSeq(Asked, 1, Len(replies))[i]
      BY DEF Finished, ReplaysTo
    <2>2. Asked[i] = replies[i].request
      BY DEF Asked
    <2>3. SubSeq(trace, 1, Len(replies))[i] = trace[i]
      BY <1>1, <1>2
    <2>4. SubSeq(Asked, 1, Len(replies))[i] = Asked[i]
      <3> HIDE DEF Asked
      <3> QED
        BY <1>1, <1>2, <1>5
    <2> QED
      BY <2>1, <2>2, <2>3, <2>4
  <1>7. ASSUME NEW i \in DOMAIN replies
        PROVE  [request |-> trace[i], result |-> replies[i].result] = replies[i]
    <2>1. replies[i] \in Entries
      BY <1>3
    <2> QED
      BY <1>6, <2>1 DEF Entries
  <1>8. replies = [i \in DOMAIN replies |-> replies[i]]
    OBVIOUS
  <1> QED
    BY <1>2, <1>7, <1>8

\* The request that a pending stage makes is a tool request.
LEMMA PendingIsTool ==
    ASSUME NEW S, replies \in Seq(S), NEW trace \in Traces, Pending(trace)
    PROVE  trace[Len(replies) + 1] \in Tools
  <1>1. trace \in Seq(Tools) /\ Len(trace) > Len(replies)
    BY TraceIsSequence DEF Pending
  <1>2. Len(replies) + 1 \in 1 .. Len(trace)
    BY <1>1
  <1> QED
    BY <1>1, <1>2

\* Everything the replay loop remembers, and the response, over one step.
LEMMA LoopStep ==
    ASSUME ControlInv, LoopInv, ResponseInv, [Next]_vars
    PROVE  LoopInv' /\ ResponseInv'
  <1> USE DEF LoopInv
  <1> SUFFICES ASSUME Next PROVE LoopInv' /\ ResponseInv'
    BY DEF vars, controllerVars, ResponseInv
  <1>0. replies \in Seq(Entries)
    BY DEF Entries
  <1>1. CASE UNCHANGED <<loopVars, response>>
             /\ (pc' = pc \/ pc \notin {"closing", "draining", "closed"}
                 \/ pc' \in {"closing", "draining", "closed"})
    BY <1>1 DEF loopVars, ResponseInv
  <1>2. CASE UNCHANGED loopVars /\ LeaveEither
    BY <1>2 DEF loopVars, ResponseInv, LeaveEither, Leave, Incomplete, Raised
  <1>3. CASE UNCHANGED loopVars /\ Leave(Incomplete)
    BY <1>3 DEF loopVars, ResponseInv, Leave, Incomplete
  <1>4. CASE Interrupt \/ InterruptClose
    BY <1>4 DEF loopVars, ResponseInv, Interrupt, InterruptClose, Leave, Raised
  <1>5. CASE ConstructFails
    BY <1>5 DEF loopVars, ResponseInv, ConstructFails, Incomplete, Raised
  <1>6. CASE LaunchReturns
    BY <1>1, <1>2, <1>6 DEF LaunchReturns
  <1>7. CASE WaitRetried
    <2>1. replies' = <<>> /\ ran' = <<>> /\ job' = Analyzer /\ UNCHANGED response
          /\ pc = "waiting"
      BY <1>7 DEF WaitRetried
    <2> QED
      BY <2>1, SessionAssumption DEF ResponseInv
  <1>8. CASE AnalyzerCompletes
    <2>1. PICK trace \in Traces :
             /\ Finished(trace)
             /\ Leave(Completed([i \in DOMAIN trace |->
                                   [request |-> trace[i], result |-> replies[i].result]]))
      BY <1>8 DEF AnalyzerCompletes
    <2>2. Leave(Completed(replies))
      BY <2>1, <1>0, FinishedUsesAll
    <2>3. UNCHANGED loopVars
      BY <1>8 DEF AnalyzerCompletes
    <2> QED
      BY <2>2, <2>3 DEF Leave, Completed, loopVars, ResponseInv
  <1>9. CASE AnalyzerAsks
    <2>1. PICK trace \in Traces :
             /\ Pending(trace)
             /\ IF Len(replies) >= ReplayLimit
                THEN Leave(Incomplete) /\ UNCHANGED job
                ELSE /\ job' = ToolJob(trace[Len(replies) + 1])
                     /\ pc' = "idle"
                     /\ UNCHANGED response
      BY <1>9 DEF AnalyzerAsks
    <2>2. UNCHANGED <<replies, ran>> /\ pc = "waiting"
      BY <1>9 DEF AnalyzerAsks, WaitReturns
    <2>3. trace[Len(replies) + 1] \in Tools
      BY <2>1, <1>0, PendingIsTool
    <2>4. CASE Len(replies) >= ReplayLimit
      BY <2>1, <2>2, <2>4, <1>3 DEF loopVars
    <2>5. CASE ~(Len(replies) >= ReplayLimit)
      BY <2>1, <2>2, <2>3, <2>5, SessionAssumption DEF ResponseInv
    <2> QED
      BY <2>4, <2>5
  <1>10. CASE ToolReturns
    <2>1. PICK r \in Results :
             /\ replies' = Append(replies, [request |-> job.request, result |-> r])
             /\ ran' = Append(ran, [request |-> job.request, result |-> r])
      BY <1>10 DEF ToolReturns
    <2>2. job # Analyzer /\ job' = Analyzer /\ UNCHANGED response /\ pc = "waiting"
      BY <1>10 DEF ToolReturns, WaitReturns
    <2>3. [request |-> job.request, result |-> r] \in Entries
      BY <2>2 DEF ToolJob, Entries
    <2>4. replies' \in Seq(Entries) /\ Len(replies') = Len(replies) + 1
      BY <2>1, <2>3, <1>0
    <2> QED
      BY <2>1, <2>2, <2>4, <1>0, SessionAssumption DEF ResponseInv, Entries
  <1>11. CASE Construct \/ Launch \/ Wait \/ CancelJob \/ Broker \/ Close \/ Released \/ Done
    BY <1>1, <1>11
    DEF Construct, Launch, Wait, CancelJob, Broker, Close, Released, Done, Sending, vars,
        controllerVars, loopVars
  <1>12. CASE StageFails \/ AnalyzerRejected \/ ToolRejected \/ CancelReturns
    BY <1>3, <1>12 DEF StageFails, AnalyzerRejected, ToolRejected, CancelReturns
  <1>13. CASE WaitFails \/ SocketEof
    BY <1>2, <1>13 DEF WaitFails, SocketEof
  <1>14. CASE Drain
    BY <1>14 DEF Drain, Raised, loopVars, ResponseInv
  <1> QED
    BY <1>4, <1>5, <1>6, <1>7, <1>8, <1>9, <1>10, <1>11, <1>12, <1>13, <1>14 DEF Next, Calls

-----------------------------------------------------------------------------
(* The call under way, and the handles.                                    *)

\* A result that was accepted: both layers drop the handle, no call is left.
LEMMA ReturnsQuiet ==
    ASSUME CallInv, WaitReturns
    PROVE  Quiet' /\ UNCHANGED <<up, roots, next, control>>
           /\ requests' = requests \ {handle} /\ active' = active \ {handle}
           /\ pc = "waiting" /\ handle \notin roots /\ reply.handle = handle
  <1>1. pc = "waiting" /\ reply # NoAnswer /\ reply' = NoAnswer /\ busy' = busy
    BY DEF WaitReturns, TakeAnswer
  <1>2. busy = Idle /\ reply.handle = handle /\ handle \notin roots
    BY <1>1 DEF CallInv, Underway, Settled, Quiet
  <1> QED
    BY <1>1, <1>2 DEF WaitReturns, TakeAnswer, Quiet

\* How the thread leaves a WAIT whose result was accepted.
Accepts == AnalyzerCompletes \/ AnalyzerAsks \/ AnalyzerRejected \/ ToolReturns \/ ToolRejected

LEMMA AcceptsReturns ==
    ASSUME Accepts
    PROVE  WaitReturns /\ pc' \in {"idle", "closing"}
  <1>1. CASE AnalyzerCompletes
    BY <1>1 DEF AnalyzerCompletes, Leave
  <1>2. CASE AnalyzerAsks
    BY <1>2 DEF AnalyzerAsks, Leave
  <1>3. CASE AnalyzerRejected \/ ToolReturns \/ ToolRejected
    BY <1>3 DEF AnalyzerRejected, ToolReturns, ToolRejected, Leave
  <1> QED
    BY <1>1, <1>2, <1>3 DEF Accepts

\* The socket and how the broker ended, over one step.
LEMMA ControlStep ==
    ASSUME ControlInv, CallInv, [Next]_vars
    PROVE  ControlInv'
  <1> USE DEF ControlInv, Open
  <1> SUFFICES ASSUME Next PROVE ControlInv'
    BY DEF vars, serviceVars, controllerVars
  <1>1. CASE Construct
    BY <1>1 DEF Construct, serviceVars
  <1>2. CASE ConstructFails
    BY <1>2 DEF ConstructFails
  <1>3. CASE StageFails \/ SocketEof \/ Interrupt
    BY <1>3 DEF StageFails, SocketEof, Interrupt, LeaveEither, Leave, serviceVars
  <1>4. CASE Launch
    BY <1>4 DEF Launch, Sending, AcceptLaunch, RefuseLaunch, serviceVars
  <1>5. CASE LaunchReturns
    <2>1. reply.handle \in Nat
      BY <1>5 DEF LaunchReturns, TakeAnswer, CallInv, Underway, Quiet
    <2> QED
      BY <1>5, <2>1 DEF LaunchReturns, TakeAnswer, LeaveEither, Leave
  <1>6. CASE Wait
    BY <1>6 DEF Wait, Sending, AcceptWait, RefuseUnknown, serviceVars
  <1>7. CASE CancelJob
    <2>1. roots = {} => roots' = {}
      BY <1>7 DEF CancelJob, Sending, Cancel, RefuseUnknown, serviceVars
    <2> QED
      BY <1>7, <2>1 DEF CancelJob, Sending, Cancel, RefuseUnknown, serviceVars
  <1>8. CASE CancelReturns \/ WaitFails \/ WaitRetried
    BY <1>8 DEF CancelReturns, WaitFails, WaitRetried, TakeAnswer, LeaveEither, Leave
  <1>9. CASE Accepts
    BY <1>9, AcceptsReturns, ReturnsQuiet DEF WaitReturns
  <1>10. CASE Close
    BY <1>10 DEF Close, CloseControl
  <1>11. CASE Drain \/ InterruptClose \/ Released
    BY <1>11 DEF Drain, InterruptClose, Released, CloseControl, serviceVars, controllerVars
  <1>12. CASE Broker
    <2>1. UNCHANGED <<pc, handle>> /\ up = "serving"
      BY <1>12 DEF Broker, ServiceStep, Launched, LaunchFailed, WaitAnswered, Exit, ChildHandle,
                   RootStopped, Die, controllerVars
    <2>2. CASE Launched
      BY <2>1, <2>2 DEF Launched
    <2>3. CASE Exit \/ Die
      BY <2>1, <2>3 DEF Exit, Die
    <2>4. ASSUME NEW ok \in BOOLEAN, WaitAnswered(ok) PROVE ControlInv'
      BY <2>1, <2>4 DEF WaitAnswered
    <2>5. CASE LaunchFailed
      BY <2>1, <2>5 DEF LaunchFailed
    <2>6. CASE ChildHandle
      BY <2>1, <2>6 DEF ChildHandle
    <2>7. CASE RootStopped
      BY <2>1, <2>7 DEF RootStopped
    <2> QED
      BY <1>12, <2>2, <2>3, <2>4, <2>5, <2>6, <2>7 DEF Broker, ServiceStep
  <1>13. CASE Done
    BY <1>13 DEF Done, vars, serviceVars, controllerVars
  <1> QED
    BY <1>1, <1>2, <1>3, <1>4, <1>5, <1>6, <1>7, <1>8, <1>9, <1>10, <1>11, <1>12, <1>13
    DEF Next, Calls, Accepts

\* A step of the broker alone serves the request the thread waits for.
LEMMA BrokerCall ==
    ASSUME ControlInv, CallInv, Broker
    PROVE  CallInv'
  <1> USE DEF ControlInv, Open, CallInv, Underway, Settled, Quiet, Idle, NoAnswer, Answered,
              controllerVars
  <1>1. pc # "construct" /\ UNCHANGED controllerVars
    BY DEF Broker
  <1>2. CASE Launched
    <2>1. pc \in {"launching", "closing", "draining", "closed", "raised", "abandoned"}
      BY <1>1, <1>2 DEF Launched
    <2> QED
      BY <1>1, <1>2, <2>1 DEF Launched
  <1>3. CASE LaunchFailed
    <2>1. pc \in {"launching", "closing", "draining", "closed", "raised", "abandoned"}
      BY <1>1, <1>3 DEF LaunchFailed
    <2> QED
      BY <1>1, <1>3, <2>1 DEF LaunchFailed
  <1>4. ASSUME NEW ok \in BOOLEAN, WaitAnswered(ok) PROVE CallInv'
    <2>1. pc \in {"waiting", "closing", "draining", "closed", "raised", "abandoned"}
      BY <1>1, <1>4 DEF WaitAnswered
    <2>2. pc = "waiting" => busy = [op |-> "wait", handle |-> handle]
      BY <1>4 DEF WaitAnswered
    <2>3. CASE pc = "waiting"
      BY <1>1, <1>4, <2>2, <2>3 DEF WaitAnswered
    <2> QED
      BY <1>1, <2>1, <2>3
  <1>5. CASE Exit
    <2>1. pc \in {"draining", "closed", "raised", "abandoned"}
      BY <1>5 DEF Exit
    <2> QED
      BY <1>1, <2>1
  <1>6. CASE ChildHandle
    BY <1>1, <1>6 DEF ChildHandle
  <1>7. CASE RootStopped
    BY <1>1, <1>7 DEF RootStopped
  <1>8. CASE Die
    BY <1>1, <1>8 DEF Die
  <1> QED
    BY <1>2, <1>3, <1>4, <1>5, <1>6, <1>7, <1>8 DEF Broker, ServiceStep

LEMMA CallStep ==
    ASSUME ControlInv, CallInv, [Next]_vars
    PROVE  CallInv'
  <1> USE DEF ControlInv, Open
  <1> SUFFICES ASSUME Next PROVE CallInv'
    BY DEF vars, serviceVars, controllerVars, CallInv, Underway, Settled, Quiet
  <1>1. CASE Construct
    BY <1>1 DEF Construct, serviceVars, CallInv, Quiet
  <1>2. CASE pc' \in {"closing", "draining", "closed", "raised", "abandoned"}
    BY <1>2 DEF CallInv
  <1>3. CASE Launch
    <2>1. pc = "idle" /\ pc' = "launching" /\ Quiet
      BY <1>3 DEF Launch, Sending, CallInv
    <2>2. CASE up # "serving"
      BY <1>3, <2>1, <2>2 DEF Launch, Sending, serviceVars, CallInv, Underway, Quiet
    <2>3. CASE up = "serving" /\ AcceptLaunch
      BY <2>1, <2>3 DEF AcceptLaunch, CallInv, Underway, Quiet
    <2>4. CASE up = "serving" /\ RefuseLaunch
      BY <2>1, <2>4 DEF RefuseLaunch, Answered, CallInv, Underway, Quiet
    <2> QED
      BY <1>3, <2>2, <2>3, <2>4 DEF Launch, Sending
  <1>4. CASE LaunchReturns
    <2>1. CASE pc' = "launched"
      BY <1>4, <2>1 DEF LaunchReturns, TakeAnswer, CallInv, Underway, Quiet
    <2>2. CASE pc' = "closing"
      BY <1>2, <2>2
    <2> QED
      BY <1>4, <2>1, <2>2 DEF LaunchReturns, LeaveEither, Leave
  <1>5. CASE Wait
    <2>1. pc = "launched" /\ pc' = "waiting" /\ handle' = handle /\ Quiet
      BY <1>5 DEF Wait, Sending, CallInv
    <2>2. CASE up # "serving"
      BY <1>5, <2>1, <2>2 DEF Wait, Sending, serviceVars, CallInv, Underway, Settled, Quiet
    <2>3. CASE up = "serving" /\ AcceptWait(handle)
      BY <2>1, <2>3 DEF AcceptWait, CallInv, Underway, Settled, Quiet
    <2>4. CASE up = "serving" /\ RefuseUnknown("wait", handle)
      BY <2>1, <2>4 DEF RefuseUnknown, Answered, CallInv, Underway, Settled, Quiet
    <2> QED
      BY <1>5, <2>2, <2>3, <2>4 DEF Wait, Sending
  <1>6. CASE CancelJob
    <2>1. pc = "launched" /\ pc' = "cancelling" /\ handle' = handle /\ Quiet
      BY <1>6 DEF CancelJob, Sending, CallInv
    <2>2. CASE up # "serving"
      BY <1>6, <2>1, <2>2 DEF CancelJob, Sending, serviceVars, CallInv, Underway, Settled, Quiet
    <2>3. CASE up = "serving" /\ Cancel(handle)
      BY <2>1, <2>3 DEF Cancel, Answered, CallInv, Underway, Settled, Quiet
    <2>4. CASE up = "serving" /\ RefuseUnknown("cancel", handle)
      BY <2>1, <2>4 DEF RefuseUnknown, Answered, CallInv, Underway, Settled, Quiet
    <2> QED
      BY <1>6, <2>2, <2>3, <2>4 DEF CancelJob, Sending
  <1>7. CASE WaitRetried
    BY <1>7 DEF WaitRetried, TakeAnswer, CallInv, Underway, Quiet
  <1>8. CASE Accepts
    BY <1>8, AcceptsReturns, ReturnsQuiet DEF CallInv
  <1>9. CASE Broker
    BY <1>9, BrokerCall
  <1>10. CASE Done
    BY <1>2, <1>10 DEF Done, vars, controllerVars
  <1>11. CASE ConstructFails \/ StageFails \/ SocketEof \/ Interrupt \/ CancelReturns \/ WaitFails
              \/ Close \/ Drain \/ InterruptClose \/ Released
    BY <1>2, <1>11 DEF ConstructFails, StageFails, SocketEof, Interrupt, CancelReturns, WaitFails,
                      Close, Drain, InterruptClose, Released, LeaveEither, Leave, controllerVars
  <1> QED
    BY <1>1, <1>3, <1>4, <1>5, <1>6, <1>7, <1>8, <1>9, <1>10, <1>11 DEF Next, Calls, Accepts

\* Every root stays known to both layers, over one step.
LEMMA RootsStep ==
    ASSUME ControlInv, CallInv, NoForgottenRoot, [Next]_vars
    PROVE  NoForgottenRoot'
  <1> DEFINE Away == {"closing", "draining", "closed", "raised", "abandoned"}
  <1> SUFFICES ASSUME Next, up' = "serving", pc' \notin Away
               PROVE  roots' \subseteq (active' \cap requests') \cup {reply'.handle}
    BY DEF NoForgottenRoot, vars, serviceVars, controllerVars
  <1>1. CASE Construct
    BY <1>1 DEF Construct, serviceVars, CallInv
  <1>2. CASE Launch
    <2>1. Quiet /\ pc = "idle"
      BY <1>2 DEF Launch, CallInv
    <2>2. UNCHANGED <<up, roots, active, requests>>
      BY <1>2 DEF Launch, Sending, AcceptLaunch, RefuseLaunch, serviceVars
    <2>3. up = "serving" /\ reply'.handle = 0 /\ reply.handle = 0
      BY <1>2, <2>1, <2>2 DEF Launch, Sending, AcceptLaunch, RefuseLaunch, Answered, Quiet, NoAnswer
    <2> QED
      BY <2>1, <2>2, <2>3 DEF NoForgottenRoot
  <1>3. CASE LaunchReturns
    <2>1. /\ requests' = requests \cup {reply.handle} /\ active' = active \cup {reply.handle}
          /\ UNCHANGED <<up, roots>> /\ pc = "launching"
      BY <1>3 DEF LaunchReturns, TakeAnswer, LeaveEither, Leave
    <2> QED
      BY <2>1 DEF NoForgottenRoot
  <1>4. CASE Wait \/ CancelJob
    <2>1. pc = "launched" /\ Quiet /\ UNCHANGED <<active, requests>> /\ handle \in active \cap requests
      BY <1>4 DEF Wait, CancelJob, CallInv, Known
    <2>2. roots' \subseteq roots /\ up = "serving"
      BY <1>4 DEF Wait, CancelJob, Sending, AcceptWait, RefuseUnknown, Cancel, serviceVars
    <2>3. roots \subseteq (active \cap requests) \cup {0} /\ reply'.handle \in {0, handle}
      BY <1>4, <2>1, <2>2 DEF NoForgottenRoot, Quiet, NoAnswer, Wait, CancelJob, Sending, AcceptWait,
                             RefuseUnknown, Cancel, Answered
    <2>4. 0 \notin roots
      BY DEF ControlInv
    <2> QED
      BY <2>1, <2>2, <2>3, <2>4
  <1>5. CASE WaitRetried
    <2>1. handle \notin roots /\ reply.handle = handle /\ pc = "waiting"
      BY <1>5 DEF WaitRetried, TakeAnswer, CallInv, Settled
    <2>2. UNCHANGED <<up, roots, active>> /\ requests' = requests \ {handle}
      BY <1>5 DEF WaitRetried, TakeAnswer
    <2> QED
      BY <2>1, <2>2 DEF NoForgottenRoot
  <1>6. CASE Accepts
    <2>1. WaitReturns
      BY <1>6, AcceptsReturns
    <2>2. /\ UNCHANGED <<up, roots>> /\ pc = "waiting" /\ handle \notin roots
          /\ reply.handle = handle
          /\ requests' = requests \ {handle} /\ active' = active \ {handle}
      BY <2>1, ReturnsQuiet
    <2> QED
      BY <2>2 DEF NoForgottenRoot
  <1>7. CASE Broker
    <2>1. UNCHANGED <<pc, active, requests, handle>> /\ pc # "construct"
      BY <1>7 DEF Broker, controllerVars
    <2>2. pc \in {"idle", "launched", "launching", "waiting", "cancelling"} /\ control = "open"
      BY <2>1 DEF ControlInv, Open
    <2>3. up = "serving" /\ 0 \notin roots
      BY <1>7 DEF ControlInv, Broker, ServiceStep, Launched, LaunchFailed, WaitAnswered, Exit, ChildHandle,
                  RootStopped, Die
    <2>4. CASE Launched
      <3>1. reply.handle = 0
        BY <2>2, <2>4 DEF Launched, CallInv, Underway, Quiet, NoAnswer, Idle
      <3> QED
        BY <2>1, <2>2, <2>3, <2>4, <3>1 DEF Launched, NoForgottenRoot, Answered
    <2>5. CASE LaunchFailed
      BY <2>1, <2>2, <2>3, <2>5
      DEF LaunchFailed, NoForgottenRoot, Answered, CallInv, Underway, Quiet, NoAnswer, Idle
    <2>6. ASSUME NEW ok \in BOOLEAN, WaitAnswered(ok)
          PROVE  roots' \subseteq (active' \cap requests') \cup {reply'.handle}
      <3>1. reply.handle = 0
        BY <2>2, <2>6 DEF WaitAnswered, CallInv, Underway, Quiet, NoAnswer, Idle
      <3> QED
        BY <2>1, <2>2, <2>3, <2>6, <3>1 DEF WaitAnswered, NoForgottenRoot, Answered
    <2>7. CASE ChildHandle \/ RootStopped
      BY <2>1, <2>2, <2>3, <2>7 DEF ChildHandle, RootStopped, NoForgottenRoot
    <2>8. CASE Exit \/ Die
      BY <2>8 DEF Exit, Die
    <2> QED
      BY <1>7, <2>4, <2>5, <2>6, <2>7, <2>8 DEF Broker, ServiceStep
  <1>8. CASE ConstructFails \/ StageFails \/ SocketEof \/ Interrupt \/ CancelReturns \/ WaitFails
             \/ Close \/ Drain \/ InterruptClose \/ Released \/ Done
    BY <1>8 DEF ConstructFails, StageFails, SocketEof, Interrupt, CancelReturns, WaitFails,
                Close, Drain, InterruptClose, Released, Done, LeaveEither, Leave, vars, controllerVars
  <1> QED
    BY <1>1, <1>2, <1>3, <1>4, <1>5, <1>6, <1>7, <1>8 DEF Next, Calls, Accepts

-----------------------------------------------------------------------------
\* Each place of the thread, and what is true there, is kept by every step.
THEOREM SessionInvariant == Spec => []SessionInv
  <1>1. Init => SessionInv
    <2> SUFFICES ASSUME Init PROVE SessionInv
      OBVIOUS
    <2>1. ControlInv
      BY DEF Init, ServiceInit, ControlInv, Open
    <2>2. CallInv
      BY DEF Init, ServiceInit, CallInv, Quiet
    <2>3. LoopInv
      BY SessionAssumption DEF Init, LoopInv
    <2>4. ResponseInv
      BY DEF Init, ResponseInv, None
    <2>5. NoForgottenRoot
      BY DEF Init, ServiceInit, NoForgottenRoot
    <2> QED
      BY <2>1, <2>2, <2>3, <2>4, <2>5 DEF SessionInv
  <1>2. SessionInv /\ [Next]_vars => SessionInv'
    BY ControlStep, CallStep, LoopStep, RootsStep DEF SessionInv
  <1> QED
    BY <1>1, <1>2, PTL DEF Spec

\* NativeExecutionSession and its transport drop a handle at different moments,
\* and never while its root may run: the owner can always stop what it started.
THEOREM SessionNoForgottenRoot == Spec => []NoForgottenRoot
  <1>1. SessionInv => NoForgottenRoot
    BY DEF SessionInv
  <1> QED
    BY <1>1, SessionInvariant, PTL

\* An answer that BinaryNativeExecutionTransport finds in its socket is the
\* answer to the call it is in.
THEOREM SessionAnswersInStep == Spec => []AnswersInStep
  <1>1. SessionInv => AnswersInStep
    <2> SUFFICES ASSUME SessionInv, control = "open", reply # NoAnswer,
                        pc \notin {"closing", "abandoned"}
                 PROVE  /\ pc = [launch |-> "launching", wait |-> "waiting",
                                 cancel |-> "cancelling"][reply.op]
                        /\ reply.op # "launch" => reply.handle = handle
      BY DEF AnswersInStep
    <2>1. pc \in {"launching", "waiting", "cancelling"}
      BY DEF SessionInv, ControlInv, Open, CallInv, Quiet
    <2>2. CASE pc = "launching"
      BY <2>2 DEF SessionInv, CallInv, Underway, Quiet
    <2>3. CASE pc = "waiting"
      BY <2>3 DEF SessionInv, CallInv, Underway, Quiet, Settled
    <2>4. CASE pc = "cancelling"
      BY <2>4 DEF SessionInv, CallInv, Underway, Quiet, Settled
    <2> QED
      BY <2>1, <2>2, <2>3, <2>4
  <1> QED
    BY <1>1, SessionInvariant, PTL

\* transport.close, when it is not interrupted, leaves no broker behind, and a
\* broker that exited by itself leaves no root behind.
THEOREM SessionCloseEndsBroker == Spec => []CloseEndsBroker
  <1>1. SessionInv => CloseEndsBroker
    BY DEF SessionInv, ControlInv, CloseEndsBroker
  <1> QED
    BY <1>1, SessionInvariant, PTL

\* The evidence that _execute_native_capsule_member returns rests on all tool
\* runs of its session in their order, at most ReplayLimit of them.
THEOREM SessionResponseIsBacked == Spec => []ResponseIsBacked
  <1>1. SessionInv => ResponseIsBacked
    BY DEF SessionInv, LoopInv, ResponseInv, ResponseIsBacked
  <1> QED
    BY <1>1, SessionInvariant, PTL
=============================================================================
