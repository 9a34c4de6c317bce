-------------------------- MODULE BrokerRefinement --------------------------
(***************************************************************************)
(* Broker implements BrokerService: the table, the two frames and the      *)
(* kernel's view are hidden, the root handles of the table are the service's *)
(* roots.                                                                   *)
(***************************************************************************)
EXTENDS Broker

ServiceUp == IF pc \in {"exited", "died"} THEN pc ELSE "serving"

\* A root that is still starting has no handle yet.
ServiceRoots ==
    {workers[s].handle : s \in {t \in Slots : /\ workers[t].active
                                              /\ workers[t].parent = 0
                                              /\ workers[t].handle # 0}}

ServiceBusy ==
    IF pc \in {"exited", "died"} THEN [op |-> "none", handle |-> 0]
    ELSE IF wait.handle # 0 THEN [op |-> "wait", handle |-> wait.handle]
    ELSE IF pc = "launch" THEN [op |-> "launch", handle |-> 0]
    ELSE [op |-> "none", handle |-> 0]

Service == INSTANCE BrokerService WITH
    up <- ServiceUp, roots <- ServiceRoots, next <- nextHandle, busy <- ServiceBusy

\* Whatever workers, kernel and controller do, the broker keeps the promise
\* the controller's transport relies on: an answered WAIT or CANCEL leaves no
\* root behind, no handle is issued twice, no root vanishes without a request.
ImplementsService == Service!ServiceSpec

\* With the broker's thread running and time passing, every request is
\* answered and a closed socket ends the broker, so recv() in _send and
\* wait() in close() return although the transport's socket has no timeout.
AnswersRequests == Service!FairServiceSpec

-----------------------------------------------------------------------------
\* What the refinement needs to know of the frame: it names a WAIT exactly while
\* one is pending, and its slot holds the root with its handle.
FrameInv ==
    /\ pc = "idle" => wait.handle = 0
    /\ pc = "launch" /\ workers[launch.slot].parent = 0 => wait.handle = 0
    /\ WaitPending => \/ \A s \in Slots : ~workers[s].active
                      \/ workers[wait.slot].handle = wait.handle
=============================================================================
