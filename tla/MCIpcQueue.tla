---------------------------- MODULE MCIpcQueue ----------------------------
(***************************************************************************)
(* The completion queue, the submission queue and the flow protocol, each  *)
(* on its own: a behaviour is one of the component that scenario names,    *)
(* while the variables of the others keep their initial values.            *)
(*                                                                         *)
(* Completion queue: five elements in three chunks of two units; the       *)
(* second one shares the first chunk and runs over its end, the fifth one  *)
(* wraps around to that chunk.                                             *)
(***************************************************************************)
EXTENDS IpcQueue, SubmitQueue, Flow

VARIABLE scenario

QueueLengths == <<0, 1, 1, 1, 1>>

Init ==
  /\ scenario \in {"cq", "sq", "flow"}
  /\ CqInit /\ SqInit /\ FlowInit

Cq(A) == scenario = "cq" /\ A /\ UNCHANGED <<scenario, sqVars, flowVars>>
Sq(A) == scenario = "sq" /\ A /\ UNCHANGED <<scenario, cqVars, flowVars>>
Fl(A) == scenario = "flow" /\ A /\ UNCHANGED <<scenario, cqVars, sqVars>>

Next == Cq(CqNext) \/ Sq(SqNext) \/ Fl(FlowNext)

vars == <<scenario, cqVars, sqVars, flowVars>>

Spec ==
  /\ Init /\ [][Next]_vars
  /\ WF_vars(Cq(Kernel)) /\ WF_vars(Cq(Dispatcher)) /\ WF_vars(Cq(AlertQueue))
  /\ WF_vars(Cq(CallWait)) /\ WF_vars(Cq(\E h \in held : Release(h)))
  /\ WF_vars(Sq(SqThread)) /\ WF_vars(Sq(WaitSq))
  /\ WF_vars(Fl(Sender)) /\ WF_vars(Fl(Receiver))

(* Nobody waits for ever: every completion is dequeued, every submission is
   dispatched, and both items of a flow are completed.                       *)
EverythingArrives ==
  QueueDrains /\ SubmitsArrive /\ (scenario = "flow" => FlowEndsEventually)
============================================================================
