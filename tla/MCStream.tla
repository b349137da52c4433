------------------------------ MODULE MCStream ------------------------------
(* Instances of Stream for TLC: which items the packets consist of. *)
EXTENDS Stream, TLC

It(act, len, link) == [act |-> act, len |-> len, want |-> FALSE, link |-> link]
Offer(want, link) == [act |-> "offer", len |-> 0, want |-> want, link |-> link]

Send(len)  == << It("send", len, 0) >>
RecvTo(len) == << It("recvBuffer", len, 0) >>
Inline     == << It("recvInline", 0, 0) >>
Dismiss    == << It("dismiss", 0, 0) >>

(* The usual request: an offer whose chain sends a message and awaits the
   answer; and the two ways to serve it.                                    *)
Request == << Offer(FALSE, 0), It("send", 1, 1), It("recvBuffer", 3, 1) >>
Serve   == << It("accept", 0, 0), It("recvInline", 0, 1) >>
Accept  == << It("accept", 0, 0) >>
AcceptFlow == << It("accept", 0, 0), It("recvBuffer", 3, 1), It("send", 3, 1) >>
Nested  == << Offer(TRUE, 0), Offer(FALSE, 1), It("send", 1, 2) >>
Give    == << It("push", 0, 0), It("imbue", 0, 0) >>
Take    == << It("pull", 0, 0), It("extract", 0, 0) >>
Two     == << It("send", 3, 0), It("recvBuffer", 3, 0) >>
OwT     == << It("recvBuffer", 3, 0), It("send", 3, 0) >>

Plan(a, b, c) == [p \in Packets |-> CASE p = 1 -> a [] p = 2 -> b [] OTHER -> c]

StreamPlans ==
  { Plan(Request, Serve, <<>>), Plan(Request, AcceptFlow, <<>>),
    Plan(Request, Accept, Inline), Plan(Nested, Serve, <<>>), Plan(Request, Two, <<>>),
    Plan(Two, OwT, <<>>), Plan(Give, Take, <<>>), Plan(Send(1), Inline, Dismiss), Plan(Send(3), RecvTo(1), Inline) }

StreamSides == [p \in Packets |-> CASE p = 1 -> {0} [] p = 2 -> {1} [] OTHER -> {0, 1}]
=============================================================================
