------------------------------ MODULE Stream ------------------------------
(***************************************************************************)
(* Message exchange over streams: Stream (stream.cpp), and the coroutine   *)
(* of doSubmitExchangeMsgs() (hel.cpp) that submits a packet of items,     *)
(* drives the items that move large buffers, and posts the answer.         *)
(*                                                                         *)
(* Every submission has a submitter (Submitter::run()) that takes one item *)
(* at a time: under the stream's lock it either queues the item or takes   *)
(* its partner off the other lane; everything else happens after the lock  *)
(* is released, item by item, while other submitters, shutdownLane() and   *)
(* onPeersZero() run.  What is left to do after the lock is released is a  *)
(* sequence of operations: todo[p] for the submitter and the coroutine of  *)
(* packet p, a member of jobs for a lane that is being closed.             *)
(*                                                                         *)
(* The transfer between two flow items is one step here (FlowTransfer);    *)
(* Flow.tla models it in detail.                                           *)
(***************************************************************************)
EXTENDS Naturals, Sequences, FiniteSets, SequencesExt

CONSTANTS
  Packets,     \* submissions
  Plans,       \* assignments of items to packets; one is chosen initially
  Sides,       \* packet -> the lanes (0, 1 or both) its owner has handles of
  MaxStreams,  \* bound on the streams that offers create
  MaxCloses,   \* bound on the calls that close or shut down a lane
  PageSize,    \* longer sends use the flow protocol
  InlineMax    \* what an inline receive holds (128 bytes in the code)

ASSUME StreamAssumption ==
  /\ MaxStreams \in Nat \ {0} /\ MaxCloses \in Nat
  /\ PageSize \in Nat /\ InlineMax \in Nat
  /\ InlineMax <= PageSize

VARIABLES
  plan,      \* packet -> sequence of items [act, len, want, link]
  streams,   \* the streams created so far
  state,     \* packet -> "idle", "live", "reply" or "free"
  pending,   \* packet -> items its submitter has yet to look at
  todo,      \* packet -> operations that its submitter or coroutine is about to do
  jobs,      \* operations left to shutdownLane() and onPeersZero(), per call
  zero,      \* lanes whose last peer is gone and that are not broken yet
  closes,    \* calls that closed or shut down a lane so far
  left,      \* packet -> _incompleteCount
  node       \* item -> what the kernel stores in its StreamNode

vars == <<plan, streams, state, pending, todo, jobs, zero, closes, left, node>>

Lanes == {0, 1}
NoLane == <<0, 0>>
NoNode == <<>>

Nodes == UNION {{<<p, i>> : i \in DOMAIN plan[p]} : p \in Packets}
Item(n) == plan[n[1]][n[2]]

(* Which transmission an action of the user asks for. *)
TagOf(it) ==
  CASE it.act = "send"       -> IF it.len <= PageSize THEN "sendKernelBuffer" ELSE "sendFlow"
    [] it.act = "sendSg"     -> "sendKernelBuffer"
    [] it.act = "recvInline" -> "recvKernelBuffer"
    [] it.act = "recvBuffer" -> "recvFlow"
    [] OTHER                 -> it.act

Tag(n) == TagOf(Item(n))

MaxLength(it) == IF it.act = "recvInline" THEN InlineMax ELSE it.len

(* StreamNode::_inBuffer: only kernel buffers have one. *)
InSize(it) == IF TagOf(it) = "sendKernelBuffer" THEN it.len ELSE 0

usesFlowProtocol(tag) == tag \in {"sendFlow", "recvFlow"}

getStreamOrientation(tag) ==
  CASE tag \in {"accept", "extract", "recvKernelBuffer", "recvFlow", "pull"} -> 0
    [] tag \in {"offer", "imbue", "sendKernelBuffer", "sendFlow", "push"}    -> 2
    [] OTHER                                                                 -> 1

(* The ancillary chain of an item; the root chain of packet p is Chain(p, 0). *)
Chain(p, i) ==
  LET idx == SelectSeq([j \in DOMAIN plan[p] |-> j], LAMBDA j : plan[p][j].link = i)
  IN [k \in DOMAIN idx |-> <<p, idx[k]>>]

NewStream(handles) ==
  [down    |-> [d \in Lanes |-> FALSE],
   broken  |-> [d \in Lanes |-> FALSE],
   queue   |-> [d \in Lanes |-> <<>>],
   arrived |-> [d \in Lanes |-> <<>>],    \* history: the admitted items
   handles |-> handles]

NewNode ==
  [on |-> NoLane, lane |-> NoLane, err |-> "success", done |-> 0,
   issued |-> FALSE, peer |-> NoNode, got |-> NoNode]

Init ==
  /\ plan \in Plans
  /\ streams = << NewStream([d \in Lanes |-> 1]) >>
  /\ state = [p \in Packets |-> "idle"]
  /\ pending = [p \in Packets |-> <<>>]
  /\ todo = [p \in Packets |-> <<>>]
  /\ jobs = {}
  /\ zero = {}
  /\ closes = 0
  /\ left = [p \in Packets |-> Len(plan[p])]
  /\ node = [n \in Nodes |-> NewNode]

----------------------------------------------------------------------------
\* Mutant of RefsIn: submitted items do not hold their lane.
RefsInNoItems(lane, h, nd) ==
  h[lane[1]][lane[2]] + Cardinality({n \in DOMAIN nd : nd[n].lane = lane})

(* Peer references of a lane: handles of programs, items that were
   submitted to it (_transmitLane), and items that hold the lane an offer or
   accept created (_lane).  In a state with the handles h and the items nd.  *)
RefsIn(lane, h, nd) ==
  h[lane[1]][lane[2]]
  + Cardinality({n \in DOMAIN nd : nd[n].on = lane})
  + Cardinality({n \in DOMAIN nd : nd[n].lane = lane})

AllLanes == (DOMAIN streams) \X Lanes

Handles == [s \in DOMAIN streams |-> streams[s].handles]

(* The lanes that a step takes the last peer of. *)
Orphaned(h, nd) ==
  {l \in AllLanes : RefsIn(l, Handles, node) > 0 /\ RefsIn(l, h, nd) = 0}

----------------------------------------------------------------------------
(* The operations that are done without the lock. *)
Cancel(n, e)   == [op |-> "cancel", n |-> n, m |-> NoNode, e |-> e]
Done(n, e, m)  == [op |-> "done",   n |-> n, m |-> m, e |-> e]
Issue(n, e)    == [op |-> "issue",  n |-> n, m |-> NoNode, e |-> e]
LinkTo(n, m)   == [op |-> "link",   n |-> n, m |-> m, e |-> "success"]
Branch(n, m)   == [op |-> "branch", n |-> n, m |-> m, e |-> "success"]

(* Completion of an item, or of its flow by its own coroutine. *)
Finish(n, e) == IF usesFlowProtocol(Tag(n)) THEN Issue(n, e) ELSE Done(n, e, NoNode)

(* What Submitter::run() does with u, the item of higher orientation, and v. *)
Exchange(u, v) ==
  LET a == Item(u)
      b == Item(v)
      pair == <<Tag(u), Tag(v)>>
  IN CASE pair = <<"offer", "accept">> ->
            << Branch(u, v), Done(u, "success", NoNode), Done(v, "success", NoNode) >>
       [] pair \in {<<"imbue", "extract">>, <<"push", "pull">>} ->
            << Done(u, "success", NoNode), Done(v, "success", u) >>
       [] pair = <<"sendKernelBuffer", "recvKernelBuffer">> ->
            IF InSize(a) <= MaxLength(b)
              THEN << Done(u, "success", NoNode), Done(v, "success", u) >>
              ELSE << Done(u, "tooSmall", NoNode), Done(v, "tooSmall", NoNode) >>
       [] pair = <<"sendFlow", "recvKernelBuffer">> ->
            IF InSize(a) > MaxLength(b)
              THEN << Issue(u, "tooSmall"), Done(v, "tooSmall", NoNode) >>
            ELSE IF MaxLength(a) = 0
              THEN << Issue(u, "success"), Done(v, "success", NoNode) >>
            ELSE << LinkTo(u, v) >>
       [] pair = <<"sendKernelBuffer", "recvFlow">> ->
            IF InSize(a) > MaxLength(b)
              THEN << Done(u, "tooSmall", NoNode), Issue(v, "tooSmall") >>
            ELSE IF InSize(a) = 0
              THEN << Done(u, "success", NoNode), Issue(v, "success") >>
            ELSE << LinkTo(v, u) >>
       [] pair = <<"sendFlow", "recvFlow">> ->
            IF MaxLength(a) > MaxLength(b)
              THEN << Issue(u, "tooSmall"), Issue(v, "tooSmall") >>
            ELSE IF MaxLength(a) = 0
              THEN << Issue(u, "success"), Issue(v, "success") >>
            ELSE << LinkTo(u, v), LinkTo(v, u) >>
       [] OTHER -> << Finish(u, "mismatch"), Finish(v, "mismatch") >>

Rendezvous(u, v) ==
  IF "dismiss" \in {Tag(u), Tag(v)}
    THEN << Cancel(u, IF Tag(v) = "dismiss" THEN "dismissed" ELSE "success"),
            Cancel(v, IF Tag(u) = "dismiss" THEN "dismissed" ELSE "success") >>
  ELSE IF getStreamOrientation(Tag(u)) < getStreamOrientation(Tag(v))
    THEN Exchange(v, u)
    ELSE Exchange(u, v)

----------------------------------------------------------------------------
(* _cancelItem() answers the item and its ancillary chain, but not the chains
   of the items in that chain.                                              *)
Cancelled(n) == {n} \cup ToSet(Chain(n[1], n[2]))

Answered(o)  == CASE o.op = "cancel" -> Cancelled(o.n)
                  [] o.op \in {"done", "issue"} -> {o.n}
                  [] OTHER -> {}
Completed(o) == {n \in Answered(o) : ~(o.op = "issue" \/ (o.op = "cancel" /\ usesFlowProtocol(Tag(n))))}
Issued(o)    == IF o.op = "link" THEN {o.n} ELSE Answered(o) \ Completed(o)

(* complete() counts the packet down; issueFlow.raise() leaves that to the
   coroutine of the packet.                                                 *)
Apply(o) ==
  /\ node' = [n \in Nodes |->
       [node[n] EXCEPT
         !.err    = IF n \in Answered(o) THEN o.e ELSE @,
         !.done   = IF n \in Completed(o) THEN @ + 1 ELSE @,
         !.issued = @ \/ n \in Issued(o),
         !.peer   = IF o.op = "link" /\ n = o.n THEN o.m ELSE @,
         !.got    = IF o.op = "done" /\ n = o.n THEN o.m ELSE @]]
  /\ left' = [p \in Packets |->
       left[p] - Cardinality({n \in Completed(o) : n[1] = p})]

(* An offer met an accept: a new stream, whose lanes the two items hold and
   their ancillary chains are submitted to.                                 *)
MakeBranch(p, u, v) ==
  LET s == Len(streams) + 1
      chain == [d \in Lanes |-> IF d = 0 THEN Chain(u[1], u[2]) ELSE Chain(v[1], v[2])]
  IN /\ Len(streams) < MaxStreams
     /\ streams' = Append(streams, NewStream([d \in Lanes |-> 0]))
     /\ node' = [n \in Nodes |->
          [node[n] EXCEPT
            !.lane = CASE n = u -> <<s, 0>> [] n = v -> <<s, 1>> [] OTHER -> @,
            !.on = CASE n \in ToSet(chain[0]) -> <<s, 0>>
                     [] n \in ToSet(chain[1]) -> <<s, 1>>
                     [] OTHER -> @]]
     /\ pending' = [pending EXCEPT ![p] = @ \o chain[0] \o chain[1]]

----------------------------------------------------------------------------
(* doSubmitExchangeMsgs() up to transmit(): needs a handle of the lane. *)
Submit(p, s, d) ==
  /\ state[p] = "idle" /\ plan[p] # <<>>
  /\ d \in Sides[p] /\ streams[s].handles[d] > 0
  /\ state' = [state EXCEPT ![p] = "live"]
  /\ pending' = [pending EXCEPT ![p] = Chain(p, 0)]
  /\ node' = [n \in Nodes |-> IF n \in ToSet(Chain(p, 0))
                               THEN [node[n] EXCEPT !.on = <<s, d>>] ELSE node[n]]
  /\ UNCHANGED <<plan, closes, streams, todo, jobs, zero, left>>

\* Mutant of Met: the youngest item of the other lane is taken.
MetYoungest(q) == Last(q)

(* The item of the other lane that a new item meets. *)
Met(q) == Head(q)

(* One iteration of Submitter::run() up to the end of the locked section. *)
Match(p) ==
  /\ state[p] = "live" /\ todo[p] = <<>> /\ pending[p] # <<>>
  /\ LET u == Head(pending[p])
         s == node[u].on[1]
         d == node[u].on[2]
         st == streams[s]
         q == st.queue[1 - d]
         admitted == [st.arrived EXCEPT ![d] = Append(@, u)]
     IN /\ pending' = [pending EXCEPT ![p] = Tail(@)]
        /\ \/ /\ st.down[d]
              /\ todo' = [todo EXCEPT ![p] = << Cancel(u, "laneShutdown") >>]
              /\ UNCHANGED streams
           \/ /\ ~st.down[d]
              /\ st.broken[1 - d] \/ st.down[1 - d]
              /\ todo' = [todo EXCEPT ![p] = << Cancel(u, "endOfLane") >>]
              /\ UNCHANGED streams
           \/ /\ ~st.down[d] /\ ~st.broken[1 - d] /\ ~st.down[1 - d]
              /\ q = <<>>
              /\ streams' = [streams EXCEPT ![s].queue[d] = Append(@, u),
                                            ![s].arrived = admitted]
              /\ UNCHANGED todo
           \/ /\ ~st.down[d] /\ ~st.broken[1 - d] /\ ~st.down[1 - d]
              /\ q # <<>>
              /\ streams' = [streams EXCEPT ![s].queue[1 - d] = Remove(@, Met(q)),
                                            ![s].arrived = admitted]
              /\ todo' = [todo EXCEPT ![p] = Rendezvous(u, Met(q))]
  /\ UNCHANGED <<plan, closes, state, jobs, zero, left, node>>

(* The next operation of a submitter, or of a coroutine that completes. *)
Work(p) ==
  /\ todo[p] # <<>>
  /\ todo' = [todo EXCEPT ![p] = Tail(@)]
  /\ LET o == Head(todo[p]) IN
       \/ /\ o.op = "branch"
          /\ MakeBranch(p, o.n, o.m)
          /\ UNCHANGED left
       \/ /\ o.op # "branch"
          /\ Apply(o)
          /\ UNCHANGED <<streams, pending>>
  /\ UNCHANGED <<plan, closes, state, jobs, zero>>

----------------------------------------------------------------------------
(* The coroutine, after transmit() returned: its flow items in order. *)
Driving(p) == state[p] = "live" /\ pending[p] = <<>> /\ todo[p] = <<>>

OpenFlows(p) == {i \in DOMAIN plan[p] : usesFlowProtocol(Tag(<<p, i>>))
                                         /\ node[<<p, i>>].done = 0}

AtFlow(n) ==
  /\ Driving(n[1])
  /\ n[2] \in OpenFlows(n[1]) /\ \A j \in OpenFlows(n[1]) : n[2] <= j
  /\ node[n].issued

(* There is nothing to transfer: an error, or an empty message. *)
FlowEnd(n) ==
  /\ AtFlow(n)
  /\ node[n].peer = NoNode
  /\ todo' = [todo EXCEPT ![n[1]] = << Done(n, node[n].err, NoNode) >>]
  /\ UNCHANGED <<plan, closes, streams, state, pending, jobs, zero, left, node>>

(* The peer is a kernel buffer: this coroutine copies and completes both. *)
FlowCopy(n, ok) ==
  LET m == node[n].peer IN
  /\ AtFlow(n)
  /\ m # NoNode /\ ~usesFlowProtocol(Tag(m))
  /\ todo' = [todo EXCEPT ![n[1]] =
       << Done(m, "success", IF ok /\ Tag(n) = "sendFlow" THEN n ELSE NoNode),
          Done(n, IF ok THEN "success" ELSE "fault",
               IF ok /\ Tag(n) = "recvFlow" THEN m ELSE NoNode) >>]
  /\ UNCHANGED <<plan, closes, streams, state, pending, jobs, zero, left, node>>

(* Both ends use flows: the transfer of Flow.tla, which needs both coroutines
   and ends with each of them completing its own item.                      *)
FlowTransfer(n, ends) ==
  LET m == node[n].peer IN
  /\ AtFlow(n) /\ Tag(n) = "sendFlow"
  /\ m # NoNode /\ Tag(m) = "recvFlow"
  /\ AtFlow(m)
  /\ todo' = [todo EXCEPT
       ![n[1]] = << Done(n, ends[1], NoNode) >>,
       ![m[1]] = << Done(m, ends[2], IF ends[2] = "success" THEN n ELSE NoNode) >>]
  /\ UNCHANGED <<plan, closes, streams, state, pending, jobs, zero, left, node>>

(* How a flow may end for the sender and the receiver (Flow.tla: EndsAgree). *)
FlowEnds == { <<"success", "success">>, <<"fault", "remoteFault">>,
              <<"remoteFault", "fault">>, <<"fault", "fault">> }

\* Mutant of AllDone: off by one.
AllDoneEarly(p) == left[p] <= 1

(* StreamPacket::completion was raised. *)
AllDone(p) == left[p] = 0

(* packet.completion: the results are collected, lanes become handles. *)
Gather(p) ==
  LET moved == {n \in Nodes : /\ n[1] = p /\ node[n].err = "success"
                              /\ \/ Tag(n) = "offer" /\ Item(n).want
                                 \/ Tag(n) = "accept"}
      gain(s, d) == Cardinality({n \in moved : node[n].lane = <<s, d>>})
  IN /\ Driving(p)
     /\ AllDone(p)
     /\ state' = [state EXCEPT ![p] = "reply"]
     /\ streams' = [s \in DOMAIN streams |->
          [streams[s] EXCEPT !.handles = [d \in Lanes |-> @[d] + gain(s, d)]]]
     /\ node' = [n \in Nodes |-> IF n \in moved
                                  THEN [node[n] EXCEPT !.lane = NoLane] ELSE node[n]]
     /\ UNCHANGED <<plan, closes, pending, todo, jobs, zero, left>>

(* The answer was posted to the queue; the items are destroyed. *)
Free(p) ==
  /\ state[p] = "reply"
  /\ state' = [state EXCEPT ![p] = "free"]
  /\ node' = [n \in Nodes |-> IF n[1] = p
       THEN [node[n] EXCEPT !.on = NoLane, !.lane = NoLane] ELSE node[n]]
  /\ zero' = zero \cup Orphaned(Handles, node')
  /\ UNCHANGED <<plan, closes, streams, pending, todo, jobs, left>>

CountClose == closes < MaxCloses /\ closes' = closes + 1

(* helCloseDescriptor() of a lane. *)
CloseHandle(s, d) ==
  /\ CountClose
  /\ streams[s].handles[d] > 0
  /\ streams' = [streams EXCEPT ![s].handles[d] = @ - 1]
  /\ zero' = zero \cup Orphaned([Handles EXCEPT ![s][d] = @ - 1], node)
  /\ UNCHANGED <<plan, state, pending, todo, jobs, left, node>>

\* Mutant of Cancels: the last item of the spliced queue is dropped.
CancelsAllButLast(q, e) == [i \in 1..(Len(q) - 1) |-> Cancel(q[i], e)]

(* The items of a queue that was spliced off its lane. *)
Cancels(q, e) == [i \in DOMAIN q |-> Cancel(q[i], e)]

AddJob(ops) == jobs' = IF ops = <<>> THEN jobs ELSE jobs \cup {ops}

(* helShutdownLane(): the locked section of shutdownLane(). *)
ShutdownLane(s, d) ==
  LET q == streams[s].queue IN
  /\ CountClose
  /\ streams[s].handles[d] > 0
  /\ streams' = [streams EXCEPT ![s].down[d] = TRUE,
                                ![s].queue = [l \in Lanes |-> <<>>]]
  /\ AddJob(Cancels(q[d], "laneShutdown") \o Cancels(q[1 - d], "endOfLane"))
  /\ UNCHANGED <<plan, state, pending, todo, zero, left, node>>

(* The locked section of onPeersZero(). *)
BreakLane(s, d) ==
  /\ <<s, d>> \in zero
  /\ zero' = zero \ {<<s, d>>}
  /\ streams' = [streams EXCEPT ![s].broken[d] = TRUE, ![s].queue[1 - d] = <<>>]
  /\ AddJob(Cancels(streams[s].queue[1 - d], "endOfLane"))
  /\ UNCHANGED <<plan, closes, state, pending, todo, left, node>>

(* One cancelled item of shutdownLane() or onPeersZero(). *)
JobStep(j) ==
  /\ j \in jobs
  /\ Apply(Head(j))
  /\ jobs' = (jobs \ {j}) \cup (IF Len(j) = 1 THEN {} ELSE {Tail(j)})
  /\ UNCHANGED <<plan, closes, streams, state, pending, todo, zero>>

Flow ==
  \E n \in Nodes :
    \/ FlowEnd(n)
    \/ \E ok \in BOOLEAN : FlowCopy(n, ok)
    \/ \E ends \in FlowEnds : FlowTransfer(n, ends)

Kernel ==
  \/ \E p \in Packets : Match(p) \/ Work(p) \/ Gather(p) \/ Free(p)
  \/ Flow
  \/ \E s \in DOMAIN streams, d \in Lanes : BreakLane(s, d)
  \/ \E j \in jobs : JobStep(j)

Next ==
  \/ Kernel
  \/ \E s \in DOMAIN streams, d \in Lanes :
       \/ CloseHandle(s, d) \/ ShutdownLane(s, d)
       \/ \E p \in Packets : Submit(p, s, d)

(* The kernel does not stop while a submitter, a coroutine or a lane closer can
   go on.  Nothing is assumed of the programs.                                *)
Spec == Init /\ [][Next]_vars /\ WF_vars(Kernel)

----------------------------------------------------------------------------
(* Properties *)

Ops(p) == ToSet(todo[p])
JobOps == UNION {ToSet(j) : j \in jobs}

(* The items that an operation writes to. *)
Touches(o) ==
  CASE o.op = "branch" -> {o.n, o.m} \cup ToSet(Chain(o.n[1], o.n[2]))
                                    \cup ToSet(Chain(o.m[1], o.m[2]))
    [] o.op = "link"   -> {o.n, o.m}
    [] OTHER           -> Answered(o)

Alive(n) == state[n[1]] = "live" /\ node[n].done = 0

TypeOK ==
  /\ plan \in Plans
  /\ \A s \in DOMAIN streams, d \in Lanes :
       /\ streams[s].down[d] \in BOOLEAN /\ streams[s].broken[d] \in BOOLEAN
       /\ ToSet(streams[s].queue[d]) \subseteq Nodes
       /\ streams[s].handles[d] \in Nat
  /\ state \in [Packets -> {"idle", "live", "reply", "free"}]
  /\ zero \subseteq AllLanes /\ closes \in 0..MaxCloses
  /\ left \in [Packets -> Nat]

(* Whatever the kernel is still going to write to, after it has given up the
   stream's lock, is an item that was not completed and whose packet was not
   answered: nothing is completed twice, and no item is used after the
   coroutine that owns it has destroyed it (stream.cpp:114-239, hel.cpp:3064-
   3069).                                                                     *)
LiveNodes ==
  /\ \A s \in DOMAIN streams, d \in Lanes : \A n \in ToSet(streams[s].queue[d]) : Alive(n)
  /\ \A p \in Packets : \A n \in ToSet(pending[p]) : Alive(n)
  /\ \A o \in JobOps \cup UNION {Ops(p) : p \in Packets} : \A n \in Touches(o) : Alive(n)
  /\ \A n \in Nodes : AtFlow(n) /\ node[n].peer # NoNode => Alive(node[n].peer)
  /\ \A p \in Packets : left[p] = Cardinality({i \in DOMAIN plan[p] : node[<<p, i>>].done = 0})

(* The assertions of stream.cpp:99, 102, 106, 255 and 293: a lane that an item
   or a handle refers to is neither broken nor about to be, a lane breaks once,
   and the queues of a closed stream stay empty.                              *)
LaneAssertions ==
  /\ \A l \in AllLanes : RefsIn(l, Handles, node) > 0 =>
       ~streams[l[1]].broken[l[2]] /\ l \notin zero
  /\ \A l \in zero : ~streams[l[1]].broken[l[2]]
  /\ \A s \in DOMAIN streams, d \in Lanes :
       /\ streams[s].down[d] => streams[s].queue[0] = <<>> /\ streams[s].queue[1] = <<>>
       /\ streams[s].broken[d] => streams[s].queue[0] = <<>> /\ streams[s].queue[1] = <<>>
       /\ streams[s].queue[d] = <<>> \/ streams[s].queue[1 - d] = <<>>

ClosedStream(s) == \E d \in Lanes : streams[s].down[d] \/ streams[s].broken[d]

(* What an item may be answered for meeting another one, and whether it gets
   the other's data.                                                         *)
Sends(it) == it.act \in {"send", "sendSg"}
Receives(it) == it.act \in {"recvInline", "recvBuffer"}
Faults(a, b) ==
  CASE TagOf(a) = "recvFlow" /\ TagOf(b) = "sendFlow" -> {"fault", "remoteFault"}
    [] TagOf(a) = "sendFlow" /\ TagOf(b) = "recvFlow" -> {"fault", "remoteFault"}
    [] usesFlowProtocol(TagOf(a)) -> {"fault"}
    [] OTHER -> {}

(* A large send is not measured against an inline receive (stream.cpp:170). *)
TooLong(snd, rcv) == snd.len > MaxLength(rcv)
                     /\ ~(TagOf(snd) = "sendFlow" /\ rcv.act = "recvInline")

MeetingAnswers(a, b) ==
  IF a.act = "dismiss" \/ b.act = "dismiss"
    THEN {<<IF b.act = "dismiss" THEN "dismissed" ELSE "success", FALSE>>}
  ELSE CASE <<a.act, b.act>> \in {<<"offer", "accept">>, <<"accept", "offer">>,
                                  <<"imbue", "extract">>, <<"push", "pull">>} ->
              {<<"success", FALSE>>}
         [] <<a.act, b.act>> \in {<<"extract", "imbue">>, <<"pull", "push">>} ->
              {<<"success", TRUE>>}
         [] Sends(a) /\ Receives(b) ->
              IF TooLong(a, b) THEN {<<"tooSmall", FALSE>>}
              ELSE ({"success"} \cup Faults(a, b)) \X {FALSE}
         [] Receives(a) /\ Sends(b) ->
              IF TooLong(b, a) THEN {<<"tooSmall", FALSE>>}
              ELSE (Faults(a, b) \X {FALSE})
                   \cup {<<"success", b.len > 0 \/ a.act = "recvInline">>}
                   \cup (IF TagOf(b) = "sendFlow" /\ a.act = "recvInline"
                           THEN {<<"success", FALSE>>} ELSE {})
         [] OTHER -> {<<"mismatch", FALSE>>}

Abstract == INSTANCE Rendezvous WITH
  Answers <- MeetingAnswers,
  CloseErrors <- {"laneShutdown", "endOfLane"},
  Success <- "success",
  NoAnswer <- <<"none", NoNode>>,
  Nobody <- NoNode,
  arrived <- [s \in DOMAIN streams |-> streams[s].arrived],
  closed <- [s \in DOMAIN streams |-> ClosedStream(s)],
  answer <- [n \in Nodes |-> IF node[n].done = 0 THEN <<"none", NoNode>>
                             ELSE <<node[n].err, node[n].got>>],
  answered <- {p \in Packets : state[p] \in {"reply", "free"}}

(* Streams implement the rendezvous of Rendezvous.tla: the i-th items of the
   two lanes meet and no others, their answers and data are those of the
   meeting even if a lane is shut down or loses its last peer meanwhile, and a
   packet is answered once, after all of its items.                          *)
ImplementsRendezvous == Abstract!RSpec

(* Items that nobody is going to answer: the chain of an item that was
   answered without a branch for the chain to go to (a mismatch completes the
   item alone, stream.cpp:224-238), or that hangs below a cancelled chain
   (_cancelItem() stops at the first level, stream.cpp:311-331).             *)
Stranded(n) ==
  /\ node[n].done = 0 /\ node[n].on = NoLane /\ ~node[n].issued
  /\ Item(n).link # 0
  /\ \/ node[<<n[1], Item(n).link>>].done = 1
     \/ node[<<n[1], Item(n).link>>].issued

StrandedPacket(p) == \E i \in DOMAIN plan[p] : Stranded(<<p, i>>)

AllClosed == \A s \in DOMAIN streams : ClosedStream(s)

(* Once all streams are closed for good, however that happened and whatever was
   under way, every packet is answered, up to the two cases in which the code
   loses a chain (those that a mismatch or a nested cancellation leave behind). *)
ClosedAnswered ==
  \A p \in Packets :
    []<>(~AllClosed \/ state[p] # "live" \/ StrandedPacket(p))

(* An inline receive succeeds only with data that it has room for: the submitter
   reserved that much in its queue (hel.cpp:2979-2983, 3029-3030), and both items
   are to complete with bufferTooSmall otherwise (stream.cpp:171).             *)
InlineFits ==
  \A n \in Nodes : Item(n).act = "recvInline" /\ node[n].got # NoNode =>
    Item(node[n].got).len <= InlineMax
============================================================================
