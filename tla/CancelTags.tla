---------------------------- MODULE CancelTags ----------------------------
(***************************************************************************)
(* Kernel operations that user space cancels by tag: timers (timer.cpp)    *)
(* and waits for events (event.cpp), with the registry of tags             *)
(* (cancel.cpp) and the system calls around them (hel.cpp).                *)
(*                                                                         *)
(* An operation registers its tag, is submitted, is posted to a work queue *)
(* when it ends, and unregisters.  A canceller collects the nodes of the   *)
(* tag under the registry's lock and cancels them afterwards, one by one.  *)
(* cancellation_event and cancellation_observer are libasync's (external): *)
(* cancel() marks the event and then calls the observer that is set, in a  *)
(* step of its own; try_reset() fails from the mark on, try_set() too.     *)
(* What is done under a lock is one step.  All operations have the same    *)
(* tag, and all event operations wait for the same event.  A OneshotEvent  *)
(* is a BitsetEvent that has one bit and is triggered once: both compare   *)
(* sequence numbers in the same way.  An assertion that fails halts.       *)
(***************************************************************************)
EXTENDS Naturals, Sequences, FiniteSets, FiniteSetsExt

CONSTANTS
  TimerOps,     \* operations of helSubmitAwaitClock
  EventOps,     \* operations of helSubmitAwaitEvent
  Cancellers,   \* threads that cancel the tag
  EventBits,    \* bits of the event
  MaxTriggers   \* bound on trigger()

TagOps == TimerOps \cup EventOps

VARIABLES
  top,        \* operation -> its state
  tagNode,    \* operation -> the CancelNode of its tag
  canceller,  \* canceller -> nodes it has collected, and the one it works on
  oneshot,    \* the event is a OneshotEvent
  triggers,   \* the bits of each trigger() so far; _currentSequence is 1 + its length
  halted      \* the assertion that failed, or "no"

tagVars == <<top, tagNode, canceller, oneshot, triggers, halted>>

(* state: none, queued, elapsed or retired; requested and observer are those of the
   cancellation event; posts counts how often the operation was posted.            *)
NewOp == [pc |-> "idle", state |-> "none", requested |-> FALSE, observer |-> FALSE,
          wasCancelled |-> FALSE, posts |-> 0, since |-> 0, sequence |-> 0, bits |-> {}]

TagsInit ==
  /\ top = [o \in TagOps |-> NewOp]
  /\ tagNode = [o \in TagOps |-> [tree |-> FALSE, refs |-> 0, cancelled |-> FALSE]]
  /\ canceller = [c \in Cancellers |-> [pc |-> "idle", pending |-> {}, node |-> {}]]
  /\ oneshot \in BOOLEAN
  /\ triggers = <<>>
  /\ halted = "no"

Running == halted = "no"
CurrentSequence == 1 + Len(triggers)

(* wq->post(): the operation goes on later. *)
Post(op) == [op EXCEPT !.pc = "posted", !.posts = @ + 1]

----------------------------------------------------------------------------
(* registerTag(), and unregisterTag() at the end *)

RegisterTag(o) ==
  /\ Running /\ top[o].pc = "idle"
  /\ top' = [top EXCEPT ![o].pc = "registered"]
  /\ tagNode' = [tagNode EXCEPT ![o] = [tree |-> TRUE, refs |-> 1, cancelled |-> FALSE]]
  /\ UNCHANGED <<canceller, oneshot, triggers, halted>>

(* The handle is bad, or the queue too small for the answer: the function returns,
   and the guard's destructor asserts that the tag was unregistered.              *)
RefuseSubmit(o) ==
  /\ Running /\ top[o].pc = "registered"
  /\ halted' = "guard"
  /\ UNCHANGED <<top, tagNode, canceller, oneshot, triggers>>

UnregisterTag(o) ==
  /\ Running /\ top[o].pc = "posted"
  /\ top' = [top EXCEPT ![o].pc = "drop"]
  /\ tagNode' = [tagNode EXCEPT ![o].tree = FALSE]
  /\ UNCHANGED <<canceller, oneshot, triggers, halted>>

DropTag(o) ==
  /\ Running /\ top[o].pc = "drop"
  /\ top' = [top EXCEPT ![o].pc = "done"]
  /\ tagNode' = [tagNode EXCEPT ![o].refs = @ - 1]
  /\ UNCHANGED <<canceller, oneshot, triggers, halted>>

----------------------------------------------------------------------------
(* Timers *)

\* Mutant of Elapse: a timer is posted although its cancellation has begun.
ElapseAlways(op) == Post([op EXCEPT !.state = "retired", !.observer = FALSE])

(* The deadline of a queued timer has passed: if it is being cancelled, the
   cancellation handler invokes the continuation.                          *)
Elapse(op) ==
  IF ~op.requested THEN Post([op EXCEPT !.state = "retired", !.observer = FALSE])
  ELSE [op EXCEPT !.state = "elapsed"]

QueuedTimers(ops) == {o \in TimerOps : ops[o].state = "queued"}

(* _progress(), with some timers due. *)
Progressed(ops, due) == [o \in TagOps |-> IF o \in due THEN Elapse(ops[o]) ELSE ops[o]]

InstallTimer(o) ==
  LET set == [top EXCEPT ![o].pc = "waiting", ![o].state = "queued", ![o].observer = TRUE] IN
  /\ Running /\ top[o].pc = "registered" /\ o \in TimerOps
  /\ \/ /\ top[o].requested
        /\ top' = [top EXCEPT ![o] = Post([@ EXCEPT !.state = "retired", !.wasCancelled = TRUE])]
     \/ /\ ~top[o].requested
        /\ \E due \in SUBSET QueuedTimers(set) : top' = Progressed(set, due)
  /\ UNCHANGED <<tagNode, canceller, oneshot, triggers, halted>>

FiredAlarm ==
  /\ Running
  /\ \E due \in SUBSET QueuedTimers(top) : due # {} /\ top' = Progressed(top, due)
  /\ UNCHANGED <<tagNode, canceller, oneshot, triggers, halted>>

(* cancelTimer() *)
CancelTimer(op) ==
  Post([op EXCEPT !.state = "retired", !.wasCancelled = op.state = "queued", !.observer = FALSE])

----------------------------------------------------------------------------
(* Events *)

(* The bits with _lastTrigger greater than sequence *)
BitsSince(s) == UNION {triggers[i] : i \in {j \in DOMAIN triggers : j + 1 > s}}

(* submitAwait(): whoever is behind is answered at once. *)
SubmitAwaitEvent(o, s) ==
  LET op == [top[o] EXCEPT !.since = s] IN
  /\ Running /\ top[o].pc = "registered" /\ o \in EventOps
  /\ s <= (IF oneshot THEN 1 ELSE CurrentSequence)
  /\ \/ /\ s < CurrentSequence
        /\ top' = [top EXCEPT ![o] = Post([op EXCEPT !.sequence = CurrentSequence, !.bits = BitsSince(s)])]
     \/ /\ s = CurrentSequence /\ op.requested
        /\ top' = [top EXCEPT ![o] = Post([op EXCEPT !.wasCancelled = TRUE])]
     \/ /\ s = CurrentSequence /\ ~op.requested
        /\ top' = [top EXCEPT ![o] = [op EXCEPT !.pc = "waiting", !.state = "queued", !.observer = TRUE]]
  /\ UNCHANGED <<tagNode, canceller, oneshot, triggers, halted>>

(* What trigger() tells a waiter; the sequence number is the new one. *)
CompleteAwait(op, bits) == [op EXCEPT !.sequence = CurrentSequence + 1, !.bits = bits, !.state = "retired"]

(* trigger() takes every waiter from the queue, and posts those that are not being
   cancelled.  A OneshotEvent refuses a second one.                               *)
Trigger(bits) ==
  /\ Running /\ bits # {} /\ Len(triggers) < MaxTriggers
  /\ oneshot => triggers = <<>> /\ Cardinality(bits) = 1
  /\ triggers' = Append(triggers, bits)
  /\ top' = [o \in TagOps |->
       IF o \in EventOps /\ top[o].state = "queued"
       THEN LET op == CompleteAwait(top[o], bits)
            IN IF op.requested THEN op ELSE Post([op EXCEPT !.observer = FALSE])
       ELSE top[o]]
  /\ UNCHANGED <<tagNode, canceller, oneshot, halted>>

(* cancelAwait() *)
CancelAwait(op) == Post([op EXCEPT !.state = "retired", !.wasCancelled = TRUE, !.observer = FALSE])

----------------------------------------------------------------------------
(* cancel() *)

(* The nodes of the tag that nobody has cancelled are collected under the lock. *)
CollectNodes(c) ==
  LET nodes == {o \in TagOps : tagNode[o].tree /\ ~tagNode[o].cancelled} IN
  /\ Running /\ canceller[c].pc = "idle" /\ nodes # {}
  /\ tagNode' = [o \in TagOps |-> IF o \in nodes THEN [tagNode[o] EXCEPT !.cancelled = TRUE, !.refs = @ + 1]
                                  ELSE tagNode[o]]
  /\ canceller' = [canceller EXCEPT ![c] = [pc |-> "next", pending |-> nodes, node |-> {}]]
  /\ UNCHANGED <<top, oneshot, triggers, halted>>

(* event.cancel() marks the event, *)
CancelNode(c) ==
  /\ Running /\ canceller[c].pc = "next"
  /\ \E o \in canceller[c].pending :
       /\ top' = [top EXCEPT ![o].requested = TRUE]
       /\ canceller' = [canceller EXCEPT
            ![c] = [pc |-> IF top[o].observer THEN "callback" ELSE "drop",
                    pending |-> @.pending \ {o}, node |-> {o}]]
  /\ UNCHANGED <<tagNode, oneshot, triggers, halted>>

(* calls the observer,  *)
CallObserver(c) ==
  /\ Running /\ canceller[c].pc = "callback"
  /\ \E o \in canceller[c].node :
       \/ /\ o \in TimerOps
          /\ top' = [top EXCEPT ![o] = CancelTimer(@)]
          /\ UNCHANGED halted
       \/ /\ o \in EventOps /\ top[o].state = "queued"
          /\ top' = [top EXCEPT ![o] = CancelAwait(@)]
          /\ UNCHANGED halted
       \/ /\ o \in EventOps /\ top[o].state # "queued"   \* iterator_to() asserts (frigg, external)
          /\ halted' = "erase"
          /\ UNCHANGED top
  /\ canceller' = [canceller EXCEPT ![c].pc = "drop"]
  /\ UNCHANGED <<tagNode, oneshot, triggers>>

(* and the reference to the node is dropped. *)
DropNode(c) ==
  /\ Running /\ canceller[c].pc = "drop"
  /\ tagNode' = [o \in TagOps |-> IF o \in canceller[c].node THEN [tagNode[o] EXCEPT !.refs = @ - 1]
                                  ELSE tagNode[o]]
  /\ canceller' = [canceller EXCEPT ![c].pc = IF @ = "drop" /\ canceller[c].pending = {} THEN "idle" ELSE "next",
                                    ![c].node = {}]
  /\ UNCHANGED <<top, oneshot, triggers, halted>>

----------------------------------------------------------------------------
TagStep ==
  \/ \E o \in TagOps : UnregisterTag(o) \/ DropTag(o)
  \/ \E c \in Cancellers : CancelNode(c) \/ CallObserver(c) \/ DropNode(c)

TagsNext ==
  \/ TagStep
  \/ \E o \in TagOps : RegisterTag(o) \/ RefuseSubmit(o) \/ InstallTimer(o)
  \/ \E o \in TagOps, s \in 0..(MaxTriggers + 1) : SubmitAwaitEvent(o, s)
  \/ FiredAlarm
  \/ \E bits \in SUBSET EventBits : Trigger(bits)
  \/ \E c \in Cancellers : CollectNodes(c)

TagsSpec == TagsInit /\ [][TagsNext]_tagVars

----------------------------------------------------------------------------
(* Properties *)

(* An operation is posted at most once, a cancellation handler runs only while
   its operation waits (the observer is part of its frame), a node of the registry
   is counted by exactly those who have it and outlives them, and cancelTimer()
   finds its timer queued or elapsed (cancel.cpp:32-100, timer.cpp:135-149).     *)
TagLifetimes ==
  /\ \A o \in TagOps :
       /\ top[o].posts <= 1
       /\ tagNode[o].refs =
            (IF top[o].pc \in {"idle", "done"} THEN 0 ELSE 1) +
            Cardinality({c \in Cancellers : o \in canceller[c].pending \cup canceller[c].node})
  /\ \A c \in Cancellers : canceller[c].pc = "callback" =>
       \A o \in canceller[c].node :
         top[o].pc = "waiting" /\ (o \in TimerOps => top[o].state \in {"queued", "elapsed"})

(* Somebody who waits for an event, from the sequence number of their last answer,
   is told of every bit that was triggered since, however trigger(), the wait and
   its cancellation interleave (event.cpp:89-139).                              *)
BitsReported ==
  \A o \in EventOps :
    top[o].pc \in {"posted", "drop", "done"} /\ ~top[o].wasCancelled =>
      top[o].bits = UNION {triggers[i] : i \in {j \in DOMAIN triggers : j + 1 > top[o].since /\ j + 1 <= top[o].sequence}}

(* cancelAwait() erases a node that is in the wait queue (event.cpp:73).  Not so:
   trigger() takes nodes whose cancellation has begun.                          *)
ErasesQueued == halted # "erase"

(* "CancelGuard must be consumed by CancelRegistry::unregisterTag()." (cancel.hpp:52).
   Not so: a submission that is refused returns without it (hel.cpp:2784, 3680).    *)
GuardsConsumed == halted # "guard"

(* A cancelled operation ends. *)
TagsIdle ==
  halted # "no" \/ \A o \in TagOps : top[o].requested => top[o].pc \in {"idle", "registered", "done"}
============================================================================
