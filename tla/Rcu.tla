-------------------------------- MODULE Rcu ---------------------------------
(***************************************************************************)
(* The kernel-wide RCU engine and the per-CPU dispatchers that run         *)
(* callbacks after a grace period (kernel/thor/generic/rcu.cpp, rcu.hpp).  *)
(* A read-side critical section is a stretch of execution on a CPU with    *)
(* scheduling disabled: no item of that CPU's generalWorkQueue runs in it. *)
(* RcuEngine::barrier() is called by the dispatchers only.                 *)
(*                                                                         *)
(* Coroutines are resumed by whoever completes what they wait for, so a    *)
(* dispatcher's steps are not tied to its CPU.  Memory is sequentially     *)
(* consistent here; the fences that justify it are not modelled.           *)
(***************************************************************************)
EXTENDS Naturals, FiniteSets

CONSTANTS Cpus,       \* CPUs; each has one RcuDispatcher
          Callables   \* objects passed to submitRcu(), each once

VARIABLES
  state,       \* RcuEngine::state_: the sequence number and the busy bit
  items,       \* CPUs whose work item of the transition has not run (transitionWg_)
  reading,     \* CPUs inside a read-side critical section
  phase,       \* of a callable: live, submitted or called
  raising,     \* callables whose submitter has yet to raise pendingEvent_
  queue,       \* RcuDispatcher::queue_
  collected,   \* runLoop_(): the callables of this round
  pc,          \* runLoop_() and barrier()
  s, current,  \* locals of barrier()
  oldReaders   \* CPUs in a critical section that began before submit() (history)

engineVars == <<state, items>>
localVars  == <<s, current>>
vars == <<engineVars, reading, phase, raising, queue, collected, pc, localVars, oldReaders>>

\* The value n, or (n | stateBusy).
Idle(n) == [seq |-> n, busy |-> FALSE]
Busy(n) == [seq |-> n, busy |-> TRUE]

States == [seq : Nat, busy : BOOLEAN]
BarrierPcs == {"load", "waitOld", "sleepOld", "cas", "spawn", "transition",
               "publish", "raise", "other", "waitNew", "sleepNew"}
Pcs == BarrierPcs \cup {"poll", "sleep", "collect", "call"}

\* The type of every variable.
TypeOK ==
  /\ state \in States /\ current \in [Cpus -> States] /\ s \in [Cpus -> Nat]
  /\ items \subseteq Cpus /\ reading \subseteq Cpus
  /\ phase \in [Callables -> {"live", "submitted", "called"}]
  /\ raising \in [Cpus -> SUBSET Callables]
  /\ queue \in [Cpus -> SUBSET Callables] /\ collected \in [Cpus -> SUBSET Callables]
  /\ pc \in [Cpus -> Pcs]
  /\ oldReaders \in [Callables -> SUBSET Cpus]

Init ==
  /\ state = Idle(0) /\ items = {} /\ reading = {}
  /\ phase = [x \in Callables |-> "live"]
  /\ raising = [c \in Cpus |-> {}]
  /\ queue = [c \in Cpus |-> {}] /\ collected = [c \in Cpus |-> {}]
  /\ pc = [c \in Cpus |-> "poll"]
  /\ s = [c \in Cpus |-> 0] /\ current = [c \in Cpus |-> Idle(0)]
  /\ oldReaders = [x \in Callables |-> {}]

Goto(c, p) == pc' = [pc EXCEPT ![c] = p]

-----------------------------------------------------------------------------
(* Readers.                                                                *)

EnterSection(c) ==
  /\ c \notin reading
  /\ reading' = reading \cup {c}
  /\ UNCHANGED <<engineVars, phase, raising, queue, collected, pc, localVars, oldReaders>>

ExitSection(c) ==
  /\ c \in reading
  /\ reading' = reading \ {c}
  /\ oldReaders' = [x \in Callables |-> oldReaders[x] \ {c}]
  /\ UNCHANGED <<engineVars, phase, raising, queue, collected, pc, localVars>>

-----------------------------------------------------------------------------
(* RcuDispatcher::submit(): the callable is queued under the mutex, and    *)
(* the event is raised after it is released.                               *)

\* Mutant of NeedsRaise: only a submission behind another one raises.
NeedsRaiseNonEmpty(wasEmpty) == ~wasEmpty
NeedsRaise(wasEmpty) == wasEmpty

Submit(x, c) ==
  /\ phase[x] = "live"
  /\ phase' = [phase EXCEPT ![x] = "submitted"]
  /\ queue' = [queue EXCEPT ![c] = @ \cup {x}]
  /\ raising' = IF NeedsRaise(queue[c] = {})
                THEN [raising EXCEPT ![c] = @ \cup {x}] ELSE raising
  /\ oldReaders' = [oldReaders EXCEPT ![x] = reading]
  /\ UNCHANGED <<engineVars, reading, collected, pc, localVars>>

\* pendingEvent_.raise(): a dispatcher that was asleep goes on, whatever it
\* would find now.
RaisePending(x, c) ==
  /\ x \in raising[c]
  /\ raising' = [raising EXCEPT ![c] = @ \ {x}]
  /\ pc' = [pc EXCEPT ![c] = IF @ = "sleep" THEN "collect" ELSE @]
  /\ UNCHANGED <<engineVars, reading, phase, queue, collected, localVars, oldReaders>>

-----------------------------------------------------------------------------
(* RcuDispatcher::runLoop_().                                              *)

\* pendingEvent_.async_wait_if(): the test and the enqueueing are one step.
Poll(c) ==
  /\ pc[c] = "poll"
  /\ Goto(c, IF queue[c] = {} THEN "sleep" ELSE "collect")
  /\ UNCHANGED <<engineVars, reading, phase, raising, queue, collected, localVars, oldReaders>>

Collect(c) ==
  /\ pc[c] = "collect"
  /\ collected' = [collected EXCEPT ![c] = queue[c]]
  /\ queue' = [queue EXCEPT ![c] = {}]
  /\ Goto(c, IF queue[c] = {} THEN "poll" ELSE "load")
  /\ UNCHANGED <<engineVars, reading, phase, raising, localVars, oldReaders>>

\* A callable runs; after the last one the loop starts over (the locals of
\* barrier() are dead since it returned and get their initial values back).
Call(c) ==
  /\ pc[c] = "call"
  /\ \E x \in collected[c] :
       /\ phase' = [phase EXCEPT ![x] = "called"]
       /\ collected' = [collected EXCEPT ![c] = @ \ {x}]
       /\ Goto(c, IF collected[c] = {x} THEN "poll" ELSE "call")
  /\ s' = [s EXCEPT ![c] = 0] /\ current' = [current EXCEPT ![c] = Idle(0)]
  /\ UNCHANGED <<engineVars, reading, raising, queue, oldReaders>>

-----------------------------------------------------------------------------
(* RcuEngine::barrier().                                                   *)

SeqOf(v) == v.seq

Load(c) ==
  /\ pc[c] = "load"
  /\ s' = [s EXCEPT ![c] = SeqOf(state)]
  /\ current' = [current EXCEPT ![c] = state]
  /\ Goto(c, IF state.busy THEN "waitOld" ELSE "cas")
  /\ UNCHANGED <<engineVars, reading, phase, raising, queue, collected, oldReaders>>

\* seqEvent_.async_wait_if() in the loop at `from`: sleeps while state_ is v.
WaitWhile(c, from, v, sleep, done) ==
  /\ pc[c] = from
  /\ current' = [current EXCEPT ![c] = state]
  /\ Goto(c, IF state = v THEN sleep ELSE done)
  /\ UNCHANGED <<engineVars, reading, phase, raising, queue, collected, s, oldReaders>>

WaitOld(c) == WaitWhile(c, "waitOld", Busy(s[c]), "sleepOld", "cas")
WaitNew(c) == WaitWhile(c, "waitNew", Busy(s[c] + 1), "sleepNew", "call")

\* Mutant of Initiates: a store in place of the compare-and-exchange.
InitiatesUnchecked(c) == current[c] = Idle(s[c])
Initiates(c) == current[c] = Idle(s[c]) /\ state = current[c]

\* compare_exchange_strong() from s to ((s + 1) | stateBusy).
Cas(c) ==
  /\ pc[c] = "cas"
  /\ IF Initiates(c)
     THEN state' = Busy(s[c] + 1) /\ Goto(c, "spawn") /\ UNCHANGED current
     ELSE /\ current' = IF current[c] = Idle(s[c])
                        THEN [current EXCEPT ![c] = state] ELSE current
          /\ Goto(c, "other")
          /\ UNCHANGED state
  /\ UNCHANGED <<items, reading, phase, raising, queue, collected, s, oldReaders>>

\* transitionWg_.add() and one work item on the generalWorkQueue of each CPU.
Spawn(c) ==
  /\ pc[c] = "spawn"
  /\ items' = Cpus
  /\ Goto(c, "transition")
  /\ UNCHANGED <<state, reading, phase, raising, queue, collected, localVars, oldReaders>>

\* Mutant of MayRun: work items run with scheduling disabled.
MayRunAlways(k) == TRUE
MayRun(k) == k \notin reading

\* The work item of CPU k: a quiescent state of k, then transitionWg_.done().
RunItem(k) ==
  /\ k \in items /\ MayRun(k)
  /\ items' = items \ {k}
  /\ UNCHANGED <<state, reading, phase, raising, queue, collected, pc, localVars, oldReaders>>

\* transitionWg_.wait() completes.
Transition(c) ==
  /\ pc[c] = "transition" /\ items = {}
  /\ Goto(c, "publish")
  /\ UNCHANGED <<engineVars, reading, phase, raising, queue, collected, localVars, oldReaders>>

Publish(c) ==
  /\ pc[c] = "publish"
  /\ state' = Idle(s[c] + 1)
  /\ Goto(c, "raise")
  /\ UNCHANGED <<items, reading, phase, raising, queue, collected, localVars, oldReaders>>

\* Where seqEvent_.raise() resumes a dispatcher.
Resumed(p) == CASE p = "sleepOld" -> "waitOld" [] p = "sleepNew" -> "waitNew" [] OTHER -> p

RaiseSeq(c) ==
  /\ pc[c] = "raise"
  /\ pc' = [k \in Cpus |-> IF k = c THEN "call" ELSE Resumed(pc[k])]
  /\ UNCHANGED <<engineVars, reading, phase, raising, queue, collected, localVars, oldReaders>>

\* Another dispatcher initiated ((s + 1) | stateBusy).
Other(c) ==
  /\ pc[c] = "other"
  /\ Goto(c, IF current[c] = Busy(s[c] + 1) THEN "waitNew" ELSE "call")
  /\ UNCHANGED <<engineVars, reading, phase, raising, queue, collected, localVars, oldReaders>>

-----------------------------------------------------------------------------
DispatcherStep(c) ==
  \/ Poll(c) \/ Collect(c) \/ Call(c) \/ Load(c) \/ WaitOld(c) \/ WaitNew(c)
  \/ Cas(c) \/ Spawn(c) \/ Transition(c) \/ Publish(c) \/ RaiseSeq(c) \/ Other(c)

Next ==
  \/ \E c \in Cpus : EnterSection(c) \/ ExitSection(c) \/ RunItem(c) \/ DispatcherStep(c)
  \/ \E x \in Callables, c \in Cpus : Submit(x, c) \/ RaisePending(x, c)

Spec == Init /\ [][Next]_vars

-----------------------------------------------------------------------------
\* What barrier() guarantees (comment before RcuEngine::barrier()): a callable
\* runs only after every CPU that was in a critical section when it was
\* submitted has left that section.
GracePeriod ==
  \A x \in Callables : phase[x] = "called" => oldReaders[x] = {}

\* The two assertions of barrier(): whoever loses the race for the transition
\* finds the sequence number past s, and returns only at s + 1 or later.
BarrierAssertions ==
  \A c \in Cpus :
    /\ pc[c] = "other" => current[c].seq > s[c]
    /\ pc[c] = "call" /\ current[c].seq > s[c] =>
         current[c] = Idle(s[c] + 1) \/ current[c].seq > s[c] + 1

Initiators == {c \in Cpus : pc[c] \in {"spawn", "transition", "publish"}}

\* transitionWg_ is shared by all transitions: while state_ is busy exactly one
\* dispatcher is responsible for clearing it, and no work item of an earlier
\* transition is left when the next one begins.
OneTransition ==
  /\ state.busy <=> Initiators # {}
  /\ \A c \in Initiators : Initiators = {c} /\ state = Busy(s[c] + 1)
  /\ items # {} => \E c \in Initiators : pc[c] = "transition"

\* A dispatcher sleeps on seqEvent_ only while somebody is going to raise it.
NoLostSeqEvent ==
  \A c \in Cpus : pc[c] \in {"sleepOld", "sleepNew"} =>
    \E k \in Cpus : pc[k] \in {"spawn", "transition", "publish", "raise"}

\* Every submitted callable has run (what has to hold again and again: submit()
\* does not lose the wakeup of runLoop_(), and no barrier() waits for ever).
AllRun == \A x \in Callables : phase[x] # "submitted"
=============================================================================
