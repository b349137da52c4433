------------------------------- MODULE Thread -------------------------------
(***************************************************************************)
(* One thor thread: how it blocks, how it is unblocked, how conditions are *)
(* raised on it, how it is interrupted, resumed, migrated and terminated   *)
(* (kernel/thor/generic/thread.cpp, thor-internal/thread.hpp, traps.hpp).  *)
(*                                                                         *)
(* The thread itself is a process whose program counter is tpc.  Agents    *)
(* are everything that acts on it from other CPUs: completers of async     *)
(* operations, posters of worklets, the load balancer, owners of thread    *)
(* handles.  An agent's operation is one action per point at which the     *)
(* code releases the thread mutex or performs an atomic access without it. *)
(***************************************************************************)
EXTENDS FiniteSets

CONSTANTS Completers,  \* complete async operations (BlockingReceiver::set_value)
          Posters,     \* post worklets (WorkQueue::post)
          Raisers,     \* drop or use handles (dispose, interruptOther)
          Balancers,   \* load balancers (migrateOther)
          Resumers,    \* supervisors (resumeOther)
          Observers,   \* supervisors (observe)
          IrqConditions, \* conditions raised by interrupt handlers on the thread's CPU
          Cpus,        \* CPUs the thread may run on
          NoArg        \* no condition and no CPU

ASSUME ConstantsAssumption ==
  Cpus # {} /\ IrqConditions \subseteq {"cpuMigration", "interrupt", "terminate"}

Agents == Completers \cup Posters \cup Raisers \cup Balancers \cup Resumers

Wqs        == {"passiveWq", "exceptionalWq"}
Conditions == Wqs \cup {"cpuMigration", "interrupt", "terminate"}
CancelConditions == {"interrupt", "terminate"}

VARIABLES
  runState,           \* Thread::_runState
  cpu,                \* activeCpu_ while Active, the scheduler of the thread otherwise
  assignedCpu,        \* LbControlBlock::_assignedCpu
  unblockLatch,       \* _unblockLatch
  pendingConditions,  \* _pendingConditions
  unblockConditions,  \* unblockConditions_
  intrState,          \* intrState_
  observers,          \* state of each ObserveNode
  lockedQueue,        \* worklets queued on the two associated work queues
  ipi,                \* CPUs with an undelivered ping IPI
  tpc,                \* where the thread is
  opKind, ipl, interruptible, opState, done, outcome,  \* asyncBlockCurrent()
  curWq, wqReturn,    \* runWqs(): the queue it runs, and where it returns to
  entry,              \* how user mode was last entered (history)
  agentStep, agentArg  \* an agent's program counter, and the condition or CPU it acts on

threadVars == <<tpc, opKind, ipl, interruptible, curWq, wqReturn, entry>>
opVars     == <<opState, done, outcome>>
agentVars  == <<agentStep, agentArg>>
intrVars   == <<intrState, observers>>
placeVars  == <<cpu, assignedCpu, ipi>>
vars == <<runState, placeVars, unblockLatch, pendingConditions,
          unblockConditions, intrVars, lockedQueue, threadVars, opVars, agentVars>>

RunStates == {"Active", "Deferred", "Blocked", "Terminated"}
AgentSteps == {"idle", "latch", "unblock", "raise", "ping", "resumeEvent"}
ThreadPcs == {"user", "loop", "pend", "block", "blockLock", "wqRun", "wqClear",
              "wqCheck", "drain", "opDone", "exit", "exitCheck", "migrate",
              "intrEnter", "intrWait", "restore", "terminate", "dead"}

\* The Boolean state.
FlagsOK ==
  /\ unblockLatch \in BOOLEAN /\ interruptible \in BOOLEAN
  /\ done \in BOOLEAN /\ outcome \in BOOLEAN

\* The agents.
AgentsOK ==
  /\ agentStep \in [Agents -> AgentSteps]
  /\ agentArg \in [Agents -> Conditions \cup Cpus \cup {NoArg}]
  /\ \A a \in Agents : /\ agentStep[a] = "raise" => agentArg[a] \in Conditions
                       /\ agentStep[a] = "ping" => agentArg[a] \in Cpus

\* The other state.
StatesOK ==
  /\ runState \in RunStates
  /\ cpu \in Cpus /\ assignedCpu \in Cpus /\ ipi \subseteq Cpus
  /\ pendingConditions \subseteq Conditions
  /\ unblockConditions \subseteq Conditions
  /\ intrState \in {"none", "inInterrupt", "resumeFromInterrupt"}
  /\ observers \in [Observers -> {"idle", "queued", "interrupted", "exited"}]
  /\ lockedQueue \in [Wqs -> SUBSET {"work", "complete"}]
  /\ tpc \in ThreadPcs
  /\ opKind \in {"none", "syscall", "fault", "resume"}
  /\ ipl \in {"passive", "exceptional"}
  /\ opState \in {"none", "started", "posted"}
  /\ curWq \in Wqs /\ wqReturn \in {"loop", "drain"}
  /\ entry \in {"exitCheck", "restore"}

\* The values each piece of thread state may take (RunState, IntrState, Condition).
TypeOK == FlagsOK /\ AgentsOK /\ StatesOK

\* A new thread is in the schedule queue, about to run launchCurrent_().
Init ==
  /\ runState = "Deferred"
  /\ cpu \in Cpus /\ assignedCpu = cpu /\ ipi = {}
  /\ unblockLatch = FALSE
  /\ pendingConditions = {} /\ unblockConditions = {}
  /\ intrState = "inInterrupt"
  /\ observers = [o \in Observers |-> "idle"]
  /\ lockedQueue = [q \in Wqs |-> {}]
  /\ tpc = "intrWait"
  /\ opKind = "none" /\ ipl = "passive" /\ interruptible = FALSE
  /\ opState = "none" /\ done = FALSE /\ outcome = TRUE
  /\ curWq = "passiveWq" /\ wqReturn = "loop"
  /\ entry = "restore"
  /\ agentStep = [a \in Agents |-> "idle"]
  /\ agentArg = [a \in Agents |-> NoArg]

-----------------------------------------------------------------------------
(* Helpers.  Locals of the code (opKind, ..., wqReturn) take their initial   *)
(* values again when they go out of scope; unblockConditions_, which is only *)
(* read while the thread is Blocked, does so when the thread is unblocked.   *)

\* Conditions are dequeued in descending order of their bits.
Highest(p) ==
  CASE "terminate" \in p -> "terminate"
    [] "terminate" \notin p /\ "interrupt" \in p -> "interrupt"
    [] p \cap CancelConditions = {} /\ "exceptionalWq" \in p -> "exceptionalWq"
    [] p \cap (CancelConditions \cup {"exceptionalWq"}) = {} /\ "passiveWq" \in p -> "passiveWq"
    [] OTHER -> "cpuMigration"

\* Work queues that may run at the IPL of the blocking call.
WqConditions == IF ipl = "passive" THEN Wqs ELSE {"exceptionalWq"}

\* The wait for a resume masks condition::interrupt.
EffectiveCancel ==
  IF opKind = "resume" THEN CancelConditions \ {"interrupt"} ELSE CancelConditions

CheckedConditions ==
  WqConditions \cup (IF interruptible THEN EffectiveCancel ELSE {})

GoTo(a, s, arg) ==
  /\ agentStep' = [agentStep EXCEPT ![a] = s]
  /\ agentArg' = [agentArg EXCEPT ![a] = arg]

\* The thread executes an instruction of its own.
ThreadAt(l) == runState = "Active" /\ tpc = l

-----------------------------------------------------------------------------
(* The thread: entering the kernel. *)

\* A syscall or a page fault starts an async operation and waits for it.
\* The operation may complete inline, before the loop is entered.
StartOp(kind, intr, inline) ==
  /\ ThreadAt("user")
  /\ kind \in {"syscall", "fault"} /\ (kind = "fault" => ~intr)
  /\ opKind' = kind /\ interruptible' = intr
  /\ ipl' = IF kind = "fault" THEN "exceptional" ELSE "passive"
  /\ opState' = IF inline THEN "none" ELSE "started"
  /\ done' = inline /\ outcome' = TRUE
  /\ unblockLatch' = (unblockLatch \/ inline)
  /\ tpc' = "loop"
  /\ UNCHANGED <<runState, placeVars, pendingConditions, unblockConditions, intrVars,
                 lockedQueue, curWq, wqReturn, entry, agentVars>>

\* A syscall that yields (deferCurrent) or moves to a CPU of the affinity mask
\* (migrateCurrent): the thread is deferred inside of the kernel.
DeferCurrent(c) ==
  /\ ThreadAt("user")
  /\ runState' = "Deferred" /\ cpu' = c /\ tpc' = "exit"
  /\ UNCHANGED <<assignedCpu, ipi, unblockLatch, pendingConditions, unblockConditions,
                 intrVars, lockedQueue, opKind, ipl, interruptible, curWq, wqReturn,
                 entry, opVars, agentVars>>

\* A supercall (at passive IPL) or an unhandled fault (at exceptional IPL).
Trap(level) ==
  /\ ThreadAt("user")
  /\ tpc' = "intrEnter" /\ ipl' = level
  /\ UNCHANGED <<runState, placeVars, unblockLatch, pendingConditions, unblockConditions,
                 intrVars, lockedQueue, opKind, interruptible, curWq, wqReturn, entry,
                 opVars, agentVars>>

-----------------------------------------------------------------------------
(* The thread: asyncBlockCurrent(). *)

LoopDone ==
  /\ ThreadAt("loop")
  /\ tpc' = IF done THEN "opDone" ELSE "pend"
  /\ UNCHANGED <<runState, placeVars, unblockLatch, pendingConditions, unblockConditions,
                 intrVars, lockedQueue, opKind, ipl, interruptible, curWq, wqReturn,
                 entry, opVars, agentVars>>

\* ce.cancel(): the wait for a resume completes inline with outcome FALSE;
\* other operations complete inline or later.
CancelOp ==
  /\ interruptible' = FALSE /\ tpc' = "loop"
  /\ \/ /\ opState = "started"
        /\ opState' = "none" /\ done' = TRUE /\ outcome' = (opKind # "resume")
        /\ unblockLatch' = TRUE
     \/ /\ ~(opState = "started" /\ opKind = "resume")
        /\ UNCHANGED <<opVars, unblockLatch>>
  /\ UNCHANGED wqReturn

LoopPending ==
  /\ ThreadAt("pend")
  /\ \/ /\ pendingConditions \cap WqConditions # {}
        /\ tpc' = "wqRun" /\ wqReturn' = "loop"
        /\ UNCHANGED <<interruptible, opVars, unblockLatch>>
     \/ /\ pendingConditions \cap WqConditions = {}
        /\ interruptible /\ pendingConditions \cap EffectiveCancel # {}
        /\ CancelOp
     \/ /\ pendingConditions \cap CheckedConditions = {}
        /\ tpc' = "block"
        /\ UNCHANGED <<interruptible, wqReturn, opVars, unblockLatch>>
  /\ UNCHANGED <<runState, placeVars, pendingConditions, unblockConditions, intrVars,
                 lockedQueue, opKind, ipl, curWq, entry, agentVars>>

\* blockCurrent() clears the latch before it takes the mutex.
BlockLatch ==
  /\ ThreadAt("block")
  /\ unblockLatch' = FALSE
  /\ tpc' = IF unblockLatch THEN "loop" ELSE "blockLock"
  /\ UNCHANGED <<runState, placeVars, pendingConditions, unblockConditions, intrVars,
                 lockedQueue, opKind, ipl, interruptible, curWq, wqReturn, entry,
                 opVars, agentVars>>

\* Mutant of MustNotBlock: the latch is not checked again within the mutex.
MustNotBlockNoLatch == pendingConditions \cap CheckedConditions # {}

\* The latch and the conditions are checked again within the mutex.
MustNotBlock == unblockLatch \/ pendingConditions \cap CheckedConditions # {}

\* The part of blockCurrent() that holds the thread mutex.
BlockLock ==
  /\ ThreadAt("blockLock")
  /\ tpc' = "loop"
  /\ IF MustNotBlock
     THEN UNCHANGED <<runState, unblockConditions>>
     ELSE /\ runState' = "Blocked"
          /\ unblockConditions' = CheckedConditions
  /\ UNCHANGED <<placeVars, unblockLatch, pendingConditions, intrVars, lockedQueue,
                 opKind, ipl, interruptible, curWq, wqReturn, entry, opVars, agentVars>>

\* Return of asyncBlockCurrent(). A wait for a resume is repeated unless it was
\* cancelled, in which case the thread consumes condition::terminate.
OpDone ==
  /\ ThreadAt("opDone")
  /\ \/ /\ opKind # "resume"
        /\ tpc' = IF opKind = "fault" THEN "exitCheck" ELSE "exit"
        /\ UNCHANGED pendingConditions
     \/ /\ opKind = "resume" /\ outcome
        /\ tpc' = "intrWait"
        /\ UNCHANGED pendingConditions
     \/ /\ opKind = "resume" /\ ~outcome
        /\ pendingConditions' = pendingConditions \ {"terminate"}
        /\ tpc' = "terminate"
  /\ ipl' = IF opKind = "resume" THEN ipl ELSE "passive"
  /\ opKind' = "none" /\ interruptible' = FALSE /\ done' = FALSE /\ outcome' = TRUE
  /\ UNCHANGED <<runState, placeVars, unblockLatch, unblockConditions, intrVars, lockedQueue,
                 curWq, wqReturn, entry, opState, agentVars>>

-----------------------------------------------------------------------------
(* The thread: runWqs() and WorkQueue::run(). *)

\* WorkQueue::run() takes all worklets and runs them. A worklet that completes
\* the blocking operation calls unblockOther() on the running thread.
RunQueue(q) ==
  /\ lockedQueue' = [lockedQueue EXCEPT ![q] = {}]
  /\ IF "complete" \in lockedQueue[q]
     THEN done' = TRUE /\ opState' = "none" /\ unblockLatch' = TRUE
     ELSE UNCHANGED <<done, opState, unblockLatch>>
  /\ UNCHANGED outcome

WqRun ==
  /\ ThreadAt("wqRun")
  /\ LET q == IF "exceptionalWq" \in pendingConditions THEN "exceptionalWq" ELSE "passiveWq"
     IN curWq' = q /\ RunQueue(q)
  /\ tpc' = "wqClear"
  /\ UNCHANGED <<runState, placeVars, pendingConditions, unblockConditions, intrVars,
                 opKind, ipl, interruptible, wqReturn, entry, agentVars>>

WqClear ==
  /\ ThreadAt("wqClear")
  /\ pendingConditions' = pendingConditions \ {curWq}
  /\ tpc' = "wqCheck"
  /\ UNCHANGED <<runState, placeVars, unblockLatch, unblockConditions, intrVars, lockedQueue,
                 opKind, ipl, interruptible, curWq, wqReturn, entry, opVars, agentVars>>

\* Re-check after clearing the condition as work may have been queued.
WqCheck ==
  /\ ThreadAt("wqCheck")
  /\ RunQueue(curWq)
  /\ tpc' = wqReturn /\ curWq' = "passiveWq" /\ wqReturn' = "loop"
  /\ UNCHANGED <<runState, placeVars, pendingConditions, unblockConditions, intrVars,
                 opKind, ipl, interruptible, entry, agentVars>>

\* drainWqs()
Drain ==
  /\ ThreadAt("drain")
  /\ IF pendingConditions \cap Wqs # {}
     THEN tpc' = "wqRun" /\ wqReturn' = "drain"
     ELSE tpc' = "exit" /\ UNCHANGED wqReturn
  /\ UNCHANGED <<runState, placeVars, unblockLatch, pendingConditions, unblockConditions,
                 intrVars, lockedQueue, opKind, ipl, interruptible, curWq, entry, opVars,
                 agentVars>>

-----------------------------------------------------------------------------
(* The thread: leaving the kernel. *)

\* genericHandleConditions(): dequeue the highest pending condition.
HandleConditions ==
  /\ ThreadAt("exit")
  /\ LET c == Highest(pendingConditions)
     IN IF pendingConditions = {}
        THEN tpc' = "exitCheck" /\ UNCHANGED pendingConditions
        ELSE IF c \in Wqs
        THEN tpc' = "drain" /\ UNCHANGED pendingConditions
        ELSE /\ pendingConditions' = pendingConditions \ {c}
             /\ tpc' = CASE c = "cpuMigration" -> "migrate"
                         [] c = "interrupt" -> "intrEnter"
                         [] c = "terminate" -> "terminate"
  /\ UNCHANGED <<runState, placeVars, unblockLatch, unblockConditions, intrVars, lockedQueue,
                 opKind, ipl, interruptible, curWq, wqReturn, entry, opVars, agentVars>>

\* Mutant of MayReturn: user mode is entered without the last check.
MayReturnUnchecked == TRUE

MayReturn == pendingConditions = {}

\* The last check before user mode, made with interrupts disabled.
ExitCheck ==
  /\ ThreadAt("exitCheck")
  /\ IF MayReturn
     THEN tpc' = "user" /\ entry' = "exitCheck"
     ELSE tpc' = "exit" /\ UNCHANGED entry
  /\ UNCHANGED <<runState, placeVars, unblockLatch, pendingConditions, unblockConditions,
                 intrVars, lockedQueue, opKind, ipl, interruptible, curWq, wqReturn, opVars,
                 agentVars>>

\* migrateCurrentToAssignedCpu(): the saved executor is the user image, so the
\* thread continues in user mode on the other CPU.
Migrate ==
  /\ ThreadAt("migrate")
  /\ IF assignedCpu = cpu
     THEN tpc' = "exit" /\ UNCHANGED <<runState, cpu, entry>>
     ELSE /\ runState' = "Deferred" /\ cpu' = assignedCpu
          /\ tpc' = "user" /\ entry' = "restore"
  /\ UNCHANGED <<assignedCpu, ipi, unblockLatch, pendingConditions, unblockConditions,
                 intrVars, lockedQueue, opKind, ipl, interruptible, curWq, wqReturn, opVars,
                 agentVars>>

\* Mutant of Notify: the observe queue is not spliced.
NotifyNobody(result) == UNCHANGED observers

\* The observe queue is spliced within the mutex and its nodes complete.
Notify(result) ==
  observers' = [o \in Observers |-> IF observers[o] = "queued" THEN result ELSE observers[o]]

\* genericInterruptCurrent() up to the wait.
InterruptCurrent ==
  /\ ThreadAt("intrEnter")
  /\ intrState' = "inInterrupt" /\ Notify("interrupted")
  /\ tpc' = "intrWait"
  /\ UNCHANGED <<runState, placeVars, unblockLatch, pendingConditions, unblockConditions,
                 lockedQueue, opKind, ipl, interruptible, curWq, wqReturn, entry, opVars,
                 agentVars>>

\* The wait on resumeEvent_ of genericInterruptCurrent() and launchCurrent_():
\* the predicate of async_wait_if() consumes resumeFromInterrupt.
InterruptWait ==
  /\ ThreadAt("intrWait")
  /\ IF intrState = "inInterrupt"
     THEN /\ opKind' = "resume" /\ opState' = "started"
          /\ done' = FALSE /\ outcome' = TRUE /\ interruptible' = TRUE
          /\ tpc' = "loop"
          /\ UNCHANGED <<intrVars, unblockLatch>>
     ELSE /\ intrState' = "none" /\ unblockLatch' = TRUE /\ tpc' = "restore"
          /\ UNCHANGED <<observers, opKind, interruptible, opVars>>
  /\ UNCHANGED <<runState, placeVars, pendingConditions, unblockConditions, lockedQueue,
                 ipl, curWq, wqReturn, entry, agentVars>>

\* restoreExecutor(&intrImage_): straight to user mode.
Restore ==
  /\ ThreadAt("restore")
  /\ tpc' = "user" /\ entry' = "restore" /\ ipl' = "passive"
  /\ UNCHANGED <<runState, placeVars, unblockLatch, pendingConditions, unblockConditions,
                 intrVars, lockedQueue, opKind, interruptible, curWq, wqReturn, opVars,
                 agentVars>>

TerminateCurrent ==
  /\ ThreadAt("terminate")
  /\ runState' = "Terminated" /\ tpc' = "dead" /\ ipl' = "passive"
  /\ Notify("exited")
  /\ UNCHANGED <<placeVars, unblockLatch, pendingConditions, unblockConditions, intrState,
                 lockedQueue, opKind, interruptible, curWq, wqReturn, entry, opVars,
                 agentVars>>

-----------------------------------------------------------------------------
(* The CPU of the thread: scheduling, interrupts and IPIs. *)

Invoke ==
  /\ runState = "Deferred"
  /\ runState' = "Active"
  /\ UNCHANGED <<placeVars, unblockLatch, pendingConditions, unblockConditions, intrVars,
                 lockedQueue, threadVars, opVars, agentVars>>

\* handlePreemption(): a thread in the kernel is deferred where it is.
Preempt ==
  /\ runState = "Active" /\ tpc # "user"
  /\ runState' = "Deferred"
  /\ UNCHANGED <<placeVars, unblockLatch, pendingConditions, unblockConditions, intrVars,
                 lockedQueue, threadVars, opVars, agentVars>>

\* An interrupt on the thread's CPU; from user mode, it leaves through the
\* checks for preemption and for conditions.
Irq ==
  /\ ThreadAt("user")
  /\ tpc' = "exitCheck"
  /\ UNCHANGED <<runState, placeVars, unblockLatch, pendingConditions, unblockConditions,
                 intrVars, lockedQueue, opKind, ipl, interruptible, curWq, wqReturn, entry,
                 opVars, agentVars>>

\* raiseCondition_() in an interrupt handler on the thread's own CPU.
IrqRaise(c) ==
  /\ runState = "Active"
  /\ pendingConditions' = pendingConditions \cup {c}
  /\ tpc' = IF tpc = "user" THEN "exitCheck" ELSE tpc
  /\ UNCHANGED <<runState, placeVars, unblockLatch, unblockConditions, intrVars, lockedQueue,
                 opKind, ipl, interruptible, curWq, wqReturn, entry, opVars, agentVars>>

\* onPlatformPing()
DeliverPing(c) ==
  /\ c \in ipi
  /\ ipi' = ipi \ {c}
  /\ tpc' = IF ThreadAt("user") /\ cpu = c THEN "exitCheck" ELSE tpc
  /\ UNCHANGED <<runState, cpu, assignedCpu, unblockLatch, pendingConditions,
                 unblockConditions, intrVars, lockedQueue, opKind, ipl, interruptible, curWq,
                 wqReturn, entry, opVars, agentVars>>

-----------------------------------------------------------------------------
(* Agents. *)

\* BlockingReceiver::set_value() up to Thread::unblockOther().
Complete(a) ==
  /\ agentStep[a] = "idle"
  /\ opState = "started" /\ opKind # "resume"
  /\ done' = TRUE /\ opState' = "none" /\ UNCHANGED outcome
  /\ GoTo(a, "latch", NoArg)
  /\ UNCHANGED <<runState, placeVars, unblockLatch, pendingConditions, unblockConditions,
                 intrVars, lockedQueue, threadVars>>

\* Mutant of NeedsWakeup: one wakeup is thought to serve both work queues.
NeedsWakeupOnce(q) == \A p \in Wqs : lockedQueue[p] = {}

NeedsWakeup(q) == lockedQueue[q] = {}

\* WorkQueue::post() from another context; wakeup() if the queue was empty.
Post(a, q, w) ==
  /\ agentStep[a] = "idle"
  /\ lockedQueue' = [lockedQueue EXCEPT ![q] = @ \cup {w}]
  /\ IF NeedsWakeup(q)
     THEN GoTo(a, "raise", q)
     ELSE UNCHANGED agentVars
  /\ UNCHANGED <<runState, placeVars, unblockLatch, pendingConditions, unblockConditions,
                 intrVars, threadVars, done, outcome>>

PostWork(a, q) == Post(a, q, "work") /\ UNCHANGED opState

\* The operation finishes through a worklet on the queue it was given.
PostCompletion(a, q) ==
  /\ opState = "started" /\ opKind # "resume" /\ q \in WqConditions
  /\ opState' = "posted"
  /\ Post(a, q, "complete")

\* interruptOther() and dispose() enter raiseCondition_().
BeginRaise(a, c) ==
  /\ agentStep[a] = "idle"
  /\ GoTo(a, "raise", c)
  /\ UNCHANGED <<runState, placeVars, unblockLatch, pendingConditions, unblockConditions,
                 intrVars, lockedQueue, threadVars, opVars>>

\* The load balancer assigns a CPU and calls migrateOther().
BalanceLoad(a, c) ==
  /\ agentStep[a] = "idle"
  /\ assignedCpu' = c
  /\ GoTo(a, "raise", "cpuMigration")
  /\ UNCHANGED <<runState, cpu, ipi, unblockLatch, pendingConditions, unblockConditions,
                 intrVars, lockedQueue, threadVars, opVars>>

\* Mutant of NotifiesBlocked: a blocked thread is not unblocked to notice the condition.
NotifiesNever(c) == FALSE

NotifiesBlocked(c) == runState = "Blocked" /\ c \in unblockConditions

\* The part of raiseCondition_() that holds the thread mutex.
Raise(a) ==
  /\ agentStep[a] = "raise"
  /\ LET c == agentArg[a]
     IN /\ pendingConditions' = pendingConditions \cup {c}
        /\ IF c \in pendingConditions
           THEN GoTo(a, "idle", NoArg)
           ELSE \/ /\ runState = "Active" /\ pendingConditions = {}
                   /\ GoTo(a, "ping", cpu)
                \/ /\ NotifiesBlocked(c)
                   /\ GoTo(a, "latch", NoArg)
                \/ /\ ~(runState = "Active" /\ pendingConditions = {})
                   /\ ~NotifiesBlocked(c)
                   /\ GoTo(a, "idle", NoArg)
  /\ UNCHANGED <<runState, placeVars, unblockLatch, unblockConditions, intrVars, lockedQueue,
                 threadVars, opVars>>

Ping(a) ==
  /\ agentStep[a] = "ping"
  /\ ipi' = ipi \cup {agentArg[a]}
  /\ GoTo(a, "idle", NoArg)
  /\ UNCHANGED <<runState, cpu, assignedCpu, unblockLatch, pendingConditions,
                 unblockConditions, intrVars, lockedQueue, threadVars, opVars>>

\* unblockOther(): only a 0-1 transition of the latch goes on to the mutex.
Latch(a) ==
  /\ agentStep[a] = "latch"
  /\ unblockLatch' = TRUE
  /\ GoTo(a, IF unblockLatch THEN "idle" ELSE "unblock", NoArg)
  /\ UNCHANGED <<runState, placeVars, pendingConditions, unblockConditions, intrVars,
                 lockedQueue, threadVars, opVars>>

Unblock(a) ==
  /\ agentStep[a] = "unblock"
  /\ IF runState = "Blocked"
     THEN runState' = "Deferred" /\ unblockConditions' = {}
     ELSE UNCHANGED <<runState, unblockConditions>>
  /\ GoTo(a, "idle", NoArg)
  /\ UNCHANGED <<placeVars, unblockLatch, pendingConditions, intrVars, lockedQueue,
                 threadVars, opVars>>

\* Mutant of Resumable: a thread that is not interrupted can be resumed.
ResumableAlways == runState # "Terminated"

Resumable == runState # "Terminated" /\ intrState = "inInterrupt"

\* resumeOther() when it does not return an error.
ResumeOther(a) ==
  /\ agentStep[a] = "idle"
  /\ Resumable
  /\ intrState' = "resumeFromInterrupt"
  /\ GoTo(a, "resumeEvent", NoArg)
  /\ UNCHANGED <<runState, placeVars, unblockLatch, pendingConditions, unblockConditions,
                 observers, lockedQueue, threadVars, opVars>>

\* resumeEvent_.raise(), outside of the mutex: completes the wait if it is queued.
ResumeEvent(a) ==
  /\ agentStep[a] = "resumeEvent"
  /\ IF opState = "started" /\ opKind = "resume"
     THEN done' = TRUE /\ opState' = "none" /\ outcome' = TRUE /\ GoTo(a, "latch", NoArg)
     ELSE GoTo(a, "idle", NoArg) /\ UNCHANGED opVars
  /\ UNCHANGED <<runState, placeVars, unblockLatch, pendingConditions, unblockConditions,
                 intrVars, lockedQueue, threadVars>>

Observe(o) ==
  /\ observers[o] # "queued"
  /\ observers' = [observers EXCEPT ![o] =
       IF runState = "Terminated" THEN "exited"
       ELSE IF intrState = "inInterrupt" THEN "interrupted" ELSE "queued"]
  /\ UNCHANGED <<runState, placeVars, unblockLatch, pendingConditions, unblockConditions,
                 intrState, lockedQueue, threadVars, opVars, agentVars>>

-----------------------------------------------------------------------------
ThreadStep ==
  \/ LoopDone \/ LoopPending \/ BlockLatch \/ BlockLock \/ OpDone
  \/ WqRun \/ WqClear \/ WqCheck \/ Drain
  \/ HandleConditions \/ ExitCheck \/ Migrate
  \/ InterruptCurrent \/ InterruptWait \/ Restore \/ TerminateCurrent

EnterKernel ==
  \/ \E kind \in {"syscall", "fault"}, intr, inline \in BOOLEAN : StartOp(kind, intr, inline)
  \/ \E c \in Cpus : DeferCurrent(c)
  \/ \E level \in {"passive", "exceptional"} : Trap(level)

AgentStep(a) ==
  \/ Raise(a) \/ Ping(a) \/ Latch(a) \/ Unblock(a) \/ ResumeEvent(a)

AgentStart ==
  \/ \E a \in Completers : Complete(a)
  \/ \E a \in Completers, q \in Wqs : PostCompletion(a, q)
  \/ \E a \in Posters, q \in Wqs : PostWork(a, q)
  \/ \E a \in Raisers, c \in CancelConditions : BeginRaise(a, c)
  \/ \E a \in Balancers, c \in Cpus : BalanceLoad(a, c)
  \/ \E a \in Resumers : ResumeOther(a)

Next ==
  \/ ThreadStep \/ EnterKernel
  \/ Invoke \/ Preempt \/ Irq
  \/ \E c \in IrqConditions : IrqRaise(c)
  \/ \E c \in Cpus : DeliverPing(c)
  \/ \E a \in Agents : AgentStep(a)
  \/ AgentStart
  \/ \E o \in Observers : Observe(o)

Spec == Init /\ [][Next]_vars

\* The scheduler runs the thread again and again, agents finish what they began,
\* IPIs arrive, and an operation that cannot or can no longer be cancelled completes.
Fairness ==
  /\ SF_vars(ThreadStep) /\ WF_vars(Invoke)
  /\ \A a \in Agents : WF_vars(AgentStep(a))
  /\ \A c \in Cpus : WF_vars(DeliverPing(c))
  /\ WF_vars(~interruptible /\ \E a \in Completers : Complete(a))

\* The load balancer wakes every CPU periodically (run_() in load-balancing.cpp):
\* a thread that is in user mode again and again is interrupted there eventually.
TickingSpec == Spec /\ Fairness /\ SF_vars(Irq)

-----------------------------------------------------------------------------
(* Properties. *)

\* A blocked thread never misses a wakeup: whenever its operation is done, its latch
\* is set or a condition it waits for is pending, an unblockOther() call is under way
\* (comment on _unblockLatch: "we never block when we should not").
NoLostWakeup ==
  /\ runState = "Blocked"
  /\ done \/ unblockLatch \/ pendingConditions \cap unblockConditions # {}
  => \E a \in Agents : agentStep[a] \in {"latch", "unblock"}

\* Worklets are never forgotten: while a work queue of the thread is not empty, its
\* condition is pending, or wakeup() is about to raise it, or runWqs() is about to
\* check the queue again.
WorkNotStranded ==
  \A q \in Wqs : lockedQueue[q] # {} =>
    \/ q \in pendingConditions
    \/ \E a \in Agents : agentStep[a] = "raise" /\ agentArg[a] = q
    \/ tpc = "wqCheck" /\ curWq = q

Pinged(c) ==
  c \in ipi \/ \E a \in Agents : agentStep[a] = "ping" /\ agentArg[a] = c

\* A thread that entered user mode through the check of the kernel exit path and has
\* a pending condition is always about to be interrupted by a ping on its CPU,
\* although raiseCondition_() suppresses all but the first ping.
ExitPathNotified ==
  tpc = "user" /\ entry = "exitCheck" /\ pendingConditions # {} => Pinged(cpu)

\* The assertions of genericInterruptCurrent(): the thread is not in an interrupt when
\* it enters one, a resume is consumed exactly once, whoever calls resumeOther(), and
\* only condition::terminate cancels the wait for a resume and is still pending then.
InterruptsDoNotNest ==
  /\ tpc \in {"user", "exit", "exitCheck", "intrEnter", "restore", "migrate"}
       => intrState = "none"
  /\ tpc = "intrWait" => intrState # "none"
  /\ tpc = "opDone" /\ opKind = "resume" /\ ~outcome => "terminate" \in pendingConditions

\* No observer stays queued on a thread that is in an interrupt or terminated.
NoForgottenObserver ==
  \A o \in Observers : observers[o] = "queued" =>
    runState # "Terminated" /\ intrState # "inInterrupt"

\* A completed operation returns to its caller, a resumed thread leaves the interrupt
\* and a thread whose last handle is dropped terminates, whatever it is doing (as long
\* as worklets are not posted to it forever: the run has no Posters).
ThreadProgress ==
  /\ []<>~done
  /\ []<>(intrState # "resumeFromInterrupt" \/ runState = "Terminated")
  /\ []<>("terminate" \in pendingConditions \/ tpc = "terminate" => runState = "Terminated")

\* What raiseCondition_() counts on when the thread runs on its own CPU, "we rely on
\* handleConditions_() on kernel exit code paths": no thread is in user mode with a
\* pending condition unless a ping is about to arrive.
UserModeNotified ==
  ThreadAt("user") /\ pendingConditions # {} => Pinged(cpu)
=============================================================================
