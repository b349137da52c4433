---------------------------- MODULE ThreadProofs ----------------------------
(***************************************************************************)
(* Proofs about Thread for any number of agents, observers and CPUs.       *)
(*                                                                         *)
(* NoLostWakeup is not inductive: it says that some unblockOther() call is *)
(* under way, but not which half of it, and nothing about a thread that is *)
(* on its way into blockCurrent().  WakeupInv adds both.                   *)
(***************************************************************************)
EXTENDS Thread, TLAPS

\* The type invariant holds of a new thread.
LEMMA TypeInit == Init => TypeOK
  BY Zenon, ConstantsAssumption
     DEF Init, TypeOK, FlagsOK, AgentsOK, StatesOK, RunStates, Wqs, Conditions, ThreadPcs,
         AgentSteps

\* No step makes a Boolean flag of the thread something else.
LEMMA FlagsStep == FlagsOK /\ [Next]_vars => FlagsOK'
<1> SUFFICES ASSUME FlagsOK, [Next]_vars PROVE FlagsOK'
  OBVIOUS
<1> USE DEF FlagsOK, threadVars, opVars
<1>1. CASE LoopDone
  BY <1>1 DEF LoopDone
<1>2. CASE LoopPending
  BY Zenon, <1>2 DEF LoopPending, CancelOp
<1>3. CASE BlockLatch
  BY Zenon, <1>3 DEF BlockLatch
<1>4. CASE BlockLock
  BY <1>4 DEF BlockLock, MustNotBlock
<1>5. CASE OpDone
  BY Zenon, <1>5 DEF OpDone
<1>6. CASE WqRun
  BY Zenon, <1>6 DEF WqRun, RunQueue
<1>7. CASE WqClear
  BY <1>7 DEF WqClear
<1>8. CASE WqCheck
  BY Zenon, <1>8 DEF WqCheck, RunQueue
<1>9. CASE Drain
  BY <1>9 DEF Drain
<1>10. CASE HandleConditions
  BY <1>10 DEF HandleConditions
<1>11. CASE ExitCheck
  BY <1>11 DEF ExitCheck, MayReturn
<1>12. CASE Migrate
  BY <1>12 DEF Migrate
<1>13. CASE InterruptCurrent
  BY <1>13 DEF InterruptCurrent, Notify
<1>14. CASE InterruptWait
  BY Zenon, <1>14 DEF InterruptWait
<1>15. CASE Restore
  BY <1>15 DEF Restore
<1>16. CASE TerminateCurrent
  BY <1>16 DEF TerminateCurrent, Notify
<1>17. ASSUME NEW kind, NEW intr \in BOOLEAN, NEW inline \in BOOLEAN, StartOp(kind, intr, inline) PROVE FlagsOK'
  BY Zenon, <1>17 DEF StartOp
<1>18. ASSUME NEW c \in Cpus, DeferCurrent(c) PROVE FlagsOK'
  BY <1>18 DEF DeferCurrent
<1>19. ASSUME NEW level \in {"passive", "exceptional"}, Trap(level) PROVE FlagsOK'
  BY <1>19 DEF Trap
<1>20. CASE Invoke
  BY <1>20 DEF Invoke
<1>21. CASE Preempt
  BY <1>21 DEF Preempt
<1>22. CASE Irq
  BY <1>22 DEF Irq
<1>23. ASSUME NEW c \in IrqConditions, IrqRaise(c) PROVE FlagsOK'
  BY <1>23 DEF IrqRaise
<1>24. ASSUME NEW c \in Cpus, DeliverPing(c) PROVE FlagsOK'
  BY <1>24 DEF DeliverPing
<1>25. ASSUME NEW a \in Agents, Raise(a) PROVE FlagsOK'
  BY <1>25 DEF Raise
<1>26. ASSUME NEW a \in Agents, Ping(a) PROVE FlagsOK'
  BY <1>26 DEF Ping
<1>27. ASSUME NEW a \in Agents, Latch(a) PROVE FlagsOK'
  BY Zenon, <1>27 DEF Latch
<1>28. ASSUME NEW a \in Agents, Unblock(a) PROVE FlagsOK'
  BY <1>28 DEF Unblock
<1>29. ASSUME NEW a \in Agents, ResumeEvent(a) PROVE FlagsOK'
  BY Zenon, <1>29 DEF ResumeEvent
<1>30. ASSUME NEW a \in Agents, Complete(a) PROVE FlagsOK'
  BY Zenon, <1>30 DEF Complete
<1>31. ASSUME NEW a \in Agents, NEW q \in Wqs, PostCompletion(a, q) PROVE FlagsOK'
  BY <1>31 DEF PostCompletion, Post
<1>32. ASSUME NEW a \in Agents, NEW q \in Wqs, PostWork(a, q) PROVE FlagsOK'
  BY <1>32 DEF PostWork, Post
<1>33. ASSUME NEW a \in Agents, NEW c \in CancelConditions, BeginRaise(a, c) PROVE FlagsOK'
  BY <1>33 DEF BeginRaise
<1>34. ASSUME NEW a \in Agents, NEW c \in Cpus, BalanceLoad(a, c) PROVE FlagsOK'
  BY <1>34 DEF BalanceLoad
<1>35. ASSUME NEW a \in Agents, ResumeOther(a) PROVE FlagsOK'
  BY <1>35 DEF ResumeOther, Resumable
<1>36. ASSUME NEW o \in Observers, Observe(o) PROVE FlagsOK'
  BY <1>36 DEF Observe
<1>37. CASE UNCHANGED vars
  BY <1>37 DEF vars
<1> HIDE DEF FlagsOK, threadVars, opVars
<1> QED
  BY <1>1, <1>2, <1>3, <1>4, <1>5, <1>6, <1>7, <1>8, <1>9, <1>10, <1>11, <1>12, <1>13,
     <1>14, <1>15, <1>16, <1>17, <1>18, <1>19, <1>20, <1>21, <1>22, <1>23, <1>24, <1>25,
     <1>26, <1>27, <1>28, <1>29, <1>30, <1>31, <1>32, <1>33, <1>34, <1>35, <1>36, <1>37
  DEF Next, ThreadStep, EnterKernel, AgentStep, AgentStart, Agents

\* Every step keeps the agents within their type.
LEMMA AgentsStep == TypeOK /\ [Next]_vars => AgentsOK'
<1> SUFFICES ASSUME AgentsOK, cpu \in Cpus, [Next]_vars PROVE AgentsOK'
  BY DEF TypeOK, StatesOK
<1> USE DEF AgentsOK, agentVars, AgentSteps
<1>1. CASE LoopDone
  BY <1>1 DEF LoopDone
<1>2. CASE LoopPending
  BY <1>2 DEF LoopPending, CancelOp
<1>3. CASE BlockLatch
  BY <1>3 DEF BlockLatch
<1>4. CASE BlockLock
  BY <1>4 DEF BlockLock, MustNotBlock
<1>5. CASE OpDone
  BY <1>5 DEF OpDone
<1>6. CASE WqRun
  BY <1>6 DEF WqRun, RunQueue
<1>7. CASE WqClear
  BY <1>7 DEF WqClear
<1>8. CASE WqCheck
  BY <1>8 DEF WqCheck, RunQueue
<1>9. CASE Drain
  BY <1>9 DEF Drain
<1>10. CASE HandleConditions
  BY <1>10 DEF HandleConditions
<1>11. CASE ExitCheck
  BY <1>11 DEF ExitCheck, MayReturn
<1>12. CASE Migrate
  BY <1>12 DEF Migrate
<1>13. CASE InterruptCurrent
  BY <1>13 DEF InterruptCurrent, Notify
<1>14. CASE InterruptWait
  BY <1>14 DEF InterruptWait
<1>15. CASE Restore
  BY <1>15 DEF Restore
<1>16. CASE TerminateCurrent
  BY <1>16 DEF TerminateCurrent, Notify
<1>17. ASSUME NEW kind, NEW intr \in BOOLEAN, NEW inline \in BOOLEAN, StartOp(kind, intr, inline) PROVE AgentsOK'
  BY <1>17 DEF StartOp
<1>18. ASSUME NEW c \in Cpus, DeferCurrent(c) PROVE AgentsOK'
  BY <1>18 DEF DeferCurrent
<1>19. ASSUME NEW level \in {"passive", "exceptional"}, Trap(level) PROVE AgentsOK'
  BY <1>19 DEF Trap
<1>20. CASE Invoke
  BY <1>20 DEF Invoke
<1>21. CASE Preempt
  BY <1>21 DEF Preempt
<1>22. CASE Irq
  BY <1>22 DEF Irq
<1>23. ASSUME NEW c \in IrqConditions, IrqRaise(c) PROVE AgentsOK'
  BY <1>23 DEF IrqRaise
<1>24. ASSUME NEW c \in Cpus, DeliverPing(c) PROVE AgentsOK'
  BY <1>24 DEF DeliverPing
<1>25. ASSUME NEW a \in Agents, Raise(a) PROVE AgentsOK'
  BY <1>25 DEF Raise, NotifiesBlocked, GoTo
<1>26. ASSUME NEW a \in Agents, Ping(a) PROVE AgentsOK'
  BY <1>26 DEF Ping, GoTo
<1>27. ASSUME NEW a \in Agents, Latch(a) PROVE AgentsOK'
  BY <1>27 DEF Latch, GoTo
<1>28. ASSUME NEW a \in Agents, Unblock(a) PROVE AgentsOK'
  BY <1>28 DEF Unblock, GoTo
<1>29. ASSUME NEW a \in Agents, ResumeEvent(a) PROVE AgentsOK'
  BY <1>29 DEF ResumeEvent, GoTo
<1>30. ASSUME NEW a \in Agents, Complete(a) PROVE AgentsOK'
  BY <1>30 DEF Complete, GoTo
<1>31. ASSUME NEW a \in Agents, NEW q \in Wqs, PostCompletion(a, q) PROVE AgentsOK'
  BY <1>31 DEF PostCompletion, Post, NeedsWakeup, Conditions, GoTo
<1>32. ASSUME NEW a \in Agents, NEW q \in Wqs, PostWork(a, q) PROVE AgentsOK'
  BY <1>32 DEF PostWork, Post, NeedsWakeup, Conditions, GoTo
<1>33. ASSUME NEW a \in Agents, NEW c \in CancelConditions, BeginRaise(a, c) PROVE AgentsOK'
  BY <1>33 DEF BeginRaise, Conditions, CancelConditions, GoTo
<1>34. ASSUME NEW a \in Agents, NEW c \in Cpus, BalanceLoad(a, c) PROVE AgentsOK'
  BY <1>34 DEF BalanceLoad, Conditions, GoTo
<1>35. ASSUME NEW a \in Agents, ResumeOther(a) PROVE AgentsOK'
  BY <1>35 DEF ResumeOther, Resumable, GoTo
<1>36. ASSUME NEW o \in Observers, Observe(o) PROVE AgentsOK'
  BY <1>36 DEF Observe
<1>37. CASE UNCHANGED vars
  BY <1>37 DEF vars
<1> HIDE DEF AgentsOK, agentVars, AgentSteps
<1> QED
  BY <1>1, <1>2, <1>3, <1>4, <1>5, <1>6, <1>7, <1>8, <1>9, <1>10, <1>11, <1>12, <1>13,
     <1>14, <1>15, <1>16, <1>17, <1>18, <1>19, <1>20, <1>21, <1>22, <1>23, <1>24, <1>25,
     <1>26, <1>27, <1>28, <1>29, <1>30, <1>31, <1>32, <1>33, <1>34, <1>35, <1>36, <1>37
  DEF Next, ThreadStep, EnterKernel, AgentStep, AgentStart, Agents

\* Every step keeps the rest of the state within its type.
LEMMA StatesStep == TypeOK /\ [Next]_vars => StatesOK'
<1> SUFFICES ASSUME AgentsOK, StatesOK, [Next]_vars PROVE StatesOK'
  BY DEF TypeOK
<1> USE DEF StatesOK, RunStates, Wqs, Conditions, ThreadPcs, threadVars, opVars, intrVars, placeVars
<1>1. CASE LoopDone
  BY <1>1 DEF LoopDone, ThreadAt
<1>2. CASE LoopPending
  BY <1>2 DEF LoopPending, CancelOp, ThreadAt
<1>3. CASE BlockLatch
  BY <1>3 DEF BlockLatch, ThreadAt
<1>4. CASE BlockLock
  <2>1. CheckedConditions \subseteq Conditions
    BY DEF CheckedConditions, WqConditions, EffectiveCancel, CancelConditions
  <2>2. runState' \in RunStates /\ unblockConditions' \subseteq Conditions
    BY Zenon, <1>4, <2>1 DEF BlockLock
  <2> QED
    BY <1>4, <2>2 DEF BlockLock
<1>5. CASE OpDone
  <2>1. pendingConditions' \subseteq Conditions
    BY Zenon, <1>5 DEF OpDone
  <2>2. tpc' \in ThreadPcs
    BY <1>5 DEF OpDone
  <2> QED
    BY <1>5, <2>1, <2>2 DEF OpDone
<1>6. CASE WqRun
  BY <1>6 DEF WqRun, RunQueue, ThreadAt
<1>7. CASE WqClear
  BY <1>7 DEF WqClear, ThreadAt
<1>8. CASE WqCheck
  BY <1>8 DEF WqCheck, RunQueue, ThreadAt
<1>9. CASE Drain
  BY <1>9 DEF Drain, ThreadAt
<1>10. CASE HandleConditions
  BY <1>10 DEF HandleConditions, Highest, ThreadAt
<1>11. CASE ExitCheck
  BY <1>11 DEF ExitCheck, MayReturn, ThreadAt
<1>12. CASE Migrate
  BY <1>12 DEF Migrate, ThreadAt
<1>13. CASE InterruptCurrent
  BY <1>13 DEF InterruptCurrent, Notify, ThreadAt
<1>14. CASE InterruptWait
  BY <1>14 DEF InterruptWait, ThreadAt
<1>15. CASE Restore
  BY <1>15 DEF Restore, ThreadAt
<1>16. CASE TerminateCurrent
  BY <1>16 DEF TerminateCurrent, Notify, ThreadAt
<1>17. ASSUME NEW kind, NEW intr \in BOOLEAN, NEW inline \in BOOLEAN, StartOp(kind, intr, inline) PROVE StatesOK'
  BY <1>17 DEF StartOp, ThreadAt
<1>18. ASSUME NEW c \in Cpus, DeferCurrent(c) PROVE StatesOK'
  BY <1>18 DEF DeferCurrent, ThreadAt
<1>19. ASSUME NEW level \in {"passive", "exceptional"}, Trap(level) PROVE StatesOK'
  BY <1>19 DEF Trap, ThreadAt
<1>20. CASE Invoke
  BY <1>20 DEF Invoke
<1>21. CASE Preempt
  BY <1>21 DEF Preempt
<1>22. CASE Irq
  BY <1>22 DEF Irq, ThreadAt
<1>23. ASSUME NEW c \in IrqConditions, IrqRaise(c) PROVE StatesOK'
  BY <1>23, ConstantsAssumption DEF IrqRaise
<1>24. ASSUME NEW c \in Cpus, DeliverPing(c) PROVE StatesOK'
  BY <1>24 DEF DeliverPing, ThreadAt
<1>25. ASSUME NEW a \in Agents, Raise(a) PROVE StatesOK'
  <2>1. pendingConditions' \subseteq Conditions
    BY Zenon, <1>25 DEF Raise, AgentsOK
  <2> QED
    BY <1>25, <2>1 DEF Raise
<1>26. ASSUME NEW a \in Agents, Ping(a) PROVE StatesOK'
  BY <1>26 DEF Ping, AgentsOK
<1>27. ASSUME NEW a \in Agents, Latch(a) PROVE StatesOK'
  BY <1>27 DEF Latch
<1>28. ASSUME NEW a \in Agents, Unblock(a) PROVE StatesOK'
  <2>1. runState' \in RunStates /\ unblockConditions' \subseteq Conditions
    BY Zenon, <1>28 DEF Unblock
  <2> QED
    BY <1>28, <2>1 DEF Unblock
<1>29. ASSUME NEW a \in Agents, ResumeEvent(a) PROVE StatesOK'
  BY <1>29 DEF ResumeEvent
<1>30. ASSUME NEW a \in Agents, Complete(a) PROVE StatesOK'
  BY <1>30 DEF Complete
<1>31. ASSUME NEW a \in Agents, NEW q \in Wqs, PostCompletion(a, q) PROVE StatesOK'
  BY <1>31 DEF PostCompletion, Post
<1>32. ASSUME NEW a \in Agents, NEW q \in Wqs, PostWork(a, q) PROVE StatesOK'
  BY <1>32 DEF PostWork, Post
<1>33. ASSUME NEW a \in Agents, NEW c \in CancelConditions, BeginRaise(a, c) PROVE StatesOK'
  BY <1>33 DEF BeginRaise
<1>34. ASSUME NEW a \in Agents, NEW c \in Cpus, BalanceLoad(a, c) PROVE StatesOK'
  BY <1>34 DEF BalanceLoad
<1>35. ASSUME NEW a \in Agents, ResumeOther(a) PROVE StatesOK'
  BY <1>35 DEF ResumeOther, Resumable
<1>36. ASSUME NEW o \in Observers, Observe(o) PROVE StatesOK'
  BY <1>36 DEF Observe
<1>37. CASE UNCHANGED vars
  BY <1>37 DEF vars
<1> HIDE DEF StatesOK, RunStates, Wqs, Conditions, ThreadPcs, threadVars, opVars, intrVars, placeVars
<1> QED
  BY <1>1, <1>2, <1>3, <1>4, <1>5, <1>6, <1>7, <1>8, <1>9, <1>10, <1>11, <1>12, <1>13,
     <1>14, <1>15, <1>16, <1>17, <1>18, <1>19, <1>20, <1>21, <1>22, <1>23, <1>24, <1>25,
     <1>26, <1>27, <1>28, <1>29, <1>30, <1>31, <1>32, <1>33, <1>34, <1>35, <1>36, <1>37
  DEF Next, ThreadStep, EnterKernel, AgentStep, AgentStart, Agents

\* The thread's state always has its type.
THEOREM TypeCorrect == Spec => []TypeOK
<1>1. TypeOK /\ [Next]_vars => TypeOK'
  BY FlagsStep, AgentsStep, StatesStep DEF TypeOK
<1> QED
  BY TypeInit, <1>1, PTL DEF Spec

\* What handling one condition does: work-queue conditions stay, one other condition is
\* consumed and decides where the thread goes.
LEMMA HandleEffect ==
  ASSUME pendingConditions \subseteq Conditions, HandleConditions
  PROVE  /\ tpc = "exit" /\ runState = "Active"
         /\ tpc' \in {"exitCheck", "drain", "migrate", "intrEnter", "terminate"}
         /\ pendingConditions' \subseteq pendingConditions
         /\ pendingConditions \cap Wqs \subseteq pendingConditions'
         /\ UNCHANGED <<runState, placeVars, unblockLatch, unblockConditions, intrVars,
                        lockedQueue, opKind, ipl, interruptible, curWq, wqReturn, entry,
                        opVars, agentVars>>
  BY DEF HandleConditions, ThreadAt, Highest, Conditions, Wqs, CancelConditions

\* The part of the type invariant that the proofs below need.
Shape ==
  /\ pendingConditions \subseteq Conditions
  /\ lockedQueue \in [Wqs -> SUBSET {"work", "complete"}]
  /\ observers \in [Observers -> {"idle", "queued", "interrupted", "exited"}]
  /\ wqReturn \in {"loop", "drain"}
  /\ agentStep \in [Agents -> AgentSteps]
  /\ agentArg \in [Agents -> Conditions \cup Cpus \cup {NoArg}]

\* Some unblockOther() call has yet to set the latch.
Latching == \E a \in Agents : agentStep[a] = "latch"

\* Some unblockOther() call has set the latch and has yet to take the mutex.
Unblocking == \E a \in Agents : agentStep[a] = "unblock"

\* The inductive strengthening of NoLostWakeup.
WakeupInv ==
  /\ runState = "Blocked" => tpc = "loop"
  /\ runState = "Blocked" /\ unblockLatch => Unblocking
  /\ (runState = "Blocked" \/ tpc \in {"pend", "block", "blockLock"}) /\ done
       => unblockLatch \/ Latching
  /\ runState = "Blocked" /\ pendingConditions \cap unblockConditions # {}
       => unblockLatch \/ Latching

\* Every step preserves WakeupInv.
LEMMA WakeupStep == TypeOK /\ WakeupInv /\ [Next]_vars => WakeupInv'
<1> SUFFICES ASSUME Shape, WakeupInv, [Next]_vars PROVE WakeupInv'
  BY DEF TypeOK, AgentsOK, StatesOK, Shape
<1> USE DEF WakeupInv, Latching, Unblocking, Shape, threadVars, opVars, agentVars, intrVars, placeVars
<1>1. CASE LoopDone
  BY <1>1 DEF LoopDone, ThreadAt
<1>2. CASE LoopPending
  BY <1>2 DEF LoopPending, CancelOp, ThreadAt
<1>3. CASE BlockLatch
  BY <1>3 DEF BlockLatch, ThreadAt
<1>4. CASE BlockLock
  BY <1>4 DEF BlockLock, MustNotBlock, ThreadAt
<1>5. CASE OpDone
  BY <1>5 DEF OpDone, ThreadAt
<1>6. CASE WqRun
  BY <1>6 DEF WqRun, RunQueue, ThreadAt
<1>7. CASE WqClear
  BY <1>7 DEF WqClear, ThreadAt
<1>8. CASE WqCheck
  BY <1>8 DEF WqCheck, RunQueue, ThreadAt
<1>9. CASE Drain
  BY <1>9 DEF Drain, ThreadAt
<1>10. CASE HandleConditions
  BY <1>10, HandleEffect DEF Shape
<1>11. CASE ExitCheck
  BY <1>11 DEF ExitCheck, MayReturn, ThreadAt
<1>12. CASE Migrate
  BY <1>12 DEF Migrate, ThreadAt
<1>13. CASE InterruptCurrent
  BY <1>13 DEF InterruptCurrent, Notify, ThreadAt
<1>14. CASE InterruptWait
  BY <1>14 DEF InterruptWait, ThreadAt
<1>15. CASE Restore
  BY <1>15 DEF Restore, ThreadAt
<1>16. CASE TerminateCurrent
  BY <1>16 DEF TerminateCurrent, Notify, ThreadAt
<1>17. ASSUME NEW kind, NEW intr \in BOOLEAN, NEW inline \in BOOLEAN, StartOp(kind, intr, inline) PROVE WakeupInv'
  BY <1>17 DEF StartOp, ThreadAt
<1>18. ASSUME NEW c \in Cpus, DeferCurrent(c) PROVE WakeupInv'
  BY <1>18 DEF DeferCurrent, ThreadAt
<1>19. ASSUME NEW level \in {"passive", "exceptional"}, Trap(level) PROVE WakeupInv'
  BY <1>19 DEF Trap, ThreadAt
<1>20. CASE Invoke
  BY <1>20 DEF Invoke
<1>21. CASE Preempt
  BY <1>21 DEF Preempt
<1>22. CASE Irq
  BY <1>22 DEF Irq, ThreadAt
<1>23. ASSUME NEW c \in IrqConditions, IrqRaise(c) PROVE WakeupInv'
  BY <1>23 DEF IrqRaise
<1>24. ASSUME NEW c \in Cpus, DeliverPing(c) PROVE WakeupInv'
  BY <1>24 DEF DeliverPing, ThreadAt
<1>25. ASSUME NEW a \in Agents, Raise(a) PROVE WakeupInv'
  BY <1>25 DEF Raise, NotifiesBlocked, GoTo
<1>26. ASSUME NEW a \in Agents, Ping(a) PROVE WakeupInv'
  BY <1>26 DEF Ping, GoTo
<1>27. ASSUME NEW a \in Agents, Latch(a) PROVE WakeupInv'
  BY <1>27 DEF Latch, GoTo
<1>28. ASSUME NEW a \in Agents, Unblock(a) PROVE WakeupInv'
  BY <1>28 DEF Unblock, GoTo
<1>29. ASSUME NEW a \in Agents, ResumeEvent(a) PROVE WakeupInv'
  BY <1>29 DEF ResumeEvent, GoTo
<1>30. ASSUME NEW a \in Agents, Complete(a) PROVE WakeupInv'
  BY <1>30 DEF Complete, GoTo
<1>31. ASSUME NEW a \in Agents, NEW q \in Wqs, PostCompletion(a, q) PROVE WakeupInv'
  BY <1>31 DEF PostCompletion, Post, NeedsWakeup, GoTo
<1>32. ASSUME NEW a \in Agents, NEW q \in Wqs, PostWork(a, q) PROVE WakeupInv'
  BY <1>32 DEF PostWork, Post, NeedsWakeup, GoTo
<1>33. ASSUME NEW a \in Agents, NEW c \in CancelConditions, BeginRaise(a, c) PROVE WakeupInv'
  BY <1>33 DEF BeginRaise, GoTo
<1>34. ASSUME NEW a \in Agents, NEW c \in Cpus, BalanceLoad(a, c) PROVE WakeupInv'
  BY <1>34 DEF BalanceLoad, GoTo
<1>35. ASSUME NEW a \in Agents, ResumeOther(a) PROVE WakeupInv'
  BY <1>35 DEF ResumeOther, Resumable, GoTo
<1>36. ASSUME NEW o \in Observers, Observe(o) PROVE WakeupInv'
  BY <1>36 DEF Observe
<1>37. CASE UNCHANGED vars
  BY <1>37 DEF vars
<1> HIDE DEF WakeupInv, Latching, Unblocking, Shape, threadVars, opVars, agentVars, intrVars, placeVars
<1> QED
  BY <1>1, <1>2, <1>3, <1>4, <1>5, <1>6, <1>7, <1>8, <1>9, <1>10, <1>11, <1>12, <1>13,
     <1>14, <1>15, <1>16, <1>17, <1>18, <1>19, <1>20, <1>21, <1>22, <1>23, <1>24, <1>25,
     <1>26, <1>27, <1>28, <1>29, <1>30, <1>31, <1>32, <1>33, <1>34, <1>35, <1>36, <1>37
  DEF Next, ThreadStep, EnterKernel, AgentStep, AgentStart, Agents

\* A blocked thread never misses a wakeup, for any number of agents.
THEOREM WakeupCorrect == Spec => []NoLostWakeup
<1>1. Init => WakeupInv
  BY DEF Init, WakeupInv
<1>2. WakeupInv => NoLostWakeup
  BY DEF WakeupInv, NoLostWakeup, Latching, Unblocking
<1> QED
  BY <1>1, <1>2, TypeCorrect, WakeupStep, PTL DEF Spec

\* WorkNotStranded is inductive as it stands.
LEMMA WorkStep == TypeOK /\ WorkNotStranded /\ [Next]_vars => WorkNotStranded'
<1> SUFFICES ASSUME Shape, WorkNotStranded, [Next]_vars PROVE WorkNotStranded'
  BY DEF TypeOK, AgentsOK, StatesOK, Shape
<1> USE DEF WorkNotStranded, Shape, threadVars, opVars, agentVars, intrVars, placeVars
<1>1. CASE LoopDone
  BY <1>1 DEF LoopDone, ThreadAt
<1>2. CASE LoopPending
  BY <1>2 DEF LoopPending, CancelOp, ThreadAt
<1>3. CASE BlockLatch
  BY <1>3 DEF BlockLatch, ThreadAt
<1>4. CASE BlockLock
  BY <1>4 DEF BlockLock, MustNotBlock, ThreadAt
<1>5. CASE OpDone
  BY <1>5 DEF OpDone, ThreadAt, Wqs
<1>6. CASE WqRun
  BY <1>6 DEF WqRun, RunQueue, ThreadAt
<1>7. CASE WqClear
  BY <1>7 DEF WqClear, ThreadAt
<1>8. CASE WqCheck
  BY <1>8 DEF WqCheck, RunQueue, ThreadAt
<1>9. CASE Drain
  BY <1>9 DEF Drain, ThreadAt
<1>10. CASE HandleConditions
  BY <1>10, HandleEffect DEF Shape
<1>11. CASE ExitCheck
  BY <1>11 DEF ExitCheck, MayReturn, ThreadAt
<1>12. CASE Migrate
  BY <1>12 DEF Migrate, ThreadAt
<1>13. CASE InterruptCurrent
  BY <1>13 DEF InterruptCurrent, Notify, ThreadAt
<1>14. CASE InterruptWait
  BY <1>14 DEF InterruptWait, ThreadAt
<1>15. CASE Restore
  BY <1>15 DEF Restore, ThreadAt
<1>16. CASE TerminateCurrent
  BY <1>16 DEF TerminateCurrent, Notify, ThreadAt
<1>17. ASSUME NEW kind, NEW intr \in BOOLEAN, NEW inline \in BOOLEAN, StartOp(kind, intr, inline) PROVE WorkNotStranded'
  BY <1>17 DEF StartOp, ThreadAt
<1>18. ASSUME NEW c \in Cpus, DeferCurrent(c) PROVE WorkNotStranded'
  BY <1>18 DEF DeferCurrent, ThreadAt
<1>19. ASSUME NEW level \in {"passive", "exceptional"}, Trap(level) PROVE WorkNotStranded'
  BY <1>19 DEF Trap, ThreadAt
<1>20. CASE Invoke
  BY <1>20 DEF Invoke
<1>21. CASE Preempt
  BY <1>21 DEF Preempt
<1>22. CASE Irq
  BY <1>22 DEF Irq, ThreadAt
<1>23. ASSUME NEW c \in IrqConditions, IrqRaise(c) PROVE WorkNotStranded'
  BY <1>23 DEF IrqRaise
<1>24. ASSUME NEW c \in Cpus, DeliverPing(c) PROVE WorkNotStranded'
  BY <1>24 DEF DeliverPing, ThreadAt
<1>25. ASSUME NEW a \in Agents, Raise(a) PROVE WorkNotStranded'
  BY <1>25 DEF Raise, NotifiesBlocked, GoTo
<1>26. ASSUME NEW a \in Agents, Ping(a) PROVE WorkNotStranded'
  BY <1>26 DEF Ping, GoTo
<1>27. ASSUME NEW a \in Agents, Latch(a) PROVE WorkNotStranded'
  BY <1>27 DEF Latch, GoTo
<1>28. ASSUME NEW a \in Agents, Unblock(a) PROVE WorkNotStranded'
  BY <1>28 DEF Unblock, GoTo
<1>29. ASSUME NEW a \in Agents, ResumeEvent(a) PROVE WorkNotStranded'
  BY <1>29 DEF ResumeEvent, GoTo
<1>30. ASSUME NEW a \in Agents, Complete(a) PROVE WorkNotStranded'
  BY <1>30 DEF Complete, GoTo
<1>31. ASSUME NEW a \in Agents, NEW q \in Wqs, PostCompletion(a, q) PROVE WorkNotStranded'
  BY <1>31 DEF PostCompletion, Post, NeedsWakeup, GoTo
<1>32. ASSUME NEW a \in Agents, NEW q \in Wqs, PostWork(a, q) PROVE WorkNotStranded'
  BY <1>32 DEF PostWork, Post, NeedsWakeup, GoTo
<1>33. ASSUME NEW a \in Agents, NEW c \in CancelConditions, BeginRaise(a, c) PROVE WorkNotStranded'
  BY <1>33 DEF BeginRaise, GoTo
<1>34. ASSUME NEW a \in Agents, NEW c \in Cpus, BalanceLoad(a, c) PROVE WorkNotStranded'
  BY <1>34 DEF BalanceLoad, GoTo
<1>35. ASSUME NEW a \in Agents, ResumeOther(a) PROVE WorkNotStranded'
  BY <1>35 DEF ResumeOther, Resumable, GoTo
<1>36. ASSUME NEW o \in Observers, Observe(o) PROVE WorkNotStranded'
  BY <1>36 DEF Observe
<1>37. CASE UNCHANGED vars
  BY <1>37 DEF vars
<1> HIDE DEF WorkNotStranded, Shape, threadVars, opVars, agentVars, intrVars, placeVars
<1> QED
  BY <1>1, <1>2, <1>3, <1>4, <1>5, <1>6, <1>7, <1>8, <1>9, <1>10, <1>11, <1>12, <1>13,
     <1>14, <1>15, <1>16, <1>17, <1>18, <1>19, <1>20, <1>21, <1>22, <1>23, <1>24, <1>25,
     <1>26, <1>27, <1>28, <1>29, <1>30, <1>31, <1>32, <1>33, <1>34, <1>35, <1>36, <1>37
  DEF Next, ThreadStep, EnterKernel, AgentStep, AgentStart, Agents

\* No worklet is ever stranded on a work queue of the thread.
THEOREM WorkCorrect == Spec => []WorkNotStranded
<1>1. Init => WorkNotStranded
  BY DEF Init, WorkNotStranded
<1> QED
  BY <1>1, TypeCorrect, WorkStep, PTL DEF Spec

\* The inductive strengthening of ExitPathNotified: such a thread is running, not merely
\* deferred in user mode.
ExitInv ==
  /\ tpc = "user" /\ entry = "exitCheck" => runState = "Active"
  /\ ExitPathNotified

\* Every step preserves ExitInv.
LEMMA ExitStep == TypeOK /\ ExitInv /\ [Next]_vars => ExitInv'
<1> SUFFICES ASSUME Shape, ExitInv, [Next]_vars PROVE ExitInv'
  BY DEF TypeOK, AgentsOK, StatesOK, Shape
<1> USE DEF ExitInv, ExitPathNotified, Pinged, Shape, threadVars, opVars, agentVars, intrVars, placeVars
<1>1. CASE LoopDone
  BY <1>1 DEF LoopDone, ThreadAt
<1>2. CASE LoopPending
  BY <1>2 DEF LoopPending, CancelOp, ThreadAt
<1>3. CASE BlockLatch
  BY <1>3 DEF BlockLatch, ThreadAt
<1>4. CASE BlockLock
  BY <1>4 DEF BlockLock, MustNotBlock, ThreadAt
<1>5. CASE OpDone
  BY <1>5 DEF OpDone, ThreadAt
<1>6. CASE WqRun
  BY <1>6 DEF WqRun, RunQueue, ThreadAt
<1>7. CASE WqClear
  BY <1>7 DEF WqClear, ThreadAt
<1>8. CASE WqCheck
  BY <1>8 DEF WqCheck, RunQueue, ThreadAt
<1>9. CASE Drain
  BY <1>9 DEF Drain, ThreadAt
<1>10. CASE HandleConditions
  BY <1>10, HandleEffect DEF Shape
<1>11. CASE ExitCheck
  BY <1>11 DEF ExitCheck, MayReturn, ThreadAt
<1>12. CASE Migrate
  BY <1>12 DEF Migrate, ThreadAt
<1>13. CASE InterruptCurrent
  BY <1>13 DEF InterruptCurrent, Notify, ThreadAt
<1>14. CASE InterruptWait
  BY <1>14 DEF InterruptWait, ThreadAt
<1>15. CASE Restore
  BY <1>15 DEF Restore, ThreadAt
<1>16. CASE TerminateCurrent
  BY <1>16 DEF TerminateCurrent, Notify, ThreadAt
<1>17. ASSUME NEW kind, NEW intr \in BOOLEAN, NEW inline \in BOOLEAN, StartOp(kind, intr, inline) PROVE ExitInv'
  BY <1>17 DEF StartOp, ThreadAt
<1>18. ASSUME NEW c \in Cpus, DeferCurrent(c) PROVE ExitInv'
  BY <1>18 DEF DeferCurrent, ThreadAt
<1>19. ASSUME NEW level \in {"passive", "exceptional"}, Trap(level) PROVE ExitInv'
  BY <1>19 DEF Trap, ThreadAt
<1>20. CASE Invoke
  BY <1>20 DEF Invoke
<1>21. CASE Preempt
  BY <1>21 DEF Preempt
<1>22. CASE Irq
  BY <1>22 DEF Irq, ThreadAt
<1>23. ASSUME NEW c \in IrqConditions, IrqRaise(c) PROVE ExitInv'
  BY <1>23 DEF IrqRaise
<1>24. ASSUME NEW c \in Cpus, DeliverPing(c) PROVE ExitInv'
  BY <1>24 DEF DeliverPing, ThreadAt
<1>25. ASSUME NEW a \in Agents, Raise(a) PROVE ExitInv'
  BY <1>25 DEF Raise, NotifiesBlocked, GoTo
<1>26. ASSUME NEW a \in Agents, Ping(a) PROVE ExitInv'
  BY <1>26 DEF Ping, GoTo
<1>27. ASSUME NEW a \in Agents, Latch(a) PROVE ExitInv'
  BY <1>27 DEF Latch, GoTo
<1>28. ASSUME NEW a \in Agents, Unblock(a) PROVE ExitInv'
  BY <1>28 DEF Unblock, GoTo
<1>29. ASSUME NEW a \in Agents, ResumeEvent(a) PROVE ExitInv'
  BY <1>29 DEF ResumeEvent, GoTo
<1>30. ASSUME NEW a \in Agents, Complete(a) PROVE ExitInv'
  BY <1>30 DEF Complete, GoTo
<1>31. ASSUME NEW a \in Agents, NEW q \in Wqs, PostCompletion(a, q) PROVE ExitInv'
  BY <1>31 DEF PostCompletion, Post, NeedsWakeup, GoTo
<1>32. ASSUME NEW a \in Agents, NEW q \in Wqs, PostWork(a, q) PROVE ExitInv'
  BY <1>32 DEF PostWork, Post, NeedsWakeup, GoTo
<1>33. ASSUME NEW a \in Agents, NEW c \in CancelConditions, BeginRaise(a, c) PROVE ExitInv'
  BY <1>33 DEF BeginRaise, GoTo
<1>34. ASSUME NEW a \in Agents, NEW c \in Cpus, BalanceLoad(a, c) PROVE ExitInv'
  BY <1>34 DEF BalanceLoad, GoTo
<1>35. ASSUME NEW a \in Agents, ResumeOther(a) PROVE ExitInv'
  BY <1>35 DEF ResumeOther, Resumable, GoTo
<1>36. ASSUME NEW o \in Observers, Observe(o) PROVE ExitInv'
  BY <1>36 DEF Observe
<1>37. CASE UNCHANGED vars
  BY <1>37 DEF vars
<1> HIDE DEF ExitInv, ExitPathNotified, Pinged, Shape, threadVars, opVars, agentVars, intrVars, placeVars
<1> QED
  BY <1>1, <1>2, <1>3, <1>4, <1>5, <1>6, <1>7, <1>8, <1>9, <1>10, <1>11, <1>12, <1>13,
     <1>14, <1>15, <1>16, <1>17, <1>18, <1>19, <1>20, <1>21, <1>22, <1>23, <1>24, <1>25,
     <1>26, <1>27, <1>28, <1>29, <1>30, <1>31, <1>32, <1>33, <1>34, <1>35, <1>36, <1>37
  DEF Next, ThreadStep, EnterKernel, AgentStep, AgentStart, Agents

\* The checks on the kernel exit path and the suppression of pings fit together.
THEOREM ExitCorrect == Spec => []ExitPathNotified
<1>1. Init => ExitInv
  BY DEF Init, ExitInv, ExitPathNotified
<1>2. ExitInv => ExitPathNotified
  BY DEF ExitInv
<1> QED
  BY <1>1, <1>2, TypeCorrect, ExitStep, PTL DEF Spec

\* NoForgottenObserver is inductive as it stands.
LEMMA ObserverStep == TypeOK /\ NoForgottenObserver /\ [Next]_vars => NoForgottenObserver'
<1> SUFFICES ASSUME Shape, NoForgottenObserver, [Next]_vars PROVE NoForgottenObserver'
  BY DEF TypeOK, AgentsOK, StatesOK, Shape
<1> USE DEF NoForgottenObserver, Shape, threadVars, opVars, agentVars, intrVars, placeVars
<1>1. CASE LoopDone
  BY <1>1 DEF LoopDone, ThreadAt
<1>2. CASE LoopPending
  BY <1>2 DEF LoopPending, CancelOp, ThreadAt
<1>3. CASE BlockLatch
  BY <1>3 DEF BlockLatch, ThreadAt
<1>4. CASE BlockLock
  BY <1>4 DEF BlockLock, MustNotBlock, ThreadAt
<1>5. CASE OpDone
  BY <1>5 DEF OpDone, ThreadAt
<1>6. CASE WqRun
  BY <1>6 DEF WqRun, RunQueue, ThreadAt
<1>7. CASE WqClear
  BY <1>7 DEF WqClear, ThreadAt
<1>8. CASE WqCheck
  BY <1>8 DEF WqCheck, RunQueue, ThreadAt
<1>9. CASE Drain
  BY <1>9 DEF Drain, ThreadAt
<1>10. CASE HandleConditions
  BY <1>10, HandleEffect DEF Shape
<1>11. CASE ExitCheck
  BY <1>11 DEF ExitCheck, MayReturn, ThreadAt
<1>12. CASE Migrate
  BY <1>12 DEF Migrate, ThreadAt
<1>13. CASE InterruptCurrent
  BY <1>13 DEF InterruptCurrent, Notify, ThreadAt
<1>14. CASE InterruptWait
  BY <1>14 DEF InterruptWait, ThreadAt
<1>15. CASE Restore
  BY <1>15 DEF Restore, ThreadAt
<1>16. CASE TerminateCurrent
  BY <1>16 DEF TerminateCurrent, Notify, ThreadAt
<1>17. ASSUME NEW kind, NEW intr \in BOOLEAN, NEW inline \in BOOLEAN, StartOp(kind, intr, inline) PROVE NoForgottenObserver'
  BY <1>17 DEF StartOp, ThreadAt
<1>18. ASSUME NEW c \in Cpus, DeferCurrent(c) PROVE NoForgottenObserver'
  BY <1>18 DEF DeferCurrent, ThreadAt
<1>19. ASSUME NEW level \in {"passive", "exceptional"}, Trap(level) PROVE NoForgottenObserver'
  BY <1>19 DEF Trap, ThreadAt
<1>20. CASE Invoke
  BY <1>20 DEF Invoke
<1>21. CASE Preempt
  BY <1>21 DEF Preempt
<1>22. CASE Irq
  BY <1>22 DEF Irq, ThreadAt
<1>23. ASSUME NEW c \in IrqConditions, IrqRaise(c) PROVE NoForgottenObserver'
  BY <1>23 DEF IrqRaise
<1>24. ASSUME NEW c \in Cpus, DeliverPing(c) PROVE NoForgottenObserver'
  BY <1>24 DEF DeliverPing, ThreadAt
<1>25. ASSUME NEW a \in Agents, Raise(a) PROVE NoForgottenObserver'
  BY <1>25 DEF Raise, NotifiesBlocked, GoTo
<1>26. ASSUME NEW a \in Agents, Ping(a) PROVE NoForgottenObserver'
  BY <1>26 DEF Ping, GoTo
<1>27. ASSUME NEW a \in Agents, Latch(a) PROVE NoForgottenObserver'
  BY <1>27 DEF Latch, GoTo
<1>28. ASSUME NEW a \in Agents, Unblock(a) PROVE NoForgottenObserver'
  BY <1>28 DEF Unblock, GoTo
<1>29. ASSUME NEW a \in Agents, ResumeEvent(a) PROVE NoForgottenObserver'
  BY <1>29 DEF ResumeEvent, GoTo
<1>30. ASSUME NEW a \in Agents, Complete(a) PROVE NoForgottenObserver'
  BY <1>30 DEF Complete, GoTo
<1>31. ASSUME NEW a \in Agents, NEW q \in Wqs, PostCompletion(a, q) PROVE NoForgottenObserver'
  BY <1>31 DEF PostCompletion, Post, NeedsWakeup, GoTo
<1>32. ASSUME NEW a \in Agents, NEW q \in Wqs, PostWork(a, q) PROVE NoForgottenObserver'
  BY <1>32 DEF PostWork, Post, NeedsWakeup, GoTo
<1>33. ASSUME NEW a \in Agents, NEW c \in CancelConditions, BeginRaise(a, c) PROVE NoForgottenObserver'
  BY <1>33 DEF BeginRaise, GoTo
<1>34. ASSUME NEW a \in Agents, NEW c \in Cpus, BalanceLoad(a, c) PROVE NoForgottenObserver'
  BY <1>34 DEF BalanceLoad, GoTo
<1>35. ASSUME NEW a \in Agents, ResumeOther(a) PROVE NoForgottenObserver'
  BY <1>35 DEF ResumeOther, Resumable, GoTo
<1>36. ASSUME NEW o \in Observers, Observe(o) PROVE NoForgottenObserver'
  BY <1>36 DEF Observe
<1>37. CASE UNCHANGED vars
  BY <1>37 DEF vars
<1> HIDE DEF NoForgottenObserver, Shape, threadVars, opVars, agentVars, intrVars, placeVars
<1> QED
  BY <1>1, <1>2, <1>3, <1>4, <1>5, <1>6, <1>7, <1>8, <1>9, <1>10, <1>11, <1>12, <1>13,
     <1>14, <1>15, <1>16, <1>17, <1>18, <1>19, <1>20, <1>21, <1>22, <1>23, <1>24, <1>25,
     <1>26, <1>27, <1>28, <1>29, <1>30, <1>31, <1>32, <1>33, <1>34, <1>35, <1>36, <1>37
  DEF Next, ThreadStep, EnterKernel, AgentStep, AgentStart, Agents

\* No observer is forgotten by an interrupt or by the termination of the thread.
THEOREM ObserverCorrect == Spec => []NoForgottenObserver
<1>1. Init => NoForgottenObserver
  BY DEF Init, NoForgottenObserver
<1> QED
  BY <1>1, TypeCorrect, ObserverStep, PTL DEF Spec
\* The thread is inside of asyncBlockCurrent().
InOperation ==
  \/ tpc \in {"loop", "pend", "block", "blockLock", "opDone"}
  \/ tpc \in {"wqRun", "wqClear", "wqCheck"} /\ wqReturn = "loop"

\* The inductive strengthening of InterruptsDoNotNest: it follows the thread through
\* asyncBlockCurrent() and drainWqs() as well, and says that an operation can only fail
\* while it is a wait for a resume and the termination is still pending.
InterruptInv ==
  /\ InOperation => (intrState = "none" <=> opKind # "resume")
  /\ ~InOperation /\ tpc \notin {"intrWait", "terminate", "dead"} => intrState = "none"
  /\ tpc = "intrWait" => intrState # "none"
  /\ ~outcome => InOperation /\ opKind = "resume" /\ "terminate" \in pendingConditions

\* Every step preserves InterruptInv.
LEMMA InterruptStep == TypeOK /\ InterruptInv /\ [Next]_vars => InterruptInv'
<1> SUFFICES ASSUME Shape, curWq \in Wqs, InterruptInv, [Next]_vars PROVE InterruptInv'
  BY DEF TypeOK, AgentsOK, StatesOK, Shape
<1> USE DEF InterruptInv, InOperation, Shape, threadVars, opVars, agentVars, intrVars, placeVars
<1>1. CASE LoopDone
  BY <1>1 DEF LoopDone, ThreadAt
<1>2. CASE LoopPending
  BY <1>2 DEF LoopPending, CancelOp, ThreadAt, EffectiveCancel, CancelConditions
<1>3. CASE BlockLatch
  BY <1>3 DEF BlockLatch, ThreadAt
<1>4. CASE BlockLock
  BY <1>4 DEF BlockLock, MustNotBlock, ThreadAt
<1>5. CASE OpDone
  BY <1>5 DEF OpDone, ThreadAt
<1>6. CASE WqRun
  BY <1>6 DEF WqRun, RunQueue, ThreadAt
<1>7. CASE WqClear
  BY <1>7 DEF WqClear, ThreadAt, Wqs
<1>8. CASE WqCheck
  BY <1>8 DEF WqCheck, RunQueue, ThreadAt
<1>9. CASE Drain
  BY <1>9 DEF Drain, ThreadAt
<1>10. CASE HandleConditions
  BY <1>10, HandleEffect DEF Shape
<1>11. CASE ExitCheck
  BY <1>11 DEF ExitCheck, MayReturn, ThreadAt
<1>12. CASE Migrate
  BY <1>12 DEF Migrate, ThreadAt
<1>13. CASE InterruptCurrent
  BY <1>13 DEF InterruptCurrent, Notify, ThreadAt
<1>14. CASE InterruptWait
  BY <1>14 DEF InterruptWait, ThreadAt
<1>15. CASE Restore
  BY <1>15 DEF Restore, ThreadAt
<1>16. CASE TerminateCurrent
  BY <1>16 DEF TerminateCurrent, Notify, ThreadAt
<1>17. ASSUME NEW kind, NEW intr \in BOOLEAN, NEW inline \in BOOLEAN, StartOp(kind, intr, inline) PROVE InterruptInv'
  BY <1>17 DEF StartOp, ThreadAt
<1>18. ASSUME NEW c \in Cpus, DeferCurrent(c) PROVE InterruptInv'
  BY <1>18 DEF DeferCurrent, ThreadAt
<1>19. ASSUME NEW level \in {"passive", "exceptional"}, Trap(level) PROVE InterruptInv'
  BY <1>19 DEF Trap, ThreadAt
<1>20. CASE Invoke
  BY <1>20 DEF Invoke
<1>21. CASE Preempt
  BY <1>21 DEF Preempt
<1>22. CASE Irq
  BY <1>22 DEF Irq, ThreadAt
<1>23. ASSUME NEW c \in IrqConditions, IrqRaise(c) PROVE InterruptInv'
  BY <1>23 DEF IrqRaise
<1>24. ASSUME NEW c \in Cpus, DeliverPing(c) PROVE InterruptInv'
  BY <1>24 DEF DeliverPing, ThreadAt
<1>25. ASSUME NEW a \in Agents, Raise(a) PROVE InterruptInv'
  BY <1>25 DEF Raise, NotifiesBlocked, GoTo
<1>26. ASSUME NEW a \in Agents, Ping(a) PROVE InterruptInv'
  BY <1>26 DEF Ping, GoTo
<1>27. ASSUME NEW a \in Agents, Latch(a) PROVE InterruptInv'
  BY <1>27 DEF Latch, GoTo
<1>28. ASSUME NEW a \in Agents, Unblock(a) PROVE InterruptInv'
  BY <1>28 DEF Unblock, GoTo
<1>29. ASSUME NEW a \in Agents, ResumeEvent(a) PROVE InterruptInv'
  BY <1>29 DEF ResumeEvent, GoTo
<1>30. ASSUME NEW a \in Agents, Complete(a) PROVE InterruptInv'
  BY <1>30 DEF Complete, GoTo
<1>31. ASSUME NEW a \in Agents, NEW q \in Wqs, PostCompletion(a, q) PROVE InterruptInv'
  BY <1>31 DEF PostCompletion, Post, NeedsWakeup, GoTo
<1>32. ASSUME NEW a \in Agents, NEW q \in Wqs, PostWork(a, q) PROVE InterruptInv'
  BY <1>32 DEF PostWork, Post, NeedsWakeup, GoTo
<1>33. ASSUME NEW a \in Agents, NEW c \in CancelConditions, BeginRaise(a, c) PROVE InterruptInv'
  BY <1>33 DEF BeginRaise, GoTo
<1>34. ASSUME NEW a \in Agents, NEW c \in Cpus, BalanceLoad(a, c) PROVE InterruptInv'
  BY <1>34 DEF BalanceLoad, GoTo
<1>35. ASSUME NEW a \in Agents, ResumeOther(a) PROVE InterruptInv'
  BY <1>35 DEF ResumeOther, Resumable, GoTo
<1>36. ASSUME NEW o \in Observers, Observe(o) PROVE InterruptInv'
  BY <1>36 DEF Observe
<1>37. CASE UNCHANGED vars
  BY <1>37 DEF vars
<1> HIDE DEF InterruptInv, InOperation, Shape, threadVars, opVars, agentVars, intrVars, placeVars
<1> QED
  BY <1>1, <1>2, <1>3, <1>4, <1>5, <1>6, <1>7, <1>8, <1>9, <1>10, <1>11, <1>12, <1>13,
     <1>14, <1>15, <1>16, <1>17, <1>18, <1>19, <1>20, <1>21, <1>22, <1>23, <1>24, <1>25,
     <1>26, <1>27, <1>28, <1>29, <1>30, <1>31, <1>32, <1>33, <1>34, <1>35, <1>36, <1>37
  DEF Next, ThreadStep, EnterKernel, AgentStep, AgentStart, Agents

\* The assertions of genericInterruptCurrent() and of the wait for a resume hold, however
\* many agents interrupt, resume and terminate the thread.
THEOREM InterruptCorrect == Spec => []InterruptsDoNotNest
<1>1. Init => InterruptInv
  BY DEF Init, InterruptInv, InOperation
<1>2. InterruptInv => InterruptsDoNotNest
  BY DEF InterruptInv, InOperation, InterruptsDoNotNest
<1> QED
  BY <1>1, <1>2, TypeCorrect, InterruptStep, PTL DEF Spec
=============================================================================
