----------------------------- MODULE Scheduler -----------------------------
(***************************************************************************)
(* The scheduler of one CPU (schedule.cpp): the threads that run on it,    *)
(* its interrupts, and other CPUs that resume threads on it.               *)
(*                                                                         *)
(* resume() puts a thread on the pending list; update() moves the list to  *)
(* the wait queue.  What makes the CPU call update() is, for a resume from *)
(* another CPU, a ping IPI, which only the resume that finds the list      *)
(* empty sends; for a local one, the flag _mustCallPreemption, which is    *)
(* looked at when a system call or interrupt ends; and the preemption      *)
(* deadline.  IPIs are pending or not; interrupts are off from an entry to *)
(* the scheduler to the thread it switches to.  Unfairness is abstracted:  *)
(* between threads of equal priority either choice is possible.            *)
(***************************************************************************)
EXTENDS Naturals, FiniteSets

CONSTANTS
  Threads,       \* schedule entities
  IdleTask,          \* the idle task
  RemoteCpus,    \* CPUs that resume threads on this one
  MaxPriority,   \* priorities are 0..MaxPriority
  OwnCpuFirst    \* the affinity mask of helSetAffinity() may begin with this CPU

ASSUME SchedulerAssumption ==
  IdleTask \notin Threads /\ MaxPriority \in Nat /\ OwnCpuFirst \in BOOLEAN

VARIABLES
  estate,     \* thread -> "away" (of another CPU), "attached", "pending" or "active"
  prio,       \* thread -> its priority
  mode,       \* thread -> "user" or "kernel", where it goes on
  pendingList, waitQueue,   \* threads
  currentEntity, scheduled,       \* a set of at most one entity: _current and _scheduled
  mustCall,   \* _mustCallPreemption
  deadline,   \* the preemption deadline is set
  ping,       \* a ping IPI is pending
  pinger,     \* CPUs that are between their resume() and the IPI
  cpu,        \* "run", "irq" (in a handler), "exit" (a thread ends) or "commit" (to the next thread)
  ipl,        \* the current thread's level: "low", "high" (not preemptible), "deferred" (and to be)
  ranked      \* (history) the current thread's priority when it was last compared with the waiters

threadVars == <<estate, prio, mode>>
queues     == <<pendingList, waitQueue>>
entities   == <<currentEntity, scheduled>>
noticeVars == <<mustCall, deadline>>
pingVars   == <<ping, pinger>>
schedVars  == <<threadVars, queues, entities, noticeVars, pingVars, cpu, ipl, ranked>>

SchedInit ==
  /\ estate = [e \in Threads |-> "attached"]
  /\ prio = [e \in Threads |-> 0]
  /\ mode = [e \in Threads |-> "kernel"]
  /\ pendingList = {} /\ waitQueue = {}
  /\ currentEntity = {IdleTask} /\ scheduled = {}
  /\ mustCall = FALSE /\ deadline = FALSE
  /\ ping = FALSE /\ pinger = {}
  /\ cpu = "run" /\ ipl = "low" /\ ranked = {}

----------------------------------------------------------------------------
(* The parts of the scheduler *)

RunsThread == cpu = "run" /\ currentEntity # {IdleTask}
InKernel == RunsThread /\ \A e \in currentEntity : mode[e] = "kernel"

(* Those the wait queue may have on top. *)
Top(queue) == {e \in queue : \A f \in queue : prio[f] <= prio[e]}

(* updateQueue() *)
Updated == waitQueue \cup pendingList
Activated(st) == [e \in Threads |-> IF e \in pendingList THEN "active" ELSE st[e]]

(* _schedule() from this queue, with interrupts off until commitReschedule() *)
ScheduleFrom(queue) ==
  /\ scheduled' \in {{e} : e \in IF queue = {} THEN {IdleTask} ELSE Top(queue)}
  /\ waitQueue' = queue \ scheduled'
  /\ currentEntity' = {}
  /\ cpu' = "commit"
  /\ UNCHANGED ranked

\* Mutant of Contended: no deadline beside threads of the same priority.
ContendedNever(cur, queue) == FALSE

(* Whether _updatePreemption() sets the deadline for this entity *)
Contended(cur, queue) == \E e \in cur \cap Threads, f \in queue : prio[f] >= prio[e]

(* The priority the entity is compared with: none for the idle task *)
Rank(cur) == {prio[e] : e \in cur \cap Threads}

(* maybeReschedule(): it has to switch, and it may *)
MustSwitch == \E e \in Updated : \A f \in currentEntity \cap Threads : prio[e] > prio[f]
MaySwitch == \E e \in Updated : \A f \in currentEntity \cap Threads : prio[e] >= prio[f]

(* handlePreemption(): update(), and then a switch or renewSchedule() *)
HandlePreemption ==
  /\ estate' = Activated(estate)
  /\ pendingList' = {}
  /\ \/ /\ MaySwitch
        /\ ScheduleFrom(Updated \cup (currentEntity \ {IdleTask}))
        /\ UNCHANGED noticeVars
     \/ /\ ~MustSwitch
        /\ waitQueue' = Updated
        /\ mustCall' = FALSE
        /\ deadline' = (deadline \/ Contended(currentEntity, Updated))
        /\ ranked' = Rank(currentEntity)
        /\ cpu' = "run"
        /\ UNCHANGED entities

(* commitReschedule() *)
CommitReschedule ==
  /\ cpu = "commit"
  /\ currentEntity' = scheduled /\ scheduled' = {}
  /\ mustCall' = FALSE
  /\ deadline' = (deadline \/ Contended(scheduled, waitQueue))
  /\ ranked' = Rank(scheduled)
  /\ cpu' = "run"
  /\ UNCHANGED <<threadVars, queues, pingVars, ipl>>

----------------------------------------------------------------------------
(* resume() *)

(* On another CPU, for a blocked thread or one that migrates to this CPU: *)
RemoteResume(r, e) ==
  /\ r \notin pinger /\ estate[e] \in {"attached", "away"} /\ e \notin currentEntity
  /\ estate' = [estate EXCEPT ![e] = "pending"]
  /\ pendingList' = pendingList \cup {e}
  /\ pinger' = IF pendingList = {} THEN pinger \cup {r} ELSE pinger
  /\ UNCHANGED <<prio, mode, waitQueue, entities, noticeVars, ping, cpu, ipl, ranked>>

SendPing(r) ==
  /\ r \in pinger
  /\ ping' = TRUE /\ pinger' = pinger \ {r}
  /\ UNCHANGED <<threadVars, queues, entities, noticeVars, cpu, ipl, ranked>>

\* Mutant of MustCallAfter: the flag is left to the pending list's next user.
MustCallAfterNot == mustCall

(* The flag after a local resume() *)
MustCallAfter == mustCall \/ pendingList = {}

(* Here, by a thread in the kernel (with interrupts off), an interrupt handler, or
   the observers of a thread that ends:                                            *)
LocalResume(e) ==
  /\ InKernel \/ cpu \in {"irq", "exit"}
  /\ estate[e] = "attached" /\ e \notin currentEntity
  /\ estate' = [estate EXCEPT ![e] = "pending"]
  /\ pendingList' = pendingList \cup {e}
  /\ mustCall' = MustCallAfter
  /\ UNCHANGED <<prio, mode, waitQueue, entities, deadline, pingVars, cpu, ipl, ranked>>

----------------------------------------------------------------------------
(* Interrupts *)

(* An interrupt of a device, the ping, or the deadline is taken. *)
TakeInterrupt ==
  /\ cpu = "run" /\ cpu' = "irq"
  /\ UNCHANGED <<noticeVars, ping>>

TakePing ==
  /\ cpu = "run" /\ cpu' = "irq"
  /\ ping /\ ping' = FALSE
  /\ mustCall' = TRUE
  /\ UNCHANGED deadline

DeadlineExpires ==
  /\ cpu = "run" /\ cpu' = "irq"
  /\ deadline /\ deadline' = FALSE
  /\ mustCall' = TRUE
  /\ UNCHANGED ping

Interrupts ==
  /\ TakeInterrupt \/ TakePing \/ DeadlineExpires
  /\ UNCHANGED <<threadVars, queues, entities, pinger, ipl, ranked>>

(* checkPreemption(), at the end of the handler *)
LeaveInterrupt ==
  /\ cpu = "irq"
  /\ \/ /\ ~mustCall
        /\ cpu' = "run"
        /\ UNCHANGED <<estate, queues, entities, noticeVars, ipl, ranked>>
     \/ /\ mustCall /\ ipl # "low"
        /\ cpu' = "run" /\ ipl' = "deferred"
        /\ UNCHANGED <<estate, queues, entities, noticeVars, ranked>>
     \/ /\ mustCall /\ ipl = "low"
        /\ HandlePreemption
        /\ UNCHANGED ipl
  /\ UNCHANGED <<prio, mode, pingVars>>

----------------------------------------------------------------------------
(* The current thread *)

EnterKernel ==
  /\ RunsThread /\ ~InKernel
  /\ mode' = [e \in Threads |-> IF e \in currentEntity THEN "kernel" ELSE mode[e]]
  /\ UNCHANGED <<estate, prio, queues, entities, noticeVars, pingVars, cpu, ipl, ranked>>

(* checkThreadPreemption() and the return to user mode *)
LeaveKernel ==
  /\ InKernel /\ ipl = "low"
  /\ mode' = [e \in Threads |-> IF e \in currentEntity THEN "user" ELSE mode[e]]
  /\ \/ /\ deadline \/ ~mustCall     \* suppressRenewalUntilInterrupt()
        /\ mustCall' = FALSE
        /\ UNCHANGED <<estate, queues, entities, deadline, cpu, ranked>>
     \/ /\ ~deadline /\ mustCall
        /\ HandlePreemption
  /\ UNCHANGED <<prio, pingVars, ipl>>

RaiseIpl ==
  /\ InKernel /\ ipl = "low"
  /\ ipl' = "high"
  /\ UNCHANGED <<threadVars, queues, entities, noticeVars, pingVars, cpu, ranked>>

(* handleIplDeferred() *)
LowerIpl ==
  /\ InKernel /\ ipl # "low"
  /\ ipl' = "low"
  /\ \/ ipl = "deferred" /\ mustCall /\ HandlePreemption
     \/ /\ ipl = "high" \/ ~mustCall
        /\ UNCHANGED <<estate, queues, entities, noticeVars, cpu, ranked>>
  /\ UNCHANGED <<prio, mode, pingVars>>

(* setPriority() of the current thread.  Nothing is compared with the wait queue. *)
SetPriority(p) ==
  /\ InKernel
  /\ \E e \in currentEntity : prio[e] # p /\ prio' = [prio EXCEPT ![e] = p]
  /\ UNCHANGED <<estate, mode, queues, entities, noticeVars, pingVars, cpu, ipl, ranked>>

(* blockCurrent(): update(), suspendCurrent(), forceReschedule() *)
BlockThread ==
  /\ InKernel /\ ipl = "low"
  /\ estate' = [e \in Threads |-> IF e \in currentEntity THEN "attached" ELSE Activated(estate)[e]]
  /\ pendingList' = {}
  /\ ScheduleFrom(Updated)
  /\ UNCHANGED <<prio, mode, noticeVars, pingVars, ipl>>

(* deferCurrent(): the thread stays in the wait queue *)
YieldThread ==
  /\ InKernel /\ ipl = "low"
  /\ estate' = Activated(estate)
  /\ pendingList' = {}
  /\ ScheduleFrom(Updated \cup currentEntity)
  /\ UNCHANGED <<prio, mode, noticeVars, pingVars, ipl>>

(* migrateCurrent(): the thread leaves, or is resumed on this CPU again, between
   update() and forceReschedule().                                              *)
MigrateThread(own) ==
  /\ InKernel /\ ipl = "low"
  /\ estate' = [e \in Threads |-> IF e \notin currentEntity THEN Activated(estate)[e]
                                  ELSE IF own THEN "pending" ELSE "away"]
  /\ pendingList' = IF own THEN currentEntity ELSE {}
  /\ mustCall' = (mustCall \/ own)
  /\ ScheduleFrom(Updated)
  /\ UNCHANGED <<prio, mode, deadline, pingVars, ipl>>

(* terminateCurrent_(): the observers are called, and may resume threads, *)
EndThread ==
  /\ InKernel /\ ipl = "low"
  /\ estate' = [e \in Threads |-> IF e \in currentEntity THEN "away" ELSE estate[e]]
  /\ currentEntity' = {}
  /\ cpu' = "exit"
  /\ UNCHANGED <<prio, mode, queues, scheduled, noticeVars, pingVars, ipl, ranked>>

(* and the next thread is taken after that. *)
AfterThread ==
  /\ cpu = "exit"
  /\ estate' = Activated(estate)
  /\ pendingList' = {}
  /\ ScheduleFrom(Updated)
  /\ UNCHANGED <<prio, mode, noticeVars, pingVars, ipl>>

----------------------------------------------------------------------------
SchedNext ==
  \/ CommitReschedule \/ Interrupts \/ LeaveInterrupt
  \/ EnterKernel \/ LeaveKernel \/ RaiseIpl \/ LowerIpl
  \/ BlockThread \/ YieldThread \/ EndThread \/ AfterThread
  \/ \E p \in 0..MaxPriority : SetPriority(p)
  \/ \E own \in {FALSE, OwnCpuFirst} : MigrateThread(own)
  \/ \E r \in RemoteCpus : SendPing(r) \/ \E e \in Threads : RemoteResume(r, e)
  \/ \E e \in Threads : LocalResume(e)

SchedSpec == SchedInit /\ [][SchedNext]_schedVars

----------------------------------------------------------------------------
(* Properties *)

(* A thread on the pending list is not forgotten: the flag is set, so that the end
   of the system call or interrupt looks at the list, or an IPI is on its way or
   about to be sent, or the preemption deadline will expire ("Resuming an entity on
   the current CPU never needs an IPI to guarantee progress", schedule.cpp:155,
   and the wasEmpty test of resume()).                                             *)
PendingNoticed ==
  pendingList # {} => mustCall \/ ping \/ pinger # {} \/ deadline \/ cpu = "exit"

(* A thread in the wait queue gets its turn: with neither the flag nor a deadline,
   the CPU does not idle and each waiter is below the priority that the current
   thread had when _updatePreemption() last saw it; and the thread that is switched
   to is one of the highest priority (schedule.cpp:400-422 and its assertions).  A
   thread that lowers its priority is not compared again (schedule.cpp:116-128).   *)
WaitersGetTurn ==
  /\ cpu \in {"run", "irq"} /\ ~mustCall /\ ~deadline =>
       \A f \in waitQueue : IdleTask \notin currentEntity /\ \E p \in ranked : prio[f] < p
  /\ cpu = "commit" =>
       \A f \in waitQueue : \A e \in scheduled : e # IdleTask /\ prio[f] <= prio[e]

============================================================================
