----------------------------- MODULE MCWakeups -----------------------------
(***************************************************************************)
(* Instances, for TLC, of the files of the POSIX subsystem that tasks wait *)
(* for, and of the scheduler.  A behaviour is one of the component that    *)
(* scenario names, while the variables of the others keep their initial    *)
(* values.                                                                 *)
(***************************************************************************)
EXTENDS Epoll, Pipe, EventFd, FileLocks, Scheduler, TLC

VARIABLE scenario

(* Level-triggered; for the eventfd also edge-triggered; for the other file, whose
   status and wait are asked for with messages, also one-shot and without EPOLLIN. *)
AllModes ==
  [f \in EpollFiles |->
     IF f \in LocalFiles THEN {Mode(TRUE, FALSE, FALSE), Mode(TRUE, TRUE, FALSE)}
     ELSE {Mode(TRUE, FALSE, FALSE), Mode(TRUE, FALSE, TRUE), Mode(FALSE, FALSE, FALSE)}]

WaiterSymmetry == Permutations(Waiters)

WakeupsInit ==
  /\ scenario \in {"epoll", "pipe", "eventfd", "flock", "schedule"}
  /\ EpollInit /\ PipeInit /\ LocksInit /\ SchedInit /\ EventInit
  /\ scenario # "eventfd" => evfile.counter = 0 /\ ~evfile.nonblock /\ ~evfile.semaphore

Ep(A) == scenario = "epoll" /\ A /\ UNCHANGED <<scenario, pipeVars, eventVars, lockVars, schedVars>>
Pi(A) == scenario = "pipe" /\ A /\ UNCHANGED <<scenario, epollVars, eventVars, lockVars, schedVars>>
Ev(A) == scenario = "eventfd" /\ A /\ UNCHANGED <<scenario, epollVars, pipeVars, lockVars, schedVars>>
Lk(A) == scenario = "flock" /\ A /\ UNCHANGED <<scenario, epollVars, pipeVars, eventVars, schedVars>>
Sc(A) == scenario = "schedule" /\ A /\ UNCHANGED <<scenario, epollVars, pipeVars, eventVars, lockVars>>

WakeupsNext == Ep(EpollNext) \/ Pi(PipeNext) \/ Ev(EventNext) \/ Lk(LocksNext) \/ Sc(SchedNext)

WakeupsSpec ==
  WakeupsInit /\ [][WakeupsNext]_<<scenario, epollVars, pipeVars, eventVars, lockVars, schedVars>>

(* Nobody sleeps in a read, write, open or poll of a pipe or of an eventfd without
   a reason: what they wait for has not happened, or their wakeup is under way.    *)
WaitsJustified == PipeWaitsJustified /\ EventWaitsJustified
============================================================================
