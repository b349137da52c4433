------------------------------ MODULE EventFd ------------------------------
(***************************************************************************)
(* eventfd files of the POSIX subsystem (eventfd.cpp), with coroutines     *)
(* that read, write and poll one file.  As in Pipe, a handler is one step  *)
(* up to its next await, and coroutines that the doorbell resumes run      *)
(* before the next request is taken.  The counter has 64 bits in the code  *)
(* and wraps; here it counts modulo CounterLimit.                          *)
(***************************************************************************)
EXTENDS Naturals

CONSTANTS
  EventTasks,    \* coroutines
  CounterLimit,  \* 2^64 in the code
  MaxEventSeq    \* bound on _currentSeq

VARIABLES
  evfile,   \* the file: counter, nonblock, semaphore, and the sequence numbers
  evtask    \* task -> what it does

eventVars == <<evfile, evtask>>

IdleEventTask == [pc |-> "idle", num |-> 0, past |-> 0, status |-> {}]

EventInit ==
  /\ \E counter \in {0, 1}, nonblock, semaphore \in BOOLEAN :
       evfile = [counter |-> counter, nonblock |-> nonblock, semaphore |-> semaphore,
                 cur |-> 1, in |-> 0, out |-> 0]
  /\ evtask = [t \in EventTasks |-> IdleEventTask]

EventQuiet == \A t \in EventTasks : evtask[t].pc \notin {"read", "add", "poll"}

(* What a task goes on with when _doorbell.raise() resumes it. *)
Rung(tasks) ==
  [t \in EventTasks |->
     [tasks[t] EXCEPT !.pc = CASE @ = "readWait" -> "read" [] @ = "writeWait" -> "add"
                               [] @ = "pollWait" -> "poll" [] OTHER -> @]]

(* An edge of the kind given: the number of the last one is the new _currentSeq. *)
EventEdge(file, kind) == [file EXCEPT !.cur = @ + 1, ![kind] = file.cur + 1]

----------------------------------------------------------------------------
CallEvent(t, pc) ==
  /\ EventQuiet /\ evtask[t].pc = "idle" /\ evfile.cur < MaxEventSeq
  /\ evtask' = [evtask EXCEPT ![t] = [IdleEventTask EXCEPT !.pc = pc]]
  /\ UNCHANGED evfile

(* readSome() *)
ReadEvent(t) ==
  /\ evtask[t].pc = "read"
  /\ \/ /\ evfile.counter > 0
        /\ evfile' = EventEdge([evfile EXCEPT !.counter = IF evfile.semaphore THEN @ - 1 ELSE 0], "out")
        /\ evtask' = Rung([evtask EXCEPT ![t] = IdleEventTask])
     \/ /\ evfile.counter = 0
        /\ evtask' = [evtask EXCEPT ![t] = IF evfile.nonblock THEN IdleEventTask
                                           ELSE [@ EXCEPT !.pc = "readWait"]]
        /\ UNCHANGED evfile

(* num + _counter <= _counter, modulo the width of the counter *)
Overflows(num) == num > 0 /\ (num + evfile.counter) % CounterLimit <= evfile.counter

(* writeAll(): the largest number is refused, and one that does not fit waits, once. *)
CallWriteEvent(t, num) ==
  /\ EventQuiet /\ evtask[t].pc = "idle" /\ evfile.cur < MaxEventSeq
  /\ num < CounterLimit - 1
  /\ ~(Overflows(num) /\ evfile.nonblock)
  /\ evtask' = [evtask EXCEPT ![t] = [IdleEventTask EXCEPT
                    !.pc = IF Overflows(num) THEN "writeWait" ELSE "add", !.num = num]]
  /\ UNCHANGED evfile

AddEvent(t) ==
  /\ evtask[t].pc = "add"
  /\ evfile' = EventEdge([evfile EXCEPT !.counter = (@ + evtask[t].num) % CounterLimit], "in")
  /\ evtask' = Rung([evtask EXCEPT ![t] = IdleEventTask])

(* pollStatus() *)
EventStatus ==
  (IF evfile.counter > 0 THEN {"in"} ELSE {}) \cup
  (IF evfile.counter < CounterLimit - 1 THEN {"out"} ELSE {})

(* pollStatus() and then pollWait() with the number it returned *)
CallPollEvent(t) ==
  /\ EventQuiet /\ evtask[t].pc = "idle"
  /\ evtask' = [evtask EXCEPT ![t] = [IdleEventTask EXCEPT !.pc = "poll", !.past = evfile.cur,
                                                           !.status = EventStatus]]
  /\ UNCHANGED evfile

PollEvent(t) ==
  /\ evtask[t].pc = "poll"
  /\ evtask' = [evtask EXCEPT ![t] = IF evfile.cur = @.past THEN [@ EXCEPT !.pc = "pollWait"]
                                     ELSE IdleEventTask]
  /\ UNCHANGED evfile

(* A read is interrupted, a poll cancelled; a write is neither. *)
CancelEventWait(t) ==
  /\ EventQuiet /\ evtask[t].pc \in {"readWait", "pollWait"}
  /\ evtask' = [evtask EXCEPT ![t] = IdleEventTask]
  /\ UNCHANGED evfile

SetEventFlags ==
  /\ EventQuiet
  /\ evfile' = [evfile EXCEPT !.nonblock = ~@]
  /\ UNCHANGED evtask

EventNext ==
  \/ SetEventFlags
  \/ \E t \in EventTasks :
       \/ CallEvent(t, "read") \/ ReadEvent(t) \/ AddEvent(t)
       \/ CallPollEvent(t) \/ PollEvent(t) \/ CancelEventWait(t)
       \/ \E num \in 0..(CounterLimit - 1) : CallWriteEvent(t, num)

EventSpec == EventInit /\ [][EventNext]_eventVars

----------------------------------------------------------------------------
(* Properties *)

(* Nobody waits for something that is there: a reader waits while the counter is
   zero, a writer while its number does not fit, and a poller only while every
   active event was active in the status it started from (eventfd.cpp:41-63,
   76-80, 95-117).                                                            *)
EventWaitsJustified ==
  EventQuiet =>
    \A t \in EventTasks :
      CASE evtask[t].pc = "readWait" -> evfile.counter = 0
        [] evtask[t].pc = "writeWait" -> Overflows(evtask[t].num)
        [] evtask[t].pc = "pollWait" -> EventStatus \subseteq evtask[t].status
        [] OTHER -> TRUE

(* A writer that had to wait "for read" (eventfd.cpp:79) finds room for its
   number.  Not so: the doorbell also rings for writes, a read of a semaphore
   makes room for one only, and the number is not looked at again, so that the
   counter wraps.                                                             *)
AddsFit ==
  \A t \in EventTasks : evtask[t].pc = "add" => ~Overflows(evtask[t].num)
============================================================================
