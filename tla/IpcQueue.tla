----------------------------- MODULE IpcQueue -----------------------------
(***************************************************************************)
(* The completion queue between the kernel (IpcQueue::submit(), ipc-       *)
(* queue.cpp) and a program (helix::Dispatcher, ipc.hpp), which share a    *)
(* piece of memory that is divided into chunks.                            *)
(*                                                                         *)
(* The program supplies chunks by linking them behind the last one; the    *)
(* kernel fills them with elements, marks them full, and retires them when *)
(* there is a next one.  Both sides publish progress in the chunk, then    *)
(* set a bit in the notification word of the other side, and only wake the *)
(* other side if the bit was clear; both clear the bits before they look   *)
(* again, and sleep only if the bits are still clear.                      *)
(*                                                                         *)
(* Every access to the shared memory is a step of its own.  One element is *)
(* submitted at a time (_cqMutex); the dispatcher runs on one thread.      *)
(* Sizes are counted in units; the header of an element is one unit.       *)
(***************************************************************************)
EXTENDS Naturals, Sequences, FiniteSets

CONSTANTS
  NumChunks,   \* _numCqChunks (8 in the dispatcher)
  ChunkSize,   \* _chunkSize
  Lengths,     \* the elements that are submitted: their lengths without header
  MaxHeld,     \* bound on the elements that the program holds on to
  MaxAlerts    \* bound on the wakeups of the run queue

ASSUME IpcQueueAssumption ==
  /\ NumChunks \in Nat \ {0, 1}
  /\ ChunkSize \in Nat
  /\ \A i \in 1..Len(Lengths) : Lengths[i] \in Nat /\ 1 + Lengths[i] <= ChunkSize  \* validSize()

VARIABLES
  \* shared memory
  userNotify, kernelNotify,  \* notification words: sets of bits
  cqFirst,     \* the first chunk was announced
  next,        \* chunk -> the chunk behind it, or NoChunk
  progress,    \* chunk -> progressFutex
  cell,        \* chunk -> what is stored at which offset
  \* kernel
  k,           \* where submit() is
  elem,        \* the element being submitted: [id, len]
  haveChunk, currentChunk, currentProgress,
  posted,      \* history: the ids of the elements that were published
  \* dispatcher
  u,           \* where the dispatcher's thread is
  supplied,    \* the chunk that it supplies
  uret,        \* where it continues after that
  notify, pendingNotify,
  retrieveChunk, tailChunk, lastProgress,
  refCounts,   \* chunk -> references
  held,        \* elements that the program holds: [chunk, off, id]
  taken,       \* history: the ids of the elements that were dequeued
  \* other threads of the program
  rq,          \* the run queue of the dispatcher is not empty
  alerting,    \* helAlertQueue() is about to be called
  alerts       \* calls so far

chunkVars  == <<cqFirst, next, progress, cell>>
memVars    == <<userNotify, kernelNotify, chunkVars>>
submitVars == <<elem, haveChunk, currentChunk, currentProgress, posted>>
chunkUse   == <<retrieveChunk, tailChunk, lastProgress, refCounts, held, taken>>
alertVars  == <<rq, alerting, alerts>>
waitVars   == <<supplied, uret, notify, pendingNotify, chunkUse, alertVars>>
cqVars == <<memVars, k, submitVars, u, waitVars>>

Chunks == 0..(NumChunks - 1)
NoChunk == NumChunks
NoElem == [id |-> 0, len |-> 0]

CqProgress == "cqProgress"
Alert      == "alert"
SupplyCq   == "supplyCqChunks"

Size(e) == 1 + e.len

Progress(n, full, done) == [n |-> n, full |-> full, done |-> done]

(* The dispatcher starts in its constructor: the chunks are reset, and are
   about to be announced one by one.                                       *)
CqInit ==
  /\ userNotify = {} /\ kernelNotify = {}
  /\ cqFirst = FALSE
  /\ next = [c \in Chunks |-> NoChunk]
  /\ progress = [c \in Chunks |-> Progress(0, FALSE, FALSE)]
  /\ cell = [c \in Chunks |-> [o \in 0..ChunkSize |-> NoElem]]
  /\ k = "idle" /\ elem = NoElem
  /\ haveChunk = FALSE /\ currentChunk = 0 /\ currentProgress = 0
  /\ posted = <<>>
  /\ u = "announce" /\ supplied = 1 /\ uret = "setup"
  /\ notify = {} /\ pendingNotify = {}
  /\ retrieveChunk = 0 /\ tailChunk = 0 /\ lastProgress = 0
  /\ refCounts = [c \in Chunks |-> 1]
  /\ held = {} /\ taken = <<>>
  /\ rq = FALSE /\ alerting = FALSE /\ alerts = 0

----------------------------------------------------------------------------
(* Events.  The kernel sleeps in _cqEvent at "asleepFirst" and "asleepNext",
   the dispatcher's thread in _userEvent at "blocked".                      *)
RaiseCqEvent ==
  k' = CASE k = "asleepFirst" -> "first"
         [] k = "asleepNext"  -> "next"
         [] OTHER             -> k

(* The kernel sets a bit of userNotify, and raises _userEvent if it was clear. *)
NotifyUser(bit) ==
  /\ userNotify' = userNotify \cup {bit}
  /\ u' = IF bit \notin userNotify /\ u = "blocked" THEN "reload" ELSE u

----------------------------------------------------------------------------
(* Kernel: IpcQueue::submit() *)

Submit ==
  /\ k = "idle" /\ Len(posted) < Len(Lengths)
  /\ elem' = [id |-> Len(posted) + 1, len |-> Lengths[Len(posted) + 1]]
  /\ k' = IF haveChunk THEN "room" ELSE "first"
  /\ UNCHANGED <<memVars, haveChunk, currentChunk, currentProgress, posted, u, waitVars>>

TakeFirst ==
  /\ k = "first"
  /\ \/ /\ cqFirst
        /\ currentChunk' = 0 /\ haveChunk' = TRUE
        /\ k' = "room"
     \/ /\ ~cqFirst
        /\ k' = "notifyFirst"
        /\ UNCHANGED <<currentChunk, haveChunk>>
  /\ UNCHANGED <<memVars, elem, currentProgress, posted, u, waitVars>>

(* The bit is tested, and cleared if it is set; then the chunk is tested again. *)
TestNotify(at, sleep, again) ==
  /\ k = at
  /\ \/ /\ SupplyCq \notin kernelNotify
        /\ k' = sleep
        /\ UNCHANGED kernelNotify
     \/ /\ SupplyCq \in kernelNotify
        /\ kernelNotify' = kernelNotify \ {SupplyCq}
        /\ k' = again
  /\ UNCHANGED <<userNotify, chunkVars, submitVars, u, waitVars>>

\* Mutant of SleepsIf: the bit is not tested again before going to sleep.
SleepsIfUntested == TRUE

(* The condition of _cqEvent.async_wait_if(). *)
SleepsIf == SupplyCq \notin kernelNotify

WaitIf(at, asleep, again) ==
  /\ k = at
  /\ k' = IF SleepsIf THEN asleep ELSE again
  /\ UNCHANGED <<memVars, submitVars, u, waitVars>>

(* Whether the element still fits, which leaves out its header. *)
NeedsNextChunk == currentProgress + elem.len > ChunkSize

CheckRoom ==
  /\ k = "room"
  /\ \/ /\ NeedsNextChunk
        /\ progress' = [progress EXCEPT ![currentChunk] = Progress(currentProgress, TRUE, FALSE)]
        /\ k' = "full"
     \/ /\ ~NeedsNextChunk
        /\ k' = "write"
        /\ UNCHANGED progress
  /\ UNCHANGED <<userNotify, kernelNotify, cqFirst, next, cell, submitVars, u, waitVars>>

NotifyFull ==
  /\ k = "full"
  /\ NotifyUser(CqProgress)
  /\ k' = "next"
  /\ UNCHANGED <<kernelNotify, chunkVars, submitVars, waitVars>>

TakeNext ==
  /\ k = "next"
  /\ \/ /\ next[currentChunk] # NoChunk
        /\ progress' = [progress EXCEPT ![currentChunk] = Progress(currentProgress, TRUE, TRUE)]
        /\ currentChunk' = next[currentChunk] /\ currentProgress' = 0
        /\ k' = "retired"
     \/ /\ next[currentChunk] = NoChunk
        /\ k' = "notifyNext"
        /\ UNCHANGED <<progress, currentChunk, currentProgress>>
  /\ UNCHANGED <<userNotify, kernelNotify, cqFirst, next, cell, elem, haveChunk, posted, u, waitVars>>

NotifyRetired ==
  /\ k = "retired"
  /\ NotifyUser(CqProgress)
  /\ k' = "write"
  /\ UNCHANGED <<kernelNotify, chunkVars, submitVars, waitVars>>

WriteElement ==
  /\ k = "write"
  /\ cell' = [cell EXCEPT ![currentChunk][currentProgress] = elem]
  /\ k' = "publish"
  /\ UNCHANGED <<userNotify, kernelNotify, cqFirst, next, progress, submitVars, u, waitVars>>

Publish ==
  /\ k = "publish"
  /\ progress' = [progress EXCEPT ![currentChunk] =
                    Progress(currentProgress + Size(elem), FALSE, FALSE)]
  /\ posted' = Append(posted, elem.id)
  /\ k' = "notify"
  /\ UNCHANGED <<userNotify, kernelNotify, cqFirst, next, cell, elem, haveChunk,
                 currentChunk, currentProgress, u, waitVars>>

NotifyProgress ==
  /\ k = "notify"
  /\ NotifyUser(CqProgress)
  /\ currentProgress' = currentProgress + Size(elem)
  /\ elem' = NoElem
  /\ k' = "idle"
  /\ UNCHANGED <<kernelNotify, chunkVars, haveChunk,
                 currentChunk, posted, waitVars>>

Kernel ==
  \/ TakeFirst
  \/ TestNotify("notifyFirst", "waitFirst", "first")
  \/ WaitIf("waitFirst", "asleepFirst", "first")
  \/ CheckRoom \/ NotifyFull \/ TakeNext
  \/ TestNotify("notifyNext", "waitNext", "next")
  \/ WaitIf("waitNext", "asleepNext", "next")
  \/ NotifyRetired \/ WriteElement \/ Publish \/ NotifyProgress

----------------------------------------------------------------------------
(* Program: helix::Dispatcher *)

(* The constructor announces the first chunk and supplies the others. *)
AnnounceFirst ==
  /\ u = "announce"
  /\ cqFirst' = TRUE
  /\ u' = "link"
  /\ UNCHANGED <<userNotify, kernelNotify, next, progress, cell, k, submitVars, waitVars>>

SetupNext ==
  /\ u = "setup"
  /\ \/ /\ supplied < NumChunks - 1
        /\ supplied' = supplied + 1 /\ u' = "link"
        /\ UNCHANGED uret
     \/ /\ supplied = NumChunks - 1
        /\ u' = "signal" /\ uret' = "app"
        /\ UNCHANGED supplied
  /\ UNCHANGED <<memVars, k, submitVars, notify, pendingNotify, chunkUse, alertVars>>

\* Mutant of NewTail: the end of the list is not moved.
NewTailKept == tailChunk

(* The chunk that the next one is linked behind. *)
NewTail == supplied

(* _supplyChunk(): the chunk is linked behind the last one ... *)
LinkChunk ==
  /\ u = "link"
  /\ next' = [next EXCEPT ![tailChunk] = supplied]
  /\ tailChunk' = NewTail
  /\ u' = "signal"
  /\ UNCHANGED <<userNotify, kernelNotify, cqFirst, progress, cell, k, submitVars, supplied, uret,
                 notify, pendingNotify, retrieveChunk, lastProgress, refCounts, held, taken, alertVars>>

(* ... and _wakeHeadFutex() drives the queue if the bit was clear. *)
SignalChunks ==
  /\ u = "signal"
  /\ kernelNotify' = kernelNotify \cup {SupplyCq}
  /\ u' = IF SupplyCq \in kernelNotify THEN uret ELSE "kick"
  /\ UNCHANGED <<userNotify, chunkVars, k, submitVars, waitVars>>

(* helDriveQueue() without waiting. *)
KickKernel ==
  /\ u = "kick"
  /\ RaiseCqEvent
  /\ u' = uret
  /\ UNCHANGED <<memVars, submitVars, waitVars>>

(* _surrender(): the last reference resets the chunk and supplies it again. *)
Surrender(c, ret) ==
  IF refCounts[c] > 1
    THEN /\ refCounts' = [refCounts EXCEPT ![c] = @ - 1]
         /\ u' = ret
         /\ UNCHANGED <<next, progress, supplied, uret>>
    ELSE /\ refCounts' = [refCounts EXCEPT ![c] = 1]
         /\ next' = [next EXCEPT ![c] = NoChunk]
         /\ progress' = [progress EXCEPT ![c] = Progress(0, FALSE, FALSE)]
         /\ supplied' = c /\ uret' = ret
         /\ u' = "link"

(* The program drops an element. *)
Release(h) ==
  /\ u = "app" /\ h \in held
  /\ held' = held \ {h}
  /\ Surrender(h.chunk, "app")
  /\ UNCHANGED <<userNotify, kernelNotify, cqFirst, cell, k, submitVars, notify, pendingNotify,
                 retrieveChunk, tailChunk, lastProgress, taken, alertVars>>

(* wait(): the run queue first. *)
CallWait ==
  /\ u = "app" /\ Cardinality(held) <= MaxHeld
  /\ u' = "check"
  /\ UNCHANGED <<memVars, k, submitVars, waitVars>>

CheckRunQueue ==
  /\ u = "check"
  /\ \/ rq /\ rq' = FALSE /\ u' = "app" /\ UNCHANGED notify
     \/ ~rq /\ notify' = userNotify /\ u' = "look" /\ UNCHANGED rq
  /\ UNCHANGED <<memVars, k, submitVars, supplied, uret, pendingNotify, chunkUse, alerting, alerts>>

\* Mutant of Unread: a retired chunk is given back before it was read.
UnreadLate(pr) == lastProgress # pr.n /\ ~pr.done

(* The chunk holds an element that was not dequeued. *)
Unread(pr) == lastProgress # pr.n

(* _waitProgressFutex(): what is there in the current chunk? *)
Look ==
  LET seen == pendingNotify \cup notify
      pr == progress[retrieveChunk]
  IN /\ u = "look"
     /\ pendingNotify' = seen
     /\ u' = IF CqProgress \in seen /\ Unread(pr) THEN "dequeue"
             ELSE IF CqProgress \in seen /\ pr.done THEN "done"
             ELSE "clear"
     /\ UNCHANGED <<memVars, k, submitVars, supplied, uret, notify, chunkUse, alertVars>>

Relevant == {CqProgress, Alert}

(* Nothing: the bits are cleared and everything is looked at again, or the
   thread drives the queue if they are clear already.                      *)
ClearBits ==
  /\ u = "clear"
  /\ pendingNotify' = pendingNotify \ Relevant
  /\ \/ /\ notify \cap Relevant = {}
        /\ u' = IF rq THEN "check" ELSE "drive"
        /\ UNCHANGED <<userNotify, notify>>
     \/ /\ notify \cap Relevant # {}
        /\ notify' = userNotify
        /\ userNotify' = userNotify \ (notify \cap Relevant)
        /\ u' = "look"
  /\ UNCHANGED <<kernelNotify, chunkVars, k, submitVars, supplied, uret, chunkUse, alertVars>>

(* helDriveQueue(kHelDriveWait). *)
DriveQueue ==
  /\ u = "drive"
  /\ RaiseCqEvent
  /\ u' = "waitUser"
  /\ UNCHANGED <<memVars, submitVars, waitVars>>

WaitUserEvent ==
  /\ u = "waitUser"
  /\ u' = IF userNotify = {} THEN "blocked" ELSE "reload"
  /\ UNCHANGED <<memVars, k, submitVars, waitVars>>

(* The wait is interrupted (kHelErrCancelled). *)
Interrupted ==
  /\ u = "blocked"
  /\ u' = "reload"
  /\ UNCHANGED <<memVars, k, submitVars, waitVars>>

Reload ==
  /\ u = "reload"
  /\ notify' = userNotify
  /\ u' = "look"
  /\ UNCHANGED <<memVars, k, submitVars, supplied, uret, pendingNotify, chunkUse, alertVars>>

\* Mutant of References: an element does not keep its chunk.
ReferencesNone(c) == refCounts

(* The reference counts when the program gets an element of chunk c. *)
References(c) == [refCounts EXCEPT ![c] = @ + 1]

Dequeue ==
  LET e == cell[retrieveChunk][lastProgress] IN
  /\ u = "dequeue"
  /\ lastProgress' = lastProgress + Size(e)
  /\ refCounts' = References(retrieveChunk)
  /\ held' = held \cup {[chunk |-> retrieveChunk, off |-> lastProgress, id |-> e.id]}
  /\ taken' = Append(taken, e.id)
  /\ u' = "app"
  /\ UNCHANGED <<memVars, k, submitVars, supplied, uret, notify, pendingNotify,
                 retrieveChunk, tailChunk, alertVars>>

(* The kernel has retired the chunk: its own reference is dropped. *)
ChunkDone ==
  /\ u = "done"
  /\ retrieveChunk' = next[retrieveChunk] /\ lastProgress' = 0
  /\ Surrender(retrieveChunk, "check")
  /\ UNCHANGED <<userNotify, kernelNotify, cqFirst, cell, k, submitVars, notify, pendingNotify,
                 tailChunk, held, taken, alertVars>>

Dispatcher ==
  \/ AnnounceFirst \/ SetupNext \/ LinkChunk \/ SignalChunks \/ KickKernel
  \/ \E h \in held : Release(h)
  \/ CallWait \/ CheckRunQueue \/ Look \/ ClearBits \/ DriveQueue \/ WaitUserEvent
  \/ Reload \/ Dequeue \/ ChunkDone

----------------------------------------------------------------------------
(* Another thread posts to the run queue, and alerts the dispatcher. *)
PostRunQueue ==
  /\ ~rq /\ ~alerting /\ alerts < MaxAlerts
  /\ rq' = TRUE /\ alerting' = TRUE /\ alerts' = alerts + 1
  /\ UNCHANGED <<memVars, k, submitVars, u, supplied, uret, notify, pendingNotify, chunkUse>>

AlertQueue ==
  /\ alerting
  /\ NotifyUser(Alert)
  /\ alerting' = FALSE
  /\ UNCHANGED <<kernelNotify, chunkVars, k, submitVars, supplied, uret, notify, pendingNotify,
                 chunkUse, rq, alerts>>

CqNext ==
  \/ Submit
  \/ Kernel \/ Dispatcher \/ Interrupted \/ PostRunQueue \/ AlertQueue

CqSpec == CqInit /\ [][CqNext]_cqVars

(* The kernel's coroutine, the dispatcher's thread and the thread that alerts it
   keep running; the program goes on calling wait() and drops its elements.   *)
CqFairSpec ==
  /\ CqSpec /\ WF_cqVars(Kernel) /\ WF_cqVars(Dispatcher) /\ WF_cqVars(AlertQueue)
  /\ WF_cqVars(CallWait) /\ WF_cqVars(\E h \in held : Release(h))

----------------------------------------------------------------------------
(* Properties *)

CqTypeOK ==
  /\ userNotify \subseteq Relevant /\ kernelNotify \subseteq {SupplyCq}
  /\ next \in [Chunks -> Chunks \cup {NoChunk}]
  /\ {currentChunk, retrieveChunk, tailChunk, supplied} \subseteq Chunks
  /\ refCounts \in [Chunks -> Nat]
  /\ \A c \in Chunks : progress[c].n \in 0..(ChunkSize + 1)

(* An element that the program holds stays where it is: its chunk is neither
   reset nor written to before the last reference is dropped (ipc.hpp:286, 301-
   308, 505-508).                                                             *)
HeldStable ==
  \A h \in held :
    /\ cell[h.chunk][h.off].id = h.id
    /\ progress[h.chunk].n >= h.off + Size(cell[h.chunk][h.off])
    /\ ~(k \in {"write", "publish"} /\ currentChunk = h.chunk /\ currentProgress <= h.off)

(* The assertions of the dispatcher (ipc.hpp:426, 431): a chunk that the kernel
   has filled is not the last one, and a retired one is full.                 *)
DispatcherAssertions ==
  u = "look" /\ CqProgress \in (pendingNotify \cup notify) =>
    /\ progress[retrieveChunk].full => retrieveChunk # tailChunk
    /\ progress[retrieveChunk].done => progress[retrieveChunk].full

Abstract == INSTANCE Fifo WITH
  Values <- 1..Len(Lengths), put <- posted, got <- taken

(* The queue is a first-in first-out channel: elements are dequeued in the order
   in which they were published, each of them once (ipc-queue.cpp:167-193,
   ipc.hpp:256-291).                                                          *)
ImplementsFifo == Abstract!FSpec

(* No wakeup is lost between the notification bits and the two events: every
   element that is submitted is dequeued, and work that other threads post to
   the dispatcher is run, so that again and again there is nothing left to do
   (ipc-queue.cpp:133-146, ipc.hpp:405-461).                                  *)
QueueDrains == []<>(k = "idle" /\ taken = posted /\ ~rq)

(* An element, with its header, ends within its chunk, as it must in the other
   direction (ipc-queue.cpp:77, 233).                                         *)
ElementsFit == \A c \in Chunks : progress[c].n <= ChunkSize
============================================================================
