---------------------------- MODULE SubmitQueue ----------------------------
(***************************************************************************)
(* The submission queue from a program (helix::Dispatcher::pushSq(),       *)
(* ipc.hpp) to the kernel (IpcQueue::processSq(), ipc-queue.cpp), in the   *)
(* same memory as the completion queue of IpcQueue.                        *)
(*                                                                         *)
(* Here the kernel supplies the chunks: it links all of them when it       *)
(* creates the queue, and recycles each one that the program has left.     *)
(* Both sides run on the dispatcher's thread: the kernel looks at the      *)
(* queue in helDriveQueue() only, which pushSq() calls when there is no    *)
(* next chunk, and wait() when there is nothing else to do.                *)
(***************************************************************************)
EXTENDS Naturals, Sequences

CONSTANTS
  NumSqChunks,   \* _numSqChunks (8 in the dispatcher)
  SqChunkSize,   \* _chunkSize
  SqLengths,     \* lengths of the elements that may be pushed, without header
  MaxPushed      \* bound on the elements that are pushed

ASSUME SubmitQueueAssumption ==
  /\ NumSqChunks \in Nat \ {0, 1}
  /\ \A n \in SqLengths : n \in Nat /\ 1 + n <= SqChunkSize

VARIABLES
  \* shared memory
  sqNext,       \* chunk -> the chunk behind it, or NoSqChunk
  sqProgress,   \* chunk -> progressFutex
  sqCell,       \* chunk -> what is stored at which offset
  sqPosted,     \* kHelKernelNotifySqProgress
  sqSupplied,   \* kHelUserNotifySupplySqChunks
  \* program
  pushPc,       \* where the thread is
  pushed,       \* history: the ids of all elements in the order of pushSq()
  pushing,      \* the element that pushSq() was called with
  pushChunk,    \* _sqCurrentChunk of the dispatcher
  pushProgress, \* _sqProgress
  driveReturn,  \* where the thread continues after helDriveQueue()
  \* kernel
  sqCurrentChunk, sqCurrentProgress, sqTailChunk,
  dispatched    \* history: the ids passed to submitFromSq()

sqMem    == <<sqNext, sqProgress, sqCell, sqPosted, sqSupplied>>
sqKernel == <<sqCurrentChunk, sqCurrentProgress, sqTailChunk, dispatched>>
sqPush   == <<pushing, pushed, pushChunk, pushProgress>>
sqVars   == <<sqMem, pushPc, sqPush, driveReturn, sqKernel>>

SqChunks == 0..(NumSqChunks - 1)
NoSqChunk == NumSqChunks
SqElement(id, len) == [id |-> id, len |-> len]
SqSize(e) == 1 + e.len
SqWord(n, done) == [n |-> n, done |-> done]

(* IpcQueue::create() and the end of the dispatcher's constructor. *)
SqInit ==
  /\ sqNext = [c \in SqChunks |-> c + 1]
  /\ sqProgress = [c \in SqChunks |-> SqWord(0, FALSE)]
  /\ sqCell = [c \in SqChunks |-> [o \in 0..SqChunkSize |-> SqElement(0, 0)]]
  /\ sqPosted = FALSE /\ sqSupplied = FALSE
  /\ pushPc = "app" /\ pushed = <<>> /\ pushing = SqElement(0, 0)
  /\ pushChunk = 0 /\ pushProgress = 0
  /\ driveReturn = "app"
  /\ sqCurrentChunk = 0 /\ sqCurrentProgress = 0
  /\ sqTailChunk = NumSqChunks - 1
  /\ dispatched = <<>>

----------------------------------------------------------------------------
(* Program: pushSq() *)

PushSq(len) ==
  /\ pushPc = "app" /\ Len(pushed) < MaxPushed
  /\ pushing' = SqElement(Len(pushed) + 1, len)
  /\ pushPc' = IF pushProgress + 1 + len > SqChunkSize THEN "seek" ELSE "write"
  /\ UNCHANGED <<sqMem, pushed, pushChunk, pushProgress, driveReturn, sqKernel>>

(* The next chunk is there: the current one is left. *)
LeaveChunk ==
  /\ pushPc = "seek" /\ sqNext[pushChunk] # NoSqChunk
  /\ sqProgress' = [sqProgress EXCEPT ![pushChunk] = SqWord(pushProgress, TRUE)]
  /\ sqPosted' = TRUE
  /\ pushChunk' = sqNext[pushChunk] /\ pushProgress' = 0
  /\ pushPc' = "write"
  /\ UNCHANGED <<sqNext, sqCell, sqSupplied, pushed, pushing, driveReturn, sqKernel>>

(* It is not: the bit is cleared, or the kernel is driven. *)
AwaitChunk ==
  /\ pushPc = "seek" /\ sqNext[pushChunk] = NoSqChunk
  /\ \/ sqSupplied /\ sqSupplied' = FALSE /\ UNCHANGED <<pushPc, driveReturn>>
     \/ ~sqSupplied /\ pushPc' = "drive" /\ driveReturn' = "seek" /\ UNCHANGED sqSupplied
  /\ UNCHANGED <<sqNext, sqProgress, sqCell, sqPosted, sqPush, sqKernel>>

WriteSq ==
  /\ pushPc = "write"
  /\ sqCell' = [sqCell EXCEPT ![pushChunk][pushProgress] = pushing]
  /\ pushProgress' = pushProgress + SqSize(pushing)
  /\ sqProgress' = [sqProgress EXCEPT ![pushChunk] = SqWord(pushProgress', FALSE)]
  /\ sqPosted' = TRUE
  /\ pushed' = Append(pushed, pushing.id)
  /\ pushPc' = "app"
  /\ UNCHANGED <<sqNext, sqSupplied, pushing, pushChunk, driveReturn, sqKernel>>

(* wait() finds nothing else to do. *)
WaitSq ==
  /\ pushPc = "app"
  /\ pushPc' = "drive" /\ driveReturn' = "app"
  /\ UNCHANGED <<sqMem, sqPush, sqKernel>>

----------------------------------------------------------------------------
(* Kernel: processSq() *)

(* The bit is cleared; if it was clear already, nothing is done. *)
EnterSq ==
  /\ pushPc = "drive"
  /\ sqPosted' = FALSE
  /\ pushPc' = IF sqPosted THEN "process" ELSE driveReturn
  /\ UNCHANGED <<sqNext, sqProgress, sqCell, sqSupplied, sqPush, driveReturn, sqKernel>>

DispatchElement ==
  LET e == sqCell[sqCurrentChunk][sqCurrentProgress] IN
  /\ pushPc = "process"
  /\ sqCurrentProgress < sqProgress[sqCurrentChunk].n
  /\ dispatched' = Append(dispatched, e.id)
  /\ sqCurrentProgress' = sqCurrentProgress + SqSize(e)
  /\ UNCHANGED <<sqMem, pushPc, sqPush, driveReturn, sqCurrentChunk, sqTailChunk>>

AllDispatched ==
  pushPc = "process" /\ sqCurrentProgress >= sqProgress[sqCurrentChunk].n

\* Mutant of StartOfChunk: the offset into the last chunk is kept.
StartOfChunkKept == sqCurrentProgress

(* Where the kernel goes on in the next chunk. *)
StartOfChunk == 0

(* The program has left the chunk: it is reset and linked behind the last one. *)
RecycleChunk ==
  LET c == sqCurrentChunk IN
  /\ AllDispatched /\ sqProgress[c].done /\ sqNext[c] # NoSqChunk
  /\ sqProgress' = [sqProgress EXCEPT ![c] = SqWord(0, FALSE)]
  /\ sqNext' = [sqNext EXCEPT ![c] = NoSqChunk, ![sqTailChunk] = c]
  /\ sqTailChunk' = c
  /\ sqSupplied' = TRUE
  /\ sqCurrentChunk' = sqNext[c] /\ sqCurrentProgress' = StartOfChunk
  /\ UNCHANGED <<sqCell, sqPosted, pushPc, sqPush, driveReturn, dispatched>>

(* Nothing more: processSq() returns, unless the bit was set meanwhile: then it
   clears the bit and looks again.                                           *)
LeaveSq ==
  LET again == sqPosted /\ ~sqProgress[sqCurrentChunk].done IN
  /\ AllDispatched
  /\ sqProgress[sqCurrentChunk].done => sqNext[sqCurrentChunk] = NoSqChunk
  /\ sqPosted' = (sqPosted /\ ~again)
  /\ pushPc' = IF again THEN pushPc ELSE driveReturn
  /\ UNCHANGED <<sqNext, sqProgress, sqCell, sqSupplied, sqPush, driveReturn, sqKernel>>

SqThread ==
  \/ LeaveChunk \/ AwaitChunk \/ WriteSq \/ EnterSq \/ DispatchElement \/ RecycleChunk \/ LeaveSq

SqNext == (\E len \in SqLengths : PushSq(len)) \/ WaitSq \/ SqThread

SqSpec == SqInit /\ [][SqNext]_sqVars /\ WF_sqVars(SqThread) /\ WF_sqVars(WaitSq)

----------------------------------------------------------------------------
(* Properties *)

SqAbstract == INSTANCE Fifo WITH
  Values <- 1..MaxPushed, put <- pushed, got <- dispatched

(* The kernel dispatches the elements in the order of pushSq(), each of them
   once, however the chunks are filled and recycled (ipc-queue.cpp:219-274,
   ipc.hpp:332-389).                                                         *)
SubmitsInOrder == SqAbstract!FSpec

(* pushSq() always gets a chunk, and what was pushed is dispatched the next time
   that the queue is driven (ipc.hpp:347-357, ipc-queue.cpp:196-297).         *)
SubmitsArrive == []<>(pushPc = "app" /\ dispatched = pushed)
============================================================================
