------------------------------- MODULE Pipe -------------------------------
(***************************************************************************)
(* Pipes and FIFOs of the POSIX subsystem (fifo.cpp): one named channel,   *)
(* the files that are opened on it, and coroutines that read, write and    *)
(* poll them.                                                              *)
(*                                                                         *)
(* The subsystem runs coroutines on one thread: a handler is one step up   *)
(* to its next await, and coroutines that a bell resumes run before the    *)
(* next request is taken.  The ring buffer (frigg, external) is the number *)
(* of bytes in it.  A file is not closed while an operation on it waits.   *)
(***************************************************************************)
EXTENDS Naturals, FiniteSets

CONSTANTS
  PipeFiles,    \* open file descriptions
  ReaderFiles,  \* those that are opened for reading
  WriterFiles,  \* those that are opened for writing; O_RDWR files are in both
  PipeTasks,    \* coroutines
  PipeSize,     \* capacity of the ring
  MaxPipeSeq    \* bound on currentSeq

ASSUME PipeAssumption ==
  /\ PipeFiles = ReaderFiles \cup WriterFiles
  /\ PipeSize \in Nat \ {0} /\ MaxPipeSeq \in Nat

PipeEvents == {"in", "hup", "out", "err"}

VARIABLES
  pfile,   \* file -> [state, nonblock]
  ring,    \* bytes in the ring
  pseq,    \* currentSeq, and the sequence numbers of the last edges
  ptask    \* task -> what it does

pipeVars == <<pfile, ring, pseq, ptask>>

IdlePipeTask == [pc |-> "idle", file |-> {}, len |-> 0, past |-> 0, mask |-> {}, status |-> {}]

PipeInit ==
  /\ pfile = [f \in PipeFiles |-> [state |-> "closed", nonblock |-> FALSE]]
  /\ ring = 0
  /\ pseq = [cur |-> 1, hup |-> 0, err |-> 0, in |-> 0, out |-> 1]
  /\ ptask = [t \in PipeTasks |-> IdlePipeTask]

(* Files that count in readerCount and writerCount: from connectChannel(), which
   comes before the open waits, to handleClose().                              *)
Connected(files) == {f \in files : pfile[f].state # "closed"}
readerCount == Cardinality(Connected(ReaderFiles))
writerCount == Cardinality(Connected(WriterFiles))

----------------------------------------------------------------------------
(* Bells *)

(* The loop that a waiting task goes on with. *)
Resumed(pc) ==
  CASE pc = "readWait" -> "read" [] pc = "writeWait" -> "write" [] pc = "pollWait" -> "poll" [] OTHER -> pc

(* statusBell.raise() *)
RungBell(tasks) == [t \in PipeTasks |-> [tasks[t] EXCEPT !.pc = Resumed(@)]]

PipeQuiet == \A t \in PipeTasks : ptask[t].pc \notin {"read", "write", "poll"}

(* currentSeq is counted up; the new number is that of the edge. *)
Edge(events) == [e \in DOMAIN pseq |-> IF e = "cur" \/ e \in events THEN pseq.cur + 1 ELSE pseq[e]]

----------------------------------------------------------------------------
(* openNamedChannel() *)

(* Opens for reading that wait for a writer, and the reverse, are let go by
   readerPresent.raise() and writerPresent.raise().                         *)
Admitted(f) ==
  [g \in PipeFiles |->
     IF pfile[g].state = "opening" /\
        (IF g \in ReaderFiles THEN f \in WriterFiles ELSE f \in ReaderFiles)
     THEN [pfile[g] EXCEPT !.state = "open"] ELSE pfile[g]]

(* A file for one direction waits for somebody in the other. *)
MustAwaitPeer(f, nonblock) ==
  /\ ~nonblock
  /\ \/ f \notin WriterFiles /\ writerCount = 0
     \/ f \notin ReaderFiles /\ readerCount = 0

OpenPipe(f, nonblock) ==
  /\ PipeQuiet /\ pfile[f].state = "closed"
  /\ pfile' = [Admitted(f) EXCEPT
                 ![f] = [state |-> IF MustAwaitPeer(f, nonblock) THEN "opening" ELSE "open",
                         nonblock |-> nonblock]]
  /\ UNCHANGED <<ring, pseq, ptask>>

(* handleClose(): an edge for each count that drops to zero. *)
ClosePipe(f) ==
  LET lastReader == f \in ReaderFiles /\ readerCount = 1
      lastWriter == f \in WriterFiles /\ writerCount = 1
  IN /\ PipeQuiet /\ pfile[f].state = "open" /\ pseq.cur < MaxPipeSeq
     /\ \A t \in PipeTasks : f \notin ptask[t].file
     /\ pfile' = [pfile EXCEPT ![f].state = "closed"]
     /\ \/ ~lastReader /\ ~lastWriter /\ UNCHANGED <<pseq, ptask>>
        \/ /\ lastReader \/ lastWriter
           /\ pseq' = [pseq EXCEPT
                !.cur = @ + (IF lastReader THEN 1 ELSE 0) + (IF lastWriter THEN 1 ELSE 0),
                !.err = IF lastReader THEN pseq.cur + 1 ELSE @,
                !.hup = IF lastWriter THEN pseq.cur + (IF lastReader THEN 2 ELSE 1) ELSE @]
           /\ ptask' = RungBell(ptask)
     /\ UNCHANGED ring

(* setFileFlags() *)
SetFileFlags(f) ==
  /\ PipeQuiet /\ pfile[f].state = "open"
  /\ pfile' = [pfile EXCEPT ![f].nonblock = ~@]
  /\ UNCHANGED <<ring, pseq, ptask>>

----------------------------------------------------------------------------
(* readSome() and writeAll() *)

Start(t, f, pc, len) ==
  /\ PipeQuiet /\ pfile[f].state = "open" /\ ptask[t].pc = "idle"
  /\ ptask' = [ptask EXCEPT ![t] = [IdlePipeTask EXCEPT !.pc = pc, !.file = {f}, !.len = len]]
  /\ UNCHANGED <<pfile, ring, pseq>>

(* An end that is not open in this direction returns at once. *)
CallRead(t, f, len) == f \in ReaderFiles /\ Start(t, f, "read", len)

(* Readers are looked for once, before the loop. *)
CallWrite(t, f, len) == f \in WriterFiles /\ readerCount > 0 /\ Start(t, f, "write", len)

\* Mutant of EndOfFile: the writers are not looked at again once it waits.
EndOfFileNever == FALSE

EndOfFile == writerCount = 0

Nonblocking(t) == \A f \in ptask[t].file : pfile[f].nonblock

Fewer(a, b) == IF a < b THEN a ELSE b

ReadLoop(t) ==
  /\ ptask[t].pc = "read"
  /\ \/ /\ ring > 0 /\ pseq.cur < MaxPipeSeq
        /\ ring' = ring - Fewer(ring, ptask[t].len)
        /\ pseq' = Edge({"out"})
        /\ ptask' = RungBell([ptask EXCEPT ![t] = IdlePipeTask])
     \/ /\ ring = 0 /\ (EndOfFile \/ Nonblocking(t))
        /\ ptask' = [ptask EXCEPT ![t] = IdlePipeTask]
        /\ UNCHANGED <<ring, pseq>>
     \/ /\ ring = 0 /\ ~EndOfFile /\ ~Nonblocking(t)
        /\ ptask' = [ptask EXCEPT ![t].pc = "readWait"]
        /\ UNCHANGED <<ring, pseq>>
  /\ UNCHANGED pfile

WriteLoop(t) ==
  /\ ptask[t].pc = "write"
  /\ \/ /\ ring < PipeSize /\ pseq.cur < MaxPipeSeq
        /\ ring' = ring + Fewer(PipeSize - ring, ptask[t].len)
        /\ pseq' = Edge({"in"})
        /\ ptask' = RungBell([ptask EXCEPT ![t] = IdlePipeTask])
     \/ /\ ring = PipeSize /\ Nonblocking(t)
        /\ ptask' = [ptask EXCEPT ![t] = IdlePipeTask]
        /\ UNCHANGED <<ring, pseq>>
     \/ /\ ring = PipeSize /\ ~Nonblocking(t)
        /\ ptask' = [ptask EXCEPT ![t].pc = "writeWait"]
        /\ UNCHANGED <<ring, pseq>>
  /\ UNCHANGED pfile

(* A read is interrupted (a write is not: "TODO: EINTR"), a poll cancelled. *)
CancelPipeWait(t) ==
  /\ PipeQuiet /\ ptask[t].pc \in {"readWait", "pollWait"}
  /\ ptask' = [ptask EXCEPT ![t] = IdlePipeTask]
  /\ UNCHANGED <<pfile, ring, pseq>>

----------------------------------------------------------------------------
(* pollStatus() and pollWait() *)

FileEvents(f) ==
  (IF f \in ReaderFiles THEN {"in", "hup"} ELSE {}) \cup (IF f \in WriterFiles THEN {"out", "err"} ELSE {})

(* What pollStatus() returns. *)
PipeStatus(f) ==
  FileEvents(f) \cap
  {e \in PipeEvents : CASE e = "in" -> ring > 0 [] e = "hup" -> writerCount = 0
                        [] e = "out" -> ring < PipeSize [] e = "err" -> readerCount = 0}

(* The edges of pollWait(). *)
PipeEdges(f, past) == {e \in FileEvents(f) : pseq[e] > past}

(* A poller asks for the status, and waits for what comes after it.  Epoll does both
   in one step: neither call suspends before it has looked at the channel.          *)
CallPoll(t, f, mask) ==
  /\ PipeQuiet /\ pfile[f].state = "open" /\ ptask[t].pc = "idle"
  /\ ptask' = [ptask EXCEPT ![t] = [IdlePipeTask EXCEPT !.pc = "poll", !.file = {f}, !.past = pseq.cur,
                                                    !.mask = mask, !.status = PipeStatus(f)]]
  /\ UNCHANGED <<pfile, ring, pseq>>

PollLoop(t) ==
  /\ ptask[t].pc = "poll"
  /\ \E f \in ptask[t].file :
       ptask' = [ptask EXCEPT ![t] =
                   IF PipeEdges(f, @.past) \cap @.mask # {} THEN IdlePipeTask ELSE [@ EXCEPT !.pc = "pollWait"]]
  /\ UNCHANGED <<pfile, ring, pseq>>

PipeNext ==
  \/ \E f \in PipeFiles : ClosePipe(f) \/ SetFileFlags(f) \/ \E nonblock \in BOOLEAN : OpenPipe(f, nonblock)
  \/ \E t \in PipeTasks :
       \/ ReadLoop(t) \/ WriteLoop(t) \/ PollLoop(t) \/ CancelPipeWait(t)
       \/ \E f \in PipeFiles :
            \/ \E len \in 1..PipeSize : CallRead(t, f, len) \/ CallWrite(t, f, len)
            \/ \E mask \in {{"in", "out"}, {"hup", "err"}} : CallPoll(t, f, mask)

PipeSpec == PipeInit /\ [][PipeNext]_pipeVars

----------------------------------------------------------------------------
(* Properties *)

(* Nobody waits for something that is already there.  A reader waits only while
   the pipe is empty and somebody can write, a writer while it is full, an open
   while the other side is absent; a poller sleeps only while each event in its
   mask that is active was already active in the status it started from: of the
   many changes that ring the bell it shares with the readers and writers, none
   that concerns it is missed (fifo.cpp:96-117, 130-146, 156-183, 338-352).   *)
PipeWaitsJustified ==
  PipeQuiet =>
    /\ \A t \in PipeTasks :
         CASE ptask[t].pc = "readWait" -> ring = 0 /\ writerCount > 0
           [] ptask[t].pc = "writeWait" -> ring = PipeSize
           [] ptask[t].pc = "pollWait" ->
                \A f \in ptask[t].file : PipeStatus(f) \cap ptask[t].mask \subseteq ptask[t].status
           [] OTHER -> TRUE
    /\ \A f \in PipeFiles : pfile[f].state = "opening" =>
         IF f \in ReaderFiles THEN writerCount = 0 ELSE readerCount = 0

(* A writer that waits has somebody who may read.  Not so: the last reader may
   leave while it waits, and the loop does not look (fifo.cpp:130-142).       *)
BlockedWriterHasReader ==
  \A t \in PipeTasks : ptask[t].pc = "writeWait" => readerCount > 0
============================================================================
