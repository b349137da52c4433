------------------------------- MODULE Epoll -------------------------------
(***************************************************************************)
(* epoll files of the POSIX subsystem (epoll.cpp) over files that can be   *)
(* polled, each with one event, EPOLLIN.                                   *)
(*                                                                         *)
(* An item watches a file: it is pending (in the pending queue, or taken   *)
(* from it by a waiter), or polling (a pollWait() on the file is under     *)
(* way), or both.  waitForEvents() takes pending items, asks the file for  *)
(* its status, and reports the item or goes back to polling.               *)
(*                                                                         *)
(* The subsystem runs coroutines on one thread.  Files of the subsystem    *)
(* itself (LocalFiles; here: eventfds, eventfd.cpp) answer at once, and a  *)
(* coroutine that is resumed runs before anything else happens; files of   *)
(* other servers (here: sockets, udp4.cpp) answer with a message, and the  *)
(* coroutine that waits for it is suspended in the meantime.  An epoll     *)
(* file is not itself polled, nor closed while somebody waits on it.       *)
(***************************************************************************)
EXTENDS Naturals, Sequences, FiniteSets, FiniteSetsExt

CONSTANTS
  EpollFiles,   \* files that can be watched
  LocalFiles,   \* those that answer at once
  Waiters,      \* coroutines in waitForEvents()
  NoWaiter,     \* nobody
  ItemModes,    \* file -> what its item can be added or modified to: see Mode()
  MaxItems,     \* bound on the items that are created
  MaxModify,    \* bound on modifyItem() and on the files that are closed, together
  MaxEdges,     \* bound on the events of all files
  MaxEvents     \* values of max_events

ASSUME EpollAssumption == LocalFiles \subseteq EpollFiles /\ NoWaiter \notin Waiters

(* eventMask: EPOLLIN, EPOLLET and EPOLLONESHOT. *)
Mode(in, et, oneshot) == [in |-> in, et |-> et, oneshot |-> oneshot]

VARIABLES
  efile,         \* file -> [val, cur, in, open]: readable, _currentSeq, _readableSeq, isOpen()
  fileMap,       \* file -> its item, or 0
  item,          \* item -> its state
  numItems,      \* items created so far
  numModify,     \* items modified, and files closed, so far
  pendingQueue,  \* items
  waiter,        \* waiter -> its state
  running        \* the waiter that runs, or NoWaiter

epollVars == <<efile, fileMap, item, numItems, numModify, pendingQueue, waiter, running>>

EpollItems == 1..MaxItems

NoItem == [file |-> CHOOSE f \in EpollFiles : TRUE, mode |-> Mode(FALSE, FALSE, FALSE),
           alive |-> FALSE, polling |-> FALSE, pending |-> FALSE, active |-> FALSE,
           past |-> 0, mask |-> FALSE, cancelled |-> FALSE, armed |-> FALSE, stale |-> FALSE]

IdleWaiter == [pc |-> "idle", max |-> 0, reported |-> {}, repoll |-> <<>>,
               item |-> 0, in |-> FALSE, cur |-> 0, val |-> FALSE]

EpollInit ==
  /\ efile = [f \in EpollFiles |-> [val |-> FALSE, cur |-> 1, in |-> 0, open |-> TRUE]]
  /\ fileMap = [f \in EpollFiles |-> 0]
  /\ item = [i \in EpollItems |-> NoItem]
  /\ numItems = 0 /\ numModify = 0
  /\ pendingQueue = <<>>
  /\ waiter = [w \in Waiters |-> IdleWaiter]
  /\ running = NoWaiter

----------------------------------------------------------------------------
(* Files *)

IsLocal(i) == item[i].file \in LocalFiles

(* The edges that pollWait() has for the item: an eventfd ignores the mask, *)
LocalEdge(i) == efile[item[i].file].in > item[i].past

(* other servers look for the events of the mask they were sent. *)
RemoteEdge(i) == item[i].mask /\ efile[item[i].file].in > item[i].past

PollEdge(i) == IF IsLocal(i) THEN LocalEdge(i) ELSE RemoteEdge(i)

(* pollWait() returns: for an eventfd, anything has happened since past; for the
   others, there is an edge or the wait is cancelled; or the file is closed.     *)
PollReturns(i) ==
  /\ item[i].polling
  /\ IF IsLocal(i) THEN efile[item[i].file].cur > item[i].past
                   ELSE RemoteEdge(i) \/ item[i].cancelled \/ ~efile[item[i].file].open

(* Nothing is left to run on the thread. *)
Quiet ==
  /\ running = NoWaiter
  /\ \A w \in Waiters : waiter[w].pc # "ready"
  /\ \A i \in EpollItems : ~(IsLocal(i) /\ PollReturns(i))

Edges == MapThenSumSet(LAMBDA f : efile[f].cur - 1, EpollFiles)

WriteFile(f) ==
  /\ Quiet /\ efile[f].open /\ Edges < MaxEdges
  /\ efile' = [efile EXCEPT ![f].val = TRUE, ![f].cur = @ + 1, ![f].in = efile[f].cur + 1]
  /\ UNCHANGED <<fileMap, item, numItems, numModify, pendingQueue, waiter, running>>

(* Reading is an event for the writers of an eventfd, and none of a socket. *)
ReadFile(f) ==
  /\ Quiet /\ efile[f].open /\ efile[f].val /\ Edges < MaxEdges
  /\ efile' = [efile EXCEPT ![f].val = FALSE, ![f].cur = IF f \in LocalFiles THEN @ + 1 ELSE @]
  /\ UNCHANGED <<fileMap, item, numItems, numModify, pendingQueue, waiter, running>>

(* The last descriptor of a file that is watched is closed.  Its item stays; an
   eventfd can still be polled.                                              *)
CloseFile(f) ==
  /\ Quiet /\ f \notin LocalFiles /\ efile[f].open /\ fileMap[f] # 0 /\ numModify < MaxModify
  /\ efile' = [efile EXCEPT ![f].open = FALSE]
  /\ numModify' = numModify + 1
  /\ UNCHANGED <<fileMap, item, numItems, pendingQueue, waiter, running>>

----------------------------------------------------------------------------
(* The pending queue *)

Woken == [w \in Waiters |->
            IF waiter[w].pc = "asleep" THEN [waiter[w] EXCEPT !.pc = "ready"] ELSE waiter[w]]

\* Mutant of RaiseBell: nobody is woken.
RaiseBellNot == waiter' = waiter

(* _statusBell.raise() *)
RaiseBell == waiter' = Woken

(* push_back(), _currentSeq++, raise() *)
Enqueue(i) == pendingQueue' = Append(pendingQueue, i) /\ RaiseBell

----------------------------------------------------------------------------
(* epoll_ctl() *)

AddItem(f, mode) ==
  LET i == numItems + 1 IN
  /\ Quiet /\ efile[f].open /\ fileMap[f] = 0 /\ numItems < MaxItems
  /\ numItems' = i
  /\ fileMap' = [fileMap EXCEPT ![f] = i]
  /\ item' = [item EXCEPT ![i] = [NoItem EXCEPT !.file = f, !.mode = mode, !.alive = TRUE,
                                    !.pending = TRUE, !.active = TRUE, !.armed = TRUE]]
  /\ Enqueue(i)
  /\ UNCHANGED <<efile, numModify, running>>

(* cancelPoll.cancel(): a local pollWait() returns at once, without an edge, and
   _awaitPoll() starts it again; another one returns later.                    *)
CancelPoll(it) ==
  IF ~it.polling THEN it
  ELSE IF it.file \in LocalFiles THEN [it EXCEPT !.past = efile[it.file].cur, !.mask = it.mode.in]
  ELSE [it EXCEPT !.cancelled = TRUE]

(* Some waiter awaits pollStatus() for the item. *)
BeingChecked(i) == \E w \in Waiters : waiter[w].pc \in {"ask", "answer"} /\ waiter[w].item = i

(* A pollWait() under way was given another mask than the item has. *)
OldMask(it) == it.polling /\ it.mask # it.mode.in

ModifyItem(f, mode) ==
  LET i == fileMap[f]
      modified == CancelPoll([item[i] EXCEPT !.mode = mode, !.armed = TRUE])
      it == [modified EXCEPT !.stale = BeingChecked(i) \/ OldMask(modified)]
  IN /\ Quiet /\ efile[f].open /\ i # 0 /\ numModify < MaxModify
     /\ numModify' = numModify + 1
     /\ \/ /\ ~it.pending
           /\ item' = [item EXCEPT ![i] = [it EXCEPT !.pending = TRUE, !.active = TRUE]]
           /\ Enqueue(i)
        \/ /\ it.pending
           /\ item' = [item EXCEPT ![i] = it]
           /\ UNCHANGED <<pendingQueue, waiter>>
     /\ UNCHANGED <<efile, fileMap, numItems, running>>

DeleteItem(f) ==
  LET i == fileMap[f] IN
  /\ Quiet /\ efile[f].open /\ i # 0
  /\ fileMap' = [fileMap EXCEPT ![f] = 0]
  /\ item' = [item EXCEPT ![i] = [CancelPoll(@) EXCEPT !.alive = FALSE, !.armed = FALSE]]
  /\ UNCHANGED <<efile, numItems, numModify, pendingQueue, waiter, running>>

----------------------------------------------------------------------------
(* _awaitPoll(): pollWait() has returned. *)

NotPolling(it) ==
  [it EXCEPT !.polling = FALSE, !.past = 0, !.mask = FALSE, !.cancelled = FALSE]

AwaitPoll(i) ==
  LET it == item[i]
      f == efile[it.file]
      edge == PollEdge(i) /\ it.mode.in
  IN /\ running = NoWaiter /\ PollReturns(i)
     /\ \/ /\ ~it.alive \/ ~f.open
           /\ item' = [item EXCEPT ![i] = NotPolling(it)]
           /\ UNCHANGED <<pendingQueue, waiter>>
        \/ /\ it.alive /\ f.open /\ edge
           /\ item' = [item EXCEPT ![i] = [NotPolling(it) EXCEPT !.pending = TRUE]]
           /\ IF it.pending THEN UNCHANGED <<pendingQueue, waiter>> ELSE Enqueue(i)
        \/ /\ it.alive /\ f.open /\ ~edge
           /\ item' = [item EXCEPT ![i].past = f.cur, ![i].mask = it.mode.in,
                                   ![i].cancelled = FALSE]
           /\ UNCHANGED <<pendingQueue, waiter>>
     /\ UNCHANGED <<efile, fileMap, numItems, numModify, running>>

----------------------------------------------------------------------------
(* waitForEvents() *)

EnterWait(w, max) ==
  /\ Quiet /\ waiter[w].pc = "idle"
  /\ waiter' = [waiter EXCEPT ![w] = [IdleWaiter EXCEPT !.pc = "run", !.max = max]]
  /\ running' = w
  /\ UNCHANGED <<efile, fileMap, item, numItems, numModify, pendingQueue>>

ResumeWait(w) ==
  /\ running = NoWaiter /\ waiter[w].pc = "ready"
  /\ waiter' = [waiter EXCEPT ![w].pc = "run"]
  /\ running' = w
  /\ UNCHANGED <<efile, fileMap, item, numItems, numModify, pendingQueue>>

\* Mutant of PollSince: only what happens from now on is waited for.
PollSinceNow(f, cur) == efile[f].cur

(* The sequence number pollWait() is given: that of the status. *)
PollSince(f, cur) == cur

(* Waiter wt has got the status (cur, val) of the file of item i. *)
Checked(w, wt, i, in, cur, val) ==
  LET it == item[i]
      status == val /\ in
      again == ~status \/ it.mode.et
      starts == again /\ ~it.polling
      report == IF status THEN wt.reported \cup {i} ELSE wt.reported
  IN /\ item' = [item EXCEPT ![i] =
          [it EXCEPT !.active = IF status /\ it.mode.oneshot THEN FALSE ELSE @,
                     !.armed = IF status /\ it.mode.oneshot THEN FALSE ELSE @,
                     !.pending = ~again,
                     !.polling = @ \/ starts,
                     !.past = IF starts THEN PollSince(it.file, cur) ELSE @,
                     !.mask = IF starts THEN in ELSE @,
                     !.cancelled = @ /\ ~starts]]
     /\ waiter' = [waiter EXCEPT ![w] =
          [wt EXCEPT !.pc = IF Cardinality(report) = wt.max THEN "leave" ELSE "run",
                     !.reported = report,
                     !.repoll = IF again THEN @ ELSE Append(@, i),
                     !.item = 0, !.in = FALSE, !.cur = 0, !.val = FALSE]]

(* pollStatus() of a file that was closed is an error, and the item is dropped. *)
Discarded(w, wt, i) ==
  /\ item' = [item EXCEPT ![i].pending = FALSE]
  /\ waiter' = [waiter EXCEPT ![w] = [wt EXCEPT !.pc = "run", !.item = 0, !.in = FALSE,
                                                !.cur = 0, !.val = FALSE]]

(* An item is taken from the queue.  A dead or inactive one is dropped, that of
   a local file is checked at once, for another one a message is sent.        *)
TakeItem(w) ==
  LET i == Head(pendingQueue)
      it == item[i]
      f == efile[it.file]
      wt == waiter[w]
  IN /\ running = w /\ wt.pc = "run" /\ pendingQueue # <<>>
     /\ pendingQueue' = Tail(pendingQueue)
     /\ \/ /\ ~it.alive \/ ~it.active
           /\ item' = [item EXCEPT ![i].pending = FALSE]
           /\ UNCHANGED <<waiter, running>>
        \/ /\ it.alive /\ it.active /\ it.file \in LocalFiles
           /\ Checked(w, wt, i, it.mode.in, f.cur, f.val)
           /\ UNCHANGED running
        \/ /\ it.alive /\ it.active /\ it.file \notin LocalFiles
           /\ waiter' = [waiter EXCEPT ![w].pc = "ask", ![w].item = i, ![w].in = it.mode.in]
           /\ item' = [item EXCEPT ![i].stale = OldMask(it)]
           /\ running' = NoWaiter
     /\ UNCHANGED <<efile, fileMap, numItems, numModify>>

(* The other server evaluates pollStatus(), or the file is closed, ... *)
EvaluateStatus(w) ==
  LET f == efile[item[waiter[w].item].file] IN
  /\ waiter[w].pc = "ask"
  /\ waiter' = IF f.open
                 THEN [waiter EXCEPT ![w].pc = "answer", ![w].cur = f.cur, ![w].val = f.val]
                 ELSE [waiter EXCEPT ![w].pc = "answer"]
  /\ UNCHANGED <<efile, fileMap, item, numItems, numModify, pendingQueue, running>>

(* ... and its answer resumes the waiter. *)
StatusArrives(w) ==
  LET wt == waiter[w] IN
  /\ Quiet /\ wt.pc = "answer"
  /\ running' = w
  /\ \/ wt.cur # 0 /\ Checked(w, wt, wt.item, wt.in, wt.cur, wt.val)
     \/ wt.cur = 0 /\ Discarded(w, wt, wt.item)
  /\ UNCHANGED <<efile, fileMap, numItems, numModify, pendingQueue>>

(* The queue is empty, and nothing was found: the waiter sleeps. *)
Sleep(w) ==
  /\ running = w /\ waiter[w].pc = "run"
  /\ pendingQueue = <<>> /\ waiter[w].reported = {}
  /\ waiter' = [waiter EXCEPT ![w].pc = "asleep"]
  /\ running' = NoWaiter
  /\ UNCHANGED <<efile, fileMap, item, numItems, numModify, pendingQueue>>

(* Items that are reported and level-triggered are queued again. *)
LeaveWait(w) ==
  LET wt == waiter[w] IN
  /\ running = w
  /\ wt.pc = "leave" \/ (wt.pc = "run" /\ pendingQueue = <<>> /\ wt.reported # {})
  /\ pendingQueue' = pendingQueue \o wt.repoll
  /\ waiter' = [(IF wt.repoll = <<>> THEN waiter ELSE Woken) EXCEPT ![w] = IdleWaiter]
  /\ running' = NoWaiter
  /\ UNCHANGED <<efile, fileMap, item, numItems, numModify>>

(* The time of epoll_wait() is over, or it is interrupted. *)
CancelWait(w) ==
  /\ Quiet /\ waiter[w].pc = "asleep"
  /\ waiter' = [waiter EXCEPT ![w] = IdleWaiter]
  /\ UNCHANGED <<efile, fileMap, item, numItems, numModify, pendingQueue, running>>

EpollNext ==
  \/ \E f \in EpollFiles : \/ WriteFile(f) \/ ReadFile(f) \/ CloseFile(f) \/ DeleteItem(f)
                           \/ \E mode \in ItemModes[f] : AddItem(f, mode) \/ ModifyItem(f, mode)
  \/ \E i \in EpollItems : AwaitPoll(i)
  \/ \E w \in Waiters :
       \/ \E max \in MaxEvents : EnterWait(w, max)
       \/ ResumeWait(w) \/ TakeItem(w) \/ EvaluateStatus(w) \/ StatusArrives(w)
       \/ Sleep(w) \/ LeaveWait(w) \/ CancelWait(w)

EpollSpec == EpollInit /\ [][EpollNext]_epollVars

----------------------------------------------------------------------------
(* Properties *)

(* The event of an item's file is there and the item asks for it. *)
EventPresent(i) ==
  item[i].alive /\ efile[item[i].file].open /\ efile[item[i].file].val /\ item[i].mode.in

(* The item will be looked at. *)
Watched(i) == item[i].pending \/ PollReturns(i)

(* An active level-triggered item whose event is there is pending or becomes
   pending, so that the next wait reports it ("Level-triggered items stay
   pending until the event disappears.", epoll.cpp:106), unless it was modified
   while its file was asked for its status or waited for with another mask, and
   was not taken from the queue since.                                         *)
ActiveItemsWatched ==
  \A i \in EpollItems :
    EventPresent(i) /\ item[i].active /\ ~item[i].mode.et /\ ~item[i].stale => Watched(i)


Count(i, s) == Cardinality({j \in DOMAIN s : s[j] = i})
InHand(i, w) == IF waiter[w].pc \in {"ask", "answer"} /\ waiter[w].item = i THEN 1 ELSE 0

(* A pending item is at exactly one place: the pending queue, the list of a
   waiter that reports it, or the hands of a waiter that checks it; and nobody
   sleeps while there are items in the queue (epoll.cpp:248, 307, 341-348).    *)
PendingItemsQueued ==
  /\ \A i \in EpollItems :
       LET places == {<<"queue", Count(i, pendingQueue)>>} \cup
                     {<<w, Count(i, waiter[w].repoll) + InHand(i, w)>> : w \in Waiters}
       IN IF item[i].pending
            THEN \E p \in places : p[2] = 1 /\ \A q \in places \ {p} : q[2] = 0
            ELSE \A p \in places : p[2] = 0
  /\ pendingQueue # <<>> => \A w \in Waiters : waiter[w].pc # "asleep"
============================================================================
