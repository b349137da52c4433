------------------------------- MODULE Futex -------------------------------
(***************************************************************************)
(* Futexes of the kernel (thor-internal/futex.hpp): threads in wait() and  *)
(* wake() on one address, with cancellation.                               *)
(*                                                                         *)
(* The slot of the address exists while its queue is not empty.  A node    *)
(* lives in the frame of the wait() that queued it.  What is done under    *)
(* _mutex is one step; the completion events of nodes are raised after it  *)
(* is released, in steps of their own.  async::with_cancel_cb (external)   *)
(* runs the cancellation callback once the token is cancelled, on the      *)
(* canceller's stack, and lets wait() go on when the event was raised and  *)
(* no callback is running or still to run.                                 *)
(***************************************************************************)
EXTENDS Naturals, Sequences, FiniteSets
LOCAL INSTANCE SequencesExt

CONSTANTS
  FutexWaiters,   \* threads that call wait()
  FutexWakers,    \* threads that store to the word and call wake()
  MaxWaits,       \* bound on calls of wait()
  MaxWakes        \* bound on calls of wake()

VARIABLES
  word,      \* the futex
  fqueue,    \* nodes of the slot; a node is named after its thread
  fwait,     \* thread -> its wait()
  fwake,     \* thread -> nodes that its wake() has taken, in order
  numWaits,
  numWakes

futexVars == <<word, fqueue, fwait, fwake, numWaits, numWakes>>

(* cancel: "none", "requested", "raise" (the callback has removed the node), "ran" *)
NoWait == [pc |-> "idle", expected |-> 0, st |-> "none", raised |-> FALSE, cancel |-> "none"]

FutexInit ==
  /\ word = 0 /\ fqueue = <<>>
  /\ fwait = [t \in FutexWaiters |-> NoWait]
  /\ fwake = [k \in FutexWakers |-> <<>>]
  /\ numWaits = 0 /\ numWakes = 0

----------------------------------------------------------------------------
(* wait() *)

CallWait(t, expected) ==
  /\ fwait[t].pc = "idle" /\ numWaits < MaxWaits
  /\ numWaits' = numWaits + 1
  /\ fwait' = [fwait EXCEPT ![t] = [NoWait EXCEPT !.pc = "enter", !.expected = expected]]
  /\ UNCHANGED <<word, fqueue, fwake, numWakes>>

(* withFutex(): the word is compared and the node queued under the lock. *)
EnterWaitFutex(t) ==
  /\ fwait[t].pc = "enter"
  /\ \/ /\ word # fwait[t].expected
        /\ fwait' = [fwait EXCEPT ![t] = NoWait]
        /\ UNCHANGED fqueue
     \/ /\ word = fwait[t].expected
        /\ fwait' = [fwait EXCEPT ![t].pc = "wait"]
        /\ fqueue' = Append(fqueue, t)
  /\ UNCHANGED <<word, fwake, numWaits, numWakes>>

(* The deadline passes, or the thread is interrupted: external. *)
RequestCancel(t) ==
  /\ fwait[t].pc \in {"enter", "wait"} /\ fwait[t].cancel = "none"
  /\ fwait' = [fwait EXCEPT ![t].cancel = "requested"]
  /\ UNCHANGED <<word, fqueue, fwake, numWaits, numWakes>>

\* Mutant of CancelTooLate: the callback does not look whether the node was woken.
CancelTooLateNever(t) == FALSE

(* A wake() has already taken the node. *)
CancelTooLate(t) == fwait[t].st = "done"

(* The callback, up to the end of its critical section ... *)
CancelFutex(t) ==
  /\ fwait[t].pc = "wait" /\ fwait[t].cancel = "requested"
  /\ \/ /\ CancelTooLate(t)
        /\ fwait' = [fwait EXCEPT ![t].cancel = "ran"]
        /\ UNCHANGED fqueue
     \/ /\ ~CancelTooLate(t)
        /\ fqueue' = SelectSeq(fqueue, LAMBDA u : u # t)
        /\ fwait' = [fwait EXCEPT ![t].st = "cancelled", ![t].cancel = "raise"]
  /\ UNCHANGED <<word, fwake, numWaits, numWakes>>

(* ... and its completionEvent.raise(). *)
CancelRaises(t) ==
  /\ fwait[t].cancel = "raise"
  /\ fwait' = [fwait EXCEPT ![t].cancel = "ran", ![t].raised = TRUE]
  /\ UNCHANGED <<word, fqueue, fwake, numWaits, numWakes>>

(* wait() returns; the node is gone. *)
ReturnFromWait(t) ==
  /\ fwait[t].pc = "wait" /\ fwait[t].raised /\ fwait[t].cancel \in {"none", "ran"}
  /\ fwait' = [fwait EXCEPT ![t] = NoWait]
  /\ UNCHANGED <<word, fqueue, fwake, numWaits, numWakes>>

----------------------------------------------------------------------------
(* wake() *)

StoreWord(v) ==
  /\ word # v
  /\ word' = v
  /\ UNCHANGED <<fqueue, fwait, fwake, numWaits, numWakes>>

(* Up to count nodes are taken from the front of the queue. *)
WakeFutex(k, count) ==
  LET n == IF count < Len(fqueue) THEN count ELSE Len(fqueue)
      taken == SubSeq(fqueue, 1, n)
  IN /\ fwake[k] = <<>> /\ numWakes < MaxWakes
     /\ numWakes' = numWakes + 1
     /\ fqueue' = SubSeq(fqueue, n + 1, Len(fqueue))
     /\ fwake' = [fwake EXCEPT ![k] = taken]
     /\ fwait' = [t \in FutexWaiters |-> IF t \in ToSet(taken) THEN [fwait[t] EXCEPT !.st = "done"]
                                         ELSE fwait[t]]
     /\ UNCHANGED <<word, numWaits>>

(* completionEvent.raise() for one of them *)
RaiseCompletion(k) ==
  /\ fwake[k] # <<>>
  /\ fwait' = [fwait EXCEPT ![Head(fwake[k])].raised = TRUE]
  /\ fwake' = [fwake EXCEPT ![k] = Tail(@)]
  /\ UNCHANGED <<word, fqueue, numWaits, numWakes>>

----------------------------------------------------------------------------
(* Steps that a thread in the kernel takes by itself. *)
FutexStep ==
  \/ \E t \in FutexWaiters : EnterWaitFutex(t) \/ CancelFutex(t) \/ CancelRaises(t) \/ ReturnFromWait(t)
  \/ \E k \in FutexWakers : RaiseCompletion(k)

FutexNext ==
  \/ FutexStep
  \/ \E v \in {0, 1} : StoreWord(v)
  \/ \E t \in FutexWaiters : RequestCancel(t) \/ \E expected \in {0, 1} : CallWait(t, expected)
  \/ \E k \in FutexWakers, count \in {1, 2} : WakeFutex(k, count)

FutexSpec == FutexInit /\ [][FutexNext]_futexVars

----------------------------------------------------------------------------
(* Properties *)

(* Where the node of a wait() may be pointed to from. *)
InQueue(t) == Cardinality({i \in DOMAIN fqueue : fqueue[i] = t})
InWake(t) == Cardinality({p \in FutexWakers \X (1..Cardinality(FutexWaiters)) :
                            p[2] \in DOMAIN fwake[p[1]] /\ fwake[p[1]][p[2]] = t})

(* The life of a node.  While wait() is under way its node is in the queue, or in
   exactly one wake() that will raise its event, or in the hands of its own
   cancellation, or its event has been raised; after wait() returned nobody has a
   pointer to it.  So no wake() touches the frame of a wait() that has returned,
   none is lost to a wait() that was cancelled at the same time, and the
   assertions on node.st hold (futex.hpp:127-157, 193-208).                      *)
FutexNodesSound ==
  \A t \in FutexWaiters :
    LET w == fwait[t] IN
    /\ w.pc # "wait" => InQueue(t) = 0 /\ InWake(t) = 0
    /\ w.pc = "wait" =>
         /\ InQueue(t) = (IF w.st = "none" THEN 1 ELSE 0)
         /\ InWake(t) = (IF w.st = "done" /\ ~w.raised THEN 1 ELSE 0)
         /\ w.st = "cancelled" => w.cancel = "raise" \/ (w.cancel = "ran" /\ w.raised)
         /\ w.raised => w.st # "none"

(* A wait() that was woken or cancelled returns: its event is raised by whoever
   took the node, and by nobody else (futex.hpp:135-159, 205-208).              *)
FutexReturns(t) == fwait[t].pc = "wait" => fwait[t].st = "none" /\ fwait[t].cancel = "none"
============================================================================
