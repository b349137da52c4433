----------------------------- MODULE FileLocks -----------------------------
(***************************************************************************)
(* flock() locks (protocols/fs/src/file-locks.cpp).                        *)
(*                                                                         *)
(* The threads of a file system server call FlockManager::lock() for open  *)
(* file descriptions, which fork() can share, and destroy descriptions.    *)
(* The list of locks is changed under the manager's mutex, in one step;    *)
(* flockNotify.raise() comes after the mutex is released, in a step of its *)
(* own.  flockNotify is an async::sequenced_event (external): raise()      *)
(* counts, async_wait(seen) returns once the count differs from seen.      *)
(* No caller passes a cancellation token, so waits are not interrupted.    *)
(***************************************************************************)
EXTENDS Naturals, FiniteSets

CONSTANTS
  LockTasks,   \* threads that call lock()
  Flocks,      \* open file descriptions
  MaxCalls     \* bound on calls

VARIABLES
  flock,       \* description -> "none" (not active), "shared" or "exclusive"
  flockSeq,    \* raises of flockNotify
  lockTask,    \* task -> where it is
  numCalls     \* calls so far

lockVars == <<flock, flockSeq, lockTask, numCalls>>

(* A task that has no call under way, or only its raise() *)
Leaving(pc) == [pc |-> pc, flock |-> {}, kind |-> "none", nonblock |-> FALSE, seen |-> 0]
Outside == Leaving("idle")

LocksInit ==
  /\ flock = [f \in Flocks |-> "none"]
  /\ flockSeq = 0
  /\ lockTask = [t \in LockTasks |-> Outside]
  /\ numCalls = 0

----------------------------------------------------------------------------
(* LOCK_UN, and ~Flock(). *)

(* The lock is taken from the list; others are told if it was there. *)
Unlock(t, f) ==
  /\ lockTask[t].pc = "idle" /\ numCalls < MaxCalls
  /\ numCalls' = numCalls + 1
  /\ flock' = [flock EXCEPT ![f] = "none"]
  /\ lockTask' = [lockTask EXCEPT ![t].pc = IF flock[f] # "none" THEN "raise" ELSE "idle"]
  /\ UNCHANGED flockSeq

----------------------------------------------------------------------------
(* LOCK_SH and LOCK_EX *)

\* Mutant of Blocks: only the kind that is asked for counts.
BlocksExclusive(g, f, kind) == g # f /\ flock[g] # "none" /\ kind = "exclusive"

(* The lock of description g excludes a lock of this kind for f. *)
Blocks(g, f, kind) ==
  g # f /\ flock[g] # "none" /\ (kind = "exclusive" \/ flock[g] = "exclusive")

Conflict(f, kind) == \E g \in Flocks : Blocks(g, f, kind)

\* Mutant of Notifies: waiters are not told of a downgrade.
NotifiesNobody(f, kind) == FALSE

(* A lock that is downgraded may let others in. *)
Notifies(f, kind) == flock[f] = "exclusive" /\ kind = "shared"

CallLock(t, f, kind, nonblock) ==
  /\ lockTask[t].pc = "idle" /\ numCalls < MaxCalls
  /\ numCalls' = numCalls + 1
  /\ lockTask' = [lockTask EXCEPT ![t] = [pc |-> "try", flock |-> {f}, kind |-> kind,
                                          nonblock |-> nonblock, seen |-> 0]]
  /\ UNCHANGED <<flock, flockSeq>>

(* One round of the loop, up to the await. *)
TryLock(t) ==
  LET c == lockTask[t] IN
  /\ c.pc = "try"
  /\ \E f \in c.flock :
       \/ /\ ~Conflict(f, c.kind)
          /\ flock' = [flock EXCEPT ![f] = c.kind]
          /\ lockTask' = [lockTask EXCEPT
                            ![t] = Leaving(IF Notifies(f, c.kind) THEN "raise" ELSE "idle")]
       \/ /\ Conflict(f, c.kind) /\ c.nonblock
          /\ lockTask' = [lockTask EXCEPT ![t] = Outside]
          /\ UNCHANGED flock
       \/ /\ Conflict(f, c.kind) /\ ~c.nonblock
          /\ lockTask' = [lockTask EXCEPT ![t] = [c EXCEPT !.pc = "wait", !.seen = flockSeq]]
          /\ UNCHANGED flock
  /\ UNCHANGED <<flockSeq, numCalls>>

(* flockNotify.raise() *)
RaiseNotify(t) ==
  /\ lockTask[t].pc = "raise"
  /\ flockSeq' = flockSeq + 1
  /\ lockTask' = [lockTask EXCEPT ![t] = Outside]
  /\ UNCHANGED <<flock, numCalls>>

(* async_wait() returns. *)
WakeLock(t) ==
  /\ lockTask[t].pc = "wait" /\ flockSeq > lockTask[t].seen
  /\ lockTask' = [lockTask EXCEPT ![t].pc = "try"]
  /\ UNCHANGED <<flock, flockSeq, numCalls>>

LockStep(t) == TryLock(t) \/ RaiseNotify(t) \/ WakeLock(t)

LocksNext ==
  \E t \in LockTasks :
    \/ LockStep(t)
    \/ \E f \in Flocks :
         \/ Unlock(t, f)
         \/ \E kind \in {"shared", "exclusive"}, nonblock \in BOOLEAN : CallLock(t, f, kind, nonblock)

LocksSpec == LocksInit /\ [][LocksNext]_lockVars

----------------------------------------------------------------------------
(* Properties *)

(* An exclusive lock excludes every other lock on the file, however it was
   reached: taken, upgraded, or kept while others were downgraded
   (file-locks.cpp:64-86).                                                  *)
LockExclusion ==
  \A f, g \in Flocks : f # g /\ flock[f] = "exclusive" => flock[g] = "none"

(* Task t sleeps until flockNotify is raised once more. *)
Asleep(t) == lockTask[t].pc = "wait" /\ lockTask[t].seen >= flockSeq

(* Two tasks that hold shared locks and ask for exclusive ones wait for each
   other: neither gives up its old lock first (file-locks.cpp:66-68).         *)
UpgradeDeadlock ==
  \E t, u \in LockTasks : \E f \in lockTask[t].flock, g \in lockTask[u].flock :
    f # g /\ Asleep(t) /\ Asleep(u) /\ flock[f] = "shared" /\ flock[g] = "shared"

(* A task that sleeps for a lock will be woken: somebody is about to raise
   flockNotify, or some lock in its way has nobody waiting for a change of it,
   so that its holder is free to unlock.  No unlock, close or downgrade is
   missed, although the event is raised outside of the mutex, and the only
   deadlock is that of two upgrades (file-locks.cpp:15-22, 63, 93-103).       *)
LockWaitsEnd ==
  UpgradeDeadlock \/
  \A t \in LockTasks : Asleep(t) =>
    \/ \E u \in LockTasks : lockTask[u].pc = "raise"
    \/ \E f \in lockTask[t].flock, g \in Flocks :
         /\ Blocks(g, f, lockTask[t].kind)
         /\ \A u \in LockTasks : Asleep(u) => g \notin lockTask[u].flock
============================================================================
