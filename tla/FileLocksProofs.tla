-------------------------- MODULE FileLocksProofs --------------------------
(***************************************************************************)
(* LockExclusion and LockWaitsEnd of FileLocks, for every number of tasks, *)
(* descriptions and calls.                                                 *)
(***************************************************************************)
EXTENDS FileLocks, TLAPS

LockTypes ==
  /\ flock \in [Flocks -> {"none", "shared", "exclusive"}]
  /\ flockSeq \in Nat
  /\ lockTask \in [LockTasks -> [pc : {"idle", "try", "wait", "raise"}, flock : SUBSET Flocks,
                                 kind : {"none", "shared", "exclusive"}, nonblock : BOOLEAN,
                                 seen : Nat]]
  /\ \A t \in LockTasks :
       /\ lockTask[t].seen <= flockSeq
       /\ lockTask[t].pc \in {"try", "wait"} =>
            /\ lockTask[t].kind # "none"
            /\ \E f \in Flocks : lockTask[t].flock = {f}

RaisePending == \E u \in LockTasks : lockTask[u].pc = "raise"

(* Whoever sleeps while no raise() is under way is still excluded. *)
SleepersExcluded ==
  ~RaisePending =>
    \A t \in LockTasks : Asleep(t) => \A f \in lockTask[t].flock : Conflict(f, lockTask[t].kind)

LockInv == LockTypes /\ LockExclusion /\ SleepersExcluded

----------------------------------------------------------------------------
(* Initially there are no locks and no calls. *)
LEMMA LocksInitInv == LocksInit => LockInv
  BY DEF LocksInit, LockInv, LockTypes, LockExclusion, SleepersExcluded, Asleep, Outside, Leaving

(* Calls of unlock, and the end of a description *)
LEMMA UnlockInv ==
  ASSUME LockInv, NEW t \in LockTasks, NEW f \in Flocks, Unlock(t, f)
  PROVE  LockInv'
<1>1. LockTypes'
  BY DEF LockInv, LockTypes, Unlock
<1>2. LockExclusion'
  BY DEF LockInv, LockTypes, LockExclusion, Unlock
<1>3. SleepersExcluded'
  <2>1. CASE flock[f] # "none"
    <3>1. lockTask'[t].pc = "raise"
      BY <2>1 DEF LockInv, LockTypes, Unlock
    <3> QED
      BY <3>1 DEF SleepersExcluded, RaisePending
  <2>2. CASE flock[f] = "none"
    <3>1. flock' = flock
      BY <2>2 DEF LockInv, LockTypes, Unlock
    <3>2. lockTask' = lockTask
      BY <2>2 DEF LockInv, LockTypes, Unlock
    <3> QED
      BY <3>1, <3>2 DEF LockInv, SleepersExcluded, RaisePending, Asleep, Conflict, Blocks, Unlock
  <2> QED
    BY <2>1, <2>2
<1> QED
  BY <1>1, <1>2, <1>3 DEF LockInv

(* Calls of lock *)
LEMMA CallLockInv ==
  ASSUME LockInv, NEW t \in LockTasks, NEW f \in Flocks, NEW kind \in {"shared", "exclusive"},
         NEW nonblock \in BOOLEAN, CallLock(t, f, kind, nonblock)
  PROVE  LockInv'
<1>1. LockTypes'
  BY DEF LockInv, LockTypes, CallLock
<1>2. LockExclusion'
  BY DEF LockInv, LockExclusion, CallLock
<1>3. SleepersExcluded'
  <2>1. lockTask'[t].pc = "try" /\ \A u \in LockTasks \ {t} : lockTask'[u] = lockTask[u]
    BY DEF LockInv, LockTypes, CallLock
  <2>2. RaisePending => RaisePending'
    BY <2>1 DEF RaisePending, CallLock
  <2> QED
    BY <2>1, <2>2 DEF LockInv, SleepersExcluded, Asleep, Conflict, Blocks, CallLock
<1> QED
  BY <1>1, <1>2, <1>3 DEF LockInv

(* A round of the loop that gets the lock *)
LEMMA GrantInv ==
  ASSUME LockInv, NEW t \in LockTasks, NEW f \in lockTask[t].flock,
         lockTask[t].pc = "try", ~Conflict(f, lockTask[t].kind),
         flock' = [flock EXCEPT ![f] = lockTask[t].kind],
         lockTask' = [lockTask EXCEPT
           ![t] = Leaving(IF Notifies(f, lockTask[t].kind) THEN "raise" ELSE "idle")],
         flockSeq' = flockSeq
  PROVE  LockInv'
<1> DEFINE kind == lockTask[t].kind
<1>1. f \in Flocks /\ kind \in {"shared", "exclusive"}
  BY DEF LockInv, LockTypes
<1>2. LockTypes'
  <2>1. CASE Notifies(f, kind)
    <3>1. lockTask' = [lockTask EXCEPT ![t] = Leaving("raise")]
      BY <2>1
    <3> QED
      BY <1>1, <3>1 DEF LockInv, LockTypes, Leaving
  <2>2. CASE ~Notifies(f, kind)
    <3>1. lockTask' = [lockTask EXCEPT ![t] = Leaving("idle")]
      BY <2>2
    <3> QED
      BY <1>1, <3>1 DEF LockInv, LockTypes, Leaving
  <2> QED
    BY <2>1, <2>2
<1>3. \A g \in Flocks \ {f} : flock[g] = "none" \/ (kind = "shared" /\ flock[g] = "shared")
  BY <1>1 DEF LockInv, LockTypes, Conflict, Blocks
<1>4. LockExclusion'
  BY <1>1, <1>3 DEF LockInv, LockTypes, LockExclusion
<1>5. SleepersExcluded'
  <2>1. CASE Notifies(f, kind)
    <3>1. lockTask'[t].pc = "raise"
      BY <2>1 DEF LockInv, LockTypes, Outside, Leaving
    <3> QED
      BY <3>1 DEF SleepersExcluded, RaisePending
  <2>2. CASE ~Notifies(f, kind)
    <3>1. lockTask'[t].pc = "idle" /\ \A u \in LockTasks \ {t} : lockTask'[u] = lockTask[u]
      BY <2>2 DEF LockInv, LockTypes, Outside, Leaving
    <3>2. RaisePending => RaisePending'
      BY <3>1 DEF RaisePending
    <3>3. ASSUME NEW h \in Flocks, NEW k, Conflict(h, k)
          PROVE  Conflict(h, k)'
      <4>1. PICK g \in Flocks : Blocks(g, h, k)
        BY <3>3 DEF Conflict
      <4>2. CASE g # f
        BY <4>1, <4>2, <1>1 DEF LockInv, LockTypes, Conflict, Blocks
      <4>3. CASE g = f
        BY <4>1, <4>3, <1>1, <2>2 DEF LockInv, LockTypes, Conflict, Blocks, Notifies
      <4> QED
        BY <4>2, <4>3
    <3>4. ASSUME ~RaisePending', NEW u \in LockTasks, Asleep(u)', NEW h \in lockTask[u].flock'
          PROVE  Conflict(h, lockTask[u].kind)'
      <4>1. u # t /\ lockTask'[u] = lockTask[u]
        BY <3>1, <3>4 DEF Asleep
      <4>2. Asleep(u) /\ h \in lockTask[u].flock /\ h \in Flocks
        BY <3>4, <4>1 DEF Asleep, LockInv, LockTypes
      <4>3. Conflict(h, lockTask[u].kind)
        BY <3>2, <3>4, <4>2 DEF LockInv, SleepersExcluded
      <4> QED
        BY <3>3, <4>1, <4>2, <4>3
    <3> QED
      BY <3>4 DEF SleepersExcluded
  <2> QED
    BY <2>1, <2>2
<1> QED
  BY <1>2, <1>4, <1>5 DEF LockInv

(* The other outcomes of a round, the raise() and the end of a wait *)
LEMMA StepInv ==
  ASSUME LockInv, NEW t \in LockTasks, LockStep(t)
  PROVE  LockInv'
<1>1. CASE TryLock(t)
  <2>1. PICK f \in lockTask[t].flock :
          \/ /\ ~Conflict(f, lockTask[t].kind)
             /\ flock' = [flock EXCEPT ![f] = lockTask[t].kind]
             /\ lockTask' = [lockTask EXCEPT
                  ![t] = Leaving(IF Notifies(f, lockTask[t].kind) THEN "raise" ELSE "idle")]
          \/ lockTask' = [lockTask EXCEPT ![t] = Outside] /\ flock' = flock
          \/ /\ Conflict(f, lockTask[t].kind)
             /\ lockTask' = [lockTask EXCEPT ![t] = [lockTask[t] EXCEPT !.pc = "wait", !.seen = flockSeq]]
             /\ flock' = flock
    BY <1>1 DEF TryLock
  <2>2. lockTask[t].pc = "try" /\ flockSeq' = flockSeq
    BY <1>1 DEF TryLock
  <2>3. lockTask[t].flock = {f} /\ f \in Flocks
    BY <2>1, <2>2 DEF LockInv, LockTypes
  <2>4. CASE lockTask' = [lockTask EXCEPT ![t] = Outside] /\ flock' = flock
    <3>1. LockTypes'
      BY <2>2, <2>4 DEF LockInv, LockTypes, Outside, Leaving
    <3>2. lockTask'[t].pc = "idle" /\ \A u \in LockTasks \ {t} : lockTask'[u] = lockTask[u]
      BY <2>4 DEF LockInv, LockTypes, Outside, Leaving
    <3>3. RaisePending => RaisePending'
      BY <2>2, <3>2 DEF RaisePending
    <3>4. SleepersExcluded'
      BY <2>2, <2>4, <3>2, <3>3 DEF LockInv, SleepersExcluded, Asleep, Conflict, Blocks
    <3> QED
      BY <2>4, <3>1, <3>4 DEF LockInv, LockExclusion
  <2>5. CASE /\ Conflict(f, lockTask[t].kind)
             /\ lockTask' = [lockTask EXCEPT ![t] = [lockTask[t] EXCEPT !.pc = "wait", !.seen = flockSeq]]
             /\ flock' = flock
    <3> DEFINE c == [lockTask[t] EXCEPT !.pc = "wait", !.seen = flockSeq]
    <3>b. /\ c \in [pc : {"idle", "try", "wait", "raise"}, flock : SUBSET Flocks,
                    kind : {"none", "shared", "exclusive"}, nonblock : BOOLEAN, seen : Nat]
          /\ c.flock = {f} /\ c.kind = lockTask[t].kind /\ c.pc = "wait" /\ c.seen = flockSeq
      BY <2>3 DEF LockInv, LockTypes
    <3>a. lockTask' = [lockTask EXCEPT ![t] = c]
      BY <2>5
    <3> HIDE DEF c
    <3>1. LockTypes'
      BY <2>2, <2>3, <2>5, <3>b, <3>a DEF LockInv, LockTypes
    <3>2. /\ lockTask'[t].flock = {f} /\ lockTask'[t].kind = lockTask[t].kind
          /\ lockTask'[t].pc = "wait"
          /\ \A u \in LockTasks \ {t} : lockTask'[u] = lockTask[u]
      BY <2>3, <3>b, <3>a DEF LockInv, LockTypes
    <3>3. RaisePending => RaisePending'
      BY <2>2, <3>2 DEF RaisePending
    <3>4. SleepersExcluded'
      BY <2>2, <2>5, <3>2, <3>3 DEF LockInv, SleepersExcluded, Asleep, Conflict, Blocks
    <3> QED
      BY <2>5, <3>1, <3>4 DEF LockInv, LockExclusion
  <2> QED
    BY <2>1, <2>2, <2>4, <2>5, GrantInv
<1>2. CASE RaiseNotify(t)
  <2>1. LockTypes'
    BY <1>2 DEF LockInv, LockTypes, RaiseNotify, Outside, Leaving
  <2>2. \A u \in LockTasks : ~Asleep(u)'
    BY <1>2 DEF LockInv, LockTypes, RaiseNotify, Outside, Leaving, Asleep
  <2> QED
    BY <1>2, <2>1, <2>2 DEF LockInv, LockExclusion, SleepersExcluded, RaiseNotify
<1>3. CASE WakeLock(t)
  <2>1. LockTypes'
    BY <1>3 DEF LockInv, LockTypes, WakeLock
  <2>2. lockTask'[t].pc = "try" /\ \A u \in LockTasks \ {t} : lockTask'[u] = lockTask[u]
    BY <1>3 DEF LockInv, LockTypes, WakeLock
  <2>3. RaisePending => RaisePending'
    BY <1>3, <2>2 DEF RaisePending, WakeLock
  <2>4. SleepersExcluded'
    BY <1>3, <2>2, <2>3 DEF LockInv, SleepersExcluded, Asleep, Conflict, Blocks, WakeLock
  <2> QED
    BY <1>3, <2>1, <2>4 DEF LockInv, LockExclusion, WakeLock
<1> QED
  BY <1>1, <1>2, <1>3 DEF LockStep

(* Every step keeps LockInv. *)
LEMMA LocksNextInv ==
  ASSUME LockInv, [LocksNext]_lockVars
  PROVE  LockInv'
<1>1. CASE LocksNext
  BY <1>1, StepInv, UnlockInv, CallLockInv DEF LocksNext
<1>2. CASE UNCHANGED lockVars
  BY <1>2 DEF lockVars, LockInv, LockTypes, LockExclusion, SleepersExcluded, RaisePending, Asleep,
              Conflict, Blocks
<1> QED
  BY <1>1, <1>2

(* An exclusive lock excludes every other one, whatever sequence of lock(), unlock,
   upgrade and downgrade led to it (FlockManager::lock()).                         *)
THEOREM ExclusionCorrect == LocksSpec => []LockExclusion
<1>1. LockInv => LockExclusion
  BY DEF LockInv
<1> QED
  BY LocksInitInv, LocksNextInv, <1>1, PTL DEF LocksSpec

(* If all locks in the way of a sleeper belonged to sleepers, two of these, or one and
   the sleeper itself, would be in an upgrade.                                        *)
LEMMA ExcludedWaitsEnd == LockInv => LockWaitsEnd
<1> SUFFICES ASSUME LockInv, ~UpgradeDeadlock, ~RaisePending,
                    NEW t \in LockTasks, Asleep(t)
             PROVE  \E f \in lockTask[t].flock, g \in Flocks :
                      /\ Blocks(g, f, lockTask[t].kind)
                      /\ \A u \in LockTasks : Asleep(u) => g \notin lockTask[u].flock
  BY DEF LockWaitsEnd, RaisePending
<1>1. ASSUME NEW u \in LockTasks, Asleep(u), NEW h \in lockTask[u].flock
      PROVE  /\ h \in Flocks /\ Conflict(h, lockTask[u].kind)
             /\ flock[h] # "none" => flock[h] = "shared" /\ lockTask[u].kind = "exclusive"
  <2>1. h \in Flocks /\ Conflict(h, lockTask[u].kind)
    BY <1>1 DEF LockInv, LockTypes, SleepersExcluded
  <2>2. PICK b \in Flocks : Blocks(b, h, lockTask[u].kind)
    BY <2>1 DEF Conflict
  <2> QED
    BY <2>1, <2>2 DEF LockInv, LockTypes, LockExclusion, Blocks
<1>2. PICK f \in Flocks : lockTask[t].flock = {f}
  BY DEF LockInv, LockTypes, Asleep
<1>3. PICK g \in Flocks : Blocks(g, f, lockTask[t].kind)
  BY <1>1, <1>2 DEF Conflict
<1>4. CASE \A u \in LockTasks : Asleep(u) => g \notin lockTask[u].flock
  BY <1>2, <1>3, <1>4
<1>5. ASSUME NEW u \in LockTasks, Asleep(u), g \in lockTask[u].flock
      PROVE  \E h \in Flocks : /\ Blocks(h, f, lockTask[t].kind)
                               /\ \A v \in LockTasks : Asleep(v) => h \notin lockTask[v].flock
  <2>1. flock[g] = "shared" /\ lockTask[u].kind = "exclusive" /\ Conflict(g, lockTask[u].kind)
    BY <1>1, <1>3, <1>5 DEF Blocks
  <2>2. lockTask[t].kind = "exclusive" /\ f # g
    BY <1>3, <2>1 DEF Blocks
  <2>3. flock[f] = "none"
    <3>1. flock[f] # "shared"
      BY <1>2, <1>5, <2>1, <2>2 DEF UpgradeDeadlock
    <3> QED
      BY <1>1, <1>2, <3>1
  <2>4. PICK h \in Flocks : h # g /\ flock[h] # "none"
    BY <2>1 DEF Conflict, Blocks
  <2>5. Blocks(h, f, lockTask[t].kind)
    BY <2>2, <2>3, <2>4 DEF Blocks
  <2>6. ASSUME NEW v \in LockTasks, Asleep(v), h \in lockTask[v].flock
        PROVE  FALSE
    <3>1. flock[h] = "shared"
      BY <1>1, <2>4, <2>6
    <3> QED
      BY <1>5, <2>1, <2>4, <2>6, <3>1 DEF UpgradeDeadlock
  <2> QED
    BY <2>5, <2>6
<1> QED
  BY <1>2, <1>4, <1>5

(* No task sleeps for a lock that nobody will release: no unlock, close or downgrade is
   missed (the raise() is outside of the mutex), and two upgrades are the only deadlock
   of FlockManager::lock().                                                            *)
THEOREM WaitsEndCorrect == LocksSpec => []LockWaitsEnd
  BY LocksInitInv, LocksNextInv, ExcludedWaitsEnd, PTL DEF LocksSpec
============================================================================
