-------------------------- MODULE SchedulerProofs --------------------------
(***************************************************************************)
(* PendingNoticed and WaitersGetTurn of Scheduler, for every set of        *)
(* threads and CPUs and every number of priorities.                        *)
(***************************************************************************)
EXTENDS Scheduler, TLAPS

(* At most one entity *)
Entities == {{}} \cup {{e} : e \in Threads \cup {IdleTask}}

EntityStates == {"away", "attached", "pending", "active"}

SchedTypes ==
  /\ prio \in [Threads -> Nat] /\ estate \in [Threads -> EntityStates]
  /\ pendingList \subseteq Threads /\ waitQueue \subseteq Threads
  /\ currentEntity \in Entities /\ scheduled \in Entities

(* The inductive invariant for PendingNoticed: nothing local is left to be noticed
   when commitReschedule() clears the flag.                                        *)
NoticedInv ==
  /\ PendingNoticed
  /\ cpu = "commit" /\ pendingList # {} => ping \/ pinger # {} \/ deadline

----------------------------------------------------------------------------
(* Initially all queues are empty. *)
LEMMA InitNoticed == SchedInit => NoticedInv
  BY DEF SchedInit, NoticedInv, PendingNoticed

(* Every step keeps NoticedInv, if no thread migrates to the CPU it is on. *)
LEMMA NextNoticed ==
  ASSUME ~OwnCpuFirst, NoticedInv, [SchedNext]_schedVars
  PROVE  NoticedInv'
<1> USE DEF NoticedInv, PendingNoticed, ScheduleFrom,
            threadVars, queues, entities, noticeVars, pingVars
<1>1. CASE CommitReschedule
  BY <1>1 DEF CommitReschedule
<1>2. CASE Interrupts
  BY <1>2 DEF Interrupts, TakeInterrupt, TakePing, DeadlineExpires
<1>3. CASE LeaveInterrupt
  BY <1>3 DEF LeaveInterrupt, HandlePreemption
<1>4. CASE EnterKernel \/ RaiseIpl \/ \E p \in 0..MaxPriority : SetPriority(p)
  BY <1>4 DEF EnterKernel, RaiseIpl, SetPriority
<1>5. CASE LeaveKernel
  BY <1>5 DEF LeaveKernel, HandlePreemption, InKernel, RunsThread
<1>6. CASE LowerIpl
  BY <1>6 DEF LowerIpl, HandlePreemption
<1>7. CASE BlockThread
  BY <1>7 DEF BlockThread
<1>8. CASE YieldThread
  BY <1>8 DEF YieldThread
<1>9. CASE EndThread
  BY <1>9 DEF EndThread
<1>10. CASE AfterThread
  BY <1>10 DEF AfterThread
<1>11. ASSUME NEW own \in {FALSE, OwnCpuFirst}, MigrateThread(own)
       PROVE  NoticedInv'
  <2>1. ~own
    BY <1>11
  <2>2. pendingList' = {}
    BY <1>11, <2>1 DEF MigrateThread
  <2> QED
    BY <2>2
<1>12. ASSUME NEW r \in RemoteCpus, SendPing(r)
       PROVE  NoticedInv'
  BY <1>12 DEF SendPing
<1>13. ASSUME NEW r \in RemoteCpus, NEW e \in Threads, RemoteResume(r, e)
       PROVE  NoticedInv'
  BY <1>13 DEF RemoteResume
<1>14. ASSUME NEW e \in Threads, LocalResume(e)
       PROVE  NoticedInv'
  BY <1>14 DEF LocalResume, MustCallAfter, InKernel, RunsThread
<1>15. CASE UNCHANGED schedVars
  BY <1>15 DEF schedVars
<1> HIDE DEF NoticedInv
<1> QED
  BY <1>1, <1>2, <1>3, <1>4, <1>5, <1>6, <1>7, <1>8, <1>9, <1>10, <1>11, <1>12, <1>13, <1>14, <1>15
     DEF SchedNext

(* A thread on the pending list of a CPU is always noticed (resume() and its wasEmpty
   test, suppressRenewalUntilInterrupt(), commitReschedule()), if no thread migrates
   to the CPU it is on.                                                              *)
THEOREM PendingCorrect ==
  ASSUME ~OwnCpuFirst
  PROVE  SchedSpec => []PendingNoticed
<1>1. NoticedInv => PendingNoticed
  BY DEF NoticedInv
<1> QED
  BY InitNoticed, NextNoticed, <1>1, PTL DEF SchedSpec

----------------------------------------------------------------------------
(* A thread is at one place only: on the pending list, in the wait queue, current, or
   switched to; setPriority() of the current one is none of a waiter.                *)
PlacesInv ==
  /\ SchedTypes
  /\ \A e \in pendingList : estate[e] = "pending"
  /\ \A e \in waitQueue \cup ((currentEntity \cup scheduled) \ {IdleTask}) : estate[e] = "active"
  /\ waitQueue \cap (currentEntity \cup scheduled) = {}
  /\ cpu = "commit" <=> scheduled # {}

(* Initially the threads are at none of them. *)
LEMMA InitPlaces == SchedInit => PlacesInv
  BY SchedulerAssumption DEF SchedInit, PlacesInv, SchedTypes, Entities, EntityStates

(* _schedule() takes one thread from the queue it is given. *)
LEMMA ScheduledPlaces ==
  ASSUME NEW queue \in SUBSET Threads, ScheduleFrom(queue),
         prio \in [Threads -> Nat], prio' = prio, estate' \in [Threads -> EntityStates],
         pendingList' \subseteq Threads, \A e \in pendingList' : estate'[e] = "pending",
         \A e \in queue : estate'[e] = "active"
  PROVE  PlacesInv'
<1>1. PICK e \in Threads \cup {IdleTask} :
        scheduled' = {e} /\ (e \in queue \/ (queue = {} /\ e = IdleTask))
  BY DEF ScheduleFrom, Top
<1>2. waitQueue' = queue \ {e} /\ currentEntity' = {} /\ cpu' = "commit"
  BY <1>1 DEF ScheduleFrom
<1> QED
  BY <1>1, <1>2 DEF PlacesInv, SchedTypes, Entities

(* The queues are moved, and the current thread stays or goes to the wait queue. *)
LEMMA PreemptionPlaces ==
  ASSUME PlacesInv, HandlePreemption, prio' = prio, cpu # "commit"
  PROVE  PlacesInv'
<1>1. /\ SchedTypes /\ Updated \subseteq Threads
      /\ estate' \in [Threads -> EntityStates] /\ pendingList' = {}
  BY DEF PlacesInv, SchedTypes, EntityStates, Updated, HandlePreemption, Activated
<1>2. \A e \in Updated \cup ((currentEntity \cup scheduled) \ {IdleTask}) : estate'[e] = "active"
  BY DEF PlacesInv, SchedTypes, Entities, Updated, HandlePreemption, Activated
<1>3. CASE ScheduleFrom(Updated \cup (currentEntity \ {IdleTask}))
  <2>1. Updated \cup (currentEntity \ {IdleTask}) \in SUBSET Threads
    BY <1>1 DEF SchedTypes, Entities
  <2> QED
    BY <1>1, <1>2, <1>3, <2>1, ScheduledPlaces DEF SchedTypes
<1>4. CASE waitQueue' = Updated /\ cpu' = "run" /\ UNCHANGED <<currentEntity, scheduled>>
  <2>1. Updated \cap (currentEntity \cup scheduled) = {}
    BY SchedulerAssumption DEF PlacesInv, SchedTypes, Updated
  <2> QED
    BY <1>1, <1>2, <1>4, <2>1 DEF PlacesInv, SchedTypes
<1> QED
  BY <1>3, <1>4 DEF HandlePreemption, entities

(* Every step keeps PlacesInv. *)
LEMMA NextPlaces ==
  ASSUME PlacesInv, [SchedNext]_schedVars
  PROVE  PlacesInv'
<1> USE DEF threadVars, queues, entities, noticeVars, pingVars, EntityStates
<1>a. Updated \in SUBSET Threads /\ prio \in [Threads -> Nat]
  BY DEF PlacesInv, SchedTypes, Updated
<1>b. \A e \in Updated : e \notin currentEntity /\ Activated(estate)[e] = "active"
  BY SchedulerAssumption DEF PlacesInv, SchedTypes, Updated, Activated
<1>c. Activated(estate) \in [Threads -> EntityStates]
  BY DEF PlacesInv, SchedTypes, Activated
<1>d. ASSUME InKernel
      PROVE  currentEntity \subseteq Threads /\ \A e \in currentEntity : estate[e] = "active"
  BY <1>d DEF InKernel, RunsThread, PlacesInv, SchedTypes, Entities
<1>1. CASE CommitReschedule
  BY <1>1 DEF CommitReschedule, PlacesInv, SchedTypes, Entities
<1>2. CASE Interrupts \/ EnterKernel \/ RaiseIpl
  BY <1>2 DEF Interrupts, TakeInterrupt, TakePing, DeadlineExpires, EnterKernel, RaiseIpl, PlacesInv, SchedTypes
<1>3. CASE LeaveInterrupt
  <2>1. CASE HandlePreemption
    BY <1>3, <2>1, PreemptionPlaces DEF LeaveInterrupt
  <2>2. CASE ~HandlePreemption
    BY <1>3, <2>2 DEF LeaveInterrupt, PlacesInv, SchedTypes
  <2> QED
    BY <2>1, <2>2
<1>4. ASSUME NEW p \in 0..MaxPriority, SetPriority(p)
      PROVE  PlacesInv'
  <2>1. PICK c \in currentEntity : prio' = [prio EXCEPT ![c] = p]
    BY <1>4 DEF SetPriority
  <2>2. p \in Nat
    BY SchedulerAssumption
  <2>3. prio' \in [Threads -> Nat]
    BY <1>a, <2>1, <2>2
  <2> QED
    BY <1>4, <2>3 DEF SetPriority, PlacesInv, SchedTypes
<1>5. CASE LeaveKernel
  <2>1. CASE HandlePreemption
    BY <1>5, <2>1, PreemptionPlaces DEF LeaveKernel, InKernel, RunsThread
  <2>2. CASE ~HandlePreemption
    BY <1>5, <2>2 DEF LeaveKernel, PlacesInv, SchedTypes
  <2> QED
    BY <2>1, <2>2
<1>6. CASE LowerIpl
  <2>1. CASE HandlePreemption
    BY <1>6, <2>1, PreemptionPlaces DEF LowerIpl, InKernel, RunsThread
  <2>2. CASE ~HandlePreemption
    BY <1>6, <2>2 DEF LowerIpl, PlacesInv, SchedTypes
  <2> QED
    BY <2>1, <2>2
<1>7. CASE BlockThread
  <2>1. /\ estate' \in [Threads -> EntityStates] /\ pendingList' = {}
        /\ \A e \in Updated : estate'[e] = "active"
    BY <1>7, <1>a, <1>b, <1>c DEF BlockThread
  <2> QED
    BY <1>7, <1>a, <2>1, ScheduledPlaces DEF BlockThread
<1>8. CASE YieldThread
  <2>1. Updated \cup currentEntity \in SUBSET Threads
    BY <1>8, <1>a, <1>d DEF YieldThread
  <2>2. \A e \in currentEntity : Activated(estate)[e] = "active"
    BY <1>8, <1>d DEF YieldThread, Activated
  <2>3. /\ estate' \in [Threads -> EntityStates] /\ pendingList' = {}
        /\ \A e \in Updated \cup currentEntity : estate'[e] = "active"
    BY <1>8, <1>b, <1>c, <2>2 DEF YieldThread
  <2> QED
    BY <1>8, <1>a, <2>1, <2>3, ScheduledPlaces DEF YieldThread
<1>9. CASE EndThread
  <2>1. \A e \in Threads \ currentEntity : estate'[e] = estate[e]
    BY <1>9 DEF EndThread
  <2>2. estate' \in [Threads -> EntityStates]
    BY <1>9 DEF EndThread, PlacesInv, SchedTypes
  <2>3. \A e \in pendingList \cup waitQueue : e \notin currentEntity
    BY SchedulerAssumption DEF PlacesInv, SchedTypes
  <2>4. scheduled = {}
    BY <1>9 DEF EndThread, InKernel, RunsThread, PlacesInv
  <2> QED
    BY <1>9, <2>1, <2>2, <2>3, <2>4 DEF EndThread, PlacesInv, SchedTypes, Entities
<1>10. CASE AfterThread
  BY <1>10, <1>a, <1>b, <1>c, ScheduledPlaces DEF AfterThread
<1>11. ASSUME NEW own \in {FALSE, OwnCpuFirst}, MigrateThread(own)
       PROVE  PlacesInv'
  <2>1. currentEntity \subseteq Threads /\ own \in BOOLEAN
    BY <1>11, <1>d, SchedulerAssumption DEF MigrateThread
  <2>2. /\ estate' \in [Threads -> EntityStates] /\ pendingList' \subseteq Threads
        /\ \A e \in Updated : estate'[e] = "active"
    BY <1>11, <1>a, <1>b, <1>c, <2>1 DEF MigrateThread
  <2>3. \A e \in pendingList' : estate'[e] = "pending"
    BY <1>11, <2>1 DEF MigrateThread
  <2> QED
    BY <1>11, <1>a, <2>2, <2>3, ScheduledPlaces DEF MigrateThread
<1>12. ASSUME NEW r \in RemoteCpus, SendPing(r)
       PROVE  PlacesInv'
  BY <1>12 DEF SendPing, PlacesInv, SchedTypes
<1>13. ASSUME NEW r \in RemoteCpus, NEW e \in Threads, RemoteResume(r, e)
       PROVE  PlacesInv'
  BY <1>13, SchedulerAssumption DEF RemoteResume, PlacesInv, SchedTypes
<1>14. ASSUME NEW e \in Threads, LocalResume(e)
       PROVE  PlacesInv'
  BY <1>14, SchedulerAssumption DEF LocalResume, PlacesInv, SchedTypes
<1>15. CASE UNCHANGED schedVars
  BY <1>15 DEF schedVars, PlacesInv, SchedTypes
<1> QED
  BY <1>1, <1>2, <1>3, <1>4, <1>5, <1>6, <1>7, <1>8, <1>9, <1>10, <1>11, <1>12, <1>13, <1>14, <1>15
     DEF SchedNext

----------------------------------------------------------------------------
(* The invariant for WaitersGetTurn *)
TurnInv == PlacesInv /\ WaitersGetTurn

(* Initially nobody waits. *)
LEMMA InitTurn == SchedInit => TurnInv
  BY InitPlaces DEF SchedInit, TurnInv, WaitersGetTurn

(* What _schedule() takes is of the highest priority. *)
LEMMA ScheduledTop ==
  ASSUME NEW queue \in SUBSET Threads, ScheduleFrom(queue), prio' = prio
  PROVE  WaitersGetTurn'
<1>1. PICK e \in Threads \cup {IdleTask} :
        /\ scheduled' = {e}
        /\ queue = {} \/ (e \in queue /\ \A f \in queue : prio[f] <= prio[e])
  BY DEF ScheduleFrom, Top
<1>2. waitQueue' = queue \ {e} /\ cpu' = "commit"
  BY <1>1 DEF ScheduleFrom
<1> QED
  BY <1>1, <1>2, SchedulerAssumption DEF WaitersGetTurn

(* handlePreemption(): who goes on without a switch is ahead of all, or has a deadline. *)
LEMMA PreemptionTurn ==
  ASSUME TurnInv, HandlePreemption, prio' = prio
  PROVE  WaitersGetTurn'
<1>a. Updated \in SUBSET Threads /\ currentEntity \in Entities /\ prio \in [Threads -> Nat]
  BY DEF TurnInv, PlacesInv, SchedTypes, Updated
<1>1. CASE ScheduleFrom(Updated \cup (currentEntity \ {IdleTask}))
  <2>1. Updated \cup (currentEntity \ {IdleTask}) \in SUBSET Threads
    BY <1>a DEF Entities
  <2> QED
    BY <1>1, <2>1, ScheduledTop
<1>2. CASE /\ ~MustSwitch
           /\ waitQueue' = Updated
           /\ deadline' = (deadline \/ Contended(currentEntity, Updated))
           /\ ranked' = Rank(currentEntity)
           /\ cpu' = "run"
           /\ UNCHANGED <<currentEntity, scheduled>>
  <2>1. ASSUME ~deadline', NEW f \in Updated
        PROVE  IdleTask \notin currentEntity /\ \E p \in ranked' : prio[f] < p
    <3>1. PICK g \in currentEntity \cap Threads : ~(prio[f] > prio[g])
      BY <1>2 DEF MustSwitch
    <3>2. currentEntity = {g}
      BY <1>a, <3>1 DEF Entities
    <3>3. ~(prio[f] >= prio[g])
      BY <1>2, <2>1, <3>1 DEF Contended
    <3>4. prio[g] \in ranked' /\ prio[f] < prio[g]
      BY <1>2, <1>a, <3>1, <3>3 DEF Rank
    <3> QED
      BY <3>1, <3>2, <3>4, SchedulerAssumption
  <2> QED
    BY <1>2, <2>1 DEF WaitersGetTurn
<1> QED
  BY <1>1, <1>2 DEF HandlePreemption, entities

(* Every step keeps TurnInv. *)
LEMMA NextTurn ==
  ASSUME TurnInv, [SchedNext]_schedVars
  PROVE  TurnInv'
<1> USE DEF threadVars, queues, entities, noticeVars, pingVars
<1> SUFFICES WaitersGetTurn'
  BY NextPlaces DEF TurnInv
<1>a. /\ Updated \in SUBSET Threads /\ prio \in [Threads -> Nat]
      /\ currentEntity \in Entities /\ scheduled \in Entities /\ waitQueue \subseteq Threads
  BY DEF TurnInv, PlacesInv, SchedTypes, Updated
<1>1. CASE CommitReschedule
  <2>1. ASSUME ~deadline', NEW f \in waitQueue
        PROVE  IdleTask \notin scheduled /\ \E p \in ranked' : prio[f] < p
    <3>1. scheduled # {}
      BY <1>1 DEF CommitReschedule, TurnInv, PlacesInv
    <3>2. PICK e \in Threads : scheduled = {e} /\ prio[f] <= prio[e]
      BY <1>1, <1>a, <2>1, <3>1 DEF CommitReschedule, TurnInv, WaitersGetTurn, Entities
    <3>3. ~(prio[f] >= prio[e])
      BY <1>1, <2>1, <3>2 DEF CommitReschedule, Contended
    <3>4. prio[e] \in ranked' /\ prio[f] < prio[e]
      BY <1>1, <1>a, <3>2, <3>3 DEF CommitReschedule, Rank
    <3> QED
      BY <3>2, <3>4, SchedulerAssumption
  <2> QED
    BY <1>1, <2>1 DEF CommitReschedule, WaitersGetTurn
<1>2. CASE Interrupts
  BY <1>2 DEF Interrupts, TakeInterrupt, TakePing, DeadlineExpires, TurnInv, WaitersGetTurn
<1>3. CASE LeaveInterrupt
  <2>1. CASE HandlePreemption
    BY <1>3, <2>1, PreemptionTurn DEF LeaveInterrupt
  <2>2. CASE ~HandlePreemption
    BY <1>3, <2>2 DEF LeaveInterrupt, TurnInv, WaitersGetTurn
  <2> QED
    BY <2>1, <2>2
<1>4. CASE EnterKernel \/ RaiseIpl
  BY <1>4 DEF EnterKernel, RaiseIpl, TurnInv, WaitersGetTurn
<1>5. ASSUME NEW p \in 0..MaxPriority, SetPriority(p)
      PROVE  WaitersGetTurn'
  <2>1. PICK c \in currentEntity : prio' = [prio EXCEPT ![c] = p]
    BY <1>5 DEF SetPriority
  <2>2. \A f \in waitQueue : prio'[f] = prio[f]
    BY <1>a, <2>1 DEF TurnInv, PlacesInv
  <2>3. cpu = "run" /\ cpu' = cpu
    BY <1>5 DEF SetPriority, InKernel, RunsThread
  <2> QED
    BY <1>5, <2>2, <2>3 DEF SetPriority, TurnInv, WaitersGetTurn
<1>6. CASE LeaveKernel
  <2>1. CASE HandlePreemption
    BY <1>6, <2>1, PreemptionTurn DEF LeaveKernel
  <2>2. CASE ~HandlePreemption
    BY <1>6, <2>2 DEF LeaveKernel, TurnInv, WaitersGetTurn
  <2> QED
    BY <2>1, <2>2
<1>7. CASE LowerIpl
  <2>1. CASE HandlePreemption
    BY <1>7, <2>1, PreemptionTurn DEF LowerIpl
  <2>2. CASE ~HandlePreemption
    BY <1>7, <2>2 DEF LowerIpl, TurnInv, WaitersGetTurn
  <2> QED
    BY <2>1, <2>2
<1>8. CASE BlockThread
  BY <1>8, <1>a, ScheduledTop DEF BlockThread
<1>9. CASE YieldThread
  <2>1. Updated \cup currentEntity \in SUBSET Threads
    BY <1>9, <1>a DEF YieldThread, InKernel, RunsThread, Entities
  <2> QED
    BY <1>9, <2>1, ScheduledTop DEF YieldThread
<1>10. CASE EndThread
  BY <1>10 DEF EndThread, WaitersGetTurn
<1>11. CASE AfterThread
  BY <1>11, <1>a, ScheduledTop DEF AfterThread
<1>12. ASSUME NEW own \in {FALSE, OwnCpuFirst}, MigrateThread(own)
       PROVE  WaitersGetTurn'
  BY <1>12, <1>a, ScheduledTop DEF MigrateThread
<1>13. ASSUME NEW r \in RemoteCpus, SendPing(r)
       PROVE  WaitersGetTurn'
  BY <1>13 DEF SendPing, TurnInv, WaitersGetTurn
<1>14. ASSUME NEW r \in RemoteCpus, NEW e \in Threads, RemoteResume(r, e)
       PROVE  WaitersGetTurn'
  BY <1>14 DEF RemoteResume, TurnInv, WaitersGetTurn
<1>15. ASSUME NEW e \in Threads, LocalResume(e)
       PROVE  WaitersGetTurn'
  BY <1>15 DEF LocalResume, MustCallAfter, TurnInv, WaitersGetTurn
<1>16. CASE UNCHANGED schedVars
  BY <1>16 DEF schedVars, TurnInv, WaitersGetTurn
<1> QED
  BY <1>1, <1>2, <1>3, <1>4, <1>5, <1>6, <1>7, <1>8, <1>9, <1>10, <1>11, <1>12, <1>13, <1>14,
     <1>15, <1>16
     DEF SchedNext

(* A thread that waits is never left without a deadline, the flag, or a thread ahead of
   it that had a higher priority when the two were last compared, whatever priorities
   the threads give themselves; the switch is to a thread of the highest priority
   (setPriority(), maybeReschedule(), _schedule(), _updatePreemption()).             *)
THEOREM TurnCorrect == SchedSpec => []WaitersGetTurn
<1>1. TurnInv => WaitersGetTurn
  BY DEF TurnInv
<1> QED
  BY InitTurn, NextTurn, <1>1, PTL DEF SchedSpec
============================================================================
