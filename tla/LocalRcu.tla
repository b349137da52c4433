------------------------------ MODULE LocalRcu ------------------------------
(***************************************************************************)
(* LocalRcuEngine (kernel/thor/generic/rcu.cpp, thor-internal/rcu.hpp):    *)
(* readers hold a Guard and may sleep in it; barrier() flips the cycle     *)
(* that new guards count in and waits for the old cycle to drain.  A       *)
(* compare_exchange_weak() loop is one step, taken when it succeeds.       *)
(***************************************************************************)
EXTENDS Integers, FiniteSets

CONSTANTS Readers,   \* threads that take guards
          Callers,   \* threads that call barrier()
          MaxSeq     \* bound: no barrier() begins at this sequence number

ASSUME MaxSeqAssumption == MaxSeq \in Nat

Cycles == {0, 1}

VARIABLES
  lstate,      \* state_: the sequence number and the busy bit
  count,      \* cs_.x[i] & count
  active,     \* the cycles i with the active bit set in cs_.x[i]
  rpc, rcycle, \* a reader: outside, inside (c_ = rcycle), or about to raise gpEvent_
  bpc, lseq, lcurrent, cyc,  \* barrier(): program counter and locals (cyc is c)
  oldGuards, \* guards that were held when this barrier() began (history)
  premature   \* gpEvent_ has resumed a barrier() whose cycle was not drained (history)

csVars     == <<count, active>>
readerVars == <<rpc, rcycle>>
barrierVars  == <<lseq, lcurrent, cyc>>
localRcuVars == <<lstate, csVars, readerVars, bpc, barrierVars, oldGuards, premature>>

LocalIdle(n) == [seq |-> n, busy |-> FALSE]
LocalBusy(n) == [seq |-> n, busy |-> TRUE]
LocalStates  == [seq : Nat, busy : BOOLEAN]
LocalPcs == {"out", "load", "waitOld", "sleepOld", "cas", "swap", "test", "sleepGp",
        "publish", "raise", "other", "waitNew", "sleepNew", "panic"}

\* The type of every variable.
LocalTypeOK ==
  /\ lstate \in LocalStates /\ count \in [Cycles -> Nat] /\ active \subseteq Cycles
  /\ rpc \in [Readers -> {"out", "in", "raise"}] /\ rcycle \in [Readers -> Cycles]
  /\ bpc \in [Callers -> LocalPcs] /\ lseq \in [Callers -> Nat]
  /\ lcurrent \in [Callers -> LocalStates] /\ cyc \in [Callers -> Cycles]
  /\ oldGuards \in [Callers -> SUBSET Readers]
  /\ premature \in BOOLEAN

LocalInit ==
  /\ lstate = LocalIdle(0) /\ count = [i \in Cycles |-> 0] /\ active = {0}
  /\ rpc = [r \in Readers |-> "out"] /\ rcycle = [r \in Readers |-> 0]
  /\ bpc = [b \in Callers |-> "out"] /\ lseq = [b \in Callers |-> 0]
  /\ lcurrent = [b \in Callers |-> LocalIdle(0)] /\ cyc = [b \in Callers |-> 0]
  /\ oldGuards = [b \in Callers |-> {}]
  /\ premature = FALSE

\* CriticalSection::cycle().
Cycle == IF 0 \in active THEN 0 ELSE 1
\* cs_.x[i], up to the weight of the active bit.
NonZero(i) == i \in active \/ count[i] # 0

GotoLocal(b, p) == bpc' = [bpc EXCEPT ![b] = p]

-----------------------------------------------------------------------------
(* Guard.                                                                  *)

Guard(r) ==
  /\ rpc[r] = "out"
  /\ rcycle' = [rcycle EXCEPT ![r] = Cycle]
  /\ count' = [count EXCEPT ![Cycle] = @ + 1]
  /\ rpc' = [rpc EXCEPT ![r] = "in"]
  /\ UNCHANGED <<lstate, active, bpc, barrierVars, oldGuards, premature>>

\* The old value of cs_.x[i] that makes ~Guard() raise gpEvent_.
LastOut(i) == i \notin active /\ count[i] = 1

\* The cycle a guard was counted in, c_.
CountedIn(r) == rcycle[r]

Unguard(r) ==
  /\ rpc[r] = "in"
  /\ count' = [count EXCEPT ![CountedIn(r)] = @ - 1]
  /\ rpc' = [rpc EXCEPT ![r] = IF LastOut(CountedIn(r)) THEN "raise" ELSE "out"]
  /\ oldGuards' = [b \in Callers |-> oldGuards[b] \ {r}]
  /\ UNCHANGED <<lstate, active, rcycle, bpc, barrierVars, premature>>

\* gpEvent_.raise(), a step of its own: it resumes whoever sleeps on the event
\* by now, and the condition of async_wait_if() is not tested again.
RaiseGp(r) ==
  /\ rpc[r] = "raise"
  /\ rpc' = [rpc EXCEPT ![r] = "out"]
  /\ bpc' = [b \in Callers |-> IF bpc[b] = "sleepGp" THEN "publish" ELSE bpc[b]]
  /\ premature' = (premature \/ \E b \in Callers : bpc[b] = "sleepGp" /\ NonZero(cyc[b]))
  /\ UNCHANGED <<lstate, csVars, rcycle, barrierVars, oldGuards>>

-----------------------------------------------------------------------------
(* LocalRcuEngine::barrier().                                              *)

Barrier(b) ==
  /\ bpc[b] = "out" /\ lstate.seq < MaxSeq
  /\ oldGuards' = [oldGuards EXCEPT ![b] = {r \in Readers : rpc[r] = "in"}]
  /\ GotoLocal(b, "load")
  /\ UNCHANGED <<lstate, csVars, readerVars, barrierVars, premature>>

LoadLocal(b) ==
  /\ bpc[b] = "load"
  /\ lseq' = [lseq EXCEPT ![b] = lstate.seq]
  /\ lcurrent' = [lcurrent EXCEPT ![b] = lstate]
  /\ GotoLocal(b, IF lstate.busy THEN "waitOld" ELSE "cas")
  /\ UNCHANGED <<lstate, csVars, readerVars, cyc, oldGuards, premature>>

\* seqEvent_.async_wait_if() in the loop at `from`: sleeps while state_ is v.
WaitWhileLocal(b, from, v, sleep, done) ==
  /\ bpc[b] = from
  /\ lcurrent' = [lcurrent EXCEPT ![b] = lstate]
  /\ GotoLocal(b, IF lstate = v THEN sleep ELSE done)
  /\ UNCHANGED <<lstate, csVars, readerVars, lseq, cyc, oldGuards, premature>>

WaitOldLocal(b) == WaitWhileLocal(b, "waitOld", LocalBusy(lseq[b]), "sleepOld", "cas")
WaitNewLocal(b) == WaitWhileLocal(b, "waitNew", LocalBusy(lseq[b] + 1), "sleepNew", "out")

CasLocal(b) ==
  /\ bpc[b] = "cas"
  /\ IF lcurrent[b] = LocalIdle(lseq[b]) /\ lstate = lcurrent[b]
     THEN lstate' = LocalBusy(lseq[b] + 1) /\ GotoLocal(b, "swap") /\ UNCHANGED lcurrent
     ELSE /\ lcurrent' = IF lcurrent[b] = LocalIdle(lseq[b])
                        THEN [lcurrent EXCEPT ![b] = lstate] ELSE lcurrent
          /\ GotoLocal(b, "other")
          /\ UNCHANGED lstate
  /\ UNCHANGED <<csVars, readerVars, lseq, cyc, oldGuards, premature>>

\* The active cycles in csNew.
Flipped == {1 - Cycle}

\* The active bit moves to the other cycle; the assertion before it stops the
\* kernel when that cycle is not empty.
Swap(b) ==
  /\ bpc[b] = "swap"
  /\ IF NonZero(1 - Cycle)
     THEN GotoLocal(b, "panic") /\ UNCHANGED <<active, cyc>>
     ELSE /\ cyc' = [cyc EXCEPT ![b] = Cycle]
          /\ active' = Flipped
          /\ GotoLocal(b, IF count[Cycle] # 0 THEN "test" ELSE "publish")
  /\ UNCHANGED <<lstate, count, readerVars, lseq, lcurrent, oldGuards, premature>>

\* Mutant of MustWaitLocal: returns at once although guards are held.
MustWaitNever(b) == FALSE
MustWaitLocal(b) == NonZero(cyc[b])

\* gpEvent_.async_wait_if().
Test(b) ==
  /\ bpc[b] = "test"
  /\ GotoLocal(b, IF MustWaitLocal(b) THEN "sleepGp" ELSE "publish")
  /\ UNCHANGED <<lstate, csVars, readerVars, barrierVars, oldGuards, premature>>

PublishLocal(b) ==
  /\ bpc[b] = "publish"
  /\ lstate' = LocalIdle(lseq[b] + 1)
  /\ GotoLocal(b, "raise")
  /\ UNCHANGED <<csVars, readerVars, barrierVars, oldGuards, premature>>

ResumedLocal(p) == CASE p = "sleepOld" -> "waitOld" [] p = "sleepNew" -> "waitNew" [] OTHER -> p

RaiseLocalSeq(b) ==
  /\ bpc[b] = "raise"
  /\ bpc' = [k \in Callers |-> IF k = b THEN "out" ELSE ResumedLocal(bpc[k])]
  /\ UNCHANGED <<lstate, csVars, readerVars, barrierVars, oldGuards, premature>>

OtherLocal(b) ==
  /\ bpc[b] = "other"
  /\ GotoLocal(b, IF lcurrent[b] = LocalBusy(lseq[b] + 1) THEN "waitNew" ELSE "out")
  /\ UNCHANGED <<lstate, csVars, readerVars, barrierVars, oldGuards, premature>>

-----------------------------------------------------------------------------
CallerStep(b) ==
  \/ LoadLocal(b) \/ WaitOldLocal(b) \/ WaitNewLocal(b) \/ CasLocal(b) \/ Swap(b) \/ Test(b)
  \/ PublishLocal(b) \/ RaiseLocalSeq(b) \/ OtherLocal(b)

LocalNext ==
  \/ \E r \in Readers : Guard(r) \/ Unguard(r) \/ RaiseGp(r)
  \/ \E b \in Callers : Barrier(b) \/ CallerStep(b)

LocalSpec == LocalInit /\ [][LocalNext]_localRcuVars

-----------------------------------------------------------------------------
\* cs_ is exact: one cycle is active, and each cycle counts the guards that
\* were taken in it, although a guard is dropped after any number of barriers.
CountsGuards ==
  /\ Cardinality(active) = 1
  /\ \A i \in Cycles : count[i] = Cardinality({r \in Readers : rpc[r] = "in" /\ rcycle[r] = i})

\* Unless gpEvent_ resumes a barrier() early, barrier() returns only when every
\* guard that was held when it began has been dropped.
GracePeriodUnlessPremature ==
  \A b \in Callers : bpc[b] = "out" /\ ~premature => oldGuards[b] = {}

\* A resumption can only be early if a destructor dropped its count in an
\* earlier grace period: the first grace period of an engine is always kept.
FirstGracePeriod ==
  lstate.seq <= 1 => ~premature

\* assert(!cs.x[!c]) in barrier(): the cycle that becomes active is empty.
OtherCycleEmpty ==
  \A b \in Callers : bpc[b] # "panic"

\* Every barrier() has returned (what has to hold again and again: neither
\* gpEvent_ nor seqEvent_ is lost; the assertion aside, which is OtherCycleEmpty).
BarriersReturned == \A b \in Callers : bpc[b] = "out" \/ premature
=============================================================================
