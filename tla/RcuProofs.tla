----------------------------- MODULE RcuProofs ------------------------------
(* Proofs about Rcu, for every set of CPUs and of callables. *)
EXTENDS Rcu, TLAPS

LEMMA StateValues ==
  ASSUME NEW n \in Nat
  PROVE  Idle(n) \in States /\ Busy(n) \in States
  BY DEF Idle, Busy, States

LEMMA TypeInit == Init => TypeOK
<1>1. Idle(0) \in States
  BY StateValues
<1> QED
  BY <1>1 DEF Init, TypeOK, Pcs

LEMMA TypeStep == TypeOK /\ [Next]_vars => TypeOK'
<1> SUFFICES ASSUME TypeOK, [Next]_vars PROVE TypeOK'
  OBVIOUS
<1> USE DEF TypeOK, Goto, engineVars, localVars
<1>1. ASSUME NEW c \in Cpus, EnterSection(c) PROVE TypeOK'
  BY <1>1 DEF EnterSection
<1>2. ASSUME NEW c \in Cpus, ExitSection(c) PROVE TypeOK'
  BY <1>2 DEF ExitSection
<1>3. ASSUME NEW c \in Cpus, RunItem(c) PROVE TypeOK'
  BY <1>3 DEF RunItem
<1>4. ASSUME NEW c \in Cpus, Poll(c) PROVE TypeOK'
  BY <1>4 DEF Poll, Pcs
<1>5. ASSUME NEW c \in Cpus, Collect(c) PROVE TypeOK'
  BY <1>5 DEF Collect, Pcs, BarrierPcs
<1>6. ASSUME NEW c \in Cpus, Call(c) PROVE TypeOK'
  BY <1>6, StateValues, Idle(0) \in States DEF Call, Pcs
<1>7. ASSUME NEW c \in Cpus, Load(c) PROVE TypeOK'
  BY <1>7 DEF Load, SeqOf, Pcs, BarrierPcs, States
<1>8. ASSUME NEW c \in Cpus, WaitOld(c) PROVE TypeOK'
  BY <1>8 DEF WaitOld, WaitWhile, Pcs, BarrierPcs
<1>9. ASSUME NEW c \in Cpus, WaitNew(c) PROVE TypeOK'
  BY <1>9 DEF WaitNew, WaitWhile, Pcs, BarrierPcs
<1>10. ASSUME NEW c \in Cpus, Cas(c) PROVE TypeOK'
  BY <1>10, StateValues, s[c] + 1 \in Nat DEF Cas, Pcs, BarrierPcs
<1>11. ASSUME NEW c \in Cpus, Spawn(c) PROVE TypeOK'
  BY <1>11 DEF Spawn, Pcs, BarrierPcs
<1>12. ASSUME NEW c \in Cpus, Transition(c) PROVE TypeOK'
  BY <1>12 DEF Transition, Pcs, BarrierPcs
<1>13. ASSUME NEW c \in Cpus, Publish(c) PROVE TypeOK'
  BY <1>13, StateValues, s[c] + 1 \in Nat DEF Publish, Pcs, BarrierPcs
<1>14. ASSUME NEW c \in Cpus, RaiseSeq(c) PROVE TypeOK'
  BY <1>14 DEF RaiseSeq, Resumed, Pcs, BarrierPcs
<1>15. ASSUME NEW c \in Cpus, Other(c) PROVE TypeOK'
  BY <1>15 DEF Other, Pcs, BarrierPcs
<1>16. ASSUME NEW x \in Callables, NEW c \in Cpus, Submit(x, c) PROVE TypeOK'
  BY <1>16 DEF Submit
<1>17. ASSUME NEW x \in Callables, NEW c \in Cpus, RaisePending(x, c) PROVE TypeOK'
  BY <1>17 DEF RaisePending, Pcs
<1>18. CASE UNCHANGED vars
  BY <1>18 DEF vars
<1> HIDE DEF TypeOK
<1> QED
  BY <1>1, <1>2, <1>3, <1>4, <1>5, <1>6, <1>7, <1>8, <1>9, <1>10, <1>11, <1>12,
     <1>13, <1>14, <1>15, <1>16, <1>17, <1>18 DEF Next, DispatcherStep

\* Every variable of the engine and the dispatchers keeps its type.
THEOREM TypeCorrect == Spec => []TypeOK
  BY TypeInit, TypeStep, PTL DEF Spec

-----------------------------------------------------------------------------
(* One transition at a time.                                               *)

LEMMA OneTransitionInit == Init => OneTransition
  BY DEF Idle, Init, OneTransition, Initiators

LEMMA OneTransitionStep == TypeOK /\ OneTransition /\ [Next]_vars => OneTransition'
<1> SUFFICES ASSUME TypeOK, OneTransition, [Next]_vars PROVE OneTransition'
  OBVIOUS
<1> USE DEF TypeOK, OneTransition, Initiators, Goto, engineVars, localVars
<1>1. ASSUME NEW c \in Cpus, EnterSection(c) PROVE OneTransition'
  BY <1>1 DEF EnterSection
<1>2. ASSUME NEW c \in Cpus, ExitSection(c) PROVE OneTransition'
  BY <1>2 DEF ExitSection
<1>3. ASSUME NEW c \in Cpus, RunItem(c) PROVE OneTransition'
  BY <1>3 DEF RunItem
<1>4. ASSUME NEW c \in Cpus, Poll(c) PROVE OneTransition'
  BY <1>4 DEF Poll
<1>5. ASSUME NEW c \in Cpus, Collect(c) PROVE OneTransition'
  BY <1>5 DEF Collect
<1>6. ASSUME NEW c \in Cpus, Call(c) PROVE OneTransition'
  BY <1>6 DEF Call
<1>7. ASSUME NEW c \in Cpus, Load(c) PROVE OneTransition'
  BY <1>7 DEF Load
<1>8. ASSUME NEW c \in Cpus, WaitOld(c) PROVE OneTransition'
  BY <1>8 DEF WaitOld, WaitWhile
<1>9. ASSUME NEW c \in Cpus, WaitNew(c) PROVE OneTransition'
  BY <1>9 DEF WaitNew, WaitWhile
<1>10. ASSUME NEW c \in Cpus, Cas(c) PROVE OneTransition'
  <2>1. ~Idle(s[c]).busy /\ Busy(s[c] + 1).busy
    BY DEF Idle, Busy
  <2>2. CASE Initiates(c)
    BY <1>10, <2>1, <2>2 DEF Cas, Initiates
  <2>3. CASE ~Initiates(c)
    BY <1>10, <2>3 DEF Cas
  <2> QED
    BY <2>2, <2>3
<1>11. ASSUME NEW c \in Cpus, Spawn(c) PROVE OneTransition'
  BY <1>11 DEF Spawn
<1>12. ASSUME NEW c \in Cpus, Transition(c) PROVE OneTransition'
  BY <1>12 DEF Transition
<1>13. ASSUME NEW c \in Cpus, Publish(c) PROVE OneTransition'
  <2>1. ~Idle(s[c] + 1).busy
    BY DEF Idle
  <2> QED
    BY <1>13, <2>1 DEF Publish
<1>14. ASSUME NEW c \in Cpus, RaiseSeq(c) PROVE OneTransition'
  BY <1>14 DEF RaiseSeq, Resumed
<1>15. ASSUME NEW c \in Cpus, Other(c) PROVE OneTransition'
  BY <1>15 DEF Other
<1>16. ASSUME NEW x \in Callables, NEW c \in Cpus, Submit(x, c) PROVE OneTransition'
  BY <1>16 DEF Submit
<1>17. ASSUME NEW x \in Callables, NEW c \in Cpus, RaisePending(x, c) PROVE OneTransition'
  BY <1>17 DEF RaisePending
<1>18. CASE UNCHANGED vars
  BY <1>18 DEF vars
<1> HIDE DEF TypeOK, OneTransition
<1> QED
  BY <1>1, <1>2, <1>3, <1>4, <1>5, <1>6, <1>7, <1>8, <1>9, <1>10, <1>11,
     <1>12, <1>13, <1>14, <1>15, <1>16, <1>17, <1>18
  DEF Next, DispatcherStep

\* At most one dispatcher runs a transition; it owns the busy bit and the
\* work items (transitionWg_).
THEOREM OneTransitionCorrect == Spec => []OneTransition
  BY TypeCorrect, OneTransitionInit, OneTransitionStep, PTL DEF Spec

-----------------------------------------------------------------------------
(* The order of the values of state_: 0, 1 | busy, 1, 2 | busy, 2, ...     *)

Pos(v) == 2 * v.seq + (IF v.busy THEN 0 ELSE 1)

LEMMA PosValues ==
  /\ \A n \in Nat : Pos(Idle(n)) = 2 * n + 1 /\ Pos(Busy(n)) = 2 * n
  /\ \A v \in States : Pos(v) \in Nat
  BY DEF Pos, Idle, Busy, States

LEMMA PosInjective ==
  ASSUME NEW v \in States, NEW n \in Nat
  PROVE  /\ Pos(v) = 2 * n + 1 <=> v = Idle(n)
         /\ Pos(v) = 2 * n <=> v = Busy(n)
<1>1. v = [seq |-> v.seq, busy |-> v.busy] /\ v.seq \in Nat /\ v.busy \in BOOLEAN
  BY DEF States
<1>2. CASE v.busy = TRUE
  <2>1. Pos(v) = 2 * v.seq
    BY <1>1, <1>2 DEF Pos
  <2>2. v = Busy(v.seq)
    BY <1>1, <1>2 DEF Busy
  <2>3. v # Idle(n)
    BY <1>2 DEF Idle
  <2>4. v = Busy(n) => v.seq = n
    BY DEF Busy
  <2> QED
    BY <1>1, <2>1, <2>2, <2>3, <2>4
<1>3. CASE v.busy = FALSE
  <2>1. Pos(v) = 2 * v.seq + 1
    BY <1>1, <1>3 DEF Pos
  <2>2. v = Idle(v.seq)
    BY <1>1, <1>3 DEF Idle
  <2>3. v # Busy(n)
    BY <1>3 DEF Busy
  <2>4. v = Idle(n) => v.seq = n
    BY DEF Idle
  <2> QED
    BY <1>1, <2>1, <2>2, <2>3, <2>4
<1> QED
  BY <1>1, <1>2, <1>3

LEMMA PosLoad ==
  ASSUME NEW v \in States
  PROVE  /\ v.busy => Pos(v) = 2 * v.seq
         /\ ~v.busy => Pos(v) = 2 * v.seq + 1
  BY DEF Pos, States

\* Where barrier() may be after its first load of state_.
Loaded == BarrierPcs \ {"load"}

\* current is a value state_ has had since barrier() loaded s.
OrderInv ==
  \A c \in Cpus :
    /\ pc[c] \in Loaded => 2 * s[c] <= Pos(current[c]) /\ Pos(current[c]) <= Pos(state)
    /\ pc[c] = "cas" => 2 * s[c] + 1 <= Pos(current[c])
    /\ pc[c] = "other" => 2 * s[c] + 2 <= Pos(current[c])
    /\ pc[c] \in {"waitNew", "sleepNew"} => Pos(current[c]) = 2 * s[c] + 2
    /\ pc[c] \in {"spawn", "transition", "publish", "raise"} => Pos(current[c]) = 2 * s[c] + 1
    /\ pc[c] = "raise" => 2 * s[c] + 3 <= Pos(state)
    /\ pc[c] = "call" => 2 * s[c] + 3 <= Pos(current[c]) \/ Pos(current[c]) = 2 * s[c] + 1

LEMMA OrderInit == Init => OrderInv
  BY DEF Init, OrderInv, Loaded, BarrierPcs

\* The values of state_ and current that a step compares.
LEMMA Positions ==
  ASSUME TypeOK, NEW c \in Cpus
  PROVE  /\ s[c] \in Nat /\ Pos(state) \in Nat /\ Pos(current[c]) \in Nat
         /\ state = Busy(s[c]) <=> Pos(state) = 2 * s[c]
         /\ state = Busy(s[c] + 1) <=> Pos(state) = 2 * s[c] + 2
         /\ current[c] = Busy(s[c] + 1) <=> Pos(current[c]) = 2 * s[c] + 2
         /\ current[c] = Idle(s[c]) <=> Pos(current[c]) = 2 * s[c] + 1
         /\ state = Idle(s[c]) <=> Pos(state) = 2 * s[c] + 1
         /\ Pos(Busy(s[c] + 1)) = 2 * s[c] + 2 /\ Pos(Idle(s[c] + 1)) = 2 * s[c] + 3
<1>1. s[c] \in Nat /\ state \in States /\ current[c] \in States
  BY DEF TypeOK
<1>2. Pos(state) \in Nat /\ Pos(current[c]) \in Nat
  BY <1>1, PosValues
<1>3. Pos(Busy(s[c] + 1)) = 2 * (s[c] + 1) /\ Pos(Idle(s[c] + 1)) = 2 * (s[c] + 1) + 1
  BY <1>1, PosValues
<1>4. 2 * (s[c] + 1) = 2 * s[c] + 2
  BY <1>1
<1>5. /\ state = Busy(s[c] + 1) <=> Pos(state) = 2 * (s[c] + 1)
      /\ current[c] = Busy(s[c] + 1) <=> Pos(current[c]) = 2 * (s[c] + 1)
  BY <1>1, PosInjective
<1>6. /\ state = Busy(s[c]) <=> Pos(state) = 2 * s[c]
      /\ current[c] = Idle(s[c]) <=> Pos(current[c]) = 2 * s[c] + 1
      /\ state = Idle(s[c]) <=> Pos(state) = 2 * s[c] + 1
  BY <1>1, PosInjective
<1> QED
  BY <1>1, <1>2, <1>3, <1>4, <1>5, <1>6

LEMMA OrderStep == TypeOK /\ OneTransition /\ OrderInv /\ [Next]_vars => OrderInv'
<1> SUFFICES ASSUME TypeOK, OneTransition, OrderInv, [Next]_vars PROVE OrderInv'
  OBVIOUS
<1> DEFINE Shape == /\ s \in [Cpus -> Nat] /\ pc \in [Cpus -> Pcs]
                    /\ current \in [Cpus -> States] /\ state \in States
                    /\ \A c \in Cpus : Pos(current[c]) \in Nat
                    /\ Pos(state) \in Nat
<1>a. Shape
  BY PosValues DEF TypeOK
<1> USE <1>a DEF OrderInv, Loaded, BarrierPcs, Goto, engineVars, localVars
<1>1. ASSUME NEW c \in Cpus, EnterSection(c) PROVE OrderInv'
  BY <1>1 DEF EnterSection
<1>2. ASSUME NEW c \in Cpus, ExitSection(c) PROVE OrderInv'
  BY <1>2 DEF ExitSection
<1>3. ASSUME NEW c \in Cpus, RunItem(c) PROVE OrderInv'
  BY <1>3 DEF RunItem
<1>4. ASSUME NEW c \in Cpus, Poll(c) PROVE OrderInv'
  BY <1>4 DEF Poll
<1>5. ASSUME NEW c \in Cpus, Collect(c) PROVE OrderInv'
  BY <1>5 DEF Collect
<1>6. ASSUME NEW c \in Cpus, Call(c) PROVE OrderInv'
  BY <1>6, PosValues, Pos(Idle(0)) = 1 DEF Call
<1>7. ASSUME NEW c \in Cpus, Load(c) PROVE OrderInv'
  BY <1>7, PosLoad DEF Load, SeqOf, States
<1>8. ASSUME NEW c \in Cpus, WaitOld(c) PROVE OrderInv'
  BY <1>8, Positions DEF WaitOld, WaitWhile
<1>9. ASSUME NEW c \in Cpus, WaitNew(c) PROVE OrderInv'
  BY <1>9, Positions DEF WaitNew, WaitWhile
<1>10. ASSUME NEW c \in Cpus, Cas(c) PROVE OrderInv'
  <2>1. CASE Initiates(c)
    <3>1. state' = Busy(s[c] + 1) /\ Pos(state') = Pos(state) + 1
      BY <1>10, <2>1, Positions DEF Cas, Initiates
    <3> QED
      BY <1>10, <2>1, <3>1, Positions DEF Cas, Initiates
  <2>2. CASE ~Initiates(c)
    BY <1>10, <2>2, Positions DEF Cas, Initiates
  <2> QED
    BY <2>1, <2>2
<1>11. ASSUME NEW c \in Cpus, Spawn(c) PROVE OrderInv'
  BY <1>11 DEF Spawn
<1>12. ASSUME NEW c \in Cpus, Transition(c) PROVE OrderInv'
  BY <1>12 DEF Transition
<1>13. ASSUME NEW c \in Cpus, Publish(c) PROVE OrderInv'
  <2>1. state = Busy(s[c] + 1)
    BY <1>13 DEF Publish, OneTransition, Initiators
  <2>2. Pos(state') = Pos(state) + 1 /\ Pos(state') = 2 * s[c] + 3
    BY <1>13, <2>1, Positions DEF Publish
  <2> QED
    BY <1>13, <2>2 DEF Publish
<1>14. ASSUME NEW c \in Cpus, RaiseSeq(c) PROVE OrderInv'
  BY <1>14 DEF RaiseSeq, Resumed
<1>15. ASSUME NEW c \in Cpus, Other(c) PROVE OrderInv'
  BY <1>15, Positions DEF Other
<1>16. ASSUME NEW x \in Callables, NEW c \in Cpus, Submit(x, c) PROVE OrderInv'
  BY <1>16 DEF Submit
<1>17. ASSUME NEW x \in Callables, NEW c \in Cpus, RaisePending(x, c) PROVE OrderInv'
  BY <1>17 DEF RaisePending
<1>18. CASE UNCHANGED vars
  BY <1>18 DEF vars
<1> HIDE DEF OrderInv
<1> QED
  BY <1>1, <1>2, <1>3, <1>4, <1>5, <1>6, <1>7, <1>8, <1>9, <1>10, <1>11,
     <1>12, <1>13, <1>14, <1>15, <1>16, <1>17, <1>18
  DEF Next, DispatcherStep

\* The assertions of barrier() hold.
THEOREM BarrierAssertionsCorrect == Spec => []BarrierAssertions
<1>1. TypeOK /\ OrderInv => BarrierAssertions
  <2> SUFFICES ASSUME TypeOK, OrderInv, NEW c \in Cpus
               PROVE  /\ pc[c] = "other" => current[c].seq > s[c]
                      /\ pc[c] = "call" /\ current[c].seq > s[c] =>
                           current[c] = Idle(s[c] + 1) \/ current[c].seq > s[c] + 1
    BY DEF BarrierAssertions
  <2>1. s[c] \in Nat /\ current[c] \in States /\ current[c].seq \in Nat
    BY DEF TypeOK, States
  <2>2. \/ Pos(current[c]) = 2 * current[c].seq
        \/ Pos(current[c]) = 2 * current[c].seq + 1
    BY <2>1, PosLoad
  <2>3. s[c] + 1 \in Nat
    BY <2>1
  <2>4. Pos(current[c]) = 2 * (s[c] + 1) + 1 <=> current[c] = Idle(s[c] + 1)
    BY <2>1, <2>3, PosInjective
  <2> QED
    BY <2>1, <2>2, <2>4 DEF OrderInv
<1> QED
  BY <1>1, TypeCorrect, OneTransitionCorrect, OrderInit, OrderStep, PTL DEF Spec

-----------------------------------------------------------------------------
(* The grace period.                                                       *)

InTransition == \E k \in Cpus : pc[k] \in {"transition", "publish"}

\* A callable whose barrier() loaded s: from ((s + 1) | stateBusy) on, the CPUs
\* that may still be in an old critical section have not run their work item;
\* from s + 1 on there are none.
GraceInv ==
  /\ \A x \in Callables : oldReaders[x] \subseteq reading
  /\ \A c \in Cpus : \A x \in queue[c] \cup collected[c] : phase[x] # "live"
  /\ \A c \in Cpus : \A x \in collected[c] :
       /\ pc[c] = "call" => oldReaders[x] = {}
       /\ pc[c] \in Loaded /\ 2 * s[c] + 3 <= Pos(state) => oldReaders[x] = {}
       /\ pc[c] \in Loaded /\ Pos(state) = 2 * s[c] + 2 /\ InTransition =>
            oldReaders[x] \subseteq items
  /\ GracePeriod

LEMMA GraceInit == Init => GraceInv
  BY DEF Init, GraceInv, GracePeriod

LEMMA GraceStep ==
  TypeOK /\ OneTransition /\ OrderInv /\ GraceInv /\ [Next]_vars => GraceInv'
<1> SUFFICES ASSUME TypeOK, OneTransition, OrderInv, GraceInv, [Next]_vars PROVE GraceInv'
  OBVIOUS
<1> DEFINE Shape == /\ s \in [Cpus -> Nat] /\ pc \in [Cpus -> Pcs]
                    /\ state \in States /\ Pos(state) \in Nat
                    /\ queue \in [Cpus -> SUBSET Callables]
                    /\ collected \in [Cpus -> SUBSET Callables]
                    /\ oldReaders \in [Callables -> SUBSET Cpus]
                    /\ phase \in [Callables -> {"live", "submitted", "called"}]
<1>a. Shape
  BY PosValues DEF TypeOK
<1> USE <1>a DEF GraceInv, GracePeriod, InTransition, Loaded, BarrierPcs, Goto, engineVars, localVars
<1>1. ASSUME NEW c \in Cpus, EnterSection(c) PROVE GraceInv'
  BY <1>1 DEF EnterSection
<1>2. ASSUME NEW c \in Cpus, ExitSection(c) PROVE GraceInv'
  BY <1>2 DEF ExitSection
<1>3. ASSUME NEW c \in Cpus, RunItem(c) PROVE GraceInv'
  BY <1>3 DEF RunItem, MayRun
<1>4. ASSUME NEW c \in Cpus, Poll(c) PROVE GraceInv'
  BY <1>4 DEF Poll
<1>5. ASSUME NEW c \in Cpus, Collect(c) PROVE GraceInv'
  BY <1>5 DEF Collect
<1>6. ASSUME NEW c \in Cpus, Call(c) PROVE GraceInv'
  BY <1>6 DEF Call
<1>7. ASSUME NEW c \in Cpus, Load(c) PROVE GraceInv'
  BY <1>7, PosLoad DEF Load, SeqOf, States
<1>8. ASSUME NEW c \in Cpus, WaitOld(c) PROVE GraceInv'
  BY <1>8 DEF WaitOld, WaitWhile
<1>9. ASSUME NEW c \in Cpus, WaitNew(c) PROVE GraceInv'
  BY <1>9, Positions DEF WaitNew, WaitWhile, OrderInv
<1>10. ASSUME NEW c \in Cpus, Cas(c) PROVE GraceInv'
  <2>1. CASE Initiates(c)
    <3>1. Pos(state') = 2 * s[c] + 2 /\ Pos(state) = 2 * s[c] + 1
      BY <1>10, <2>1, Positions DEF Cas, Initiates
    <3>2. ~InTransition'
      BY <1>10, <2>1 DEF Cas, Initiates, OneTransition, Initiators, Idle
    <3> QED
      BY <1>10, <2>1, <3>1, <3>2 DEF Cas
  <2>2. CASE ~Initiates(c)
    BY <1>10, <2>2 DEF Cas
  <2> QED
    BY <2>1, <2>2
<1>11. ASSUME NEW c \in Cpus, Spawn(c) PROVE GraceInv'
  BY <1>11 DEF Spawn
<1>12. ASSUME NEW c \in Cpus, Transition(c) PROVE GraceInv'
  BY <1>12 DEF Transition
<1>13. ASSUME NEW c \in Cpus, Publish(c) PROVE GraceInv'
  <2>1. state = Busy(s[c] + 1) /\ items = {}
    BY <1>13 DEF Publish, OneTransition, Initiators
  <2>2. Pos(state) = 2 * s[c] + 2 /\ Pos(state') = 2 * s[c] + 3
    BY <1>13, <2>1, Positions DEF Publish
  <2> QED
    BY <1>13, <2>1, <2>2 DEF Publish
<1>14. ASSUME NEW c \in Cpus, RaiseSeq(c) PROVE GraceInv'
  BY <1>14 DEF RaiseSeq, Resumed, OrderInv
<1>15. ASSUME NEW c \in Cpus, Other(c) PROVE GraceInv'
  BY <1>15, Positions DEF Other, OrderInv
<1>16. ASSUME NEW x \in Callables, NEW c \in Cpus, Submit(x, c) PROVE GraceInv'
  BY <1>16 DEF Submit
<1>17. ASSUME NEW x \in Callables, NEW c \in Cpus, RaisePending(x, c) PROVE GraceInv'
  BY <1>17 DEF RaisePending
<1>18. CASE UNCHANGED vars
  BY <1>18 DEF vars
<1> HIDE DEF GraceInv
<1> QED
  BY <1>1, <1>2, <1>3, <1>4, <1>5, <1>6, <1>7, <1>8, <1>9, <1>10, <1>11,
     <1>12, <1>13, <1>14, <1>15, <1>16, <1>17, <1>18
  DEF Next, DispatcherStep

\* barrier() keeps its promise: no callable runs while a CPU is still in a
\* critical section that began before the callable was submitted.
THEOREM GracePeriodCorrect == Spec => []GracePeriod
<1>1. GraceInv => GracePeriod
  BY DEF GraceInv
<1> QED
  BY <1>1, TypeCorrect, OneTransitionCorrect, OrderInit, OrderStep, GraceInit, GraceStep, PTL DEF Spec
=============================================================================
