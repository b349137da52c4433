----------------------------- MODULE MCKernel -----------------------------
(***************************************************************************)
(* Instances, for TLC, of the parts of the kernel that synchronise its     *)
(* threads.  A behaviour is one of the component that scenario names,      *)
(* while the variables of the others keep their initial values.            *)
(***************************************************************************)
EXTENDS Rcu, LocalRcu, IrqPin, Futex, CancelTags

VARIABLE scenario

Edge  == {"maskable"}                            \* I/O APIC, GIC and APLIC, edge
Level == {"maskable", "maskInService"}           \* I/O APIC, GIC and APLIC, level
Plic  == {"maskable", "suppressMaskInService"}
Msi   == {}
AllStrategies == {Edge, Level, Plic, Msi}

KernelInit ==
  /\ scenario \in {"rcu", "localRcu", "irq", "futex", "tags"}
  /\ Init /\ LocalInit /\ FutexInit
  /\ IF scenario = "irq" THEN IrqInit ELSE IrqInit /\ strategy = Msi
  /\ TagsInit /\ (scenario # "tags" => ~oneshot)

Rc(A) == scenario = "rcu" /\ A /\ UNCHANGED <<scenario, localRcuVars, irqVars, futexVars, tagVars>>
Lo(A) == scenario = "localRcu" /\ A /\ UNCHANGED <<scenario, vars, irqVars, futexVars, tagVars>>
Ir(A) == scenario = "irq" /\ A /\ UNCHANGED <<scenario, vars, localRcuVars, futexVars, tagVars>>
Fu(A) == scenario = "futex" /\ A /\ UNCHANGED <<scenario, vars, localRcuVars, irqVars, tagVars>>
Ta(A) == scenario = "tags" /\ A /\ UNCHANGED <<scenario, vars, localRcuVars, irqVars, futexVars>>

KernelNext == Rc(Next) \/ Lo(LocalNext) \/ Ir(IrqNext) \/ Fu(FutexNext) \/ Ta(TagsNext)

kernelVars == <<scenario, vars, localRcuVars, irqVars, futexVars, tagVars>>

(* Coroutines, destructors and handlers that can go on do; RCU sections and guards
   are left, and an item of a work queue runs if its CPU keeps leaving its
   sections; drivers keep awaiting and answering their IRQs
   (docs/src/impl-notes/drivers/irqs.md asks them to).                           *)
KernelFairness ==
  /\ \A c \in Cpus : /\ WF_kernelVars(Rc(DispatcherStep(c))) /\ WF_kernelVars(Rc(ExitSection(c)))
                     /\ SF_kernelVars(Rc(RunItem(c)))
                     /\ WF_kernelVars(Rc(\E x \in Callables : RaisePending(x, c)))
  /\ \A r \in Readers : WF_kernelVars(Lo(Unguard(r))) /\ WF_kernelVars(Lo(RaiseGp(r)))
  /\ \A b \in Callers : WF_kernelVars(Lo(CallerStep(b)))
  /\ \A k \in Sinks : WF_kernelVars(Ir(SubmitAwait(k))) /\ WF_kernelVars(Ir(Answer(k)))
  /\ WF_kernelVars(Ir(UnstallPoll)) /\ WF_kernelVars(Ir(UnstallKick))
  /\ WF_kernelVars(Fu(FutexStep))
  /\ WF_kernelVars(Ta(TagStep))

KernelSpec == KernelInit /\ [][KernelNext]_kernelVars /\ KernelFairness

(* No wakeup is lost: submitted callables run, barriers return, a masked line is
   opened again and its buffered edge serviced, woken and cancelled futex waits
   return, and cancelled timers and waits for events are answered.               *)
KernelProgress ==
  []<>( /\ AllRun /\ BarriersReturned /\ LineServed /\ TagsIdle
        /\ \A t \in FutexWaiters : FutexReturns(t) )

(* The books of an interrupt line are right, no assertion of irq.cpp fails and no
   driver sleeps through a raise.                                                 *)
LineSound == DueSinksExact /\ IdleLineOpen /\ NoAssertionFails /\ NoMissedRaise

(* A transition of the RCU engine has one initiator, whose end nobody misses. *)
TransitionSound == OneTransition /\ BarrierAssertions /\ NoLostSeqEvent

(* The grace period of a local engine, and its counts of guards. *)
LocalGracePeriod == GracePeriodUnlessPremature /\ FirstGracePeriod /\ CountsGuards

(* Cancellation tags: what they refer to is alive, and no bit of an event is lost. *)
TagsSound == TagLifetimes /\ BitsReported
============================================================================
