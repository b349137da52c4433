SPECIFICATION KernelSpec
CONSTANTS
  Cpus = {c1, c2}
  Callables = {x1, x2}
  Readers = {r1, r2}
  Callers = {b1, b2}
  MaxSeq = 3
  Sinks = {k1, k2}
  Strategies <- AllStrategies
  MaxIrqSeq = 2
  FutexWaiters = {f1, f2}
  FutexWakers = {f3, f4}
  MaxWaits = 3
  MaxWakes = 3
  TimerOps = {o1}
  EventOps = {o2}
  Cancellers = {q1, q2}
  EventBits = {bit}
  MaxTriggers = 2
INVARIANTS GracePeriod TransitionSound LocalGracePeriod LineSound FutexNodesSound TagsSound
PROPERTIES AnswersMatch KernelProgress
CHECK_DEADLOCK FALSE
