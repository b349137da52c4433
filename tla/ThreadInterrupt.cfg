SPECIFICATION TickingSpec
CONSTANTS
  Completers = {a1}
  Posters = {}
  Raisers = {a2}
  Balancers = {}
  Resumers = {a1}
  Observers = {o1}
  Cpus = {c1}
  IrqConditions = {}
  NoArg = NoArg
INVARIANTS InterruptsDoNotNest NoForgottenObserver
PROPERTIES ThreadProgress
