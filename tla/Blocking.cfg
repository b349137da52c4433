SPECIFICATION Spec
CONSTANTS
  Completers = {a1}
  Posters = {a1}
  Raisers = {}
  Balancers = {a1}
  Resumers = {a1}
  Observers = {}
  Cpus = {c1, c2}
  IrqConditions = {"interrupt"}
  NoArg = NoArg
INVARIANTS NoLostWakeup WorkNotStranded ExitPathNotified
