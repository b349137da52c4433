SPECIFICATION AsidSpec
CONSTANTS
  Processors = {c1, c2, c3}
  Spaces = {s1, s2}
  Kernel = kernel
  Nodes = {n1, n2}
  Machines <- ManyMachines
  SelfIpi = TRUE
  None = None
CHECK_DEADLOCK FALSE
SYMMETRY Interchangeable
INVARIANTS NoStaleTranslation CountExact FreedUnreachable
