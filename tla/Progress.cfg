SPECIFICATION ProgressSpec
CONSTANTS
  Processors = {c1, c2}
  Spaces = {s1}
  Kernel = kernel
  Nodes = {n1}
  Machines <- OneSpace
  SelfIpi = TRUE
  None = None
  Pages = {p1, p2}
  Mappings = {m1}
  Copiers = {k1}
  p1 = p1
  p2 = p2
  m1 = m1
  k1 = k1
  NoPage = NoPage
  LateWrites = FALSE
  InvalidateDirty = FALSE
  Settings <- SteadySettings
CHECK_DEADLOCK FALSE
PROPERTIES ShootdownProgress PagesProgress
