SPECIFICATION ManagedSpec
CONSTANTS
  Pages = {p1, p2}
  Mappings = {m1}
  Copiers = {k1}
  p1 = p1
  p2 = p2
  m1 = m1
  k1 = k1
  NoPage = NoPage
  LateWrites = FALSE
  InvalidateDirty = TRUE
  Settings <- InvalidatedFile
CHECK_DEADLOCK FALSE
INVARIANT PageStates
