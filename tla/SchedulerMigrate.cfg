SPECIFICATION WakeupsSpec
CONSTANTS
  EpollFiles = {a, b}
  LocalFiles = {a}
  Waiters = {w1, w2}
  NoWaiter = nobody
  ItemModes <- AllModes
  MaxItems = 2
  MaxModify = 1
  MaxEdges = 2
  MaxEvents = {1}
  PipeFiles = {pr, pw, pb}
  ReaderFiles = {pr, pb}
  WriterFiles = {pw, pb}
  PipeTasks = {p1, p2}
  PipeSize = 2
  MaxPipeSeq = 3
  EventTasks = {v1, v2, v3}
  CounterLimit = 4
  MaxEventSeq = 5
  LockTasks = {t1, t2, t3}
  Flocks = {f, g, h}
  MaxCalls = 5
  Threads = {e1, e2, e3}
  IdleTask = idle
  RemoteCpus = {r1, r2}
  MaxPriority = 1
  OwnCpuFirst = TRUE
INVARIANT PendingNoticed
CHECK_DEADLOCK FALSE
