SPECIFICATION Spec
CONSTANTS
  NumChunks = 3
  ChunkSize = 2
  Lengths <- QueueLengths
  MaxHeld = 1
  MaxAlerts = 1
  NumSqChunks = 2
  SqChunkSize = 3
  SqLengths = {0, 1, 2}
  MaxPushed = 5
  MessageChunks = 5
  RingBuffers = 2
INVARIANTS HeldStable DispatcherAssertions FlowContract
PROPERTIES ImplementsFifo SubmitsInOrder EverythingArrives
CHECK_DEADLOCK FALSE
