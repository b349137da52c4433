SPECIFICATION Spec
CONSTANTS
  Packets = {1, 2, 3}
  Plans <- StreamPlans
  Sides <- StreamSides
  MaxStreams = 3
  MaxCloses = 2
  PageSize = 2
  InlineMax = 1
INVARIANTS LiveNodes LaneAssertions
PROPERTIES ImplementsRendezvous ClosedAnswered
CHECK_DEADLOCK FALSE
