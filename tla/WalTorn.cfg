SPECIFICATION WalSpec
CONSTANTS
  Segments = {x1, x2}
INVARIANTS SegmentsSurvive
CHECK_DEADLOCK FALSE
