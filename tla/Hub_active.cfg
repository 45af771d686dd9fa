SPECIFICATION Spec
CONSTANTS
  Sockets = {d1, d2}
  Publishers = {tick}
  None = None
  QueueFrames = 1
  MaxFrames = 2
  MaxStreams = 0
  Together = FALSE
INVARIANTS AttachedIsActive
CHECK_DEADLOCK FALSE
