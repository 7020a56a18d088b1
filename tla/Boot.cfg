SPECIFICATION Spec
CONSTANTS
  Cores = {0, 1, 2, 3}
  Master = 0
  JUMP_HANDLER_QUEUE_LENGTH = 10
  Hazards = {"stale", "nomem"}
INVARIANT PointersUsable
PROPERTY SlavesStart
