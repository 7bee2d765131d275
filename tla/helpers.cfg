SPECIFICATION FairSpec
CONSTANTS
  Pid = {p1, p2, p3}
  NOBODY = NOBODY
  max_helpers = 2
  QUEUE_SIZE = 3
  MaxRegistrations = 4

INVARIANTS
  HelperFound
PROPERTIES
  AcceptedAreHandled
  FinalizeEnds
CHECK_DEADLOCK FALSE
