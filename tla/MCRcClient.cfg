CONSTANTS
  Uid = {u1, u2}
  MaxSends = 3
  Careful = TRUE
SPECIFICATION Spec
INVARIANTS TypeOK Conservation QuietWhenStopped NeverAborts
PROPERTIES StopReturns ImplementsOutbox
\* The system stops when the client has been destroyed.
CHECK_DEADLOCK FALSE
