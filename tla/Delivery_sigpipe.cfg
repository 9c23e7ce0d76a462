\* A client leaves while it is sent two messages.
SPECIFICATION Spec
CONSTANTS
  Client = {c1, c2}
  Capacity = 3
  MaxMessages = 4
INVARIANTS
  OthersAreServed
\* The messages are bounded, and the server may be killed.
CHECK_DEADLOCK FALSE
