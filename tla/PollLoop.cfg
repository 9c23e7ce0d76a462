\* Three descriptors.
SPECIFICATION Spec
CONSTANTS
  Fd = {3, 4, 5}
  ListenFd = 0
  MaxBacklog = 1
INVARIANTS
  TypeOK
  PollFdsMatchClients
  ReventsAreCurrent
  OnlyLeakedStayOpen
PROPERTIES
  InputIsRead
  GonePeerIsDropped
  NewcomersAreAccepted
  SignalEndsServer
\* The process ends.
CHECK_DEADLOCK FALSE
