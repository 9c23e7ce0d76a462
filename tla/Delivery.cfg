\* Two members, sockets of three bytes, four messages.
SPECIFICATION Spec
CONSTANTS
  Client = {c1, c2}
  Capacity = 3
  MaxMessages = 4
INVARIANTS
  WhoKeepsUpGetsAll
  LossIsAtTheEnd
PROPERTIES
  HandlersEnd
\* The messages are bounded, and the server may be killed.
CHECK_DEADLOCK FALSE
