\* A client that sends QUIT.
SPECIFICATION Spec
CONSTANTS
  Text = {"PASS", "QUIT"}
  Fd = {3}
  ListenFd = 0
  MaxBacklog = 1
  MaxSent = 3
  Terse = {}
PROPERTIES
  QuitDisconnects
CHECK_DEADLOCK FALSE
