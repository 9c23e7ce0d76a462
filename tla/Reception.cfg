\* Two descriptors, three bytes on one and one on the other.
SPECIFICATION Spec
CONSTANTS
  Text = {"PASS"}
  Fd = {3, 4}
  ListenFd = 0
  MaxBacklog = 1
  MaxSent = 3
  Terse = {4}
INVARIANTS
  LinesArriveWhole
  NulOnlyDrops
  NoLineWaits
PROPERTIES
  DroppedIsSilent
  EveryLineIsServed
\* The process ends.
CHECK_DEADLOCK FALSE
