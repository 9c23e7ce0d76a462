\* Every mode string of up to four characters, on three channels.
SPECIFICATION Spec
CONSTANTS
  a1 = a1
  k1 = k1
  k2 = k2
  n1 = n1
  MaxLen = 4
  Addr = {a1}
  Nick = {n1}
  NoNick = NoNick
  Key = {k1, k2}
  NoKey = NoKey
  LongKey = LongKey
  Topic = {}
  NoTopic = NoTopic
  BadTopic = BadTopic
  ModeArg <- Args
  NoArg = NoArg
  ModeString <- AllStrings
  Start <- Starts
  Targets <- OneOrNone
INVARIANTS
  TypeOK
  LoopIsApplyModes
  LimitMarkAgrees
\* A command that was answered or announced is over.
CHECK_DEADLOCK FALSE
