\* The addresses of deleted clients are given again.
SPECIFICATION HistorySpec
CONSTANTS
  Addr = {a1, a2}
  Nick = {n1, n2}
  NoNick = NoNick
  Key = {k1}
  NoKey = NoKey
  LongKey = LongKey
  Topic = {}
  NoTopic = NoTopic
  BadTopic = BadTopic
  ModeArg <- NickArgs
  NoArg = NoArg
  ChanName = {c1}
  ModeString <- ModeStrings
  TopicWord = {}
  JoinKey = {NoKey}
  Text = {}
  None = None
SYMMETRY Symmetry
INVARIANTS
  OperatorsWereGranted
