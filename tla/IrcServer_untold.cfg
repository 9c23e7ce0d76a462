\* A MODE that fails half-way.
SPECIFICATION Spec
CONSTANTS
  Addr = {a1, a2}
  Nick = {n1, n2}
  NoNick = NoNick
  Key = {k1}
  NoKey = NoKey
  LongKey = LongKey
  Topic = {t1}
  NoTopic = NoTopic
  BadTopic = BadTopic
  ModeArg <- AllArgs
  NoArg = NoArg
  ChanName = {c1}
  ModeString <- AllStrings
  TopicWord = {t1, BadTopic}
  JoinKey = {NoKey, k1}
  Text = {m1}
  None = None
SYMMETRY Symmetry
PROPERTIES
  SettingsChangesAreTold
