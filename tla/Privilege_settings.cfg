\* Two addresses that are given again and one channel with keys, limits and status.
SPECIFICATION HistorySpec
CONSTANTS
  Addr = {a1, a2}
  Nick = {n1, n2}
  NoNick = NoNick
  Key = {k1}
  NoKey = NoKey
  LongKey = LongKey
  Topic = {}
  NoTopic = NoTopic
  BadTopic = BadTopic
  ModeArg <- SettingsArgs
  NoArg = NoArg
  ChanName = {c1}
  ModeString <- SettingsStrings
  TopicWord = {BadTopic}
  JoinKey = {NoKey, k1, LongKey}
  Text = {}
  None = None
SYMMETRY Symmetry
INVARIANTS
  TypeOK
  StatusStaysUntilTaken
PROPERTIES
  OrphanedChannelIsFrozen
  FullChannelAdmitsNobody
  InvitedHereOrBefore
