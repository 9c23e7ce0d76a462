\* Three clients, two channels, three nicknames: who is in which, and what they know of it.
SPECIFICATION ViewSpec
CONSTANTS
  Addr = {a1, a2, a3}
  Nick = {n1, n2, n3}
  NoNick = NoNick
  Key = {}
  NoKey = NoKey
  LongKey = LongKey
  Topic = {}
  NoTopic = NoTopic
  BadTopic = BadTopic
  ModeArg = {}
  NoArg = NoArg
  ChanName = {c1, c2}
  ModeString = {}
  TopicWord = {}
  JoinKey = {NoKey}
  Text = {m1}
  None = None
SYMMETRY Symmetry
INVARIANTS
  MembershipAgrees
  RegisteredByHandshake
  NicknamesUnique
  OnlySenderIsSkipped
  ViewsAreCurrent
PROPERTIES
  EmptiedOnlyBySelfKick
  ImplementsPresence
