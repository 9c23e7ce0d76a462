\* The last member kicks itself.
SPECIFICATION Spec
CONSTANTS
  Addr = {a1, a2}
  Nick = {n1, n2}
  NoNick = NoNick
  Key = {}
  NoKey = NoKey
  LongKey = LongKey
  Topic = {}
  NoTopic = NoTopic
  BadTopic = BadTopic
  ModeArg = {}
  NoArg = NoArg
  ChanName = {c1}
  ModeString = {}
  TopicWord = {}
  JoinKey = {NoKey}
  Text = {}
  None = None
SYMMETRY Symmetry
INVARIANTS
  NoEmptyChannel
