\* Every line of up to seven characters behind a command.
SPECIFICATION Spec
CONSTANTS
  Char = {" ", ":", "a"}
  MaxLen = 7
  MaxLong = 20
  MaxMessageLength = 16
  MaxTopicLength = 18
INVARIANTS
  SplitsIntoParameters
  ParametersAreKept
  TextIsRelayed
  OnlyRefusedTopicsDiffer
  NamesAreMembers
  BotPlaysFair
\* The line is answered.
CHECK_DEADLOCK FALSE
