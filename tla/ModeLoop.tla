------------------------------ MODULE ModeLoop ------------------------------
(***************************************************************************)
(* The loop of handleMode as it runs: one step for each character of the   *)
(* mode string, an early return at the first error, and the announcement   *)
(* to the members after the last character. Module IrcServer takes the     *)
(* whole loop as the single operator ApplyModes; here TLC compares the     *)
(* two after every character.                                              *)
(***************************************************************************)
EXTENDS ChannelModes

CONSTANTS
  ModeString,  \* the mode strings, sequences of characters
  Start,       \* the states of the channel the command meets
  Targets      \* the members found by the nickname of the command: {} or one

ASSUME LoopAssumption ==
  /\ ModeString \subseteq Seq(STRING) \ {<<>>}
  /\ Start \subseteq Channel
  /\ \A T \in Targets : T \subseteq Addr /\ \A t, u \in T : t = u

\* The limit and its mark agree in every channel the server has (theorem
\* MarksSafe of IrcServerProofs).
ASSUME StartAssumption == \A c \in Start : "l" \in c.modes <=> c.clientLimit > 0

VARIABLES
  ms, arg, targets,  \* the command
  before,            \* the channel when the command came
  chan,              \* the channel now
  pos,               \* i: the next character is pos + 1
  adding,            \* adding
  result             \* "running", "error" (answered to the sender alone) or "told"

command == <<ms, arg, targets, before>>
vars == <<ms, arg, targets, before, chan, pos, adding, result>>

Init ==
  /\ ms \in ModeString /\ arg \in ModeArg \cup {NoArg}
  /\ targets \in IF arg = NoArg THEN {{}} ELSE Targets
  /\ before \in Start /\ chan = before
  /\ pos = 0 /\ adding = TRUE /\ result = "running"

\* The guard of every iteration, and what each but a failing one does to i.
At(chars) == result = "running" /\ pos < Len(ms) /\ ms[pos + 1] \in chars
Advance == pos' = pos + 1 /\ UNCHANGED <<command, result>>

Sign ==
  /\ At({"+", "-"})
  /\ adding' = (ms[pos + 1] = "+")
  /\ Advance /\ UNCHANGED chan

SimpleMode ==
  /\ At({"i", "t"})
  /\ chan' = IF adding THEN SetMode(chan, ms[pos + 1]) ELSE UnsetMode(chan, ms[pos + 1])
  /\ Advance /\ UNCHANGED adding

KeyMode ==
  /\ At({"k"})
  /\ adding => arg # NoArg
  /\ chan' = IF adding THEN SetMode(SetKey(chan, arg.key), "k") ELSE UnsetKey(chan)
  /\ Advance /\ UNCHANGED adding

LimitMode ==
  /\ At({"l"})
  /\ adding => arg # NoArg
  /\ chan' = IF adding THEN SetClientLimit(chan, arg.limit) ELSE UnsetClientLimit(chan)
  /\ Advance /\ UNCHANGED adding

OperatorMode ==
  /\ At({"o"})
  /\ \E t \in targets :
       chan' = IF adding THEN AddOperator(SetMode(chan, "o"), t)
               ELSE RemoveOperator(UnsetMode(chan, "o"), t)
  /\ Advance /\ UNCHANGED adding

\* An unknown character, a missing parameter or an unknown nickname.
Fail ==
  /\ \/ result = "running" /\ pos < Len(ms) /\ ms[pos + 1] \notin Flags \cup {"+", "-"}
     \/ At({"k", "l"}) /\ adding /\ arg = NoArg
     \/ At({"o"}) /\ targets = {}
  /\ result' = "error"
  /\ UNCHANGED <<command, chan, pos, adding>>

\* The mode change is sent to every member of the channel.
Announce ==
  /\ result = "running" /\ pos = Len(ms)
  /\ result' = "told"
  /\ UNCHANGED <<command, chan, pos, adding>>

Next ==
  Sign \/ SimpleMode \/ KeyMode \/ LimitMode \/ OperatorMode \/ Fail \/ Announce

Spec == Init /\ [][Next]_vars

-----------------------------------------------------------------------------
TypeOK ==
  /\ chan \in Channel /\ before \in Channel
  /\ pos \in 0 .. Len(ms) /\ adding \in BOOLEAN
  /\ result \in {"running", "error", "told"}

\* After every character the channel is what ApplyModes says of the characters
\* processed so far, so the whole loop is ApplyModes of the whole string, stopped
\* where the closed form says it stops (handleMode).
LoopIsApplyModes ==
  /\ chan = ApplyModes(before, SubSeq(ms, 1, pos), arg, targets)
  /\ result # "running" => chan = ApplyModes(before, ms, arg, targets)
  /\ 1 .. pos \subseteq Reached(ms, arg, targets)
  /\ result # "running" => Reached(ms, arg, targets) = 1 .. pos
  /\ result = "told" <=> result # "running" /\ Reached(ms, arg, targets) = DOMAIN ms

\* _clientLimit and the 'l' of _modes, which setClientLimit and unsetClientLimit
\* keep in two places, agree after every character on whether there is a limit.
LimitMarkAgrees == "l" \in chan.modes <=> chan.clientLimit > 0
=============================================================================
