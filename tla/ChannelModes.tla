---------------------------- MODULE ChannelModes ----------------------------
(***************************************************************************)
(* The Channel object (Channel.class.cpp) as a record, its methods as      *)
(* operators on that record, and what one MODE command does to it          *)
(* (handleMode, Server.class.commands.cpp).                                *)
(*                                                                         *)
(* ApplyModes is a closed form of handleMode's loop over the characters of *)
(* the mode string: the last effective occurrence of a flag decides.       *)
(* Module ModeLoop runs the loop character by character and TLC compares   *)
(* the two.                                                                *)
(***************************************************************************)
EXTENDS Integers, FiniteSets, Sequences

CONSTANTS
  Addr,      \* the heap addresses a Client object can occupy
  Nick,      \* the nicknames nickIsValid accepts
  NoNick,    \* the empty _nickname of a client whose NICK was not accepted yet
  Key,       \* the channel keys setKey accepts (1 to 64 characters)
  NoKey,     \* the empty _key
  LongKey,   \* a key setKey refuses (more than 64 characters)
  Topic,     \* the topics setTopic accepts (1 to 512 characters)
  NoTopic,   \* _hasTopic is false
  BadTopic,  \* a topic setTopic refuses (empty, or more than 512 characters)
  ModeArg,   \* the readings of the fourth word of a MODE command
  NoArg      \* a MODE command of three words

KeyWord == Key \cup {NoKey, LongKey}

\* One word serves as key, as limit (std::atoi) and as nickname, whichever of
\* the flags k, l and o the mode string holds.
ASSUME ConstantsAssumption ==
  /\ NoNick \notin Nick
  /\ NoKey \notin Key /\ LongKey \notin Key /\ NoKey # LongKey
  /\ NoTopic \notin Topic /\ BadTopic \notin Topic /\ NoTopic # BadTopic
  /\ ModeArg \subseteq [key: KeyWord \ {NoKey}, limit: Int, nick: Nick \cup {NoNick}]
  /\ NoArg \notin ModeArg

-----------------------------------------------------------------------------
(* The Channel object. *)

Flags == {"i", "t", "k", "l", "o"}

Channel ==
  [clients: SUBSET Addr, modes: SUBSET Flags, key: Key \cup {NoKey},
   clientLimit: Int, operators: SUBSET Addr, invited: SUBSET Addr,
   topic: Topic \cup {NoTopic}]

NewChannel ==
  [clients |-> {}, modes |-> {}, key |-> NoKey, clientLimit |-> -1,
   operators |-> {}, invited |-> {}, topic |-> NoTopic]

\* Mutant: setKey without its length check.
SetKeyOfAnyLength(chan, k) == IF k # NoKey THEN [chan EXCEPT !.key = k] ELSE chan

\* setKey keeps the old key when it refuses the new one.
SetKey(chan, k) == IF k \in Key THEN [chan EXCEPT !.key = k] ELSE chan

\* Mutant: unsetKey forgets the key itself.
UnsetKeyMarkOnly(chan) == [chan EXCEPT !.modes = @ \ {"k"}]

UnsetKey(chan) == [chan EXCEPT !.key = NoKey, !.modes = @ \ {"k"}]

SetMode(chan, f) == [chan EXCEPT !.modes = @ \cup {f}]

UnsetMode(chan, f) == [chan EXCEPT !.modes = @ \ {f}]

\* Mutant: a limit of 0 leaves the mark of the last one.
SetClientLimitOnly(chan, n) ==
  IF n < 0 THEN chan
  ELSE [chan EXCEPT !.clientLimit = n, !.modes = IF n > 0 THEN @ \cup {"l"} ELSE @]

\* A limit of 0 is stored and counts as no limit; a negative one is refused.
SetClientLimit(chan, n) ==
  IF n < 0 THEN chan
  ELSE [chan EXCEPT !.clientLimit = n,
                    !.modes = IF n > 0 THEN @ \cup {"l"} ELSE @ \ {"l"}]

UnsetClientLimit(chan) ==
  [chan EXCEPT !.clientLimit = -1, !.modes = @ \ {"l"}]

\* Mutant: the first to enter a channel nobody is left in becomes its operator.
AddClientOrFounder(chan, a) ==
  [chan EXCEPT !.clients = @ \cup {a},
               !.operators = IF chan.clients = {} THEN @ \cup {a} ELSE @]

AddClient(chan, a) == [chan EXCEPT !.clients = @ \cup {a}]

RemoveClient(chan, a) == [chan EXCEPT !.clients = @ \ {a}]

AddOperator(chan, a) == [chan EXCEPT !.operators = @ \cup {a}]

RemoveOperator(chan, a) == [chan EXCEPT !.operators = @ \ {a}]

InviteClient(chan, a) == [chan EXCEPT !.invited = @ \cup {a}]

RemoveInvitation(chan, a) == [chan EXCEPT !.invited = @ \ {a}]

SetTopic(chan, t) == IF t \in Topic THEN [chan EXCEPT !.topic = t] ELSE chan

\* Mutant: one client too many.
IsFullPastLimit(chan) ==
  chan.clientLimit > 0 /\ Cardinality(chan.clients) > chan.clientLimit

IsFull(chan) ==
  chan.clientLimit > 0 /\ Cardinality(chan.clients) >= chan.clientLimit

-----------------------------------------------------------------------------
(* The loop of handleMode over the characters of the mode string. *)

\* The sign in force at character p: '+' until a '-' is met, and back.
Adding(ms, p) ==
  ~ \E q \in 1 .. p - 1 : ms[q] = "-" /\ \A r \in q + 1 .. p - 1 : ms[r] # "+"

\* Character p makes handleMode answer with an error and return.
ModeFails(ms, p, arg, targets) ==
  \/ ms[p] \notin Flags \cup {"+", "-"}
  \/ ms[p] \in {"k", "l"} /\ Adding(ms, p) /\ arg = NoArg
  \/ ms[p] = "o" /\ (arg = NoArg \/ targets = {})

\* The characters handleMode processes before it returns.
Reached(ms, arg, targets) ==
  {p \in DOMAIN ms : \A q \in 1 .. p : ~ModeFails(ms, q, arg, targets)}

LastAdds(ms, P) == \E p \in P : Adding(ms, p) /\ \A q \in P : q <= p

\* The channel after the loop; targets is the member whose nickname is arg.nick.
ApplyModes(chan, ms, arg, targets) ==
  LET At(f) == {p \in Reached(ms, arg, targets) : ms[p] = f}
      KeySet == {p \in At("k") : Adding(ms, p) => arg.key \in Key}
      LimSet == {p \in At("l") : Adding(ms, p) => arg.limit >= 0}
      Marks(f) ==
        IF f = "l" THEN LastAdds(ms, LimSet) /\ arg.limit > 0 ELSE LastAdds(ms, At(f))
      Silent(f) == IF f = "l" THEN LimSet = {} ELSE At(f) = {}
  IN [chan EXCEPT
        !.modes = {f \in Flags : IF Silent(f) THEN f \in chan.modes ELSE Marks(f)},
        !.key = IF KeySet = {} THEN @
                ELSE IF LastAdds(ms, KeySet) THEN arg.key ELSE NoKey,
        !.clientLimit = IF LimSet = {} THEN @
                        ELSE IF LastAdds(ms, LimSet) THEN arg.limit ELSE -1,
        !.operators = IF At("o") = {} THEN @
                      ELSE IF LastAdds(ms, At("o")) THEN @ \cup targets ELSE @ \ targets]
=============================================================================
