-------------------------------- MODULE Relay --------------------------------
(***************************************************************************)
(* A line on its way through the server: split (Split), the handler of its *)
(* command (Server.class.commands.cpp, Bot.class.cpp), and the message     *)
(* formatMessage makes of it (Formatter) for those who read it.            *)
(*                                                                         *)
(* The sender is registered, an operator of the channel it names, and the  *)
(* target it names is there: who is allowed what is in IrcServer.          *)
(***************************************************************************)
EXTENDS Split, Formatter

CONSTANTS
  Char,            \* what the rest of a line is made of, " " and ":" among it
  MaxLen,          \* bound on its length
  MaxLong,         \* bound on the length of a long text
  MaxTopicLength   \* 512 in setTopic

Sender == <<"s">>

Texts == {"PRIVMSG", "TOPIC", "KICK", "PING"}   \* the commands with a text
Moves == <<"rock", "paper", "scissors">>

\* A character is no word, and what the server writes before a list of nicknames
\* fits.
ASSUME RelayAssumption ==
  /\ {" ", ":", "a"} \subseteq Char /\ MaxLen \in Nat /\ MaxLong \in Nat
  /\ Char \cap (Texts \cup {"JOIN", "TIME", "RPS"}) = {}
  /\ MaxTopicLength \in Nat /\ 16 <= MaxMessageLength

\* The lines: any text behind a command, long texts, and one line each of the
\* commands whose answer has other sources.
Tails == UNION {[1 .. n -> Char] : n \in 0 .. MaxLen}
LongTails == {<<" ", "a", " ", ":">> \o [k \in 1 .. n |-> "a"] : n \in 0 .. MaxLong}
TextLines == UNION {{<<c>> \o t : t \in Tails \cup LongTails} : c \in Texts}
Lines ==
  TextLines \cup Tails \cup {<<"JOIN", " ", "a">>, <<"TIME">>, <<"RPS">>}
  \cup {<<"RPS", " ", m>> : m \in ToSet(Moves) \cup {"ROCK", "a"}}

\* The channel a client joins: the nicknames of its members, which the client
\* is the last of, and which of them are operators.
Nicks == <<<<"b">>, <<"b", "b">>, <<"c">>, <<"c", "b">>>>

VARIABLES
  members,   \* the nicknames of the channel's members
  ops,       \* which of them are operators
  topic,     \* _topic, <<>> while _hasTopic is false
  former,    \* history: the topic before the line
  out,       \* the message that went out last
  told       \* history: the one before it

vars == <<line, pos, args, at, members, ops, topic, former, out, told>>

-----------------------------------------------------------------------------
(* What the handlers make of the words. *)

Command == args[1]

\* A leading ':' is removed.
Unprefixed(text) == IF text # <<>> /\ Head(text) = ":" THEN Tail(text) ELSE text

\* handleTopic puts the words from the third on together again.
Rejoined(words) ==
  words[3] \o FlattenSeq([k \in 1 .. Len(words) - 3 |-> Sp \o words[k + 3]])

\* Mutant: an empty topic clears the one before.
SetTopicClearing(new) == IF Len(new) > MaxTopicLength THEN topic ELSE new

\* An empty topic and one that is too long are refused.
SetTopic(new) == IF new = <<>> \/ Len(new) > MaxTopicLength THEN topic ELSE new

\* Mutant: the mark of an operator stands behind the name.
NickMarkedBehind(k) == members[k] \o (IF k \in ops THEN <<"@">> ELSE <<>>)

NickMarked(k) == (IF k \in ops THEN <<"@">> ELSE <<>>) \o members[k]

NickList == FlattenSeq([k \in DOMAIN members |-> NickMarked(k) \o Sp])

\* The player's move, when it is one.
Lower(move) == IF move = <<"ROCK">> THEN <<"rock">> ELSE move
Played == {m \in ToSet(Moves) : Lower(args[2]) = <<m>>}

\* Mutant: scissors lose to paper.
ResultSwapped(player, bot) ==
  IF player = bot THEN "It's a tie!"
  ELSE IF <<player, bot>> \in {<<"rock", "scissors">>, <<"paper", "rock">>,
                              <<"paper", "scissors">>}
  THEN "You win!" ELSE "Bot wins!"

Result(player, bot) ==
  IF player = bot THEN "It's a tie!"
  ELSE IF <<player, bot>> \in {<<"rock", "scissors">>, <<"paper", "rock">>,
                              <<"scissors", "paper">>}
  THEN "You win!" ELSE "Bot wins!"

-----------------------------------------------------------------------------
(* The handlers. *)

Says(message, next) ==
  /\ out' = FormatMessage(message) /\ told' = out
  /\ at' = next
  /\ UNCHANGED <<line, pos, args, members, ops, former>>

Handling(c) == at = "returned" /\ args # <<>> /\ Command = <<c>>

Refuse ==
  /\ \/ Handling("PRIVMSG") /\ Len(args) # 3
     \/ Handling("TOPIC") /\ Len(args) < 2
     \/ Handling("KICK") /\ Len(args) < 3
  /\ Says(NeedMoreParams(Command), "refused") /\ UNCHANGED topic

HandlePrivmsg ==
  /\ Handling("PRIVMSG") /\ Len(args) = 3
  /\ Says(SendMsg(Sender, args[2], Unprefixed(args[3])), "said")
  /\ UNCHANGED topic

\* The members are told what setTopic was asked to store.
HandleTopic ==
  /\ Handling("TOPIC") /\ Len(args) >= 3
  /\ LET new == Unprefixed(Rejoined(args))
     IN topic' = SetTopic(new) /\ Says(TopicChange(Sender, args[2], new), "said")

\* A member asks for the topic, at once or after it was told.
HandleTopicQuery ==
  /\ \/ Handling("TOPIC") /\ Len(args) = 2
     \/ at = "said" /\ Command = <<"TOPIC">>
  /\ Says(IF topic = <<>> THEN NoTopicReply(Sender, args[2])
          ELSE TopicReply(Sender, args[2], topic), "asked")
  /\ UNCHANGED topic

\* No nickname has a ':' in it.
HandleKickOfNobody ==
  /\ Handling("KICK") /\ Len(args) >= 3 /\ Contains(args[3], ":")
  /\ Says(NoSuchNick(Sender, args[3]), "refused")
  /\ UNCHANGED topic

\* The reason counts only when it is the one parameter left, and keeps its ':'.
HandleKick ==
  /\ Handling("KICK") /\ Len(args) >= 3 /\ ~Contains(args[3], ":")
  /\ Says(Kick(Sender, args[2], args[3], IF Len(args) = 4 THEN args[4] ELSE <<>>), "said")
  /\ UNCHANGED topic

\* A PING with another number of parameters is not answered.
HandlePing ==
  /\ Handling("PING") /\ Len(args) = 2
  /\ Says(Pong(args[2]), "said")
  /\ UNCHANGED topic

\* What a client that joined is sent, after the JOIN.
HandleJoin ==
  /\ Handling("JOIN")
  /\ Says(NamesReply(Last(members), args[2], NickList), "said")
  /\ UNCHANGED topic

HandleBot ==
  /\ Handling("TIME")
  /\ Says(GenericError(<<"BOT">>, <<"Current time is: ">>), "said")
  /\ UNCHANGED topic

RockPaperScissorsRefused ==
  /\ Handling("RPS")
  /\ \/ Len(args) < 2 /\ Says(GenericError(<<"BOT">>, <<"Usage">>), "refused")
     \/ Len(args) >= 2 /\ Played = {}
        /\ Says(GenericError(<<"BOT">>, <<"Invalid move!">>), "refused")
  /\ UNCHANGED topic

\* The bot draws its move.
HandleRockPaperScissors ==
  /\ Handling("RPS") /\ Len(args) >= 2
  /\ \E player \in Played, bot \in ToSet(Moves) :
       Says(GenericError(<<"BOT">>, <<player, bot, Result(player, bot)>>), "said")
  /\ UNCHANGED topic

HandleUnknown ==
  /\ at = "returned" /\ args # <<>>
  /\ \A c \in Texts \cup {"JOIN", "TIME", "RPS"} : Command # <<c>>
  /\ Says(UnknownCommand(Command), "refused")
  /\ UNCHANGED topic

-----------------------------------------------------------------------------
Init ==
  /\ line \in Lines /\ pos = 0 /\ args = <<>> /\ at = "loop"
  /\ topic \in {<<>>, <<"o">>} /\ former = topic /\ out = <<>> /\ told = <<>>
  /\ \E n \in 1 .. IF Contains(line, "JOIN") THEN Len(Nicks) ELSE 1 :
       members = SubSeq(Nicks, 1, n) /\ ops \in SUBSET (1 .. n)

Splits == (NextWord \/ NoMoreWords) /\ UNCHANGED <<members, ops, topic, former, out, told>>

Next ==
  \/ Splits
  \/ Refuse \/ HandlePrivmsg \/ HandleTopic \/ HandleTopicQuery \/ HandleKickOfNobody
  \/ HandleKick \/ HandlePing \/ HandleJoin \/ HandleBot
  \/ RockPaperScissorsRefused \/ HandleRockPaperScissors \/ HandleUnknown

Spec == Init /\ [][Next]_vars

-----------------------------------------------------------------------------
(* What those who get a message read in it. *)

\* A message without the end of its line and the ':' of its sender.
Read(message) == Parameters(Unprefixed(SubSeq(message, 1, Len(message) - 2)))

\* The parameters p are those of q, or the first of them when the message that
\* had them was cut.
AreOrCutFrom(p, q, message) ==
  \/ p = q
  \/ /\ Len(message) = MaxMessageLength + 2 /\ Len(p) <= Len(q)
     /\ \A n \in DOMAIN p : IF n = Len(p) THEN IsPrefix(p[n], q[n]) ELSE p[n] = q[n]

\* The parameters of the message that the parameters ps of a line ask for.
Meant(ps) ==
  CASE ps[1] = <<"PRIVMSG">> -> <<Sender, ps[1], ps[2], Colon \o Unprefixed(ps[3])>>
    [] ps[1] = <<"TOPIC">>   -> <<Sender, ps[1], ps[2], Colon \o Unprefixed(Rejoined(ps))>>
    [] ps[1] = <<"KICK">>    -> <<Sender, ps[1], ps[2], ps[3],
                                  Colon \o IF Len(ps) = 4 THEN ps[4] ELSE <<>>>>
    [] ps[1] = <<"PING">>    -> <<<<"PONG">>, Colon \o ps[2]>>

\* A text comes out as it went in, with its spaces and colons, up to where the
\* message is cut, and nothing of it is read as another parameter (split,
\* handlePrivmsg, handleTopic, handleKick, handlePing, formatMessage). This is said
\* of well-formed lines; what ParametersAreKept says is all that is known of the
\* text of another. KICK and PING pass the ':' of their text on as part of it.
TextIsRelayed ==
  at = "said" /\ Command \in {<<c>> : c \in Texts} /\ IsWellFormed(line)
    => AreOrCutFrom(Read(out), Meant(Parameters(line)), out)

\* What those read who were told of a topic and then ask for it: the text they
\* were told, both cut where they do not fit, or, when setTopic refused that text
\* as empty or too long, the topic they had before, although they were told the
\* new one (handleTopic, setTopic, formatMessage).
OnlyRefusedTopicsDiffer ==
  at = "asked" /\ told # <<>> =>
    LET new == Unprefixed(Rejoined(args))
        kept == IF Len(new) \in 1 .. MaxTopicLength THEN new ELSE former
    IN /\ AreOrCutFrom(Read(told), <<Sender, <<"TOPIC">>, args[2], Colon \o new>>, told)
       /\ IF kept = <<>>
          THEN AreOrCutFrom(Read(out), <<ServerName, <<"331">>, Sender, args[2],
                                         Colon \o <<"No topic is set">>>>, out)
          ELSE AreOrCutFrom(Read(out), <<ServerName, <<"332">>, Sender, args[2],
                                         Colon \o kept>>, out)

\* A client that joins reads who is in the channel and who of them is an
\* operator; a list that is cut names the first of them, and of the last one
\* perhaps a part (handleJoin, namesReply).
NamesAreMembers ==
  at = "said" /\ Command = <<"JOIN">> =>
    AreOrCutFrom(Parameters(Unprefixed(Last(Read(out)))),
                 [k \in DOMAIN members |->
                    IF k \in ops THEN <<"@">> \o members[k] ELSE members[k]], out)

\* The bot plays by the rules: each move beats the one before it in the circle,
\* whoever plays it (handleRockPaperScissors).
BotPlaysFair ==
  at = "said" /\ Command = <<"RPS">> =>
    LET said == SubSeq(out, Len(out) - 4, Len(out) - 2)
        move(m) == SelectInSeq(Moves, LAMBDA c : c = m)
        ahead == (move(said[1]) - move(said[2])) % 3
    IN said[3] = <<"It's a tie!", "You win!", "Bot wins!">>[ahead + 1]
=============================================================================
