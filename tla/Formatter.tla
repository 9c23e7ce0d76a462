----------------------------- MODULE Formatter -----------------------------
(***************************************************************************)
(* IrcMessageFormatter (IrcFormatter.class.cpp), for the messages that     *)
(* carry what clients wrote.  A message is a sequence of characters; a     *)
(* word the server puts in, such as a command, a number of IrcCodes.hpp or *)
(* a fixed text, is one character here.                                    *)
(***************************************************************************)
EXTENDS Integers, Sequences

CONSTANT MaxMessageLength   \* MAX_MESSAGE_LENGTH, 510 in the code

ASSUME FormatterAssumption == MaxMessageLength \in Nat

ServerName == <<"server">>
Sp == <<" ">>
Colon == <<":">>
CRLF == <<"CR", "LF">>

FormatMessage(message) ==
  IF Len(message) > MaxMessageLength
  THEN SubSeq(message, 1, MaxMessageLength) \o CRLF
  ELSE message \o CRLF

-----------------------------------------------------------------------------
(* What is put together before formatMessage. *)

\* Mutant: a text of one word needs no ':'.
SendMsgPlain(sender, target, text) ==
  Colon \o sender \o Sp \o <<"PRIVMSG">> \o Sp \o target \o Sp \o text

SendMsg(sender, target, text) ==
  Colon \o sender \o Sp \o <<"PRIVMSG">> \o Sp \o target \o Sp \o Colon \o text

TopicChange(nick, channel, topic) ==
  Colon \o nick \o Sp \o <<"TOPIC">> \o Sp \o channel \o Sp \o Colon \o topic

TopicReply(nick, channel, topic) ==
  Colon \o ServerName \o Sp \o <<"332">> \o Sp \o nick \o Sp \o channel \o Sp \o Colon
    \o topic

NoTopicReply(nick, channel) ==
  Colon \o ServerName \o Sp \o <<"331">> \o Sp \o nick \o Sp \o channel \o Sp \o Colon
    \o <<"No topic is set">>

Kick(nick, channel, target, comment) ==
  Colon \o nick \o Sp \o <<"KICK">> \o Sp \o channel \o Sp \o target \o Sp \o Colon
    \o comment

Pong(message) == <<"PONG">> \o Sp \o Colon \o message

NamesReply(nick, channel, nickList) ==
  Colon \o ServerName \o Sp \o <<"353">> \o Sp \o nick \o Sp \o <<"=">> \o Sp \o channel
    \o Sp \o Colon \o nickList

NoSuchNick(requester, target) ==
  Colon \o ServerName \o Sp \o <<"401">> \o Sp \o requester \o Sp \o target \o Sp
    \o Colon \o <<"No such nick/channel">>

NeedMoreParams(command) ==
  Colon \o ServerName \o Sp \o <<"461">> \o Sp \o command \o Sp \o Colon
    \o <<"Not enough parameters">>

UnknownCommand(command) ==
  Colon \o ServerName \o Sp \o <<"421">> \o Sp \o command \o Sp \o Colon
    \o <<"Unknown command">>

GenericError(code, details) ==
  Colon \o ServerName \o Sp \o code \o Sp \o details
=============================================================================
