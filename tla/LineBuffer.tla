----------------------------- MODULE LineBuffer -----------------------------
(***************************************************************************)
(* The bytes of a connection: how receiveNewData puts chunks together,     *)
(* takes lines out again, and which handler a line goes to (handleCommand, *)
(* setupCommandHandlers in Server.class.cpp).                              *)
(*                                                                         *)
(* The text of a word is one byte here, so a word is a sequence of texts:  *)
(* <<"PASS">> is the command PASS, and <<"PASS", "QUIT">> the unknown      *)
(* command "PASSQUIT", which a chunk may cut in two.                       *)
(***************************************************************************)
EXTENDS Integers, Sequences, SequencesExt

CONSTANT Text   \* the texts words are made of

ASSUME TextAssumption == Text \subseteq STRING

Byte == Text \cup {"LF", "CR", "NUL"}

-----------------------------------------------------------------------------
\* The bytes before the first b, all of them when there is none.
Before(bytes, b) ==
  IF Contains(bytes, b)
  THEN SubSeq(bytes, 1, SelectInSeq(bytes, LAMBDA c : c = b) - 1)
  ELSE bytes

\* Appending a char array to a std::string stops at its first NUL.
CString(chunk) == Before(chunk, "NUL")

\* Mutant: a chunk replaces what was left of the last one.
AppendedOnly(buffer, chunk) == CString(chunk)

Appended(buffer, chunk) == buffer \o CString(chunk)

\* One trailing carriage return is stripped.
Stripped(line) == IF line # <<>> /\ Last(line) = "CR" THEN Front(line) ELSE line

FirstLine(bytes) == Stripped(Before(bytes, "LF"))

AfterLine(bytes) == SubSeq(bytes, Len(Before(bytes, "LF")) + 2, Len(bytes))

\* The first word of a line, as split finds it: the other carriage returns are
\* white space.
Word(line) ==
  LET start == SelectInSeq(line, LAMBDA b : b # "CR")
  IN IF start = 0 THEN <<>> ELSE Before(SubSeq(line, start, Len(line)), "CR")

-----------------------------------------------------------------------------
(* The dispatch table. *)

CommandHandlers ==
  {"NICK", "PASS", "USER", "KICK", "INVITE", "TOPIC", "MODE", "PRIVMSG", "JOIN",
   "PART", "PING", "PONG", "PRINTCHANNELS", "TIME", "RPS"}

\* The handlers that may call disconnectClient.
Droppers == {"NICK", "PASS", "USER"}

\* A line without a word is ignored and an unknown command answered; neither
\* touches the client.
MayDrop(line) == Word(line) \in {<<c>> : c \in CommandHandlers \cap Droppers}

-----------------------------------------------------------------------------
\* What the lines of a stream are, whatever the chunks: what stands between one
\* "LF" and the next.
Begins(bytes, j, k) ==
  /\ j = 1 \/ bytes[j - 1] = "LF"
  /\ \A i \in j .. k - 1 : bytes[i] # "LF"

LineUpTo(bytes, k) ==
  Stripped(SubSeq(bytes, CHOOSE j \in 1 .. k : Begins(bytes, j, k), k - 1))

LinesOf(bytes) ==
  FlattenSeq([k \in DOMAIN bytes |->
                IF bytes[k] = "LF" THEN <<LineUpTo(bytes, k)>> ELSE <<>>])

\* s is t without some of its bytes: the bytes of s stand in t in their order.
IsThinned(s, t) ==
  \E f \in [DOMAIN s -> DOMAIN t] :
    /\ \A k \in DOMAIN s : s[k] = t[f[k]]
    /\ \A k, m \in DOMAIN s : k < m => f[k] < f[m]
=============================================================================
