---------------------------- MODULE IrcPresence ----------------------------
(* IrcServer seen as Presence. *)
EXTENDS IrcServer

PresentUsers == {a \in Addr : client[a].registered}

NameOf == [a \in Addr |-> IF client[a].registered THEN client[a].nick ELSE NoNick]

MembersOf == [ch \in ChanName |-> channel[ch].clients]

P == INSTANCE Presence
  WITH User <- Addr, Name <- Nick, NoName <- NoNick, Room <- ChanName,
       present <- PresentUsers, name <- NameOf, members <- MembersOf

\* The server implements Presence: every handler is one step of a user arriving
\* (registerClient), being renamed (handleNick), entering (handleJoin) or leaving
\* (handlePart, handleKick) a channel or going for good (disconnectClient), or
\* none at all, in every order of the three registration commands.
ImplementsPresence == P!Spec
=============================================================================
