------------------------------ MODULE IrcServer ------------------------------
(***************************************************************************)
(* The state the Server object keeps about its clients and channels, and   *)
(* one action per command handler, connection and disconnection            *)
(* (Server.class.cpp, Server.class.commands.cpp).                          *)
(*                                                                         *)
(* The server is one thread and a handler runs to its end before the next  *)
(* line is read, so a handler is one action. A handler that refuses its    *)
(* command changes nothing and answers its sender alone with a numeric:    *)
(* such a refusal is a step that leaves every variable unchanged, and the  *)
(* guards of an action are the conditions of the early returns.            *)
(*                                                                         *)
(* A Client is named by its heap address, as in the vectors of pointers    *)
(* the code keeps: the address of a deleted Client may be given to the     *)
(* next one, and pointers to it that were not erased then name the         *)
(* newcomer.                                                               *)
(***************************************************************************)
EXTENDS ChannelModes

CONSTANTS
  ChanName,     \* the channel names, each starting with '#'
  ModeString,   \* the mode strings clients send, sequences of characters
  TopicWord,    \* the topics clients send
  JoinKey,      \* the keys clients send with JOIN
  Text,         \* the texts of PRIVMSG
  None          \* the field a packet does not use

ASSUME InputsAssumption ==
  /\ ModeString \subseteq Seq(STRING) \ {<<>>}
  /\ TopicWord \subseteq Topic \cup {BadTopic}
  /\ JoinKey \subseteq KeyWord
  /\ None \notin ChanName

VARIABLES
  clients,   \* _clients: the addresses of the live Client objects
  client,    \* the Client object at each address
  channels,  \* _channels: the names of the live Channel objects
  channel,   \* the Channel object of each name
  out        \* the messages the last handler sent to clients, numerics apart

vars == <<clients, client, channels, channel, out>>

-----------------------------------------------------------------------------
(* The Client object, and what is sent. *)

Client ==
  [nick: Nick \cup {NoNick}, sentPassword: BOOLEAN, sentNickname: BOOLEAN,
   sentUsername: BOOLEAN, registered: BOOLEAN, channels: SUBSET ChanName]

NewClient ==
  [nick |-> NoNick, sentPassword |-> FALSE, sentNickname |-> FALSE,
   sentUsername |-> FALSE, registered |-> FALSE, channels |-> {}]

\* The message `type`, about nickname `nick` and channel `chan`, sent to every
\* address of S.
Send(S, type, nick, chan, arg) ==
  {[to |-> a, type |-> type, nick |-> nick, chan |-> chan, arg |-> arg] : a \in S}

\* Mutant: USER is not waited for.
ReadyWithoutUser(c) == ~c.registered /\ c.sentPassword /\ c.sentNickname

ReadyToRegister(c) ==
  ~c.registered /\ c.sentPassword /\ c.sentNickname /\ c.sentUsername

\* setRegistered, when the handshake is complete.
RegisterIfReady(c) == IF ReadyToRegister(c) THEN [c EXCEPT !.registered = TRUE] ELSE c

JoinChannel(c, ch) == [c EXCEPT !.channels = @ \cup {ch}]

\* Mutant: the client's own list keeps the channel.
LeaveChannelNot(c, ch) == c

LeaveChannel(c, ch) == [c EXCEPT !.channels = @ \ {ch}]

IsInChannel(a, ch) == ch \in client[a].channels

Registered(a) == a \in clients /\ client[a].registered

\* Mutant: only registered clients hold on to their nicknames.
NickIsUniqueAmongRegistered(a, n) ==
  \A b \in clients \ {a} : client[b].registered => client[b].nick # n

\* nickIsUnique: no other client of _clients has the nickname.
NickIsUnique(a, n) == \A b \in clients \ {a} : client[b].nick # n

\* Mutant: any member passes for an operator.
IsAnyMember(a, ch) == IsInChannel(a, ch)

IsOperator(a, ch) == a \in channel[ch].operators

\* The members of ch with nickname n: what the lookup loops of handleKick and
\* handleMode search.
MembersNamed(ch, n) == {b \in channel[ch].clients : client[b].nick = n}

\* The three checks every channel command starts with.
MayAct(a, ch) == Registered(a) /\ ch \in channels /\ IsInChannel(a, ch)

-----------------------------------------------------------------------------
(* Connection and disconnection. *)

\* acceptNewClient: the allocator returns some address that is not in use.
AcceptNewClient(a) ==
  /\ a \notin clients
  /\ clients' = clients \cup {a}
  /\ client' = [client EXCEPT ![a] = NewClient]
  /\ out' = {}
  /\ UNCHANGED <<channels, channel>>

\* Mutant: the loop runs over _channels itself while leaveChannel shortens it.
VisitedSkipping(a) ==
  IF Cardinality(client[a].channels) < 2 THEN client[a].channels
  ELSE client[a].channels \ {CHOOSE ch \in client[a].channels : TRUE}

\* The channels disconnectClient visits: a copy of the client's own list.
Visited(a) == client[a].channels

\* Mutant: isEmpty is asked before the client leaves.
EmptiedBefore(a) == {ch \in Visited(a) : channel[ch].clients = {}}

\* Those it leaves empty.
Emptied(a) == {ch \in Visited(a) : channel[ch].clients \ {a} = {}}

\* disconnectClient: the client leaves each channel it visits, the channel is
\* deleted when that empties it and is told of the QUIT otherwise, and the Client
\* object is deleted. _operators and _invitedClients are not touched.
DisconnectClient(a) ==
  /\ clients' = clients \ {a}
  /\ client' = [client EXCEPT ![a] = NewClient]
  /\ channels' = channels \ Emptied(a)
  /\ channel' = [ch \in ChanName |->
                   IF ch \in Emptied(a) THEN NewChannel
                   ELSE IF ch \in Visited(a) THEN RemoveClient(channel[ch], a)
                   ELSE channel[ch]]
  /\ out' = UNION {Send(channel[ch].clients \ {a}, "QUIT", client[a].nick, None, None) :
                     ch \in Visited(a)}

\* recv returned 0 for the client's socket.
PeerClosed(a) == a \in clients /\ DisconnectClient(a)

-----------------------------------------------------------------------------
(* Registration: PASS, NICK, USER. *)

HandlePass(a, ok) ==
  /\ a \in clients
  /\ ~client[a].sentPassword
  /\ \/ /\ ok
        /\ client' = [client EXCEPT ![a].sentPassword = TRUE]
        /\ out' = {}
        /\ UNCHANGED <<clients, channels, channel>>
     \/ ~ok /\ DisconnectClient(a)

\* A NICK before PASS disconnects. A registered client's new nickname is told to
\* every member of every channel it is in.
HandleNick(a, n) ==
  /\ a \in clients
  /\ \/ ~client[a].sentPassword /\ DisconnectClient(a)
     \/ /\ client[a].sentPassword
        /\ NickIsUnique(a, n)
        /\ client' = [client EXCEPT
                        ![a] = RegisterIfReady([@ EXCEPT !.nick = n, !.sentNickname = TRUE])]
        /\ out' = IF client[a].registered
                  THEN UNION {Send(channel[ch].clients, "NICK", client[a].nick, None, n) :
                                ch \in client[a].channels}
                  ELSE {}
        /\ UNCHANGED <<clients, channels, channel>>

\* A USER before PASS disconnects; a second USER is refused.
HandleUser(a) ==
  /\ a \in clients
  /\ \/ ~client[a].sentPassword /\ DisconnectClient(a)
     \/ /\ client[a].sentPassword
        /\ ~client[a].sentUsername
        /\ client' = [client EXCEPT ![a] = RegisterIfReady([@ EXCEPT !.sentUsername = TRUE])]
        /\ out' = {}
        /\ UNCHANGED <<clients, channels, channel>>

-----------------------------------------------------------------------------
(* Channel membership: JOIN, PART, KICK, INVITE. *)

\* createChannel: setKey gives the channel the key of its first JOIN and the
\* creator becomes its operator.
CreateChannel(a, k) == AddOperator(AddClient(SetKey(NewChannel, k), a), a)

\* The conditions under which handleJoin lets a client into an existing channel.
Admits(ch, a, k) ==
  /\ ~IsInChannel(a, ch)
  /\ channel[ch].key = NoKey \/ channel[ch].key = k
  /\ ~IsFull(channel[ch])
  /\ "i" \in channel[ch].modes => a \in channel[ch].invited

\* The JOIN is told to every member, the newcomer included, and the newcomer is
\* sent the members' nicknames (one NAMES packet for each).
HandleJoin(a, ch, k) ==
  /\ Registered(a)
  /\ ch \in channels => Admits(ch, a, k)
  /\ LET joined == IF ch \in channels THEN AddClient(channel[ch], a) ELSE CreateChannel(a, k)
     IN /\ channel' = [channel EXCEPT ![ch] = joined]
        /\ out' = Send(joined.clients, "JOIN", client[a].nick, ch, None)
                  \cup UNION {Send({a}, "NAMES", client[b].nick, ch, None) : b \in joined.clients}
  /\ channels' = channels \cup {ch}
  /\ client' = [client EXCEPT ![a] = JoinChannel(@, ch)]
  /\ UNCHANGED clients

\* The PART is told to every member, then the client leaves; a channel left
\* empty is deleted.
HandlePart(a, ch) ==
  /\ MayAct(a, ch)
  /\ out' = Send(channel[ch].clients, "PART", client[a].nick, ch, None)
  /\ client' = [client EXCEPT ![a] = LeaveChannel(@, ch)]
  /\ LET left == RemoveClient(channel[ch], a)
     IN IF left.clients = {}
        THEN /\ channels' = channels \ {ch}
             /\ channel' = [channel EXCEPT ![ch] = NewChannel]
        ELSE /\ channel' = [channel EXCEPT ![ch] = left]
             /\ UNCHANGED channels
  /\ UNCHANGED clients

\* Mutant: the invitation outlives the KICK.
KickedOutStillInvited(chan, t) == RemoveClient(chan, t)

\* What KICK leaves of the channel: the target is no member and not invited.
KickedOut(chan, t) == RemoveInvitation(RemoveClient(chan, t), t)

\* The KICK is told to every member, then the target leaves. _operators is not
\* touched, and a channel left empty is not deleted.
HandleKick(a, ch, n) ==
  /\ MayAct(a, ch)
  /\ IsOperator(a, ch)
  /\ \E t \in MembersNamed(ch, n) :
       /\ out' = Send(channel[ch].clients, "KICK", client[a].nick, ch, n)
       /\ channel' = [channel EXCEPT ![ch] = KickedOut(@, t)]
       /\ client' = [client EXCEPT ![t] = LeaveChannel(@, ch)]
  /\ UNCHANGED <<clients, channels>>

\* Any member may invite unless the channel is invite-only. The target is looked
\* up among all clients, registered or not.
HandleInvite(a, n, ch) ==
  /\ MayAct(a, ch)
  /\ "i" \in channel[ch].modes => IsOperator(a, ch)
  /\ \E t \in clients :
       /\ client[t].nick = n
       /\ ~IsInChannel(t, ch)
       /\ channel' = [channel EXCEPT ![ch] = InviteClient(@, t)]
       /\ out' = Send(channel[ch].clients, "INVITING", client[a].nick, ch, n)
                 \cup Send({t}, "INVITE", client[a].nick, ch, n)
  /\ UNCHANGED <<clients, client, channels>>

-----------------------------------------------------------------------------
(* Channel state: TOPIC, MODE. Messages: PRIVMSG. *)

\* The topic of the command is told to the members whether or not setTopic
\* took it.
HandleTopic(a, ch, t) ==
  /\ MayAct(a, ch)
  /\ "t" \in channel[ch].modes => IsOperator(a, ch)
  /\ channel' = [channel EXCEPT ![ch] = SetTopic(@, t)]
  /\ out' = Send(channel[ch].clients, "TOPIC", client[a].nick, ch, t)
  /\ UNCHANGED <<clients, client, channels>>

\* The flags reached before the first error are applied; the members are told
\* only when there was no error.
HandleMode(a, ch, ms, arg) ==
  /\ MayAct(a, ch)
  /\ IsOperator(a, ch)
  /\ LET targets == IF arg = NoArg THEN {} ELSE MembersNamed(ch, arg.nick)
     IN /\ channel' = [channel EXCEPT ![ch] = ApplyModes(@, ms, arg, targets)]
        /\ out' = IF Reached(ms, arg, targets) = DOMAIN ms
                  THEN Send(channel[ch].clients, "MODE", client[a].nick, ch, None)
                  ELSE {}
  /\ UNCHANGED <<clients, client, channels>>

\* The sender is skipped by comparing nicknames.
SendMessageToChannel(a, ch, text) ==
  /\ MayAct(a, ch)
  /\ out' = Send({b \in channel[ch].clients : client[b].nick # client[a].nick},
                 "PRIVMSG", client[a].nick, ch, text)
  /\ UNCHANGED <<clients, client, channels, channel>>

SendMessageToUser(a, n, text) ==
  /\ Registered(a)
  /\ \E t \in clients :
       /\ client[t].nick = n
       /\ out' = Send({t}, "PRIVMSG", client[a].nick, None, text)
  /\ UNCHANGED <<clients, client, channels, channel>>

-----------------------------------------------------------------------------
Init ==
  /\ clients = {} /\ client = [a \in Addr |-> NewClient]
  /\ channels = {} /\ channel = [ch \in ChanName |-> NewChannel]
  /\ out = {}

Connection(a) ==
  \/ AcceptNewClient(a)
  \/ PeerClosed(a)
  \/ \E ok \in BOOLEAN : HandlePass(a, ok)
  \/ \E n \in Nick : HandleNick(a, n)
  \/ HandleUser(a)

ChannelCommand(a, ch) ==
  \/ \E k \in JoinKey : HandleJoin(a, ch, k)
  \/ HandlePart(a, ch)
  \/ \E n \in Nick : HandleKick(a, ch, n)
  \/ \E n \in Nick : HandleInvite(a, n, ch)
  \/ \E t \in TopicWord : HandleTopic(a, ch, t)
  \/ \E ms \in ModeString, arg \in ModeArg \cup {NoArg} : HandleMode(a, ch, ms, arg)
  \/ \E text \in Text : SendMessageToChannel(a, ch, text)

Next ==
  \E a \in Addr :
    \/ Connection(a)
    \/ \E ch \in ChanName : ChannelCommand(a, ch)
    \/ \E n \in Nick, text \in Text : SendMessageToUser(a, n, text)

Spec == Init /\ [][Next]_vars

-----------------------------------------------------------------------------
(* Invariants. *)

TypeOK ==
  /\ clients \subseteq Addr
  /\ client \in [Addr -> Client]
  /\ channels \subseteq ChanName
  /\ channel \in [ChanName -> Channel]

\* The two records of membership agree: a client is in the _clients of a channel
\* exactly when the channel is in the client's _channels, and only live clients
\* and live channels are in either. No handler follows a pointer to a deleted
\* Client or Channel through them (Channel::broadcast, disconnectClient).
MembershipAgrees ==
  /\ \A a \in Addr, ch \in ChanName :
       a \in channel[ch].clients <=> ch \in client[a].channels
  /\ \A a \in Addr : client[a].channels # {} => a \in clients
  /\ \A ch \in ChanName : channel[ch].clients # {} => ch \in channels

\* A client is registered exactly when its PASS, NICK and USER have all been
\* accepted, whatever their order (registerClient), and only such a client is
\* ever a member of a channel.
RegisteredByHandshake ==
  \A a \in Addr :
    /\ client[a].registered <=>
         client[a].sentPassword /\ client[a].sentNickname /\ client[a].sentUsername
    /\ client[a].channels # {} => client[a].registered

\* No two clients hold the same nickname (handleNick), so the lookups by
\* nickname in KICK, INVITE, MODE and PRIVMSG have one answer.
NicknamesUnique ==
  \A a, b \in clients :
    a # b /\ client[a].nick = client[b].nick => client[a].nick = NoNick

\* A channel message reaches every other member and nobody else: of the members
\* exactly one, the sender, is skipped by the comparison of nicknames in
\* sendMessageToChannel.
OnlySenderIsSkipped ==
  \A p \in out :
    p.type = "PRIVMSG" /\ p.chan # None =>
      LET members == channel[p.chan].clients
          reached == {q.to : q \in out}
      IN reached \subseteq members /\ Cardinality(members \ reached) = 1

\* A live channel has a member: what handlePart and disconnectClient say they
\* maintain ("if is empty delete it from server").
NoEmptyChannel == \A ch \in channels : channel[ch].clients # {}

-----------------------------------------------------------------------------
(* Action properties. *)

Survives(ch) == ch \in channels /\ ch \in channels'

Settings(ch) ==
  <<channel[ch].modes, channel[ch].key, channel[ch].clientLimit, channel[ch].operators>>

\* A channel that has lost its last operator never gets one again, and its
\* modes, key and limit stay as they are as long as it lives (handleMode).
OrphanedChannelIsFrozen ==
  [][\A ch \in ChanName :
       Survives(ch) /\ channel[ch].operators = {} => Settings(ch)' = Settings(ch)]_vars

\* The one step that leaves a channel without members and alive is an operator
\* who is the last member kicking itself (handleKick).
EmptiedOnlyBySelfKick ==
  [][\A ch \in ChanName :
       Survives(ch) /\ channel[ch].clients # {} /\ channel'[ch].clients = {} =>
         \E p \in out' : p.type = "KICK" /\ p.chan = ch /\ p.arg = p.nick]_vars

\* No JOIN takes a channel past its limit, and a limit set below the number of
\* members keeps them and admits nobody, invited or not (isFull, handleJoin).
FullChannelAdmitsNobody ==
  [][\A ch \in ChanName :
       /\ Survives(ch) /\ channel[ch].clientLimit > 0
       /\ Cardinality(channel'[ch].clients) > channel[ch].clientLimit
       => Cardinality(channel'[ch].clients) <= Cardinality(channel[ch].clients)]_vars

\* Every change of a live channel's settings is told to its members
\* (handleMode: "Notify all clients in the channel").
SettingsChangesAreTold ==
  [][\A ch \in ChanName :
       Survives(ch) /\ Settings(ch)' # Settings(ch) =>
         \A a \in channel[ch].clients : \E p \in out' : p.to = a /\ p.chan = ch]_vars
=============================================================================
