--------------------------- MODULE IrcServerProofs ---------------------------
(***************************************************************************)
(* Proofs about IrcServer, for every set of addresses, nicknames, channels *)
(* and inputs: the state is well typed, the inductive invariant on         *)
(* membership, registration and nicknames holds of every reachable state,  *)
(* and what no step does: empty a channel that lives on, other than by a   *)
(* self-kick, change the settings of a channel that has no operator, and   *)
(* admit anybody to a full one; and whom a message reaches.                *)
(***************************************************************************)
EXTENDS IrcServer, FiniteSetTheorems, TLAPS

-----------------------------------------------------------------------------
(* The methods of Channel return a Channel. *)

\* A channel that was just created is a channel.
LEMMA NewChannelType == NewChannel \in Channel
BY DEF NewChannel, Channel, Flags

\* A client that was just accepted is a client.
LEMMA NewClientType == NewClient \in Client
BY DEF NewClient, Client

\* A key and a topic are stored only when setKey and setTopic accept them.
LEMMA SetterTypes ==
  ASSUME NEW chan \in Channel
  PROVE  /\ \A k : SetKey(chan, k) \in Channel
         /\ \A t : SetTopic(chan, t) \in Channel
BY DEF SetKey, SetTopic, Channel

\* Adding and removing a client, an operator or an invitation.
LEMMA MemberTypes ==
  ASSUME NEW chan \in Channel, NEW a \in Addr
  PROVE  /\ AddClient(chan, a) \in Channel /\ RemoveClient(chan, a) \in Channel
         /\ AddOperator(chan, a) \in Channel /\ InviteClient(chan, a) \in Channel
         /\ KickedOut(chan, a) \in Channel
BY DEF AddClient, RemoveClient, AddOperator, InviteClient, RemoveInvitation, KickedOut, Channel

\* The loop of handleMode stores a key setKey accepts and an integer limit,
\* whatever the string and its parameter.
LEMMA ApplyModesType ==
  ASSUME NEW chan \in Channel, NEW ms \in ModeString, NEW arg \in ModeArg \cup {NoArg},
         NEW targets \in SUBSET Addr
  PROVE  ApplyModes(chan, ms, arg, targets) \in Channel
<1> DEFINE At(f) == {p \in Reached(ms, arg, targets) : ms[p] = f}
           KeySet == {p \in At("k") : Adding(ms, p) => arg.key \in Key}
           LimSet == {p \in At("l") : Adding(ms, p) => arg.limit >= 0}
<1>1. LastAdds(ms, KeySet) => arg.key \in Key
  BY DEF LastAdds
<1>2. LastAdds(ms, LimSet) => arg.limit \in Int
  <2> SUFFICES ASSUME NEW p \in LimSet, Adding(ms, p) PROVE arg.limit \in Int
    BY DEF LastAdds
  <2>1. p \in Reached(ms, arg, targets) /\ ms[p] = "l"
    OBVIOUS
  <2>2. arg # NoArg
    <3>1. p \in DOMAIN ms /\ \A q \in 1 .. p : ~ModeFails(ms, q, arg, targets)
      BY <2>1 DEF Reached
    <3>2. p \in 1 .. p
      BY <3>1, InputsAssumption
    <3> QED BY <2>1, <3>1, <3>2 DEF ModeFails
  <2> QED BY <2>2, ConstantsAssumption
<1> DEFINE Marks(f) ==
             IF f = "l" THEN LastAdds(ms, LimSet) /\ arg.limit > 0 ELSE LastAdds(ms, At(f))
           Silent(f) == IF f = "l" THEN LimSet = {} ELSE At(f) = {}
           modes == {f \in Flags : IF Silent(f) THEN f \in chan.modes ELSE Marks(f)}
           key == IF KeySet = {} THEN chan.key
                  ELSE IF LastAdds(ms, KeySet) THEN arg.key ELSE NoKey
           limit == IF LimSet = {} THEN chan.clientLimit
                    ELSE IF LastAdds(ms, LimSet) THEN arg.limit ELSE -1
           operators == IF At("o") = {} THEN chan.operators
                        ELSE IF LastAdds(ms, At("o")) THEN chan.operators \cup targets
                        ELSE chan.operators \ targets
<1>3. /\ modes \in SUBSET Flags /\ key \in Key \cup {NoKey}
      /\ limit \in Int /\ operators \in SUBSET Addr
  <2> HIDE DEF KeySet, LimSet
  <2>1. modes \in SUBSET Flags
    OBVIOUS
  <2>2. key \in Key \cup {NoKey}
    BY <1>1 DEF Channel
  <2>3. limit \in Int
    BY <1>2 DEF Channel
  <2>4. operators \in SUBSET Addr
    BY DEF Channel
  <2> QED BY <2>1, <2>2, <2>3, <2>4
<1>4. ApplyModes(chan, ms, arg, targets) =
        [chan EXCEPT !.modes = modes, !.key = key, !.clientLimit = limit,
                     !.operators = operators]
  BY DEF ApplyModes
<1> HIDE DEF modes, key, limit, operators
<1> QED
  BY <1>3, <1>4 DEF Channel

-----------------------------------------------------------------------------
(* Type correctness. *)

\* The state at the start has its type.
LEMMA InitType == Init => TypeOK
BY NewClientType, NewChannelType DEF Init, TypeOK

\* Disconnecting a client keeps the types.
LEMMA DisconnectType ==
  ASSUME TypeOK, NEW a \in Addr, DisconnectClient(a)
  PROVE  TypeOK'
<1>1. clients' \subseteq Addr /\ channels' \subseteq ChanName
  BY DEF Visited, DisconnectClient, TypeOK
<1>2. client' \in [Addr -> Client]
  BY NewClientType DEF Visited, DisconnectClient, TypeOK
<1>3. \A ch \in ChanName : RemoveClient(channel[ch], a) \in Channel
  BY MemberTypes DEF TypeOK
<1>4. channel' \in [ChanName -> Channel]
  BY <1>3, NewChannelType DEF Visited, DisconnectClient, TypeOK
<1> QED BY <1>1, <1>2, <1>4 DEF TypeOK

\* So does whatever a client does about its connection.
LEMMA ConnectionType ==
  ASSUME TypeOK, NEW a \in Addr, Connection(a)
  PROVE  TypeOK'
<1>1. CASE AcceptNewClient(a)
  BY <1>1, NewClientType DEF AcceptNewClient, TypeOK
<1>2. CASE PeerClosed(a)
  BY <1>2, DisconnectType DEF PeerClosed
<1>3. ASSUME NEW ok \in BOOLEAN, HandlePass(a, ok) PROVE TypeOK'
  <2>1. CASE DisconnectClient(a)
    BY <2>1, DisconnectType
  <2>2. CASE ~DisconnectClient(a)
    <3>1. [client[a] EXCEPT !.sentPassword = TRUE] \in Client
      BY DEF TypeOK, Client
    <3>2. /\ client' = [client EXCEPT ![a].sentPassword = TRUE]
          /\ UNCHANGED <<clients, channels, channel>>
      BY <1>3, <2>2 DEF HandlePass
    <3> QED BY <3>1, <3>2 DEF TypeOK
  <2> QED BY <2>1, <2>2
<1>4. ASSUME NEW n \in Nick, HandleNick(a, n) PROVE TypeOK'
  <2>1. CASE DisconnectClient(a)
    BY <2>1, DisconnectType
  <2>2. CASE ~DisconnectClient(a)
    <3>1. RegisterIfReady([client[a] EXCEPT !.nick = n, !.sentNickname = TRUE]) \in Client
      BY DEF RegisterIfReady, TypeOK, Client
    <3> QED BY <1>4, <2>2, <3>1 DEF HandleNick, TypeOK
  <2> QED BY <2>1, <2>2
<1>5. CASE HandleUser(a)
  <2>1. CASE DisconnectClient(a)
    BY <2>1, DisconnectType
  <2>2. CASE ~DisconnectClient(a)
    <3>1. RegisterIfReady([client[a] EXCEPT !.sentUsername = TRUE]) \in Client
      BY DEF RegisterIfReady, TypeOK, Client
    <3> QED BY <1>5, <2>2, <3>1 DEF HandleUser, TypeOK
  <2> QED BY <2>1, <2>2
<1> QED BY <1>1, <1>2, <1>3, <1>4, <1>5 DEF Connection

\* So does every command about a channel.
LEMMA ChannelCommandType ==
  ASSUME TypeOK, NEW a \in Addr, NEW ch \in ChanName, ChannelCommand(a, ch)
  PROVE  TypeOK'
<1> USE DEF TypeOK
<1>0. channel[ch] \in Channel /\ NewChannel \in Channel
  BY NewChannelType
<1>1. ASSUME NEW k \in JoinKey, HandleJoin(a, ch, k) PROVE TypeOK'
  <2>1. CreateChannel(a, k) \in Channel
    <3>1. SetKey(NewChannel, k) \in Channel
      BY <1>0, SetterTypes
    <3>2. AddClient(SetKey(NewChannel, k), a) \in Channel
      BY <3>1, MemberTypes
    <3> QED BY <3>2, MemberTypes DEF CreateChannel
  <2>2. AddClient(channel[ch], a) \in Channel
    BY <1>0, MemberTypes
  <2>3. JoinChannel(client[a], ch) \in Client
    BY DEF JoinChannel, Client
  <2> QED BY <1>1, <2>1, <2>2, <2>3 DEF HandleJoin
<1>2. CASE HandlePart(a, ch)
  <2>1. RemoveClient(channel[ch], a) \in Channel
    BY <1>0, MemberTypes
  <2>2. LeaveChannel(client[a], ch) \in Client
    BY DEF LeaveChannel, Client
  <2> QED BY <1>0, <1>2, <2>1, <2>2 DEF HandlePart
<1>3. ASSUME NEW n \in Nick, HandleKick(a, ch, n) PROVE TypeOK'
  <2>1. PICK t \in MembersNamed(ch, n) :
          /\ channel' = [channel EXCEPT ![ch] = KickedOut(@, t)]
          /\ client' = [client EXCEPT ![t] = LeaveChannel(@, ch)]
    BY <1>3 DEF HandleKick
  <2>2. t \in Addr
    BY <1>0 DEF MembersNamed, Channel
  <2>3. KickedOut(channel[ch], t) \in Channel
    BY <1>0, <2>2, MemberTypes
  <2>4. LeaveChannel(client[t], ch) \in Client
    BY <2>2 DEF LeaveChannel, Client
  <2> QED BY <1>3, <2>1, <2>2, <2>3, <2>4 DEF HandleKick
<1>4. ASSUME NEW n \in Nick, HandleInvite(a, n, ch) PROVE TypeOK'
  <2>1. \A t \in clients : InviteClient(channel[ch], t) \in Channel
    BY <1>0, MemberTypes
  <2> QED BY <1>4, <2>1 DEF HandleInvite
<1>5. ASSUME NEW t \in TopicWord, HandleTopic(a, ch, t) PROVE TypeOK'
  BY <1>0, <1>5, SetterTypes DEF HandleTopic
<1>6. ASSUME NEW ms \in ModeString, NEW arg \in ModeArg \cup {NoArg}, HandleMode(a, ch, ms, arg)
      PROVE  TypeOK'
  <2> DEFINE targets == IF arg = NoArg THEN {} ELSE MembersNamed(ch, arg.nick)
  <2>1. targets \in SUBSET Addr
    BY <1>0 DEF MembersNamed, Channel
  <2>2. ApplyModes(channel[ch], ms, arg, targets) \in Channel
    BY <1>0, <2>1, ApplyModesType
  <2>3. /\ channel' = [channel EXCEPT ![ch] = ApplyModes(@, ms, arg, targets)]
        /\ UNCHANGED <<clients, client, channels>>
    BY <1>6 DEF HandleMode
  <2> HIDE DEF targets
  <2> QED BY <2>2, <2>3
<1>7. ASSUME NEW text \in Text, SendMessageToChannel(a, ch, text) PROVE TypeOK'
  BY <1>7 DEF SendMessageToChannel
<1> QED BY <1>1, <1>2, <1>3, <1>4, <1>5, <1>6, <1>7 DEF ChannelCommand

\* Every step keeps the types.
LEMMA TypeStep == TypeOK /\ [Next]_vars => TypeOK'
<1> SUFFICES ASSUME TypeOK, [Next]_vars PROVE TypeOK'
  OBVIOUS
<1>1. CASE UNCHANGED vars
  BY <1>1 DEF vars, TypeOK
<1>2. ASSUME NEW a \in Addr, NEW n \in Nick, NEW text \in Text, SendMessageToUser(a, n, text)
      PROVE  TypeOK'
  BY <1>2 DEF SendMessageToUser, TypeOK
<1> QED BY <1>1, <1>2, ConnectionType, ChannelCommandType DEF Next

\* Every field of every Client and Channel stays in its type: a channel never
\* holds a key longer than setKey takes, nor a member that is no Client.
THEOREM TypeCorrect == Spec => []TypeOK
BY InitType, TypeStep, PTL DEF Spec

-----------------------------------------------------------------------------
(* The inductive invariant. *)

\* A client has a nickname exactly when its NICK was accepted.
NickGiven == \A a \in Addr : client[a].sentNickname <=> client[a].nick # NoNick

\* NICK and USER are taken only after PASS: PASS itself never completes the
\* handshake, which is why handlePass need not call registerClient.
PasswordFirst ==
  \A a \in Addr : client[a].sentNickname \/ client[a].sentUsername => client[a].sentPassword

\* An address without a Client, and a name without a Channel, are as new: what
\* acceptNewClient and createChannel find there carries nothing over.
FreedIsBlank ==
  /\ \A a \in Addr \ clients : client[a] = NewClient
  /\ \A ch \in ChanName \ channels : channel[ch] = NewChannel

IInv ==
  /\ TypeOK
  /\ MembershipAgrees
  /\ RegisteredByHandshake
  /\ NicknamesUnique
  /\ NickGiven
  /\ PasswordFirst
  /\ FreedIsBlank

\* The inductive invariant holds at the start.
LEMMA InitInv == Init => IInv
<1> SUFFICES ASSUME Init PROVE IInv
  OBVIOUS
<1> USE DEF Init, NewClient, NewChannel
<1>1. TypeOK
  BY InitType
<1>2. MembershipAgrees /\ RegisteredByHandshake /\ NicknamesUnique /\ NickGiven /\ PasswordFirst /\ FreedIsBlank
  BY DEF MembershipAgrees, RegisteredByHandshake, NicknamesUnique, NickGiven, PasswordFirst, FreedIsBlank
<1> QED BY <1>1, <1>2 DEF IInv

-----------------------------------------------------------------------------
(* Connection, disconnection and registration. *)

\* What disconnectClient does to each Client, and to the members of each channel.
LEMMA DisconnectEffect ==
  ASSUME IInv, NEW a \in clients, DisconnectClient(a)
  PROVE  /\ \A b \in Addr : client'[b] = IF b = a THEN NewClient ELSE client[b]
         /\ \A ch \in ChanName : channel'[ch].clients = channel[ch].clients \ {a}
<1> USE DEF IInv
<1>0. a \in Addr
  BY DEF TypeOK
<1>1. \A b \in Addr : client'[b] = IF b = a THEN NewClient ELSE client[b]
  BY DEF Visited, DisconnectClient, TypeOK
<1>2. ASSUME NEW ch \in ChanName PROVE channel'[ch].clients = channel[ch].clients \ {a}
  <2>1. CASE ch \in Emptied(a)
    BY <2>1 DEF Visited, DisconnectClient, Emptied, NewChannel
  <2>2. CASE ch \notin Emptied(a) /\ ch \in client[a].channels
    BY <2>2 DEF Visited, DisconnectClient, RemoveClient, TypeOK, Channel
  <2>3. CASE ch \notin client[a].channels
    BY <1>0, <2>3 DEF Visited, DisconnectClient, MembershipAgrees, Emptied
  <2> QED BY <2>1, <2>2, <2>3
<1> QED BY <1>1, <1>2

\* Disconnecting a client keeps the inductive invariant: every channel forgets
\* it.
LEMMA DisconnectInv ==
  ASSUME IInv, NEW a \in clients, DisconnectClient(a)
  PROVE  IInv'
<1> USE DEF IInv
<1>0. a \in Addr
  BY DEF TypeOK
<1>1. TypeOK'
  BY <1>0, DisconnectType
<1>2. /\ \A b \in Addr : client'[b] = IF b = a THEN NewClient ELSE client[b]
      /\ \A ch \in ChanName : channel'[ch].clients = channel[ch].clients \ {a}
  BY DisconnectEffect
<1>3. MembershipAgrees'
  <2>1. ASSUME NEW b \in Addr, NEW ch \in ChanName
        PROVE  b \in channel'[ch].clients <=> ch \in client'[b].channels
    BY <1>2 DEF MembershipAgrees, NewClient
  <2>2. \A b \in Addr : client'[b].channels # {} => b \in clients'
    BY <1>2 DEF Visited, DisconnectClient, MembershipAgrees, NewClient
  <2>3. ASSUME NEW ch \in ChanName, channel'[ch].clients # {} PROVE ch \in channels'
    <3>1. ch \in channels /\ channel[ch].clients \ {a} # {}
      BY <1>2, <2>3 DEF MembershipAgrees
    <3> QED BY <3>1 DEF Visited, DisconnectClient, Emptied
  <2> QED BY <2>1, <2>2, <2>3 DEF MembershipAgrees
<1>4. RegisteredByHandshake' /\ NickGiven' /\ PasswordFirst'
  BY <1>2 DEF RegisteredByHandshake, NickGiven, PasswordFirst, NewClient
<1>5. NicknamesUnique'
  BY <1>0, <1>2 DEF NicknamesUnique, DisconnectClient, TypeOK
<1>6. FreedIsBlank'
  <2>1. \A b \in Addr \ clients' : client'[b] = NewClient
    BY <1>2 DEF FreedIsBlank, DisconnectClient
  <2>2. ASSUME NEW ch \in ChanName \ channels' PROVE channel'[ch] = NewChannel
    <3>1. CASE ch \in Emptied(a)
      BY <3>1 DEF Visited, DisconnectClient
    <3>2. CASE ch \notin channels
      <4>1. ch \notin client[a].channels
        BY <1>0, <3>2 DEF MembershipAgrees
      <4> QED BY <3>2, <4>1 DEF Visited, DisconnectClient, FreedIsBlank, Emptied
    <3> QED BY <3>1, <3>2 DEF Visited, DisconnectClient
  <2> QED BY <2>1, <2>2 DEF FreedIsBlank
<1> QED BY <1>1, <1>3, <1>4, <1>5, <1>6

\* A step that changes one client's record alone, and not its channels, keeps the
\* invariant when the registration fields and the nickname still agree.
LEMMA HandshakeInv ==
  ASSUME IInv, TypeOK', NEW a \in clients,
         UNCHANGED <<clients, channels, channel>>,
         \A b \in Addr \ {a} : client'[b] = client[b],
         client'[a].channels = client[a].channels,
         \A b \in clients \ {a} : client[b].nick = client'[a].nick => client'[a].nick = NoNick,
         client'[a].sentNickname <=> client'[a].nick # NoNick,
         client'[a].registered <=>
           client'[a].sentPassword /\ client'[a].sentNickname /\ client'[a].sentUsername,
         client'[a].sentNickname \/ client'[a].sentUsername => client'[a].sentPassword,
         client[a].registered => client'[a].registered
  PROVE  IInv'
<1> USE DEF IInv
<1>1. a \in Addr
  BY DEF TypeOK
<1>2. MembershipAgrees'
  BY <1>1 DEF MembershipAgrees
<1>3. RegisteredByHandshake' /\ NickGiven' /\ PasswordFirst'
  BY <1>1 DEF RegisteredByHandshake, NickGiven, PasswordFirst
<1>4. NicknamesUnique'
  BY <1>1 DEF NicknamesUnique, TypeOK
<1>5. FreedIsBlank'
  BY <1>1 DEF FreedIsBlank
<1> QED BY <1>2, <1>3, <1>4, <1>5

\* So does whatever a client does about its connection.
LEMMA ConnectionInv ==
  ASSUME IInv, NEW a \in Addr, Connection(a)
  PROVE  IInv'
<1> USE DEF IInv
<1>0. TypeOK'
  BY ConnectionType
<1>1. CASE AcceptNewClient(a)
  <2>1. \A b \in Addr : client'[b] = client[b]
    BY <1>1 DEF AcceptNewClient, FreedIsBlank, TypeOK
  <2>2. clients' = clients \cup {a} /\ channels' = channels /\ channel' = channel
    BY <1>1 DEF AcceptNewClient
  <2>3. client[a].nick = NoNick
    BY <1>1 DEF AcceptNewClient, FreedIsBlank, NewClient
  <2>4. MembershipAgrees' /\ RegisteredByHandshake' /\ NickGiven' /\ PasswordFirst' /\ FreedIsBlank'
    BY <2>1, <2>2 DEF MembershipAgrees, RegisteredByHandshake, NickGiven, PasswordFirst, FreedIsBlank
  <2>5. NicknamesUnique'
    BY <2>1, <2>2, <2>3 DEF NicknamesUnique, TypeOK
  <2> QED BY <1>0, <2>4, <2>5
<1>2. CASE PeerClosed(a)
  BY <1>2, DisconnectInv DEF PeerClosed
<1>3. ASSUME NEW ok \in BOOLEAN, HandlePass(a, ok) PROVE IInv'
  <2>1. CASE DisconnectClient(a)
    BY <1>3, <2>1, DisconnectInv DEF HandlePass
  <2>2. CASE ~DisconnectClient(a)
    <3>1. /\ a \in clients /\ ~client[a].sentPassword /\ UNCHANGED <<clients, channels, channel>>
          /\ client' = [client EXCEPT ![a].sentPassword = TRUE]
      BY <1>3, <2>2 DEF HandlePass
    <3>2. client[a] \in Client /\ client'[a] \in Client
      BY <1>0 DEF TypeOK
    <3>3. /\ client'[a].channels = client[a].channels /\ client'[a].nick = client[a].nick
          /\ client'[a].sentPassword
          /\ client'[a].sentNickname <=> client[a].sentNickname
          /\ client'[a].sentUsername <=> client[a].sentUsername
          /\ client'[a].registered <=> client[a].registered
      BY <3>1, <3>2 DEF TypeOK, Client
    <3>4. ~client[a].registered /\ ~client[a].sentNickname
      BY <3>1 DEF RegisteredByHandshake, PasswordFirst
    <3>5. \A b \in Addr \ {a} : client'[b] = client[b]
      BY <3>1 DEF TypeOK
    <3>6. client'[a].nick = NoNick
      BY <3>3, <3>4 DEF NickGiven
    <3> HIDE DEF IInv
    <3> QED BY <1>0, <3>1, <3>3, <3>4, <3>5, <3>6, HandshakeInv
  <2> QED BY <2>1, <2>2
<1>4. ASSUME NEW n \in Nick, HandleNick(a, n) PROVE IInv'
  <2>1. CASE DisconnectClient(a)
    BY <1>4, <2>1, DisconnectInv DEF HandleNick
  <2>2. CASE ~DisconnectClient(a)
    <3> DEFINE d == [client[a] EXCEPT !.nick = n, !.sentNickname = TRUE]
    <3>1. /\ a \in clients /\ client[a].sentPassword /\ NickIsUnique(a, n)
          /\ client' = [client EXCEPT ![a] = RegisterIfReady(d)]
          /\ UNCHANGED <<clients, channels, channel>>
      BY <1>4, <2>2 DEF HandleNick
    <3>2. client[a] \in Client /\ client'[a] = RegisterIfReady(d)
      BY <3>1 DEF TypeOK
    <3>3. /\ d \in Client /\ d.nick = n /\ d.sentNickname /\ d.channels = client[a].channels
          /\ d.sentPassword
          /\ d.sentUsername <=> client[a].sentUsername
          /\ d.registered <=> client[a].registered
      BY <3>1, <3>2 DEF Client
    <3> HIDE DEF d
    <3>4. /\ client'[a].nick = n /\ client'[a].sentNickname
          /\ client'[a].channels = client[a].channels
          /\ client'[a].sentPassword
          /\ client'[a].sentUsername <=> client[a].sentUsername
          /\ client'[a].registered <=> client[a].registered \/ client[a].sentUsername
      BY <3>2, <3>3 DEF RegisterIfReady, ReadyToRegister, Client
    <3>5. client'[a].registered <=>
            client'[a].sentPassword /\ client'[a].sentNickname /\ client'[a].sentUsername
      BY <3>4 DEF RegisteredByHandshake
    <3>6. client'[a].nick # NoNick /\ \A b \in clients \ {a} : client[b].nick # client'[a].nick
      BY <3>1, <3>4, ConstantsAssumption DEF NickIsUnique
    <3>7. \A b \in Addr \ {a} : client'[b] = client[b]
      BY <3>1 DEF TypeOK
    <3> HIDE DEF IInv
    <3> QED BY <1>0, <3>1, <3>4, <3>5, <3>6, <3>7, HandshakeInv
  <2> QED BY <2>1, <2>2
<1>5. CASE HandleUser(a)
  <2>1. CASE DisconnectClient(a)
    BY <1>5, <2>1, DisconnectInv DEF HandleUser
  <2>2. CASE ~DisconnectClient(a)
    <3> DEFINE d == [client[a] EXCEPT !.sentUsername = TRUE]
    <3>1. /\ a \in clients /\ client[a].sentPassword /\ ~client[a].sentUsername
          /\ client' = [client EXCEPT ![a] = RegisterIfReady(d)]
          /\ UNCHANGED <<clients, channels, channel>>
      BY <1>5, <2>2 DEF HandleUser
    <3>2. client[a] \in Client /\ client'[a] = RegisterIfReady(d)
      BY <3>1 DEF TypeOK
    <3>3. /\ d \in Client /\ d.nick = client[a].nick /\ d.sentUsername /\ d.sentPassword
          /\ d.channels = client[a].channels
          /\ d.sentNickname <=> client[a].sentNickname
          /\ d.registered <=> client[a].registered
      BY <3>1, <3>2 DEF Client
    <3>4. ~client[a].registered
      BY <3>1 DEF RegisteredByHandshake
    <3> HIDE DEF d
    <3>5. /\ client'[a].nick = client[a].nick /\ client'[a].channels = client[a].channels
          /\ client'[a].sentPassword /\ client'[a].sentUsername
          /\ client'[a].sentNickname <=> client[a].sentNickname
          /\ client'[a].registered <=> client[a].sentNickname
      BY <3>2, <3>3, <3>4 DEF RegisterIfReady, ReadyToRegister, Client
    <3>6. client'[a].sentNickname <=> client'[a].nick # NoNick
      BY <3>5 DEF NickGiven
    <3>7. \A b \in clients \ {a} : client[b].nick = client'[a].nick => client'[a].nick = NoNick
      BY <3>1, <3>5 DEF NicknamesUnique
    <3>8. \A b \in Addr \ {a} : client'[b] = client[b]
      BY <3>1 DEF TypeOK
    <3> HIDE DEF IInv
    <3> QED BY <1>0, <3>1, <3>4, <3>5, <3>6, <3>7, <3>8, HandshakeInv
  <2> QED BY <2>1, <2>2
<1> QED BY <1>1, <1>2, <1>3, <1>4, <1>5 DEF Connection

-----------------------------------------------------------------------------
(* Channel commands. *)

\* Client c is Client d with another list of channels.
SameButChannels(c, d) ==
  /\ c.nick = d.nick
  /\ c.registered <=> d.registered
  /\ c.sentPassword <=> d.sentPassword
  /\ c.sentNickname <=> d.sentNickname
  /\ c.sentUsername <=> d.sentUsername

\* Joining and leaving edit the channels a client remembers, and nothing else
\* of it.
LEMMA ChannelsEdited ==
  ASSUME NEW c \in Client, NEW ch \in ChanName
  PROVE  /\ SameButChannels(JoinChannel(c, ch), c)
         /\ JoinChannel(c, ch).channels = c.channels \cup {ch}
         /\ SameButChannels(LeaveChannel(c, ch), c)
         /\ LeaveChannel(c, ch).channels = c.channels \ {ch}
BY DEF SameButChannels, JoinChannel, LeaveChannel, Client

\* The records of client t and channel ch are edited, and no other.
Edits(t, ch) ==
  /\ t \in clients /\ client[t].registered /\ UNCHANGED clients
  /\ \A b \in Addr \ {t} : client'[b] = client[b]
  /\ SameButChannels(client'[t], client[t])
  /\ \A d \in ChanName \ {ch} : channel'[d] = channel[d] /\ (d \in channels' <=> d \in channels)
  /\ channel'[ch].clients # {} => ch \in channels'
  /\ ch \notin channels' => channel'[ch] = NewChannel

\* t enters ch, in both records of membership; t leaves ch, in both; nobody does.
Enters(t, ch) ==
  /\ Edits(t, ch) /\ t \notin channel[ch].clients
  /\ channel'[ch].clients = channel[ch].clients \cup {t}
  /\ client'[t].channels = client[t].channels \cup {ch}

Leaves(t, ch) ==
  /\ Edits(t, ch) /\ t \in channel[ch].clients
  /\ channel'[ch].clients = channel[ch].clients \ {t}
  /\ client'[t].channels = client[t].channels \ {ch}

Stays(ch) ==
  /\ ch \in channels /\ UNCHANGED <<clients, client, channels>>
  /\ \A d \in ChanName \ {ch} : channel'[d] = channel[d]
  /\ channel'[ch].clients = channel[ch].clients

\* A JOIN that is accepted makes the client a member on both sides.
LEMMA JoinEnters ==
  ASSUME IInv, NEW a \in Addr, NEW ch \in ChanName, NEW k \in JoinKey, HandleJoin(a, ch, k)
  PROVE  Enters(a, ch)
<1> DEFINE joined == IF ch \in channels THEN AddClient(channel[ch], a) ELSE CreateChannel(a, k)
<1> USE DEF IInv
<1>1. joined.clients = channel[ch].clients \cup {a}
  <2>1. CASE ch \in channels
    BY <2>1 DEF AddClient, TypeOK, Channel
  <2>2. CASE ch \notin channels
    <3>1. SetKey(NewChannel, k).clients = {} /\ SetKey(NewChannel, k) \in Channel
      BY NewChannelType, SetterTypes DEF SetKey, NewChannel
    <3>2. CreateChannel(a, k).clients = {a}
      BY <3>1 DEF CreateChannel, AddClient, AddOperator, Channel
    <3> QED BY <2>2, <3>2 DEF FreedIsBlank, NewChannel
  <2> QED BY <2>1, <2>2
<1>2. /\ a \in clients /\ client[a].registered /\ UNCHANGED clients
      /\ channel' = [channel EXCEPT ![ch] = joined] /\ channels' = channels \cup {ch}
      /\ client' = [client EXCEPT ![a] = JoinChannel(@, ch)]
  BY DEF HandleJoin, Registered
<1> HIDE DEF joined
<1>3. channel'[ch].clients = channel[ch].clients \cup {a}
  BY <1>1, <1>2 DEF TypeOK
<1>4. \A d \in ChanName \ {ch} : channel'[d] = channel[d] /\ (d \in channels' <=> d \in channels)
  BY <1>2 DEF TypeOK
<1>5. /\ \A b \in Addr \ {a} : client'[b] = client[b]
      /\ SameButChannels(client'[a], client[a])
      /\ client'[a].channels = client[a].channels \cup {ch}
  BY <1>2, ChannelsEdited DEF TypeOK
<1>6. a \notin channel[ch].clients
  BY DEF HandleJoin, Admits, IsInChannel, MembershipAgrees
<1> QED BY <1>2, <1>3, <1>4, <1>5, <1>6 DEF Enters, Edits

\* A PART that is accepted removes the client on both sides.
LEMMA PartLeaves ==
  ASSUME IInv, NEW a \in Addr, NEW ch \in ChanName, HandlePart(a, ch)
  PROVE  Leaves(a, ch)
<1> USE DEF IInv
<1>1. /\ a \in clients /\ client[a].registered /\ ch \in channels /\ UNCHANGED clients
      /\ a \in channel[ch].clients
      /\ client' = [client EXCEPT ![a] = LeaveChannel(@, ch)]
  BY DEF HandlePart, MayAct, Registered, IsInChannel, MembershipAgrees
<1>2. RemoveClient(channel[ch], a).clients = channel[ch].clients \ {a}
  BY DEF RemoveClient, TypeOK, Channel
<1>3. /\ channel'[ch].clients = channel[ch].clients \ {a}
      /\ ch \notin channels' => channel'[ch] = NewChannel
      /\ channel'[ch].clients # {} => ch \in channels'
  <2>1. CASE channel[ch].clients \ {a} = {}
    BY <1>1, <1>2, <2>1 DEF HandlePart, TypeOK, NewChannel
  <2>2. CASE channel[ch].clients \ {a} # {}
    BY <1>1, <1>2, <2>2 DEF HandlePart, TypeOK
  <2> QED BY <2>1, <2>2
<1>4. \A d \in ChanName \ {ch} : channel'[d] = channel[d] /\ (d \in channels' <=> d \in channels)
  BY DEF HandlePart, TypeOK
<1>5. /\ \A b \in Addr \ {a} : client'[b] = client[b]
      /\ SameButChannels(client'[a], client[a])
      /\ client'[a].channels = client[a].channels \ {ch}
  BY <1>1, ChannelsEdited DEF TypeOK
<1> QED BY <1>1, <1>3, <1>4, <1>5 DEF Leaves, Edits

\* A KICK that is accepted removes its target on both sides.
LEMMA KickLeaves ==
  ASSUME IInv, NEW a \in Addr, NEW ch \in ChanName, NEW n \in Nick, HandleKick(a, ch, n)
  PROVE  \E t \in Addr : Leaves(t, ch)
<1> USE DEF IInv
<1>1. PICK t \in MembersNamed(ch, n) :
        /\ channel' = [channel EXCEPT ![ch] = KickedOut(@, t)]
        /\ client' = [client EXCEPT ![t] = LeaveChannel(@, ch)]
  BY DEF HandleKick
<1>2. t \in Addr /\ t \in channel[ch].clients /\ channel[ch] \in Channel
  BY DEF MembersNamed, TypeOK, Channel
<1>3. t \in clients /\ client[t].registered /\ ch \in channels
  BY <1>2 DEF MembershipAgrees, RegisteredByHandshake
<1>4. UNCHANGED <<clients, channels>>
  BY DEF HandleKick
<1>5. /\ \A b \in Addr \ {t} : client'[b] = client[b]
      /\ SameButChannels(client'[t], client[t])
      /\ client'[t].channels = client[t].channels \ {ch}
  BY <1>1, <1>2, ChannelsEdited DEF TypeOK
<1>6. channel'[ch].clients = channel[ch].clients \ {t}
  BY <1>1, <1>2 DEF KickedOut, RemoveClient, RemoveInvitation, Channel, TypeOK
<1>7. \A d \in ChanName \ {ch} : channel'[d] = channel[d]
  BY <1>1 DEF TypeOK
<1> QED BY <1>2, <1>3, <1>4, <1>5, <1>6, <1>7 DEF Leaves, Edits

\* No other command moves anybody.
LEMMA OthersStay ==
  ASSUME IInv, NEW a \in Addr, NEW ch \in ChanName,
         \/ \E n \in Nick : HandleInvite(a, n, ch)
         \/ \E t \in TopicWord : HandleTopic(a, ch, t)
         \/ \E ms \in ModeString, arg \in ModeArg \cup {NoArg} : HandleMode(a, ch, ms, arg)
         \/ \E text \in Text : SendMessageToChannel(a, ch, text)
  PROVE  Stays(ch)
<1>0. channel \in [ChanName -> Channel]
  BY DEF IInv, TypeOK
<1>1. ASSUME NEW n \in Nick, HandleInvite(a, n, ch) PROVE Stays(ch)
  <2>1. ch \in channels /\ UNCHANGED <<clients, client, channels>>
    BY <1>1 DEF HandleInvite, MayAct
  <2>2. PICK t \in clients : channel' = [channel EXCEPT ![ch] = InviteClient(@, t)]
    BY <1>1 DEF HandleInvite
  <2> QED BY <1>0, <2>1, <2>2 DEF Stays, InviteClient, Channel
<1>2. ASSUME NEW t \in TopicWord, HandleTopic(a, ch, t) PROVE Stays(ch)
  BY <1>0, <1>2 DEF HandleTopic, MayAct, Stays, SetTopic, Channel
<1>3. ASSUME NEW ms \in ModeString, NEW arg \in ModeArg \cup {NoArg}, HandleMode(a, ch, ms, arg)
      PROVE  Stays(ch)
  <2>1. PICK targets :
          /\ ch \in channels /\ UNCHANGED <<clients, client, channels>>
          /\ channel' = [channel EXCEPT ![ch] = ApplyModes(@, ms, arg, targets)]
    BY <1>3 DEF HandleMode, MayAct
  <2>2. ApplyModes(channel[ch], ms, arg, targets).clients = channel[ch].clients
    BY <1>0 DEF ApplyModes, Channel
  <2> QED BY <1>0, <2>1, <2>2 DEF Stays
<1>4. ASSUME NEW text \in Text, SendMessageToChannel(a, ch, text) PROVE Stays(ch)
  BY <1>4 DEF SendMessageToChannel, MayAct, Stays
<1> QED BY <1>1, <1>2, <1>3, <1>4

\* A channel command makes one client enter or leave the channel, or nobody.
LEMMA ChannelCommandEffect ==
  ASSUME IInv, NEW a \in Addr, NEW ch \in ChanName, ChannelCommand(a, ch)
  PROVE  (\E t \in Addr : Enters(t, ch) \/ Leaves(t, ch)) \/ Stays(ch)
BY JoinEnters, PartLeaves, KickLeaves, OthersStay DEF ChannelCommand

\* An edit of both records at once preserves the invariant.
LEMMA EditsInv ==
  ASSUME IInv, TypeOK', NEW t \in Addr, NEW ch \in ChanName, Enters(t, ch) \/ Leaves(t, ch)
  PROVE  IInv'
<1> USE DEF IInv
<1>1. /\ Edits(t, ch)
      /\ channel'[ch].clients \ {t} = channel[ch].clients \ {t}
      /\ client'[t].channels \ {ch} = client[t].channels \ {ch}
      /\ t \in channel'[ch].clients <=> ch \in client'[t].channels
  BY DEF Enters, Leaves
<1>2. /\ client'[t].nick = client[t].nick
      /\ client'[t].registered <=> client[t].registered
      /\ client'[t].sentPassword <=> client[t].sentPassword
      /\ client'[t].sentNickname <=> client[t].sentNickname
      /\ client'[t].sentUsername <=> client[t].sentUsername
  BY <1>1 DEF Edits, SameButChannels
<1> USE DEF Edits
<1>3. MembershipAgrees'
  <2>1. ASSUME NEW b \in Addr, NEW d \in ChanName
        PROVE  b \in channel'[d].clients <=> d \in client'[b].channels
    <3>1. CASE b = t
      BY <1>1, <3>1 DEF MembershipAgrees
    <3>2. CASE b # t
      BY <1>1, <3>2 DEF MembershipAgrees
    <3> QED BY <3>1, <3>2
  <2>2. ASSUME NEW b \in Addr, client'[b].channels # {} PROVE b \in clients'
    BY <1>1, <2>2 DEF MembershipAgrees
  <2>3. ASSUME NEW d \in ChanName, channel'[d].clients # {} PROVE d \in channels'
    BY <1>1, <2>3 DEF MembershipAgrees
  <2> QED BY <2>1, <2>2, <2>3 DEF MembershipAgrees
<1>4. RegisteredByHandshake' /\ NickGiven' /\ PasswordFirst'
  BY <1>1, <1>2 DEF RegisteredByHandshake, NickGiven, PasswordFirst
<1>5. NicknamesUnique'
  BY <1>1, <1>2 DEF NicknamesUnique, TypeOK
<1>6. FreedIsBlank'
  BY <1>1 DEF FreedIsBlank
<1> QED BY <1>3, <1>4, <1>5, <1>6

\* A step that changes settings of one live channel and no member preserves it.
LEMMA StaysInv ==
  ASSUME IInv, TypeOK', NEW ch \in ChanName, Stays(ch)
  PROVE  IInv'
<1> USE DEF IInv, Stays
<1>1. \A d \in ChanName : channel'[d].clients = channel[d].clients
  OBVIOUS
<1>2. MembershipAgrees'
  BY <1>1 DEF MembershipAgrees
<1>3. RegisteredByHandshake' /\ NickGiven' /\ PasswordFirst' /\ NicknamesUnique'
  BY DEF RegisteredByHandshake, NickGiven, PasswordFirst, NicknamesUnique
<1>4. FreedIsBlank'
  BY DEF FreedIsBlank
<1> QED BY <1>2, <1>3, <1>4

\* Every command about a channel keeps the inductive invariant.
LEMMA ChannelCommandInv ==
  ASSUME IInv, NEW a \in Addr, NEW ch \in ChanName, ChannelCommand(a, ch)
  PROVE  IInv'
<1>1. TypeOK'
  BY ChannelCommandType DEF IInv
<1> QED BY <1>1, ChannelCommandEffect, EditsInv, StaysInv

-----------------------------------------------------------------------------
\* Every step keeps the inductive invariant.
LEMMA StepInv == IInv /\ [Next]_vars => IInv'
<1> SUFFICES ASSUME IInv, [Next]_vars PROVE IInv'
  OBVIOUS
<1>1. ASSUME UNCHANGED <<clients, client, channels, channel>> PROVE IInv'
  BY <1>1 DEF IInv, TypeOK, MembershipAgrees, RegisteredByHandshake, NicknamesUnique,
              NickGiven, PasswordFirst, FreedIsBlank
<1>2. ASSUME NEW a \in Addr, NEW n \in Nick, NEW text \in Text, SendMessageToUser(a, n, text)
      PROVE  IInv'
  BY <1>1, <1>2 DEF SendMessageToUser
<1> QED BY <1>1, <1>2, ConnectionInv, ChannelCommandInv DEF Next, vars

\* The membership records, the handshake, the nicknames and the freed objects are
\* consistent with each other after every handler.
THEOREM Invariant == Spec => []IInv
BY InitInv, StepInv, PTL DEF Spec

\* The two records of membership agree in every reachable state, so no handler
\* follows a member pointer to a deleted Client or Channel.
THEOREM MembershipSafe == Spec => []MembershipAgrees
<1>1. IInv => MembershipAgrees
  BY DEF IInv
<1> QED BY <1>1, Invariant, PTL

\* Only the whole handshake registers a client, and only a registered client is
\* ever a member of a channel.
THEOREM RegistrationSafe == Spec => []RegisteredByHandshake
<1>1. IInv => RegisteredByHandshake
  BY DEF IInv
<1> QED BY <1>1, Invariant, PTL

\* A lookup by nickname has at most one answer, for any number of clients.
THEOREM NicknamesSafe == Spec => []NicknamesUnique
<1>1. IInv => NicknamesUnique
  BY DEF IInv
<1> QED BY <1>1, Invariant, PTL

-----------------------------------------------------------------------------
\* Of the steps of Connection only disconnectClient touches channels.
LEMMA ConnectionOrDisconnect ==
  ASSUME NEW a \in Addr, Connection(a)
  PROVE  UNCHANGED <<channels, channel>> \/ (a \in clients /\ DisconnectClient(a))
BY DEF Connection, AcceptNewClient, PeerClosed, HandlePass, HandleNick, HandleUser

-----------------------------------------------------------------------------
(* Emptied channels. *)

\* ch loses its last member and lives on.
Empties(ch) == Survives(ch) /\ channel[ch].clients # {} /\ channel'[ch].clients = {}

SelfKick(ch) == \E p \in out' : p.type = "KICK" /\ p.chan = ch /\ p.arg = p.nick

\* Disconnecting a client leaves no channel behind that it emptied.
LEMMA DisconnectDeletesEmptied ==
  ASSUME IInv, NEW a \in clients, DisconnectClient(a), NEW ch \in ChanName
  PROVE  ~Empties(ch)
<1> SUFFICES ASSUME Empties(ch) PROVE FALSE
  OBVIOUS
<1>1. a \in Addr
  BY DEF IInv, TypeOK
<1>2. channel[ch].clients # {} /\ channel[ch].clients \ {a} = {} /\ ch \in channels'
  BY DisconnectEffect DEF Empties, Survives
<1>3. ch \in client[a].channels
  BY <1>1, <1>2 DEF IInv, MembershipAgrees
<1> QED BY <1>2, <1>3 DEF DisconnectClient, Emptied, Visited

\* The member that leaves is the operator that kicks: an operator acts only in a
\* channel it is a member of.
LEMMA KickEmptiesBySelf ==
  ASSUME IInv, NEW a \in Addr, NEW ch \in ChanName, NEW n \in Nick, HandleKick(a, ch, n),
         channel[ch].clients # {}, channel'[ch].clients = {}
  PROVE  SelfKick(ch)
<1>1. PICK t \in MembersNamed(ch, n) :
        /\ out' = Send(channel[ch].clients, "KICK", client[a].nick, ch, n)
        /\ channel' = [channel EXCEPT ![ch] = KickedOut(@, t)]
  BY DEF HandleKick
<1>2. channel[ch] \in Channel /\ channel' = [channel EXCEPT ![ch] = KickedOut(channel[ch], t)]
  BY <1>1 DEF IInv, TypeOK
<1>3. channel'[ch].clients = channel[ch].clients \ {t}
  BY <1>2 DEF IInv, TypeOK, KickedOut, RemoveClient, RemoveInvitation, Channel
<1>4. a \in channel[ch].clients
  BY DEF HandleKick, MayAct, IsInChannel, IInv, MembershipAgrees
<1>5. a = t /\ client[a].nick = n
  BY <1>1, <1>3, <1>4 DEF MembersNamed
<1> DEFINE p == [to |-> a, type |-> "KICK", nick |-> client[a].nick, chan |-> ch, arg |-> n]
<1>6. p \in out'
  BY <1>1, <1>4 DEF Send
<1>7. p.type = "KICK" /\ p.chan = ch /\ p.arg = p.nick
  BY <1>5
<1> QED BY <1>6, <1>7 DEF SelfKick

\* A command leaves an empty channel behind only when its last member kicks
\* itself.
LEMMA CommandEmptiesBySelf ==
  ASSUME IInv, NEW a \in Addr, NEW d \in ChanName, ChannelCommand(a, d),
         NEW ch \in ChanName, Empties(ch)
  PROVE  SelfKick(ch)
<1>1. CASE ch # d
  <2>1. channel'[ch] = channel[ch]
    BY <1>1, ChannelCommandEffect DEF Enters, Leaves, Edits, Stays
  <2> QED BY <2>1 DEF Empties
<1>2. CASE ch = d
  <2>1. CASE \E k \in JoinKey : HandleJoin(a, d, k)
    BY <1>2, <2>1, JoinEnters DEF Enters, Empties
  <2>2. CASE HandlePart(a, d)
    <3>1. channel'[d].clients = channel[d].clients \ {a}
      BY <2>2, PartLeaves DEF Leaves
    <3>2. RemoveClient(channel[d], a).clients = channel[d].clients \ {a}
      BY DEF RemoveClient, IInv, TypeOK, Channel
    <3>3. d \notin channels'
      BY <1>2, <2>2, <3>1, <3>2 DEF HandlePart, Empties
    <3> QED BY <1>2, <3>3 DEF Empties, Survives
  <2>3. CASE \E n \in Nick : HandleKick(a, d, n)
    BY <1>2, <2>3, KickEmptiesBySelf DEF Empties
  <2>4. CASE Stays(d)
    BY <1>2, <2>4 DEF Stays, Empties
  <2> QED BY <2>1, <2>2, <2>3, <2>4, OthersStay DEF ChannelCommand
<1> QED BY <1>1, <1>2

\* A live channel is left without members only by an operator who is its last
\* member and kicks itself, for any number of clients and channels (handleKick).
THEOREM EmptiedSafe == Spec => EmptiedOnlyBySelfKick
<1>1. ASSUME IInv, [Next]_vars, NEW ch \in ChanName, Empties(ch) PROVE SelfKick(ch)
  <2>1. ASSUME UNCHANGED channel PROVE FALSE
    BY <1>1, <2>1 DEF Empties
  <2>2. ASSUME NEW a \in Addr, Connection(a) PROVE FALSE
    BY <1>1, <2>1, <2>2, ConnectionOrDisconnect, DisconnectDeletesEmptied
  <2>3. ASSUME NEW a \in Addr, NEW d \in ChanName, ChannelCommand(a, d) PROVE SelfKick(ch)
    BY <1>1, <2>3, CommandEmptiesBySelf
  <2>4. ASSUME NEW a \in Addr, NEW n \in Nick, NEW text \in Text, SendMessageToUser(a, n, text)
        PROVE  FALSE
    BY <2>1, <2>4 DEF SendMessageToUser
  <2> QED BY <1>1, <2>1, <2>2, <2>3, <2>4 DEF Next, vars
<1>2. IInv /\ [Next]_vars =>
        [\A ch \in ChanName :
           Survives(ch) /\ channel[ch].clients # {} /\ channel'[ch].clients = {} =>
             \E p \in out' : p.type = "KICK" /\ p.chan = ch /\ p.arg = p.nick]_vars
  BY <1>1 DEF Empties, SelfKick
<1> QED BY <1>2, Invariant, PTL DEF Spec, EmptiedOnlyBySelfKick

-----------------------------------------------------------------------------
(* Settings. *)

SettingsOf(chan) == <<chan.modes, chan.key, chan.clientLimit, chan.operators>>

\* What members come, go and are invited by, and TOPIC, leaves the settings alone.
LEMMA MembersKeepSettings ==
  ASSUME NEW chan \in Channel, NEW a \in Addr, NEW t
  PROVE  /\ SettingsOf(AddClient(chan, a)) = SettingsOf(chan)
         /\ SettingsOf(RemoveClient(chan, a)) = SettingsOf(chan)
         /\ SettingsOf(KickedOut(chan, a)) = SettingsOf(chan)
         /\ SettingsOf(InviteClient(chan, a)) = SettingsOf(chan)
         /\ SettingsOf(SetTopic(chan, t)) = SettingsOf(chan)
BY DEF SettingsOf, AddClient, RemoveClient, KickedOut, RemoveInvitation, InviteClient,
       SetTopic, Channel

\* Disconnection keeps the settings of the channels it does not delete.
LEMMA DisconnectKeepsSettings ==
  ASSUME TypeOK, NEW a \in clients, DisconnectClient(a), NEW ch \in ChanName, Survives(ch)
  PROVE  SettingsOf(channel'[ch]) = SettingsOf(channel[ch])
<1>1. a \in Addr /\ channel[ch] \in Channel
  BY DEF TypeOK
<1>2. ch \notin Emptied(a)
  BY DEF DisconnectClient, Survives
<1>3. channel'[ch] \in {channel[ch], RemoveClient(channel[ch], a)}
  BY <1>2 DEF DisconnectClient
<1> QED BY <1>1, <1>3, MembersKeepSettings

\* A command leaves the settings of its channel alone, deletes or creates the
\* channel, or is an operator's MODE; the other channels stay as they are.
LEMMA CommandSettings ==
  ASSUME TypeOK, NEW a \in Addr, NEW d \in ChanName, ChannelCommand(a, d)
  PROVE  /\ \A ch \in ChanName \ {d} : channel'[ch] = channel[ch]
         /\ \/ SettingsOf(channel'[d]) = SettingsOf(channel[d])
            \/ channel'[d] = NewChannel /\ d \notin channels'
            \/ d \notin channels /\ \E k \in JoinKey : channel'[d] = CreateChannel(a, k)
            \/ \E ms \in ModeString, arg \in ModeArg \cup {NoArg} : HandleMode(a, d, ms, arg)
<1> USE DEF TypeOK
<1>0. channel \in [ChanName -> Channel] /\ channel[d] \in Channel
  OBVIOUS
<1> DEFINE Goal ==
      /\ \A ch \in ChanName \ {d} : channel'[ch] = channel[ch]
      /\ \/ SettingsOf(channel'[d]) = SettingsOf(channel[d])
         \/ channel'[d] = NewChannel /\ d \notin channels'
         \/ d \notin channels /\ \E k \in JoinKey : channel'[d] = CreateChannel(a, k)
         \/ \E ms \in ModeString, arg \in ModeArg \cup {NoArg} : HandleMode(a, d, ms, arg)
<1>1. ASSUME NEW chan, channel' = [channel EXCEPT ![d] = chan],
             SettingsOf(chan) = SettingsOf(channel[d])
      PROVE  Goal
  BY <1>0, <1>1
<1>2. CASE \E k \in JoinKey : HandleJoin(a, d, k)
  <2>1. PICK k \in JoinKey :
          channel' = [channel EXCEPT
            ![d] = IF d \in channels THEN AddClient(channel[d], a) ELSE CreateChannel(a, k)]
    BY <1>2 DEF HandleJoin
  <2>2. CASE d \in channels
    BY <1>0, <1>1, <2>1, <2>2, MembersKeepSettings
  <2>3. CASE d \notin channels
    BY <1>0, <2>1, <2>3
  <2> QED BY <2>2, <2>3
<1>3. CASE HandlePart(a, d)
  <2>1. CASE RemoveClient(channel[d], a).clients = {}
    BY <1>0, <1>3, <2>1 DEF HandlePart
  <2>2. CASE RemoveClient(channel[d], a).clients # {}
    BY <1>0, <1>1, <1>3, <2>2, MembersKeepSettings DEF HandlePart
  <2> QED BY <2>1, <2>2
<1>4. CASE \E n \in Nick : HandleKick(a, d, n)
  <2>1. PICK n \in Nick : HandleKick(a, d, n)
    BY <1>4
  <2>2. PICK t \in MembersNamed(d, n) : channel' = [channel EXCEPT ![d] = KickedOut(channel[d], t)]
    BY <2>1 DEF HandleKick
  <2>3. t \in Addr
    BY <1>0 DEF MembersNamed, Channel
  <2> QED BY <1>0, <1>1, <2>2, <2>3, MembersKeepSettings
<1>5. CASE \E n \in Nick : HandleInvite(a, n, d)
  <2>1. PICK t \in clients : channel' = [channel EXCEPT ![d] = InviteClient(channel[d], t)]
    BY <1>5 DEF HandleInvite
  <2> QED BY <1>0, <1>1, <2>1, MembersKeepSettings
<1>6. CASE \E t \in TopicWord : HandleTopic(a, d, t)
  <2>1. PICK t \in TopicWord : channel' = [channel EXCEPT ![d] = SetTopic(channel[d], t)]
    BY <1>6 DEF HandleTopic
  <2> QED BY <1>0, <1>1, <2>1, MembersKeepSettings
<1>7. CASE \E ms \in ModeString, arg \in ModeArg \cup {NoArg} : HandleMode(a, d, ms, arg)
  <2>1. \A ch \in ChanName \ {d} : channel'[ch] = channel[ch]
    BY <1>0, <1>7 DEF HandleMode
  <2> QED BY <1>7, <2>1
<1>8. CASE \E text \in Text : SendMessageToChannel(a, d, text)
  BY <1>8 DEF SendMessageToChannel
<1> QED BY <1>2, <1>3, <1>4, <1>5, <1>6, <1>7, <1>8 DEF ChannelCommand

\* So without an operator the settings stay.
LEMMA CommandKeepsSettings ==
  ASSUME TypeOK, NEW a \in Addr, NEW d \in ChanName, ChannelCommand(a, d),
         NEW ch \in ChanName, Survives(ch), channel[ch].operators = {}
  PROVE  SettingsOf(channel'[ch]) = SettingsOf(channel[ch])
BY CommandSettings DEF HandleMode, IsOperator, Survives

\* A channel that has lost its last operator never has one again, and keeps its
\* modes, key and limit as long as it lives, for any number of clients (handleMode).
THEOREM OrphanedSafe == Spec => OrphanedChannelIsFrozen
<1>1. ASSUME TypeOK, [Next]_vars, NEW ch \in ChanName, Survives(ch), channel[ch].operators = {}
      PROVE  SettingsOf(channel'[ch]) = SettingsOf(channel[ch])
  <2>1. ASSUME UNCHANGED channel PROVE SettingsOf(channel'[ch]) = SettingsOf(channel[ch])
    BY <2>1
  <2>2. ASSUME NEW a \in Addr, Connection(a)
        PROVE  SettingsOf(channel'[ch]) = SettingsOf(channel[ch])
    BY <1>1, <2>1, <2>2, ConnectionOrDisconnect, DisconnectKeepsSettings
  <2>3. ASSUME NEW a \in Addr, NEW d \in ChanName, ChannelCommand(a, d)
        PROVE  SettingsOf(channel'[ch]) = SettingsOf(channel[ch])
    BY <1>1, <2>3, CommandKeepsSettings
  <2>4. ASSUME NEW a \in Addr, NEW n \in Nick, NEW text \in Text, SendMessageToUser(a, n, text)
        PROVE  SettingsOf(channel'[ch]) = SettingsOf(channel[ch])
    BY <2>1, <2>4 DEF SendMessageToUser
  <2> QED BY <1>1, <2>1, <2>2, <2>3, <2>4 DEF Next, vars
<1>2. TypeOK /\ [Next]_vars =>
        [\A ch \in ChanName :
           Survives(ch) /\ channel[ch].operators = {} => Settings(ch)' = Settings(ch)]_vars
  BY <1>1 DEF SettingsOf, Settings
<1> QED BY <1>2, TypeCorrect, PTL DEF Spec, OrphanedChannelIsFrozen

-----------------------------------------------------------------------------
(* The limit and its mark. *)

MarkAgrees(chan) == "l" \in chan.modes <=> chan.clientLimit > 0

\* A channel has the mark 'l' exactly when it has a limit.
LimitMarked == \A ch \in ChanName : MarkAgrees(channel[ch])

\* A MODE sets both or neither, whatever its string and its parameter.
LEMMA ModeKeepsMark ==
  ASSUME NEW chan \in Channel, MarkAgrees(chan), NEW ms, NEW arg, NEW targets
  PROVE  MarkAgrees(ApplyModes(chan, ms, arg, targets))
<1> DEFINE At(f) == {p \in Reached(ms, arg, targets) : ms[p] = f}
           LimSet == {p \in At("l") : Adding(ms, p) => arg.limit >= 0}
           new == ApplyModes(chan, ms, arg, targets)
<1>1. /\ "l" \in new.modes <=> IF LimSet = {} THEN "l" \in chan.modes
                                ELSE LastAdds(ms, LimSet) /\ arg.limit > 0
      /\ new.clientLimit = IF LimSet = {} THEN chan.clientLimit
                           ELSE IF LastAdds(ms, LimSet) THEN arg.limit ELSE -1
  BY DEF ApplyModes, Channel, Flags
<1> HIDE DEF LimSet, new
<1>2. MarkAgrees(new)
  BY <1>1 DEF MarkAgrees
<1> QED BY <1>2 DEF new

\* In a new channel the mark of the limit agrees with the limit.
LEMMA NewMarkAgrees ==
  MarkAgrees(NewChannel) /\ \A a, k : MarkAgrees(CreateChannel(a, k))
<1>1. MarkAgrees(NewChannel)
  BY DEF MarkAgrees, NewChannel
<1>2. ASSUME NEW a, NEW k PROVE MarkAgrees(CreateChannel(a, k))
  <2>1. SetKey(NewChannel, k).modes = {} /\ SetKey(NewChannel, k).clientLimit = -1
    BY DEF SetKey, NewChannel
  <2>2. /\ CreateChannel(a, k).modes = {}
        /\ CreateChannel(a, k).clientLimit = -1
    BY <2>1 DEF CreateChannel, SetKey, NewChannel, AddClient, AddOperator
  <2> QED BY <2>2 DEF MarkAgrees
<1> QED BY <1>1, <1>2

\* _clientLimit and the 'l' of _modes agree in every channel, for any number of
\* clients and any mode strings (setClientLimit, unsetClientLimit).
THEOREM MarksSafe == Spec => []LimitMarked
<1>1. Init => LimitMarked
  BY NewMarkAgrees DEF Init, LimitMarked
<1>2. ASSUME TypeOK, LimitMarked, [Next]_vars PROVE LimitMarked'
  <2>1. \A c, d : SettingsOf(c) = SettingsOf(d) => (MarkAgrees(c) <=> MarkAgrees(d))
    BY DEF SettingsOf, MarkAgrees
  <2>2. CASE UNCHANGED channel
    BY <1>2, <2>2 DEF LimitMarked
  <2>3. ASSUME NEW a \in clients, DisconnectClient(a) PROVE LimitMarked'
    <3>1. a \in Addr /\ channel \in [ChanName -> Channel]
      BY <1>2 DEF TypeOK
    <3>2. \A ch \in ChanName : channel'[ch] \in {NewChannel, channel[ch], RemoveClient(channel[ch], a)}
      BY <2>3 DEF DisconnectClient
    <3>3. \A ch \in ChanName : MarkAgrees(RemoveClient(channel[ch], a))
      BY <1>2, <2>1, <3>1, MembersKeepSettings DEF LimitMarked
    <3>4. \A ch \in ChanName : MarkAgrees(channel'[ch])
      BY <1>2, <3>2, <3>3, NewMarkAgrees DEF LimitMarked
    <3> QED BY <3>4 DEF LimitMarked
  <2>4. ASSUME NEW a \in Addr, NEW d \in ChanName, ChannelCommand(a, d) PROVE LimitMarked'
    <3>1. \A ch \in ChanName \ {d} : MarkAgrees(channel'[ch])
      BY <1>2, <2>4, CommandSettings DEF LimitMarked
    <3>2. ASSUME NEW ms \in ModeString, NEW arg \in ModeArg \cup {NoArg}, HandleMode(a, d, ms, arg)
          PROVE  MarkAgrees(channel'[d])
      <4>1. PICK targets : channel' = [channel EXCEPT ![d] = ApplyModes(channel[d], ms, arg, targets)]
        BY <3>2 DEF HandleMode
      <4>2. channel'[d] = ApplyModes(channel[d], ms, arg, targets) /\ channel[d] \in Channel
        BY <1>2, <4>1 DEF TypeOK
      <4> QED BY <1>2, <4>2, ModeKeepsMark DEF LimitMarked
    <3>3. MarkAgrees(channel'[d])
      BY <1>2, <2>1, <2>4, <3>2, CommandSettings, NewMarkAgrees DEF LimitMarked
    <3>4. \A ch \in ChanName : MarkAgrees(channel'[ch])
      BY <3>1, <3>3
    <3> QED BY <3>4 DEF LimitMarked
  <2>5. ASSUME NEW a \in Addr, NEW n \in Nick, NEW text \in Text, SendMessageToUser(a, n, text)
        PROVE  LimitMarked'
    BY <2>2, <2>5 DEF SendMessageToUser
  <2> QED BY <1>2, <2>2, <2>3, <2>4, <2>5, ConnectionOrDisconnect DEF Next, vars
<1> QED BY <1>1, <1>2, TypeCorrect, PTL DEF Spec

-----------------------------------------------------------------------------
(* The limit. *)

\* The members of ch grow past its limit.
Overfills(ch) ==
  /\ Survives(ch) /\ channel[ch].clientLimit > 0
  /\ Cardinality(channel'[ch].clients) > channel[ch].clientLimit

DoesNotGrow(ch) == Cardinality(channel'[ch].clients) <= Cardinality(channel[ch].clients)

\* A client that comes in was admitted, so there was room for it.
LEMMA JoinFindsRoom ==
  ASSUME IsFiniteSet(Addr), IInv, NEW a \in Addr, NEW ch \in ChanName, NEW k \in JoinKey,
         HandleJoin(a, ch, k)
  PROVE  ~Overfills(ch)
<1> SUFFICES ASSUME Overfills(ch) PROVE FALSE
  OBVIOUS
<1>1. channel[ch] \in Channel /\ channel[ch].clientLimit \in Int /\ channel[ch].clients \subseteq Addr
  BY DEF IInv, TypeOK, Channel
<1>2. IsFiniteSet(channel[ch].clients) /\ Cardinality(channel[ch].clients) \in Nat
  BY <1>1, FS_Subset, FS_CardinalityType
<1>3. ~(Cardinality(channel[ch].clients) >= channel[ch].clientLimit)
  BY DEF HandleJoin, Admits, IsFull, Overfills, Survives
<1>4. /\ a \notin channel[ch].clients
      /\ channel'[ch].clients = channel[ch].clients \cup {a}
  BY JoinEnters DEF Enters
<1>5. Cardinality(channel'[ch].clients) = Cardinality(channel[ch].clients) + 1
  BY <1>2, <1>4, FS_AddElement
<1> QED BY <1>1, <1>2, <1>3, <1>5 DEF Overfills

\* Nobody else comes in.
LEMMA FewerDoNotGrow ==
  ASSUME IsFiniteSet(Addr), IInv, NEW ch \in ChanName,
         channel'[ch].clients \subseteq channel[ch].clients
  PROVE  DoesNotGrow(ch)
<1>1. channel[ch].clients \subseteq Addr
  BY DEF IInv, TypeOK, Channel
<1> QED BY <1>1, FS_Subset DEF DoesNotGrow

\* A channel that has more members than its limit does not grow.
LEMMA CommandFindsRoom ==
  ASSUME IsFiniteSet(Addr), IInv, NEW a \in Addr, NEW d \in ChanName, ChannelCommand(a, d),
         NEW ch \in ChanName, Overfills(ch)
  PROVE  DoesNotGrow(ch)
<1>1. CASE ch # d
  <2>1. channel'[ch] = channel[ch]
    BY <1>1, ChannelCommandEffect DEF Enters, Leaves, Edits, Stays
  <2> QED BY <2>1, FewerDoNotGrow
<1>2. CASE ch = d
  <2>1. CASE \E k \in JoinKey : HandleJoin(a, d, k)
    BY <1>2, <2>1, JoinFindsRoom
  <2>2. CASE HandlePart(a, d) \/ \E n \in Nick : HandleKick(a, d, n)
    <3>1. channel'[d].clients \subseteq channel[d].clients
      BY <2>2, PartLeaves, KickLeaves DEF Leaves
    <3> QED BY <1>2, <3>1, FewerDoNotGrow
  <2>3. CASE Stays(d)
    BY <1>2, <2>3, FewerDoNotGrow DEF Stays
  <2> QED BY <2>1, <2>2, <2>3, OthersStay DEF ChannelCommand
<1> QED BY <1>1, <1>2

\* A channel at or past its limit admits nobody, invited or not, for any finite
\* number of clients (handleJoin, isFull).
THEOREM LimitSafe ==
  ASSUME IsFiniteSet(Addr)
  PROVE  Spec => FullChannelAdmitsNobody
<1>1. ASSUME IInv, [Next]_vars, NEW ch \in ChanName, Overfills(ch) PROVE DoesNotGrow(ch)
  <2>1. ASSUME UNCHANGED channel PROVE DoesNotGrow(ch)
    BY <1>1, <2>1, FewerDoNotGrow
  <2>2. ASSUME NEW a \in Addr, Connection(a) PROVE DoesNotGrow(ch)
    <3>1. CASE a \in clients /\ DisconnectClient(a)
      BY <1>1, <3>1, DisconnectEffect, FewerDoNotGrow
    <3> QED BY <2>1, <2>2, <3>1, ConnectionOrDisconnect
  <2>3. ASSUME NEW a \in Addr, NEW d \in ChanName, ChannelCommand(a, d) PROVE DoesNotGrow(ch)
    BY <1>1, <2>3, CommandFindsRoom
  <2>4. ASSUME NEW a \in Addr, NEW n \in Nick, NEW text \in Text, SendMessageToUser(a, n, text)
        PROVE  DoesNotGrow(ch)
    BY <2>1, <2>4 DEF SendMessageToUser
  <2> QED BY <1>1, <2>1, <2>2, <2>3, <2>4 DEF Next, vars
<1>2. IInv /\ [Next]_vars =>
        [\A ch \in ChanName :
           /\ Survives(ch) /\ channel[ch].clientLimit > 0
           /\ Cardinality(channel'[ch].clients) > channel[ch].clientLimit
           => Cardinality(channel'[ch].clients) <= Cardinality(channel[ch].clients)]_vars
  BY <1>1 DEF Overfills, DoesNotGrow
<1> QED BY <1>2, Invariant, PTL DEF Spec, FullChannelAdmitsNobody

-----------------------------------------------------------------------------
(* Messages. *)

\* A message that was sent has the fields it was sent with.
LEMMA SendFields ==
  ASSUME NEW S, NEW type, NEW nick, NEW chan, NEW arg, NEW p \in Send(S, type, nick, chan, arg)
  PROVE  p.to \in S /\ p.type = type /\ p.nick = nick /\ p.chan = chan /\ p.arg = arg
BY DEF Send

\* Send reaches exactly the clients it is meant for.
LEMMA SendReaches ==
  ASSUME NEW S, NEW type, NEW nick, NEW chan, NEW arg
  PROVE  {q.to : q \in Send(S, type, nick, chan, arg)} = S
<1>1. ASSUME NEW b \in S PROVE \E q \in Send(S, type, nick, chan, arg) : q.to = b
  <2> DEFINE p == [to |-> b, type |-> type, nick |-> nick, chan |-> chan, arg |-> arg]
  <2>1. p \in Send(S, type, nick, chan, arg) /\ p.to = b
    BY DEF Send
  <2> QED BY <2>1
<1>2. \A q \in Send(S, type, nick, chan, arg) : q.to \in S
  BY SendFields
<1> QED BY <1>1, <1>2

NoChannelMessage == \A p \in out : ~(p.type = "PRIVMSG" /\ p.chan # None)

\* Disconnecting a client is no message to a channel.
LEMMA DisconnectIsNoMessage ==
  ASSUME NEW a, DisconnectClient(a) PROVE NoChannelMessage'
<1> SUFFICES ASSUME NEW p \in out' PROVE p.type = "QUIT"
  BY DEF NoChannelMessage
<1>1. PICK ch \in Visited(a) :
        p \in Send(channel[ch].clients \ {a}, "QUIT", client[a].nick, None, None)
  BY DEF DisconnectClient
<1> QED BY <1>1, SendFields

\* Nor is whatever a client does about its connection.
LEMMA ConnectionIsNoMessage ==
  ASSUME NEW a \in Addr, Connection(a) PROVE NoChannelMessage'
<1>1. CASE DisconnectClient(a)
  BY <1>1, DisconnectIsNoMessage
<1>2. CASE out' = {}
  BY <1>2 DEF NoChannelMessage
<1>3. ASSUME NEW n \in Nick, HandleNick(a, n), ~DisconnectClient(a) PROVE NoChannelMessage'
  <2>1. CASE client[a].registered
    BY <1>3, <2>1, SendFields DEF HandleNick, NoChannelMessage
  <2>2. CASE ~client[a].registered
    BY <1>2, <1>3, <2>2 DEF HandleNick
  <2> QED BY <2>1, <2>2
<1> QED BY <1>1, <1>2, <1>3 DEF Connection, AcceptNewClient, PeerClosed, HandlePass, HandleUser

\* Nor is any command but PRIVMSG.
LEMMA CommandIsNoMessage ==
  ASSUME NEW a \in Addr, NEW ch \in ChanName, ChannelCommand(a, ch),
         ~ \E text \in Text : SendMessageToChannel(a, ch, text)
  PROVE  NoChannelMessage'
<1> USE SendFields DEF NoChannelMessage
<1>1. ASSUME NEW k \in JoinKey, HandleJoin(a, ch, k) PROVE NoChannelMessage'
  BY <1>1 DEF HandleJoin
<1>2. ASSUME HandlePart(a, ch) PROVE NoChannelMessage'
  BY <1>2 DEF HandlePart
<1>3. ASSUME NEW n \in Nick, HandleKick(a, ch, n) PROVE NoChannelMessage'
  BY <1>3 DEF HandleKick
<1>4. ASSUME NEW n \in Nick, HandleInvite(a, n, ch) PROVE NoChannelMessage'
  BY <1>4 DEF HandleInvite
<1>5. ASSUME NEW t \in TopicWord, HandleTopic(a, ch, t) PROVE NoChannelMessage'
  BY <1>5 DEF HandleTopic
<1>6. ASSUME NEW ms \in ModeString, NEW arg \in ModeArg \cup {NoArg}, HandleMode(a, ch, ms, arg)
      PROVE  NoChannelMessage'
  BY <1>6 DEF HandleMode
<1> QED BY <1>1, <1>2, <1>3, <1>4, <1>5, <1>6 DEF ChannelCommand

\* The members with the sender's nickname are the sender, because nicknames are
\* unique and a registered client has one.
LEMMA MessageSkipsSender ==
  ASSUME IInv, NEW a \in Addr, NEW ch \in ChanName, NEW text \in Text,
         SendMessageToChannel(a, ch, text)
  PROVE  OnlySenderIsSkipped'
<1> DEFINE members == channel[ch].clients
           receivers == {b \in members : client[b].nick # client[a].nick}
<1> USE DEF IInv
<1>1. /\ a \in clients /\ client[a].registered /\ a \in members
      /\ channel' = channel
      /\ out' = Send(receivers, "PRIVMSG", client[a].nick, ch, text)
  BY DEF SendMessageToChannel, MayAct, Registered, IsInChannel, MembershipAgrees
<1>2. client[a].nick # NoNick
  BY <1>1 DEF RegisteredByHandshake, NickGiven
<1>3. members \subseteq clients
  BY DEF TypeOK, Channel, MembershipAgrees
<1>4. members \ receivers = {a}
  BY <1>1, <1>2, <1>3 DEF NicknamesUnique
<1>5. {q.to : q \in out'} = receivers
  <2> HIDE DEF receivers, IInv
  <2>1. {q.to : q \in Send(receivers, "PRIVMSG", client[a].nick, ch, text)} = receivers
    BY ONLY SendReaches
  <2> QED BY <1>1, <2>1, Zenon
<1>6. \A p \in out' : p.chan = ch
  BY <1>1, SendFields
<1> QED BY <1>1, <1>4, <1>5, <1>6, FS_Singleton DEF OnlySenderIsSkipped

\* A channel message is kept from its sender and from no other member, for any
\* number of clients (sendMessageToChannel).
THEOREM MessageSafe == Spec => []OnlySenderIsSkipped
<1>1. Init => OnlySenderIsSkipped
  BY DEF Init, OnlySenderIsSkipped
<1>2. ASSUME IInv, OnlySenderIsSkipped, [Next]_vars PROVE OnlySenderIsSkipped'
  <2>1. ASSUME NoChannelMessage' PROVE OnlySenderIsSkipped'
    BY <2>1 DEF NoChannelMessage, OnlySenderIsSkipped
  <2>2. CASE UNCHANGED vars
    BY <1>2, <2>2 DEF OnlySenderIsSkipped, vars
  <2>3. ASSUME NEW a \in Addr, Connection(a) PROVE OnlySenderIsSkipped'
    BY <2>1, <2>3, ConnectionIsNoMessage
  <2>4. ASSUME NEW a \in Addr, NEW ch \in ChanName, ChannelCommand(a, ch)
        PROVE  OnlySenderIsSkipped'
    BY <1>2, <2>1, <2>4, CommandIsNoMessage, MessageSkipsSender
  <2>5. ASSUME NEW a \in Addr, NEW n \in Nick, NEW text \in Text, SendMessageToUser(a, n, text)
        PROVE  OnlySenderIsSkipped'
    BY <2>1, <2>5, SendFields DEF SendMessageToUser, NoChannelMessage
  <2> QED BY <1>2, <2>2, <2>3, <2>4, <2>5 DEF Next
<1> QED BY <1>1, <1>2, Invariant, PTL DEF Spec
=============================================================================
