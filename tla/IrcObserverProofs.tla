------------------------- MODULE IrcObserverProofs -------------------------
(***************************************************************************)
(* Proofs about the modules that watch IrcServer: that it implements       *)
(* Presence; that what clients are told adds up to who is a member         *)
(* (ClientViews); and, when no address is given twice, that operators and  *)
(* invited clients are those who were made so (PrivilegeHistory).          *)
(***************************************************************************)
EXTENDS IrcPresence, ClientViews, PrivilegeHistory, IrcServerProofs

-----------------------------------------------------------------------------
(* IrcServer implements Presence: each handler is a step of it, or leaves what
   it sees as it was. *)

Seen == <<PresentUsers, NameOf, MembersOf>>

\* The server starts as its abstract specification does.
LEMMA InitRefines == Init => P!Init
BY DEF Init, P!Init, PresentUsers, NameOf, MembersOf, NewClient, NewChannel

\* Nothing Presence sees changes when registrations, the nicknames of the
\* registered and the members do not.
LEMMA SeenUnchanged ==
  ASSUME \A b \in Addr : /\ client'[b].registered <=> client[b].registered
                         /\ client[b].registered => client'[b].nick = client[b].nick,
         \A ch \in ChanName : channel'[ch].clients = channel[ch].clients
  PROVE  UNCHANGED Seen
BY DEF Seen, PresentUsers, NameOf, MembersOf

\* Disconnecting a client is a departure, or nothing that is seen.
LEMMA DisconnectRefines ==
  ASSUME IInv, NEW a \in clients, DisconnectClient(a)
  PROVE  P!Next \/ UNCHANGED Seen
<1>1. a \in Addr
  BY DEF IInv, TypeOK
<1>2. /\ \A b \in Addr : client'[b] = IF b = a THEN NewClient ELSE client[b]
      /\ \A ch \in ChanName : channel'[ch].clients = channel[ch].clients \ {a}
  BY DisconnectEffect
<1>5. ~NewClient.registered
  BY DEF NewClient
<1>3. CASE client[a].registered
  <2>1. PresentUsers' = PresentUsers \ {a} /\ a \in PresentUsers
    BY <1>1, <1>2, <1>3 DEF PresentUsers, NewClient
  <2>2. NameOf' = [NameOf EXCEPT ![a] = NoNick]
    <3>1. ASSUME NEW b \in Addr PROVE NameOf'[b] = IF b = a THEN NoNick ELSE NameOf[b]
      <4>1. CASE b = a
        BY <1>2, <1>5, <4>1 DEF NameOf
      <4>2. CASE b # a
        BY <1>2, <4>2 DEF NameOf
      <4> QED BY <4>1, <4>2
    <3> QED BY <3>1 DEF NameOf
  <2>3. MembersOf' = [ch \in ChanName |-> MembersOf[ch] \ {a}]
    BY <1>2 DEF MembersOf
  <2>4. P!Depart(a)
    BY <2>1, <2>2, <2>3 DEF P!Depart
  <2> QED BY <1>1, <2>4 DEF P!Next
<1>4. CASE ~client[a].registered
  <2>1. \A ch \in ChanName : a \notin channel[ch].clients
    BY <1>1, <1>4 DEF IInv, MembershipAgrees, RegisteredByHandshake
  <2>2. \A ch \in ChanName : channel'[ch].clients = channel[ch].clients
    BY <1>2, <2>1
  <2>3. \A b \in Addr : /\ client'[b].registered <=> client[b].registered
                        /\ client[b].registered => client'[b].nick = client[b].nick
    BY <1>2, <1>5, <1>4
  <2>4. UNCHANGED Seen
    BY <2>2, <2>3, SeenUnchanged
  <2> QED BY <2>4
<1> QED BY <1>3, <1>4

\* A client that takes a nickname free among all clients, or completes its
\* handshake, arrives or is renamed.
LEMMA NamingRefines ==
  ASSUME IInv, IInv', NEW a \in clients,
         UNCHANGED <<clients, channels, channel>>,
         \A b \in Addr \ {a} : client'[b] = client[b],
         client[a].registered => client'[a].registered
  PROVE  P!Next \/ UNCHANGED Seen
<1>1. a \in Addr /\ \A b \in Addr : client[b].registered => b \in clients
  <2>1. \A b \in Addr : client[b].registered => b \in clients
    BY DEF IInv, FreedIsBlank, NewClient
  <2> QED BY <2>1 DEF IInv, TypeOK
<1> DEFINE n == client'[a].nick
<1>2. CASE ~client'[a].registered
  BY <1>2, SeenUnchanged
<1>3. CASE client'[a].registered
  <2>1. n \in Nick
    <3>1. client'[a].sentNickname /\ client'[a] \in Client
      BY <1>1, <1>3 DEF IInv, RegisteredByHandshake, TypeOK
    <3>2. n # NoNick
      BY <1>1, <3>1 DEF IInv, NickGiven
    <3> QED BY <3>1, <3>2 DEF Client
  <2>2. \A b \in PresentUsers \ {a} : NameOf[b] # n
    <3>1. \A b \in PresentUsers \ {a} : b \in clients' /\ client'[b].nick = NameOf[b]
      BY <1>1 DEF PresentUsers, NameOf
    <3> QED BY <2>1, <3>1, ConstantsAssumption DEF IInv, NicknamesUnique
  <2>3. PresentUsers' = PresentUsers \cup {a} /\ UNCHANGED MembersOf
    BY <1>1, <1>3 DEF PresentUsers, MembersOf
  <2>4. NameOf' = [NameOf EXCEPT ![a] = n]
    BY <1>1, <1>3 DEF NameOf
  <2>5. P!Arrive(a, n) \/ P!Rename(a, n)
    <3> HIDE DEF n
    <3> QED BY <2>1, <2>2, <2>3, <2>4 DEF P!Arrive, P!Rename, P!Free
  <2> HIDE DEF n
  <2> QED BY <1>1, <2>1, <2>5 DEF P!Next
<1> QED BY <1>2, <1>3

\* So is whatever a client does about its connection: accept, PASS, NICK,
\* USER, QUIT.
LEMMA ConnectionRefines ==
  ASSUME IInv, IInv', NEW a \in Addr, Connection(a)
  PROVE  P!Next \/ UNCHANGED Seen
<1>1. CASE AcceptNewClient(a)
  BY <1>1, SeenUnchanged DEF AcceptNewClient, IInv, FreedIsBlank, TypeOK
<1>2. CASE a \in clients /\ DisconnectClient(a)
  BY <1>2, DisconnectRefines
<1>3. ASSUME ~DisconnectClient(a), ~AcceptNewClient(a)
      PROVE  /\ a \in clients /\ UNCHANGED <<clients, channels, channel>>
             /\ \A b \in Addr \ {a} : client'[b] = client[b]
  BY <1>3 DEF Connection, PeerClosed, HandlePass, HandleNick, HandleUser, IInv, TypeOK
<1>4. ASSUME ~DisconnectClient(a), ~AcceptNewClient(a), client[a].registered
      PROVE  client'[a].registered
  <2>1. client[a] \in Client
    BY DEF IInv, TypeOK
  <2>2. CASE \E ok \in BOOLEAN : HandlePass(a, ok)
    BY <1>4, <2>2 DEF HandlePass, IInv, RegisteredByHandshake
  <2>3. CASE \E n \in Nick : HandleNick(a, n)
    <3>1. PICK n \in Nick : client'[a] =
            RegisterIfReady([client[a] EXCEPT !.nick = n, !.sentNickname = TRUE])
      BY <1>4, <2>3 DEF HandleNick, IInv, TypeOK
    <3> QED BY <1>4, <2>1, <3>1 DEF RegisterIfReady, Client
  <2>4. CASE HandleUser(a)
    BY <1>4, <2>4 DEF HandleUser, IInv, RegisteredByHandshake
  <2> QED BY <1>4, <2>2, <2>3, <2>4 DEF Connection, PeerClosed
<1>5. ~DisconnectClient(a) \/ a \in clients \/ AcceptNewClient(a)
  BY DEF Connection, PeerClosed, HandlePass, HandleNick, HandleUser
<1> QED BY <1>1, <1>2, <1>3, <1>4, <1>5, NamingRefines

\* Entering and leaving a channel are steps of the abstract specification.
LEMMA EditsRefines ==
  ASSUME IInv, NEW t \in Addr, NEW ch \in ChanName, Enters(t, ch) \/ Leaves(t, ch)
  PROVE  P!Next
<1>1. Edits(t, ch)
  BY DEF Enters, Leaves
<1>2. \A b \in Addr : /\ client'[b].registered <=> client[b].registered
                      /\ client'[b].nick = client[b].nick
  BY <1>1 DEF Edits, SameButChannels
<1>3. UNCHANGED <<PresentUsers, NameOf>> /\ t \in PresentUsers
  BY <1>1, <1>2 DEF PresentUsers, NameOf, Edits
<1>4. \A d \in ChanName \ {ch} : channel'[d].clients = channel[d].clients
  BY <1>1 DEF Edits
<1>5. CASE Enters(t, ch)
  <2>1. MembersOf' = [MembersOf EXCEPT ![ch] = @ \cup {t}]
    BY <1>4, <1>5 DEF MembersOf, Enters
  <2>2. P!Enter(t, ch)
    BY <1>3, <1>5, <2>1 DEF P!Enter, MembersOf, Enters
  <2> QED BY <2>2 DEF P!Next
<1>6. CASE Leaves(t, ch)
  <2>1. MembersOf' = [MembersOf EXCEPT ![ch] = @ \ {t}]
    BY <1>4, <1>6 DEF MembersOf, Leaves
  <2>2. P!Leave(t, ch)
    BY <1>3, <1>6, <2>1 DEF P!Leave, MembersOf, Leaves
  <2> QED BY <2>2 DEF P!Next
<1> QED BY <1>5, <1>6

\* So is every command about a channel, or nothing is seen of it.
LEMMA ChannelCommandRefines ==
  ASSUME IInv, NEW a \in Addr, NEW ch \in ChanName, ChannelCommand(a, ch)
  PROVE  P!Next \/ UNCHANGED Seen
<1>1. Stays(ch) => UNCHANGED Seen
  BY SeenUnchanged DEF Stays
<1> QED BY <1>1, ChannelCommandEffect, EditsRefines

\* Every step of the server is one of the abstract specification, or a
\* stutter.
LEMMA StepRefines == IInv /\ IInv' /\ [Next]_vars => P!Next \/ UNCHANGED Seen
<1> SUFFICES ASSUME IInv, IInv', [Next]_vars PROVE P!Next \/ UNCHANGED Seen
  OBVIOUS
<1>1. ASSUME UNCHANGED <<clients, client, channels, channel>> PROVE UNCHANGED Seen
  BY <1>1, SeenUnchanged
<1>2. ASSUME NEW a \in Addr, NEW n \in Nick, NEW text \in Text, SendMessageToUser(a, n, text)
      PROVE  UNCHANGED Seen
  BY <1>1, <1>2 DEF SendMessageToUser
<1> QED BY <1>1, <1>2, ConnectionRefines, ChannelCommandRefines DEF Next, vars

\* The server implements Presence: no interleaving of connections, commands and
\* disconnections, of any number of clients, shows a member that is not a present
\* user, two users of one name, or a user gone from one channel and not another.
THEOREM RefinesPresence == Spec => ImplementsPresence
<1>1. Init => P!Init
  BY InitRefines
<1>2. IInv /\ IInv' /\ [Next]_vars => [P!Next]_(P!vars)
  BY StepRefines DEF P!vars, Seen
<1> QED BY <1>1, <1>2, Invariant, PTL DEF Spec, ImplementsPresence, P!Spec
-----------------------------------------------------------------------------
(* What clients are told. *)

Names(ch) == {client[b].nick : b \in channel[ch].clients}

\* What client a should list in ch.
Listed(a, ch) == IF IsInChannel(a, ch) THEN Names(ch) ELSE {}

\* The lists are those of the members; who has no Client object lists nothing.
ViewInv ==
  /\ IInv
  /\ \A a \in Addr, ch \in ChanName : view[a][ch] = Listed(a, ch)

\* The messages a list is made of.
ListTypes == {"NAMES", "JOIN", "PART", "KICK", "QUIT", "NICK"}

-----------------------------------------------------------------------------
(* What is heard of a step. *)

\* Who is sent no message about membership keeps its view.
LEMMA HeardNothing ==
  ASSUME NEW a, NEW ch, \A type \in ListTypes : Got(a, type) = {}
  PROVE  Heard(a, ch) = view[a][ch]
<1>1. /\ Got(a, "NAMES") = {} /\ Got(a, "JOIN") = {} /\ Got(a, "PART") = {}
      /\ Got(a, "KICK") = {} /\ Got(a, "QUIT") = {} /\ Got(a, "NICK") = {}
  BY DEF ListTypes
<1>2. ch \notin LeftByOwn(a) /\ Gone(a, ch) = {}
  BY <1>1 DEF LeftByOwn, Gone, NicksIn, Nicks
<1>3. NicksIn(Got(a, "NAMES"), ch) = {} /\ NicksIn(Got(a, "JOIN"), ch) = {}
  BY <1>1 DEF NicksIn
<1>4. \A n : Renamed(a, n) = n
  BY <1>1 DEF Renamed
<1> QED BY <1>2, <1>3, <1>4 DEF Heard

\* Without NAMES, NICK and a departure of its own, entering and leaving nicknames
\* edit the list.
LEMMA HeardEdit ==
  ASSUME NEW a, NEW ch, NicksIn(Got(a, "NAMES"), ch) = {}, Got(a, "NICK") = {},
         ch \notin LeftByOwn(a)
  PROVE  Heard(a, ch) = (view[a][ch] \cup NicksIn(Got(a, "JOIN"), ch)) \ Gone(a, ch)
<1>1. \A n : Renamed(a, n) = n
  BY DEF Renamed
<1> QED BY <1>1 DEF Heard

\* The messages of one Send.
LEMMA GotOfSend ==
  ASSUME NEW S, NEW type, NEW nick, NEW chan, NEW arg,
         out' = Send(S, type, nick, chan, arg), NEW a
  PROVE  /\ \A y : y # type \/ a \notin S => Got(a, y) = {}
         /\ a \in S => Got(a, type) =
              {[to |-> a, type |-> type, nick |-> nick, chan |-> chan, arg |-> arg]}
<1>1. \A y : y # type \/ a \notin S => Got(a, y) = {}
  BY SendFields DEF Got
<1>2. ASSUME a \in S
      PROVE  Got(a, type) =
               {[to |-> a, type |-> type, nick |-> nick, chan |-> chan, arg |-> arg]}
  BY <1>2 DEF Got, Send
<1> QED BY <1>1, <1>2

\* The messages of one Send to each of several groups, which may overlap.
LEMMA GotOfSends ==
  ASSUME NEW C, NEW type, NEW nick, NEW arg,
         out' = UNION {Send(S, type, nick, None, arg) : S \in C}, NEW a
  PROVE  /\ \A y : y # type => Got(a, y) = {}
         /\ ~ (\E S \in C : a \in S) => Got(a, type) = {}
         /\ (\E S \in C : a \in S) => Got(a, type) =
              {[to |-> a, type |-> type, nick |-> nick, chan |-> None, arg |-> arg]}
<1> DEFINE q == [to |-> a, type |-> type, nick |-> nick, chan |-> None, arg |-> arg]
<1>1. ASSUME NEW p \in out', p.to = a PROVE p = q /\ p.type = type /\ \E S \in C : a \in S
  <2>1. PICK S \in C : p \in Send(S, type, nick, None, arg)
    OBVIOUS
  <2> QED BY <1>1, <2>1 DEF Send
<1>2. ASSUME NEW S \in C, a \in S PROVE q \in out' /\ q.to = a /\ q.type = type
  <2>1. q \in Send(S, type, nick, None, arg)
    BY <1>2 DEF Send
  <2> QED BY <2>1
<1> HIDE DEF q
<1>3. \A y : \A p \in Got(a, y) : p = q /\ y = type /\ \E S \in C : a \in S
  BY <1>1 DEF Got
<1>4. (\E S \in C : a \in S) => q \in Got(a, type)
  BY <1>2 DEF Got
<1>5. (\E S \in C : a \in S) => Got(a, type) = {q}
  BY <1>3, <1>4
<1> QED BY <1>3, <1>5 DEF q

\* No two members of a channel have the same nickname, nor has anybody outside it
\* the nickname of a member.
LEMMA NamesApart ==
  ASSUME IInv, NEW b \in clients, client[b].nick # NoNick, NEW ch \in ChanName
  PROVE  /\ b \notin channel[ch].clients => client[b].nick \notin Names(ch)
         /\ {client[c].nick : c \in channel[ch].clients \ {b}} = Names(ch) \ {client[b].nick}
<1>1. channel[ch].clients \subseteq clients
  BY DEF IInv, TypeOK, Channel, MembershipAgrees
<1>2. \A c \in channel[ch].clients \ {b} : client[c].nick # client[b].nick
  BY <1>1 DEF IInv, NicknamesUnique
<1> QED BY <1>2 DEF Names

\* A member has a nickname.
LEMMA MemberHasNick ==
  ASSUME IInv, NEW a \in Addr, client[a].registered \/ client[a].channels # {}
  PROVE  client[a].nick \in Nick /\ client[a].nick # NoNick /\ a \in clients
<1>1. client[a].registered
  BY DEF IInv, RegisteredByHandshake
<1>2. client[a].nick # NoNick
  BY <1>1 DEF IInv, RegisteredByHandshake, NickGiven
<1>3. client[a] \in Client
  BY DEF IInv, TypeOK
<1>4. a \in clients
  BY <1>1 DEF IInv, FreedIsBlank, NewClient
<1> QED BY <1>2, <1>3, <1>4 DEF Client

-----------------------------------------------------------------------------
(* One lemma for each kind of step. *)

Tells(a, ch) == Heard(a, ch) = Listed(a, ch)'

\* A step that changes no nickname and no membership and sends nothing a list is
\* made of.
LEMMA QuietTells ==
  ASSUME ViewInv, NEW a \in Addr, NEW ch \in ChanName,
         \A type \in ListTypes : Got(a, type) = {},
         \A d \in ChanName : channel'[d].clients = channel[d].clients,
         \A b \in Addr : client'[b].channels = client[b].channels,
         \A b \in channel[ch].clients : client'[b].nick = client[b].nick
  PROVE  Tells(a, ch)
<1>1. Heard(a, ch) = Listed(a, ch)
  BY HeardNothing DEF ViewInv
<1>2. Names(ch)' = Names(ch)
  BY DEF Names
<1>3. Listed(a, ch)' = Listed(a, ch)
  BY <1>2 DEF Listed, IsInChannel
<1> QED BY <1>1, <1>3 DEF Tells

\* Those who share a channel with a client that is gone are told.
LEMMA DisconnectTells ==
  ASSUME ViewInv, NEW b \in clients, DisconnectClient(b), NEW a \in clients', NEW ch \in ChanName
  PROVE  Tells(a, ch)
<1>1. a # b /\ a \in Addr /\ b \in Addr /\ IInv
  BY DEF DisconnectClient, ViewInv, IInv, TypeOK
<1>2. /\ \A c \in Addr : client'[c] = IF c = b THEN NewClient ELSE client[c]
      /\ \A d \in ChanName : channel'[d].clients = channel[d].clients \ {b}
  BY <1>1, DisconnectEffect
<1>3. channel[ch].clients \subseteq Addr
  BY <1>1 DEF IInv, TypeOK, Channel
<1> DEFINE C == {channel[d].clients \ {b} : d \in client[b].channels}
           Shared == \E d \in client[b].channels : a \in channel[d].clients
           q == [to |-> a, type |-> "QUIT", nick |-> client[b].nick, chan |-> None, arg |-> None]
<1>4. out' = UNION {Send(S, "QUIT", client[b].nick, None, None) : S \in C}
  BY DEF DisconnectClient, Visited
<1>5. /\ \A type : type # "QUIT" => Got(a, type) = {}
      /\ Shared => Got(a, "QUIT") = {q}
      /\ ~Shared => Got(a, "QUIT") = {}
  <2>1. Shared <=> \E S \in C : a \in S
    <3>1. \A d \in client[b].channels :
            channel[d].clients \ {b} \in C /\ (a \in channel[d].clients \ {b} <=> a \in channel[d].clients)
      BY <1>1
    <3>2. \A S \in C : \E d \in client[b].channels : S = channel[d].clients \ {b}
      OBVIOUS
    <3> HIDE DEF C
    <3> QED BY <3>1, <3>2
  <2> HIDE DEF C, Shared
  <2> QED BY <1>4, <2>1, GotOfSends
<1>6. Heard(a, ch) = view[a][ch] \ (IF Shared THEN {client[b].nick} ELSE {})
  <2>1. /\ Got(a, "PART") = {} /\ Got(a, "KICK") = {} /\ Got(a, "JOIN") = {}
        /\ Got(a, "NAMES") = {} /\ Got(a, "NICK") = {}
    BY <1>5
  <2>2. /\ ch \notin LeftByOwn(a)
        /\ NicksIn(Got(a, "JOIN"), ch) = {} /\ NicksIn(Got(a, "NAMES"), ch) = {}
    BY <2>1 DEF LeftByOwn, NicksIn
  <2>3. Gone(a, ch) = Nicks(Got(a, "QUIT"))
    BY <2>1 DEF Gone, NicksIn
  <2>4. Nicks({q}) = {client[b].nick} /\ Nicks({}) = {}
    BY DEF Nicks
  <2> HIDE DEF Shared, q
  <2>5. Gone(a, ch) = IF Shared THEN {client[b].nick} ELSE {}
    BY <1>5, <2>3, <2>4
  <2> QED BY <2>1, <2>2, <2>5, HeardEdit
<1>7. Names(ch)' = {client[c].nick : c \in channel[ch].clients \ {b}}
  BY <1>2, <1>3 DEF Names
<1>8. IsInChannel(a, ch)' <=> IsInChannel(a, ch)
  BY <1>1, <1>2 DEF IsInChannel
<1>9. CASE ~IsInChannel(a, ch)
  BY <1>1, <1>6, <1>8, <1>9 DEF ViewInv, Listed, Tells
<1>10. CASE IsInChannel(a, ch)
  <2>1. view[a][ch] = Names(ch) /\ Listed(a, ch)' = Names(ch)'
    BY <1>1, <1>8, <1>10 DEF ViewInv, Listed
  <2>2. CASE Shared
    <3>1. client[b].nick # NoNick
      BY <1>1, <2>2, MemberHasNick
    <3> QED BY <1>1, <1>6, <1>7, <2>1, <2>2, <3>1, NamesApart DEF Tells
  <2>3. CASE ~Shared
    <3>1. b \notin channel[ch].clients
      BY <1>1, <1>10, <2>3 DEF IsInChannel, IInv, MembershipAgrees
    <3> QED BY <1>6, <1>7, <2>1, <2>3, <3>1 DEF Tells, Names
  <2> QED BY <2>2, <2>3
<1> QED BY <1>9, <1>10

\* Accepting a client tells nobody about a channel, and changes none.
LEMMA AcceptTells ==
  ASSUME ViewInv, NEW b \in Addr, AcceptNewClient(b), NEW a \in Addr, NEW ch \in ChanName
  PROVE  Tells(a, ch)
<1>1. \A c \in Addr : client'[c] = client[c]
  BY DEF ViewInv, IInv, AcceptNewClient, FreedIsBlank, TypeOK
<1>2. channel[ch].clients \subseteq Addr
  BY DEF ViewInv, IInv, TypeOK, Channel
<1>3. \A type : Got(a, type) = {}
  BY DEF AcceptNewClient, Got
<1>4. channel' = channel
  BY DEF AcceptNewClient
<1> QED BY <1>1, <1>2, <1>3, <1>4, QuietTells

\* PASS and USER tell nobody anything and change no nickname and no membership.
LEMMA HandshakeTells ==
  ASSUME ViewInv, NEW b \in Addr, ~DisconnectClient(b),
         (\E ok \in BOOLEAN : HandlePass(b, ok)) \/ HandleUser(b),
         NEW a \in Addr, NEW ch \in ChanName
  PROVE  Tells(a, ch)
<1>1. client \in [Addr -> Client] /\ channel[ch].clients \subseteq Addr /\ client[b] \in Client
  BY DEF ViewInv, IInv, TypeOK, Channel
<1>2. out' = {} /\ channel' = channel
  BY DEF HandlePass, HandleUser
<1>3. \/ client' = [client EXCEPT ![b].sentPassword = TRUE]
      \/ client' = [client EXCEPT ![b] = RegisterIfReady([@ EXCEPT !.sentUsername = TRUE])]
  BY DEF HandlePass, HandleUser
<1>4. \A c \in Addr : client'[c].nick = client[c].nick /\ client'[c].channels = client[c].channels
  <2>1. CASE client' = [client EXCEPT ![b].sentPassword = TRUE]
    BY <1>1, <2>1 DEF Client
  <2>2. CASE client' = [client EXCEPT ![b] = RegisterIfReady([@ EXCEPT !.sentUsername = TRUE])]
    <3>1. \A c \in Addr \ {b} : client'[c] = client[c]
      BY <1>1, <2>2
    <3>2. client'[b] = RegisterIfReady([client[b] EXCEPT !.sentUsername = TRUE])
      BY <1>1, <2>2
    <3>3. client'[b].nick = client[b].nick /\ client'[b].channels = client[b].channels
      BY <1>1, <3>2 DEF RegisterIfReady, Client
    <3> QED BY <3>1, <3>3
  <2> QED BY <1>3, <2>1, <2>2
<1>5. \A type : Got(a, type) = {}
  BY <1>2 DEF Got
<1> QED BY <1>1, <1>2, <1>4, <1>5, QuietTells

\* A NICK is heard by all who list the client, once, whatever channels they share.
LEMMA NickTells ==
  ASSUME ViewInv, NEW b \in Addr, ~DisconnectClient(b), NEW n \in Nick, HandleNick(b, n),
         NEW a \in Addr, NEW ch \in ChanName
  PROVE  Tells(a, ch)
<1> DEFINE old == client[b].nick
           members == channel[ch].clients
<1>1. /\ client \in [Addr -> Client] /\ members \subseteq Addr /\ client[b] \in Client /\ IInv
      /\ b \in clients /\ channel' = channel
      /\ client' = [client EXCEPT ![b] = RegisterIfReady([@ EXCEPT !.nick = n, !.sentNickname = TRUE])]
  BY DEF ViewInv, IInv, TypeOK, Channel, HandleNick
<1>2. /\ \A c \in Addr \ {b} : client'[c] = client[c]
      /\ client'[b].nick = n /\ client'[b].channels = client[b].channels
  <2>1. client'[b] = RegisterIfReady([client[b] EXCEPT !.nick = n, !.sentNickname = TRUE])
    BY <1>1
  <2>2. client'[b].nick = n /\ client'[b].channels = client[b].channels
    BY <1>1, <2>1 DEF RegisterIfReady, Client
  <2> QED BY <1>1, <2>2
<1>3. \A c \in Addr : IsInChannel(c, ch)' <=> IsInChannel(c, ch)
  BY <1>2 DEF IsInChannel
<1>4. CASE ~client[b].registered
  <2>1. b \notin members
    BY <1>1, <1>4 DEF IInv, MembershipAgrees, RegisteredByHandshake
  <2>2. \A type : Got(a, type) = {}
    BY <1>4 DEF HandleNick, Got
  <2> QED BY <1>1, <1>2, <2>1, <2>2, QuietTells
<1>5. CASE client[b].registered
  <2> DEFINE C == {channel[d].clients : d \in client[b].channels}
             Shared == \E d \in client[b].channels : a \in channel[d].clients
             q == [to |-> a, type |-> "NICK", nick |-> old, chan |-> None, arg |-> n]
  <2>1. out' = UNION {Send(S, "NICK", old, None, n) : S \in C}
    BY <1>5 DEF HandleNick
  <2>2. /\ \A type : type # "NICK" => Got(a, type) = {}
        /\ Shared => Got(a, "NICK") = {q}
        /\ ~Shared => Got(a, "NICK") = {}
    <3>1. Shared <=> \E S \in C : a \in S
      OBVIOUS
    <3> HIDE DEF C, Shared
    <3>2. /\ \A y : y # "NICK" => Got(a, y) = {}
          /\ ~ (\E S \in C : a \in S) => Got(a, "NICK") = {}
          /\ (\E S \in C : a \in S) => Got(a, "NICK") = {q}
      BY <2>1, GotOfSends
    <3> QED BY <3>1, <3>2
  <2>3. Heard(a, ch) = {Renamed(a, m) : m \in view[a][ch]}
    <3>1. /\ Got(a, "PART") = {} /\ Got(a, "KICK") = {} /\ Got(a, "JOIN") = {}
          /\ Got(a, "NAMES") = {} /\ Got(a, "QUIT") = {}
      BY <2>2
    <3>2. ch \notin LeftByOwn(a) /\ NicksIn(Got(a, "JOIN"), ch) = {} /\ NicksIn(Got(a, "NAMES"), ch) = {}
      BY <3>1 DEF LeftByOwn, NicksIn
    <3>3. Gone(a, ch) = {}
      BY <3>1 DEF Gone, NicksIn, Nicks
    <3> QED BY <3>2, <3>3 DEF Heard
  <2>4. \A m : Renamed(a, m) = IF Shared /\ m = old THEN n ELSE m
    <3> HIDE DEF Shared
    <3>1. q.nick = old /\ q.arg = n
      OBVIOUS
    <3> HIDE DEF q
    <3>2. (CHOOSE p \in {q} : p.nick = old) = q
      BY <3>1
    <3>3. CASE Shared
      <4>1. Renamed(a, old) = n
        BY <2>2, <3>1, <3>2, <3>3 DEF Renamed
      <4>2. \A m : m # old => Renamed(a, m) = m
        BY <2>2, <3>1, <3>3 DEF Renamed
      <4> QED BY <3>3, <4>1, <4>2
    <3>4. CASE ~Shared
      BY <2>2, <3>4 DEF Renamed
    <3> QED BY <3>3, <3>4
  <2>5. CASE ~IsInChannel(a, ch)
    BY <1>1, <1>3, <2>3, <2>5 DEF ViewInv, Listed, Tells
  <2>6. CASE IsInChannel(a, ch)
    <3>1. view[a][ch] = Names(ch) /\ Listed(a, ch)' = {client'[c].nick : c \in members}
      BY <1>1, <1>3, <2>6 DEF ViewInv, Listed, Names
    <3>2. old # NoNick /\ \A c \in members \ {b} : client[c].nick # old
      <4>1. old # NoNick
        BY <1>1, <1>5, MemberHasNick
      <4>2. members \subseteq clients
        BY <1>1 DEF IInv, MembershipAgrees
      <4> QED BY <1>1, <4>1, <4>2 DEF IInv, NicknamesUnique
    <3>3. b \in members => Shared
      BY <1>1, <2>6 DEF IsInChannel, IInv, MembershipAgrees
    <3>4. \A c \in members : Renamed(a, client[c].nick) = client'[c].nick
      <4> HIDE DEF Shared
      <4>1. CASE b \in members
        BY <1>1, <1>2, <2>4, <3>2, <3>3, <4>1
      <4>2. CASE b \notin members
        BY <1>1, <1>2, <2>4, <3>2, <4>2
      <4> QED BY <4>1, <4>2
    <3>5. Heard(a, ch) = {Renamed(a, client[c].nick) : c \in members}
      BY <2>3, <3>1 DEF Names
    <3> QED BY <3>1, <3>4, <3>5 DEF Tells
  <2> QED BY <2>5, <2>6
<1> QED BY <1>4, <1>5

\* What an edit of two records does to the lists that should be.
LEMMA EditedLists ==
  ASSUME IInv, NEW t \in Addr, NEW d \in ChanName, Enters(t, d) \/ Leaves(t, d),
         NEW ch \in ChanName
  PROVE  /\ \A a \in Addr : a # t \/ ch # d => (IsInChannel(a, ch)' <=> IsInChannel(a, ch))
         /\ ch # d => Names(ch)' = Names(ch)
         /\ Enters(t, d) => IsInChannel(t, d)' /\ Names(d)' = Names(d) \cup {client[t].nick}
         /\ Leaves(t, d) => ~IsInChannel(t, d)' /\ Names(d)' = Names(d) \ {client[t].nick}
         /\ t \in clients /\ client[t].nick \in Nick /\ client[t].nick # NoNick
<1>1. Edits(t, d)
  BY DEF Enters, Leaves
<1>2. /\ \A a \in Addr \ {t} : client'[a] = client[a]
      /\ client'[t].nick = client[t].nick
      /\ client'[t].channels \ {d} = client[t].channels \ {d}
      /\ \A c \in ChanName \ {d} : channel'[c] = channel[c]
      /\ t \in clients /\ client[t].registered
  BY <1>1 DEF Edits, SameButChannels, Enters, Leaves
<1>3. \A a \in Addr : client'[a].nick = client[a].nick
  BY <1>2
<1>4. \A c \in ChanName : channel[c].clients \subseteq Addr
  BY DEF IInv, TypeOK, Channel
<1>5. client[t].nick \in Nick /\ client[t].nick # NoNick
  BY <1>2, MemberHasNick
<1>6. \A a \in Addr : a # t \/ ch # d => (IsInChannel(a, ch)' <=> IsInChannel(a, ch))
  BY <1>2 DEF IsInChannel
<1>7. ch # d => Names(ch)' = Names(ch)
  BY <1>2, <1>3, <1>4 DEF Names
<1>8. ASSUME Enters(t, d)
      PROVE  IsInChannel(t, d)' /\ Names(d)' = Names(d) \cup {client[t].nick}
  <2>1. channel'[d].clients = channel[d].clients \cup {t} /\ d \in client'[t].channels
    BY <1>8 DEF Enters
  <2>2. Names(d)' = {client[c].nick : c \in channel[d].clients \cup {t}}
    BY <1>3, <1>4, <2>1 DEF Names
  <2> QED BY <2>1, <2>2 DEF Names, IsInChannel
<1>9. ASSUME Leaves(t, d)
      PROVE  ~IsInChannel(t, d)' /\ Names(d)' = Names(d) \ {client[t].nick}
  <2>1. channel'[d].clients = channel[d].clients \ {t} /\ d \notin client'[t].channels
    BY <1>9 DEF Leaves
  <2>2. Names(d)' = {client[c].nick : c \in channel[d].clients \ {t}}
    BY <1>3, <1>4, <2>1 DEF Names
  <2>3. Names(d)' = Names(d) \ {client[t].nick}
    BY <1>2, <1>5, <2>2, NamesApart
  <2> QED BY <2>1, <2>3 DEF IsInChannel
<1> QED BY <1>2, <1>5, <1>6, <1>7, <1>8, <1>9

\* The newcomer is sent the whole list, the others its nickname.
LEMMA JoinTells ==
  ASSUME ViewInv, NEW b \in Addr, NEW d \in ChanName, NEW k \in JoinKey, HandleJoin(b, d, k),
         NEW a \in Addr, NEW ch \in ChanName
  PROVE  Tells(a, ch)
<1> DEFINE M == channel'[d].clients
           q == [to |-> a, type |-> "JOIN", nick |-> client[b].nick, chan |-> d, arg |-> None]
           Lists == UNION {Send({b}, "NAMES", client[c].nick, d, None) : c \in M}
<1>1. IInv /\ channel \in [ChanName -> Channel] /\ Enters(b, d)
  BY JoinEnters DEF ViewInv, IInv, TypeOK
<1>2. out' = Send(M, "JOIN", client[b].nick, d, None) \cup Lists
  BY <1>1 DEF HandleJoin
<1>3. M = channel[d].clients \cup {b} /\ M \subseteq Addr
  BY <1>1 DEF Enters, Channel
<1>4. \A p \in Lists : p.to = b /\ p.type = "NAMES" /\ p.chan = d /\ \E c \in M : p.nick = client[c].nick
  BY SendFields
<1>5. /\ \A type : type \notin {"JOIN", "NAMES"} => Got(a, type) = {}
      /\ a # b => Got(a, "NAMES") = {}
      /\ \A p \in Got(a, "NAMES") : p \in Lists
  <2> HIDE DEF Lists
  <2> QED BY <1>2, <1>4, SendFields DEF Got
<1>6. Got(a, "JOIN") = IF a \in M THEN {q} ELSE {}
  <2> HIDE DEF Lists, M
  <2>1. Got(a, "JOIN") = {p \in Send(M, "JOIN", client[b].nick, d, None) : p.to = a}
    BY <1>2, <1>4, SendFields DEF Got
  <2> QED BY <2>1 DEF Send
<1>7. NicksIn(Got(a, "JOIN"), ch) = IF a \in M /\ ch = d THEN {client[b].nick} ELSE {}
  <2>1. NicksIn({q}, ch) = IF ch = d THEN {client[b].nick} ELSE {}
    <3>1. q.nick = client[b].nick /\ q.chan = d
      OBVIOUS
    <3> HIDE DEF q
    <3>2. NicksIn({q}, ch) = {p.nick : p \in {r \in {q} : r.chan = ch}}
      BY DEF NicksIn
    <3>3. {r \in {q} : r.chan = ch} = IF ch = d THEN {q} ELSE {}
      BY <3>1
    <3> QED BY <3>1, <3>2, <3>3
  <2>2. NicksIn({}, ch) = {}
    BY DEF NicksIn
  <2> HIDE DEF q, M
  <2> QED BY <1>6, <2>1, <2>2
<1>8. ch \notin LeftByOwn(a) /\ Gone(a, ch) = {} /\ Got(a, "NICK") = {}
  <2>1. Got(a, "PART") = {} /\ Got(a, "KICK") = {} /\ Got(a, "QUIT") = {} /\ Got(a, "NICK") = {}
    BY <1>5
  <2> QED BY <2>1 DEF LeftByOwn, Gone, NicksIn, Nicks
<1>9. CASE a = b /\ ch = d
  <2>1. \A c \in M : \E p \in Got(b, "NAMES") : p.chan = d /\ p.nick = client[c].nick
    <3> SUFFICES ASSUME NEW c \in M
                 PROVE  \E p \in Got(b, "NAMES") : p.chan = d /\ p.nick = client[c].nick
      OBVIOUS
    <3> DEFINE p == [to |-> b, type |-> "NAMES", nick |-> client[c].nick, chan |-> d, arg |-> None]
    <3>1. p \in Send({b}, "NAMES", client[c].nick, d, None)
      BY DEF Send
    <3>2. p \in out' /\ p.to = b /\ p.type = "NAMES" /\ p.chan = d /\ p.nick = client[c].nick
      BY <1>2, <3>1
    <3> HIDE DEF p
    <3> QED BY <3>2 DEF Got
  <2>2. \A p \in Got(b, "NAMES") : \E c \in M : p.nick = client[c].nick
    BY <1>4, <1>5, <1>9
  <2>3. NicksIn(Got(b, "NAMES"), d) = {client[c].nick : c \in M}
    BY <2>1, <2>2 DEF NicksIn
  <2>4. b \in M
    BY <1>3
  <2> HIDE DEF M
  <2>5. Heard(b, d) = {client[c].nick : c \in M}
    BY <2>3, <2>4 DEF Heard
  <2>6. Names(d)' = {client[c].nick : c \in M} /\ IsInChannel(b, d)'
    <3>1. Names(d)' = Names(d) \cup {client[b].nick} /\ IsInChannel(b, d)'
      BY <1>1, EditedLists
    <3>2. {client[c].nick : c \in M} = Names(d) \cup {client[b].nick}
      BY <1>3 DEF Names
    <3> QED BY <3>1, <3>2
  <2> QED BY <1>9, <2>5, <2>6 DEF Tells, Listed
<1>10. CASE ~(a = b /\ ch = d)
  <2>1. NicksIn(Got(a, "NAMES"), ch) = {}
    BY <1>4, <1>5, <1>10 DEF NicksIn
  <2> HIDE DEF M
  <2>2. Heard(a, ch) = view[a][ch] \cup (IF a \in M /\ ch = d THEN {client[b].nick} ELSE {})
    BY <1>7, <1>8, <2>1, HeardEdit
  <2>3. a \in M /\ ch = d => IsInChannel(a, ch)
    BY <1>1, <1>3, <1>10 DEF IsInChannel, IInv, MembershipAgrees
  <2>4. IsInChannel(a, ch) /\ ch = d => a \in M
    BY <1>1, <1>3 DEF IsInChannel, IInv, MembershipAgrees
  <2>5. IsInChannel(a, ch)' <=> IsInChannel(a, ch)
    BY <1>1, <1>10, EditedLists
  <2>6. Names(ch)' = IF ch = d THEN Names(ch) \cup {client[b].nick} ELSE Names(ch)
    BY <1>1, EditedLists
  <2>7. view[a][ch] = IF IsInChannel(a, ch) THEN Names(ch) ELSE {}
    BY DEF ViewInv, Listed
  <2>8. Listed(a, ch)' = IF IsInChannel(a, ch) THEN Names(ch)' ELSE {}
    BY <2>5 DEF Listed
  <2> QED BY <2>2, <2>3, <2>4, <2>6, <2>7, <2>8 DEF Tells
<1> QED BY <1>9, <1>10

\* Who leaves drops its list, the other members drop the nickname.
LEMMA LeaveTells ==
  ASSUME ViewInv, NEW t \in Addr, NEW d \in ChanName, Leaves(t, d), NEW by,
         \/ out' = Send(channel[d].clients, "PART", client[t].nick, d, None)
         \/ out' = Send(channel[d].clients, "KICK", by, d, client[t].nick),
         NEW a \in Addr, NEW ch \in ChanName
  PROVE  Tells(a, ch)
<1> DEFINE M == channel[d].clients
<1>1. IInv /\ M \subseteq clients /\ t \in M /\ t \in clients /\ client[t].nick # NoNick
  BY EditedLists DEF ViewInv, IInv, TypeOK, Channel, MembershipAgrees, Leaves
<1>2. /\ \A p \in out' : /\ p.to \in M /\ p.chan = d
                         /\ \/ p.type = "PART" /\ p.nick = client[t].nick
                            \/ p.type = "KICK" /\ p.arg = client[t].nick
      /\ a \in M => \E p \in out' : p.to = a
  <2>1. \A p \in out' : /\ p.to \in M /\ p.chan = d
                       /\ \/ p.type = "PART" /\ p.nick = client[t].nick
                          \/ p.type = "KICK" /\ p.arg = client[t].nick
    BY SendFields
  <2>2. a \in M => \E p \in out' : p.to = a
    BY SendReaches
  <2> QED BY <2>1, <2>2
<1> HIDE DEF M
<1>3. /\ \A type : type \notin {"PART", "KICK"} => Got(a, type) = {}
      /\ \A p \in Got(a, "PART") : p.chan = d /\ p.nick = client[t].nick /\ a \in M
      /\ \A p \in Got(a, "KICK") : p.chan = d /\ p.arg = client[t].nick /\ a \in M
      /\ a \in M => Got(a, "PART") # {} \/ Got(a, "KICK") # {}
  BY <1>2 DEF Got
<1>4. /\ NicksIn(Got(a, "NAMES"), ch) = {} /\ NicksIn(Got(a, "JOIN"), ch) = {}
      /\ Got(a, "NICK") = {} /\ Got(a, "QUIT") = {}
  BY <1>3 DEF NicksIn
<1>5. LeftByOwn(a) = IF a = t THEN {d} ELSE {}
  <2>1. a \in M /\ client[a].nick = client[t].nick => a = t
    BY <1>1 DEF IInv, NicknamesUnique
  <2>2. \A c \in LeftByOwn(a) : c = d /\ a = t
    BY <1>3, <2>1 DEF LeftByOwn
  <2>3. a = t => d \in LeftByOwn(a)
    BY <1>1, <1>3 DEF LeftByOwn
  <2> QED BY <2>2, <2>3
<1>6. Gone(a, ch) = IF ch = d /\ a \in M THEN {client[t].nick} ELSE {}
  <2>1. \A n \in Gone(a, ch) : ch = d /\ a \in M /\ n = client[t].nick
    BY <1>3, <1>4 DEF Gone, NicksIn, Nicks
  <2>2. ch = d /\ a \in M => client[t].nick \in Gone(a, ch)
    BY <1>3 DEF Gone, NicksIn
  <2> QED BY <2>1, <2>2
<1>7. CASE a = t /\ ch = d
  <2>1. Heard(a, ch) = {}
    BY <1>4, <1>5, <1>7 DEF Heard
  <2>2. Listed(a, ch)' = {}
    BY <1>1, <1>7, EditedLists DEF Listed
  <2> QED BY <2>1, <2>2 DEF Tells
<1>8. CASE ~(a = t /\ ch = d)
  <2>1. Heard(a, ch) = view[a][ch] \ (IF ch = d /\ a \in M THEN {client[t].nick} ELSE {})
    BY <1>4, <1>5, <1>6, <1>8, HeardEdit
  <2>2. IsInChannel(a, ch)' <=> IsInChannel(a, ch)
    BY <1>1, <1>8, EditedLists
  <2>3. Names(ch)' = IF ch = d THEN Names(ch) \ {client[t].nick} ELSE Names(ch)
    BY <1>1, EditedLists
  <2>4. ch = d => (a \in M <=> IsInChannel(a, ch))
    BY <1>1 DEF IsInChannel, IInv, MembershipAgrees, M
  <2>5. view[a][ch] = IF IsInChannel(a, ch) THEN Names(ch) ELSE {}
    BY DEF ViewInv, Listed
  <2>6. Listed(a, ch)' = IF IsInChannel(a, ch) THEN Names(ch)' ELSE {}
    BY <2>2 DEF Listed
  <2> QED BY <2>1, <2>3, <2>4, <2>5, <2>6 DEF Tells
<1> QED BY <1>7, <1>8

\* A KICK is told to the members, the one who is kicked among them.
LEMMA KickTells ==
  ASSUME ViewInv, NEW b \in Addr, NEW d \in ChanName, NEW n \in Nick, HandleKick(b, d, n),
         NEW a \in Addr, NEW ch \in ChanName
  PROVE  Tells(a, ch)
<1>1. PICK t \in Addr : Leaves(t, d)
  BY KickLeaves DEF ViewInv
<1>2. PICK u \in MembersNamed(d, n) :
        /\ out' = Send(channel[d].clients, "KICK", client[b].nick, d, n)
        /\ channel' = [channel EXCEPT ![d] = KickedOut(channel[d], u)]
  BY DEF HandleKick
<1>3. channel'[d].clients = channel[d].clients \ {u}
  BY <1>2 DEF ViewInv, IInv, TypeOK, KickedOut, RemoveClient, RemoveInvitation, Channel
<1>4. u = t /\ client[t].nick = n
  BY <1>1, <1>2, <1>3 DEF MembersNamed, Leaves
<1> QED BY <1>1, <1>2, <1>4, LeaveTells

\* The other commands send nothing a list is made of.
LEMMA OthersTell ==
  ASSUME ViewInv, NEW b \in Addr, NEW d \in ChanName,
         \/ \E n \in Nick : HandleInvite(b, n, d)
         \/ \E t \in TopicWord : HandleTopic(b, d, t)
         \/ \E ms \in ModeString, arg \in ModeArg \cup {NoArg} : HandleMode(b, d, ms, arg)
         \/ \E text \in Text : SendMessageToChannel(b, d, text),
         NEW a \in Addr, NEW ch \in ChanName
  PROVE  Tells(a, ch)
<1>1. \A p \in out' : p.type \notin ListTypes
  <2>1. ASSUME NEW n \in Nick, HandleInvite(b, n, d) PROVE \A p \in out' : p.type \notin ListTypes
    <3>1. PICK t : out' = Send(channel[d].clients, "INVITING", client[b].nick, d, n)
                          \cup Send({t}, "INVITE", client[b].nick, d, n)
      BY <2>1 DEF HandleInvite
    <3>2. \A p \in out' : p.type \in {"INVITING", "INVITE"}
      BY <3>1, SendFields
    <3> QED BY <3>2 DEF ListTypes
  <2>2. ASSUME NEW t \in TopicWord, HandleTopic(b, d, t) PROVE \A p \in out' : p.type \notin ListTypes
    <3>1. \A p \in out' : p.type = "TOPIC"
      BY <2>2, SendFields DEF HandleTopic
    <3> QED BY <3>1 DEF ListTypes
  <2>3. ASSUME NEW ms \in ModeString, NEW arg \in ModeArg \cup {NoArg}, HandleMode(b, d, ms, arg)
        PROVE  \A p \in out' : p.type \notin ListTypes
    <3>1. out' \in {Send(channel[d].clients, "MODE", client[b].nick, d, None), {}}
      BY <2>3 DEF HandleMode
    <3>2. \A p \in out' : p.type = "MODE"
      BY <3>1, SendFields
    <3> QED BY <3>2 DEF ListTypes
  <2>4. ASSUME NEW text \in Text, SendMessageToChannel(b, d, text)
        PROVE  \A p \in out' : p.type \notin ListTypes
    <3>1. \A p \in out' : p.type = "PRIVMSG"
      BY <2>4, SendFields DEF SendMessageToChannel
    <3> QED BY <3>1 DEF ListTypes
  <2> QED BY <2>1, <2>2, <2>3, <2>4
<1>2. \A type \in ListTypes : Got(a, type) = {}
  BY <1>1 DEF Got
<1>3. Stays(d)
  BY OthersStay DEF ViewInv
<1>4. /\ client' = client
      /\ \A c \in ChanName : channel'[c].clients = channel[c].clients
  BY <1>3 DEF Stays
<1> QED BY <1>2, <1>4, QuietTells

\* Whatever a client does about its connection is told to those it concerns.
LEMMA ConnectionTells ==
  ASSUME ViewInv, NEW b \in Addr, Connection(b), NEW a \in clients', NEW ch \in ChanName
  PROVE  Tells(a, ch)
<1>1. a \in Addr
  BY ConnectionType DEF ViewInv, IInv, TypeOK
<1>2. CASE b \in clients /\ DisconnectClient(b)
  BY <1>2, DisconnectTells
<1>3. CASE ~(b \in clients /\ DisconnectClient(b))
  <2>1. \/ AcceptNewClient(b)
        \/ ~DisconnectClient(b) /\ ((\E ok \in BOOLEAN : HandlePass(b, ok)) \/ HandleUser(b))
        \/ ~DisconnectClient(b) /\ \E n \in Nick : HandleNick(b, n)
    BY <1>3 DEF Connection, PeerClosed, HandlePass, HandleUser, HandleNick
  <2> QED BY <1>1, <2>1, AcceptTells, HandshakeTells, NickTells
<1> QED BY <1>2, <1>3

\* So is every command about a channel.
LEMMA CommandTells ==
  ASSUME ViewInv, NEW b \in Addr, NEW d \in ChanName, ChannelCommand(b, d),
         NEW a \in Addr, NEW ch \in ChanName
  PROVE  Tells(a, ch)
<1>1. CASE HandlePart(b, d)
  <2>1. Leaves(b, d) /\ out' = Send(channel[d].clients, "PART", client[b].nick, d, None)
    BY <1>1, PartLeaves DEF ViewInv, HandlePart
  <2> QED BY <2>1, LeaveTells
<1> QED BY <1>1, JoinTells, KickTells, OthersTell DEF ChannelCommand

\* In every step, each client is told of what changes in the channels it sees.
LEMMA NextTells ==
  ASSUME ViewInv, Next, NEW a \in clients', NEW ch \in ChanName
  PROVE  Tells(a, ch)
<1>1. IInv'
  BY StepInv DEF ViewInv
<1>2. a \in Addr
  BY <1>1 DEF IInv, TypeOK
<1>3. ASSUME NEW b \in Addr, NEW n \in Nick, NEW text \in Text, SendMessageToUser(b, n, text)
      PROVE  Tells(a, ch)
  <2>1. \A p \in out' : p.type = "PRIVMSG"
    BY <1>3, SendFields DEF SendMessageToUser
  <2>2. \A type \in ListTypes : Got(a, type) = {}
    BY <2>1 DEF Got, ListTypes
  <2> QED BY <1>2, <1>3, <2>2, QuietTells DEF SendMessageToUser
<1> QED BY <1>2, <1>3, ConnectionTells, CommandTells DEF Next

\* Every step keeps the views current.
LEMMA ViewStep == ViewInv /\ [ViewNext]_<<vars, view>> => ViewInv'
<1> SUFFICES ASSUME ViewInv, [ViewNext]_<<vars, view>> PROVE ViewInv'
  OBVIOUS
<1>0. IInv'
  BY StepInv DEF ViewInv, ViewNext, vars
<1>1. CASE UNCHANGED <<vars, view>>
  BY <1>0, <1>1 DEF vars, ViewInv, Listed, IsInChannel, Names
<1>2. CASE ViewNext
  <2>1. Next /\ \A a \in Addr, ch \in ChanName :
                  view'[a][ch] = IF a \in clients' THEN Heard(a, ch) ELSE {}
    BY <1>2 DEF ViewNext, Listen
  <2>2. ASSUME NEW a \in Addr, NEW ch \in ChanName PROVE view'[a][ch] = Listed(a, ch)'
    <3>1. CASE a \in clients'
      BY <2>1, <3>1, NextTells DEF Tells
    <3>2. CASE a \notin clients'
      <4>1. client'[a].channels = {}
        BY <1>0, <3>2 DEF IInv, MembershipAgrees
      <4> QED BY <2>1, <3>2, <4>1 DEF Listed, IsInChannel
    <3> QED BY <3>1, <3>2
  <2> QED BY <1>0, <2>2 DEF ViewInv
<1> QED BY <1>1, <1>2

\* What every client lists, from the messages it was sent alone, are the nicknames of
\* the members of the channels it is in, and nothing for any other channel.
THEOREM ViewInvariant == ViewSpec => []ViewInv
<1>1. ViewInit => ViewInv
  <2> SUFFICES ASSUME ViewInit PROVE ViewInv
    OBVIOUS
  <2>1. IInv
    BY InitInv DEF ViewInit
  <2> QED BY <2>1 DEF ViewInit, Init, NewClient, ViewInv, Listed, IsInChannel
<1> QED BY <1>1, ViewStep, PTL DEF ViewSpec

\* For any number of clients and channels, every member lists exactly the members,
\* and nobody lists a channel it is not in.
THEOREM ViewsSafe == ViewSpec => []ViewsAreCurrent
<1>1. ASSUME ViewInv PROVE ViewsAreCurrent
  BY <1>1 DEF ViewInv, IInv, TypeOK, ViewsAreCurrent, Listed, Names
<1> QED BY <1>1, ViewInvariant, PTL
-----------------------------------------------------------------------------
(* What operators and invitations are founded on, whatever address the allocator *)
(* returns.                                                                    *)

\* What _operators holds is exactly what was given at each address and not taken;
\* what _invitedClients holds was given; the records are of what is alive.
PrivilegeInv ==
  /\ IInv
  /\ grants \subseteq clients \X channels /\ invites \subseteq clients \X channels
  /\ StatusStaysUntilTaken
  /\ \A ch \in ChanName : \A a \in channel[ch].invited : <<a, ch>> \in invites \cup oldInvites

\* At the start there is no operator and nobody was granted anything.
LEMMA PrivilegeInit == HistoryInit => PrivilegeInv
<1> SUFFICES ASSUME HistoryInit PROVE PrivilegeInv
  OBVIOUS
<1>1. IInv
  BY InitInv DEF HistoryInit
<1> QED BY <1>1 DEF HistoryInit, PrivilegeInv, StatusStaysUntilTaken, Init, NewChannel

\* A step that remembers something is a step of the server.
LEMMA HistoryIsNext == HistoryNext => Next
BY DEF HistoryNext, GivesNothing, Creates, Next, ChannelCommand

\* What gives nothing leaves the operators of a live channel as they are.
LEMMA GivesNothingKeeps ==
  ASSUME IInv, IInv', GivesNothing, NEW d \in ChanName, d \in channels'
  PROVE  channel'[d].operators = channel[d].operators
<1>0. channel \in [ChanName -> Channel] /\ channel[d] \in Channel
  BY DEF IInv, TypeOK
<1> DEFINE Same == SettingsOf(channel'[d]) = SettingsOf(channel[d])
<1>1. SUFFICES Same
  BY DEF SettingsOf
<1>2. CASE UNCHANGED channel
  BY <1>2
<1>3. ASSUME NEW b \in clients, DisconnectClient(b) PROVE Same
  <2>1. d \notin Emptied(b)
    BY <1>3 DEF DisconnectClient
  <2>2. channel'[d] \in {channel[d], RemoveClient(channel[d], b)}
    BY <1>3, <2>1 DEF DisconnectClient
  <2> QED BY <1>0, <2>2, MembersKeepSettings DEF IInv, TypeOK
<1>4. ASSUME NEW b \in Addr, NEW ch \in ChanName, NEW k \in JoinKey,
             ch \in channels, HandleJoin(b, ch, k)
      PROVE  Same
  <2>1. channel' = [channel EXCEPT ![ch] = AddClient(channel[ch], b)]
    BY <1>4 DEF HandleJoin
  <2> QED BY <1>0, <2>1, MembersKeepSettings
<1>5. ASSUME NEW b \in Addr, NEW ch \in ChanName, HandlePart(b, ch) PROVE Same
  <2>1. d = ch => channel'[d] = RemoveClient(channel[d], b)
    BY <1>0, <1>5 DEF HandlePart
  <2>2. d # ch => channel'[d] = channel[d]
    BY <1>0, <1>5 DEF HandlePart
  <2> QED BY <1>0, <2>1, <2>2, MembersKeepSettings
<1>6. ASSUME NEW b \in Addr, NEW ch \in ChanName, NEW n \in Nick, HandleKick(b, ch, n) PROVE Same
  <2>1. PICK t \in MembersNamed(ch, n) : channel' = [channel EXCEPT ![ch] = KickedOut(channel[ch], t)]
    BY <1>6 DEF HandleKick
  <2>2. t \in Addr
    BY <1>0, <2>1 DEF MembersNamed, Channel
  <2> QED BY <1>0, <2>1, <2>2, MembersKeepSettings
<1>7. ASSUME NEW b \in Addr, NEW ch \in ChanName, NEW n \in Nick, HandleInvite(b, n, ch) PROVE Same
  <2>1. PICK t \in clients : channel' = [channel EXCEPT ![ch] = InviteClient(channel[ch], t)]
    BY <1>7 DEF HandleInvite
  <2>2. t \in Addr
    BY DEF IInv, TypeOK
  <2> QED BY <1>0, <2>1, <2>2, MembersKeepSettings
<1>8. ASSUME NEW b \in Addr, NEW ch \in ChanName, NEW t \in TopicWord, HandleTopic(b, ch, t) PROVE Same
  <2>1. channel' = [channel EXCEPT ![ch] = SetTopic(channel[ch], t)]
    BY <1>8 DEF HandleTopic
  <2> QED BY <1>0, <1>8, <2>1, MembersKeepSettings
<1>9. ASSUME NEW b \in Addr, Connection(b) PROVE Same
  BY <1>2, <1>3, <1>9, ConnectionOrDisconnect
<1> HIDE DEF Same
<1>10. ASSUME NEW b \in Addr, NEW ch \in ChanName, NEW text \in Text, SendMessageToChannel(b, ch, text)
       PROVE  Same
  BY <1>2, <1>10 DEF SendMessageToChannel
<1>11. ASSUME NEW b \in Addr, NEW n \in Nick, NEW text \in Text, SendMessageToUser(b, n, text)
       PROVE  Same
  BY <1>2, <1>11 DEF SendMessageToUser
<1> QED BY <1>4, <1>5, <1>6, <1>7, <1>8, <1>9, <1>10, <1>11 DEF GivesNothing

\* The JOIN that creates a channel makes the client that joins its one operator.
LEMMA CreationGives ==
  ASSUME IInv, NEW a \in Addr, NEW ch \in ChanName, Creates(a, ch)
  PROVE  /\ UNCHANGED clients /\ channels' = channels \cup {ch} /\ a \in clients
         /\ channel'[ch].operators = {a}
         /\ \A d \in ChanName \ {ch} : channel'[d] = channel[d]
<1>1. PICK k \in JoinKey : HandleJoin(a, ch, k) /\ ch \notin channels
  BY DEF Creates
<1>2. channel' = [channel EXCEPT ![ch] = CreateChannel(a, k)] /\ channel \in [ChanName -> Channel]
  BY <1>1 DEF HandleJoin, IInv, TypeOK
<1>3. SetKey(NewChannel, k).operators = {} /\ SetKey(NewChannel, k) \in Channel
  BY NewChannelType, SetterTypes DEF SetKey, NewChannel
<1>4. CreateChannel(a, k).operators = {a}
  BY <1>3 DEF CreateChannel, AddClient, AddOperator, Channel
<1> QED BY <1>1, <1>2, <1>4 DEF HandleJoin, Registered

\* A MODE command gives and takes operator status as its last o says.
LEMMA ModeGives ==
  ASSUME IInv, NEW a \in Addr, NEW ch \in ChanName, NEW ms \in ModeString,
         NEW arg \in ModeArg \cup {NoArg}, HandleMode(a, ch, ms, arg)
  PROVE  /\ UNCHANGED <<clients, channels>>
         /\ \A d \in ChanName \ {ch} : channel'[d] = channel[d]
         /\ \A b \in Addr : b \in channel'[ch].operators <=>
              \/ <<b, ch>> \in Targets(ch, ms, arg, TRUE)
              \/ b \in channel[ch].operators /\ <<b, ch>> \notin Targets(ch, ms, arg, FALSE)
         /\ Targets(ch, ms, arg, TRUE) \subseteq clients \X {ch}
         /\ Targets(ch, ms, arg, FALSE) \subseteq clients \X {ch}
         /\ ch \in channels
<1> DEFINE named == IF arg = NoArg THEN {} ELSE MembersNamed(ch, arg.nick)
           letters == {p \in Reached(ms, arg, named) : ms[p] = "o"}
           new == ApplyModes(channel[ch], ms, arg, named)
<1>1. channel' = [channel EXCEPT ![ch] = new] /\ UNCHANGED <<clients, channels>> /\ ch \in channels
  BY DEF HandleMode, MayAct
<1>2. channel \in [ChanName -> Channel] /\ named \subseteq channel[ch].clients
  BY DEF IInv, TypeOK, MembersNamed
<1>3. named \subseteq clients
  BY <1>2 DEF IInv, MembershipAgrees, TypeOK, Channel
<1>4. /\ Targets(ch, ms, arg, TRUE) = IF letters # {} /\ LastAdds(ms, letters) THEN named \X {ch} ELSE {}
      /\ Targets(ch, ms, arg, FALSE) = IF letters # {} /\ ~LastAdds(ms, letters) THEN named \X {ch} ELSE {}
  <2>1. LastAdds(ms, letters) \in BOOLEAN
    BY DEF LastAdds
  <2> QED BY <2>1 DEF Targets
<1> HIDE DEF named
<1>5. new.operators = IF letters = {} THEN channel[ch].operators
                      ELSE IF LastAdds(ms, letters) THEN channel[ch].operators \cup named
                      ELSE channel[ch].operators \ named
  BY <1>2 DEF ApplyModes, Channel
<1> HIDE DEF letters, new
<1> DEFINE given == Targets(ch, ms, arg, TRUE)
           taken == Targets(ch, ms, arg, FALSE)
           ops == channel[ch].operators
<1>6. \/ given = named \X {ch} /\ taken = {} /\ new.operators = ops \cup named
      \/ given = {} /\ taken = named \X {ch} /\ new.operators = ops \ named
      \/ given = {} /\ taken = {} /\ new.operators = ops
  <2>1. CASE letters = {}
    BY <1>4, <1>5, <2>1
  <2>2. CASE letters # {} /\ LastAdds(ms, letters)
    BY <1>4, <1>5, <2>2
  <2>3. CASE letters # {} /\ ~LastAdds(ms, letters)
    BY <1>4, <1>5, <2>3
  <2> QED BY <2>1, <2>2, <2>3
<1> HIDE DEF given, taken
<1>7. channel'[ch].operators = new.operators /\ \A d \in ChanName \ {ch} : channel'[d] = channel[d]
  BY <1>1, <1>2
<1>8. given \subseteq clients \X {ch} /\ taken \subseteq clients \X {ch}
  BY <1>3, <1>6
<1>9. ASSUME NEW b \in Addr
      PROVE  b \in channel'[ch].operators <=>
              <<b, ch>> \in given \/ (b \in ops /\ <<b, ch>> \notin taken)
  <2>1. \A S : <<b, ch>> \in S \X {ch} <=> b \in S
    OBVIOUS
  <2> QED BY <1>6, <1>7, <2>1
<1> QED BY <1>1, <1>7, <1>8, <1>9 DEF given, taken

\* A step that invites a client sends it the INVITE, and is no KICK.
LEMMA InvitedStep ==
  ASSUME IInv, IInv', [Next]_vars, NEW ch \in ChanName,
         NEW a \in channel'[ch].invited, a \notin channel[ch].invited
  PROVE  /\ a \in clients' /\ ch \in channels'
         /\ <<a, ch>> \in Told("INVITE") /\ <<a, ch>> \notin Told("KICK")
<1>0. a \in Addr /\ channel \in [ChanName -> Channel] /\ channel' \in [ChanName -> Channel]
  BY DEF IInv, TypeOK, Channel
<1> DEFINE Kept(d) == channel'[d].invited \subseteq channel[d].invited
<1>1. ASSUME NEW b \in clients, DisconnectClient(b) PROVE FALSE
  <2>1. channel'[ch] \in {NewChannel, channel[ch], RemoveClient(channel[ch], b)}
    BY <1>1 DEF DisconnectClient
  <2> QED BY <1>0, <2>1 DEF NewChannel, RemoveClient, Channel
<1>2. ASSUME UNCHANGED channel PROVE FALSE
  BY <1>2
<1>3. ASSUME NEW b \in Addr, NEW d \in ChanName, ChannelCommand(b, d),
             ~ \E n \in Nick : HandleInvite(b, n, d)
      PROVE  FALSE
  <2>0. \A c \in ChanName \ {d} : channel'[c] = channel[c]
    BY <1>3, CommandSettings DEF IInv
  <2>1. ASSUME NEW k \in JoinKey, HandleJoin(b, d, k) PROVE Kept(d)
    <3>1. CASE d \in channels
      BY <1>0, <2>1, <3>1 DEF HandleJoin, AddClient, Channel
    <3>2. CASE d \notin channels
      <4>1. SetKey(NewChannel, k).invited = {} /\ SetKey(NewChannel, k) \in Channel
        BY NewChannelType, SetterTypes DEF SetKey, NewChannel
      <4>2. CreateChannel(b, k).invited = {}
        BY <4>1 DEF CreateChannel, AddClient, AddOperator, Channel
      <4> QED BY <1>0, <2>1, <3>2, <4>2 DEF HandleJoin
    <3> QED BY <3>1, <3>2
  <2>2. ASSUME HandlePart(b, d) PROVE Kept(d)
    <3>1. channel'[d] \in {NewChannel, RemoveClient(channel[d], b)}
      BY <1>0, <2>2 DEF HandlePart
    <3> QED BY <1>0, <3>1 DEF NewChannel, RemoveClient, Channel
  <2>3. ASSUME NEW n \in Nick, HandleKick(b, d, n) PROVE Kept(d)
    <3>1. PICK t \in MembersNamed(d, n) : channel' = [channel EXCEPT ![d] = KickedOut(channel[d], t)]
      BY <2>3 DEF HandleKick
    <3> QED BY <1>0, <3>1 DEF KickedOut, RemoveClient, RemoveInvitation, Channel
  <2>4. ASSUME NEW t \in TopicWord, HandleTopic(b, d, t) PROVE Kept(d)
    BY <1>0, <2>4 DEF HandleTopic, SetTopic, Channel
  <2>5. ASSUME NEW ms \in ModeString, NEW arg \in ModeArg \cup {NoArg}, HandleMode(b, d, ms, arg)
        PROVE  Kept(d)
    <3>1. PICK targets : channel' = [channel EXCEPT ![d] = ApplyModes(channel[d], ms, arg, targets)]
      BY <2>5 DEF HandleMode
    <3>2. ApplyModes(channel[d], ms, arg, targets).invited = channel[d].invited
      BY <1>0 DEF ApplyModes, Channel
    <3> QED BY <1>0, <3>1, <3>2
  <2>6. ASSUME NEW text \in Text, SendMessageToChannel(b, d, text) PROVE Kept(d)
    BY <2>6 DEF SendMessageToChannel
  <2>7. Kept(d)
    BY <1>3, <2>1, <2>2, <2>3, <2>4, <2>5, <2>6 DEF ChannelCommand
  <2> QED BY <2>0, <2>7
<1>4. PICK b \in Addr, d \in ChanName, n \in Nick : HandleInvite(b, n, d)
  <2>1. ASSUME NEW b \in Addr, Connection(b) PROVE FALSE
    BY <1>1, <1>2, <2>1, ConnectionOrDisconnect
  <2>2. ASSUME NEW b \in Addr, NEW n \in Nick, NEW text \in Text, SendMessageToUser(b, n, text)
        PROVE  FALSE
    BY <1>2, <2>2 DEF SendMessageToUser
  <2> QED BY <1>2, <1>3, <2>1, <2>2 DEF Next, vars
<1>5. PICK t \in clients :
        /\ client[t].nick = n
        /\ channel' = [channel EXCEPT ![d] = InviteClient(channel[d], t)]
        /\ out' = Send(channel[d].clients, "INVITING", client[b].nick, d, n)
                  \cup Send({t}, "INVITE", client[b].nick, d, n)
  BY <1>4 DEF HandleInvite
<1>6. d = ch /\ a = t
  BY <1>0, <1>5 DEF InviteClient, Channel
<1>7. a \in clients' /\ ch \in channels'
  BY <1>4, <1>6 DEF HandleInvite, MayAct
<1> DEFINE p == [to |-> t, type |-> "INVITE", nick |-> client[b].nick, chan |-> d, arg |-> n]
<1>8. p \in out' /\ p.to = a /\ p.type = "INVITE" /\ p.arg = client[a].nick /\ p.chan = ch
  BY <1>5, <1>6 DEF Send
<1>9. \A q \in out' : q.type # "KICK"
  BY <1>5, SendFields
<1> HIDE DEF p
<1>10. <<a, ch>> \in Told("INVITE")
  BY <1>5, <1>6, <1>8 DEF Told
<1>11. <<a, ch>> \notin Told("KICK")
  BY <1>9 DEF Told
<1> QED BY <1>7, <1>10, <1>11

\* No message of the step is a KICK.
NoKick == \A p \in out : p.type # "KICK"

\* Only handleKick sends a KICK.
LEMMA OnlyKickKicks ==
  ASSUME Next, ~ \E b \in Addr, d \in ChanName, n \in Nick : HandleKick(b, d, n)
  PROVE  NoKick'
<1> USE SendFields DEF NoKick
<1>1. ASSUME NEW b, DisconnectClient(b) PROVE NoKick'
  <2> SUFFICES ASSUME NEW p \in out' PROVE p.type = "QUIT"
    OBVIOUS
  <2>1. PICK ch \in Visited(b) :
          p \in Send(channel[ch].clients \ {b}, "QUIT", client[b].nick, None, None)
    BY <1>1 DEF DisconnectClient
  <2> QED BY <2>1
<1>2. ASSUME NEW b \in Addr, Connection(b) PROVE NoKick'
  <2>1. CASE DisconnectClient(b)
    BY <1>1, <2>1
  <2>2. CASE out' = {}
    BY <2>2
  <2>3. ASSUME NEW n \in Nick, HandleNick(b, n), ~DisconnectClient(b) PROVE NoKick'
    <3>1. CASE client[b].registered
      BY <2>3, <3>1 DEF HandleNick
    <3>2. CASE ~client[b].registered
      BY <2>2, <2>3, <3>2 DEF HandleNick
    <3> QED BY <3>1, <3>2
  <2> QED BY <1>2, <2>1, <2>2, <2>3 DEF Connection, AcceptNewClient, PeerClosed, HandlePass, HandleUser
<1>3. ASSUME NEW b \in Addr, NEW d \in ChanName, ChannelCommand(b, d) PROVE NoKick'
  <2>1. ASSUME NEW k \in JoinKey, HandleJoin(b, d, k) PROVE NoKick'
    BY <2>1 DEF HandleJoin
  <2>2. ASSUME HandlePart(b, d) PROVE NoKick'
    BY <2>2 DEF HandlePart
  <2>3. ASSUME NEW n \in Nick, HandleInvite(b, n, d) PROVE NoKick'
    BY <2>3 DEF HandleInvite
  <2>4. ASSUME NEW t \in TopicWord, HandleTopic(b, d, t) PROVE NoKick'
    BY <2>4 DEF HandleTopic
  <2>5. ASSUME NEW ms \in ModeString, NEW arg \in ModeArg \cup {NoArg}, HandleMode(b, d, ms, arg)
        PROVE  NoKick'
    BY <2>5 DEF HandleMode
  <2>6. ASSUME NEW text \in Text, SendMessageToChannel(b, d, text) PROVE NoKick'
    BY <2>6 DEF SendMessageToChannel
  <2> QED BY <1>3, <2>1, <2>2, <2>3, <2>4, <2>5, <2>6 DEF ChannelCommand
<1>4. ASSUME NEW b \in Addr, NEW n \in Nick, NEW text \in Text, SendMessageToUser(b, n, text)
      PROVE  NoKick'
  BY <1>4 DEF SendMessageToUser
<1> QED BY <1>2, <1>3, <1>4 DEF Next

\* A client that was told of its own KICK is invited no more: the nickname in the
\* message is that of the member that left.
LEMMA KickedStep ==
  ASSUME IInv, Next, NEW ch \in ChanName, NEW a, <<a, ch>> \in Told("KICK")
  PROVE  a \notin channel'[ch].invited
<1>1. PICK p \in out' : p.to = a /\ p.type = "KICK" /\ p.arg = client[a].nick /\ p.chan = ch
  BY DEF Told
<1>0. a \in clients
  BY DEF Told
<1>2. PICK b \in Addr, d \in ChanName, n \in Nick : HandleKick(b, d, n)
  BY <1>1, OnlyKickKicks DEF NoKick
<1>3. PICK t \in MembersNamed(d, n) :
        /\ out' = Send(channel[d].clients, "KICK", client[b].nick, d, n)
        /\ channel' = [channel EXCEPT ![d] = KickedOut(channel[d], t)]
  BY <1>2 DEF HandleKick
<1>4. d = ch /\ n = client[a].nick /\ client[t].nick = n /\ n # NoNick
  BY <1>1, <1>3, SendFields, ConstantsAssumption DEF MembersNamed
<1>5. t \in Addr /\ t \in channel[ch].clients /\ channel[ch] \in Channel
  BY <1>3, <1>4 DEF MembersNamed, IInv, TypeOK, Channel
<1>6. t \in clients
  BY <1>5 DEF IInv, MembershipAgrees
<1>7. t = a
  BY <1>0, <1>4, <1>6 DEF IInv, NicknamesUnique
<1> QED BY <1>3, <1>4, <1>5, <1>7
        DEF KickedOut, RemoveClient, RemoveInvitation, Channel, IInv, TypeOK

\* What was given and not taken is remembered of the client or of those before it.
LEMMA GrantsRemembered ==
  ASSUME NEW given, NEW taken, Remember(given, taken),
         (given = {} /\ taken = {}) \/ UNCHANGED clients,
         grants \subseteq clients \X channels, given \subseteq clients \X channels',
         NEW a, NEW ch \in channels'
  PROVE  <<a, ch>> \in grants' \cup oldGrants' <=>
           \/ <<a, ch>> \in given /\ <<a, ch>> \notin taken
           \/ <<a, ch>> \in grants \cup oldGrants /\ <<a, ch>> \notin taken
<1>1. grants' = {p \in (grants \cup given) \ taken : p[1] \in clients' /\ p[2] \in channels'}
  BY DEF Remember, Current
<1>2. oldGrants' = {p \in oldGrants \ taken : p[2] \in channels'}
                   \cup {p \in grants : p[1] \notin clients' /\ p[2] \in channels'}
  BY DEF Remember, Still, Past
<1>3. <<a, ch>> \in grants' <=>
        <<a, ch>> \in (grants \cup given) \ taken /\ a \in clients'
  BY <1>1
<1>4. <<a, ch>> \in oldGrants' <=>
        <<a, ch>> \in oldGrants \ taken \/ (<<a, ch>> \in grants /\ a \notin clients')
  BY <1>2
<1>5. <<a, ch>> \in grants \cup given => a \in clients
  OBVIOUS
<1> QED BY <1>3, <1>4, <1>5

\* Nobody is operator of a channel that is gone, and nothing is remembered of it.
LEMMA GoneIsForgotten ==
  ASSUME NEW given, NEW taken, Remember(given, taken), IInv', NEW ch \in ChanName, ch \notin channels'
  PROVE  channel'[ch].operators = {} /\ \A a : <<a, ch>> \notin grants' \cup oldGrants'
<1>1. channel'[ch].operators = {}
  BY DEF IInv, FreedIsBlank, NewChannel
<1>2. \A p \in grants' \cup oldGrants' : p[2] \in channels'
  BY DEF Remember, Current, Still, Past
<1> QED BY <1>1, <1>2

\* Every step keeps the records of what is alive.
LEMMA RecordsAreAlive ==
  ASSUME NEW given, NEW taken, Remember(given, taken), given \subseteq clients \X channels',
         grants \subseteq clients \X channels, invites \subseteq clients \X channels,
         IInv, IInv', Next
  PROVE  grants' \subseteq clients' \X channels' /\ invites' \subseteq clients' \X channels'
<1>1. \A type : Told(type) \subseteq clients \X {p.chan : p \in out'}
  BY DEF Told
<1>2. ASSUME NEW p \in grants' PROVE p \in clients' \X channels'
  BY <1>2 DEF Remember, Current
<1>3. ASSUME NEW p \in invites' PROVE p \in clients' \X channels'
  BY <1>1, <1>3 DEF Remember, Current
<1> QED BY <1>2, <1>3

\* Every step keeps the invitations accounted for.
LEMMA InvitationsRemembered ==
  ASSUME PrivilegeInv, IInv', Next, NEW given, NEW taken, Remember(given, taken),
         NEW ch \in ChanName, NEW a \in channel'[ch].invited
  PROVE  <<a, ch>> \in invites' \cup oldInvites'
<1>0. ch \in channels' /\ IInv
  <2>1. ch \notin channels' => channel'[ch].invited = {}
    BY DEF IInv, FreedIsBlank, NewChannel
  <2> QED BY <2>1 DEF PrivilegeInv
<1>1. /\ <<a, ch>> \in invites' <=>
           <<a, ch>> \in (invites \cup Told("INVITE")) \ Told("KICK") /\ a \in clients'
      /\ <<a, ch>> \in oldInvites' <=>
           <<a, ch>> \in oldInvites \ Told("KICK") \/ (<<a, ch>> \in invites /\ a \notin clients')
  BY <1>0 DEF Remember, Current, Still, Past
<1>2. CASE a \in channel[ch].invited
  <2>1. <<a, ch>> \in invites \cup oldInvites
    BY <1>2 DEF PrivilegeInv
  <2>2. <<a, ch>> \notin Told("KICK")
    BY <1>0, KickedStep
  <2> QED BY <1>1, <2>1, <2>2
<1>3. CASE a \notin channel[ch].invited
  BY <1>0, <1>1, <1>3, InvitedStep
<1> QED BY <1>2, <1>3

\* Every step keeps the record of who was granted what.
LEMMA PrivilegeStep ==
  ASSUME PrivilegeInv, [HistoryNext]_historyVars
  PROVE  PrivilegeInv'
<1>1. CASE UNCHANGED historyVars
  <2>1. IInv'
    BY <1>1, StepInv DEF historyVars, PrivilegeInv
  <2> QED BY <1>1, <2>1 DEF historyVars, vars, PrivilegeInv, StatusStaysUntilTaken
<1>2. CASE HistoryNext
  <2>0. Next /\ IInv /\ IInv'
    BY <1>2, HistoryIsNext, StepInv DEF PrivilegeInv
  <2> DEFINE Kept(given, taken) ==
               \A d \in channels', b \in Addr : b \in channel'[d].operators <=>
                 \/ <<b, d>> \in given /\ <<b, d>> \notin taken
                 \/ b \in channel[d].operators /\ <<b, d>> \notin taken
  <2>1. ASSUME NEW given, NEW taken, Remember(given, taken), Kept(given, taken),
               (given = {} /\ taken = {}) \/ UNCHANGED clients,
               given \subseteq clients \X channels'
        PROVE  PrivilegeInv'
    <3>1. grants' \subseteq clients' \X channels' /\ invites' \subseteq clients' \X channels'
      BY <2>0, <2>1, RecordsAreAlive DEF PrivilegeInv
    <3>2. ASSUME NEW ch \in ChanName
          PROVE  channel'[ch].operators = {b \in Addr : <<b, ch>> \in grants' \cup oldGrants'}
      <4>1. channel'[ch].operators \subseteq Addr
        BY <2>0 DEF IInv, TypeOK, Channel
      <4>2. CASE ch \notin channels'
        BY <2>0, <2>1, <4>2, GoneIsForgotten
      <4>3. ASSUME ch \in channels', NEW b \in Addr
            PROVE  b \in channel'[ch].operators <=> <<b, ch>> \in grants' \cup oldGrants'
        <5>1. b \in channel[ch].operators <=> <<b, ch>> \in grants \cup oldGrants
          BY DEF PrivilegeInv, StatusStaysUntilTaken
        <5>2. <<b, ch>> \in grants' \cup oldGrants' <=>
                \/ <<b, ch>> \in given /\ <<b, ch>> \notin taken
                \/ <<b, ch>> \in grants \cup oldGrants /\ <<b, ch>> \notin taken
          BY <2>1, <4>3, GrantsRemembered DEF PrivilegeInv
        <5> QED BY <2>1, <4>3, <5>1, <5>2
      <4>4. ch \in channels' =>
              \A b \in Addr : b \in channel'[ch].operators <=> <<b, ch>> \in grants' \cup oldGrants'
        BY <4>3
      <4> QED BY <4>1, <4>2, <4>4
    <3>3. \A ch \in ChanName : \A a \in channel'[ch].invited : <<a, ch>> \in invites' \cup oldInvites'
      BY <2>0, <2>1, InvitationsRemembered
    <3> QED BY <2>0, <3>1, <3>2, <3>3 DEF PrivilegeInv, StatusStaysUntilTaken
  <2>2. CASE GivesNothing /\ Remember({}, {})
    <3>1. channels' \subseteq ChanName
      BY <2>0 DEF IInv, TypeOK
    <3>2. Kept({}, {})
      BY <2>0, <2>2, <3>1, GivesNothingKeeps
    <3> QED BY <2>1, <2>2, <3>2
  <2>3. ASSUME NEW a \in Addr, NEW ch \in ChanName, Creates(a, ch), Remember({<<a, ch>>}, {})
        PROVE  PrivilegeInv'
    <3>1. channel[ch].operators = {} /\ channels \subseteq ChanName
      BY <2>0, <2>3 DEF Creates, IInv, TypeOK, FreedIsBlank, NewChannel
    <3>2. /\ UNCHANGED clients /\ channels' = channels \cup {ch} /\ a \in clients
          /\ channel'[ch].operators = {a}
          /\ \A d \in ChanName \ {ch} : channel'[d] = channel[d]
      BY <2>0, <2>3, CreationGives
    <3>3. Kept({<<a, ch>>}, {})
      BY <3>1, <3>2
    <3>4. {<<a, ch>>} \subseteq clients \X channels'
      BY <3>2
    <3> QED BY <2>1, <2>3, <3>2, <3>3, <3>4
  <2>4. ASSUME NEW a \in Addr, NEW ch \in ChanName, NEW ms \in ModeString,
               NEW arg \in ModeArg \cup {NoArg}, HandleMode(a, ch, ms, arg),
               Remember(Targets(ch, ms, arg, TRUE), Targets(ch, ms, arg, FALSE))
        PROVE  PrivilegeInv'
    <3> DEFINE given == Targets(ch, ms, arg, TRUE)
               taken == Targets(ch, ms, arg, FALSE)
    <3>1. /\ UNCHANGED <<clients, channels>> /\ ch \in channels
          /\ \A d \in ChanName \ {ch} : channel'[d] = channel[d]
          /\ \A b \in Addr : b \in channel'[ch].operators <=>
               <<b, ch>> \in given \/ (b \in channel[ch].operators /\ <<b, ch>> \notin taken)
          /\ given \subseteq clients \X {ch} /\ taken \subseteq clients \X {ch}
      BY <2>0, <2>4, ModeGives
    <3>2. given = {} \/ taken = {}
      BY DEF Targets
    <3> HIDE DEF given, taken
    <3>3. channels \subseteq ChanName
      BY <2>0 DEF IInv, TypeOK
    <3>4. Kept(given, taken)
      BY <3>1, <3>2, <3>3
    <3>5. given \subseteq clients \X channels'
      BY <3>1
    <3>6. Remember(given, taken)
      BY <2>4 DEF given, taken
    <3> QED BY <2>1, <3>1, <3>4, <3>5, <3>6
  <2> QED BY <1>2, <2>2, <2>3, <2>4 DEF HistoryNext
<1> QED BY <1>1, <1>2

\* Whatever address the allocator returns, _operators holds what was given at an
\* address and not taken there, and _invitedClients what was given there.
THEOREM PrivilegeInvariant == HistorySpec => []PrivilegeInv
<1>1. HistoryInit => PrivilegeInv
  BY PrivilegeInit
<1>2. PrivilegeInv /\ [HistoryNext]_historyVars => PrivilegeInv'
  BY PrivilegeStep
<1> QED BY <1>1, <1>2, PTL DEF HistorySpec

\* For any number of clients, whatever they send and whatever address the allocator
\* returns, operator status was given at its address and ends by a MODE -o only.
THEOREM StatusSafe == HistorySpec => []StatusStaysUntilTaken
<1>1. PrivilegeInv => StatusStaysUntilTaken
  BY DEF PrivilegeInv
<1> QED BY <1>1, PrivilegeInvariant, PTL

\* For any number of clients and whatever address the allocator returns, nobody
\* enters a live invite-only channel unless invited at its address and not kicked
\* from there since.
THEOREM InvitedSafe == HistorySpec => InvitedHereOrBefore
<1>1. ASSUME PrivilegeInv, HistoryNext, NEW a \in Addr, NEW ch \in ChanName,
             Survives(ch), "i" \in channel[ch].modes,
             a \in channel'[ch].clients \ channel[ch].clients
      PROVE  <<a, ch>> \in invites \cup oldInvites
  <2>1. Next /\ IInv
    BY <1>1, HistoryIsNext DEF PrivilegeInv
  <2>2. ~UNCHANGED channel
    BY <1>1
  <2>3. \A b \in clients : ~DisconnectClient(b)
    BY <1>1, <2>1, DisconnectEffect
  <2>4. PICK b \in Addr, d \in ChanName : ChannelCommand(b, d)
    BY <2>1, <2>2, <2>3, ConnectionOrDisconnect DEF Next, SendMessageToUser
  <2>5. d = ch
    BY <1>1, <2>1, <2>4, CommandSettings DEF IInv
  <2>6. ~HandlePart(b, d) /\ ~ \E n \in Nick : HandleKick(b, d, n)
    BY <1>1, <2>1, <2>5, PartLeaves, KickLeaves DEF Leaves
  <2>7. PICK k \in JoinKey : HandleJoin(b, d, k)
    BY <1>1, <2>1, <2>4, <2>5, <2>6, OthersStay DEF ChannelCommand, Stays
  <2>8. a = b
    BY <1>1, <2>1, <2>5, <2>7, JoinEnters DEF Enters
  <2>9. a \in clients /\ a \in channel[ch].invited
    BY <1>1, <2>5, <2>7, <2>8 DEF HandleJoin, Admits, Registered, Survives
  <2> QED BY <1>1, <2>9 DEF PrivilegeInv
<1>2. ASSUME PrivilegeInv, [HistoryNext]_historyVars
      PROVE  [\A a \in Addr, ch \in ChanName :
                /\ Survives(ch) /\ "i" \in channel[ch].modes
                /\ a \in channel'[ch].clients \ channel[ch].clients
                => <<a, ch>> \in invites \cup oldInvites]_historyVars
  BY <1>1, <1>2
<1> QED BY <1>2, PrivilegeInvariant, PTL DEF HistorySpec, InvitedHereOrBefore
=============================================================================
