------------------------------ MODULE Delivery ------------------------------
(***************************************************************************)
(* What becomes of the messages the server sends: Channel::broadcast, the  *)
(* loop of sendMessageToChannel and the replies of registerClient and      *)
(* handleJoin call send once for each client and message and never look at *)
(* what it returns.  The sockets do not block, so a send that finds too    *)
(* little room takes the beginning of the message, or nothing; to a peer   *)
(* that has gone one send goes unnoticed or fails, and a later one raises  *)
(* SIGPIPE, which main neither handles nor ignores.                        *)
(*                                                                         *)
(* The clients are the members of one channel; who joins and leaves it     *)
(* otherwise is in IrcServer.  A message is two bytes, its text and the    *)
(* end of its line.                                                        *)
(***************************************************************************)
EXTENDS Integers, Sequences, SequencesExt, FiniteSetsExt

CONSTANTS
  Client,       \* the clients
  Capacity,     \* the bytes a socket holds that its peer has not read
  MaxMessages   \* bound on the messages

ASSUME DeliveryAssumption ==
  IsFiniteSet(Client) /\ Capacity \in Nat /\ MaxMessages \in Nat

VARIABLES
  members,   \* _clients of the channel
  at,        \* "poll", "sending", or "killed"
  todo,      \* the calls of send to come in this handler: to whom, and what
  sent,      \* the messages there were, each numbered by its place
  peer,      \* what the socket knows of its peer
  wire,      \* the bytes the peer has not read
  read,      \* history: the bytes it read
  due,       \* history: the messages meant for the client
  roomy      \* history: there was always room for them

server == <<members, at, todo, sent>>
history == <<due, roomy>>
vars == <<server, peer, wire, read, history>>

Message == 1 .. MaxMessages
Bytes(m) == <<<<m, "text">>, <<m, "LF">>>>

\* "closed": the peer closed its end. "reset": it reset the connection, which
\* the next send or recv reports. "shut": nothing can be sent any more.
\* "gone": its socket is closed.
PeerState == {"open", "closed", "reset", "shut", "gone"}

-----------------------------------------------------------------------------
(* The handlers that send. *)

\* The calls of send that hand message m to the clients of the sequence to.
Calls(to, m) == [k \in DOMAIN to |-> [to |-> to[k], message |-> m]]

\* The messages that calls hand to client c.
MessagesTo(c, calls) ==
  FlattenSeq([k \in DOMAIN calls |->
                IF calls[k].to = c THEN <<calls[k].message>> ELSE <<>>])

Sends(calls) ==
  /\ todo' = calls /\ at' = "sending"
  /\ due' = [c \in Client |-> due[c] \o MessagesTo(c, calls)]

\* Channel::broadcast, as the handlers of TOPIC, MODE, INVITE, NICK, PART and
\* KICK call it.
Broadcast ==
  /\ at = "poll" /\ sent < MaxMessages
  /\ Sends(Calls(members, sent + 1)) /\ sent' = sent + 1
  /\ UNCHANGED <<members, peer, wire, read, roomy>>

\* sendMessageToChannel leaves the sender out.
SendMessageToChannel(c) ==
  /\ at = "poll" /\ sent < MaxMessages /\ Contains(members, c)
  /\ Sends(Calls(RemoveFirst(members, c), sent + 1)) /\ sent' = sent + 1
  /\ UNCHANGED <<members, peer, wire, read, roomy>>

\* registerClient sends five messages to one client, handleJoin two after the
\* broadcast of the JOIN: two of them do here for several.
Reply(c) ==
  /\ at = "poll" /\ sent + 1 < MaxMessages /\ Contains(members, c)
  /\ Sends(Calls(<<c>>, sent + 1) \o Calls(<<c>>, sent + 2)) /\ sent' = sent + 2
  /\ UNCHANGED <<members, peer, wire, read, roomy>>

\* recv returned 0: disconnectClient takes the client out of the channel and tells
\* the others.
Disconnect(c) ==
  /\ at = "poll" /\ sent < MaxMessages
  /\ Contains(members, c) /\ peer[c] \in {"closed", "shut"}
  /\ members' = RemoveFirst(members, c)
  /\ Sends(Calls(members', sent + 1)) /\ sent' = sent + 1
  /\ peer' = [peer EXCEPT ![c] = "gone"]
  /\ UNCHANGED <<wire, read, roomy>>

\* recv returned -1, and the error is reported no more.
ReceiveError(c) ==
  /\ at = "poll" /\ Contains(members, c) /\ peer[c] = "reset"
  /\ peer' = [peer EXCEPT ![c] = "shut"]
  /\ UNCHANGED <<server, wire, read, due, roomy>>

-----------------------------------------------------------------------------
(* One call of send. *)

Calling == at = "sending" /\ todo # <<>>
Receiver == Head(todo).to
Room(c) == Capacity - Len(wire[c])

\* What send takes of a message.
Taken(c, m) == SubSeq(Bytes(m), 1, Min({Len(Bytes(m)), Room(c)}))

\* Mutant: what was not taken is sent again, message and all.
SendAgain ==
  /\ Calling /\ peer[Receiver] = "open"
  /\ LET taken == Taken(Receiver, Head(todo).message)
     IN /\ wire' = [wire EXCEPT ![Receiver] = @ \o taken]
        /\ roomy' = [roomy EXCEPT ![Receiver] = @ /\ Len(taken) = 2]
        /\ todo' = IF Len(taken) = 2 THEN Tail(todo) ELSE todo
  /\ UNCHANGED <<members, at, sent, peer, read, due>>

\* Mutant: without O_NONBLOCK send waits for room.
SendBlocking ==
  /\ Calling /\ peer[Receiver] = "open" /\ Room(Receiver) >= 2
  /\ wire' = [wire EXCEPT ![Receiver] = @ \o Bytes(Head(todo).message)]
  /\ todo' = Tail(todo)
  /\ UNCHANGED <<members, at, sent, peer, read, due, roomy>>

Send ==
  /\ Calling /\ peer[Receiver] = "open"
  /\ LET taken == Taken(Receiver, Head(todo).message)
     IN /\ wire' = [wire EXCEPT ![Receiver] = @ \o taken]
        /\ roomy' = [roomy EXCEPT ![Receiver] = @ /\ Len(taken) = 2]
  /\ todo' = Tail(todo)
  /\ UNCHANGED <<members, at, sent, peer, read, due>>

\* The kernel takes what a peer that closed is sent, and the peer answers it with
\* a reset, now or later.
SendInVain ==
  /\ Calling /\ peer[Receiver] = "closed"
  /\ peer' \in {peer, [peer EXCEPT ![Receiver] = "shut"]}
  /\ todo' = Tail(todo)
  /\ UNCHANGED <<members, at, sent, wire, read, due, roomy>>

\* Mutant: a failed send ends the loop.
SendFailsAndBreaks ==
  /\ Calling /\ peer[Receiver] = "reset"
  /\ peer' = [peer EXCEPT ![Receiver] = "shut"]
  /\ todo' = <<>>
  /\ UNCHANGED <<members, at, sent, wire, read, due, roomy>>

\* The reset is reported once.
SendFails ==
  /\ Calling /\ peer[Receiver] = "reset"
  /\ peer' = [peer EXCEPT ![Receiver] = "shut"]
  /\ todo' = Tail(todo)
  /\ UNCHANGED <<members, at, sent, wire, read, due, roomy>>

\* SIGPIPE ends the process.
SendKills ==
  /\ Calling /\ peer[Receiver] = "shut"
  /\ at' = "killed"
  /\ UNCHANGED <<members, todo, sent, peer, wire, read, history>>

SendsEnd ==
  /\ at = "sending" /\ todo = <<>>
  /\ at' = "poll"
  /\ UNCHANGED <<members, todo, sent, peer, wire, read, history>>

-----------------------------------------------------------------------------
(* The peers. *)

Reads(c) ==
  /\ at # "killed" /\ peer[c] = "open" /\ wire[c] # <<>>
  /\ wire' = [wire EXCEPT ![c] = Tail(@)]
  /\ read' = [read EXCEPT ![c] = Append(@, Head(wire[c]))]
  /\ UNCHANGED <<server, peer, history>>

Goes(c, how) ==
  /\ at # "killed" /\ peer[c] = "open"
  /\ peer' = [peer EXCEPT ![c] = how]
  /\ wire' = [wire EXCEPT ![c] = <<>>]
  /\ UNCHANGED <<server, read, history>>

-----------------------------------------------------------------------------
Init ==
  /\ members = SetToSeq(Client) /\ at = "poll" /\ todo = <<>> /\ sent = 0
  /\ peer = [c \in Client |-> "open"]
  /\ wire = [c \in Client |-> <<>>] /\ read = [c \in Client |-> <<>>]
  /\ due = [c \in Client |-> <<>>] /\ roomy = [c \in Client |-> TRUE]

Handler ==
  \/ Broadcast
  \/ \E c \in Client : SendMessageToChannel(c) \/ Reply(c) \/ Disconnect(c) \/ ReceiveError(c)

SendStep == Send \/ SendInVain \/ SendFails \/ SendKills \/ SendsEnd

Peers == \E c \in Client : Reads(c) \/ \E how \in {"closed", "reset"} : Goes(c, how)

Next == Handler \/ SendStep \/ Peers

\* A handler that has begun goes on; peers owe nothing, not even to read.
Spec == Init /\ [][Next]_vars /\ WF_vars(SendStep)

-----------------------------------------------------------------------------
\* The stream of a client: what its peer read and what it has still to read.
Stream(c) == read[c] \o wire[c]

AllOf(messages) == FlattenSeq([k \in DOMAIN messages |-> Bytes(messages[k])])

\* A client whose socket always had room got every message meant for it, whole
\* and in order, whatever the sockets of the others did during the loop: full,
\* closed or reset (Channel::broadcast, sendMessageToChannel).
WhoKeepsUpGetsAll ==
  \A c \in Client :
    at = "poll" /\ peer[c] = "open" /\ roomy[c] => Stream(c) = AllOf(due[c])

\* A client that does not keep up loses messages and ends of messages, never a
\* beginning or a middle; none comes twice and none out of order (send without a
\* test of what it returns). A lost end loses the end of the line with it, so
\* that the next message goes on in the same line.
LossIsAtTheEnd ==
  \A c \in Client : peer[c] = "open" =>
    \E kept \in [DOMAIN due[c] -> 0 .. 2] :
      Stream(c) = FlattenSeq([k \in DOMAIN due[c] |-> SubSeq(Bytes(due[c][k]), 1, kept[k])])

\* A client that leaves does not end the server for the others. README.md says of
\* it "Handles multiple concurrent client connections".
OthersAreServed == at # "killed"

\* No peer keeps the server in a handler, although it may never read (the
\* O_NONBLOCK of acceptNewClient).
HandlersEnd == at = "sending" ~> at \in {"poll", "killed"}
=============================================================================
