------------------------------ MODULE PollLoop ------------------------------
(***************************************************************************)
(* The life of the server's process: main and Server::init open the        *)
(* listening socket; then one thread polls every socket and walks _pollFds *)
(* by index while accepting a client appends to it and dropping one erases *)
(* from it (Server::run), until a signal sets _signal; ~Server closes what *)
(* is open.                                                                *)
(*                                                                         *)
(* The kernel's part is what poll, accept and recv see: connections that   *)
(* wait to be accepted, input that waits to be read, peers that closed or  *)
(* reset their connection.  A descriptor that is open without a Client is  *)
(* "leaked": nobody reads what its peer does.  What a line of input does   *)
(* to the rest of the server is in IrcServer; here it matters only whether *)
(* it ends with the client dropped.                                        *)
(***************************************************************************)
EXTENDS Integers, FiniteSets, Sequences, SequencesExt

CONSTANTS
  Fd,          \* the descriptors accept can return
  ListenFd,    \* _socketFd
  MaxBacklog   \* bound on the connections that wait to be accepted

ASSUME PollAssumption ==
  IsFiniteSet(Fd) /\ ListenFd \notin Fd /\ MaxBacklog \in Nat

VARIABLES
  \* the server
  pollFds,   \* _pollFds: a sequence of descriptors with their revents
  clients,   \* _clients, as the sequence of their sockets
  at,        \* where the thread is
  i,         \* the index of the walk, counting from 1
  signal,    \* _signal
  listener,  \* the socket of _socketFd: "none", "open" or "listening"
  closes,    \* how many times _socketFd was closed
  \* the kernel
  peer,      \* the connection behind each descriptor
  input,     \* whether there is input to read from it
  backlog    \* how many connections wait to be accepted

walk == <<pollFds, clients, i>>
server == <<walk, at, signal, listener, closes>>
kernel == <<peer, input, backlog>>
vars == <<server, kernel>>

Entry == [fd: Fd \cup {ListenFd}, revents: BOOLEAN]

\* poll reports POLLIN: input, an end of file or an error can be read, or a
\* connection accepted.
Readable(fd) ==
  IF fd = ListenFd THEN backlog > 0 ELSE input[fd] \/ peer[fd] \in {"closed", "reset"}

AnyReadable == \E k \in DOMAIN pollFds : Readable(pollFds[k].fd)

\* Mutant: the revents of the new entry are whatever was on the stack.
NewPollUnset(fd) == [fd |-> fd, revents |-> TRUE]

NewPoll(fd) == [fd |-> fd, revents |-> FALSE]

-----------------------------------------------------------------------------
(* main and Server::init. *)

\* Nothing is open yet when parse_port or parse_password throws.
ParseArguments ==
  /\ at = "main"
  /\ at' \in {"socket", "exited"}
  /\ UNCHANGED <<walk, signal, listener, closes, kernel>>

OpenSocket ==
  /\ at = "socket"
  /\ \/ at' = "bind" /\ listener' = "open"
     \/ at' = "exited" /\ UNCHANGED listener
  /\ UNCHANGED <<walk, signal, closes, kernel>>

\* Mutant: init throws, so that ~Server closes the socket again.
InitThrows ==
  /\ at \in {"bind", "listen", "interfaces"}
  /\ closes' = closes + 1 /\ at' = "teardown"
  /\ UNCHANGED <<walk, signal, listener, kernel>>

\* bind, listen or the search for an interface fails: init closes the socket and
\* calls exit, which does not run ~Server.
InitFails ==
  /\ at \in {"bind", "listen", "interfaces"}
  /\ closes' = closes + 1 /\ at' = "exited"
  /\ UNCHANGED <<walk, signal, listener, kernel>>

Bind ==
  /\ at = "bind"
  /\ at' = "listen"
  /\ UNCHANGED <<walk, signal, listener, closes, kernel>>

\* From now on peers can connect.
Listen ==
  /\ at = "listen"
  /\ listener' = "listening" /\ at' = "interfaces"
  /\ pollFds' = <<NewPoll(ListenFd)>>
  /\ UNCHANGED <<clients, i, signal, closes, kernel>>

FindInterface ==
  /\ at = "interfaces"
  /\ at' = "top"
  /\ UNCHANGED <<walk, signal, listener, closes, kernel>>

-----------------------------------------------------------------------------
(* The loop around poll. *)

\* Mutant: the loop never asks.
TopForever ==
  /\ at = "top"
  /\ at' = "call"
  /\ UNCHANGED <<walk, signal, listener, closes, kernel>>

\* while (_signal == false)
Top ==
  /\ at = "top"
  /\ at' = IF signal THEN "teardown" ELSE "call"
  /\ UNCHANGED <<walk, signal, listener, closes, kernel>>

\* poll finds nothing and waits.
Wait ==
  /\ at = "call" /\ ~AnyReadable
  /\ at' = "waiting"
  /\ UNCHANGED <<walk, signal, listener, closes, kernel>>

\* poll returns -1 although no signal came: run throws, and the exception
\* destroys the Server on its way to the handler in main.
PollFails ==
  /\ at \in {"call", "waiting"} /\ ~signal
  /\ at' = "teardown"
  /\ UNCHANGED <<walk, signal, listener, closes, kernel>>

\* Mutant: the walk starts behind the entry of the listening socket.
PollReturnsPastListener ==
  /\ at \in {"call", "waiting"} /\ AnyReadable
  /\ pollFds' = [k \in DOMAIN pollFds |->
                   [pollFds[k] EXCEPT !.revents = Readable(pollFds[k].fd)]]
  /\ at' = "walk" /\ i' = 2
  /\ UNCHANGED <<clients, signal, listener, closes, kernel>>

\* poll fills in every revents and the walk starts.
PollReturns ==
  /\ at \in {"call", "waiting"} /\ AnyReadable
  /\ pollFds' = [k \in DOMAIN pollFds |->
                   [pollFds[k] EXCEPT !.revents = Readable(pollFds[k].fd)]]
  /\ at' = "walk" /\ i' = 1
  /\ UNCHANGED <<clients, signal, listener, closes, kernel>>

\* The handler of SIGINT or SIGQUIT runs, once main has installed it; before the
\* loop it only sets the flag. It interrupts a poll that waits, which
\* then returns -1 with no revents set; one that is not waiting yet is not.
Signal ==
  /\ at \notin {"main", "exited"} /\ ~signal
  /\ signal' = TRUE
  /\ IF at = "waiting"
     THEN /\ pollFds' = [k \in DOMAIN pollFds |-> [pollFds[k] EXCEPT !.revents = FALSE]]
          /\ at' = "walk" /\ i' = 1
     ELSE UNCHANGED <<pollFds, at, i>>
  /\ UNCHANGED <<clients, listener, closes, kernel>>

-----------------------------------------------------------------------------
(* The walk over _pollFds. *)

Visiting == at = "walk" /\ i <= Len(pollFds)

Skip ==
  /\ Visiting /\ ~pollFds[i].revents
  /\ i' = i + 1
  /\ UNCHANGED <<pollFds, clients, at, signal, listener, closes, kernel>>

\* The new entry goes to the end, so this walk still reaches it.
AcceptNewClient ==
  /\ Visiting /\ pollFds[i].revents /\ pollFds[i].fd = ListenFd
  /\ \E fd \in Fd :
       /\ peer[fd] = "none"
       /\ peer' = [peer EXCEPT ![fd] = "open"]
       /\ clients' = Append(clients, fd)
       /\ pollFds' = Append(pollFds, NewPoll(fd))
  /\ backlog' = backlog - 1
  /\ i' = i + 1
  /\ UNCHANGED <<at, signal, listener, closes, input>>

\* accept takes the connection and fcntl fails: acceptNewClient returns without a
\* Client for the descriptor and without closing it.
FcntlFails ==
  /\ Visiting /\ pollFds[i].revents /\ pollFds[i].fd = ListenFd
  /\ \E fd \in Fd :
       /\ peer[fd] = "none"
       /\ peer' = [peer EXCEPT ![fd] = "leaked"]
  /\ backlog' = backlog - 1
  /\ i' = i + 1
  /\ UNCHANGED <<pollFds, clients, at, signal, listener, closes, input>>

\* accept returns -1 when no descriptor is free; the connection goes on waiting.
AcceptFails ==
  /\ Visiting /\ pollFds[i].revents /\ pollFds[i].fd = ListenFd
  /\ \A fd \in Fd : peer[fd] # "none"
  /\ i' = i + 1
  /\ UNCHANGED <<pollFds, clients, at, signal, listener, closes, kernel>>

\* Mutant: the entry is looked up by its place among the clients.
ErasedByPosition(fd) == RemoveAt(pollFds, SelectInSeq(clients, LAMBDA c : c = fd))

\* Mutant: the entry stays.
ErasedNot(fd) == pollFds

\* _pollFds without the first entry of fd.
Erased(fd) == RemoveAt(pollFds, SelectInSeq(pollFds, LAMBDA e : e.fd = fd))

\* disconnectClient erases the client from both vectors, each of which has it once,
\* and closes its socket; the entry that moves into its place is not visited in
\* this walk.
Disconnect(fd) ==
  /\ pollFds' = Erased(fd)
  /\ clients' = RemoveFirst(clients, fd)
  /\ peer' = [peer EXCEPT ![fd] = "none"]
  /\ input' = [input EXCEPT ![fd] = FALSE]
  /\ i' = i + 1 /\ at' = "walk"
  /\ UNCHANGED <<signal, listener, closes, backlog>>

\* The walk has come to a client that is reported readable.
Reading == Visiting /\ pollFds[i].revents /\ pollFds[i].fd # ListenFd

\* recv returns the input that waits, and its lines are handled.
Receive ==
  /\ Reading /\ input[pollFds[i].fd]
  /\ input' = [input EXCEPT ![pollFds[i].fd] = FALSE]
  /\ at' = "lines"
  /\ UNCHANGED <<walk, signal, listener, closes, peer, backlog>>

\* Mutant: the walk stops at the first client that sent something.
LinesEndWalk ==
  /\ at = "lines"
  /\ at' = "walk" /\ i' = Len(pollFds) + 1
  /\ UNCHANGED <<pollFds, clients, signal, listener, closes, kernel>>

LinesEnd ==
  /\ at = "lines"
  /\ at' = "walk" /\ i' = i + 1
  /\ UNCHANGED <<pollFds, clients, signal, listener, closes, kernel>>

\* A handler drops the client: a wrong PASS, or NICK or USER before PASS.
HandlerDrops == at = "lines" /\ Disconnect(pollFds[i].fd)

\* Mutant: only a negative number of bytes ends a connection.
ReceiveEndIgnored ==
  /\ Reading /\ ~input[pollFds[i].fd] /\ peer[pollFds[i].fd] = "closed"
  /\ i' = i + 1
  /\ UNCHANGED <<pollFds, clients, at, signal, listener, closes, kernel>>

\* recv returns 0.
ReceiveEnd ==
  /\ Reading /\ ~input[pollFds[i].fd] /\ peer[pollFds[i].fd] = "closed"
  /\ Disconnect(pollFds[i].fd)

\* recv returns -1, which as a size_t is not <= 0: the client is kept. The error
\* is reported once, and the next recv returns 0.
ReceiveError ==
  /\ Reading
  /\ LET fd == pollFds[i].fd
     IN /\ ~input[fd] /\ peer[fd] # "closed"
        /\ peer' = [peer EXCEPT ![fd] = IF @ = "reset" THEN "closed" ELSE @]
  /\ i' = i + 1
  /\ UNCHANGED <<pollFds, clients, at, signal, listener, closes, input, backlog>>

WalkEnds ==
  /\ at = "walk" /\ i > Len(pollFds)
  /\ at' = "top"
  /\ UNCHANGED <<walk, signal, listener, closes, kernel>>

\* ~Server deletes the clients, which closes their sockets, and closes its own.
Teardown ==
  /\ at = "teardown"
  /\ clients' = <<>> /\ pollFds' = <<>>
  /\ closes' = IF listener # "none" THEN closes + 1 ELSE closes
  /\ peer' = [fd \in Fd |-> IF fd \in ToSet(clients) THEN "none" ELSE peer[fd]]
  /\ input' = [fd \in Fd |-> FALSE]
  /\ at' = "exited"
  /\ UNCHANGED <<i, signal, listener, backlog>>

-----------------------------------------------------------------------------
(* The peers. *)

Connect ==
  /\ at # "exited" /\ listener = "listening" /\ backlog < MaxBacklog
  /\ backlog' = backlog + 1
  /\ UNCHANGED <<server, peer, input>>

Sends(fd) ==
  /\ at # "exited" /\ peer[fd] = "open" /\ ~input[fd]
  /\ input' = [input EXCEPT ![fd] = TRUE]
  /\ UNCHANGED <<server, peer, backlog>>

\* A reset discards the input that was not read yet.
Goes(fd, how) ==
  /\ at # "exited" /\ peer[fd] = "open"
  /\ peer' = [peer EXCEPT ![fd] = how]
  /\ input' = [input EXCEPT ![fd] = IF how = "reset" THEN FALSE ELSE @]
  /\ UNCHANGED <<server, backlog>>

-----------------------------------------------------------------------------
Init ==
  /\ pollFds = <<>> /\ clients = <<>> /\ at = "main" /\ i = 1 /\ signal = FALSE
  /\ listener = "none" /\ closes = 0
  /\ peer = [fd \in Fd |-> "none"] /\ input = [fd \in Fd |-> FALSE] /\ backlog = 0

\* One step of the server's thread.
Run ==
  \/ ParseArguments \/ OpenSocket \/ InitFails \/ Bind \/ Listen \/ FindInterface
  \/ Top \/ Wait \/ PollFails \/ PollReturns
  \/ Skip \/ AcceptNewClient \/ FcntlFails \/ AcceptFails
  \/ Receive \/ LinesEnd \/ HandlerDrops \/ ReceiveEnd \/ ReceiveError \/ WalkEnds
  \/ Teardown

Peers ==
  \/ Connect
  \/ \E fd \in Fd : Sends(fd) \/ \E how \in {"closed", "reset"} : Goes(fd, how)

Next == Run \/ Signal \/ Peers

\* The thread is scheduled; peers and signals owe nothing.
Spec == Init /\ [][Next]_vars /\ WF_vars(Run)

-----------------------------------------------------------------------------
TypeOK ==
  /\ pollFds \in Seq(Entry) /\ clients \in Seq(Fd)
  /\ at \in {"main", "socket", "bind", "listen", "interfaces", "top", "call", "waiting",
            "walk", "lines", "teardown", "exited"}
  /\ i \in 1 .. Cardinality(Fd) + 2 /\ signal \in BOOLEAN
  /\ listener \in {"none", "open", "listening"} /\ closes \in Nat
  /\ peer \in [Fd -> {"none", "open", "closed", "reset", "leaked"}]
  /\ input \in [Fd -> BOOLEAN] /\ backlog \in 0 .. MaxBacklog

\* The loop of run, and what it is made of.
Looping == at \in {"top", "call", "waiting", "walk", "lines"}

\* The server has to end: a signal came, or poll failed.
Ending == signal \/ at \in {"teardown", "exited"}

\* _pollFds is the listening socket followed by the sockets of _clients in their
\* order, and those are the open descriptors but for the leaked ones:
\* acceptNewClient and disconnectClient, which edit the two vectors apart, never
\* let them drift.
PollFdsMatchClients ==
  /\ Looping => [k \in DOMAIN pollFds |-> pollFds[k].fd] = <<ListenFd>> \o clients
  /\ IsInjective(clients)
  /\ ToSet(clients) = {fd \in Fd : peer[fd] \notin {"none", "leaked"}}

\* An entry the walk has still to visit reports input only while there is some,
\* although descriptors are closed, given again and moved within the vector
\* during the walk: receiveNewData never reads a socket that has nothing, and
\* accept, which would block, always has a connection to take.
ReventsAreCurrent ==
  at \in {"walk", "lines"} =>
    \A k \in i + (IF at = "lines" THEN 1 ELSE 0) .. Len(pollFds) :
      pollFds[k].revents => Readable(pollFds[k].fd)

\* However the process ends - an argument refused, a step of init that fails,
\* poll failing, a signal - the listening socket was closed, once, and so was
\* every other one but those whose fcntl failed in acceptNewClient: they are left
\* to the end of the process (init, acceptNewClient, ~Server).
OnlyLeakedStayOpen ==
  at = "exited" =>
    /\ closes = IF listener = "none" THEN 0 ELSE 1
    /\ \A fd \in Fd : peer[fd] \in {"none", "leaked"}

\* Input is read or its client dropped, however often other clients are dropped
\* in front of it in the walk and make the walk miss it (run).
InputIsRead ==
  \A fd \in Fd : input[fd] ~> ~input[fd] \/ Ending

\* A client whose peer closed or reset the connection is dropped, even though
\* the error of a reset is not recognised (receiveNewData).
GonePeerIsDropped ==
  \A fd \in Fd : peer[fd] \in {"closed", "reset"} ~> peer[fd] = "none" \/ Ending

\* A connection that waits is accepted once there is a descriptor for it: an
\* accept that failed for want of one is tried again, and a failing fcntl is in
\* the way only until no descriptor is left (run, acceptNewClient).
NewcomersAreAccepted ==
  \/ <>Ending
  \/ []<>(backlog = 0 \/ \A fd \in Fd : peer[fd] # "none")
  \/ []<><<AcceptNewClient>>_vars

\* After a signal the server ends, unless the signal came after the test of
\* _signal and before poll waits, and no peer does anything from then on (run,
\* signalHandler).
SignalEndsServer ==
  (signal ~> at = "exited") \/ <>[](at = "waiting" /\ ~AnyReadable)
=============================================================================
