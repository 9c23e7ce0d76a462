------------------------------ MODULE Reception ------------------------------
(***************************************************************************)
(* PollLoop with the bytes it reads: what the peers of several clients     *)
(* send waits in their sockets, receiveNewData appends it to the           *)
(* _messageBuffer of the client and handles the complete lines there, one  *)
(* after the other, before the walk goes on.                               *)
(*                                                                         *)
(* Every step is built from a step of PollLoop, which holds the control,   *)
(* with what it does to the bytes; a line whose client stays is a step of  *)
(* its own, which PollLoop does not see.  Signals are left to PollLoop:    *)
(* they only end the loop between two walks.                               *)
(*                                                                         *)
(* One recv returns all that waits.  A burst that is longer than the 1023  *)
(* bytes recv asks for is one whose rest arrives just after the recv, so   *)
(* every cut of the stream is a moment of arrival.                         *)
(***************************************************************************)
EXTENDS Integers, FiniteSets, LineBuffer

CONSTANTS
  Fd, ListenFd, MaxBacklog,   \* as in PollLoop
  MaxSent,                    \* bound on the bytes the connections of a time sent
  Terse                       \* the descriptors whose peers send one byte at most

ASSUME ReceptionAssumption == MaxSent \in Nat /\ Terse \subseteq Fd

VARIABLES
  pollFds, clients, at, i, signal, listener, closes, peer, input, backlog,
  wire,      \* the bytes of each descriptor that recv has not returned yet
  buffer,    \* the _messageBuffer of its client
  sent,      \* history: the bytes of the open connection that came through
  handled    \* history: the lines of it that handleCommand was called with

Poll == INSTANCE PollLoop

loop == <<pollFds, clients, at, i, signal, listener, closes, peer, input, backlog>>
bytes == <<wire, buffer, sent, handled>>
vars == <<loop, bytes>>

\* Mutant: the buffer belongs to the descriptor and outlives the client.
ForgetsAllButBuffer(fds) ==
  /\ wire' = [fd \in Fd |-> IF fd \in fds THEN <<>> ELSE wire[fd]]
  /\ sent' = [fd \in Fd |-> IF fd \in fds THEN <<>> ELSE sent[fd]]
  /\ handled' = [fd \in Fd |-> IF fd \in fds THEN <<>> ELSE handled[fd]]
  /\ UNCHANGED buffer

\* Nothing is left of a connection on fd, and nothing is there of a new one.
ForgetsAll(fds) ==
  /\ wire' = [fd \in Fd |-> IF fd \in fds THEN <<>> ELSE wire[fd]]
  /\ buffer' = [fd \in Fd |-> IF fd \in fds THEN <<>> ELSE buffer[fd]]
  /\ sent' = [fd \in Fd |-> IF fd \in fds THEN <<>> ELSE sent[fd]]
  /\ handled' = [fd \in Fd |-> IF fd \in fds THEN <<>> ELSE handled[fd]]

Reads == pollFds[i].fd
HasLine(fd) == Contains(buffer[fd], "LF")

-----------------------------------------------------------------------------
\* The steps that touch no bytes.
Elsewhere ==
  /\ \/ Poll!ParseArguments \/ Poll!OpenSocket \/ Poll!InitFails \/ Poll!Bind
     \/ Poll!Listen \/ Poll!FindInterface
     \/ Poll!Top \/ Poll!Wait \/ Poll!PollFails \/ Poll!PollReturns
     \/ Poll!Skip \/ Poll!FcntlFails \/ Poll!AcceptFails \/ Poll!ReceiveError \/ Poll!WalkEnds
  /\ UNCHANGED bytes

\* The Client object is new, and so is its buffer.
AcceptNewClient == Poll!AcceptNewClient /\ ForgetsAll({Last(clients')})

Receive ==
  /\ Poll!Receive
  /\ buffer' = [buffer EXCEPT ![Reads] = Appended(@, wire[Reads])]
  /\ wire' = [wire EXCEPT ![Reads] = <<>>]
  /\ UNCHANGED <<sent, handled>>

\* The line is taken out of the buffer before it is handled.
HandleLine ==
  /\ at = "lines" /\ HasLine(Reads)
  /\ handled' = [handled EXCEPT ![Reads] = Append(@, FirstLine(buffer[Reads]))]
  /\ buffer' = [buffer EXCEPT ![Reads] = AfterLine(@)]
  /\ UNCHANGED <<loop, wire, sent>>

\* Mutant: the loop does not ask whether the client is still there.
HandlerDropsUnchecked ==
  /\ at = "lines" /\ HasLine(Reads) /\ MayDrop(FirstLine(buffer[Reads]))
  /\ handled' = [handled EXCEPT ![Reads] = Append(@, FirstLine(buffer[Reads]))]
  /\ buffer' = [buffer EXCEPT ![Reads] = AfterLine(@)]
  /\ peer' = [peer EXCEPT ![Reads] = "none"] /\ input' = [input EXCEPT ![Reads] = FALSE]
  /\ wire' = [wire EXCEPT ![Reads] = <<>>]
  /\ UNCHANGED <<pollFds, clients, at, i, signal, listener, closes, backlog, sent>>

\* The handler drops the client, which deletes the buffer; the loop returns.
HandlerDrops ==
  /\ at = "lines" /\ HasLine(Reads) /\ MayDrop(FirstLine(buffer[Reads]))
  /\ Poll!HandlerDrops /\ ForgetsAll({Reads})

\* Mutant: one line for each chunk.
LinesEndEarly ==
  /\ (at = "lines" => ~HasLine(Reads) \/ handled[Reads] # <<>>) /\ Poll!LinesEnd
  /\ UNCHANGED bytes

LinesEnd ==
  /\ (at = "lines" => ~HasLine(Reads)) /\ Poll!LinesEnd
  /\ UNCHANGED bytes

ReceiveEnd == Poll!ReceiveEnd /\ ForgetsAll({Reads})

Teardown == Poll!Teardown /\ ForgetsAll(Fd)

-----------------------------------------------------------------------------
(* The peers. *)

Open == {fd \in Fd : peer[fd] \notin {"none", "leaked"}}

\* The first byte that waits makes the socket readable.
Sends(fd, b) ==
  /\ at # "exited" /\ peer[fd] = "open"
  /\ FoldSet(LAMBDA f, n : n + Len(sent[f]), 0, Fd) < MaxSent
  /\ fd \in Terse => sent[fd] = <<>>
  /\ input' = [input EXCEPT ![fd] = TRUE]
  /\ wire' = [wire EXCEPT ![fd] = Append(@, b)]
  /\ sent' = [sent EXCEPT ![fd] = Append(@, b)]
  /\ UNCHANGED <<pollFds, clients, at, i, signal, listener, closes, peer, backlog,
                 buffer, handled>>

Connect == Poll!Connect /\ UNCHANGED bytes

Closes(fd) == Poll!Goes(fd, "closed") /\ UNCHANGED bytes

\* What a reset discards did not come through.
Resets(fd) ==
  /\ Poll!Goes(fd, "reset")
  /\ wire' = [wire EXCEPT ![fd] = <<>>]
  /\ sent' = [sent EXCEPT ![fd] = SubSeq(@, 1, Len(@) - Len(wire[fd]))]
  /\ UNCHANGED <<buffer, handled>>

-----------------------------------------------------------------------------
Init ==
  /\ Poll!Init
  /\ wire = [fd \in Fd |-> <<>>] /\ buffer = [fd \in Fd |-> <<>>]
  /\ sent = [fd \in Fd |-> <<>>] /\ handled = [fd \in Fd |-> <<>>]

Server ==
  \/ Elsewhere \/ AcceptNewClient \/ Receive \/ HandleLine \/ HandlerDrops \/ LinesEnd
  \/ ReceiveEnd \/ Teardown

Peers ==
  \/ Connect
  \/ \E fd \in Fd : (\E b \in Byte : Sends(fd, b)) \/ Closes(fd) \/ Resets(fd)

Next == Server \/ Peers

\* The thread is scheduled; peers owe nothing.
Spec == Init /\ [][Next]_vars /\ WF_vars(Server)

-----------------------------------------------------------------------------
\* The bytes of the stream that were not lost to a NUL, in lines.
Rest(fd) == LinesOf(buffer[fd] \o wire[fd])

\* However the streams of several clients are cut and interleaved, the lines
\* handled for each are the lines it sent: each one whole, once and in order,
\* none of them those of another client or of an earlier connection on the same
\* descriptor, and what is still to come is in the buffer and on the wire
\* (receiveNewData). A stream is good up to its first NUL, whatever it was sent
\* in one chunk with.
LinesArriveWhole ==
  \A fd \in Fd :
    LET good == LinesOf(CString(sent[fd]))
    IN /\ fd \in Open => IsPrefix(good, handled[fd] \o Rest(fd))
       /\ ~Contains(sent[fd], "NUL") => IsPrefix(handled[fd] \o Rest(fd), good)

\* A NUL only takes bytes away, even where it joins two lines: the bytes handled
\* are bytes that were sent, in their order (receiveNewData).
NulOnlyDrops ==
  \A fd \in Fd : IsThinned(FlattenSeq(handled[fd]) \o buffer[fd] \o wire[fd], sent[fd])

\* No complete line is left in a buffer when the server goes on to another
\* client or back to poll, which would not wake it for that line (the while of
\* receiveNewData).
NoLineWaits == \A fd \in Fd : HasLine(fd) => at = "lines" /\ fd = Reads

\* No line is handled for a client that was dropped, although the loop had more
\* of them (the test after handleCommand in receiveNewData).
DroppedIsSilent ==
  [][\A fd \in Fd : peer[fd] = "none" => handled'[fd] = handled[fd]]_vars

\* Every complete line is handled in the end, however the walk is disturbed by
\* other clients, unless its client is dropped or the server ends.
EveryLineIsServed ==
  \A fd \in Fd :
    LET waits == fd \in Open /\ Len(handled[fd]) < Len(LinesOf(CString(sent[fd])))
    IN waits ~> ~waits \/ Poll!Ending

\* A client that says QUIT is dropped. README.md lists QUIT and says of it
\* "Disconnect from server".
QuitDisconnects ==
  [][\A fd \in Fd :
       Len(handled'[fd]) > Len(handled[fd]) /\ Word(Last(handled'[fd])) = <<"QUIT">>
         => peer'[fd] = "none"]_vars
=============================================================================
