--------------------------- MODULE ReceptionProofs ---------------------------
(***************************************************************************)
(* Proofs about Reception, for any set of descriptors, any texts and any   *)
(* number of bytes: no complete line is left in a buffer between two walks, *)
(* none is handled for a dropped client, and the lines that are handled    *)
(* are those that were sent.                                               *)
(***************************************************************************)
EXTENDS Reception, SequenceFacts

States == {"none", "open", "closed", "reset", "leaked"}

\* No client owns a descriptor in one of these states.
Ownerless == {"none", "leaked"}

ReadingType ==
  /\ pollFds \in Seq(Poll!Entry) /\ i \in Nat \ {0} /\ backlog \in Int
  /\ peer \in [Fd -> States] /\ input \in [Fd -> BOOLEAN]
  /\ DOMAIN buffer = Fd /\ DOMAIN handled = Fd

\* Lines are handled for an open connection.
LinesAreOfOpen == at = "lines" => Reads \in Fd /\ peer[Reads] \notin Ownerless

\* Input waits on open connections only, and nothing was received from others.
NothingOfClosed ==
  \A fd \in Fd : peer[fd] \in Ownerless =>
                 ~input[fd] /\ buffer[fd] = <<>> /\ handled[fd] = <<>>

ReadingInv == ReadingType /\ LinesAreOfOpen /\ NothingOfClosed /\ NoLineWaits

-----------------------------------------------------------------------------
\* In an empty buffer there is no line.
LEMMA EmptyHasNoLine == ~Contains(<<>>, "LF")
BY DEF Contains

\* The entries that are left are entries.
LEMMA ErasedType ==
  ASSUME NEW fd, pollFds \in Seq(Poll!Entry)
  PROVE  Poll!Erased(fd) \in Seq(Poll!Entry)
<1> DEFINE I == {k \in 1 .. Len(pollFds) : pollFds[k].fd = fd}
           n == IF I # {} THEN Min(I) ELSE 0
<1>1. n \in 0 .. Len(pollFds)
  <2>1. CASE I # {}
    <3>1. I \in SUBSET Nat
      OBVIOUS
    <3>2. Min(I) \in I
      <4> HIDE DEF I
      <4> QED BY <2>1, <3>1, LeastNumber
    <3> QED BY <2>1, <3>2
  <2>2. CASE I = {}
    BY <2>2
  <2> QED BY <2>1, <2>2
<1>2. Poll!SelectInSeq(pollFds, LAMBDA e : e.fd = fd) = n
  BY DEF Poll!SelectInSeq, Poll!Min, Min
<1>3. Poll!Erased(fd) = SubSeq(pollFds, 1, n - 1) \o SubSeq(pollFds, n + 1, Len(pollFds))
  BY <1>2 DEF Poll!Erased, Poll!RemoveAt
<1> HIDE DEF n
<1>4. /\ SubSeq(pollFds, 1, n - 1) \in Seq(Poll!Entry)
      /\ SubSeq(pollFds, n + 1, Len(pollFds)) \in Seq(Poll!Entry)
  BY <1>1
<1> QED BY <1>3, <1>4, ConcatProperties

-----------------------------------------------------------------------------
\* At the start nothing is being read.
LEMMA ReadingInit == Init => ReadingInv
<1> SUFFICES ASSUME Init PROVE ReadingInv
  OBVIOUS
<1>1. /\ pollFds = <<>> /\ at = "main" /\ i = 1 /\ backlog = 0
      /\ peer = [fd \in Fd |-> "none"] /\ input = [fd \in Fd |-> FALSE]
      /\ buffer = [fd \in Fd |-> <<>>] /\ handled = [fd \in Fd |-> <<>>]
  BY DEF Init, Poll!Init
<1>2. ReadingType
  BY <1>1 DEF ReadingType, States
<1>3. NoLineWaits
  BY <1>1, EmptyHasNoLine DEF NoLineWaits, HasLine
<1> QED BY <1>1, <1>2, <1>3 DEF ReadingInv, LinesAreOfOpen, NothingOfClosed

\* A step after which no lines are being handled.
LEMMA QuietInv ==
  ASSUME ReadingInv, at' # "lines", ReadingType',
         at = "lines" => ~HasLine(Reads) \/ buffer'[Reads] = <<>>,
         \A fd \in Fd : buffer'[fd] \in {buffer[fd], <<>>},
         \A fd \in Fd : peer'[fd] \in Ownerless =>
                         ~input'[fd] /\ buffer'[fd] = <<>> /\ handled'[fd] = <<>>
  PROVE  ReadingInv'
<1>1. LinesAreOfOpen' /\ NothingOfClosed'
  BY DEF LinesAreOfOpen, NothingOfClosed
<1>2. NoLineWaits'
  BY EmptyHasNoLine DEF ReadingInv, NoLineWaits, HasLine
<1> QED BY <1>1, <1>2 DEF ReadingInv

\* A step of a peer: the lines that are being handled go on.
LEMMA PeerInv ==
  ASSUME ReadingInv, UNCHANGED <<pollFds, at, i, buffer, handled>>, backlog' \in Int,
         peer' \in [Fd -> States], input' \in [Fd -> BOOLEAN],
         \A fd \in Fd : /\ peer'[fd] \in Ownerless <=> peer[fd] \in Ownerless
                        /\ peer[fd] \in Ownerless => input'[fd] = input[fd]
  PROVE  ReadingInv'
<1>1. ReadingType'
  BY DEF ReadingInv, ReadingType
<1>2. LinesAreOfOpen'
  BY DEF ReadingInv, LinesAreOfOpen, Reads
<1>3. NothingOfClosed'
  BY DEF ReadingInv, NothingOfClosed
<1>4. NoLineWaits'
  BY DEF ReadingInv, NoLineWaits, HasLine, Reads
<1> QED BY <1>1, <1>2, <1>3, <1>4 DEF ReadingInv

\* What poll writes to the revents is a test.
LEMMA ReadableType ==
  ASSUME ReadingType, NEW fd \in Fd \cup {ListenFd}
  PROVE  Poll!Readable(fd) \in BOOLEAN
<1>1. CASE fd = ListenFd
  BY <1>1 DEF Poll!Readable, ReadingType
<1>2. CASE fd # ListenFd
  <2>1. input[fd] \in BOOLEAN
    BY <1>2 DEF ReadingType
  <2>2. Poll!Readable(fd) = (input[fd] \/ peer[fd] \in {"closed", "reset"})
    BY <1>2 DEF Poll!Readable
  <2> QED BY <2>1, <2>2
<1> QED BY <1>1, <1>2

\* The steps that touch no bytes.
LEMMA ElsewhereInv ==
  ASSUME ReadingInv, Elsewhere
  PROVE  ReadingInv'
<1>0. ReadingType /\ NothingOfClosed
  BY DEF ReadingInv
<1>1. UNCHANGED <<buffer, handled>>
  BY DEF Elsewhere, bytes
<1>2. CASE Poll!ReceiveError
  <2> DEFINE fd == pollFds[i].fd
  <2>1. /\ at = "walk" /\ UNCHANGED <<pollFds, at, input, backlog>> /\ i' = i + 1
        /\ peer' = [peer EXCEPT ![fd] = IF @ = "reset" THEN "closed" ELSE @]
    BY <1>2 DEF Poll!ReceiveError, Poll!Reading, Poll!Visiting
  <2> HIDE DEF fd
  <2>2. /\ peer' \in [Fd -> States]
        /\ \A f \in Fd : peer'[f] \in Ownerless <=> peer[f] \in Ownerless
    BY <1>0, <2>1 DEF ReadingType, States, Ownerless
  <2>3. ReadingType'
    BY <1>0, <1>1, <2>1, <2>2 DEF ReadingType
  <2> QED BY <1>0, <1>1, <2>1, <2>2, <2>3, QuietInv DEF NothingOfClosed
<1>3. CASE Poll!PollReturns
  <2>1. /\ at' = "walk" /\ i' = 1 /\ at # "lines" /\ UNCHANGED <<peer, input, backlog>>
        /\ pollFds' = [k \in DOMAIN pollFds |->
                         [pollFds[k] EXCEPT !.revents = Poll!Readable(pollFds[k].fd)]]
    BY <1>3 DEF Poll!PollReturns, Poll!kernel
  <2>2. pollFds' \in Seq(Poll!Entry)
    <3>1. \A k \in DOMAIN pollFds : pollFds[k] \in Poll!Entry
      BY <1>0 DEF ReadingType
    <3>2. \A k \in DOMAIN pollFds : Poll!Readable(pollFds[k].fd) \in BOOLEAN
      BY <1>0, <3>1, ReadableType DEF Poll!Entry
    <3>3. pollFds' \in [DOMAIN pollFds -> Poll!Entry]
      BY <2>1, <3>1, <3>2 DEF Poll!Entry
    <3> QED BY <1>0, <3>3, Overwriting DEF ReadingType
  <2>3. ReadingType'
    BY <1>0, <1>1, <2>1, <2>2 DEF ReadingType
  <2> QED BY <1>0, <1>1, <2>1, <2>3, QuietInv DEF NothingOfClosed
<1>4. CASE Poll!Listen
  <2>1. /\ at = "listen" /\ at' = "interfaces" /\ UNCHANGED <<i, peer, input, backlog>>
        /\ pollFds' = <<[fd |-> ListenFd, revents |-> FALSE]>>
    BY <1>4 DEF Poll!Listen, Poll!NewPoll, Poll!kernel
  <2>2. pollFds' \in Seq(Poll!Entry)
    BY <2>1 DEF Poll!Entry
  <2>3. ReadingType'
    BY <1>0, <1>1, <2>1, <2>2 DEF ReadingType
  <2> QED BY <1>0, <1>1, <2>1, <2>3, QuietInv DEF NothingOfClosed
<1>5. CASE \/ Poll!ParseArguments \/ Poll!OpenSocket \/ Poll!InitFails \/ Poll!Bind
           \/ Poll!FindInterface \/ Poll!Top \/ Poll!Wait \/ Poll!PollFails
           \/ Poll!Skip \/ Poll!AcceptFails \/ Poll!WalkEnds
  <2>1. /\ at # "lines" /\ at' # "lines" /\ UNCHANGED <<pollFds, peer, input, backlog>>
        /\ i' \in {i, i + 1}
    BY <1>5 DEF Poll!ParseArguments, Poll!OpenSocket, Poll!InitFails, Poll!Bind,
       Poll!FindInterface, Poll!Top, Poll!Wait, Poll!PollFails, Poll!Skip,
       Poll!AcceptFails, Poll!WalkEnds, Poll!Visiting, Poll!kernel, Poll!walk
  <2>2. ReadingType'
    BY <1>0, <1>1, <2>1 DEF ReadingType
  <2> QED BY <1>0, <1>1, <2>1, <2>2, QuietInv DEF NothingOfClosed
<1>6. CASE Poll!FcntlFails
  <2>1. /\ at = "walk" /\ UNCHANGED <<pollFds, at, input>>
        /\ i' = i + 1 /\ backlog' = backlog - 1
    BY <1>6 DEF Poll!FcntlFails, Poll!Visiting
  <2>2. PICK fd \in Fd : peer[fd] = "none" /\ peer' = [peer EXCEPT ![fd] = "leaked"]
    BY <1>6 DEF Poll!FcntlFails
  <2>3. ReadingType'
    BY <1>0, <1>1, <2>1, <2>2 DEF ReadingType, States
  <2>4. \A f \in Fd : peer'[f] \in Ownerless => peer[f] \in Ownerless
    BY <1>0, <2>2 DEF ReadingType, Ownerless
  <2> QED BY <1>0, <1>1, <2>1, <2>3, <2>4, QuietInv DEF NothingOfClosed
<1> QED BY <1>2, <1>3, <1>4, <1>5, <1>6 DEF Elsewhere

\* What is left of the buffers and the lines when descriptors are closed or
\* opened anew.
LEMMA Forgotten ==
  ASSUME NEW fds, ForgetsAll(fds)
  PROVE  /\ DOMAIN buffer' = Fd /\ DOMAIN handled' = Fd
         /\ \A fd \in Fd : /\ buffer'[fd] = IF fd \in fds THEN <<>> ELSE buffer[fd]
                          /\ handled'[fd] = IF fd \in fds THEN <<>> ELSE handled[fd]
BY DEF ForgetsAll

\* disconnectClient deletes the client the walk has come to, from the loop over its
\* lines or before it.
LEMMA DisconnectQuiet ==
  ASSUME ReadingInv, Reads \in Fd, Poll!Disconnect(Reads), ForgetsAll({Reads})
  PROVE  ReadingInv'
<1> DEFINE fd == Reads
<1>0. ReadingType /\ NothingOfClosed
  BY DEF ReadingInv
<1>1. /\ pollFds' = Poll!Erased(fd) /\ i' = i + 1 /\ at' = "walk" /\ backlog' = backlog
      /\ peer' = [peer EXCEPT ![fd] = "none"] /\ input' = [input EXCEPT ![fd] = FALSE]
  BY DEF Poll!Disconnect
<1>2. /\ DOMAIN buffer' = Fd /\ DOMAIN handled' = Fd
      /\ \A f \in Fd : /\ buffer'[f] = IF f = fd THEN <<>> ELSE buffer[f]
                      /\ handled'[f] = IF f = fd THEN <<>> ELSE handled[f]
  BY Forgotten
<1>3. pollFds' \in Seq(Poll!Entry)
  BY <1>0, <1>1, ErasedType DEF ReadingType
<1>4. fd \in Fd
  OBVIOUS
<1>a. buffer'[fd] = <<>>
  BY <1>2, <1>4
<1>b. buffer'[Reads] = <<>>
  BY <1>a
<1> HIDE DEF fd
<1>5. ReadingType'
  BY <1>0, <1>1, <1>2, <1>3, <1>4 DEF ReadingType, States
<1>6. \A f \in Fd : peer'[f] \in Ownerless =>
                     ~input'[f] /\ buffer'[f] = <<>> /\ handled'[f] = <<>>
  BY <1>0, <1>1, <1>2, <1>4 DEF ReadingType, NothingOfClosed, Ownerless
<1>7. \A f \in Fd : buffer'[f] \in {buffer[f], <<>>}
  BY <1>2
<1> QED BY <1>1, <1>5, <1>6, <1>7, <1>b, QuietInv

\* The walk has come to a client that is open.
LEMMA ReadsOpen ==
  ASSUME ReadingInv, Poll!Reading, at = "walk"
  PROVE  Reads \in Fd
<1>1. i \in Nat \ {0} /\ i <= Len(pollFds) /\ Reads # ListenFd
  BY DEF Poll!Reading, Poll!Visiting, ReadingInv, ReadingType, Reads
<1>2. pollFds[i] \in Poll!Entry
  BY <1>1 DEF ReadingInv, ReadingType
<1> QED BY <1>1, <1>2 DEF Poll!Entry, Reads

\* Every step keeps what is known of the descriptor that is read.
LEMMA ReadingStep == ReadingInv /\ [Next]_vars => ReadingInv'
<1> SUFFICES ASSUME ReadingInv, [Next]_vars PROVE ReadingInv'
  OBVIOUS
<1>0. ReadingType /\ NothingOfClosed /\ LinesAreOfOpen /\ NoLineWaits
  BY DEF ReadingInv
<1>1. CASE Elsewhere
  BY <1>1, ElsewhereInv
<1>2. CASE AcceptNewClient
  <2>1. PICK fd \in Fd : /\ peer[fd] = "none" /\ peer' = [peer EXCEPT ![fd] = "open"]
                         /\ pollFds' = Append(pollFds, Poll!NewPoll(fd))
    BY <1>2 DEF AcceptNewClient, Poll!AcceptNewClient
  <2>2. /\ at = "walk" /\ UNCHANGED <<at, input>> /\ i' = i + 1 /\ backlog' = backlog - 1
        /\ ForgetsAll({Last(clients')})
    BY <1>2 DEF AcceptNewClient, Poll!AcceptNewClient, Poll!Visiting
  <2>3. /\ DOMAIN buffer' = Fd /\ DOMAIN handled' = Fd
        /\ \A f \in Fd : buffer'[f] \in {buffer[f], <<>>} /\ handled'[f] \in {handled[f], <<>>}
    BY <2>2, Forgotten
  <2>4. pollFds' \in Seq(Poll!Entry)
    <3>1. Poll!NewPoll(fd) \in Poll!Entry
      BY DEF Poll!NewPoll, Poll!Entry
    <3> QED BY <1>0, <2>1, <3>1 DEF ReadingType
  <2>5. ReadingType'
    BY <1>0, <2>1, <2>2, <2>3, <2>4 DEF ReadingType, States
  <2>6. \A f \in Fd : peer'[f] \in Ownerless =>
                       ~input'[f] /\ buffer'[f] = <<>> /\ handled'[f] = <<>>
    BY <1>0, <2>1, <2>2, <2>3 DEF ReadingType, NothingOfClosed, Ownerless
  <2> QED BY <2>2, <2>3, <2>5, <2>6, QuietInv
<1>3. CASE Receive
  <2> DEFINE fd == Reads
  <2>1. /\ at = "walk" /\ at' = "lines" /\ UNCHANGED <<pollFds, i, peer, backlog, handled>>
        /\ input' = [input EXCEPT ![fd] = FALSE] /\ input[fd]
        /\ buffer' = [buffer EXCEPT ![fd] = Appended(buffer[fd], wire[fd])]
    BY <1>3 DEF Receive, Poll!Receive, Poll!Reading, Poll!Visiting, Poll!walk, Reads
  <2>2. fd \in Fd
    BY <1>3, <2>1, ReadsOpen DEF Receive, Poll!Receive
  <2>3. Reads' = fd
    BY <2>1 DEF Reads
  <2>4. peer[fd] \notin Ownerless
    BY <1>0, <2>1, <2>2 DEF NothingOfClosed
  <2> HIDE DEF fd
  <2>5. ReadingType'
    BY <1>0, <2>1, <2>2 DEF ReadingType
  <2>6. LinesAreOfOpen' /\ NothingOfClosed'
    BY <1>0, <2>1, <2>2, <2>3, <2>4 DEF LinesAreOfOpen, NothingOfClosed, ReadingType
  <2>7. NoLineWaits'
    <3>1. \A f \in Fd : f # fd => buffer'[f] = buffer[f]
      BY <1>0, <2>1, <2>2 DEF ReadingType
    <3> QED BY <1>0, <2>1, <2>3, <3>1 DEF NoLineWaits, HasLine
  <2> QED BY <2>5, <2>6, <2>7 DEF ReadingInv
<1>4. CASE HandleLine
  <2> DEFINE fd == Reads
  <2>1. fd \in Fd /\ peer[fd] \notin Ownerless /\ at = "lines"
    BY <1>0, <1>4 DEF HandleLine, LinesAreOfOpen
  <2>2. /\ UNCHANGED <<pollFds, i, at, peer, input, backlog>>
        /\ \E l : handled' = [handled EXCEPT ![fd] = l]
        /\ \E l : buffer' = [buffer EXCEPT ![fd] = l]
    BY <1>4 DEF HandleLine, loop
  <2>3. Reads' = fd
    BY <2>2 DEF Reads
  <2> HIDE DEF fd
  <2>4. /\ DOMAIN buffer' = Fd /\ DOMAIN handled' = Fd
        /\ \A f \in Fd : f # fd => buffer'[f] = buffer[f] /\ handled'[f] = handled[f]
    BY <1>0, <2>2 DEF ReadingType
  <2>5. ReadingType'
    BY <1>0, <2>2, <2>4 DEF ReadingType
  <2>6. LinesAreOfOpen' /\ NothingOfClosed'
    BY <1>0, <2>1, <2>2, <2>3, <2>4 DEF LinesAreOfOpen, NothingOfClosed
  <2>7. NoLineWaits'
    <3> SUFFICES ASSUME NEW f \in Fd, f # fd PROVE ~Contains(buffer'[f], "LF")
      BY <2>1, <2>2, <2>3 DEF NoLineWaits, HasLine
    <3>1. ~Contains(buffer[f], "LF")
      BY <1>0 DEF NoLineWaits, HasLine, fd
    <3> QED BY <2>4, <3>1
  <2> QED BY <2>5, <2>6, <2>7 DEF ReadingInv
<1>5. CASE HandlerDrops
  <2>1. at = "lines" /\ Poll!Disconnect(Reads) /\ ForgetsAll({Reads})
    BY <1>5 DEF HandlerDrops, Poll!HandlerDrops, Reads
  <2>2. Reads \in Fd
    BY <1>0, <2>1 DEF LinesAreOfOpen
  <2> QED BY <2>1, <2>2, DisconnectQuiet
<1>6. CASE LinesEnd
  <2>1. /\ at = "lines" /\ ~HasLine(Reads) /\ at' = "walk" /\ i' = i + 1
        /\ UNCHANGED <<pollFds, peer, input, backlog, buffer, handled>>
    BY <1>6 DEF LinesEnd, Poll!LinesEnd, Poll!kernel, bytes
  <2>2. ReadingType'
    BY <1>0, <2>1 DEF ReadingType
  <2> QED BY <1>0, <2>1, <2>2, QuietInv DEF NothingOfClosed
<1>7. CASE ReceiveEnd
  <2>1. Poll!Reading /\ at = "walk" /\ Poll!Disconnect(Reads) /\ ForgetsAll({Reads})
    BY <1>7 DEF ReceiveEnd, Poll!ReceiveEnd, Poll!Reading, Poll!Visiting, Reads
  <2> QED BY <2>1, ReadsOpen, DisconnectQuiet
<1>8. CASE Teardown
  <2>1. /\ pollFds' = <<>> /\ at = "teardown" /\ at' = "exited" /\ UNCHANGED <<i, backlog>>
        /\ \E P : peer' = [fd \in Fd |-> IF fd \in P THEN "none" ELSE peer[fd]]
        /\ input' = [fd \in Fd |-> FALSE] /\ ForgetsAll(Fd)
    BY <1>8 DEF Teardown, Poll!Teardown
  <2>2. /\ DOMAIN buffer' = Fd /\ DOMAIN handled' = Fd
        /\ \A f \in Fd : buffer'[f] = <<>> /\ handled'[f] = <<>>
    BY <2>1, Forgotten
  <2>3. ReadingType'
    BY <1>0, <2>1, <2>2 DEF ReadingType, States
  <2> QED BY <2>1, <2>2, <2>3, QuietInv
<1>9. CASE Connect
  <2>1. UNCHANGED <<pollFds, at, i, peer, input, buffer, handled>> /\ backlog' = backlog + 1
    BY <1>9 DEF Connect, Poll!Connect, Poll!server, Poll!walk, bytes
  <2> QED BY <1>0, <2>1, PeerInv DEF ReadingType
<1>10. ASSUME NEW fd \in Fd, NEW b \in Byte, Sends(fd, b) PROVE ReadingInv'
  <2>1. /\ UNCHANGED <<pollFds, at, i, peer, backlog, buffer, handled>> /\ peer[fd] = "open"
        /\ input' = [input EXCEPT ![fd] = TRUE]
    BY <1>10 DEF Sends
  <2> QED BY <1>0, <2>1, PeerInv DEF ReadingType, Ownerless
<1>11. ASSUME NEW fd \in Fd, Closes(fd) \/ Resets(fd) PROVE ReadingInv'
  <2>1. PICK how \in {"closed", "reset"} : Poll!Goes(fd, how)
    BY <1>11 DEF Closes, Resets
  <2>2. /\ UNCHANGED <<pollFds, at, i, backlog, buffer, handled>> /\ peer[fd] = "open"
        /\ peer' = [peer EXCEPT ![fd] = how]
        /\ input' = [input EXCEPT ![fd] = IF how = "reset" THEN FALSE ELSE @]
    BY <1>11, <2>1 DEF Closes, Resets, Poll!Goes, Poll!server, Poll!walk, bytes
  <2>3. peer' \in [Fd -> States] /\ input' \in [Fd -> BOOLEAN]
    BY <1>0, <2>2 DEF ReadingType, States
  <2> QED BY <1>0, <2>2, <2>3, PeerInv DEF ReadingType, Ownerless
<1>12. CASE UNCHANGED vars
  BY <1>0, <1>12, PeerInv DEF vars, loop, bytes, ReadingType
<1> QED BY <1>1, <1>2, <1>3, <1>4, <1>5, <1>6, <1>7, <1>8, <1>9, <1>10, <1>11, <1>12
        DEF Next, Server, Peers

-----------------------------------------------------------------------------
\* For any clients, texts and bytes, and however the streams are cut, no complete
\* line is left in a buffer when the server goes on to another client or back to
\* poll (receiveNewData).
THEOREM NoLineLeft == Spec => []NoLineWaits
<1>1. ReadingInv => NoLineWaits
  BY DEF ReadingInv
<1> QED BY <1>1, ReadingInit, ReadingStep, PTL DEF Spec

\* For any clients, texts and bytes, no line is handled for a client that was
\* dropped (the test after handleCommand in receiveNewData).
THEOREM DroppedSilent == Spec => DroppedIsSilent
<1>1. ReadingInv /\ [Next]_vars
        => [\A fd \in Fd : peer[fd] = "none" => handled'[fd] = handled[fd]]_vars
  <2> SUFFICES ASSUME ReadingInv, [Next]_vars, NEW fd \in Fd, peer[fd] = "none"
               PROVE  handled'[fd] = handled[fd]
    OBVIOUS
  <2>0. ReadingType /\ LinesAreOfOpen /\ handled[fd] = <<>>
    BY DEF ReadingInv, NothingOfClosed, Ownerless
  <2>1. ASSUME NEW fds, ForgetsAll(fds) PROVE handled'[fd] = handled[fd]
    BY <2>0, <2>1, Forgotten
  <2>2. CASE AcceptNewClient \/ HandlerDrops \/ ReceiveEnd \/ Teardown
    BY <2>1, <2>2 DEF AcceptNewClient, HandlerDrops, ReceiveEnd, Teardown
  <2>3. CASE HandleLine
    <3> DEFINE r == Reads
    <3>1. r \in Fd /\ r # fd /\ \E l : handled' = [handled EXCEPT ![r] = l]
      BY <2>0, <2>3 DEF HandleLine, LinesAreOfOpen, Ownerless
    <3> HIDE DEF r
    <3> QED BY <2>0, <3>1 DEF ReadingType
  <2>4. CASE UNCHANGED handled
    BY <2>4
  <2>5. CASE Elsewhere \/ Receive \/ LinesEnd \/ Peers \/ UNCHANGED vars
    BY <2>4, <2>5 DEF Elsewhere, Receive, LinesEnd, Peers, Connect, Sends, Closes, Resets,
       vars, bytes
  <2> QED BY <2>2, <2>3, <2>5 DEF Next, Server
<1> QED BY <1>1, ReadingInit, ReadingStep, PTL DEF Spec, DroppedIsSilent

-----------------------------------------------------------------------------
(* The lines of a stream (LineBuffer): where each begins, that a stream that is *)
(* cut behind an "LF" has the lines of its parts, and what a NUL does to them. *)

\* What precedes the first b.
LEMMA BeforeIs ==
  ASSUME NEW S, NEW text \in Seq(S), NEW b
  PROVE  \E n \in 0 .. Len(text) :
           /\ Before(text, b) = SubSeq(text, 1, n) /\ Len(Before(text, b)) = n
           /\ \A k \in 1 .. n : text[k] # b
           /\ n < Len(text) => text[n + 1] = b
           /\ Contains(text, b) <=> n < Len(text)
<1> DEFINE I == {k \in 1 .. Len(text) : text[k] = b}
<1>1. CASE Contains(text, b)
  <2>1. I # {} /\ I \in SUBSET Nat
    BY <1>1 DEF Contains
  <2>2. SelectInSeq(text, LAMBDA c : c = b) = Min(I)
    BY <2>1 DEF SelectInSeq
  <2> HIDE DEF I
  <2>3. Min(I) \in I /\ \A k \in I : Min(I) <= k
    BY <2>1, LeastNumber
  <2> DEFINE n == Min(I) - 1
  <2>4. n \in 0 .. Len(text) /\ n < Len(text) /\ text[n + 1] = b /\ \A k \in 1 .. n : text[k] # b
    <3>1. Min(I) \in 1 .. Len(text) /\ text[Min(I)] = b
      BY <2>3 DEF I
    <3>2. ASSUME NEW k \in 1 .. n PROVE text[k] # b
      <4>1. k \in 1 .. Len(text) /\ k < Min(I)
        BY <3>1
      <4>2. k \notin I
        <5> HIDE DEF n
        <5>1. k \in Int /\ Min(I) \in Int /\ ~(Min(I) <= k)
          BY <3>1, <4>1
        <5> QED BY <2>3, <5>1
      <4> QED BY <4>1, <4>2 DEF I
    <3>3. n + 1 = Min(I)
      BY <3>1
    <3> QED BY <3>1, <3>2, <3>3
  <2>5. Before(text, b) = SubSeq(text, 1, n)
    BY <1>1, <2>2 DEF Before
  <2> HIDE DEF n
  <2>6. Len(SubSeq(text, 1, n)) = n
    BY <2>4
  <2> QED BY <1>1, <2>4, <2>5, <2>6
<1>2. CASE ~Contains(text, b)
  <2>1. Before(text, b) = text /\ SubSeq(text, 1, Len(text)) = text
    BY <1>2 DEF Before
  <2>2. \A k \in 1 .. Len(text) : text[k] # b
    BY <1>2 DEF Contains
  <2>3. Len(text) \in 0 .. Len(text) /\ ~(Len(text) < Len(text))
    OBVIOUS
  <2> QED BY <1>2, <2>1, <2>2, <2>3
<1> QED BY <1>1, <1>2

-----------------------------------------------------------------------------
\* Every place of a text is in a line that begins somewhere.
LEMMA BeginExists ==
  ASSUME NEW text
  PROVE  \A k \in Nat \ {0} : \E j \in 1 .. k : Begins(text, j, k)
<1> DEFINE I == {n \in Nat : \E j \in 1 .. n + 1 : Begins(text, j, n + 1)}
<1>1. 0 \in I
  <2>1. Begins(text, 1, 0 + 1) /\ 1 \in 1 .. 0 + 1
    BY DEF Begins
  <2> QED BY <2>1
<1>2. ASSUME NEW n \in Nat, n \in I PROVE n + 1 \in I
  <2>1. PICK j \in 1 .. n + 1 : Begins(text, j, n + 1)
    BY <1>2
  <2>2. CASE text[n + 1] = "LF"
    <3>1. Begins(text, n + 2, n + 1 + 1) /\ n + 2 \in 1 .. n + 1 + 1
      BY <2>2 DEF Begins
    <3> QED BY <3>1
  <2>3. CASE text[n + 1] # "LF"
    <3>1. Begins(text, j, n + 1 + 1) /\ j \in 1 .. n + 1 + 1
      BY <2>1, <2>3 DEF Begins
    <3> QED BY <3>1
  <2> QED BY <2>2, <2>3
<1> HIDE DEF I
<1>3. \A n \in Nat : n \in I
  BY <1>1, <1>2, Inducting
<1> SUFFICES ASSUME NEW k \in Nat \ {0} PROVE \E j \in 1 .. k : Begins(text, j, k)
  OBVIOUS
<1>4. k - 1 \in Nat /\ (k - 1) + 1 = k
  OBVIOUS
<1>5. \E j \in 1 .. (k - 1) + 1 : Begins(text, j, (k - 1) + 1)
  BY <1>3, <1>4 DEF I
<1> QED BY <1>4, <1>5

\* And in one line only.
LEMMA BeginUnique ==
  ASSUME NEW text, NEW k \in Nat, NEW j \in 1 .. k, NEW m \in 1 .. k,
         Begins(text, j, k), Begins(text, m, k)
  PROVE  j = m
<1>1. \A p, q \in 1 .. k : Begins(text, p, k) /\ Begins(text, q, k) => ~(p < q)
  <2> SUFFICES ASSUME NEW p \in 1 .. k, NEW q \in 1 .. k,
                      Begins(text, p, k), Begins(text, q, k), p < q
               PROVE  FALSE
    OBVIOUS
  <2>1. q # 1 /\ q - 1 \in p .. k - 1
    OBVIOUS
  <2> QED BY <2>1 DEF Begins
<1> QED BY <1>1

\* The line that ends at k begins behind the newline before it.
LEMMA LineIs ==
  ASSUME NEW text, NEW k \in Nat, NEW j \in 1 .. k, Begins(text, j, k)
  PROVE  LineUpTo(text, k) = Stripped(SubSeq(text, j, k - 1))
<1> DEFINE c == CHOOSE x \in 1 .. k : Begins(text, x, k)
<1>1. c \in 1 .. k /\ Begins(text, c, k)
  OBVIOUS
<1>2. c = j
  <2> HIDE DEF c
  <2> QED BY <1>1, BeginUnique
<1>3. LineUpTo(text, k) = Stripped(SubSeq(text, c, k - 1))
  BY DEF LineUpTo
<1> QED BY <1>2, <1>3

-----------------------------------------------------------------------------
PiecesOf(text) ==
  [k \in DOMAIN text |-> IF text[k] = "LF" THEN <<LineUpTo(text, k)>> ELSE <<>>]

\* A line is a sequence of bytes.
LEMMA LineType ==
  ASSUME NEW text \in Seq(Byte), NEW k \in 1 .. Len(text)
  PROVE  LineUpTo(text, k) \in Seq(Byte)
<1>1. PICK j \in 1 .. k : Begins(text, j, k)
  BY BeginExists
<1>2. LineUpTo(text, k) = Stripped(SubSeq(text, j, k - 1))
  BY <1>1, LineIs
<1>3. SubSeq(text, j, k - 1) \in Seq(Byte)
  OBVIOUS
<1> DEFINE s == SubSeq(text, j, k - 1)
<1>4. s \in Seq(Byte)
  BY <1>3
<1> HIDE DEF s
<1>5. Stripped(s) \in Seq(Byte)
  <2>1. s # <<>> => Front(s) \in Seq(Byte)
    BY <1>4 DEF Front
  <2> QED BY <1>4, <2>1 DEF Stripped
<1> QED BY <1>2, <1>5 DEF s

\* The pieces of a text, one for each place, are empty or hold the line that
\* ends there.
LEMMA PiecesType ==
  ASSUME NEW text \in Seq(Byte)
  PROVE  PiecesOf(text) \in Seq(Seq(Seq(Byte))) /\ Len(PiecesOf(text)) = Len(text)
<1>1. ASSUME NEW k \in DOMAIN text
      PROVE  (IF text[k] = "LF" THEN <<LineUpTo(text, k)>> ELSE <<>>) \in Seq(Seq(Byte))
  <2>1. LineUpTo(text, k) \in Seq(Byte)
    BY LineType
  <2> QED BY <2>1
<1>2. PiecesOf(text) \in [DOMAIN text -> Seq(Seq(Byte))]
  BY <1>1 DEF PiecesOf
<1> QED BY <1>2, Overwriting

\* The lines of a text are these pieces, put together.
LEMMA LinesType ==
  ASSUME NEW text \in Seq(Byte)
  PROVE  LinesOf(text) = FlattenSeq(PiecesOf(text)) /\ LinesOf(text) \in Seq(Seq(Byte))
<1>1. LinesOf(text) = FlattenSeq(PiecesOf(text))
  BY DEF LinesOf, PiecesOf
<1>2. <<>> \in Seq(Seq(Byte))
  OBVIOUS
<1> QED BY <1>1, <1>2, PiecesType, FlatteningAppend

\* What comes after b does not change the lines of b.
LaterPieces(b, c) == [k \in DOMAIN c |-> PiecesOf(b \o c)[Len(b) + k]]

\* The lines of b come first among those of a text that begins with b.
LEMMA LinesJoin ==
  ASSUME NEW b \in Seq(Byte), NEW c \in Seq(Byte)
  PROVE  /\ LaterPieces(b, c) \in Seq(Seq(Seq(Byte)))
         /\ LinesOf(b \o c) = LinesOf(b) \o FlattenSeq(LaterPieces(b, c))
<1> DEFINE p == PiecesOf(b \o c)
           q == PiecesOf(b)
           r == LaterPieces(b, c)
<1>0. /\ b \o c \in Seq(Byte) /\ Len(b \o c) = Len(b) + Len(c)
      /\ \A k \in 1 .. Len(b) : (b \o c)[k] = b[k]
      /\ Len(b) \in Nat /\ Len(c) \in Nat
  BY Joining, LenProperties
<1>1. p \in Seq(Seq(Seq(Byte))) /\ Len(p) = Len(b) + Len(c)
  BY <1>0, PiecesType
<1>2. q \in Seq(Seq(Seq(Byte))) /\ Len(q) = Len(b)
  BY PiecesType
<1>3. r \in Seq(Seq(Seq(Byte))) /\ Len(r) = Len(c) /\ \A k \in 1 .. Len(c) : r[k] = p[Len(b) + k]
  <2>1. DOMAIN c = 1 .. Len(c)
    BY LenProperties
  <2>2. r = [k \in DOMAIN c |-> p[Len(b) + k]]
    BY DEF LaterPieces
  <2> HIDE DEF p, r
  <2>3. \A k \in DOMAIN c : p[Len(b) + k] \in Seq(Seq(Byte))
    <3> SUFFICES ASSUME NEW k \in DOMAIN c PROVE p[Len(b) + k] \in Seq(Seq(Byte))
      OBVIOUS
    <3>1. Len(b) + k \in 1 .. Len(p)
      BY <1>0, <1>1, <2>1
    <3> QED BY <1>1, <3>1, ElementOfSeq
  <2>4. r \in [DOMAIN c -> Seq(Seq(Byte))]
    BY <2>2, <2>3
  <2>5. r \in Seq(Seq(Seq(Byte))) /\ Len(r) = Len(c)
    BY <2>4, Overwriting
  <2> QED BY <2>1, <2>2, <2>5
<1>4. ASSUME NEW k \in 1 .. Len(b) PROVE p[k] = q[k]
  <2>1. \A j \in 1 .. k : Begins(b \o c, j, k) <=> Begins(b, j, k)
    BY <1>0 DEF Begins
  <2>2. PICK j \in 1 .. k : Begins(b, j, k)
    BY BeginExists
  <2>3. /\ LineUpTo(b, k) = Stripped(SubSeq(b, j, k - 1))
        /\ LineUpTo(b \o c, k) = Stripped(SubSeq(b \o c, j, k - 1))
    BY <2>1, <2>2, LineIs
  <2>4. SubSeq(b, j, k - 1) = SubSeq(b \o c, j, k - 1)
    BY <1>0
  <2>5. k \in DOMAIN b /\ k \in DOMAIN (b \o c) /\ (b \o c)[k] = b[k]
    BY <1>0, LenProperties
  <2> QED BY <2>3, <2>4, <2>5 DEF PiecesOf
<1> HIDE DEF p, q, r
<1>5. p = q \o r
  <2>1. /\ q \o r \in Seq(Seq(Seq(Byte))) /\ Len(q \o r) = Len(b) + Len(c)
        /\ \A k \in 1 .. Len(b) : (q \o r)[k] = q[k]
        /\ \A k \in 1 .. Len(c) : (q \o r)[Len(b) + k] = r[k]
    <3>1. q \in Seq(Seq(Seq(Byte))) /\ r \in Seq(Seq(Seq(Byte)))
      BY <1>2, <1>3
    <3>2. /\ q \o r \in Seq(Seq(Seq(Byte))) /\ Len(q \o r) = Len(q) + Len(r)
          /\ \A k \in 1 .. Len(q) : (q \o r)[k] = q[k]
          /\ \A k \in 1 .. Len(r) : (q \o r)[Len(q) + k] = r[k]
      BY ONLY <3>1, Joining
    <3> QED BY ONLY <1>2, <1>3, <3>2, Zenon
  <2>2. ASSUME NEW k \in 1 .. Len(b) + Len(c) PROVE p[k] = (q \o r)[k]
    <3>1. CASE k <= Len(b)
      BY <1>0, <1>4, <2>1, <3>1
    <3>2. CASE k > Len(b)
      <4>1. k - Len(b) \in 1 .. Len(c) /\ Len(b) + (k - Len(b)) = k
        BY <1>0, <3>2
      <4>2. (q \o r)[Len(b) + (k - Len(b))] = p[Len(b) + (k - Len(b))]
        BY <1>3, <2>1, <4>1
      <4> QED BY <4>1, <4>2
    <3>3. k <= Len(b) \/ k > Len(b)
      BY <1>0
    <3> QED BY <3>1, <3>2, <3>3, Zenon
  <2> QED BY <1>1, <2>1, <2>2, SeqEqual
<1>6. FlattenSeq(p) = FlattenSeq(q) \o FlattenSeq(r)
  BY <1>2, <1>3, <1>5, FlatteningConcat
<1>7. LinesOf(b \o c) = FlattenSeq(p) /\ LinesOf(b) = FlattenSeq(q)
  BY <1>0, LinesType DEF p, q
<1> QED BY <1>3, <1>6, <1>7 DEF r

\* A new line begins behind an "LF".
IsWhole(b) == b = <<>> \/ b[Len(b)] = "LF"

\* What follows a text that ends with a newline has its own lines.
LEMMA LinesWhole ==
  ASSUME NEW b \in Seq(Byte), NEW c \in Seq(Byte), IsWhole(b)
  PROVE  LinesOf(b \o c) = LinesOf(b) \o LinesOf(c)
<1>0. /\ b \o c \in Seq(Byte) /\ Len(b \o c) = Len(b) + Len(c)
      /\ \A k \in 1 .. Len(b) : (b \o c)[k] = b[k]
      /\ \A k \in 1 .. Len(c) : (b \o c)[Len(b) + k] = c[k]
      /\ Len(b) \in Nat /\ Len(c) \in Nat
  BY Joining, LenProperties
<1>1. ASSUME NEW k \in 1 .. Len(c) PROVE PiecesOf(b \o c)[Len(b) + k] = PiecesOf(c)[k]
  <2>1. PICK j \in 1 .. k : Begins(c, j, k)
    <3>1. k \in Nat \ {0}
      BY <1>0
    <3> QED BY <3>1, BeginExists
  <2> DEFINE m == Len(b) + j
             n == Len(b) + k
  <2>2. n \in 1 .. Len(b) + Len(c) /\ m \in 1 .. n /\ j \in 1 .. k /\ k \in 1 .. Len(c)
    BY <1>0
  <2>3. m = 1 \/ (b \o c)[m - 1] = "LF"
    <3>1. CASE j = 1
      <4>1. b = <<>> \/ (Len(b) \in 1 .. Len(b) /\ b[Len(b)] = "LF")
        BY <1>0, EmptySeq DEF IsWhole
      <4>2. m - 1 = Len(b) /\ (b = <<>> => m = 1)
        BY <1>0, <3>1
      <4> HIDE DEF m, n
      <4> QED BY <1>0, <4>1, <4>2
    <3>2. CASE j # 1
      <4>1. j - 1 \in 1 .. Len(c) /\ m - 1 = Len(b) + (j - 1) /\ c[j - 1] = "LF"
        BY <1>0, <2>1, <2>2, <3>2 DEF Begins
      <4> HIDE DEF m
      <4> QED BY <1>0, <4>1
    <3> QED BY <3>1, <3>2
  <2>4. ASSUME NEW v \in m .. n - 1 PROVE (b \o c)[v] # "LF"
    <3>1. v - Len(b) \in j .. k - 1 /\ v - Len(b) \in 1 .. Len(c) /\ Len(b) + (v - Len(b)) = v
      BY <1>0, <2>2
    <3>2. c[v - Len(b)] # "LF"
      BY <2>1, <3>1 DEF Begins
    <3>3. (b \o c)[Len(b) + (v - Len(b))] = c[v - Len(b)]
      BY <1>0, <3>1
    <3> QED BY <3>1, <3>2, <3>3
  <2>5. SubSeq(b \o c, m, n - 1) = SubSeq(c, j, k - 1)
    <3> DEFINE x == SubSeq(b \o c, m, n - 1)
               y == SubSeq(c, j, k - 1)
    <3>1. /\ x \in Seq(Byte) /\ Len(x) = k - j
          /\ \A v \in 1 .. k - j : x[v] = (b \o c)[Len(b) + (j + v - 1)]
      BY <1>0, <2>2
    <3>2. y \in Seq(Byte) /\ Len(y) = k - j /\ \A v \in 1 .. k - j : y[v] = c[j + v - 1]
      BY <1>0, <2>2
    <3>3. \A v \in 1 .. k - j : j + v - 1 \in 1 .. Len(c)
      BY <1>0, <2>2
    <3> HIDE DEF x, y
    <3>4. \A v \in 1 .. Len(x) : x[v] = y[v]
      BY <1>0, <3>1, <3>2, <3>3
    <3>5. x = y
      BY <3>1, <3>2, <3>4, SeqEqual
    <3> QED BY <3>5 DEF x, y
  <2>6. (b \o c)[n] = c[k] /\ n \in DOMAIN (b \o c) /\ k \in DOMAIN c /\ n \in Nat
    BY <1>0, <2>2, LenProperties
  <2> HIDE DEF m, n
  <2>7. LineUpTo(b \o c, n) = Stripped(SubSeq(b \o c, m, n - 1))
    <3>1. Begins(b \o c, m, n)
      BY <2>3, <2>4 DEF Begins
    <3> QED BY <2>2, <2>6, <3>1, LineIs
  <2>8. LineUpTo(c, k) = Stripped(SubSeq(c, j, k - 1))
    BY <2>1, LineIs
  <2>9. PiecesOf(b \o c)[n] = PiecesOf(c)[k]
    BY <2>5, <2>6, <2>7, <2>8 DEF PiecesOf
  <2> QED BY <2>9 DEF n
<1>2. LaterPieces(b, c) = PiecesOf(c)
  <2>1. DOMAIN c = 1 .. Len(c)
    BY LenProperties
  <2>2. PiecesOf(c) = [k \in DOMAIN c |-> PiecesOf(c)[k]]
    BY DEF PiecesOf
  <2>3. LaterPieces(b, c) = [k \in DOMAIN c |-> PiecesOf(b \o c)[Len(b) + k]]
    BY DEF LaterPieces
  <2> QED BY <1>1, <2>1, <2>2, <2>3
<1> QED BY <1>2, LinesJoin, LinesType

\* A text without a newline has no line.
LEMMA LinesNone ==
  ASSUME NEW b \in Seq(Byte), \A k \in 1 .. Len(b) : b[k] # "LF"
  PROVE  LinesOf(b) = <<>>
<1>1. DOMAIN b = 1 .. Len(b)
  BY LenProperties
<1>2. \A k \in 1 .. Len(PiecesOf(b)) : PiecesOf(b)[k] = <<>>
  <2>1. Len(PiecesOf(b)) = Len(b)
    BY PiecesType
  <2> QED BY <1>1, <2>1 DEF PiecesOf
<1> QED BY <1>2, PiecesType, LinesType, FlatteningNothing

\* The first line, and the rest.
LEMMA LinesFirst ==
  ASSUME NEW b \in Seq(Byte), Contains(b, "LF")
  PROVE  \E n \in 1 .. Len(b) :
           /\ b[n] = "LF" /\ LinesOf(SubSeq(b, 1, n)) = <<FirstLine(b)>>
           /\ AfterLine(b) = SubSeq(b, n + 1, Len(b))
           /\ FirstLine(b) = Stripped(SubSeq(b, 1, n - 1))
<1>1. PICK m \in 0 .. Len(b) :
        /\ Before(b, "LF") = SubSeq(b, 1, m) /\ Len(Before(b, "LF")) = m
        /\ \A k \in 1 .. m : b[k] # "LF"
        /\ m < Len(b) /\ b[m + 1] = "LF"
  BY BeforeIs
<1> DEFINE n == m + 1
           s == SubSeq(b, 1, m)
           t == <<"LF">>
<1>2. n \in 1 .. Len(b) /\ b[n] = "LF" /\ n - 1 = m
  BY <1>1
<1>3. FirstLine(b) = Stripped(s) /\ AfterLine(b) = SubSeq(b, n + 1, Len(b))
  <2>1. m + 2 = n + 1
    BY <1>1
  <2> QED BY <1>1, <2>1 DEF FirstLine, AfterLine
<1>4. s \in Seq(Byte) /\ Len(s) = m /\ \A k \in 1 .. m : s[k] = b[k]
  BY <1>1
<1>5. t \in Seq(Byte) /\ Len(t) = 1 /\ t[1] = "LF" /\ DOMAIN t = {1}
  BY DEF Byte
<1> HIDE DEF t, s
<1>6. /\ s \o t \in Seq(Byte) /\ Len(s \o t) = m + 1 /\ (s \o t)[m + 1] = "LF"
      /\ \A k \in 1 .. m : (s \o t)[k] = b[k]
  <2>1. /\ s \o t \in Seq(Byte) /\ Len(s \o t) = Len(s) + Len(t)
        /\ \A k \in 1 .. Len(s) : (s \o t)[k] = s[k]
        /\ \A k \in 1 .. Len(t) : (s \o t)[Len(s) + k] = t[k]
    <3>1. s \in Seq(Byte) /\ t \in Seq(Byte)
      BY <1>4, <1>5
    <3> QED BY ONLY <3>1, Joining
  <2> QED BY <1>1, <1>4, <1>5, <2>1
<1>7. SubSeq(b, 1, n) = s \o t
  <2> DEFINE x == SubSeq(b, 1, n)
  <2>1. x \in Seq(Byte) /\ Len(x) = m + 1 /\ \A k \in 1 .. m + 1 : x[k] = b[k]
    BY <1>2
  <2> HIDE DEF x
  <2>2. \A k \in 1 .. m + 1 : x[k] = (s \o t)[k]
    <3>1. \A k \in 1 .. m + 1 : k \in 1 .. m \/ k = m + 1
      BY <1>1
    <3> QED BY <1>2, <1>6, <2>1, <3>1
  <2>3. x = s \o t
    BY <1>6, <2>1, <2>2, SeqEqual
  <2> QED BY <2>3 DEF x
<1>8. LaterPieces(s, t) = <<<<FirstLine(b)>>>>
  <2>1. Begins(s \o t, 1, m + 1) /\ m + 1 \in Nat /\ 1 \in 1 .. m + 1
    <3>1. \A k \in 1 .. m : (s \o t)[k] # "LF"
      BY <1>1, <1>6
    <3>2. (m + 1) - 1 = m /\ m + 1 \in Nat /\ 1 \in 1 .. m + 1
      BY <1>1
    <3> QED BY <3>1, <3>2 DEF Begins
  <2>2. LineUpTo(s \o t, m + 1) = Stripped(SubSeq(s \o t, 1, m))
    <3>1. (m + 1) - 1 = m
      BY <1>1
    <3> QED BY <2>1, <3>1, LineIs
  <2>3. SubSeq(s \o t, 1, m) = s
    <3> DEFINE x == SubSeq(s \o t, 1, m)
    <3>0. s \o t \in Seq(Byte) /\ m \in 0 .. Len(s \o t)
      BY <1>6, <1>1
    <3>1. x \in Seq(Byte) /\ Len(x) = m /\ \A k \in 1 .. m : x[k] = (s \o t)[k]
      BY <3>0
    <3> HIDE DEF x
    <3>2. x = s
      BY <1>4, <1>6, <3>1, SeqEqual
    <3> QED BY <3>2 DEF x
  <2>4. m + 1 \in DOMAIN (s \o t)
    BY <1>1, <1>6, LenProperties
  <2>5. PiecesOf(s \o t)[m + 1] = <<FirstLine(b)>>
    BY <1>3, <1>6, <2>2, <2>3, <2>4 DEF PiecesOf
  <2>6. LaterPieces(s, t) = [k \in {1} |-> PiecesOf(s \o t)[Len(s) + k]]
    BY <1>5 DEF LaterPieces
  <2>7. LaterPieces(s, t) = [k \in {1} |-> PiecesOf(s \o t)[m + 1]]
    <3>1. \A k \in {1} : Len(s) + k = m + 1
      BY <1>4
    <3> QED BY <2>6, <3>1
  <2> QED BY <2>5, <2>7
<1>9. LinesOf(s \o t) = <<FirstLine(b)>>
  <2>1. LinesOf(s) = <<>>
    BY <1>1, <1>4, LinesNone
  <2>2. LinesOf(s \o t) = LinesOf(s) \o FlattenSeq(LaterPieces(s, t))
    BY <1>4, <1>5, LinesJoin
  <2>3. FirstLine(b) \in Seq(Byte)
    <3>1. Stripped(s) \in Seq(Byte)
      <4>1. s # <<>> => Front(s) \in Seq(Byte)
        BY <1>4 DEF Front
      <4> QED BY <1>4, <4>1 DEF Stripped
    <3> QED BY <1>3, <3>1
  <2>4. <<FirstLine(b)>> \in Seq(Seq(Byte)) /\ <<>> \o <<FirstLine(b)>> = <<FirstLine(b)>>
    BY <2>3
  <2>5. FlattenSeq(<<<<FirstLine(b)>>>>) = <<FirstLine(b)>>
    BY <2>4, FlatteningOne
  <2> QED BY <1>8, <2>1, <2>2, <2>4, <2>5
<1> QED BY <1>2, <1>3, <1>7, <1>9 DEF s

-----------------------------------------------------------------------------
\* More of a stream has the lines of the stream, and perhaps more.
LEMMA LinesPrefix ==
  ASSUME NEW b \in Seq(Byte), NEW c \in Seq(Byte), IsPrefix(b, c)
  PROVE  IsPrefix(LinesOf(b), LinesOf(c))
<1>1. PICK r \in Seq(Byte) : c = b \o r
  BY PrefixRest
<1>2. /\ LaterPieces(b, r) \in Seq(Seq(Seq(Byte)))
      /\ LinesOf(c) = LinesOf(b) \o FlattenSeq(LaterPieces(b, r))
  BY <1>1, LinesJoin
<1>3. FlattenSeq(LaterPieces(b, r)) \in Seq(Seq(Byte)) /\ LinesOf(b) \in Seq(Seq(Byte))
  <2>1. <<>> \in Seq(Seq(Byte))
    OBVIOUS
  <2> QED BY <1>2, <2>1, FlatteningAppend, LinesType
<1> QED BY <1>2, <1>3, PrefixJoin

-----------------------------------------------------------------------------
\* What is before the first x of s is known by where that x is.
LEMMA BeforeUnique ==
  ASSUME NEW S, NEW s \in Seq(S), NEW x, NEW n \in 0 .. Len(s),
         \A k \in 1 .. n : s[k] # x, n < Len(s) => s[n + 1] = x
  PROVE  Before(s, x) = SubSeq(s, 1, n)
<1>1. PICK m \in 0 .. Len(s) :
        /\ Before(s, x) = SubSeq(s, 1, m) /\ \A k \in 1 .. m : s[k] # x
        /\ m < Len(s) => s[m + 1] = x
  BY BeforeIs
<1>2. m = n
  <2>1. Len(s) \in Nat
    OBVIOUS
  <2>2. CASE m < n
    <3>1. m + 1 \in 1 .. n /\ m < Len(s)
      BY <2>1, <2>2
    <3> QED BY <1>1, <3>1
  <2>3. CASE n < m
    <3>1. n + 1 \in 1 .. m /\ n < Len(s)
      BY <2>1, <2>3
    <3> QED BY <1>1, <3>1
  <2> QED BY <2>2, <2>3
<1> QED BY <1>1, <1>2

\* A C string ends at its first NUL byte, whatever is behind it.
LEMMA CStringOf ==
  ASSUME NEW s \in Seq(Byte), NEW t \in Seq(Byte)
  PROVE  /\ CString(s) \in Seq(Byte) /\ IsPrefix(CString(s), s)
         /\ Contains(s, "NUL") => CString(s \o t) = CString(s)
         /\ ~Contains(s, "NUL") => CString(s \o t) = s \o CString(t) /\ CString(s) = s
<1>0. /\ s \o t \in Seq(Byte) /\ Len(s \o t) = Len(s) + Len(t)
      /\ \A k \in 1 .. Len(s) : (s \o t)[k] = s[k]
      /\ \A k \in 1 .. Len(t) : (s \o t)[Len(s) + k] = t[k]
      /\ Len(s) \in Nat /\ Len(t) \in Nat
  BY Joining, LenProperties
<1>1. PICK n \in 0 .. Len(s) :
        /\ Before(s, "NUL") = SubSeq(s, 1, n) /\ \A k \in 1 .. n : s[k] # "NUL"
        /\ n < Len(s) => s[n + 1] = "NUL"
        /\ Contains(s, "NUL") <=> n < Len(s)
  BY BeforeIs
<1>2. CString(s) \in Seq(Byte) /\ IsPrefix(CString(s), s)
  <2>1. SubSeq(s, 1, n) \in Seq(Byte) /\ s = SubSeq(s, 1, n) \o SubSeq(s, n + 1, Len(s))
        /\ SubSeq(s, n + 1, Len(s)) \in Seq(Byte)
    BY Parting
  <2>2. IsPrefix(SubSeq(s, 1, n), s)
    BY <2>1, PrefixJoin
  <2> QED BY <1>1, <2>1, <2>2 DEF CString
<1>3. ASSUME Contains(s, "NUL") PROVE CString(s \o t) = CString(s)
  <2>1. Before(s \o t, "NUL") = SubSeq(s \o t, 1, n)
    <3>1. n \in 0 .. Len(s \o t) /\ n < Len(s) /\ n + 1 \in 1 .. Len(s)
      BY <1>0, <1>1, <1>3
    <3>2. (\A k \in 1 .. n : (s \o t)[k] # "NUL") /\ (s \o t)[n + 1] = "NUL"
      BY <1>0, <1>1, <3>1
    <3> QED BY <1>0, <3>1, <3>2, BeforeUnique
  <2>2. SubSeq(s \o t, 1, n) = SubSeq(s, 1, n)
    <3>1. n <= Len(s) /\ n <= Len(s \o t)
      BY <1>0
    <3> QED BY <1>0, <3>1
  <2> QED BY <1>1, <2>1, <2>2 DEF CString
<1>4. ASSUME ~Contains(s, "NUL") PROVE CString(s \o t) = s \o CString(t) /\ CString(s) = s
  <2>1. CString(s) = s /\ n = Len(s)
    BY <1>0, <1>1, <1>4 DEF CString, Before
  <2>2. PICK m \in 0 .. Len(t) :
          /\ Before(t, "NUL") = SubSeq(t, 1, m) /\ \A k \in 1 .. m : t[k] # "NUL"
          /\ m < Len(t) => t[m + 1] = "NUL"
    BY BeforeIs
  <2>3. Before(s \o t, "NUL") = SubSeq(s \o t, 1, Len(s) + m)
    <3> DEFINE l == Len(s) + m
    <3>1. l \in 0 .. Len(s \o t)
      BY <1>0, <2>2
    <3>2. ASSUME NEW k \in 1 .. l PROVE (s \o t)[k] # "NUL"
      <4>1. CASE k <= Len(s)
        BY <1>0, <1>1, <2>1, <4>1
      <4>2. CASE k > Len(s)
        <5>1. k - Len(s) \in 1 .. m /\ k - Len(s) \in 1 .. Len(t) /\ Len(s) + (k - Len(s)) = k
          BY <1>0, <2>2, <4>2
        <5>2. (s \o t)[Len(s) + (k - Len(s))] = t[k - Len(s)]
          BY <1>0, <5>1
        <5> QED BY <2>2, <5>1, <5>2
      <4> QED BY <1>0, <2>2, <4>1, <4>2
    <3>3. ASSUME l < Len(s \o t) PROVE (s \o t)[l + 1] = "NUL"
      <4>1. m + 1 \in 1 .. Len(t) /\ l + 1 = Len(s) + (m + 1) /\ t[m + 1] = "NUL"
        BY <1>0, <2>2, <3>3
      <4>2. (s \o t)[Len(s) + (m + 1)] = t[m + 1]
        BY <1>0, <4>1
      <4> QED BY <4>1, <4>2
    <3> HIDE DEF l
    <3>4. Before(s \o t, "NUL") = SubSeq(s \o t, 1, l)
      BY <1>0, <3>1, <3>2, <3>3, BeforeUnique
    <3> QED BY <3>4 DEF l
  <2>4. SubSeq(s \o t, 1, Len(s) + m) = s \o SubSeq(t, 1, m)
    <3> DEFINE x == SubSeq(s \o t, 1, Len(s) + m)
               y == SubSeq(t, 1, m)
    <3>1. x \in Seq(Byte) /\ Len(x) = Len(s) + m /\ \A k \in 1 .. Len(s) + m : x[k] = (s \o t)[k]
      BY <1>0, <2>2
    <3>2. y \in Seq(Byte) /\ Len(y) = m /\ \A k \in 1 .. m : y[k] = t[k]
      BY <1>0, <2>2
    <3> HIDE DEF x, y
    <3>3. /\ s \o y \in Seq(Byte) /\ Len(s \o y) = Len(s) + Len(y)
          /\ \A k \in 1 .. Len(s) : (s \o y)[k] = s[k]
          /\ \A k \in 1 .. Len(y) : (s \o y)[Len(s) + k] = y[k]
      <4>1. y \in Seq(Byte)
        BY <3>2
      <4> QED BY ONLY <4>1, s \in Seq(Byte), Joining
    <3>4. ASSUME NEW k \in 1 .. Len(s) + m PROVE x[k] = (s \o y)[k]
      <4>1. CASE k <= Len(s)
        BY <1>0, <3>1, <3>3, <4>1
      <4>2. CASE k > Len(s)
        <5>1. k - Len(s) \in 1 .. m /\ k - Len(s) \in 1 .. Len(t) /\ Len(s) + (k - Len(s)) = k
          BY <1>0, <2>2, <4>2
        <5> DEFINE q == k - Len(s)
        <5>2. q \in 1 .. m /\ q \in 1 .. Len(t) /\ Len(s) + q = k
          BY <5>1
        <5> HIDE DEF q
        <5>3. x[k] = (s \o t)[Len(s) + q] /\ (s \o t)[Len(s) + q] = t[q]
          BY <1>0, <3>1, <5>2
        <5>4. (s \o y)[Len(s) + q] = y[q] /\ y[q] = t[q]
          BY <3>2, <3>3, <5>2
        <5> QED BY <5>2, <5>3, <5>4
      <4>3. k <= Len(s) \/ k > Len(s)
        BY <1>0, <2>2
      <4> QED BY <4>1, <4>2, <4>3, Zenon
    <3>5. x = s \o y
      BY <3>1, <3>2, <3>3, <3>4, SeqEqual
    <3> QED BY <3>5 DEF x, y
  <2> QED BY <2>1, <2>2, <2>3, <2>4 DEF CString
<1> QED BY <1>2, <1>3, <1>4

-----------------------------------------------------------------------------
Embeds(f, s, t) ==
  /\ f \in [1 .. Len(s) -> 1 .. Len(t)]
  /\ \A k \in 1 .. Len(s) : s[k] = t[f[k]]
  /\ \A k, m \in 1 .. Len(s) : k < m => f[k] < f[m]

\* A thinned sequence is one that can be embedded in the other, in order.
LEMMA ThinnedIs ==
  ASSUME NEW S, NEW s \in Seq(S), NEW t \in Seq(S)
  PROVE  IsThinned(s, t) <=> \E f : Embeds(f, s, t)
<1>1. DOMAIN s = 1 .. Len(s) /\ DOMAIN t = 1 .. Len(t)
  BY LenProperties
<1> QED BY <1>1 DEF IsThinned, Embeds

\* A sequence is a thinning of itself.
LEMMA ThinnedSelf ==
  ASSUME NEW S, NEW s \in Seq(S)
  PROVE  IsThinned(s, s)
<1>1. Embeds([k \in 1 .. Len(s) |-> k], s, s)
  BY DEF Embeds
<1> QED BY <1>1, ThinnedIs

\* The empty sequence is a thinning of every sequence.
LEMMA ThinnedNone ==
  ASSUME NEW S, NEW t \in Seq(S)
  PROVE  IsThinned(<<>>, t)
<1>1. Embeds([k \in 1 .. 0 |-> k], <<>>, t)
  BY DEF Embeds
<1>2. <<>> \in Seq(S)
  OBVIOUS
<1> QED BY <1>1, <1>2, ThinnedIs

\* Thinning twice is thinning.
LEMMA ThinnedTwice ==
  ASSUME NEW S, NEW r \in Seq(S), NEW s \in Seq(S), NEW t \in Seq(S),
         IsThinned(r, s), IsThinned(s, t)
  PROVE  IsThinned(r, t)
<1>1. PICK f : Embeds(f, r, s)
  BY ThinnedIs
<1>2. PICK g : Embeds(g, s, t)
  BY ThinnedIs
<1> DEFINE h == [k \in 1 .. Len(r) |-> g[f[k]]]
<1>3. \A k \in 1 .. Len(r) : f[k] \in 1 .. Len(s) /\ h[k] = g[f[k]]
  BY <1>1 DEF Embeds
<1>4. h \in [1 .. Len(r) -> 1 .. Len(t)]
  BY <1>2, <1>3 DEF Embeds
<1> HIDE DEF h
<1>5. Embeds(h, r, t)
  BY <1>1, <1>2, <1>3, <1>4 DEF Embeds
<1> QED BY <1>5, ThinnedIs

\* Two thinned sequences, joined, are a thinning of the two joined.
LEMMA ThinnedJoin ==
  ASSUME NEW S, NEW a \in Seq(S), NEW b \in Seq(S), NEW c \in Seq(S), NEW d \in Seq(S),
         IsThinned(a, b), IsThinned(c, d)
  PROVE  IsThinned(a \o c, b \o d)
<1>1. PICK f : Embeds(f, a, b)
  BY ThinnedIs
<1>2. PICK g : Embeds(g, c, d)
  BY ThinnedIs
<1> DEFINE s == a \o c
           t == b \o d
           h == [k \in 1 .. Len(a) + Len(c) |->
                   IF k <= Len(a) THEN f[k] ELSE Len(b) + g[k - Len(a)]]
<1>3. /\ s \in Seq(S) /\ Len(s) = Len(a) + Len(c)
      /\ \A k \in 1 .. Len(a) : s[k] = a[k]
      /\ \A k \in 1 .. Len(c) : s[Len(a) + k] = c[k]
  BY ONLY a \in Seq(S), c \in Seq(S), Joining
<1>4. /\ t \in Seq(S) /\ Len(t) = Len(b) + Len(d)
      /\ \A k \in 1 .. Len(b) : t[k] = b[k]
      /\ \A k \in 1 .. Len(d) : t[Len(b) + k] = d[k]
  BY ONLY b \in Seq(S), d \in Seq(S), Joining
<1>5. Len(a) \in Nat /\ Len(b) \in Nat /\ Len(c) \in Nat /\ Len(d) \in Nat
  BY LenProperties
<1> HIDE DEF s, t
<1>6. ASSUME NEW k \in 1 .. Len(a)
      PROVE  /\ h[k] = f[k] /\ f[k] \in 1 .. Len(b) /\ h[k] \in 1 .. Len(t) /\ s[k] = t[h[k]]
  <2>1. k \in 1 .. Len(a) + Len(c) /\ k <= Len(a)
    BY <1>5
  <2>2. h[k] = f[k] /\ f[k] \in 1 .. Len(b)
    BY <1>1, <2>1 DEF Embeds
  <2> HIDE DEF h
  <2>3. s[k] = a[k] /\ t[f[k]] = b[f[k]] /\ a[k] = b[f[k]]
    BY <1>1, <1>3, <1>4, <2>2 DEF Embeds
  <2> QED BY <1>4, <1>5, <2>2, <2>3
<1>7. ASSUME NEW k \in 1 .. Len(c)
      PROVE  /\ h[Len(a) + k] = Len(b) + g[k] /\ g[k] \in 1 .. Len(d)
             /\ h[Len(a) + k] \in 1 .. Len(t) /\ s[Len(a) + k] = t[h[Len(a) + k]]
  <2>1. Len(a) + k \in 1 .. Len(a) + Len(c) /\ ~(Len(a) + k <= Len(a)) /\ Len(a) + k - Len(a) = k
    BY <1>5
  <2>2. h[Len(a) + k] = Len(b) + g[k]
    <3>1. h[Len(a) + k] = Len(b) + g[Len(a) + k - Len(a)]
      BY <2>1
    <3> HIDE DEF h
    <3> QED BY <2>1, <3>1
  <2>3. g[k] \in 1 .. Len(d)
    BY <1>2 DEF Embeds
  <2> HIDE DEF h
  <2>4. s[Len(a) + k] = c[k] /\ t[Len(b) + g[k]] = d[g[k]] /\ c[k] = d[g[k]]
    BY <1>2, <1>3, <1>4, <2>3 DEF Embeds
  <2> QED BY <1>4, <1>5, <2>2, <2>3, <2>4
<1>8. DOMAIN h = 1 .. Len(s) /\ h = [k \in 1 .. Len(s) |-> h[k]]
  BY <1>3
<1> HIDE DEF h
<1>9. \A k \in 1 .. Len(s) : k \in 1 .. Len(a) \/ (k - Len(a) \in 1 .. Len(c) /\ Len(a) + (k - Len(a)) = k)
  BY <1>3, <1>5
<1>10. ASSUME NEW k \in 1 .. Len(s)
       PROVE  h[k] \in 1 .. Len(t) /\ s[k] = t[h[k]]
  <2>1. CASE k \in 1 .. Len(a)
    BY <1>6, <2>1
  <2>2. CASE k - Len(a) \in 1 .. Len(c) /\ Len(a) + (k - Len(a)) = k
    <3>1. h[Len(a) + (k - Len(a))] \in 1 .. Len(t) /\ s[Len(a) + (k - Len(a))] = t[h[Len(a) + (k - Len(a))]]
      BY <1>7, <2>2
    <3> QED BY <2>2, <3>1
  <2> QED BY <1>9, <2>1, <2>2
<1>11. ASSUME NEW k \in 1 .. Len(s), NEW m \in 1 .. Len(s), k < m PROVE h[k] < h[m]
  <2>1. CASE m \in 1 .. Len(a)
    <3>1. k \in 1 .. Len(a)
      BY <1>5, <1>11, <2>1
    <3> QED BY <1>1, <1>6, <1>11, <2>1, <3>1 DEF Embeds
  <2>2. CASE k \in 1 .. Len(a) /\ m \notin 1 .. Len(a)
    <3> DEFINE q == m - Len(a)
    <3>1. q \in 1 .. Len(c) /\ Len(a) + q = m
      BY <1>9, <2>2
    <3> HIDE DEF q
    <3>2. h[k] = f[k] /\ f[k] \in 1 .. Len(b) /\ h[Len(a) + q] = Len(b) + g[q] /\ g[q] \in 1 .. Len(d)
      BY <1>6, <1>7, <2>2, <3>1
    <3> QED BY <1>5, <3>1, <3>2
  <2>3. CASE k \notin 1 .. Len(a) /\ m \notin 1 .. Len(a)
    <3> DEFINE p == k - Len(a)
               q == m - Len(a)
    <3>1. p \in 1 .. Len(c) /\ Len(a) + p = k /\ q \in 1 .. Len(c) /\ Len(a) + q = m
      BY <1>9, <2>3
    <3>2. p < q
      BY <1>5, <1>11
    <3> HIDE DEF p, q
    <3>3. h[Len(a) + p] = Len(b) + g[p] /\ h[Len(a) + q] = Len(b) + g[q] /\ g[p] < g[q]
      BY <1>2, <1>7, <3>1, <3>2 DEF Embeds
    <3>4. g[p] \in Int /\ g[q] \in Int
      BY <1>7, <3>1
    <3> QED BY <1>5, <3>1, <3>3, <3>4
  <2> QED BY <2>1, <2>2, <2>3
<1>12. Embeds(h, s, t)
  <2>1. h \in [1 .. Len(s) -> 1 .. Len(t)]
    BY <1>8, <1>10
  <2> QED BY <1>10, <1>11, <2>1 DEF Embeds
<1> QED BY <1>3, <1>4, <1>12, ThinnedIs DEF s, t

-----------------------------------------------------------------------------
\* What became of the stream s of a connection: u was received, which is what is
\* on the wire not yet; of what u had before a NUL, and perhaps more, x was
\* handled in lines and b is in the buffer.
HasArrived(s, w, b, h, u, x) ==
  /\ s = u \o w /\ h = LinesOf(x) /\ IsWhole(x)
  /\ IsPrefix(CString(u), x \o b)
  /\ ~Contains(u, "NUL") => u = x \o b
  /\ IsThinned(FlattenSeq(h) \o b, u)

Arrived(s, w, b, h) == \E u, x \in Seq(Byte) : HasArrived(s, w, b, h, u, x)

\* Before anything is sent, everything has arrived.
LEMMA ArrivedNothing == Arrived(<<>>, <<>>, <<>>, <<>>)
<1> DEFINE e == <<>>
<1>1. e \in Seq(Byte) /\ e \o e = e /\ Len(e) = 0 /\ FlattenSeq(e) = e
  BY DEF FlattenSeq
<1>2. LinesOf(e) = e
  <2>1. \A k \in 1 .. Len(e) : e[k] # "LF"
    BY <1>1
  <2> HIDE DEF e
  <2>2. LinesOf(e) = <<>>
    BY <1>1, <2>1, LinesNone
  <2> QED BY <2>2 DEF e
<1>3. IsWhole(e)
  BY DEF IsWhole
<1>4. ~Contains(e, "NUL")
  BY DEF Contains
<1>5. CString(e) = e
  BY <1>1, <1>4, CStringOf
<1> HIDE DEF e
<1>6. IsPrefix(e, e) /\ IsThinned(e, e)
  <2>1. IsPrefix(e, e \o e)
    BY ONLY <1>1, PrefixJoin
  <2> QED BY <1>1, <2>1, ThinnedSelf
<1>7. HasArrived(e, e, e, e, e, e)
  BY <1>1, <1>2, <1>3, <1>5, <1>6 DEF HasArrived
<1> QED BY <1>1, <1>7 DEF Arrived, e

\* A byte that is sent has yet to be received.
LEMMA ArrivedSends ==
  ASSUME NEW s \in Seq(Byte), NEW w \in Seq(Byte), NEW b \in Seq(Byte), NEW h, NEW c \in Byte,
         Arrived(s, w, b, h)
  PROVE  Arrived(Append(s, c), Append(w, c), b, h)
<1>1. PICK u \in Seq(Byte), x \in Seq(Byte) : HasArrived(s, w, b, h, u, x)
  BY DEF Arrived
<1>2. Append(u \o w, c) = u \o Append(w, c)
  <2> DEFINE e == <<c>>
  <2>1. e \in Seq(Byte) /\ u \o w \in Seq(Byte)
    BY Joining
  <2>2. Append(w, c) = w \o e /\ Append(u \o w, c) = (u \o w) \o e
    BY <2>1, AppendIsConcat
  <2> HIDE DEF e
  <2>3. Groups(u, w, e)
    BY <2>1, Grouping, Zenon
  <2> QED BY <2>2, <2>3 DEF Groups
<1>3. HasArrived(Append(s, c), Append(w, c), b, h, u, x)
  BY <1>1, <1>2 DEF HasArrived
<1> QED BY <1>3 DEF Arrived

\* A reset takes away what was on the wire.
LEMMA ArrivedResets ==
  ASSUME NEW s \in Seq(Byte), NEW w \in Seq(Byte), NEW b \in Seq(Byte), NEW h,
         Arrived(s, w, b, h)
  PROVE  Arrived(SubSeq(s, 1, Len(s) - Len(w)), <<>>, b, h)
<1>1. PICK u \in Seq(Byte), x \in Seq(Byte) : HasArrived(s, w, b, h, u, x)
  BY DEF Arrived
<1>2. SubSeq(s, 1, Len(s) - Len(w)) = u /\ u \o <<>> = u
  <2>1. /\ s = u \o w /\ Len(s) = Len(u) + Len(w) /\ \A k \in 1 .. Len(u) : s[k] = u[k]
        /\ Len(u) \in Nat /\ Len(w) \in Nat
    BY <1>1, Joining, LenProperties DEF HasArrived
  <2>2. Len(s) - Len(w) = Len(u)
    BY <2>1
  <2> DEFINE y == SubSeq(s, 1, Len(u))
  <2>3. y \in Seq(Byte) /\ Len(y) = Len(u) /\ \A k \in 1 .. Len(u) : y[k] = s[k]
    BY <2>1
  <2> HIDE DEF y
  <2>4. y = u
    BY <2>1, <2>3, SeqEqual
  <2> QED BY <2>2, <2>4, ConcatEmptySeq DEF y
<1>3. HasArrived(u, <<>>, b, h, u, x)
  BY <1>1, <1>2 DEF HasArrived
<1> QED BY <1>2, <1>3 DEF Arrived

\* What recv appends to the buffer is on its way no more.
LEMMA ArrivedReceives ==
  ASSUME NEW s \in Seq(Byte), NEW w \in Seq(Byte), NEW b \in Seq(Byte),
         NEW h \in Seq(Seq(Byte)), Arrived(s, w, b, h)
  PROVE  Appended(b, w) \in Seq(Byte) /\ Arrived(s, <<>>, Appended(b, w), h)
<1>1. PICK u \in Seq(Byte), x \in Seq(Byte) : HasArrived(s, w, b, h, u, x)
  BY DEF Arrived
<1> DEFINE c == CString(w)
           y == x \o b
           f == FlattenSeq(h)
<1>2. c \in Seq(Byte) /\ IsPrefix(c, w)
  BY CStringOf
<1>3. y \in Seq(Byte) /\ f \in Seq(Byte)
  BY Joining, FlatteningAppend
<1>4. /\ Contains(u, "NUL") => CString(u \o w) = CString(u)
      /\ ~Contains(u, "NUL") => CString(u \o w) = u \o c /\ CString(u) = u
      /\ CString(u) \in Seq(Byte)
  BY CStringOf
<1>5. /\ s = u \o w /\ h = LinesOf(x) /\ IsWhole(x) /\ IsPrefix(CString(u), y)
      /\ ~Contains(u, "NUL") => u = y
      /\ IsThinned(f \o b, u)
  BY <1>1 DEF HasArrived
<1>6. Appended(b, w) = b \o c /\ b \o c \in Seq(Byte)
  <2>1. b \o c \in Seq(Byte)
    BY ONLY <1>2, b \in Seq(Byte), Joining
  <2> QED BY <2>1 DEF Appended
<1>a. x \o (b \o c) = y \o c /\ f \o (b \o c) = (f \o b) \o c
  <2>1. PICK g \in Seq(Byte) : g = f
    BY <1>3
  <2>2. PICK d \in Seq(Byte) : d = c
    BY <1>2
  <2> HIDE DEF c, f
  <2>3. (x \o b) \o d = x \o (b \o d) /\ (g \o b) \o d = g \o (b \o d)
    <3>1. Groups(x, b, d) /\ Groups(g, b, d)
      BY Grouping, Zenon
    <3> QED BY <3>1 DEF Groups
  <2> QED BY <2>1, <2>2, <2>3
<1> HIDE DEF c, y, f
<1>7. IsPrefix(CString(s), y \o c)
  <2>1. CASE Contains(u, "NUL")
    BY <1>2, <1>3, <1>4, <1>5, <2>1, PrefixLonger
  <2>2. CASE ~Contains(u, "NUL")
    <3>1. CString(s) = y \o c /\ y \o c \in Seq(Byte)
      <4>1. y \o c \in Seq(Byte)
        BY ONLY <1>2, <1>3, Joining
      <4> QED BY <1>4, <1>5, <2>2, <4>1
    <3> DEFINE z == y \o c
    <3>2. z \in Seq(Byte) /\ \A k \in 1 .. Len(z) : z[k] = z[k]
      BY <3>1
    <3> HIDE DEF z
    <3>3. IsPrefix(z, z)
      <4>1. Len(z) <= Len(z)
        BY <3>2, LenProperties
      <4> QED BY <3>2, <4>1, PrefixIs
    <3> QED BY <3>1, <3>3 DEF z
  <2> QED BY <2>1, <2>2
<1>8. ASSUME ~Contains(s, "NUL") PROVE s = y \o c
  <2>1. /\ Len(s) = Len(u) + Len(w) /\ \A k \in 1 .. Len(u) : s[k] = u[k]
        /\ \A k \in 1 .. Len(w) : s[Len(u) + k] = w[k]
        /\ Len(u) \in Nat /\ Len(w) \in Nat
    BY <1>5, Joining, LenProperties
  <2>2. ~Contains(u, "NUL") /\ ~Contains(w, "NUL")
    <3>1. \A k \in 1 .. Len(u) : k \in 1 .. Len(s)
      BY <2>1
    <3>2. \A k \in 1 .. Len(w) : Len(u) + k \in 1 .. Len(s)
      BY <2>1
    <3> QED BY <1>8, <2>1, <3>1, <3>2 DEF Contains
  <2>3. c = w
    BY <2>2, CStringOf DEF c
  <2> QED BY <1>5, <2>2, <2>3
<1>9. IsThinned((f \o b) \o c, s)
  <2>1. PICK r \in Seq(Byte) : w = c \o r
    BY <1>2, PrefixRest
  <2>2. IsThinned(c, w)
    <3>1. IsThinned(c, c) /\ IsThinned(<<>>, r) /\ <<>> \in Seq(Byte)
      BY <1>2, ThinnedSelf, ThinnedNone
    <3>2. IsThinned(c \o <<>>, c \o r)
      BY ONLY <1>2, r \in Seq(Byte), <3>1, ThinnedJoin
    <3>3. c \o <<>> = c
      BY <1>2, ConcatEmptySeq
    <3> QED BY <2>1, <3>2, <3>3
  <2>3. f \o b \in Seq(Byte)
    BY ONLY <1>3, b \in Seq(Byte), Joining
  <2> DEFINE g == f \o b
  <2>4. g \in Seq(Byte) /\ IsThinned(g, u)
    BY <1>5, <2>3
  <2> HIDE DEF g
  <2>5. IsThinned(g \o c, u \o w)
    BY ONLY <1>2, <2>2, <2>4, u \in Seq(Byte), w \in Seq(Byte), ThinnedJoin
  <2> QED BY <1>5, <2>5 DEF g
<1>10. s \o <<>> = s
  BY ConcatEmptySeq
<1>11. HasArrived(s, <<>>, b \o c, h, s, x)
  BY <1>5, <1>7, <1>8, <1>9, <1>10, <1>a DEF HasArrived, f
<1> QED BY <1>6, <1>11 DEF Arrived

\* A line that is taken out of the buffer is handled.
LEMMA ArrivedLine ==
  ASSUME NEW s \in Seq(Byte), NEW w \in Seq(Byte), NEW b \in Seq(Byte),
         NEW h \in Seq(Seq(Byte)), Contains(b, "LF"), Arrived(s, w, b, h)
  PROVE  /\ AfterLine(b) \in Seq(Byte) /\ FirstLine(b) \in Seq(Byte)
         /\ Arrived(s, w, AfterLine(b), Append(h, FirstLine(b)))
<1>1. PICK u \in Seq(Byte), x \in Seq(Byte) : HasArrived(s, w, b, h, u, x)
  BY DEF Arrived
<1>2. PICK n \in 1 .. Len(b) :
        /\ b[n] = "LF" /\ LinesOf(SubSeq(b, 1, n)) = <<FirstLine(b)>>
        /\ AfterLine(b) = SubSeq(b, n + 1, Len(b))
        /\ FirstLine(b) = Stripped(SubSeq(b, 1, n - 1))
  BY LinesFirst
<1>3. PICK p \in Seq(Byte) : p = SubSeq(b, 1, n) /\ Len(p) = n /\ \A k \in 1 .. n : p[k] = b[k]
  <2> DEFINE y == SubSeq(b, 1, n)
  <2>1. y \in Seq(Byte) /\ Len(y) = n /\ \A k \in 1 .. n : y[k] = b[k]
    OBVIOUS
  <2> HIDE DEF y
  <2>2. \E p \in Seq(Byte) : p = y /\ Len(p) = n /\ \A k \in 1 .. n : p[k] = b[k]
    BY <2>1
  <2> QED BY <2>2 DEF y
<1>4. PICK q \in Seq(Byte) : q = AfterLine(b) /\ b = p \o q
  <2>1. n \in 0 .. Len(b)
    OBVIOUS
  <2>2. /\ SubSeq(b, n + 1, Len(b)) \in Seq(Byte)
        /\ b = SubSeq(b, 1, n) \o SubSeq(b, n + 1, Len(b))
    BY <2>1, Parting
  <2> QED BY <1>2, <1>3, <2>2, Zenon
<1>5. PICK l \in Seq(Byte), r \in Seq(Byte) : l = FirstLine(b) /\ p = l \o r
  <2> DEFINE y == SubSeq(b, 1, n - 1)
             z == Front(y)
  <2>1. y \in Seq(Byte) /\ Len(y) = n - 1 /\ \A k \in 1 .. n - 1 : y[k] = b[k]
    OBVIOUS
  <2>2. Stripped(y) \in {y, z} /\ (Stripped(y) = z => y # <<>> \/ z = y)
    BY DEF Stripped
  <2> HIDE DEF y
  <2>3. y # <<>> => z \in Seq(Byte) /\ Len(z) = n - 2 /\ n - 2 \in Nat /\ \A k \in 1 .. n - 2 : z[k] = b[k]
    <3>1. y # <<>> => n - 1 # 0
      BY <2>1, EmptySeq
    <3> QED BY <2>1, <3>1 DEF Front
  <2> HIDE DEF z
  <2>4. PICK l \in Seq(Byte) : l = FirstLine(b) /\ Len(l) <= n /\ \A k \in 1 .. Len(l) : l[k] = b[k]
    <3>1. FirstLine(b) = Stripped(y)
      BY <1>2 DEF y
    <3>2. CASE Stripped(y) = y
      BY <2>1, <3>1, <3>2
    <3>3. CASE Stripped(y) # y
      BY <2>2, <2>3, <3>1, <3>3
    <3> QED BY <3>2, <3>3
  <2>5. IsPrefix(l, p)
    <3>1. \A k \in 1 .. Len(l) : l[k] = p[k]
      <4>1. \A k \in 1 .. Len(l) : k \in 1 .. n
        BY <2>4
      <4> QED BY <1>3, <2>4, <4>1
    <3> QED BY <1>3, <2>4, <3>1, PrefixIs
  <2>6. PICK r \in Seq(Byte) : p = l \o r
    <3>1. ASSUME NEW f \in Seq(Byte), NEW g \in Seq(Byte), IsPrefix(f, g)
          PROVE  \E e \in Seq(Byte) : g = f \o e
      BY ONLY <3>1, PrefixRest
    <3> QED BY <1>3, <2>4, <2>5, <3>1, Zenon
  <2> QED BY <2>4, <2>6
<1>6. PICK f \in Seq(Byte) : f = FlattenSeq(h) /\ FlattenSeq(Append(h, l)) = f \o l
  BY FlatteningAppend
<1>7. /\ s = u \o w /\ h = LinesOf(x) /\ IsWhole(x) /\ IsPrefix(CString(u), x \o b)
      /\ ~Contains(u, "NUL") => u = x \o b
      /\ IsThinned(f \o b, u)
  BY <1>1, <1>6 DEF HasArrived
<1>8. /\ x \o p \in Seq(Byte) /\ IsWhole(x \o p) /\ (x \o p) \o q = x \o b
  <2>1. /\ x \o p \in Seq(Byte) /\ Len(x \o p) = Len(x) + Len(p)
        /\ \A k \in 1 .. Len(p) : (x \o p)[Len(x) + k] = p[k]
    BY Joining
  <2>2. n \in 1 .. n /\ n \in 1 .. Len(p) /\ p[n] = "LF" /\ Len(p) = n
    BY <1>2, <1>3
  <2>3. (x \o p)[Len(x \o p)] = "LF"
    BY <2>1, <2>2
  <2>4. (x \o p) \o q = x \o (p \o q)
    <3>1. Groups(x, p, q)
      BY Grouping, Zenon
    <3> QED BY <3>1 DEF Groups
  <2> QED BY <1>4, <2>1, <2>3, <2>4 DEF IsWhole
<1>9. LinesOf(x \o p) = Append(h, l)
  <2>1. LinesOf(x \o p) = LinesOf(x) \o LinesOf(p)
    BY <1>7, LinesWhole
  <2>2. h \o <<l>> = Append(h, l)
    BY AppendIsConcat
  <2> QED BY <1>2, <1>3, <1>5, <1>7, <2>1, <2>2
<1>10. IsThinned((f \o l) \o q, u)
  <2>1. IsThinned(l \o q, b)
    <3>1. IsThinned(l, l) /\ IsThinned(<<>>, r) /\ <<>> \in Seq(Byte) /\ IsThinned(q, q) /\ IsThinned(f, f)
      BY ThinnedSelf, ThinnedNone
    <3>2. IsThinned(l \o <<>>, l \o r)
      BY ONLY l \in Seq(Byte), r \in Seq(Byte), <3>1, ThinnedJoin
    <3>3. l \o <<>> = l
      BY ConcatEmptySeq
    <3>4. IsThinned(l, p)
      BY <1>5, <3>2, <3>3
    <3>5. IsThinned(l \o q, p \o q)
      BY ONLY l \in Seq(Byte), p \in Seq(Byte), q \in Seq(Byte), <3>1, <3>4, ThinnedJoin
    <3> QED BY <1>4, <3>5
  <2>2. PICK lq \in Seq(Byte) : lq = l \o q
    BY Joining
  <2>3. IsThinned(f \o lq, f \o b)
    <3>1. IsThinned(f, f)
      BY ThinnedSelf
    <3>2. IsThinned(lq, b)
      BY <2>1, <2>2
    <3> QED BY ONLY f \in Seq(Byte), lq \in Seq(Byte), b \in Seq(Byte), <3>1, <3>2, ThinnedJoin
  <2>4. PICK flq \in Seq(Byte), fb \in Seq(Byte) : flq = f \o lq /\ fb = f \o b
    BY Joining
  <2>5. IsThinned(flq, u)
    <3>1. IsThinned(flq, fb) /\ IsThinned(fb, u)
      BY <1>7, <2>3, <2>4
    <3> QED BY ONLY flq \in Seq(Byte), fb \in Seq(Byte), u \in Seq(Byte), <3>1, ThinnedTwice
  <2>6. (f \o l) \o q = f \o (l \o q)
    <3>1. Groups(f, l, q)
      BY Grouping, Zenon
    <3> QED BY <3>1 DEF Groups
  <2> QED BY <2>2, <2>4, <2>5, <2>6
<1>11. HasArrived(s, w, q, Append(h, l), u, x \o p)
  BY <1>6, <1>7, <1>8, <1>9, <1>10 DEF HasArrived
<1> QED BY <1>4, <1>5, <1>8, <1>11 DEF Arrived

\* What Arrived says of the lines that were handled, and of those that will
\* be.
LEMMA ArrivedMeans ==
  ASSUME NEW s \in Seq(Byte), NEW w \in Seq(Byte), NEW b \in Seq(Byte),
         NEW h \in Seq(Seq(Byte)), Arrived(s, w, b, h)
  PROVE  /\ IsPrefix(LinesOf(CString(s)), h \o LinesOf(b \o w))
         /\ ~Contains(s, "NUL") => IsPrefix(h \o LinesOf(b \o w), LinesOf(CString(s)))
         /\ IsThinned(FlattenSeq(h) \o b \o w, s)
<1>1. PICK u \in Seq(Byte), x \in Seq(Byte) : HasArrived(s, w, b, h, u, x)
  BY DEF Arrived
<1>2. /\ s = u \o w /\ h = LinesOf(x) /\ IsWhole(x) /\ IsPrefix(CString(u), x \o b)
      /\ ~Contains(u, "NUL") => u = x \o b
      /\ IsThinned(FlattenSeq(h) \o b, u)
  BY <1>1 DEF HasArrived
<1>3. PICK bw \in Seq(Byte) : bw = b \o w
  BY Joining
<1>4. PICK y \in Seq(Byte) : y = x \o b
  BY Joining
<1>5. PICK z \in Seq(Byte) : z = x \o bw /\ z = y \o w
  <2>1. (x \o b) \o w = x \o (b \o w)
    <3>1. Groups(x, b, w)
      BY Grouping, Zenon
    <3> QED BY <3>1 DEF Groups
  <2>2. PICK z \in Seq(Byte) : z = x \o bw
    BY Joining
  <2> QED BY <1>3, <1>4, <2>1, <2>2
<1>6. h \o LinesOf(b \o w) = LinesOf(z)
  <2>1. LinesOf(x \o bw) = LinesOf(x) \o LinesOf(bw)
    BY <1>2, LinesWhole
  <2> QED BY <1>2, <1>3, <1>5, <2>1, Zenon
<1>7. PICK c \in Seq(Byte) : c = CString(s)
  BY CStringOf
<1>8. IsPrefix(c, z)
  <2>1. CASE Contains(u, "NUL")
    <3>1. PICK d \in Seq(Byte) : d = CString(u)
      BY CStringOf
    <3>2. c = d
      BY <1>2, <1>7, <2>1, <3>1, CStringOf
    <3> QED BY <1>2, <1>4, <1>5, <3>1, <3>2, PrefixLonger
  <2>2. CASE ~Contains(u, "NUL")
    <3>1. s = z
      BY <1>2, <1>4, <1>5, <2>2
    <3> QED BY <1>7, <3>1, CStringOf
  <2> QED BY <2>1, <2>2
<1>9. IsPrefix(LinesOf(c), LinesOf(z))
  BY <1>8, LinesPrefix
<1>10. ASSUME ~Contains(s, "NUL") PROVE c = z
  <2>1. ~Contains(u, "NUL")
    <3>1. /\ Len(s) = Len(u) + Len(w) /\ \A k \in 1 .. Len(u) : s[k] = u[k]
          /\ Len(u) \in Nat /\ Len(w) \in Nat
      BY <1>2, Joining, LenProperties
    <3>2. \A k \in 1 .. Len(u) : k \in 1 .. Len(s)
      BY <3>1
    <3> QED BY <1>10, <3>1, <3>2 DEF Contains
  <2>2. s = z
    BY <1>2, <1>4, <1>5, <2>1
  <2> QED BY <1>7, <1>10, <2>2, CStringOf
<1>11. IsPrefix(LinesOf(z), LinesOf(z))
  BY LinesType, PrefixSelf
<1>12. IsThinned(FlattenSeq(h) \o b \o w, s)
  <2>1. PICK f \in Seq(Byte) : f = FlattenSeq(h)
    <3>1. <<>> \in Seq(Byte)
      OBVIOUS
    <3> QED BY <3>1, FlatteningAppend
  <2>2. PICK g \in Seq(Byte) : g = f \o b
    BY Joining
  <2>3. IsThinned(g, u) /\ IsThinned(w, w)
    BY <1>2, <2>1, <2>2, ThinnedSelf
  <2>4. IsThinned(g \o w, u \o w)
    BY ONLY g \in Seq(Byte), w \in Seq(Byte), u \in Seq(Byte), <2>3, ThinnedJoin
  <2> QED BY <1>2, <2>1, <2>2, <2>4
<1> QED BY <1>6, <1>7, <1>9, <1>10, <1>11, <1>12

-----------------------------------------------------------------------------
(* The bytes of every connection: what was sent on it has arrived, in part. *)

StreamsType ==
  /\ wire \in [Fd -> Seq(Byte)] /\ buffer \in [Fd -> Seq(Byte)]
  /\ sent \in [Fd -> Seq(Byte)] /\ handled \in [Fd -> Seq(Seq(Byte))]

AllArrived == \A fd \in Fd : Arrived(sent[fd], wire[fd], buffer[fd], handled[fd])

StreamsInv == ReadingInv /\ StreamsType /\ AllArrived

\* At the start nothing was sent.
LEMMA StreamsInit == Init => StreamsInv
<1> SUFFICES ASSUME Init PROVE StreamsInv
  OBVIOUS
<1>1. /\ wire = [fd \in Fd |-> <<>>] /\ buffer = [fd \in Fd |-> <<>>]
      /\ sent = [fd \in Fd |-> <<>>] /\ handled = [fd \in Fd |-> <<>>]
  BY DEF Init
<1>2. StreamsType
  BY <1>1 DEF StreamsType
<1>3. AllArrived
  BY <1>1, ArrivedNothing DEF AllArrived
<1> QED BY <1>2, <1>3, ReadingInit DEF StreamsInv

\* A step that changes the bytes of one descriptor.
LEMMA OneStream ==
  ASSUME StreamsType, AllArrived, NEW fd \in Fd,
         NEW s \in Seq(Byte), NEW w \in Seq(Byte), NEW b \in Seq(Byte), NEW h \in Seq(Seq(Byte)),
         Arrived(s, w, b, h),
         sent' = [sent EXCEPT ![fd] = s], wire' = [wire EXCEPT ![fd] = w],
         buffer' = [buffer EXCEPT ![fd] = b], handled' = [handled EXCEPT ![fd] = h]
  PROVE  StreamsType' /\ AllArrived'
<1>1. StreamsType'
  BY DEF StreamsType
<1>2. ASSUME NEW f \in Fd
      PROVE  Arrived(sent'[f], wire'[f], buffer'[f], handled'[f])
  <2>1. CASE f = fd
    <3>1. sent'[f] = s /\ wire'[f] = w /\ buffer'[f] = b /\ handled'[f] = h
      BY <2>1 DEF StreamsType
    <3> QED BY <3>1
  <2>2. CASE f # fd
    <3>1. /\ sent'[f] = sent[f] /\ wire'[f] = wire[f]
          /\ buffer'[f] = buffer[f] /\ handled'[f] = handled[f]
      BY <2>2 DEF StreamsType
    <3> QED BY <3>1 DEF AllArrived
  <2> QED BY <2>1, <2>2
<1> QED BY <1>1, <1>2 DEF AllArrived

\* A descriptor that is closed or opened anew starts over.
LEMMA ForgottenStreams ==
  ASSUME StreamsType, AllArrived, NEW fds, ForgetsAll(fds)
  PROVE  StreamsType' /\ AllArrived'
<1>1. /\ wire' = [fd \in Fd |-> IF fd \in fds THEN <<>> ELSE wire[fd]]
      /\ buffer' = [fd \in Fd |-> IF fd \in fds THEN <<>> ELSE buffer[fd]]
      /\ sent' = [fd \in Fd |-> IF fd \in fds THEN <<>> ELSE sent[fd]]
      /\ handled' = [fd \in Fd |-> IF fd \in fds THEN <<>> ELSE handled[fd]]
  BY DEF ForgetsAll
<1>2. StreamsType'
  BY <1>1 DEF StreamsType
<1>3. AllArrived'
  BY <1>1, ArrivedNothing DEF AllArrived
<1> QED BY <1>2, <1>3

\* Every step keeps what is known of the streams.
LEMMA StreamsStep == StreamsInv /\ [Next]_vars => StreamsInv'
<1> SUFFICES ASSUME StreamsInv, [Next]_vars PROVE StreamsInv'
  OBVIOUS
<1>0. ReadingInv /\ StreamsType /\ AllArrived
  BY DEF StreamsInv
<1>a. ReadingInv'
  BY <1>0, ReadingStep
<1> SUFFICES StreamsType' /\ AllArrived'
  BY <1>a DEF StreamsInv
<1>1. CASE UNCHANGED <<wire, buffer, sent, handled>>
  BY <1>0, <1>1 DEF StreamsType, AllArrived
<1>2. CASE Elsewhere \/ LinesEnd \/ Connect \/ UNCHANGED vars
  BY <1>1, <1>2 DEF Elsewhere, LinesEnd, Connect, vars, bytes
<1>3. CASE AcceptNewClient \/ HandlerDrops \/ ReceiveEnd \/ Teardown
  <2>1. \E fds : ForgetsAll(fds)
    BY <1>3 DEF AcceptNewClient, HandlerDrops, ReceiveEnd, Teardown
  <2> QED BY <1>0, <2>1, ForgottenStreams
<1>4. CASE Receive
  <2>1. PICK fd \in Fd : fd = Reads
    <3>1. Poll!Reading /\ at = "walk"
      BY <1>4 DEF Receive, Poll!Receive, Poll!Reading, Poll!Visiting
    <3> QED BY <1>0, <3>1, ReadsOpen
  <2> DEFINE w == wire[fd]
             b == buffer[fd]
  <2>2. PICK s \in Seq(Byte), h \in Seq(Seq(Byte)) : s = sent[fd] /\ h = handled[fd]
    BY <1>0 DEF StreamsType
  <2>3. w \in Seq(Byte) /\ b \in Seq(Byte) /\ Arrived(s, w, b, h)
    BY <1>0, <2>2 DEF StreamsType, AllArrived
  <2>4. /\ buffer' = [buffer EXCEPT ![fd] = Appended(b, w)] /\ wire' = [wire EXCEPT ![fd] = <<>>]
        /\ UNCHANGED <<sent, handled>>
    BY <1>4, <2>1 DEF Receive
  <2>5. sent' = [sent EXCEPT ![fd] = s] /\ handled' = [handled EXCEPT ![fd] = h]
    BY <1>0, <2>2, <2>4 DEF StreamsType
  <2> HIDE DEF w, b
  <2>6. PICK c \in Seq(Byte) : c = Appended(b, w) /\ Arrived(s, <<>>, c, h)
    BY <2>3, ArrivedReceives
  <2>7. <<>> \in Seq(Byte)
    OBVIOUS
  <2> QED BY <1>0, <2>4, <2>5, <2>6, <2>7, OneStream
<1>5. CASE HandleLine
  <2>1. PICK fd \in Fd : fd = Reads
    BY <1>0, <1>5 DEF HandleLine, ReadingInv, LinesAreOfOpen
  <2> DEFINE b == buffer[fd]
             h == handled[fd]
  <2>2. PICK s \in Seq(Byte), w \in Seq(Byte) : s = sent[fd] /\ w = wire[fd]
    BY <1>0 DEF StreamsType
  <2>3. b \in Seq(Byte) /\ h \in Seq(Seq(Byte)) /\ Arrived(s, w, b, h)
    BY <1>0, <2>2 DEF StreamsType, AllArrived
  <2>4. /\ buffer' = [buffer EXCEPT ![fd] = AfterLine(b)]
        /\ handled' = [handled EXCEPT ![fd] = Append(h, FirstLine(b))]
        /\ UNCHANGED <<sent, wire>> /\ Contains(b, "LF")
    BY <1>5, <2>1 DEF HandleLine, HasLine
  <2>5. sent' = [sent EXCEPT ![fd] = s] /\ wire' = [wire EXCEPT ![fd] = w]
    BY <1>0, <2>2, <2>4 DEF StreamsType
  <2> HIDE DEF h, b
  <2>6. /\ AfterLine(b) \in Seq(Byte) /\ FirstLine(b) \in Seq(Byte)
        /\ Arrived(s, w, AfterLine(b), Append(h, FirstLine(b)))
    BY <2>3, <2>4, ArrivedLine
  <2>7. Append(h, FirstLine(b)) \in Seq(Seq(Byte))
    BY <2>3, <2>6
  <2> QED BY <1>0, <2>4, <2>5, <2>6, <2>7, OneStream
<1>6. ASSUME NEW fd \in Fd, NEW c \in Byte, Sends(fd, c) PROVE StreamsType' /\ AllArrived'
  <2> DEFINE s == sent[fd]
             w == wire[fd]
  <2>1. PICK b \in Seq(Byte), h \in Seq(Seq(Byte)) : b = buffer[fd] /\ h = handled[fd]
    BY <1>0 DEF StreamsType
  <2>2. s \in Seq(Byte) /\ w \in Seq(Byte) /\ Arrived(s, w, b, h)
    BY <1>0, <2>1 DEF StreamsType, AllArrived
  <2>3. /\ wire' = [wire EXCEPT ![fd] = Append(w, c)] /\ sent' = [sent EXCEPT ![fd] = Append(s, c)]
        /\ UNCHANGED <<buffer, handled>>
    BY <1>6 DEF Sends
  <2>4. buffer' = [buffer EXCEPT ![fd] = b] /\ handled' = [handled EXCEPT ![fd] = h]
    BY <1>0, <2>1, <2>3 DEF StreamsType
  <2> HIDE DEF s, w
  <2>5. /\ Arrived(Append(s, c), Append(w, c), b, h)
        /\ Append(s, c) \in Seq(Byte) /\ Append(w, c) \in Seq(Byte)
    BY <2>2, ArrivedSends
  <2> QED BY <1>0, <2>3, <2>4, <2>5, OneStream
<1>7. ASSUME NEW fd \in Fd, Resets(fd) PROVE StreamsType' /\ AllArrived'
  <2> DEFINE s == sent[fd]
             w == wire[fd]
             u == SubSeq(s, 1, Len(s) - Len(w))
  <2>1. PICK b \in Seq(Byte), h \in Seq(Seq(Byte)) : b = buffer[fd] /\ h = handled[fd]
    BY <1>0 DEF StreamsType
  <2>2. s \in Seq(Byte) /\ w \in Seq(Byte) /\ Arrived(s, w, b, h)
    BY <1>0, <2>1 DEF StreamsType, AllArrived
  <2>3. /\ wire' = [wire EXCEPT ![fd] = <<>>] /\ sent' = [sent EXCEPT ![fd] = u]
        /\ UNCHANGED <<buffer, handled>>
    BY <1>7 DEF Resets
  <2>4. buffer' = [buffer EXCEPT ![fd] = b] /\ handled' = [handled EXCEPT ![fd] = h]
    BY <1>0, <2>1, <2>3 DEF StreamsType
  <2> HIDE DEF s, w
  <2>5. Arrived(u, <<>>, b, h)
    BY <2>2, ArrivedResets
  <2>6. u \in Seq(Byte) /\ <<>> \in Seq(Byte)
    <3>1. Len(s) - Len(w) <= Len(s) /\ Len(s) - Len(w) \in Int
      BY <2>2
    <3> QED BY <2>2, <3>1
  <2> HIDE DEF u
  <2> QED BY <1>0, <2>3, <2>4, <2>5, <2>6, OneStream
<1>8. ASSUME NEW fd \in Fd, Closes(fd) PROVE StreamsType' /\ AllArrived'
  BY <1>1, <1>8 DEF Closes, bytes
<1> QED BY <1>2, <1>3, <1>4, <1>5, <1>6, <1>7, <1>8 DEF Next, Server, Peers

\* For any clients, texts and bytes, however the streams are cut and interleaved,
\* the lines handled for each client are the lines it sent, whole, once and in
\* order (receiveNewData).
THEOREM LinesWholeSafe == Spec => []LinesArriveWhole
<1>1. StreamsInv => LinesArriveWhole
  <2> SUFFICES ASSUME StreamsInv, NEW fd \in Fd
               PROVE  /\ IsPrefix(LinesOf(CString(sent[fd])), handled[fd] \o Rest(fd))
                      /\ ~Contains(sent[fd], "NUL") =>
                           IsPrefix(handled[fd] \o Rest(fd), LinesOf(CString(sent[fd])))
    BY DEF LinesArriveWhole
  <2>1. /\ sent[fd] \in Seq(Byte) /\ wire[fd] \in Seq(Byte) /\ buffer[fd] \in Seq(Byte)
        /\ handled[fd] \in Seq(Seq(Byte)) /\ Arrived(sent[fd], wire[fd], buffer[fd], handled[fd])
    BY DEF StreamsInv, StreamsType, AllArrived
  <2> QED BY <2>1, ArrivedMeans DEF Rest
<1> QED BY <1>1, StreamsInit, StreamsStep, PTL DEF Spec

\* For any clients, texts and bytes, a NUL only takes bytes away: what is handled,
\* kept and still to come stands in what was sent, in its order (receiveNewData).
THEOREM NulDropsSafe == Spec => []NulOnlyDrops
<1>1. StreamsInv => NulOnlyDrops
  <2> SUFFICES ASSUME StreamsInv, NEW fd \in Fd
               PROVE  IsThinned(FlattenSeq(handled[fd]) \o buffer[fd] \o wire[fd], sent[fd])
    BY DEF NulOnlyDrops
  <2>1. /\ sent[fd] \in Seq(Byte) /\ wire[fd] \in Seq(Byte) /\ buffer[fd] \in Seq(Byte)
        /\ handled[fd] \in Seq(Seq(Byte)) /\ Arrived(sent[fd], wire[fd], buffer[fd], handled[fd])
    BY DEF StreamsInv, StreamsType, AllArrived
  <2> QED BY <2>1, ArrivedMeans
<1> QED BY <1>1, StreamsInit, StreamsStep, PTL DEF Spec
=============================================================================
