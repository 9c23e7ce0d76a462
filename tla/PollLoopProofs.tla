--------------------------- MODULE PollLoopProofs ---------------------------
(***************************************************************************)
(* Proofs about PollLoop, for any set of descriptors: the two vectors      *)
(* match, no read finds nothing, and what is closed is closed once.        *)
(***************************************************************************)
EXTENDS PollLoop, SequenceFacts, FiniteSetTheorems

-----------------------------------------------------------------------------
(* The inductive invariant. *)

\* What is behind a descriptor that no Client has.
Ownerless == {"none", "leaked"}

\* TypeOK without the bound on the index.
LoopType ==
  /\ pollFds \in Seq(Entry) /\ clients \in Seq(Fd)
  /\ at \in {"main", "socket", "bind", "listen", "interfaces", "top", "call", "waiting",
            "walk", "lines", "teardown", "exited"}
  /\ i \in Nat \ {0} /\ signal \in BOOLEAN
  /\ listener \in {"none", "open", "listening"} /\ closes \in Nat
  /\ peer \in [Fd -> {"none", "open", "closed", "reset", "leaked"}]
  /\ input \in [Fd -> BOOLEAN] /\ backlog \in 0 .. MaxBacklog

\* The descriptors of _pollFds are the listening socket and the clients', in the
\* order of _clients.
FdsMatch ==
  /\ Len(pollFds) = Len(clients) + 1
  /\ pollFds[1].fd = ListenFd
  /\ \A k \in 1 .. Len(clients) : pollFds[k + 1].fd = clients[k]

ClientsAreOpen ==
  /\ \A j, k \in 1 .. Len(clients) : clients[j] = clients[k] => j = k
  /\ \A k \in 1 .. Len(clients) : peer[clients[k]] \notin Ownerless
  /\ \A fd \in Fd : peer[fd] \notin Ownerless => \E k \in 1 .. Len(clients) : clients[k] = fd

\* Lines are handled for the client the walk has come to.
LinesHaveClient == at = "lines" => i \in 2 .. Len(pollFds)

\* Nobody is there before the loop, or after ~Server, and the listening socket is
\* closed by the last step only.
Lifetime ==
  /\ at \in {"main", "socket"} => listener = "none"
  /\ at \in {"bind", "listen", "interfaces", "teardown"} \/ Looping => listener # "none"
  /\ closes = IF at = "exited" /\ listener # "none" THEN 1 ELSE 0
  /\ ~Looping /\ at # "teardown" => clients = <<>>

LoopInv ==
  /\ LoopType
  /\ at \in {"interfaces", "teardown"} \/ Looping => FdsMatch
  /\ ClientsAreOpen /\ LinesHaveClient /\ Lifetime
  /\ ReventsAreCurrent

-----------------------------------------------------------------------------
(* The edits of the two vectors. *)

\* What poll or the handler of a signal writes to the revents.
LEMMA ReventsType ==
  ASSUME LoopType, NEW r \in [DOMAIN pollFds -> BOOLEAN],
         pollFds' = [k \in DOMAIN pollFds |-> [pollFds[k] EXCEPT !.revents = r[k]]]
  PROVE  /\ pollFds' \in Seq(Entry) /\ Len(pollFds') = Len(pollFds)
         /\ \A k \in 1 .. Len(pollFds) :
              pollFds'[k].fd = pollFds[k].fd /\ pollFds'[k].revents = r[k]
<1>1. DOMAIN pollFds = 1 .. Len(pollFds) /\ \A k \in 1 .. Len(pollFds) : pollFds[k] \in Entry
  BY DEF LoopType
<1>2. pollFds' \in [DOMAIN pollFds -> Entry]
  BY <1>1 DEF Entry
<1>3. pollFds' \in Seq(Entry) /\ Len(pollFds') = Len(pollFds)
  BY <1>2, Overwriting DEF LoopType
<1> QED BY <1>1, <1>3 DEF Entry

\* The entry and the client that disconnectClient erases.
LEMMA ErasedEntry ==
  ASSUME LoopType, FdsMatch, ClientsAreOpen, NEW n \in 2 .. Len(pollFds)
  PROVE  /\ Erased(pollFds[n].fd) = RemoveAt(pollFds, n)
         /\ RemoveFirst(clients, pollFds[n].fd) = RemoveAt(clients, n - 1)
<1> DEFINE fd == pollFds[n].fd
<1>1. n - 1 \in 1 .. Len(clients) /\ clients[n - 1] = fd
  BY DEF FdsMatch, LoopType
<1>2. \A k \in 1 .. Len(pollFds) : pollFds[k].fd = fd => k = n
  <2> SUFFICES ASSUME NEW k \in 1 .. Len(pollFds), pollFds[k].fd = fd PROVE k = n
    OBVIOUS
  <2>1. fd \in Fd
    BY <1>1 DEF LoopType
  <2>2. k # 1
    BY <2>1, PollAssumption DEF FdsMatch
  <2>3. k - 1 \in 1 .. Len(clients) /\ clients[k - 1] = fd
    <3>1. k - 1 \in 1 .. Len(clients) /\ (k - 1) + 1 = k
      BY <2>2 DEF FdsMatch, LoopType
    <3> QED BY <3>1, Zenon DEF FdsMatch
  <2> QED BY <1>1, <2>3 DEF ClientsAreOpen
<1>3. {k \in 1 .. Len(pollFds) : pollFds[k].fd = fd} = {n}
  BY <1>2 DEF LoopType
<1>4. SelectInSeq(pollFds, LAMBDA e : e.fd = fd) = n
  BY <1>3, OnlyPlace DEF SelectInSeq
<1>5. \A k \in 1 .. Len(clients) : clients[k] = clients[n - 1] => k = n - 1
  BY <1>1 DEF ClientsAreOpen
<1>6. RemoveFirst(clients, clients[n - 1]) = RemoveAt(clients, n - 1)
  BY <1>1, <1>5, ErasingElement DEF LoopType
<1> QED BY <1>1, <1>4, <1>6 DEF Erased

-----------------------------------------------------------------------------
(* The steps. *)

\* The walk is in the loop, so the vectors match.
LEMMA WalkMatches ==
  ASSUME LoopInv, at \in {"walk", "lines"}
  PROVE  FdsMatch /\ Len(pollFds) \in Nat /\ Len(clients) \in Nat
BY DEF LoopInv, LoopType, Looping

\* Disconnecting the client under the index keeps the invariant: the entries
\* behind it move up by one.
LEMMA DisconnectInv ==
  ASSUME LoopInv, at \in {"walk", "lines"}, i \in 2 .. Len(pollFds),
         Disconnect(pollFds[i].fd)
  PROVE  LoopInv'
<1> DEFINE fd == pollFds[i].fd
<1>0. FdsMatch /\ LoopType /\ ClientsAreOpen /\ ReventsAreCurrent /\ i \in Nat
  BY WalkMatches DEF LoopInv, LoopType
<1>1. /\ pollFds' = RemoveAt(pollFds, i) /\ clients' = RemoveAt(clients, i - 1)
      /\ clients[i - 1] = fd /\ fd \in Fd /\ i - 1 \in 1 .. Len(clients)
  BY <1>0, ErasedEntry DEF LoopType, FdsMatch, Disconnect
<1>2. /\ pollFds' \in Seq(Entry) /\ Len(pollFds') = Len(pollFds) - 1
      /\ \A k \in 1 .. Len(pollFds) - 1 :
           pollFds'[k] = IF k < i THEN pollFds[k] ELSE pollFds[k + 1]
  <2>1. pollFds' = RemoveAt(pollFds, i) /\ i \in 1 .. Len(pollFds) /\ pollFds \in Seq(Entry)
    BY <1>0, <1>1 DEF LoopType
  <2> QED BY ONLY <2>1, Erasing
<1>3. /\ clients' \in Seq(Fd) /\ Len(clients') = Len(clients) - 1
      /\ \A k \in 1 .. Len(clients) - 1 :
           clients'[k] = IF k < i - 1 THEN clients[k] ELSE clients[k + 1]
  <2> DEFINE n == i - 1
  <2>1. clients' = RemoveAt(clients, n) /\ n \in 1 .. Len(clients) /\ clients \in Seq(Fd)
    BY <1>0, <1>1 DEF LoopType
  <2> HIDE DEF n
  <2>2. /\ clients' \in Seq(Fd) /\ Len(clients') = Len(clients) - 1
        /\ \A k \in 1 .. Len(clients) - 1 :
             clients'[k] = IF k < n THEN clients[k] ELSE clients[k + 1]
    BY <2>1, Erasing
  <2> QED BY <2>2 DEF n
<1>4. /\ peer' = [peer EXCEPT ![fd] = "none"] /\ input' = [input EXCEPT ![fd] = FALSE]
      /\ i' = i + 1 /\ at' = "walk"
      /\ UNCHANGED <<signal, listener, closes, backlog>>
  BY DEF Disconnect
<1>a. /\ \A f \in Fd : peer'[f] = IF f = fd THEN "none" ELSE peer[f]
      /\ \A f \in Fd : input'[f] = IF f = fd THEN FALSE ELSE input[f]
      /\ peer' \in [Fd -> {"none", "open", "closed", "reset", "leaked"}] /\ input' \in [Fd -> BOOLEAN]
  BY <1>0, <1>4 DEF LoopType
<1> HIDE DEF fd
<1>5. LoopType'
  BY <1>0, <1>2, <1>3, <1>4, <1>a DEF LoopType
<1>6. FdsMatch'
  <2>1. Len(pollFds') = Len(clients') + 1 /\ pollFds'[1].fd = ListenFd
    <3>1. Len(pollFds) = Len(clients) + 1 /\ pollFds[1].fd = ListenFd
      BY <1>0 DEF FdsMatch
    <3>2. 1 \in 1 .. Len(pollFds) - 1 /\ 1 < i
      BY <1>1, <3>1
    <3>3. pollFds'[1] = pollFds[1]
      BY <1>2, <3>2
    <3> QED BY <1>2, <1>3, <3>1, <3>3
  <2>2. ASSUME NEW k \in 1 .. Len(clients') PROVE pollFds'[k + 1].fd = clients'[k]
    <3>1. k \in 1 .. Len(clients) - 1 /\ k + 1 \in 1 .. Len(clients) /\ k \in 1 .. Len(clients)
          /\ k + 1 \in 1 .. Len(pollFds) - 1
      BY <1>0, <1>3, <2>1, <1>2 DEF FdsMatch
    <3>2. CASE k < i - 1
      BY <1>0, <1>2, <1>3, <3>1, <3>2 DEF FdsMatch
    <3>3. CASE ~(k < i - 1)
      BY <1>0, <1>2, <1>3, <3>1, <3>3 DEF FdsMatch
    <3> QED BY <3>2, <3>3
  <2> QED BY <2>1, <2>2 DEF FdsMatch
<1>7. ClientsAreOpen'
  <2> DEFINE old(k) == IF k < i - 1 THEN k ELSE k + 1
  <2>1. \A k \in 1 .. Len(clients') :
          old(k) \in 1 .. Len(clients) /\ old(k) # i - 1 /\ clients'[k] = clients[old(k)]
    BY <1>1, <1>3
  <2>2. \A j \in 1 .. Len(clients) : j # i - 1 =>
          clients[j] # fd /\ \E k \in 1 .. Len(clients') : clients'[k] = clients[j]
    <3> SUFFICES ASSUME NEW j \in 1 .. Len(clients), j # i - 1
                 PROVE  clients[j] # fd /\ \E k \in 1 .. Len(clients') : clients'[k] = clients[j]
      OBVIOUS
    <3>1. clients[j] # fd
      BY <1>0, <1>1 DEF ClientsAreOpen
    <3>2. CASE j < i - 1
      BY <1>1, <1>3, <3>1, <3>2
    <3>3. CASE j > i - 1
      <4>1. j - 1 \in 1 .. Len(clients') /\ clients'[j - 1] = clients[j]
        BY <1>1, <1>3, <3>3
      <4> QED BY <3>1, <4>1
    <3> QED BY <1>1, <3>2, <3>3
  <2>3. \A j, k \in 1 .. Len(clients') : clients'[j] = clients'[k] => j = k
    BY <1>0, <1>1, <1>3, <2>1 DEF ClientsAreOpen
  <2>4. \A k \in 1 .. Len(clients') : peer'[clients'[k]] \notin Ownerless
    <3> SUFFICES ASSUME NEW k \in 1 .. Len(clients') PROVE peer'[clients'[k]] \notin Ownerless
      OBVIOUS
    <3>1. clients'[k] = clients[old(k)] /\ clients[old(k)] # fd /\ old(k) \in 1 .. Len(clients)
      BY <2>1, <2>2
    <3>2. peer[clients[old(k)]] \notin Ownerless /\ clients[old(k)] \in Fd
      BY <1>0, <3>1 DEF ClientsAreOpen, LoopType
    <3> HIDE DEF old
    <3> QED BY <1>a, <3>1, <3>2
  <2>5. ASSUME NEW f \in Fd, peer'[f] \notin Ownerless
        PROVE  \E k \in 1 .. Len(clients') : clients'[k] = f
    <3>1. f # fd /\ peer[f] \notin Ownerless
      BY <1>a, <2>5 DEF Ownerless
    <3>2. PICK j \in 1 .. Len(clients) : clients[j] = f
      BY <1>0, <3>1 DEF ClientsAreOpen
    <3> QED BY <1>1, <2>2, <3>1, <3>2
  <2> QED BY <2>3, <2>4, <2>5 DEF ClientsAreOpen
<1>8. LinesHaveClient' /\ Lifetime'
  BY <1>4 DEF LoopInv, LinesHaveClient, Lifetime, Looping
<1>9. ReventsAreCurrent'
  <2>0. i' + 0 = i + 1 /\ at' # "lines"
    BY <1>0, <1>4
  <2> SUFFICES ASSUME NEW k \in i + 1 .. Len(pollFds'), pollFds'[k].revents
               PROVE  Readable(pollFds[k].fd)'
    BY <2>0 DEF ReventsAreCurrent
  <2>1. /\ k + 1 \in i + 1 .. Len(pollFds) /\ k + 1 \in 2 .. Len(pollFds) /\ k # i - 1
        /\ pollFds'[k] = pollFds[k + 1]
    BY <1>0, <1>2
  <2>2. Readable(pollFds[k + 1].fd)
    BY <1>0, <2>1 DEF ReventsAreCurrent
  <2>3. k \in 1 .. Len(clients) /\ pollFds[k + 1].fd = clients[k]
    BY <1>0, <2>1 DEF FdsMatch
  <2>4. pollFds[k + 1].fd # fd /\ pollFds[k + 1].fd \in Fd
    <3>1. clients[i - 1] = fd /\ i - 1 \in 1 .. Len(clients) /\ clients[k] \in Fd
      BY <1>0, <1>1, <2>3 DEF LoopType
    <3>2. clients[k] # clients[i - 1]
      BY <1>0, <2>1, <2>3, <3>1 DEF ClientsAreOpen
    <3> QED BY <2>3, <3>1, <3>2
  <2>5. pollFds[k + 1].fd # ListenFd
    BY <2>4, PollAssumption
  <2> QED BY <1>a, <2>1, <2>2, <2>4, <2>5 DEF Readable
<1> QED BY <1>4, <1>5, <1>6, <1>7, <1>8, <1>9 DEF LoopInv

\* The walk comes to the listening socket first, and somebody waits there.
LEMMA ListenerWaits ==
  ASSUME LoopInv, Visiting, pollFds[i].revents, pollFds[i].fd = ListenFd
  PROVE  i = 1 /\ backlog > 0
<1>0. FdsMatch /\ LoopType /\ ReventsAreCurrent /\ at = "walk" /\ i \in 1 .. Len(pollFds)
  BY WalkMatches DEF Visiting, LoopInv, LoopType
<1>1. Len(clients) \in Nat /\ \A k \in 1 .. Len(clients) : clients[k] \in Fd
  BY <1>0 DEF LoopType
<1>2. i = 1
  <2>1. ASSUME i # 1 PROVE FALSE
    <3>1. i - 1 \in 1 .. Len(clients)
      BY <1>0, <1>1, <2>1 DEF FdsMatch
    <3>2. pollFds[i].fd = clients[i - 1]
      BY <1>0, <3>1 DEF FdsMatch, LoopType
    <3> QED BY <1>1, <3>1, <3>2, PollAssumption
  <2> QED BY <2>1
<1>3. Readable(pollFds[1].fd)
  BY <1>0, <1>2 DEF ReventsAreCurrent
<1> QED BY <1>2, <1>3 DEF Readable

\* So does accepting a client, whose entry is the last.
LEMMA AcceptInv ==
  ASSUME LoopInv, AcceptNewClient
  PROVE  LoopInv'
<1>0. FdsMatch /\ LoopType /\ ClientsAreOpen /\ ReventsAreCurrent
  BY WalkMatches DEF AcceptNewClient, Visiting, LoopInv
<1>1. PICK fd \in Fd :
        /\ peer[fd] = "none"
        /\ peer' = [peer EXCEPT ![fd] = "open"]
        /\ clients' = Append(clients, fd)
        /\ pollFds' = Append(pollFds, NewPoll(fd))
  BY DEF AcceptNewClient
<1>2. /\ at = "walk" /\ pollFds[i].fd = ListenFd /\ i \in 1 .. Len(pollFds)
      /\ pollFds[i].revents /\ backlog' = backlog - 1 /\ i' = i + 1
      /\ UNCHANGED <<at, signal, listener, closes, input>>
  BY <1>0 DEF AcceptNewClient, Visiting, LoopType
<1>3. NewPoll(fd) \in Entry /\ NewPoll(fd).fd = fd /\ NewPoll(fd).revents = FALSE
  BY DEF NewPoll, Entry
<1> HIDE DEF NewPoll
<1>4. /\ pollFds' \in Seq(Entry) /\ Len(pollFds') = Len(pollFds) + 1
      /\ \A k \in 1 .. Len(pollFds) : pollFds'[k] = pollFds[k]
      /\ pollFds'[Len(pollFds) + 1] = NewPoll(fd) /\ Len(pollFds) \in Nat
  BY <1>0, <1>1, <1>3, AppendProperties DEF LoopType
<1>5. /\ clients' \in Seq(Fd) /\ Len(clients') = Len(clients) + 1
      /\ \A k \in 1 .. Len(clients) : clients'[k] = clients[k] /\ clients[k] \in Fd
      /\ clients'[Len(clients) + 1] = fd /\ Len(clients) \in Nat
  BY <1>0, <1>1, AppendProperties DEF LoopType
<1>6. /\ \A f \in Fd : peer'[f] = IF f = fd THEN "open" ELSE peer[f]
      /\ peer' \in [Fd -> {"none", "open", "closed", "reset", "leaked"}]
  BY <1>0, <1>1 DEF LoopType
<1>7. i = 1
  BY ListenerWaits DEF AcceptNewClient
<1>8. backlog > 0
  BY ListenerWaits DEF AcceptNewClient
<1>9. LoopType'
  BY <1>0, <1>2, <1>4, <1>5, <1>6, <1>8, PollAssumption DEF LoopType
<1>10. FdsMatch'
  <2>1. Len(pollFds') = Len(clients') + 1 /\ pollFds'[1].fd = ListenFd
    BY <1>0, <1>4, <1>5 DEF FdsMatch
  <2>2. ASSUME NEW k \in 1 .. Len(clients') PROVE pollFds'[k + 1].fd = clients'[k]
    <3>1. CASE k \in 1 .. Len(clients)
      BY <1>0, <1>4, <1>5, <3>1 DEF FdsMatch
    <3>2. CASE k = Len(clients) + 1
      BY <1>0, <1>3, <1>4, <1>5, <3>2 DEF FdsMatch
    <3> QED BY <1>5, <3>1, <3>2
  <2> QED BY <2>1, <2>2 DEF FdsMatch
<1>11. ClientsAreOpen'
  <2>1. \A k \in 1 .. Len(clients) : clients[k] # fd
    BY <1>0, <1>1 DEF ClientsAreOpen, Ownerless
  <2>2. \A k \in 1 .. Len(clients') : k \in 1 .. Len(clients) \/ k = Len(clients) + 1
    BY <1>5
  <2>3. \A j, k \in 1 .. Len(clients') : clients'[j] = clients'[k] => j = k
    BY <1>0, <1>5, <2>1, <2>2 DEF ClientsAreOpen
  <2>4. \A k \in 1 .. Len(clients') : peer'[clients'[k]] \notin Ownerless
    BY <1>0, <1>5, <1>6, <2>1, <2>2 DEF ClientsAreOpen, Ownerless
  <2>5. ASSUME NEW f \in Fd, peer'[f] \notin Ownerless
        PROVE  \E k \in 1 .. Len(clients') : clients'[k] = f
    <3>1. CASE f = fd
      BY <1>5, <3>1
    <3>2. CASE f # fd
      <4>1. PICK k \in 1 .. Len(clients) : clients[k] = f
        BY <1>0, <1>6, <2>5, <3>2 DEF ClientsAreOpen
      <4> QED BY <1>5, <4>1
    <3> QED BY <3>1, <3>2
  <2> QED BY <2>3, <2>4, <2>5 DEF ClientsAreOpen
<1>12. LinesHaveClient' /\ Lifetime'
  BY <1>2 DEF LoopInv, LinesHaveClient, Lifetime, Looping
<1>13. ReventsAreCurrent'
  <2>0. i' + 0 = i + 1 /\ at' # "lines"
    BY <1>2, <1>7
  <2> SUFFICES ASSUME NEW k \in i + 1 .. Len(pollFds'), pollFds'[k].revents
               PROVE  Readable(pollFds[k].fd)'
    BY <2>0 DEF ReventsAreCurrent
  <2>1. k \in 2 .. Len(pollFds) /\ pollFds'[k] = pollFds[k]
    BY <1>3, <1>4, <1>7
  <2>2. Readable(pollFds[k].fd)
    BY <1>0, <1>2, <1>7, <2>1 DEF ReventsAreCurrent
  <2>3. k - 1 \in 1 .. Len(clients) /\ pollFds[k].fd = clients[k - 1]
    BY <1>0, <1>4, <1>5, <2>1 DEF FdsMatch
  <2>4. pollFds[k].fd \in Fd /\ pollFds[k].fd # ListenFd /\ pollFds[k].fd # fd
    <3>1. clients[k - 1] \in Fd /\ peer[clients[k - 1]] \notin Ownerless
      BY <1>0, <1>5, <2>3 DEF ClientsAreOpen
    <3> QED BY <1>1, <2>3, <3>1, PollAssumption DEF Ownerless
  <2> QED BY <1>2, <1>6, <2>1, <2>2, <2>4 DEF Readable
<1> QED BY <1>2, <1>9, <1>10, <1>11, <1>12, <1>13 DEF LoopInv

\* Only revents, the index and the place change, and revents are true.
LEMMA ReventsInv ==
  ASSUME LoopInv, Looping, NEW r \in [DOMAIN pollFds -> BOOLEAN],
         pollFds' = [k \in DOMAIN pollFds |-> [pollFds[k] EXCEPT !.revents = r[k]]],
         \A k \in DOMAIN pollFds : r[k] => Readable(pollFds[k].fd),
         at' = "walk", i' = 1, signal' \in BOOLEAN,
         UNCHANGED <<clients, listener, closes, kernel>>
  PROVE  LoopInv'
<1>0. FdsMatch /\ LoopType /\ ClientsAreOpen
  BY DEF LoopInv
<1>1. /\ pollFds' \in Seq(Entry) /\ Len(pollFds') = Len(pollFds)
      /\ \A k \in 1 .. Len(pollFds) :
           pollFds'[k].fd = pollFds[k].fd /\ pollFds'[k].revents = r[k]
  BY <1>0, ReventsType
<1>2. UNCHANGED <<clients, listener, closes, peer, input, backlog>>
  BY DEF kernel
<1>3. LoopType'
  BY <1>0, <1>1, <1>2 DEF LoopType
<1>4. FdsMatch'
  BY <1>0, <1>1, <1>2 DEF FdsMatch, LoopType
<1>5. ClientsAreOpen' /\ LinesHaveClient'
  BY <1>0, <1>2 DEF ClientsAreOpen, LinesHaveClient
<1>6. Lifetime'
  BY <1>2 DEF LoopInv, Lifetime, Looping
<1>7. ReventsAreCurrent'
  <2>0. i' + 0 = 1 /\ at' # "lines"
    OBVIOUS
  <2> SUFFICES ASSUME NEW k \in 1 .. Len(pollFds'), pollFds'[k].revents
               PROVE  Readable(pollFds[k].fd)'
    BY <2>0 DEF ReventsAreCurrent
  <2>1. k \in DOMAIN pollFds /\ pollFds'[k].fd = pollFds[k].fd /\ r[k]
    BY <1>0, <1>1 DEF LoopType
  <2>2. Readable(pollFds[k].fd)
    BY <2>1
  <2> QED BY <1>2, <2>1, <2>2 DEF Readable
<1> QED BY <1>3, <1>4, <1>5, <1>6, <1>7 DEF LoopInv

\* What a step of a peer, or of recv, has to leave alone.
LEMMA KernelInv ==
  ASSUME LoopInv, UNCHANGED <<pollFds, clients, listener, closes>>, LoopType',
         i' \in {i, i + 1}, at' = at \/ (at = "walk" /\ at' = "lines" /\ i' = i
                                        /\ i \in 2 .. Len(pollFds))
                          \/ (at = "lines" /\ at' = "walk" /\ i' = i + 1),
         at = "lines" /\ at' = "lines" => i' = i,
         \A fd \in Fd : peer'[fd] \in Ownerless <=> peer[fd] \in Ownerless,
         \A k \in i' + (IF at' = "lines" THEN 1 ELSE 0) .. Len(pollFds) :
           Readable(pollFds[k].fd) => Readable(pollFds[k].fd)'
  PROVE  LoopInv'
<1>0. LoopType /\ i \in Nat /\ i' \in Nat /\ Len(pollFds) \in Nat
  BY DEF LoopInv, LoopType
<1>1. (at \in {"interfaces", "teardown"} \/ Looping => FdsMatch)'
  BY DEF LoopInv, FdsMatch, Looping
<1>2. ClientsAreOpen'
  BY <1>0 DEF LoopInv, LoopType, ClientsAreOpen
<1>3. LinesHaveClient'
  BY <1>0 DEF LoopInv, LinesHaveClient
<1>4. Lifetime'
  BY DEF LoopInv, Lifetime, Looping
<1>5. ReventsAreCurrent'
  <2> SUFFICES ASSUME at' \in {"walk", "lines"},
                      NEW k \in i' + (IF at' = "lines" THEN 1 ELSE 0) .. Len(pollFds),
                      pollFds[k].revents
               PROVE  Readable(pollFds[k].fd)'
    BY DEF ReventsAreCurrent
  <2>1. Readable(pollFds[k].fd) => Readable(pollFds[k].fd)'
    OBVIOUS
  <2> DEFINE next == i' + (IF at' = "lines" THEN 1 ELSE 0)
  <2>a. /\ at' = "lines" => next = i' + 1
        /\ at' # "lines" => next = i' + 0
    OBVIOUS
  <2>b. k \in next .. Len(pollFds)
    OBVIOUS
  <2> HIDE DEF next
  <2>2. CASE at = "lines"
    <3>1. k \in i + 1 .. Len(pollFds)
      BY <1>0, <2>2, <2>a, <2>b
    <3> QED BY <2>1, <2>2, <3>1 DEF LoopInv, ReventsAreCurrent
  <2>3. CASE at = "walk"
    <3>1. k \in i + 0 .. Len(pollFds)
      BY <1>0, <2>3, <2>a, <2>b
    <3> QED BY <2>1, <2>3, <3>1 DEF LoopInv, ReventsAreCurrent
  <2> QED BY <2>2, <2>3
<1> QED BY <1>1, <1>2, <1>3, <1>4, <1>5 DEF LoopInv

\* Where nobody is connected, before the loop.
LEMMA StartInv ==
  ASSUME LoopInv,
         ParseArguments \/ OpenSocket \/ InitFails \/ Bind \/ Listen \/ FindInterface
  PROVE  LoopInv'
<1>0. LoopType /\ ClientsAreOpen /\ clients = <<>> /\ clients' = <<>>
  BY DEF LoopInv, Lifetime, Looping, ParseArguments, OpenSocket, InitFails, Bind, Listen,
         FindInterface, walk
<1>1. NewPoll(ListenFd) \in Entry /\ NewPoll(ListenFd).fd = ListenFd
  BY DEF NewPoll, Entry
<1>2. UNCHANGED <<i, signal, peer, input, backlog>>
  BY DEF ParseArguments, OpenSocket, InitFails, Bind, Listen, FindInterface, walk, kernel
<1>3. Len(clients) = 0 /\ Len(clients') = 0
  BY <1>0
<1>4. LoopType'
  <2>1. pollFds' \in Seq(Entry)
    <3>1. CASE Listen
      <4>1. pollFds' = <<NewPoll(ListenFd)>>
        BY <3>1 DEF Listen
      <4> HIDE DEF NewPoll
      <4> QED BY <1>1, <4>1
    <3>2. CASE ~Listen
      BY <1>0, <3>2 DEF LoopType, ParseArguments, OpenSocket, InitFails, Bind, FindInterface,
         walk
    <3> QED BY <3>1, <3>2
  <2>2. /\ at' \in {"socket", "bind", "listen", "interfaces", "top", "exited"}
        /\ listener' \in {"none", "open", "listening"} /\ closes' \in Nat
    BY <1>0 DEF LoopType, ParseArguments, OpenSocket, InitFails, Bind, Listen, FindInterface
  <2> QED BY <1>0, <1>2, <2>1, <2>2 DEF LoopType
<1>5. (at \in {"interfaces", "teardown"} \/ Looping => FdsMatch)'
  <2>1. CASE Listen
    <3>1. pollFds' = <<NewPoll(ListenFd)>>
      BY <2>1 DEF Listen
    <3>2. Len(pollFds') = 1 /\ pollFds'[1].fd = ListenFd
      BY <1>1, <3>1
    <3> QED BY <1>3, <3>2 DEF FdsMatch
  <2>2. CASE FindInterface
    BY <2>2 DEF FindInterface, walk, LoopInv, FdsMatch
  <2> QED BY <2>1, <2>2 DEF ParseArguments, OpenSocket, InitFails, Bind, Looping
<1>6. ClientsAreOpen'
  BY <1>0, <1>2, <1>3 DEF ClientsAreOpen
<1>7. LinesHaveClient' /\ Lifetime' /\ ReventsAreCurrent'
  BY <1>0 DEF LoopInv, LinesHaveClient, Lifetime, ReventsAreCurrent, Looping,
     ParseArguments, OpenSocket, InitFails, Bind, Listen, FindInterface
<1> QED BY <1>4, <1>5, <1>6, <1>7 DEF LoopInv

\* Only the place of the thread changes.
LEMMA PlaceInv ==
  ASSUME LoopInv, Top \/ Wait \/ PollFails \/ WalkEnds
  PROVE  LoopInv'
<1>1. /\ UNCHANGED <<pollFds, clients, i, signal, listener, closes, peer, input, backlog>>
      /\ Looping /\ at' \in {"top", "call", "waiting", "teardown"}
  BY DEF Top, Wait, PollFails, WalkEnds, walk, kernel, Looping
<1>2. LoopType'
  BY <1>1 DEF LoopInv, LoopType
<1>3. FdsMatch' /\ ClientsAreOpen'
  BY <1>1 DEF LoopInv, FdsMatch, ClientsAreOpen
<1>4. LinesHaveClient' /\ Lifetime' /\ ReventsAreCurrent'
  BY <1>1 DEF LoopInv, LinesHaveClient, Lifetime, ReventsAreCurrent, Looping
<1> QED BY <1>2, <1>3, <1>4 DEF LoopInv

\* So does closing everything at the end.
LEMMA TeardownInv ==
  ASSUME LoopInv, Teardown
  PROVE  LoopInv'
<1>1. /\ clients' = <<>> /\ pollFds' = <<>> /\ at' = "exited" /\ at = "teardown"
      /\ closes' = IF listener # "none" THEN closes + 1 ELSE closes
      /\ peer' = [fd \in Fd |-> IF fd \in ToSet(clients) THEN "none" ELSE peer[fd]]
      /\ input' = [fd \in Fd |-> FALSE]
      /\ UNCHANGED <<i, signal, listener, backlog>>
  BY DEF Teardown
<1>2. LoopType'
  BY <1>1 DEF LoopInv, LoopType
<1>3. ClientsAreOpen'
  <2>1. Len(clients') = 0
    BY <1>1
  <2>2. ASSUME NEW fd \in Fd PROVE peer'[fd] \in Ownerless
    <3>1. peer[fd] \notin Ownerless => \E k \in 1 .. Len(clients) : clients[k] = fd
      BY DEF LoopInv, ClientsAreOpen
    <3>2. peer[fd] \notin Ownerless => fd \in ToSet(clients)
      BY <3>1 DEF LoopInv, LoopType, ToSet
    <3> QED BY <1>1, <3>2 DEF Ownerless
  <2> QED BY <2>1, <2>2 DEF ClientsAreOpen
<1>4. LinesHaveClient' /\ Lifetime' /\ ReventsAreCurrent'
  BY <1>1 DEF LoopInv, LoopType, LinesHaveClient, Lifetime, ReventsAreCurrent, Looping
<1> QED BY <1>1, <1>2, <1>3, <1>4 DEF LoopInv, Looping

\* The invariant holds at the start.
LEMMA InitInv == Init => LoopInv
<1> SUFFICES ASSUME Init PROVE LoopInv
  OBVIOUS
<1>1. LoopType
  <2>1. pollFds \in Seq(Entry) /\ clients \in Seq(Fd) /\ backlog \in 0 .. MaxBacklog
    BY PollAssumption DEF Init
  <2>2. /\ peer \in [Fd -> {"none", "open", "closed", "reset", "leaked"}]
        /\ input \in [Fd -> BOOLEAN]
    BY DEF Init
  <2>3. i \in Nat \ {0} /\ closes \in Nat
    BY DEF Init
  <2> QED BY <2>1, <2>2, <2>3 DEF Init, LoopType
<1>2. ClientsAreOpen
  <2>1. Len(clients) = 0
    BY DEF Init
  <2> QED BY <2>1 DEF Init, ClientsAreOpen, Ownerless
<1>3. LinesHaveClient /\ Lifetime /\ ReventsAreCurrent
  BY DEF Init, LinesHaveClient, Lifetime, ReventsAreCurrent, Looping
<1> QED BY <1>1, <1>2, <1>3 DEF LoopInv, Init, Looping

\* A client the walk has come to is not the listening socket.
LEMMA ReadingClient ==
  ASSUME LoopInv, Reading
  PROVE  i \in 2 .. Len(pollFds) /\ pollFds[i].fd \in Fd /\ at = "walk"
<1>1. FdsMatch /\ LoopType /\ at = "walk"
  BY WalkMatches DEF Reading, Visiting, LoopInv
<1>2. i \in Nat /\ i <= Len(pollFds) /\ i # 0 /\ pollFds[i].fd # ListenFd
  BY <1>1 DEF Reading, Visiting, LoopType
<1>3. i # 1
  BY <1>1, <1>2 DEF FdsMatch
<1>4. i \in 2 .. Len(pollFds) /\ pollFds[i] \in Entry
  BY <1>1, <1>2, <1>3 DEF LoopType
<1> QED BY <1>1, <1>2, <1>4 DEF Entry

\* Every step keeps the invariant.
LEMMA StepInv == LoopInv /\ [Next]_vars => LoopInv'
<1> SUFFICES ASSUME LoopInv, [Next]_vars PROVE LoopInv'
  OBVIOUS
<1> DEFINE Still == UNCHANGED <<pollFds, clients, listener, closes>>
<1>0. LoopType
  BY DEF LoopInv
<1>1. CASE ParseArguments \/ OpenSocket \/ InitFails \/ Bind \/ Listen \/ FindInterface
  BY <1>1, StartInv
<1>2. CASE Top \/ Wait \/ PollFails \/ WalkEnds
  BY <1>2, PlaceInv
<1>3. CASE PollReturns
  <2> DEFINE r == [k \in DOMAIN pollFds |-> Readable(pollFds[k].fd)]
  <2>1. r \in [DOMAIN pollFds -> BOOLEAN]
    <3>1. ASSUME NEW f \in Fd \cup {ListenFd} PROVE Readable(f) \in BOOLEAN
      <4>1. CASE f = ListenFd
        BY <1>0, <4>1 DEF Readable, LoopType
      <4>2. CASE f # ListenFd
        <5>1. input[f] \in BOOLEAN
          BY <1>0, <4>2 DEF LoopType
        <5>2. Readable(f) = (input[f] \/ peer[f] \in {"closed", "reset"})
          BY <4>2 DEF Readable
        <5> QED BY <5>1, <5>2
      <4> QED BY <4>1, <4>2
    <3>2. \A k \in DOMAIN pollFds : pollFds[k] \in Entry
      BY <1>0 DEF LoopType
    <3>3. \A k \in DOMAIN pollFds : pollFds[k].fd \in Fd \cup {ListenFd}
      BY <3>2 DEF Entry
    <3> QED BY <3>1, <3>3
  <2>2. /\ pollFds' = [k \in DOMAIN pollFds |-> [pollFds[k] EXCEPT !.revents = r[k]]]
        /\ Looping /\ at' = "walk" /\ i' = 1 /\ signal' = signal
        /\ UNCHANGED <<clients, listener, closes, kernel>>
    BY <1>3 DEF PollReturns, Looping
  <2>3. \A k \in DOMAIN pollFds : r[k] => Readable(pollFds[k].fd)
    OBVIOUS
  <2> HIDE DEF r
  <2> QED BY <1>0, <2>1, <2>2, <2>3, ReventsInv DEF LoopType
<1>4. CASE Signal
  <2>1. CASE at = "waiting"
    <3> DEFINE r == [k \in DOMAIN pollFds |-> FALSE]
    <3>1. r \in [DOMAIN pollFds -> BOOLEAN] /\ \A k \in DOMAIN pollFds : ~r[k]
      OBVIOUS
    <3>2. /\ pollFds' = [k \in DOMAIN pollFds |-> [pollFds[k] EXCEPT !.revents = r[k]]]
          /\ Looping /\ at' = "walk" /\ i' = 1 /\ signal' \in BOOLEAN
          /\ UNCHANGED <<clients, listener, closes, kernel>>
      BY <1>4, <2>1 DEF Signal, Looping
    <3> HIDE DEF r
    <3> QED BY <3>1, <3>2, ReventsInv
  <2>2. CASE at # "waiting"
    <3>1. Still /\ UNCHANGED <<at, i, peer, input, backlog>> /\ signal' = TRUE
      BY <1>4, <2>2 DEF Signal, kernel
    <3>2. LoopType'
      BY <1>0, <3>1 DEF LoopType
    <3> QED BY <3>1, <3>2, KernelInv DEF Readable
  <2> QED BY <2>1, <2>2
<1>5. CASE Skip \/ AcceptFails
  <2>1. Still /\ UNCHANGED <<at, peer, input, backlog, signal>> /\ i' = i + 1 /\ at = "walk"
    BY <1>5 DEF Skip, AcceptFails, Visiting, kernel
  <2>2. LoopType'
    BY <1>0, <2>1 DEF LoopType
  <2> QED BY <2>1, <2>2, KernelInv DEF Readable
<1>6. CASE AcceptNewClient
  BY <1>6, AcceptInv
<1>6a. CASE FcntlFails
  <2>1. PICK fd \in Fd : peer[fd] = "none" /\ peer' = [peer EXCEPT ![fd] = "leaked"]
    BY <1>6a DEF FcntlFails
  <2>2. /\ Still /\ UNCHANGED <<at, input, signal>> /\ i' = i + 1 /\ at = "walk"
        /\ backlog' = backlog - 1
    BY <1>6a DEF FcntlFails, Visiting
  <2>3. i = 1 /\ backlog > 0
    BY <1>6a, ListenerWaits DEF FcntlFails
  <2>4. /\ peer' \in [Fd -> {"none", "open", "closed", "reset", "leaked"}]
        /\ \A f \in Fd : /\ peer'[f] \in Ownerless <=> peer[f] \in Ownerless
                         /\ peer[f] \in {"closed", "reset"} => peer'[f] \in {"closed", "reset"}
    BY <1>0, <2>1 DEF LoopType, Ownerless
  <2>5. LoopType'
    BY <1>0, <2>2, <2>3, <2>4, PollAssumption DEF LoopType
  <2>6. ASSUME NEW k \in 2 .. Len(pollFds), Readable(pollFds[k].fd)
        PROVE  Readable(pollFds[k].fd)'
    <3>1. FdsMatch /\ Len(clients) \in Nat /\ \A j \in 1 .. Len(clients) : clients[j] \in Fd
      BY <1>0, <2>2, WalkMatches DEF LoopType
    <3>2. k - 1 \in 1 .. Len(clients) /\ k = (k - 1) + 1
      BY <3>1 DEF FdsMatch
    <3>3. pollFds[k].fd \in Fd /\ pollFds[k].fd # ListenFd
      BY <3>1, <3>2, PollAssumption DEF FdsMatch
    <3> QED BY <2>2, <2>4, <2>6, <3>3 DEF Readable
  <2>7. \A k \in i' + 0 .. Len(pollFds) : k \in 2 .. Len(pollFds)
    BY <1>0, <2>2, <2>3 DEF LoopType
  <2> QED BY <2>2, <2>4, <2>5, <2>6, <2>7, KernelInv
<1>7. CASE Receive
  <2> DEFINE fd == pollFds[i].fd
  <2>1. i \in 2 .. Len(pollFds) /\ fd \in Fd /\ at = "walk"
    BY <1>7, ReadingClient DEF Receive
  <2>2. /\ Still /\ UNCHANGED <<i, peer, backlog, signal>> /\ at' = "lines"
        /\ input' = [input EXCEPT ![fd] = FALSE]
    BY <1>7 DEF Receive, walk
  <2>3. LoopType'
    BY <1>0, <2>1, <2>2 DEF LoopType
  <2>4. ASSUME NEW k \in i' + 1 .. Len(pollFds), Readable(pollFds[k].fd)
        PROVE  Readable(pollFds[k].fd)'
    <3>1. FdsMatch /\ ClientsAreOpen /\ Len(pollFds) \in Nat
      BY <2>1, WalkMatches DEF LoopInv
    <3>a. Len(clients) \in Nat /\ Len(pollFds) = Len(clients) + 1 /\ i' = i
      BY <1>0, <2>2, <3>1 DEF FdsMatch, LoopType
    <3>b. /\ k - 1 \in 1 .. Len(clients) /\ i - 1 \in 1 .. Len(clients) /\ k - 1 # i - 1
          /\ (k - 1) + 1 = k /\ (i - 1) + 1 = i
      BY <2>1, <3>a
    <3>2. /\ k - 1 \in 1 .. Len(clients) /\ i - 1 \in 1 .. Len(clients) /\ k - 1 # i - 1
          /\ pollFds[k].fd = clients[k - 1] /\ fd = clients[i - 1]
      BY <3>1, <3>b, Zenon DEF FdsMatch, fd
    <3>3. pollFds[k].fd # fd
      BY <3>1, <3>2 DEF ClientsAreOpen
    <3>4. pollFds[k].fd \in Fd /\ pollFds[k].fd # ListenFd
      BY <1>0, <3>2, PollAssumption DEF LoopType
    <3> HIDE DEF fd
    <3> QED BY <1>0, <2>1, <2>2, <2>4, <3>3, <3>4 DEF Readable, LoopType
  <2> HIDE DEF fd
  <2> QED BY <2>1, <2>2, <2>3, <2>4, KernelInv
<1>8. CASE LinesEnd
  <2>1. /\ Still /\ UNCHANGED <<peer, input, backlog, signal>>
        /\ at = "lines" /\ at' = "walk" /\ i' = i + 1
    BY <1>8 DEF LinesEnd, kernel
  <2>2. LoopType'
    BY <1>0, <2>1 DEF LoopType
  <2> QED BY <2>1, <2>2, KernelInv DEF Readable
<1>9. CASE HandlerDrops
  BY <1>9, DisconnectInv DEF HandlerDrops, LoopInv, LinesHaveClient
<1>10. CASE ReceiveEnd
  BY <1>10, DisconnectInv, ReadingClient DEF ReceiveEnd
<1>11. CASE ReceiveError
  <2> DEFINE fd == pollFds[i].fd
  <2>1. fd \in Fd /\ at = "walk"
    BY <1>11, ReadingClient DEF ReceiveError
  <2>2. /\ Still /\ UNCHANGED <<at, input, backlog, signal>> /\ i' = i + 1
        /\ peer' = [peer EXCEPT ![fd] = IF @ = "reset" THEN "closed" ELSE @]
    BY <1>11 DEF ReceiveError
  <2> HIDE DEF fd
  <2>3. /\ peer' \in [Fd -> {"none", "open", "closed", "reset", "leaked"}]
        /\ \A f \in Fd : /\ peer'[f] \in Ownerless <=> peer[f] \in Ownerless
                         /\ peer[f] \in {"closed", "reset"} => peer'[f] \in {"closed", "reset"}
    BY <1>0, <2>1, <2>2 DEF LoopType, Ownerless
  <2>4. LoopType'
    BY <1>0, <2>2, <2>3 DEF LoopType
  <2>5. ASSUME NEW k \in 1 .. Len(pollFds), Readable(pollFds[k].fd)
        PROVE  Readable(pollFds[k].fd)'
    <3>0. pollFds[k] \in Entry
      BY <1>0 DEF LoopType
    <3>1. pollFds[k].fd \in Fd \cup {ListenFd}
      BY <3>0 DEF Entry
    <3> DEFINE f == pollFds[k].fd
    <3>2. f = f' /\ backlog' = backlog /\ Readable(f)
      BY <2>2, <2>5
    <3>3. CASE f = ListenFd
      BY <3>2, <3>3 DEF Readable
    <3>4. CASE f # ListenFd
      <4>1. f \in Fd /\ (input[f] \/ peer[f] \in {"closed", "reset"})
        BY <3>1, <3>2, <3>4 DEF Readable
      <4>2. input'[f] \/ peer'[f] \in {"closed", "reset"}
        BY <2>2, <2>3, <4>1
      <4> QED BY <3>2, <3>4, <4>2 DEF Readable
    <3> QED BY <3>3, <3>4
  <2>6. \A k \in i' + 0 .. Len(pollFds) : k \in 1 .. Len(pollFds)
    BY <1>0, <2>2 DEF LoopType
  <2> QED BY <2>1, <2>2, <2>3, <2>4, <2>5, <2>6, KernelInv
<1>12. CASE Teardown
  BY <1>12, TeardownInv
<1>13. CASE Connect
  <2>1. Still /\ UNCHANGED <<at, i, peer, input, signal>> /\ backlog' = backlog + 1
        /\ backlog < MaxBacklog
    BY <1>13 DEF Connect, server, walk
  <2>2. LoopType'
    BY <1>0, <2>1, PollAssumption DEF LoopType
  <2>3. \A k : Readable(pollFds[k].fd) => Readable(pollFds[k].fd)'
    BY <1>0, <2>1 DEF Readable, LoopType
  <2> QED BY <2>1, <2>2, <2>3, KernelInv
<1>14. CASE \E fd \in Fd : Sends(fd) \/ \E how \in {"closed", "reset"} : Goes(fd, how)
  <2>1. PICK fd \in Fd : Sends(fd) \/ \E how \in {"closed", "reset"} : Goes(fd, how)
    BY <1>14
  <2>2. Still /\ UNCHANGED <<at, i, signal, backlog>> /\ peer[fd] = "open"
    BY <2>1 DEF Sends, Goes, server, walk
  <2>3. /\ peer' \in [Fd -> {"none", "open", "closed", "reset", "leaked"}] /\ input' \in [Fd -> BOOLEAN]
        /\ \A f \in Fd : f # fd => peer'[f] = peer[f] /\ input'[f] = input[f]
        /\ peer'[fd] \notin Ownerless /\ (input'[fd] \/ peer'[fd] \in {"closed", "reset"})
    BY <1>0, <2>1 DEF Sends, Goes, LoopType, Ownerless
  <2>4. LoopType'
    BY <1>0, <2>2, <2>3 DEF LoopType
  <2>5. ASSUME NEW k \in 1 .. Len(pollFds), Readable(pollFds[k].fd)
        PROVE  Readable(pollFds[k].fd)'
    <3>0. pollFds[k] \in Entry
      BY <1>0 DEF LoopType
    <3>1. pollFds[k].fd \in Fd \cup {ListenFd}
      BY <3>0 DEF Entry
    <3> DEFINE f == pollFds[k].fd
    <3>2. f = f' /\ backlog' = backlog /\ Readable(f)
      BY <2>2, <2>5
    <3>3. CASE f = ListenFd
      BY <3>2, <3>3 DEF Readable
    <3>4. CASE f # ListenFd
      <4>1. f \in Fd /\ (input[f] \/ peer[f] \in {"closed", "reset"})
        BY <3>1, <3>2, <3>4 DEF Readable
      <4>2. input'[f] \/ peer'[f] \in {"closed", "reset"}
        BY <2>2, <2>3, <4>1
      <4> QED BY <3>2, <3>4, <4>2 DEF Readable
    <3> QED BY <3>3, <3>4
  <2>6. \A k \in i + (IF at = "lines" THEN 1 ELSE 0) .. Len(pollFds) : k \in 1 .. Len(pollFds)
    BY <1>0 DEF LoopType
  <2>7. \A f \in Fd : peer'[f] \in Ownerless <=> peer[f] \in Ownerless
    BY <2>2, <2>3 DEF Ownerless
  <2> QED BY <2>2, <2>4, <2>5, <2>6, <2>7, KernelInv
<1>15. CASE UNCHANGED vars
  <2>1. Still /\ UNCHANGED <<at, i, peer, input, backlog, signal>>
    BY <1>15 DEF vars, server, walk, kernel
  <2>2. LoopType'
    BY <1>0, <2>1 DEF LoopType
  <2> QED BY <2>1, <2>2, KernelInv DEF Readable
<1> QED BY <1>1, <1>2, <1>3, <1>4, <1>5, <1>6, <1>6a, <1>7, <1>8, <1>9, <1>10, <1>11, <1>12,
           <1>13, <1>14, <1>15 DEF Next, Run, Peers

-----------------------------------------------------------------------------
\* Every reachable state of the loop has matching vectors and current revents
\* (run, acceptNewClient, disconnectClient, init).
THEOREM LoopInvariant == Spec => []LoopInv
<1> QED BY InitInv, StepInv, PTL DEF Spec

\* The index never runs further ahead than the entries there can be: the listening
\* socket's and one for each client.
IndexIsBounded == i <= Cardinality(Fd) + 2

\* There is one entry for each descriptor at most, and the one of the server.
LEMMA FewEntries ==
  ASSUME LoopInv, at \in {"walk", "lines"}
  PROVE  Len(pollFds) <= Cardinality(Fd) + 1
<1>1. FdsMatch /\ LoopType /\ Len(clients) \in Nat /\ ClientsAreOpen
  BY WalkMatches DEF LoopInv
<1>2. clients \in [1 .. Len(clients) -> Fd]
  BY <1>1 DEF LoopType
<1>3. clients \in Injection(1 .. Len(clients), Fd)
  BY <1>1, <1>2 DEF Injection, IsInjective, ClientsAreOpen
<1>4. Cardinality(1 .. Len(clients)) <= Cardinality(Fd)
  BY <1>3, FS_Injection, PollAssumption
<1>5. Cardinality(1 .. Len(clients)) = Len(clients)
  <2>1. Cardinality(1 .. Len(clients))
          = IF 1 > Len(clients) THEN 0 ELSE Len(clients) - 1 + 1
    BY <1>1, FS_Interval
  <2> QED BY <1>1, <2>1
<1> QED BY <1>1, <1>4, <1>5, FS_CardinalityType, PollAssumption DEF FdsMatch

\* Every step keeps the index within the entries.
LEMMA IndexStep == LoopInv /\ IndexIsBounded /\ [Next]_vars => IndexIsBounded'
<1> SUFFICES ASSUME LoopInv, IndexIsBounded, [Next]_vars PROVE IndexIsBounded'
  OBVIOUS
<1>0. Cardinality(Fd) \in Nat /\ i \in Nat
  BY FS_CardinalityType, PollAssumption DEF LoopInv, LoopType
<1>1. CASE at \in {"walk", "lines"} /\ i <= Len(pollFds) /\ i' = i + 1
  BY <1>0, <1>1, FewEntries DEF LoopInv, LoopType, IndexIsBounded
<1>2. CASE i' \in {i, 1}
  BY <1>0, <1>2 DEF IndexIsBounded
<1>3. CASE Skip \/ AcceptNewClient \/ FcntlFails \/ AcceptFails \/ ReceiveEnd \/ ReceiveError
  BY <1>1, <1>3 DEF Skip, AcceptNewClient, FcntlFails, AcceptFails, ReceiveEnd, ReceiveError, Reading,
     Visiting, Disconnect
<1>4. CASE LinesEnd \/ HandlerDrops
  <2>1. i <= Len(pollFds)
    BY <1>4 DEF LinesEnd, HandlerDrops, LoopInv, LinesHaveClient
  <2> QED BY <1>1, <1>4, <2>1 DEF LinesEnd, HandlerDrops, Disconnect
<1>5. CASE ParseArguments \/ OpenSocket \/ InitFails \/ Bind \/ Listen \/ FindInterface
           \/ Top \/ Wait \/ PollFails \/ PollReturns \/ Receive \/ WalkEnds \/ Teardown
  BY <1>2, <1>5 DEF ParseArguments, OpenSocket, InitFails, Bind, Listen, FindInterface,
     Top, Wait, PollFails, PollReturns, Receive, WalkEnds, Teardown, walk
<1>6. CASE Signal \/ Peers \/ UNCHANGED vars
  BY <1>2, <1>6 DEF Signal, Peers, Connect, Sends, Goes, vars, server, walk
<1> QED BY <1>3, <1>4, <1>5, <1>6 DEF Next, Run

\* For any finite set of descriptors and any backlog, the state keeps its types,
\* and the index of the walk stays within one of the end (run).
THEOREM TypeSafe == Spec => []TypeOK
<1>1. Init => IndexIsBounded
  BY FS_CardinalityType, PollAssumption DEF Init, IndexIsBounded
<1>2. LoopInv /\ IndexIsBounded => TypeOK
  BY FS_CardinalityType, PollAssumption DEF LoopInv, LoopType, IndexIsBounded, TypeOK
<1> QED BY <1>1, <1>2, LoopInvariant, IndexStep, PTL DEF Spec

\* For any number of descriptors, _pollFds is the listening socket and the sockets
\* of _clients in their order, and these are the open ones that were not leaked,
\* whatever is accepted and dropped during a walk (acceptNewClient,
\* disconnectClient).
THEOREM VectorsMatch == Spec => []PollFdsMatchClients
<1>1. LoopInv => PollFdsMatchClients
  <2> SUFFICES ASSUME LoopInv PROVE PollFdsMatchClients
    OBVIOUS
  <2>1. LoopType /\ ClientsAreOpen /\ DOMAIN clients = 1 .. Len(clients)
    BY DEF LoopInv, LoopType
  <2>2. ASSUME Looping
        PROVE  [k \in DOMAIN pollFds |-> pollFds[k].fd] = <<ListenFd>> \o clients
    <3> DEFINE fds == [k \in DOMAIN pollFds |-> pollFds[k].fd]
               all == <<ListenFd>> \o clients
    <3>1. FdsMatch /\ DOMAIN pollFds = 1 .. Len(pollFds) /\ Len(pollFds) \in Nat
      BY <2>2 DEF LoopInv, LoopType
    <3>2. <<ListenFd>> \in Seq(Fd \cup {ListenFd}) /\ clients \in Seq(Fd \cup {ListenFd})
      BY <2>1 DEF LoopType
    <3>3. /\ all \in Seq(Fd \cup {ListenFd}) /\ Len(all) = 1 + Len(clients)
          /\ \A k \in 1 .. 1 + Len(clients) :
               all[k] = IF k <= 1 THEN ListenFd ELSE clients[k - 1]
      BY <3>2, ConcatProperties
    <3>4. fds \in [DOMAIN pollFds -> Fd \cup {ListenFd}]
      <4>1. \A k \in DOMAIN pollFds : pollFds[k] \in Entry
        BY <2>1, <3>1 DEF LoopType
      <4> QED BY <4>1 DEF Entry
    <3>5. fds \in Seq(Fd \cup {ListenFd}) /\ Len(fds) = Len(pollFds)
      BY <2>1, <3>4, Overwriting DEF LoopType
    <3>6. \A k \in 1 .. Len(fds) : fds[k] = all[k]
      <4> SUFFICES ASSUME NEW k \in 1 .. Len(fds) PROVE pollFds[k].fd = all[k]
        BY <3>1, <3>5
      <4>1. CASE k = 1
        BY <3>1, <3>3, <4>1 DEF FdsMatch
      <4>2. CASE k # 1
        <5>1. k - 1 \in 1 .. Len(clients) /\ k = (k - 1) + 1
          BY <3>1, <3>5, <4>2 DEF FdsMatch
        <5>2. pollFds[k].fd = clients[k - 1]
          BY <3>1, <5>1 DEF FdsMatch
        <5> QED BY <3>3, <5>1, <5>2
      <4> QED BY <4>1, <4>2
    <3> HIDE DEF fds, all
    <3>7. fds = all
      BY <3>1, <3>3, <3>5, <3>6, SeqEqual DEF FdsMatch
    <3> QED BY <3>7 DEF fds, all
  <2>3. IsInjective(clients)
    BY <2>1 DEF IsInjective, ClientsAreOpen
  <2>4. ToSet(clients) = {fd \in Fd : peer[fd] \notin {"none", "leaked"}}
    BY <2>1 DEF ToSet, ClientsAreOpen, LoopType, Ownerless
  <2> QED BY <2>2, <2>3, <2>4 DEF PollFdsMatchClients
<1> QED BY <1>1, LoopInvariant, PTL

\* For any number of descriptors, the walk never reads a socket that has nothing
\* and never accepts when nobody waits (run, receiveNewData).
THEOREM ReventsSafe == Spec => []ReventsAreCurrent
<1>1. LoopInv => ReventsAreCurrent
  BY DEF LoopInv
<1> QED BY <1>1, LoopInvariant, PTL

\* For any number of descriptors, and wherever start-up or the loop ends, the
\* listening socket was closed once and no descriptor is left open but those whose
\* fcntl failed (init, acceptNewClient, ~Server).
THEOREM SocketsSafe == Spec => []OnlyLeakedStayOpen
<1>1. LoopInv => OnlyLeakedStayOpen
  <2> SUFFICES ASSUME LoopInv, at = "exited" PROVE OnlyLeakedStayOpen
    BY DEF OnlyLeakedStayOpen
  <2>1. Len(clients) = 0
    BY DEF LoopInv, Lifetime, Looping
  <2> QED BY <2>1 DEF LoopInv, Lifetime, ClientsAreOpen, OnlyLeakedStayOpen, Ownerless
<1> QED BY <1>1, LoopInvariant, PTL
=============================================================================
