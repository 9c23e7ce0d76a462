--------------------------- MODULE DeliveryProofs ---------------------------
(***************************************************************************)
(* Proofs about Delivery, for any finite set of clients, any room in their *)
(* sockets and any number of messages.                                     *)
(***************************************************************************)
EXTENDS Delivery, SequenceFacts, FiniteSetTheorems

Call == [to: Client, message: Nat]

SendingType ==
  /\ members \in Seq(Client) /\ todo \in Seq(Call) /\ sent \in Nat
  /\ peer \in [Client -> PeerState]

-----------------------------------------------------------------------------
\* The calls that send one message are a sequence of calls.
LEMMA CallsType ==
  ASSUME NEW to \in Seq(Client), NEW m \in Nat
  PROVE  Calls(to, m) \in Seq(Call)
<1>1. DOMAIN to = 1 .. Len(to) /\ \A k \in 1 .. Len(to) : to[k] \in Client
  OBVIOUS
<1>2. Calls(to, m) \in [DOMAIN to -> Call]
  BY <1>1 DEF Calls, Call
<1> QED BY <1>2, Overwriting

\* SetToSeq lists the clients.
LEMMA MembersType == SetToSeq(Client) \in Seq(Client)
<1> DEFINE n == Cardinality(Client)
<1>1. n \in Nat /\ ExistsBijection(1 .. n, Client)
  BY FS_CardinalityType, DeliveryAssumption
<1>2. PICK f : f \in Bijection(1 .. n, Client)
  BY <1>1 DEF ExistsBijection
<1>3. \E g \in [1 .. n -> Client] : IsInjective(g)
  BY <1>2 DEF Bijection, Injection
<1>4. SetToSeq(Client) \in [1 .. n -> Client]
  BY <1>3 DEF SetToSeq
<1> QED BY <1>1, <1>4, SeqDef

\* At the start the members are the clients and nobody has gone.
LEMMA SendingInit == Init => SendingType
BY MembersType DEF Init, SendingType, PeerState

\* A handler's calls, before the first of them is made.
LEMMA HandlerType ==
  ASSUME NEW calls \in Seq(Call), Sends(calls),
         members' \in Seq(Client), sent' \in Nat, peer' \in [Client -> PeerState]
  PROVE  SendingType'
BY DEF SendingType, Sends

\* Every step keeps the types.
LEMMA SendingStep == SendingType /\ [Next]_vars => SendingType'
<1> SUFFICES ASSUME SendingType, [Next]_vars PROVE SendingType'
  OBVIOUS
<1>1. CASE Broadcast
  <2>1. sent + 1 \in Nat /\ Calls(members, sent + 1) \in Seq(Call)
    BY CallsType DEF SendingType
  <2> QED BY <1>1, <2>1, HandlerType DEF Broadcast, SendingType
<1>2. ASSUME NEW c \in Client, SendMessageToChannel(c) PROVE SendingType'
  <2>1. sent + 1 \in Nat /\ Calls(RemoveFirst(members, c), sent + 1) \in Seq(Call)
    BY CallsType, ErasingType DEF SendingType
  <2> QED BY <1>2, <2>1, HandlerType DEF SendMessageToChannel, SendingType
<1>3. ASSUME NEW c \in Client, Reply(c) PROVE SendingType'
  <2>1. sent + 1 \in Nat /\ sent + 2 \in Nat /\ <<c>> \in Seq(Client)
    BY DEF SendingType
  <2>2. Calls(<<c>>, sent + 1) \o Calls(<<c>>, sent + 2) \in Seq(Call)
    <3>1. Calls(<<c>>, sent + 1) \in Seq(Call) /\ Calls(<<c>>, sent + 2) \in Seq(Call)
      BY <2>1, CallsType
    <3> QED BY <3>1, ConcatProperties
  <2> QED BY <1>3, <2>1, <2>2, HandlerType DEF Reply, SendingType
<1>4. ASSUME NEW c \in Client, Disconnect(c) PROVE SendingType'
  <2>1. members' \in Seq(Client) /\ sent' = sent + 1 /\ sent' \in Nat
    BY <1>4, ErasingType DEF Disconnect, SendingType
  <2>2. Calls(members', sent + 1) \in Seq(Call)
    BY <2>1, CallsType
  <2>3. peer' \in [Client -> PeerState]
    BY <1>4 DEF Disconnect, SendingType, PeerState
  <2> QED BY <1>4, <2>1, <2>2, <2>3, HandlerType DEF Disconnect
<1>5. ASSUME NEW c \in Client, ReceiveError(c) PROVE SendingType'
  BY <1>5 DEF ReceiveError, server, SendingType, PeerState
<1>6. CASE Send \/ SendInVain \/ SendFails
  <2>1. Calling /\ UNCHANGED <<members, sent>> /\ todo' = Tail(todo)
    BY <1>6 DEF Send, SendInVain, SendFails
  <2>2. Receiver \in Client /\ Tail(todo) \in Seq(Call)
    <3>1. Head(todo) \in Call /\ Tail(todo) \in Seq(Call)
      BY <2>1 DEF Calling, SendingType
    <3> QED BY <3>1 DEF Receiver, Call
  <2>3. peer' \in {peer, [peer EXCEPT ![Receiver] = "shut"]}
    BY <1>6 DEF Send, SendInVain, SendFails
  <2> QED BY <2>1, <2>2, <2>3 DEF SendingType, PeerState
<1>7. CASE SendKills \/ SendsEnd
  BY <1>7 DEF SendKills, SendsEnd, SendingType
<1>8. ASSUME NEW c \in Client, Reads(c) PROVE SendingType'
  BY <1>8 DEF Reads, SendingType, server
<1>9. ASSUME NEW c \in Client, NEW how \in {"closed", "reset"}, Goes(c, how)
      PROVE  SendingType'
  BY <1>9 DEF Goes, SendingType, PeerState, server
<1>10. CASE UNCHANGED vars
  BY <1>10 DEF vars, server, SendingType
<1> QED BY <1>1, <1>2, <1>3, <1>4, <1>5, <1>6, <1>7, <1>8, <1>9, <1>10
        DEF Next, Handler, SendStep, Peers

-----------------------------------------------------------------------------
(* The stream of a client. *)

Piece == Nat \X {"text", "LF"}   \* a byte of a message

\* What is kept of messages.
KeptOf(ms, kept) == [k \in DOMAIN ms |-> SubSeq(Bytes(ms[k]), 1, kept[k])]

\* The messages due are those for which send was called and those of the calls to
\* come; of the former the stream has a beginning of each, all of it when there
\* was always room.
IsGot(c, got, kept) ==
  /\ due[c] = got \o MessagesTo(c, todo)
  /\ Stream(c) = FlattenSeq(KeptOf(got, kept))
  /\ roomy[c] => \A k \in DOMAIN got : kept[k] = 2

StreamIs(c) ==
  \E got \in Seq(Nat) : \E kept \in [DOMAIN got -> 0 .. 2] : IsGot(c, got, kept)

StreamType ==
  /\ read \in [Client -> Seq(Piece)] /\ wire \in [Client -> Seq(Piece)]
  /\ DOMAIN due = Client /\ roomy \in [Client -> BOOLEAN]
  /\ \A c \in Client : Len(wire[c]) <= Capacity
  /\ at = "poll" => todo = <<>>

StreamInv ==
  SendingType /\ StreamType /\ \A c \in Client : peer[c] = "open" => StreamIs(c)

\* A message is two pieces, and a part of it is pieces.
LEMMA BytesOf ==
  ASSUME NEW m \in Nat
  PROVE  /\ Bytes(m) \in Seq(Piece) /\ Len(Bytes(m)) = 2
         /\ \A n \in 0 .. 2 : /\ SubSeq(Bytes(m), 1, n) \in Seq(Piece)
                               /\ Len(SubSeq(Bytes(m), 1, n)) = n
<1>1. Bytes(m) \in Seq(Piece) /\ Len(Bytes(m)) = 2
  BY DEF Bytes, Piece
<1>2. ASSUME NEW n \in 0 .. 2
      PROVE  SubSeq(Bytes(m), 1, n) \in Seq(Piece) /\ Len(SubSeq(Bytes(m), 1, n)) = n
  <2>1. ASSUME NEW k \in 1 .. n PROVE Bytes(m)[k] \in Piece
    <3>1. k \in 1 .. Len(Bytes(m))
      BY <1>1
    <3> QED BY <1>1, <3>1, ElementOfSeq
  <2>2. n \in Int /\ 1 \in Int
    OBVIOUS
  <2>3. /\ SubSeq(Bytes(m), 1, n) \in Seq(Piece)
        /\ Len(SubSeq(Bytes(m), 1, n)) = IF 1 <= n THEN n - 1 + 1 ELSE 0
    BY <2>1, <2>2, SubSeqProperties
  <2> QED BY <2>3
<1> QED BY <1>1, <1>2

\* What is kept of messages is a sequence of sequences of pieces, one for each
\* message.
LEMMA KeptType ==
  ASSUME NEW ms \in Seq(Nat), NEW kept \in [DOMAIN ms -> 0 .. 2]
  PROVE  KeptOf(ms, kept) \in Seq(Seq(Piece)) /\ Len(KeptOf(ms, kept)) = Len(ms)
<1>1. \A k \in DOMAIN ms : ms[k] \in Nat /\ kept[k] \in 0 .. 2
  BY ElementOfSeq
<1>2. KeptOf(ms, kept) \in [DOMAIN ms -> Seq(Piece)]
  BY <1>1, BytesOf DEF KeptOf
<1> QED BY <1>2, Overwriting

\* One message more, of which n bytes are kept.
LEMMA KeptAppend ==
  ASSUME NEW ms \in Seq(Nat), NEW kept \in [DOMAIN ms -> 0 .. 2], NEW m \in Nat,
         NEW n \in 0 .. 2
  PROVE  FlattenSeq(KeptOf(Append(ms, m), Append(kept, n)))
           = FlattenSeq(KeptOf(ms, kept)) \o SubSeq(Bytes(m), 1, n)
<1> DEFINE piece == SubSeq(Bytes(m), 1, n)
<1>0. piece \in Seq(Piece)
  BY BytesOf
<1>1. kept \in Seq(0 .. 2) /\ Len(kept) = Len(ms)
  BY Overwriting
<1>2. /\ Append(ms, m) \in Seq(Nat) /\ Append(kept, n) \in Seq(0 .. 2)
      /\ Len(Append(ms, m)) = Len(ms) + 1 /\ Len(Append(kept, n)) = Len(ms) + 1
      /\ \A k \in 1 .. Len(ms) : Append(ms, m)[k] = ms[k] /\ Append(kept, n)[k] = kept[k]
      /\ Append(ms, m)[Len(ms) + 1] = m /\ Append(kept, n)[Len(ms) + 1] = n
  BY <1>1, AppendProperties
<1>3. DOMAIN Append(ms, m) = 1 .. Len(ms) + 1 /\ DOMAIN Append(kept, n) = 1 .. Len(ms) + 1
  BY <1>2
<1>4. Append(kept, n) \in [DOMAIN Append(ms, m) -> 0 .. 2]
  <2>1. Append(kept, n) \in [1 .. Len(Append(kept, n)) -> 0 .. 2]
    BY <1>2, LenProperties
  <2> QED BY <1>2, <1>3, <2>1, Zenon
<1>5. KeptOf(Append(ms, m), Append(kept, n)) = Append(KeptOf(ms, kept), piece)
  <2> DEFINE l == KeptOf(Append(ms, m), Append(kept, n))
             r == Append(KeptOf(ms, kept), piece)
  <2>1. l \in Seq(Seq(Piece)) /\ Len(l) = Len(ms) + 1
    BY <1>2, <1>4, KeptType
  <2>2. /\ r \in Seq(Seq(Piece)) /\ Len(r) = Len(ms) + 1
        /\ r[Len(ms) + 1] = piece
        /\ \A k \in 1 .. Len(ms) : r[k] = KeptOf(ms, kept)[k]
    <3>1. KeptOf(ms, kept) \in Seq(Seq(Piece)) /\ Len(KeptOf(ms, kept)) = Len(ms)
      BY KeptType
    <3> HIDE DEF piece
    <3> QED BY <1>0, <3>1, AppendProperties
  <2>3. ASSUME NEW k \in 1 .. Len(ms) + 1 PROVE l[k] = r[k]
    <3>1. l[k] = SubSeq(Bytes(Append(ms, m)[k]), 1, Append(kept, n)[k])
      BY <1>3 DEF KeptOf
    <3> HIDE DEF l, r
    <3>2. CASE k = Len(ms) + 1
      <4>1. Append(ms, m)[k] = m /\ Append(kept, n)[k] = n
        BY <1>2, <3>2
      <4> QED BY <2>2, <3>1, <3>2, <4>1
    <3>3. CASE k # Len(ms) + 1
      <4>1. k \in 1 .. Len(ms) /\ Len(ms) \in Nat
        BY <3>3
      <4>2. Append(ms, m)[k] = ms[k] /\ Append(kept, n)[k] = kept[k]
        BY <1>2, <4>1
      <4>3. k \in DOMAIN ms /\ KeptOf(ms, kept)[k] = SubSeq(Bytes(ms[k]), 1, kept[k])
        <5>1. k \in DOMAIN ms
          BY <4>1, LenProperties
        <5> QED BY <5>1 DEF KeptOf
      <4> QED BY <2>2, <3>1, <4>1, <4>2, <4>3
    <3> QED BY <3>2, <3>3
  <2> HIDE DEF l, r
  <2> QED BY <2>1, <2>2, <2>3, SeqEqual DEF l, r
<1> HIDE DEF piece
<1>6. KeptOf(ms, kept) \in Seq(Seq(Piece))
  BY KeptType
<1> QED BY <1>0, <1>5, <1>6, FlatteningAppend DEF piece

\* What the calls hand to a client, one after the other.
Handed(c, call) == IF call.to = c THEN <<call.message>> ELSE <<>>

\* The messages that send was called with for c are a sequence of numbers, put
\* together call by call.
LEMMA HandedType ==
  ASSUME NEW c, NEW calls \in Seq(Call)
  PROVE  /\ [k \in DOMAIN calls |-> Handed(c, calls[k])] \in Seq(Seq(Nat))
         /\ Len([k \in DOMAIN calls |-> Handed(c, calls[k])]) = Len(calls)
         /\ MessagesTo(c, calls) = FlattenSeq([k \in DOMAIN calls |-> Handed(c, calls[k])])
         /\ MessagesTo(c, calls) \in Seq(Nat)
<1> DEFINE p == [k \in DOMAIN calls |-> Handed(c, calls[k])]
<1>1. ASSUME NEW k \in DOMAIN calls PROVE Handed(c, calls[k]) \in Seq(Nat)
  <2>1. calls[k].message \in Nat
    <3>1. calls[k] \in Call
      OBVIOUS
    <3> QED BY <3>1 DEF Call
  <2> QED BY <2>1 DEF Handed
<1>2. p \in [DOMAIN calls -> Seq(Nat)]
  BY <1>1
<1>3. MessagesTo(c, calls) = FlattenSeq(p)
  BY DEF MessagesTo, Handed
<1> HIDE DEF p
<1>4. p \in Seq(Seq(Nat)) /\ Len(p) = Len(calls)
  BY <1>2, Overwriting
<1>5. FlattenSeq(p) \in Seq(Nat)
  <2>1. <<>> \in Seq(Nat)
    OBVIOUS
  <2> QED BY <1>4, <2>1, FlatteningAppend
<1> QED BY <1>3, <1>4, <1>5 DEF p

\* No call, no message.
LEMMA NothingHanded ==
  ASSUME NEW c
  PROVE  MessagesTo(c, <<>>) = <<>>
BY DEF MessagesTo, FlattenSeq

\* The messages of the first call come before those of the others.
LEMMA FirstHanded ==
  ASSUME NEW c, NEW calls \in Seq(Call), calls # <<>>
  PROVE  MessagesTo(c, calls) = Handed(c, Head(calls)) \o MessagesTo(c, Tail(calls))
<1> DEFINE p(u) == [k \in DOMAIN u |-> Handed(c, u[k])]
           h == Handed(c, Head(calls))
<1>1. /\ Head(calls) \in Call /\ Tail(calls) \in Seq(Call) /\ Len(Tail(calls)) = Len(calls) - 1
      /\ Len(calls) \in Nat \ {0} /\ Head(calls) = calls[1]
      /\ \A k \in 1 .. Len(calls) - 1 : Tail(calls)[k] = calls[k + 1]
  BY HeadTailProperties
<1>2. h \in Seq(Nat) /\ <<h>> \in Seq(Seq(Nat))
  <2>1. Head(calls).message \in Nat
    BY <1>1 DEF Call
  <2>2. h \in Seq(Nat)
    BY <2>1 DEF Handed
  <2> HIDE DEF h
  <2> QED BY <2>2
<1>3. /\ p(calls) \in Seq(Seq(Nat)) /\ Len(p(calls)) = Len(calls)
      /\ p(Tail(calls)) \in Seq(Seq(Nat)) /\ Len(p(Tail(calls))) = Len(calls) - 1
      /\ MessagesTo(c, calls) = FlattenSeq(p(calls))
      /\ MessagesTo(c, Tail(calls)) = FlattenSeq(p(Tail(calls)))
  BY <1>1, HandedType
<1>4. p(calls) = <<h>> \o p(Tail(calls))
  <2> DEFINE l == p(calls)
             q == p(Tail(calls))
             r == <<h>> \o q
  <2>1. \A k \in 1 .. Len(calls) : l[k] = Handed(c, calls[k])
    OBVIOUS
  <2>2. \A k \in 1 .. Len(calls) - 1 : q[k] = Handed(c, calls[k + 1])
    BY <1>1
  <2>3. l \in Seq(Seq(Nat)) /\ Len(l) = Len(calls) /\ q \in Seq(Seq(Nat)) /\ Len(q) = Len(calls) - 1
    BY <1>3
  <2>4. h = Handed(c, calls[1])
    BY <1>1
  <2> HIDE DEF h, l, q
  <2>5. /\ r \in Seq(Seq(Nat)) /\ Len(r) = Len(calls)
        /\ \A k \in 1 .. Len(calls) : r[k] = IF k <= 1 THEN <<h>>[k] ELSE q[k - 1]
    <3>1. Len(<<h>>) = 1 /\ Len(<<h>>) + Len(q) = Len(calls)
      BY <1>1, <2>3
    <3> QED BY <1>2, <2>3, <3>1, ConcatProperties
  <2> HIDE DEF r
  <2>6. ASSUME NEW k \in 1 .. Len(calls) PROVE l[k] = r[k]
    <3>1. CASE k = 1
      BY <2>1, <2>4, <2>5, <3>1
    <3>2. CASE k # 1
      <4>1. k - 1 \in 1 .. Len(calls) - 1 /\ (k - 1) + 1 = k /\ ~(k <= 1)
        BY <1>1, <3>2
      <4>2. r[k] = q[k - 1] /\ q[k - 1] = Handed(c, calls[(k - 1) + 1])
        BY <2>2, <2>5, <4>1
      <4> QED BY <2>1, <4>1, <4>2
    <3> QED BY <3>1, <3>2
  <2>7. l = r
    BY <2>3, <2>5, <2>6, SeqEqual
  <2> QED BY <2>7 DEF l, r, q
<1> HIDE DEF p, h
<1>5. FlattenSeq(<<h>> \o p(Tail(calls))) = FlattenSeq(<<h>>) \o FlattenSeq(p(Tail(calls)))
  BY <1>2, <1>3, FlatteningConcat
<1>6. FlattenSeq(<<h>>) = h
  BY <1>2, FlatteningOne
<1> QED BY <1>3, <1>4, <1>5, <1>6 DEF h
\* Nothing happens to what a client was meant to get, nor to its stream.
LEMMA StreamUntouched ==
  ASSUME NEW c \in Client, StreamIs(c), UNCHANGED <<read, wire, todo>>,
         due'[c] = due[c], roomy'[c] = roomy[c]
  PROVE  StreamIs(c)'
BY DEF StreamIs, IsGot, Stream

\* At the start every stream is empty.
LEMMA StreamInit == Init => StreamInv
<1> SUFFICES ASSUME Init PROVE StreamInv
  OBVIOUS
<1>1. SendingType
  BY SendingInit
<1>2. StreamType
  BY DeliveryAssumption DEF Init, StreamType
<1>3. ASSUME NEW c \in Client PROVE StreamIs(c)
  <2> DEFINE none == [k \in DOMAIN <<>> |-> 0]
  <2>1. <<>> \in Seq(Nat) /\ none \in [DOMAIN <<>> -> 0 .. 2] /\ \A k \in DOMAIN <<>> : none[k] = 2
    OBVIOUS
  <2>2. due[c] = <<>> /\ Stream(c) = <<>> /\ todo = <<>>
    BY <1>3 DEF Init, Stream
  <2>3. <<>> \o <<>> = <<>>
    OBVIOUS
  <2>4. FlattenSeq(KeptOf(<<>>, none)) = <<>>
    BY DEF KeptOf, FlattenSeq
  <2>5. MessagesTo(c, todo) = <<>>
    BY <2>2, NothingHanded
  <2> HIDE DEF none
  <2>6. IsGot(c, <<>>, none)
    BY <2>1, <2>2, <2>3, <2>4, <2>5, Zenon DEF IsGot
  <2> QED BY <2>1, <2>6, Zenon DEF StreamIs
<1> QED BY <1>1, <1>2, <1>3 DEF StreamInv

\* A handler's calls, before the first of them is made.
LEMMA HandlerStream ==
  ASSUME StreamInv, at = "poll", NEW calls \in Seq(Call), Sends(calls),
         UNCHANGED <<wire, read, roomy>>,
         \A c \in Client : peer'[c] = "open" => peer[c] = "open"
  PROVE  StreamType' /\ \A c \in Client : peer'[c] = "open" => StreamIs(c)'
<1>1. todo = <<>> /\ todo' = calls /\ at' = "sending"
  BY DEF StreamInv, StreamType, Sends
<1>2. StreamType'
  BY <1>1 DEF StreamInv, StreamType, Sends
<1>3. ASSUME NEW c \in Client, peer'[c] = "open" PROVE StreamIs(c)'
  <2>0. PICK got \in Seq(Nat) : \E kept \in [DOMAIN got -> 0 .. 2] : IsGot(c, got, kept)
    BY <1>3 DEF StreamInv, StreamIs
  <2>1. PICK kept \in [DOMAIN got -> 0 .. 2] : IsGot(c, got, kept)
    BY <2>0
  <2>2. due[c] = got
    <3>1. MessagesTo(c, todo) = <<>>
      BY <1>1, NothingHanded
    <3> QED BY <2>1, <3>1, ConcatEmptySeq DEF IsGot
  <2>3. due'[c] = got \o MessagesTo(c, todo')
    BY <1>1, <2>2 DEF Sends
  <2>4. Stream(c)' = FlattenSeq(KeptOf(got, kept)) /\ roomy'[c] = roomy[c]
    BY <2>1 DEF Stream, IsGot
  <2>5. IsGot(c, got, kept)'
    BY <2>1, <2>3, <2>4 DEF IsGot, MessagesTo
  <2> QED BY <2>5 DEF StreamIs
<1> QED BY <1>2, <1>3

\* A send of m to r, of which n bytes are taken, or which fails.
SendsSome(r, m, n) ==
  /\ Calling /\ todo' = Tail(todo) /\ UNCHANGED due /\ Receiver = r /\ Head(todo).message = m
  /\ \A c \in Client : c # r => Stream(c)' = Stream(c) /\ roomy'[c] = roomy[c]
  /\ peer'[r] = "open" => /\ Stream(r)' = Stream(r) \o SubSeq(Bytes(m), 1, n)
                          /\ roomy'[r] => roomy[r] /\ n = 2
  /\ \A c \in Client : peer'[c] = "open" => peer[c] = "open"

\* It keeps the streams of the open connections.
LEMMA SendStream ==
  ASSUME StreamInv, NEW r \in Client, NEW m, NEW n \in 0 .. 2, SendsSome(r, m, n)
  PROVE  \A c \in Client : peer'[c] = "open" => StreamIs(c)'
<1>a. /\ Calling /\ todo' = Tail(todo) /\ UNCHANGED due /\ Receiver = r
      /\ Head(todo).message = m
      /\ \A c \in Client : c # r => Stream(c)' = Stream(c) /\ roomy'[c] = roomy[c]
      /\ peer'[r] = "open" => /\ Stream(r)' = Stream(r) \o SubSeq(Bytes(m), 1, n)
                              /\ roomy'[r] => roomy[r] /\ n = 2
      /\ \A c \in Client : peer'[c] = "open" => peer[c] = "open"
  BY DEF SendsSome
<1> SUFFICES ASSUME NEW c \in Client, peer'[c] = "open" PROVE StreamIs(c)'
  OBVIOUS
<1>1. todo \in Seq(Call) /\ todo # <<>> /\ m \in Nat /\ Tail(todo) \in Seq(Call)
  <2>1. todo \in Seq(Call) /\ todo # <<>>
    BY <1>a DEF StreamInv, SendingType, Calling
  <2>2. Head(todo) \in Call /\ Tail(todo) \in Seq(Call)
    BY <2>1
  <2> QED BY <1>a, <2>1, <2>2 DEF Call
<1>0. PICK got \in Seq(Nat) : \E kept \in [DOMAIN got -> 0 .. 2] : IsGot(c, got, kept)
  BY <1>a DEF StreamInv, StreamIs
<1>2. PICK kept \in [DOMAIN got -> 0 .. 2] : IsGot(c, got, kept)
  BY <1>0
<1>3. MessagesTo(c, todo) = Handed(c, Head(todo)) \o MessagesTo(c, Tail(todo))
  BY <1>1, FirstHanded
<1>4. MessagesTo(c, Tail(todo)) \in Seq(Nat)
  BY <1>1, HandedType
<1>5. CASE c # r
  <2>1. Handed(c, Head(todo)) = <<>>
    BY <1>5, <1>a DEF Handed, Receiver
  <2>2. MessagesTo(c, todo) = MessagesTo(c, todo')
    BY <1>3, <1>4, <1>a, <2>1, ConcatEmptySeq
  <2>3. Stream(c)' = Stream(c) /\ roomy'[c] = roomy[c]
    BY <1>5, <1>a
  <2>4. due'[c] = got \o MessagesTo(c, todo')
    BY <1>2, <1>a, <2>2 DEF IsGot
  <2>5. IsGot(c, got, kept)'
    BY <1>2, <2>3, <2>4 DEF IsGot, MessagesTo
  <2> QED BY <2>5 DEF StreamIs
<1>6. CASE c = r
  <2> DEFINE more == Append(got, m)
             took == Append(kept, n)
  <2>1. Handed(c, Head(todo)) = <<m>>
    BY <1>6, <1>a DEF Handed, Receiver
  <2>2. got \o (<<m>> \o MessagesTo(c, Tail(todo))) = (got \o <<m>>) \o MessagesTo(c, Tail(todo))
    <3> DEFINE rest == MessagesTo(c, Tail(todo))
    <3>1. <<m>> \in Seq(Nat) /\ rest \in Seq(Nat)
      BY <1>1, <1>4
    <3> HIDE DEF rest
    <3>2. got \o (<<m>> \o rest) = (got \o <<m>>) \o rest
      BY ONLY <3>1, got \in Seq(Nat), ConcatAssociative, SMT
    <3> QED BY <3>2 DEF rest
  <2>3. more = got \o <<m>>
    BY <1>1, AppendIsConcat
  <2>4. due'[c] = more \o MessagesTo(c, todo')
    BY <1>2, <1>3, <1>a, <2>1, <2>2, <2>3 DEF IsGot
  <2>5. FlattenSeq(KeptOf(more, took)) = FlattenSeq(KeptOf(got, kept)) \o SubSeq(Bytes(m), 1, n)
    BY <1>1, KeptAppend
  <2>6. Stream(c)' = FlattenSeq(KeptOf(more, took)) /\ (roomy'[c] => roomy[c] /\ n = 2)
    BY <1>2, <1>6, <1>a, <2>5 DEF IsGot
  <2>7. kept \in Seq(0 .. 2) /\ Len(kept) = Len(got)
    BY Overwriting
  <2>8. /\ more \in Seq(Nat) /\ Len(more) = Len(got) + 1 /\ Len(took) = Len(got) + 1
        /\ took \in Seq(0 .. 2) /\ took[Len(got) + 1] = n
        /\ \A k \in 1 .. Len(got) : took[k] = kept[k]
    BY <1>1, <2>7, AppendProperties
  <2> HIDE DEF more, took
  <2>9. DOMAIN more = 1 .. Len(got) + 1 /\ took \in [DOMAIN more -> 0 .. 2]
    BY <2>8, LenProperties
  <2>10. ASSUME roomy'[c], NEW k \in DOMAIN more PROVE took[k] = 2
    <3>1. DOMAIN got = 1 .. Len(got) /\ Len(got) \in Nat
      BY LenProperties
    <3>2. \A j \in 1 .. Len(got) : kept[j] = 2
      BY <1>2, <2>6, <2>10, <3>1 DEF IsGot
    <3>3. CASE k = Len(got) + 1
      BY <2>6, <2>8, <2>10, <3>3
    <3>4. CASE k # Len(got) + 1
      <4>1. k \in 1 .. Len(got)
        BY <2>9, <3>1, <3>4
      <4> QED BY <2>8, <3>2, <4>1
    <3> QED BY <3>3, <3>4
  <2>11. IsGot(c, more, took)'
    BY <2>4, <2>6, <2>10 DEF IsGot, MessagesTo
  <2> QED BY <2>8, <2>9, <2>11 DEF StreamIs
<1> QED BY <1>5, <1>6

\* What send takes.
LEMMA TakenIs ==
  ASSUME NEW m \in Nat, NEW c \in Client, Len(wire[c]) \in Nat, Len(wire[c]) <= Capacity
  PROVE  \E n \in 0 .. 2 :
           /\ Taken(c, m) = SubSeq(Bytes(m), 1, n) /\ Len(Taken(c, m)) = n
           /\ Len(wire[c]) + n <= Capacity
<1> DEFINE I == {Len(Bytes(m)), Room(c)}
           n == Min(I)
<1>1. Len(Bytes(m)) = 2 /\ Room(c) \in Nat
  BY BytesOf, DeliveryAssumption DEF Room
<1>2. n \in I /\ n <= 2 /\ n <= Room(c)
  <2>1. I \in SUBSET Nat /\ I # {} /\ 2 \in I /\ Room(c) \in I
    BY <1>1
  <2> HIDE DEF I
  <2> QED BY <2>1, LeastNumber
<1>3. n \in 0 .. 2 /\ Len(wire[c]) + n <= Capacity
  <2>1. n \in Nat
    BY <1>1, <1>2
  <2> HIDE DEF n
  <2> QED BY <1>2, <2>1, DeliveryAssumption DEF Room
<1>4. Taken(c, m) = SubSeq(Bytes(m), 1, n)
  BY DEF Taken
<1> HIDE DEF n
<1>5. Len(Taken(c, m)) = n
  BY <1>3, <1>4, BytesOf
<1> QED BY <1>3, <1>4, <1>5

\* A call of send that succeeds, whatever it takes, keeps every stream of an
\* open connection.
LEMMA SendInv ==
  ASSUME StreamInv, Send
  PROVE  StreamType' /\ \A c \in Client : peer'[c] = "open" => StreamIs(c)'
<1>1. todo \in Seq(Call) /\ todo # <<>> /\ at = "sending"
  BY DEF StreamInv, SendingType, Send, Calling
<1>2. Head(todo) \in Call /\ Receiver \in Client /\ Head(todo).message \in Nat
  <2>1. Head(todo) \in Call
    BY <1>1
  <2> QED BY <2>1 DEF Call, Receiver
<1>3. PICK r \in Client, m \in Nat : r = Receiver /\ m = Head(todo).message
  BY <1>2
<1>4. wire[r] \in Seq(Piece) /\ read[r] \in Seq(Piece) /\ Len(wire[r]) \in Nat
      /\ Len(wire[r]) <= Capacity
  BY DEF StreamInv, StreamType
<1>5. PICK n \in 0 .. 2 : /\ Taken(r, m) = SubSeq(Bytes(m), 1, n) /\ Len(Taken(r, m)) = n
                          /\ Len(wire[r]) + n <= Capacity
  BY <1>4, TakenIs
<1> DEFINE piece == SubSeq(Bytes(m), 1, n)
<1>6. piece \in Seq(Piece) /\ Len(piece) = n
  BY BytesOf
<1>7. /\ wire' = [wire EXCEPT ![r] = @ \o piece]
      /\ roomy' = [roomy EXCEPT ![r] = @ /\ n = 2]
      /\ todo' = Tail(todo) /\ UNCHANGED <<members, at, sent, peer, read, due>>
  BY <1>3, <1>5 DEF Send
<1> HIDE DEF piece
<1>8. wire[r] \o piece \in Seq(Piece) /\ Len(wire[r] \o piece) <= Capacity
  <2>1. wire[r] \o piece \in Seq(Piece) /\ Len(wire[r] \o piece) = Len(wire[r]) + Len(piece)
    BY <1>4, <1>6, ConcatProperties
  <2> QED BY <1>5, <1>6, <2>1
<1>9. StreamType'
  <2>1. /\ wire' \in [Client -> Seq(Piece)]
        /\ \A c \in Client : Len(wire'[c]) <= Capacity
    BY <1>7, <1>8 DEF StreamInv, StreamType
  <2>2. roomy' \in [Client -> BOOLEAN]
    BY <1>7 DEF StreamInv, StreamType
  <2> QED BY <1>1, <1>7, <2>1, <2>2 DEF StreamInv, StreamType
<1>10. ASSUME NEW c \in Client, c # r PROVE Stream(c)' = Stream(c) /\ roomy'[c] = roomy[c]
  BY <1>7, <1>10 DEF Stream, StreamInv, StreamType
<1>11. Stream(r)' = Stream(r) \o piece
  <2>1. wire'[r] = wire[r] \o piece /\ read'[r] = read[r]
    BY <1>7 DEF StreamInv, StreamType
  <2> DEFINE w == wire[r]
             x == read[r]
  <2>2. w \in Seq(Piece) /\ x \in Seq(Piece)
    BY <1>4
  <2> HIDE DEF w, x
  <2>3. x \o (w \o piece) = (x \o w) \o piece
    BY ONLY <1>6, <2>2, ConcatAssociative, SMT
  <2> QED BY <2>1, <2>3 DEF Stream, w, x
<1>12. roomy'[r] => roomy[r] /\ n = 2
  BY <1>7 DEF StreamInv, StreamType
<1>13. Calling /\ Receiver = r /\ Head(todo).message = m /\ UNCHANGED <<due, peer>>
  <2>1. Calling
    BY DEF Send
  <2> QED BY <1>3, <1>7, <2>1, Zenon
<1>14. \A c \in Client : peer'[c] = "open" => StreamIs(c)'
  <2>1. todo' = Tail(todo) /\ UNCHANGED due
    BY <1>7
  <2>2. \A c \in Client : c # r => Stream(c)' = Stream(c) /\ roomy'[c] = roomy[c]
    BY <1>10
  <2>3. peer'[r] = "open" => /\ Stream(r)' = Stream(r) \o SubSeq(Bytes(m), 1, n)
                             /\ roomy'[r] => roomy[r] /\ n = 2
    BY <1>11, <1>12 DEF piece
  <2>4. \A c \in Client : peer'[c] = "open" => peer[c] = "open"
    BY <1>7
  <2>5. SendsSome(r, m, n)
    BY <1>13, <2>1, <2>2, <2>3, <2>4 DEF SendsSome
  <2> QED BY <2>5, SendStream
<1> QED BY <1>9, <1>14

\* So does one whose peer has gone.
LEMMA SendFailsInv ==
  ASSUME StreamInv, SendInVain \/ SendFails
  PROVE  StreamType' /\ \A c \in Client : peer'[c] = "open" => StreamIs(c)'
<1>1. todo \in Seq(Call) /\ todo # <<>> /\ at = "sending" /\ peer \in [Client -> PeerState]
  BY DEF StreamInv, SendingType, SendInVain, SendFails, Calling
<1>2. Head(todo) \in Call /\ Receiver \in Client
  <2>1. Head(todo) \in Call
    BY <1>1
  <2> QED BY <2>1 DEF Call, Receiver
<1>3. PICK r \in Client : r = Receiver
  BY <1>2
<1>4. /\ peer[r] # "open" /\ todo' = Tail(todo) /\ UNCHANGED <<at, wire, read, due, roomy>>
      /\ peer' \in {peer, [peer EXCEPT ![r] = "shut"]} /\ Calling
  BY <1>3 DEF SendInVain, SendFails
<1>5. peer'[r] # "open" /\ \A c \in Client : peer'[c] = "open" => peer[c] = "open"
  BY <1>1, <1>4
<1>6. StreamType'
  BY <1>1, <1>4 DEF StreamInv, StreamType
<1>7. \A c \in Client : Stream(c)' = Stream(c) /\ roomy'[c] = roomy[c]
  BY <1>4 DEF Stream
<1>8. \A c \in Client : peer'[c] = "open" => StreamIs(c)'
  <2>1. 0 \in 0 .. 2 /\ UNCHANGED due
    BY <1>4
  <2>2. PICK m : Head(todo).message = m
    OBVIOUS
  <2>3. SendsSome(r, m, 0)
    BY <1>3, <1>4, <1>5, <1>7, <2>1, <2>2 DEF SendsSome
  <2> QED BY <2>1, <2>3, SendStream
<1> QED BY <1>6, <1>8

\* Every step keeps what is known of the streams.
LEMMA StreamStep == StreamInv /\ [Next]_vars => StreamInv'
<1> SUFFICES ASSUME StreamInv, [Next]_vars PROVE StreamInv'
  OBVIOUS
<1> DEFINE Goal == StreamType' /\ \A c \in Client : peer'[c] = "open" => StreamIs(c)'
<1>0. SendingType' /\ SendingType /\ StreamType
  BY SendingStep DEF StreamInv
<1>1. ASSUME Handler PROVE Goal
  <2>1. ASSUME Broadcast PROVE Goal
    <3>1. sent + 1 \in Nat /\ Calls(members, sent + 1) \in Seq(Call)
      BY <1>0, CallsType DEF SendingType
    <3> QED BY <2>1, <3>1, HandlerStream DEF Broadcast
  <2>2. ASSUME NEW c \in Client, SendMessageToChannel(c) PROVE Goal
    <3>1. sent + 1 \in Nat /\ Calls(RemoveFirst(members, c), sent + 1) \in Seq(Call)
      BY <1>0, CallsType, ErasingType DEF SendingType
    <3> QED BY <2>2, <3>1, HandlerStream DEF SendMessageToChannel
  <2>3. ASSUME NEW c \in Client, Reply(c) PROVE Goal
    <3>1. sent + 1 \in Nat /\ sent + 2 \in Nat /\ <<c>> \in Seq(Client)
      BY <1>0 DEF SendingType
    <3>2. Calls(<<c>>, sent + 1) \o Calls(<<c>>, sent + 2) \in Seq(Call)
      <4>1. Calls(<<c>>, sent + 1) \in Seq(Call) /\ Calls(<<c>>, sent + 2) \in Seq(Call)
        BY <3>1, CallsType
      <4> QED BY <4>1, ConcatProperties
    <3> QED BY <2>3, <3>2, HandlerStream DEF Reply
  <2>4. ASSUME NEW c \in Client, Disconnect(c) PROVE Goal
    <3>1. members' \in Seq(Client) /\ sent + 1 \in Nat
      BY <1>0, <2>4, ErasingType DEF Disconnect, SendingType
    <3>2. Calls(members', sent + 1) \in Seq(Call)
      BY <3>1, CallsType
    <3>3. \A d \in Client : peer'[d] = "open" => peer[d] = "open"
      BY <1>0, <2>4 DEF Disconnect, SendingType
    <3>4. at = "poll" /\ Sends(Calls(members', sent + 1)) /\ UNCHANGED <<wire, read, roomy>>
      BY <2>4 DEF Disconnect
    <3> QED BY <3>2, <3>3, <3>4, HandlerStream
  <2>5. ASSUME NEW c \in Client, ReceiveError(c) PROVE Goal
    <3>1. /\ \A d \in Client : peer'[d] = "open" => peer[d] = "open"
          /\ UNCHANGED <<at, todo, wire, read, due, roomy>>
      BY <1>0, <2>5 DEF ReceiveError, server, SendingType
    <3> QED BY <1>0, <3>1, StreamUntouched DEF StreamInv, StreamType
  <2> QED BY <1>1, <2>1, <2>2, <2>3, <2>4, <2>5 DEF Handler
<1>2. ASSUME Send PROVE Goal
  BY <1>2, SendInv
<1>3. ASSUME SendInVain \/ SendFails PROVE Goal
  BY <1>3, SendFailsInv
<1>4. ASSUME SendKills \/ SendsEnd \/ UNCHANGED vars PROVE Goal
  <2>1. UNCHANGED <<todo, peer, wire, read, due, roomy>> /\ (at' = "poll" => todo = <<>>)
    BY <1>0, <1>4 DEF SendKills, SendsEnd, vars, server, history, StreamType
  <2> QED BY <1>0, <2>1, StreamUntouched DEF StreamInv, StreamType
<1>5. ASSUME NEW c \in Client, Reads(c) PROVE Goal
  <2>1. /\ wire' = [wire EXCEPT ![c] = Tail(@)] /\ wire[c] # <<>>
        /\ read' = [read EXCEPT ![c] = Append(@, Head(wire[c]))]
        /\ UNCHANGED <<at, todo, peer, due, roomy>>
    BY <1>5 DEF Reads, server, history
  <2>2. /\ wire[c] \in Seq(Piece) /\ read[c] \in Seq(Piece)
        /\ wire'[c] = Tail(wire[c]) /\ read'[c] = Append(read[c], Head(wire[c]))
    BY <1>0, <2>1 DEF StreamType
  <2>3. /\ Head(wire[c]) \in Piece /\ Tail(wire[c]) \in Seq(Piece)
        /\ Len(Tail(wire[c])) = Len(wire[c]) - 1 /\ Len(wire[c]) \in Nat
    BY <2>1, <2>2, HeadTailProperties
  <2>4. StreamType'
    <3>1. wire' \in [Client -> Seq(Piece)] /\ read' \in [Client -> Seq(Piece)]
      BY <1>0, <2>1, <2>2, <2>3, AppendProperties DEF StreamType
    <3>2. \A d \in Client : Len(wire'[d]) <= Capacity
      BY <1>0, <2>1, <2>3, DeliveryAssumption DEF StreamType
    <3> QED BY <1>0, <2>1, <3>1, <3>2 DEF StreamType
  <2>5. Stream(c)' = Stream(c)
    <3> DEFINE x == read[c]
               w == wire[c]
               h == Head(wire[c])
               u == Tail(wire[c])
    <3>1. x \in Seq(Piece) /\ h \in Piece /\ u \in Seq(Piece) /\ <<h>> \in Seq(Piece)
      BY <2>2, <2>3
    <3>2. w = <<h>> \o u
      BY <2>1, <2>2
    <3> HIDE DEF x, w, h, u
    <3>3. Append(x, h) = x \o <<h>>
      BY <3>1, AppendIsConcat
    <3>4. (x \o <<h>>) \o u = x \o (<<h>> \o u)
      BY ONLY <3>1, ConcatAssociative, SMT
    <3> QED BY <2>2, <3>2, <3>3, <3>4 DEF Stream, x, w, h, u
  <2>6. \A d \in Client : Stream(d)' = Stream(d)
    BY <1>0, <2>1, <2>5 DEF Stream, StreamType
  <2>7. ASSUME NEW d \in Client, StreamIs(d) PROVE StreamIs(d)'
    BY <2>1, <2>6, <2>7 DEF StreamIs, IsGot
  <2> QED BY <2>1, <2>4, <2>7 DEF StreamInv
<1>6. ASSUME NEW c \in Client, NEW how \in {"closed", "reset"}, Goes(c, how) PROVE Goal
  <2>1. /\ wire' = [wire EXCEPT ![c] = <<>>] /\ peer' = [peer EXCEPT ![c] = how]
        /\ UNCHANGED <<at, todo, read, due, roomy>>
    BY <1>6 DEF Goes, server, history
  <2>2. StreamType'
    BY <1>0, <2>1, DeliveryAssumption DEF StreamType
  <2>3. ASSUME NEW d \in Client, peer'[d] = "open"
        PROVE  peer[d] = "open" /\ wire'[d] = wire[d] /\ read'[d] = read[d]
    BY <1>0, <2>1, <2>3 DEF SendingType, StreamType
  <2>4. ASSUME NEW d \in Client, peer'[d] = "open" PROVE StreamIs(d)'
    <3>1. StreamIs(d) /\ Stream(d)' = Stream(d)
      BY <2>3, <2>4 DEF StreamInv, Stream
    <3> QED BY <2>1, <3>1 DEF StreamIs, IsGot
  <2> QED BY <2>2, <2>4
<1> QED BY <1>0, <1>1, <1>2, <1>3, <1>4, <1>5, <1>6 DEF Next, SendStep, Peers, StreamInv

\* The stream of every client whose socket is open is made of a beginning of each
\* message for which send was called, of all of it when there was always room.
THEOREM StreamInvariant == Spec => []StreamInv
BY StreamInit, StreamStep, PTL DEF Spec

\* The whole of a message is both of its pieces.
LEMMA WholeBytes ==
  ASSUME NEW m \in Nat
  PROVE  SubSeq(Bytes(m), 1, 2) = Bytes(m)
BY BytesOf, SubSeqFull

\* For any number of clients, of messages and of bytes a socket holds, a client whose
\* socket always had room got every message, whole and in order, whatever the
\* sockets of the others did (Channel::broadcast, sendMessageToChannel).
THEOREM KeepingUpSafe == Spec => []WhoKeepsUpGetsAll
<1>1. StreamInv => WhoKeepsUpGetsAll
  <2> SUFFICES ASSUME StreamInv, NEW c \in Client, at = "poll", peer[c] = "open", roomy[c]
               PROVE  Stream(c) = AllOf(due[c])
    BY DEF WhoKeepsUpGetsAll
  <2>1. PICK got \in Seq(Nat) : \E kept \in [DOMAIN got -> 0 .. 2] : IsGot(c, got, kept)
    BY DEF StreamInv, StreamIs
  <2>2. PICK kept \in [DOMAIN got -> 0 .. 2] : IsGot(c, got, kept)
    BY <2>1
  <2>3. due[c] = got
    <3>1. MessagesTo(c, todo) = <<>>
      BY NothingHanded DEF StreamInv, StreamType
    <3> QED BY <2>2, <3>1, ConcatEmptySeq DEF IsGot
  <2>4. \A k \in DOMAIN got : SubSeq(Bytes(got[k]), 1, kept[k]) = Bytes(got[k])
    <3>1. \A k \in DOMAIN got : got[k] \in Nat
      OBVIOUS
    <3> QED BY <2>2, <3>1, WholeBytes DEF IsGot
  <2>5. KeptOf(got, kept) = [k \in DOMAIN got |-> Bytes(got[k])]
    BY <2>4 DEF KeptOf
  <2> QED BY <2>2, <2>3, <2>5 DEF IsGot, AllOf
<1> QED BY <1>1, StreamInvariant, PTL

\* For any number of clients, of messages and of bytes a socket holds, a slow client
\* loses ends of messages and nothing else, and none comes twice or out of order.
THEOREM LossSafe == Spec => []LossIsAtTheEnd
<1>1. StreamInv => LossIsAtTheEnd
  <2> SUFFICES ASSUME StreamInv, NEW c \in Client, peer[c] = "open"
               PROVE  \E kept \in [DOMAIN due[c] -> 0 .. 2] :
                        Stream(c) = FlattenSeq(KeptOf(due[c], kept))
    BY DEF LossIsAtTheEnd, KeptOf
  <2>1. PICK got \in Seq(Nat) : \E kept \in [DOMAIN got -> 0 .. 2] : IsGot(c, got, kept)
    BY DEF StreamInv, StreamIs
  <2>2. PICK kept \in [DOMAIN got -> 0 .. 2] : IsGot(c, got, kept)
    BY <2>1
  <2> DEFINE rest == MessagesTo(c, todo)
             ms == got \o rest
             all == [k \in DOMAIN ms |-> IF k <= Len(got) THEN kept[k] ELSE 0]
             none == [k \in DOMAIN rest |-> 0]
  <2>3. rest \in Seq(Nat)
    BY HandedType DEF StreamInv, SendingType
  <2> HIDE DEF rest
  <2>4. /\ ms \in Seq(Nat) /\ Len(ms) = Len(got) + Len(rest)
        /\ Len(got) \in Nat /\ Len(rest) \in Nat
        /\ DOMAIN got = 1 .. Len(got) /\ DOMAIN rest = 1 .. Len(rest)
        /\ \A k \in 1 .. Len(got) + Len(rest) :
             ms[k] = IF k <= Len(got) THEN got[k] ELSE rest[k - Len(got)]
    BY <2>3, ConcatProperties, LenProperties
  <2> HIDE DEF ms
  <2>5. DOMAIN ms = 1 .. Len(got) + Len(rest)
    BY <2>4, LenProperties
  <2>6. all \in [DOMAIN ms -> 0 .. 2] /\ none \in [DOMAIN rest -> 0 .. 2]
    BY <2>4, <2>5
  <2>7. FlattenSeq(KeptOf(rest, none)) = <<>>
    <3>1. KeptOf(rest, none) \in Seq(Seq(Piece)) /\ Len(KeptOf(rest, none)) = Len(rest)
      BY <2>3, <2>6, KeptType
    <3>2. ASSUME NEW k \in 1 .. Len(rest) PROVE KeptOf(rest, none)[k] = <<>>
      <4>1. KeptOf(rest, none)[k] = SubSeq(Bytes(rest[k]), 1, 0)
        BY <2>4 DEF KeptOf
      <4>2. rest[k] \in Nat
        BY <2>3
      <4>3. SubSeq(Bytes(rest[k]), 1, 0) \in Seq(Piece) /\ Len(SubSeq(Bytes(rest[k]), 1, 0)) = 0
        BY <4>2, BytesOf
      <4> QED BY <4>1, <4>3, EmptySeq
    <3> HIDE DEF none
    <3> QED BY <3>1, <3>2, FlatteningNothing
  <2>8. KeptOf(ms, all) = KeptOf(got, kept) \o KeptOf(rest, none)
    <3> DEFINE l == KeptOf(ms, all)
               p == KeptOf(got, kept)
               q == KeptOf(rest, none)
               r == p \o q
    <3>1. /\ \A k \in 1 .. Len(got) + Len(rest) :
               l[k] = SubSeq(Bytes(ms[k]), 1, IF k <= Len(got) THEN kept[k] ELSE 0)
          /\ \A k \in 1 .. Len(got) : p[k] = SubSeq(Bytes(got[k]), 1, kept[k])
          /\ \A k \in 1 .. Len(rest) : q[k] = SubSeq(Bytes(rest[k]), 1, 0)
      BY <2>4, <2>5 DEF KeptOf
    <3>2. /\ l \in Seq(Seq(Piece)) /\ Len(l) = Len(got) + Len(rest)
          /\ p \in Seq(Seq(Piece)) /\ Len(p) = Len(got)
          /\ q \in Seq(Seq(Piece)) /\ Len(q) = Len(rest)
      BY <2>3, <2>4, <2>6, KeptType
    <3> HIDE DEF l, p, q
    <3>3. /\ r \in Seq(Seq(Piece)) /\ Len(r) = Len(got) + Len(rest)
          /\ \A k \in 1 .. Len(got) + Len(rest) :
               r[k] = IF k <= Len(got) THEN p[k] ELSE q[k - Len(got)]
      <4>1. Len(p) + Len(q) = Len(got) + Len(rest)
        BY <3>2
      <4>2. /\ p \o q \in Seq(Seq(Piece)) /\ Len(p \o q) = Len(p) + Len(q)
            /\ \A k \in 1 .. Len(p) + Len(q) :
                 (p \o q)[k] = IF k <= Len(p) THEN p[k] ELSE q[k - Len(p)]
        <5>1. p \in Seq(Seq(Piece)) /\ q \in Seq(Seq(Piece))
          BY <3>2
        <5> QED BY ONLY <5>1, ConcatProperties
      <4> QED BY <3>2, <4>1, <4>2
    <3> HIDE DEF r
    <3>4. ASSUME NEW k \in 1 .. Len(got) + Len(rest) PROVE l[k] = r[k]
      <4>1. CASE k <= Len(got)
        <5>1. k \in 1 .. Len(got)
          BY <2>4, <4>1
        <5> QED BY <2>4, <3>1, <3>3, <4>1, <5>1
      <4>2. CASE ~(k <= Len(got))
        <5>1. k - Len(got) \in 1 .. Len(rest)
          BY <2>4, <4>2
        <5> QED BY <2>4, <3>1, <3>3, <4>2, <5>1
      <4> QED BY <4>1, <4>2
    <3>5. l = r
      BY <3>2, <3>3, <3>4, SeqEqual
    <3> QED BY <3>5 DEF l, r, p, q
  <2>9. FlattenSeq(KeptOf(ms, all)) = FlattenSeq(KeptOf(got, kept))
    <3>1. KeptOf(got, kept) \in Seq(Seq(Piece)) /\ KeptOf(rest, none) \in Seq(Seq(Piece))
      BY <2>3, <2>6, KeptType
    <3>2. FlattenSeq(KeptOf(got, kept)) \in Seq(Piece)
      <4>1. <<>> \in Seq(Piece)
        OBVIOUS
      <4> QED BY <3>1, <4>1, FlatteningAppend
    <3> HIDE DEF all, none
    <3>3. FlattenSeq(KeptOf(ms, all))
            = FlattenSeq(KeptOf(got, kept)) \o FlattenSeq(KeptOf(rest, none))
      BY <2>8, <3>1, FlatteningConcat
    <3> DEFINE f == FlattenSeq(KeptOf(got, kept))
    <3>4. f \in Seq(Piece)
      BY <3>2
    <3> HIDE DEF f
    <3>5. f \o <<>> = f
      BY <3>4, ConcatEmptySeq
    <3> QED BY <2>7, <3>3, <3>5 DEF f
  <2>10. due[c] = ms
    BY <2>2 DEF IsGot, ms, rest
  <2> HIDE DEF all
  <2> QED BY <2>2, <2>6, <2>9, <2>10 DEF IsGot
<1> QED BY <1>1, StreamInvariant, PTL
=============================================================================
