# A TLA+ model of the IRC server

The program is a C++98 IRC server for several clients on one thread: `Server::run`
polls every socket, reads what arrived, cuts it into lines and runs the handler of
each line to its end. There are no locks, no timers and nothing on disk. What is
hard about it is kept in vectors of raw pointers that are edited in several places,
in a vector of descriptors that is edited while it is walked, and in the sequences
of commands that several clients can interleave.

The modules below model the state of the server and every handler that changes it,
with what its messages carry and what becomes of them in the sockets. TLC checks
them on small instances. TLAPS proves what the passing runs check of safety, every
invariant and action property and the refinement of `Presence`, for every number of clients,
channels and descriptors and for lines, mode strings and streams of every length.

## The system

| part | source | state it keeps | operations |
|---|---|---|---|
| Channel object | `Channel.class.cpp` | members, modes, key, limit, operators, invitations, topic | the setters, `isFull`, `isEmpty`, `broadcast` |
| Client object | `Client.class.cpp` | nickname, handshake flags, its own list of channels, `_messageBuffer`, socket | the setters, `readyToRegister`, `joinChannel`, `leaveChannel` |
| Registration | `Server.class.commands.cpp`, `registerClient` | the flags of the client | PASS, NICK, USER |
| Channel commands | `Server.class.commands.cpp` | `_channels` and both membership records | JOIN, PART, KICK, INVITE, TOPIC, MODE |
| Messages | `Server.class.commands.cpp` | none | PRIVMSG to a user, to a channel |
| Connections | `Server.class.cpp` | `_clients`, `_pollFds`, the descriptors | `acceptNewClient`, `disconnectClient` |
| Poll loop | `Server.class.cpp` | `_pollFds`, `_signal` | `run`, `signalHandler` |
| Reception | `Server.class.cpp` | the client's `_messageBuffer` | `receiveNewData`, `split`, `handleCommand` |
| Bot, PING, PONG | `Bot.class.cpp`, `Server.class.commands.cpp` | none | TIME, RPS, replies |
| Formatter | `IrcFormatter.class.cpp` | none | one function per message, `formatMessage` |
| Start-up | `main.cpp`, `Server.class.cpp` | `_socketFd` | `main`, `Server::init`, `~Server` |
| Sockets | the kernel, from how `send` is called | what a peer has not read | `send` in `Channel::broadcast`, `sendMessageToChannel`, the replies |

How they meet: `run` calls `acceptNewClient` or `receiveNewData`; that one calls
`handleCommand` for each line, which calls a handler; a handler edits `Client` and
`Channel` objects, sends to sockets through `send` or `Channel::broadcast`, and may
call `disconnectClient`, which edits `_pollFds` under the feet of `run` and deletes the
object whose buffer `receiveNewData` is reading. Pointers to `Client` are held by
`Server::_clients` and by three vectors of each `Channel` (`_clients`, `_operators`,
`_invitedClients`); pointers to `Channel` by `Server::_channels` and by each `Client`.

What makes each part correct:

* **Channels and clients**: the two records of membership agree and point to live
  objects; a nickname has one holder; only a client whose handshake is complete is a
  member; operators and invited clients are those who were made so; a full channel
  admits nobody; what clients are told adds up to what is so.
* **MODE**: the loop over the mode string does what its flags say, in order, up to
  the first error; a limit and its mark do not part.
* **Start-up and poll loop**: the vector of descriptors matches the clients although it
  is edited during the walk; no read finds nothing; all input is read in the end,
  whoever went is dropped, whoever waits is accepted, and a signal ends the server;
  wherever it ends, the listening socket was closed once, and every other one but those whose
  `fcntl` failed.
* **Reception**: the lines handled for a client are the lines it sent, whatever the
  chunks and whatever other clients do; none waits while the server does something
  else; none is handled for a client that is gone; all are handled in the end.
* **Lines and messages**: `split` finds the parameters; a text comes out as it went in, up
  to where the message is cut; a topic is read as it was told unless it was refused; NAMES names
  members.
* **Sockets**: who keeps up gets every message whole and in order, whatever happens to the
  sockets of others; who does not loses ends of messages; no reader holds the server up.

`PROJECT.json` lists the hazards line by line.

## Modules

| module | what it is |
|---|---|
| `ChannelModes` | the Channel object as a record, its methods as operators, and `ApplyModes`, the effect of one MODE command |
| `ModeLoop` | the loop of `handleMode` one character at a time, compared with `ApplyModes` |
| `IrcServer` | the server's clients and channels, one action per handler |
| `ClientViews` | `IrcServer` with the lists of nicknames its clients build from what they are sent |
| `PrivilegeHistory` | `IrcServer` with a memory of who was invited and who was given operator status, and of what earlier clients at the same addresses were |
| `Presence` | abstract specification: users arrive, are renamed, enter, leave and depart |
| `IrcPresence` | the mapping from `IrcServer` to `Presence` |
| `PollLoop` | the process from `main` to `~Server`: `init`, `run`, `acceptNewClient` and `disconnectClient` as edits of `_pollFds`, with the kernel's part |
| `LineBuffer` | the bytes of a connection: chunks, lines, the dispatch table |
| `Reception` | `PollLoop` with bytes: `receiveNewData` for several clients |
| `Split` | `split` one word at a time, compared with what the parameters of a line are |
| `Formatter` | `formatMessage` and the messages that carry what clients wrote |
| `Relay` | a line through `split`, a handler and the formatter to those who read it |
| `Delivery` | the loops that call `send`, over sockets that fill up, close and fail |
| `SequenceFacts` | lemmas on sequences: the operators that stand for `erase` and `push_back`, beginnings and parts, `FlattenSeq`, induction |
| `IrcServerProofs` | theorems and proofs about `IrcServer` |
| `IrcObserverProofs` | those about what watches it: `IrcPresence`, `ClientViews`, `PrivilegeHistory` |
| `ModeLoopProofs`, `PollLoopProofs`, `ReceptionProofs`, `DeliveryProofs` | those about the modules of these names |
| `RelayProofs` | those about `Split` and `Relay` |
| `MC...` | instances for TLC: modes, arguments and symmetry |

### ChannelModes and IrcServer

A `Client` is named by the address it occupies. `clients` is `_clients`, `client[a]`
the object at `a` (as new when there is none), `channels` the names in `_channels`,
`channel[ch]` the object. `getChannel` finds a channel by name and `createChannel` is
called only when it finds none, so a name stands for one object. `out` holds the
messages the last handler sent, numerics (the answers to the sender alone) left out.

An action is a whole handler. Its guards are the conditions of the handler's early
returns; a command that is refused changes nothing, so it is a stuttering step and
has no action. Things the code does that are easy to take for granted and are
modelled as they are:

* `setKey` ignores a key of more than 64 characters; MODE marks `k` all the same, and
  `createChannel` sets a key without the mark (`SetKey`, `ApplyModes`,
  `CreateChannel`). `Admits` asks the key and never the mark.
* A limit of 0 is stored and means none, a negative one is ignored, both are announced.
* The one parameter of MODE is the key, the limit and the nickname of every flag that
  wants one: `ModeArg` is a set of such triples of readings.
* KICK, INVITE and MODE look the target up by nickname; KICK and MODE among the members,
  INVITE among all clients, registered or not. A client may kick itself.
* PART and disconnection delete an emptied channel, KICK does not.
* Nothing but MODE -o takes a client out of `_operators`, and nothing but KICK out of
  `_invitedClients`; deleting the `Client` does neither. `PrivilegeHistory` therefore keeps its
  memory twice, for the client an address stands for and for those it stood for before. What
  a MODE gives and takes it reads off the command (`Targets`), an invitation and a kick off the
  message that tells them, and neither off `_operators` or `_invitedClients`.
* `disconnectClient` visits a copy of the client's channels (`Visited`) and asks
  `isEmpty` after the client has left (`Emptied`).
* A NICK or USER before PASS, and a wrong PASS, disconnect. NICK may be repeated before
  the handshake is complete.

Vectors of pointers are sets here: `Channel::addClient`, `addOperator` and `inviteClient` look before
they append, and `Client::joinChannel`, which does not, is called only after `isInChannel`
said no or for a channel just created.
A message is taken to arrive whole; `Relay` and `Delivery` look at what becomes of it.

Refused by construction: nicknames, channel names and argument counts the parsers
refuse (`nickIsValid`, the leading `#`, too few words). They leave the state alone.

### PollLoop

`pollFds` is the vector with its `revents`, `clients` the descriptors of `_clients`, `i`
the index of the walk, counted from 1, and `at` where the thread is, from `main` on. A
step of `init` that fails closes the socket and calls `exit`, which does not run the
destructor of `server` in `main`; an argument that is refused ends `main` before there is a
server; every other end runs `~Server` (`Teardown`). The handler
of signals is installed before `init`, which goes on when one comes.

The kernel is `peer` (what is behind each descriptor), `input` and `backlog`. poll may
find nothing and wait (`Wait`), and a signal interrupts it only then: `Signal` between
`Top` and `Wait` is the window in which it is noticed late. recv returns input, 0 or -1;
-1 is stored in a `size_t`, so the test `bytes <= 0` does not catch it. What then happens
is undefined (`buff[bytes]` is one byte before the array); the model takes the outcome in
which that byte is of no use to anybody: nothing is appended and the client stays. The
error of a socket is reported once and the next recv returns 0. accept fails when no
descriptor is free; the connection waits on. When accept succeeds and fcntl fails
(`FcntlFails`), the descriptor is left open without a `Client` or an entry (`"leaked"`), for good.

### LineBuffer and Reception

A word's text is one byte, so that a chunk may cut between the texts of one word; `"LF"`,
`"CR"` and `"NUL"` are the bytes the code treats apart. Each action of `Reception` is the
action of `PollLoop` of that name (`Poll!...`) with what it does to the bytes of the
descriptor: `wire` waits in the socket, `buffer` is `_messageBuffer`, `sent` and `handled`
are history. `HandleLine`, one turn of the loop over the lines, leaves the state of `PollLoop`
as it is, and so does `Sends` but for the first byte. Which lines drop the client is left
open for the three commands whose handlers can (`MayDrop`). Signals are left out: the thread
looks at `_signal` between two walks only, when no bytes are in its hands.

### Split, Formatter and Relay

A line and a message are sequences of characters, a word with a fixed meaning (a command, a
number of `IrcCodes.hpp`, a fixed reply) being one of them. `Relay` runs `split` word by
word and then the handler: PRIVMSG, TOPIC (and its query, before or after the change), KICK,
PING, the NAMES reply of JOIN, TIME, RPS, or the reply to an unknown command. Its properties
read the message that goes out as a client would, with the same `Parameters` that say what
the words of the line meant. The sender is registered, an operator and a member, and its
target exists: who is refused for other reasons is in `IrcServer`.

### Delivery

The clients are the members of one channel. A handler that sends puts its calls of `send` in
`todo`: one for each member (`Broadcast`), for each but the sender (`SendMessageToChannel`),
several to one client (`Reply`), or to those who stay (`Disconnect`). The sockets are
`wire`, bounded by `Capacity`: a call takes what there is room for (`Send`). The rest
is what a stream socket does after its peer has gone: what is sent to a closed peer the kernel
takes (`SendInVain`), and the peer answers it with a reset, sooner or later, after which nothing
can be sent (`"shut"`); a peer that reset the connection makes one send or recv fail
(`SendFails`, `ReceiveError`); a send after that raises SIGPIPE, which `main` neither
handles nor ignores, so it ends the process (`SendKills`).

## Runs

| run | checks | shows |
|---|---|---|
| `membership` | `MembershipAgrees`, `RegisteredByHandshake`, `NicknamesUnique`, `OnlySenderIsSkipped`, `ViewsAreCurrent`, `EmptiedOnlyBySelfKick`, `ImplementsPresence` | 3 clients, 3 nicknames, 2 channels |
| `settings` | `TypeOK`, `StatusStaysUntilTaken`, `OrphanedChannelIsFrozen`, `FullChannelAdmitsNobody`, `InvitedHereOrBefore` | 2 addresses given any number of times, 1 channel, keys, limits, invitations, seven mode strings |
| `mode_loop` | `TypeOK`, `LoopIsApplyModes`, `LimitMarkAgrees` | every mode string of up to 4 characters over seven, 3 channels, 6 arguments |
| `poll_loop` | `TypeOK`, `PollFdsMatchClients`, `ReventsAreCurrent`, `OnlyLeakedStayOpen`, `InputIsRead`, `GonePeerIsDropped`, `NewcomersAreAccepted`, `SignalEndsServer` | start-up, 3 descriptors, 1 connection waiting |
| `reception` | `LinesArriveWhole`, `NulOnlyDrops`, `NoLineWaits`, `DroppedIsSilent`, `EveryLineIsServed` | 2 descriptors, 3 bytes between them, cut anywhere |
| `relay` | `SplitsIntoParameters`, `ParametersAreKept`, `TextIsRelayed`, `OnlyRefusedTopicsDiffer`, `NamesAreMembers`, `BotPlaysFair` | every line of up to 7 characters over three, also behind four commands; long texts; 4 members |
| `delivery` | `WhoKeepsUpGetsAll`, `LossIsAtTheEnd`, `HandlersEnd` | 2 members, 4 messages of 2 bytes, sockets of 3 |
| `emptied` | `NoEmptyChannel` is violated | a self-kick of the last member |
| `untold` | `SettingsChangesAreTold` is violated | `MODE #c +ix` |
| `operator_stale` | `OperatorsWereGranted` is violated | the address of a deleted operator is given again |
| `sigpipe` | `OthersAreServed` is violated | a client leaves while it is sent two messages |
| `quit` | `QuitDisconnects` is violated | `QUIT` has no entry in the dispatch table |

The bounds, and why they are enough to be interesting:

* Three clients are an operator, a target and a witness; with two channels a nickname
  change or a disconnection reaches one member by two ways, and a client leaves one
  channel while another is deleted; three members are what it takes for a message to reach
  one and miss another. Addresses are given again in `membership` and `settings`, so a client
  comes back any number of times.
* `settings` needs one channel: no handler but NICK and disconnection touches two, and
  those are in `membership`. Two clients suffice to orphan a channel and to go on in it, and
  for an heir to an address to meet the operator who gave the status or sent the invitation: the
  properties speak of one client, the address it has and one channel. Its mode strings set and
  unset flags, give and take status in one command, and fail after they gave it. A limit of 1
  is above, at and below the number of members of a channel that may be empty. The topics sent
  are refused ones (`untold` has the others): what is stored of a topic is checked in `relay`.
* In `mode_loop` four characters are a flag set, unset and set again with signs between.
* In `poll_loop` three descriptors let one client be dropped in front of two others and
  its descriptor be given again in the same walk. `MaxBacklog` bounds the connections
  that wait.
* `reception`: `MaxSent` bounds the bytes of the connections of a time, not of a run:
  a descriptor that is given again starts anew. Three bytes are a command with its line
  end, or three empty lines, or two with a NUL between. The descriptor of `Terse` sends
  one byte at most, which is enough to disturb the other; as the server never compares
  descriptors, it does not matter which of the two it is. recv asks for 1023 bytes:
  a burst that is longer is, in the model, one whose rest arrives after the recv.
* `relay`: 16 and 18 stand for the 510 of `MAX_MESSAGE_LENGTH` and the 512 of `setTopic`;
  seven characters let a text hold a word, a colon and a space on either side of its
  start, and texts of up to 20 characters reach both limits and pass them, as does a list
  of four members. What the server writes before a list of nicknames has to fit, so that
  no maximum below 16 is allowed (`RelayAssumption`); in the code it is far below 510.
* `delivery`: sockets of three bytes take one message and half of the next, so that every
  fill level occurs with the loss of an end, a whole message and nothing; four messages
  are two handlers of two calls to one client, or a reply and two broadcasts.

`TypeOK` of `settings` and `mode_loop` also says that no key, limit or topic that a setter
should refuse gets in. `CHECK_DEADLOCK FALSE` stands where the system stops: a server ended
by a signal or killed, a line that was answered, a loop that returned.

**Symmetry.** Addresses, nicknames and channel names are interchangeable; the runs that use
symmetry check safety only.

**Fairness.** Each of the three specifications states weak fairness of the server's one
thread and nothing else: `WF_vars(Run)` in `PollLoop`, `WF_vars(Server)` in `Reception`,
`WF_vars(SendStep)` in `Delivery`. It says that the operating system schedules the thread, and
that a handler which has begun goes on, which a program without locks and with non-blocking
sockets does. Peers, signals and the allocator owe nothing; a peer may never read and
never close. The fairness justifies no more than it says: `SignalEndsServer` has the exception of
the signal that arrives between the test and poll while every peer is silent for ever,
because then no step of the thread is possible, and every liveness property ends with the
server (`Ending`, `"killed"`).

### What the violations say

1. `emptied`: `handleKick` is the one way out of a channel that does not ask `isEmpty`. A last
   member who kicks itself leaves a channel nobody is in; `EmptiedOnlyBySelfKick` (checked in
   `membership`) says that there is no other way to one. The one who left stays in `_operators`
   and is its operator again if it can come back; anybody else who joins is an ordinary member,
   and with a key, a limit or +i the channel may be closed for good.
2. `untold`: flags before an error in the mode string are in force, and no member hears of it.
3. `operator_stale`: `_operators` keeps the address of a deleted client. The run needs the
   allocator to give the address again, which a general-purpose allocator does readily
   for objects of one size. How much is inherited is what `StatusStaysUntilTaken` says.
   `_invitedClients` goes stale in the same way and opens an invite-only channel to a client nobody
   invited; `InvitedHereOrBefore` says that an invitation at the address is needed all the same,
   and that a KICK there ends it.
4. `sigpipe`: a client that closes its connection while a handler sends it several messages (the
   five of its registration are enough) ends the server for all others.
5. `quit`: `handleQuit` exists and is not in the table.

### What else the models say

Places where the properties had to be worded around what the code does:

* When a word before the trailing parameter has a colon in it, the trailing parameter begins
  at that colon, so the text is delivered twice. `ParametersAreKept` says that this is
  the worst of it.
* PRIVMSG and TOPIC remove the leading `:` of their text before the formatter adds one; KICK
  and PING do not, so those who read a reason or a PONG read a colon in front of it.
* `setTopic` refuses an empty topic and one of more than 512 characters, and `handleTopic`, which
  cannot know, announces it. `OnlyRefusedTopicsDiffer` says that no other topic is told and not
  kept, and that the former one then stays.
* A NAMES reply is cut like every message: in a channel of many, a newcomer does not hear of
  the last members, and of one of them perhaps half a name (`NamesAreMembers`).
* A slow reader that loses the end of a message loses the line end with it; the next message
  then goes on in the same line (`LossIsAtTheEnd`).
* A descriptor whose `fcntl` failed stays open until the process ends (`OnlyLeakedStayOpen`), and
  accept has one fewer to give; `NewcomersAreAccepted` allows for it when none is left.
* A NUL byte takes away the rest of its chunk, line ends included, and so may join two lines
  (`NulOnlyDrops`); up to it, nothing is lost (`LinesArriveWhole`).
* Nothing leads to the last branch of `handleBot`: TIME is the one command dispatched to it.

## Proofs

Every theorem is proved by TLAPS for all constants that satisfy the named assumptions:
`ConstantsAssumption`, `InputsAssumption` (`IrcServer`), `LoopAssumption`, `StartAssumption`
(`ModeLoop`), `PollAssumption`, `TextAssumption`, `ReceptionAssumption`,
`DeliveryAssumption`, `FormatterAssumption`, `RelayAssumption`. They give the constants
their types and keep the special values apart (no key is `NoKey`, no character is the word
of a command). Two say more:

* `StartAssumption`: in a channel that a MODE command meets, a limit is marked exactly when
  there is one. `MarksSafe` proves it of every channel `IrcServer` reaches.
* `16 <= MaxMessageLength` in `RelayAssumption`; in the code it is 510.

Nothing is assumed of the allocator: it may give the address of a deleted `Client` again or not.

| theorem | statement |
|---|---|
| `TypeCorrect` | `Spec => []TypeOK` of `IrcServer` |
| `Invariant` | `Spec => []IInv` |
| `MembershipSafe`, `RegistrationSafe`, `NicknamesSafe` | three invariants of `membership` |
| `RefinesPresence` | `Spec => ImplementsPresence` |
| `EmptiedSafe`, `OrphanedSafe` | `EmptiedOnlyBySelfKick`, `OrphanedChannelIsFrozen` |
| `MarksSafe` | `Spec => []LimitMarked`, what `StartAssumption` takes for given |
| `LimitSafe`, `MessageSafe` | `FullChannelAdmitsNobody` (for a finite `Addr`: it counts members) and `OnlySenderIsSkipped` |
| `ViewInvariant`, `ViewsSafe` | `ViewSpec => []ViewInv`, `ViewsAreCurrent` |
| `PrivilegeInvariant`, `StatusSafe`, `InvitedSafe` | `HistorySpec => []PrivilegeInv`, `StatusStaysUntilTaken`, `InvitedHereOrBefore` |
| `LoopInvariant` of `ModeLoopProofs` | `Spec => []LoopInv` of `ModeLoop` |
| `LoopTypeSafe`, `LoopSafe`, `LimitMarkSafe` | the three invariants of `mode_loop` |
| `LoopInvariant` of `PollLoopProofs` | `Spec => []LoopInv` of `PollLoop` |
| `TypeSafe`, `VectorsMatch`, `ReventsSafe`, `SocketsSafe` | the four invariants of `poll_loop` |
| `NoLineLeft`, `DroppedSilent`, `LinesWholeSafe`, `NulDropsSafe` | the safety properties of `reception` |
| `StreamInvariant` | `Spec => []StreamInv` of `Delivery` |
| `KeepingUpSafe`, `LossSafe` | the safety properties of `delivery` |
| `RelayInvariant` | `Spec => []RelayInv` |
| `SplitsSafe`, `ParametersKeptSafe`, `TextSafe`, `TopicSafe`, `NamesSafe`, `BotSafe` | the six invariants of `relay` |

### The arguments

**IrcServer.** `TypeCorrect` is by itself inductive; its one long lemma, `ApplyModesType`, is that no
mode string takes a channel out of its type. Membership, registration and nicknames are not
inductive as they stand. `IInv` adds what they lean on:

* `NickGiven`: a client has a nickname exactly when its NICK was accepted. Uniqueness
  speaks of nicknames, registration of flags.
* `PasswordFirst`: NICK and USER were accepted only after PASS. `handlePass` does not try to
  register the client; without this fact a PASS that comes last would complete a handshake
  that nothing notices, and `RegisteredByHandshake` would break.
* `FreedIsBlank`: a free address and a free channel name are as new. `acceptNewClient` and
  `createChannel` start from nothing, which the agreement of the two membership
  records needs at both ends.

The step lemma goes by the handlers. The registration handlers share `HandshakeInv` (one
client's record changes, its channels do not), the handlers of channels share `EditsInv` (one
client enters or leaves one channel in both records at once) and `StaysInv` (no membership
changes), and `DisconnectInv` is used by all four ways to be disconnected. The action
properties go by the same cases. `EmptiedSafe` uses that an operator acts only in a channel
it is a member of, so the last member that is kicked is the one that kicks
(`MembershipAgrees`). `OrphanedSafe` needs `TypeOK` alone. `MessageSafe` uses that a sender is
registered, hence has a nickname (`NickGiven`), which nobody else has (`NicknamesUnique`).

**What watches IrcServer.** `RefinesPresence` maps each handler to a step of `Presence` with `IInv` as
the invariant: a client that becomes registered arrives with a free name
(`NicknamesUnique`), one that is dropped departs from all channels at once
(`MembershipAgrees`) or, when it was not registered, was in none (`RegisteredByHandshake`).

`ViewsAreCurrent` speaks of members; `ViewInv` says for every address and channel what the
list is: the nicknames of the members for a member, nothing for anybody else. A client that
comes back to a channel must start from an empty list, and so must one at an address that is
given again. The proof compares, handler by handler, what the client hears (`Heard`) with what
the handler did to the members; `NicknamesUnique` is what keeps the departure of one name
from taking another member off the list, and makes the renaming of a list its image.

`PrivilegeInv` says that `_operators` is what was given and not taken, address by address
(`StatusStaysUntilTaken`, which is inductive with the facts around it), that `_invitedClients` holds
only addresses with an invitation in the memory, and that the memory is of live clients and
channels. It does not ask what the allocator returns. `ModeGives` compares, for all
mode strings, what `ApplyModes` leaves in `_operators` with `Targets`; `CreationGives` and
`GivesNothingKeeps` are about the other handlers. `InvitedStep` and `KickedStep` say which
handlers enter a client into the invited and take one out.

**ModeLoop.** `LoopInv` is the closed form for the characters passed: `IsAfter` says of each mode,
the key, the limit and the operators what the last flag that was in force made of them, of the
first `pos` characters only; `ReachesWhatItPassed` that `adding` is the sign the string has
there and that no character passed was one that ends the loop. At the end of the string the
closed form is `ApplyModes`, the one step that `IrcServer` takes. `LimitMarkSafe` follows from the
closed form: the limit and its mark depend on the same flags.

**PollLoop.** None of its invariants is inductive. `LoopInv` (`PollLoopProofs`) states the
match of the two vectors by index (`FdsMatch`: entry `k + 1` is client `k`), that the clients
are distinct and exactly the open descriptors (`ClientsAreOpen`), that lines are handled
for an entry behind the first (`LinesHaveClient`), and when the listening socket is open and
nobody is connected (`Lifetime`). The hard step is `DisconnectInv`: the entry the walk
stands on and the client before it are erased, which `ErasedEntry` derives from the
distinctness; every later entry moves up by one, past the index, so that the entries still to be
visited are ones that were to be visited before, and none of them is the descriptor whose input
was discarded. Symmetrically `AcceptInv` appends an entry whose `revents` are unset. `KernelInv`
covers every step that leaves the vectors alone: peers only add to what can be read,
a recv takes away only from the entry that was just visited. `TypeSafe` adds that the clients are
an injection into the finite set of descriptors, which bounds the index.

**Reception.** `ReadingInv` says that lines are handled for an open connection, that of a
descriptor without connection nothing is buffered, handled or readable, and `NoLineWaits`.
For the bytes, `StreamsInv` splits the history of each connection
(`HasArrived`): what was sent is what was received and what is on the wire; of what was received,
whole lines were handled and the rest is in the buffer, equal to it up to the first NUL
(`LinesArriveWhole`) and embedded in it beyond (`NulOnlyDrops`). Its lemmas say where the
lines of a stream begin and end, and that a line more, or a chunk more, continues them.

**Delivery.** `StreamInv` is about an open socket: what its client has read, with what is still in the socket,
is made of a beginning of each message handed to `send`, all of it while there was always room, and the
messages still due are those of the calls to come. `KeepingUpSafe` and `LossSafe` read it at the end
of a handler, where no calls are to come.

**Split and Relay.** The parameters of a line are gathered by position: `UpTo(line, k)` are those that
begin among the first `k` characters. `SplitInv` says that the loop has found `UpTo` of what it has read,
and that afterwards the arguments are `Parameters`, or differ in the last one, which begins at
the first colon of the line instead (`GrewFrom`). `RelayInv` adds which message each handler
sent, for which arguments. What a client then reads is `Parameters` of that
message: a message that is built from plain words with blanks between them has these words
as its parameters (`IsHeader`), and the beginning of a message has a beginning of its parameters, the
last of them cut (`CutParameters`). The second half is why no maximum length is used but that
the fixed words before a list fit.

**Sequences.** Facts about `FlattenSeq`, `SelectInSeq` and the parts of a sequence are in
`SequenceFacts`. Where they need induction it is over the natural numbers, and by a least
counterexample (`Inducting`), since the library's rule takes an operator; the recursion in
`FlattenSeq` is replaced by the function of the joined beginnings (`Together`). One
limit of the tools shows in the text: the SMT backend cannot translate the string of a blank, so
`RelayProofs` calls it `Space` and gives Zenon the steps that look inside.

### Only model-checked

All liveness: `InputIsRead`, `GonePeerIsDropped`, `NewcomersAreAccepted`, `SignalEndsServer`,
`EveryLineIsServed` and `HandlersEnd` rest on fairness, that is on `ENABLED`, which the prover
does not reach.

## Not modelled

* **The wording of numerics**: the formatter's messages with a fixed text, `IrcCodes.hpp`, the
  logging. Numerics to the sender alone are left out of `IrcServer`; those of `Relay` are the
  ones on the way of a text.
* **The failure of setsockopt**, which is ignored.
* **poll failing while a signal is pending**: `run` then walks over what the last poll wrote.
* **Half-closed peers**: a peer that shuts down its sending side and still reads is a closed one.
* **Which interface is chosen** and what it prints.
* `printChannels`, which only prints, and `handleQuit`, which nothing calls.
* The growth of `_messageBuffer`: nothing in the code bounds it, so there is nothing to state.
* State that is written and never read: `_isAway`, `_isOperator`, `_lastPongTime`,
  `_lastActivityTime`, `pingReceived`, `_voicedClients`, `_clientsToRemove`; and username,
  hostname and real name, which are only formatted.

## Plan

Done: all modules above, and a theorem for every safety property of the passing runs.
What would add most next:

1. The composition of `Reception` with `IrcServer`: the lines as the commands whose handlers
   run, so that the order of lines and the order of handlers are stated in one specification.
2. `Delivery` with several channels, and with the numerics between the broadcasts. `StreamInv`
   does not ask what the messages are, so it carries over.
3. That a walk ends: a variant function for the walk of `run` and for the loop over the lines,
   as action properties, which is the part of liveness that needs no fairness.
