----------------------------- MODULE ClientViews -----------------------------
(***************************************************************************)
(* What the clients of IrcServer know. Each client keeps the list of       *)
(* nicknames of every channel it is in from the messages it is sent and    *)
(* from nothing else: JOIN, NAMES, PART, KICK, QUIT and NICK. TCP delivers the  *)
(* messages of one client in the order they were sent, so applying them at *)
(* the step that sends them gives what the client knows once it has read   *)
(* them all.                                                               *)
(***************************************************************************)
EXTENDS IrcServer

VARIABLE view  \* view[a][ch]: the nicknames client a lists in channel ch

Got(a, type) == {p \in out' : p.to = a /\ p.type = type}

Nicks(P) == {p.nick : p \in P}

NicksIn(P, ch) == {p.nick : p \in {q \in P : q.chan = ch}}

\* The channels that a's own PART, or a KICK of a, made it leave.
LeftByOwn(a) ==
  {p.chan : p \in {q \in Got(a, "PART") : q.nick = client[a].nick}}
  \cup {p.chan : p \in {q \in Got(a, "KICK") : q.arg = client[a].nick}}

\* The nicknames that leave a's list of ch.
Gone(a, ch) ==
  NicksIn(Got(a, "PART"), ch) \cup Nicks(Got(a, "QUIT"))
  \cup {p.arg : p \in {q \in Got(a, "KICK") : q.chan = ch}}

\* A nickname after the NICK messages a was sent.
Renamed(a, n) ==
  IF \E p \in Got(a, "NICK") : p.nick = n
  THEN (CHOOSE p \in Got(a, "NICK") : p.nick = n).arg
  ELSE n

\* A NAMES list replaces what the client had; the rest edits it.
Heard(a, ch) ==
  IF NicksIn(Got(a, "NAMES"), ch) # {} THEN NicksIn(Got(a, "NAMES"), ch)
  ELSE IF ch \in LeftByOwn(a) THEN {}
  ELSE {Renamed(a, n) : n \in (view[a][ch] \cup NicksIn(Got(a, "JOIN"), ch)) \ Gone(a, ch)}

Listen ==
  view' = [a \in Addr |-> [ch \in ChanName |-> IF a \in clients' THEN Heard(a, ch) ELSE {}]]

ViewInit == Init /\ view = [a \in Addr |-> [ch \in ChanName |-> {}]]

\* A server step, heard by those it was sent to.
ViewNext == Next /\ Listen

ViewSpec == ViewInit /\ [][ViewNext]_<<vars, view>>

-----------------------------------------------------------------------------
\* Every member of a channel lists exactly the nicknames of its members, and a
\* client lists nobody in a channel it is not in: the broadcasts of JOIN, PART,
\* KICK, QUIT and NICK, taken together, leave no client with a stale list.
ViewsAreCurrent ==
  \A a \in clients, ch \in ChanName :
    view[a][ch] = IF IsInChannel(a, ch)
                  THEN {client[b].nick : b \in channel[ch].clients}
                  ELSE {}
=============================================================================
