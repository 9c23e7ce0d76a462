-------------------------- MODULE PrivilegeHistory --------------------------
(***************************************************************************)
(* IrcServer with a memory of the invitations and of the operator status   *)
(* that clients were given, to compare with what _invitedClients and       *)
(* _operators say. Those vectors hold addresses and disconnectClient does  *)
(* not touch them, while the allocator may give the address of a deleted   *)
(* Client again, so the memory is kept apart for the connection an address *)
(* stands for now and for those it stood for before.                       *)
(***************************************************************************)
EXTENDS IrcServer

VARIABLES
  invites,    \* <<a, ch>>: the client at a was invited to ch, not kicked from it since
  grants,     \* <<a, ch>>: the client at a was given operator status of ch, not deprived since
  oldInvites, \* the invitations an earlier client at the address had at its end
  oldGrants   \* the operator status an earlier client at the address had at its end

historyVars == <<vars, invites, grants, oldInvites, oldGrants>>

\* The messages of type `type` sent to the client they name, with their channels.
Told(type) ==
  {<<p.to, p.chan>> : p \in {q \in out' : /\ q.type = type /\ q.to \in clients
                                        /\ q.arg = client[q.to].nick}}

\* What is left at the end of a step of a record of clients, and what the clients
\* before them leave behind. Both end with the channel.
Current(S) == {p \in S : p[1] \in clients' /\ p[2] \in channels'}
Past(S) == {p \in S : p[1] \notin clients' /\ p[2] \in channels'}
Still(S) == {p \in S : p[2] \in channels'}

\* given and taken are the operator status the command gives and takes away; an
\* invitation and a kick are known by the message their target is sent.
Remember(given, taken) ==
  /\ grants' = Current((grants \cup given) \ taken)
  /\ oldGrants' = Still(oldGrants \ taken) \cup Past(grants)
  /\ invites' = Current((invites \cup Told("INVITE")) \ Told("KICK"))
  /\ oldInvites' = Still(oldInvites \ Told("KICK")) \cup Past(invites)

\* The target of the last o an operator's MODE command comes to, if its sign is
\* that of `adds`.
Targets(ch, ms, arg, adds) ==
  LET named == IF arg = NoArg THEN {} ELSE MembersNamed(ch, arg.nick)
      letters == {p \in Reached(ms, arg, named) : ms[p] = "o"}
  IN IF letters # {} /\ LastAdds(ms, letters) = adds THEN named \X {ch} ELSE {}

\* What gives or takes no operator status: everything but MODE and the JOIN that
\* creates a channel.
GivesNothing ==
  \E a \in Addr :
    \/ Connection(a)
    \/ \E n \in Nick, text \in Text : SendMessageToUser(a, n, text)
    \/ \E ch \in ChanName :
         \/ ch \in channels /\ \E k \in JoinKey : HandleJoin(a, ch, k)
         \/ HandlePart(a, ch)
         \/ \E n \in Nick : HandleKick(a, ch, n) \/ HandleInvite(a, n, ch)
         \/ \E t \in TopicWord : HandleTopic(a, ch, t)
         \/ \E text \in Text : SendMessageToChannel(a, ch, text)

Creates(a, ch) == ch \notin channels /\ \E k \in JoinKey : HandleJoin(a, ch, k)

HistoryInit ==
  /\ Init
  /\ invites = {} /\ grants = {} /\ oldInvites = {} /\ oldGrants = {}

HistoryNext ==
  \/ GivesNothing /\ Remember({}, {})
  \/ \E a \in Addr, ch \in ChanName :
       \/ Creates(a, ch) /\ Remember({<<a, ch>>}, {})
       \/ \E ms \in ModeString, arg \in ModeArg \cup {NoArg} :
            /\ HandleMode(a, ch, ms, arg)
            /\ Remember(Targets(ch, ms, arg, TRUE), Targets(ch, ms, arg, FALSE))

HistorySpec == HistoryInit /\ [][HistoryNext]_historyVars

-----------------------------------------------------------------------------
\* Operator status, whoever has it, was given at that address: to the one who
\* created the channel or by an operator's MODE +o. And it stays there until an
\* operator's MODE -o takes it: PART, KICK and the end of the connection leave it
\* to the client, or to the next one the allocator puts there (_operators).
StatusStaysUntilTaken ==
  \A ch \in ChanName :
    channel[ch].operators = {a \in Addr : <<a, ch>> \in grants \cup oldGrants}

\* Who joins a live invite-only channel was sent an INVITE to it since it was
\* created, or an earlier client at its address was, and was not kicked since:
\* JOIN and PART use no invitation up, and a lost connection leaves it behind
\* (handleInvite, handleJoin, handleKick, _invitedClients). README.md says of the
\* mode: "Set channel mode (invite-only)".
InvitedHereOrBefore ==
  [][\A a \in Addr, ch \in ChanName :
       /\ Survives(ch) /\ "i" \in channel[ch].modes
       /\ a \in channel'[ch].clients \ channel[ch].clients
       => <<a, ch>> \in invites \cup oldInvites]_historyVars

\* A member is an operator only of channels it created ("Automatically
\* make the client an operator in the new channel", createChannel) or was made
\* operator of by a MODE (README.md: "Give user operator status").
OperatorsWereGranted ==
  \A ch \in channels : \A a \in channel[ch].clients :
    IsOperator(a, ch) => <<a, ch>> \in grants
=============================================================================
