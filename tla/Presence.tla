------------------------------ MODULE Presence ------------------------------
(***************************************************************************)
(* What the server promises about who is there: registered users with      *)
(* names nobody else has, and channels whose members are registered users. *)
(* A user that goes leaves every channel in the same step. Connections,    *)
(* the handshake and the channels' settings do not appear here.            *)
(***************************************************************************)
CONSTANTS User, Name, NoName, Room

VARIABLES
  present,  \* the registered users
  name,     \* the name of each, NoName of the others
  members   \* the users in each channel

vars == <<present, name, members>>

Free(u, n) == n \in Name /\ \A v \in present \ {u} : name[v] # n

Init ==
  /\ present = {} /\ name = [u \in User |-> NoName] /\ members = [r \in Room |-> {}]

Arrive(u, n) ==
  /\ u \notin present /\ Free(u, n)
  /\ present' = present \cup {u}
  /\ name' = [name EXCEPT ![u] = n]
  /\ UNCHANGED members

Rename(u, n) ==
  /\ u \in present /\ Free(u, n)
  /\ name' = [name EXCEPT ![u] = n]
  /\ UNCHANGED <<present, members>>

Enter(u, r) ==
  /\ u \in present \ members[r]
  /\ members' = [members EXCEPT ![r] = @ \cup {u}]
  /\ UNCHANGED <<present, name>>

\* By itself or by an operator's hand.
Leave(u, r) ==
  /\ u \in members[r]
  /\ members' = [members EXCEPT ![r] = @ \ {u}]
  /\ UNCHANGED <<present, name>>

Depart(u) ==
  /\ u \in present
  /\ present' = present \ {u}
  /\ name' = [name EXCEPT ![u] = NoName]
  /\ members' = [r \in Room |-> members[r] \ {u}]

Next ==
  \E u \in User :
    \/ \E n \in Name : Arrive(u, n) \/ Rename(u, n)
    \/ \E r \in Room : Enter(u, r) \/ Leave(u, r)
    \/ Depart(u)

Spec == Init /\ [][Next]_vars
=============================================================================
