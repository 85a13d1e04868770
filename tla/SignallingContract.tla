-------------------------- MODULE SignallingContract --------------------------
(***************************************************************************)
(* What the signalling server promises to its users, with no connection,   *)
(* goroutine or mutex in sight: a table of ids and their roles, the public *)
(* list, and the message a step delivers.  Ids join as one role and keep   *)
(* it until they leave; exactly the servers are listed; a message goes     *)
(* from a member to a member and never from a client to a client.          *)
(***************************************************************************)
EXTENDS Naturals, FiniteSets

CONSTANTS
  Ids,        \* peer ids
  NoId,       \* the empty id
  RelayTypes, \* kinds of message that are relayed
  MaxConns    \* most members at a time; 0 is unlimited

VARIABLES
  members,    \* the role of each id; "" for an id that is not a member
  listed,     \* the ids that /servers returns
  frame       \* the message this step delivers, if any

vars == <<members, listed, frame>>

NoFrame == [from |-> NoId, to |-> NoId, kind |-> "none"]
Joined == {id \in Ids : members[id] # ""}

Init ==
  /\ members = [id \in Ids |-> ""]
  /\ listed = {}
  /\ frame = NoFrame

Admit(id, role) ==
  /\ members[id] = ""
  /\ MaxConns = 0 \/ Cardinality(Joined) < MaxConns
  /\ members' = [members EXCEPT ![id] = role]
  /\ listed' = IF role = "server" THEN listed \cup {id} ELSE listed
  /\ frame' = NoFrame

Withdraw(id) ==
  /\ members[id] # ""
  /\ members' = [members EXCEPT ![id] = ""]
  /\ listed' = listed \ {id}
  /\ frame' = NoFrame

Deliver(from, to, kind) ==
  /\ {from, to} \subseteq Joined
  /\ "server" \in {members[from], members[to]}
  /\ frame' = [from |-> from, to |-> to, kind |-> kind]
  /\ UNCHANGED <<members, listed>>

Quiet ==
  /\ frame' = NoFrame
  /\ UNCHANGED <<members, listed>>

Next ==
  \/ \E id \in Ids, role \in {"client", "server"} : Admit(id, role)
  \/ \E id \in Ids : Withdraw(id)
  \/ \E from, to \in Ids, kind \in RelayTypes : Deliver(from, to, kind)
  \/ Quiet

Spec == Init /\ [][Next]_vars
=============================================================================
