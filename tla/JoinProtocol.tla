----------------------------- MODULE JoinProtocol -----------------------------
(***************************************************************************)
(* How a game client gets a peer connection with a game server: the        *)
(* clients (network_client.cpp), the game server's process, possibly       *)
(* restarted (network_server.cpp), and the relay between them (main.go)    *)
(* with one FIFO wire each way for every websocket.                        *)
(*                                                                         *)
(* A client registers and joins; the server creates a connection, whose    *)
(* library thread sends an offer and candidates through callbacks while    *)
(* the handler that created it is still running; the client answers.       *)
(* Messages are handled one at a time on each websocket's own thread.      *)
(* The relay does what SignallingContract allows: see RelayKeepsContract.  *)
(***************************************************************************)
EXTENDS Naturals, Sequences, FiniteSets, SequencesExt

CONSTANTS
  Clients,    \* client processes; each draws an id of its own, once
  Runs,       \* processes of the game server, one after the other
  ServerId,   \* the id all of them register, 12345
  Nobody,     \* no peer
  Candidates  \* how many candidates a connection gathers

ASSUME JoinAssumption ==
  /\ Clients \cap Runs = {}
  /\ ServerId \notin Clients /\ Nobody \notin Clients \cup Runs \cup {ServerId}
  /\ Candidates \in Nat

VARIABLES
  entry,   \* the relay's table: which peer's connection each id has
  up, down,\* the wires to and from the relay
  ws,      \* each peer's websocket: none, connecting, open, gone
  greeted, \* whether onOpen has sent `register`
  waiting, \* whether the promise that onOpen fulfils still exists
  clients, \* NetworkServer::m_clients of each run, plus the one in the making
  server,  \* NetworkClient::m_connection
  storing, \* the client whose connection a run's handler is creating
  misfits, \* messages a handler had no use for: no connection, or it threw
  lost,    \* whether the relay has lost a message to a write race
  frame    \* the message the relay put on a wire in this step, if any

peerVars == <<greeted, waiting, clients, server, storing, misfits>>
vars == <<entry, up, down, ws, lost, frame, peerVars>>

Peers == Clients \cup Runs
Ids == Clients \cup {ServerId}
IdOf(p) == IF p \in Runs THEN ServerId ELSE p
RoleOf(p) == IF p \in Runs THEN "server" ELSE IF p \in Clients THEN "client" ELSE ""
RelayTypes == {"join", "offer", "answer", "candidate"}
NoFrame == [from |-> Nobody, to |-> Nobody, kind |-> "none"]

(* A message names its target on the way up and its sender on the way      *)
(* down; `of` is what its description or candidate belongs to.             *)
Msg(type, id, of) == [type |-> type, id |-> id, of |-> of]

(* A peer connection: the remote description it has, the remote candidates *)
(* it took, what its callbacks have still to send, and whether it takes    *)
(* the place of one that disconnect closed.                                *)
NoConnection == [made |-> FALSE, stored |-> FALSE, remote |-> Nobody,
                 taken |-> 0, out |-> <<>>, closed |-> FALSE]

(* Fault: candidates are sent as they come, before the description.        *)
EagerTrickle(type, id, of) ==
  [i \in 1 .. Candidates + 1 |->
     Msg(IF i <= Candidates THEN "candidate" ELSE type, id, of)]

(* The library calls onLocalDescription, then onLocalCandidate.            *)
Trickle(type, id, of) ==
  [i \in 1 .. Candidates + 1 |-> Msg(IF i = 1 THEN type ELSE "candidate", id, of)]

Send(p, m) == up' = [up EXCEPT ![p] = Append(@, m)]
-----------------------------------------------------------------------------
Init ==
  /\ entry = [id \in Ids |-> Nobody]
  /\ up = [p \in Peers |-> <<>>]
  /\ down = [p \in Peers |-> <<>>]
  /\ ws = [p \in Peers |-> "none"]
  /\ greeted = [p \in Peers |-> FALSE]
  /\ waiting = [p \in Peers |-> FALSE]
  /\ clients = [s \in Runs |-> [c \in Clients |-> NoConnection]]
  /\ server = [c \in Clients |-> NoConnection]
  /\ storing = [s \in Runs |-> Nobody]
  /\ misfits = {}
  /\ lost = FALSE
  /\ frame = NoFrame

(* startSignallingWebsocket, up to the wait.  A run starts when the one    *)
(* before it is gone.                                                      *)
Open(p) ==
  /\ ws[p] = "none"
  /\ p \in Runs => \A s \in Runs \ {p} : ws[s] \in {"none", "gone"}
  /\ ws' = [ws EXCEPT ![p] = "connecting"]
  /\ waiting' = [waiting EXCEPT ![p] = TRUE]
  /\ frame' = NoFrame
  /\ UNCHANGED <<lost, entry, up, down, greeted, clients, server, storing, misfits>>

(* The library's state is Open before it calls onOpen.                     *)
Opened(p) ==
  /\ ws[p] = "connecting"
  /\ ws' = [ws EXCEPT ![p] = "open"]
  /\ frame' = NoFrame
  /\ UNCHANGED <<lost, entry, up, down, peerVars>>

(* onOpen sends `register` and fulfils the promise.  If the wait has timed *)
(* out the promise is gone: undefined, the process may or may not survive. *)
OnOpen(p) ==
  /\ ws[p] = "open" /\ ~greeted[p]
  /\ Send(p, Msg("register", IdOf(p), p))
  /\ greeted' = [greeted EXCEPT ![p] = TRUE]
  /\ \/ UNCHANGED ws
     \/ ~waiting[p] /\ ws' = [ws EXCEPT ![p] = "gone"]
  /\ frame' = NoFrame
  /\ UNCHANGED <<lost, entry, down, waiting, clients, server, storing, misfits>>

(* Fault: after the join the client goes on waiting.                       *)
RetryingEndWait(p) ==
  /\ waiting[p]
  /\ IF p \in Runs
       THEN UNCHANGED <<up, ws>>
       ELSE IF ws[p] = "open"
         THEN Send(p, Msg("join", ServerId, p)) /\ UNCHANGED ws
         ELSE ws' = [ws EXCEPT ![p] = "gone"] /\ UNCHANGED up
  /\ frame' = NoFrame
  /\ UNCHANGED <<lost, entry, down, greeted, waiting, clients, server, storing, misfits>>

(* The wait ends, because onOpen ran, the websocket failed, or time is up. *)
(* A client then sends `join` without looking at which it was; on a        *)
(* websocket that is not open, send throws and ends the process.  The      *)
(* server just goes on.                                                    *)
EndWait(p) ==
  /\ waiting[p]
  /\ waiting' = [waiting EXCEPT ![p] = FALSE]
  /\ IF p \in Runs
       THEN UNCHANGED <<up, ws>>
       ELSE IF ws[p] = "open"
         THEN Send(p, Msg("join", ServerId, p)) /\ UNCHANGED ws
         ELSE ws' = [ws EXCEPT ![p] = "gone"] /\ UNCHANGED up
  /\ frame' = NoFrame
  /\ UNCHANGED <<lost, entry, down, greeted, clients, server, storing, misfits>>

(* The process ends or its link fails, at any time.                        *)
Leave(p) ==
  /\ ws[p] \in {"connecting", "open"}
  /\ ws' = [ws EXCEPT ![p] = "gone"]
  /\ frame' = NoFrame
  /\ UNCHANGED <<lost, entry, up, down, peerVars>>

(* NetworkClient::disconnect closes the connection there is and nothing    *)
(* else: the websocket and its handler stay.  Before the offer there is    *)
(* none: the call is forgotten, and the offer makes a connection.  The     *)
(* handler may be at work on the connection at this moment; that race is   *)
(* not modelled.                                                           *)
Disconnect(c) ==
  /\ ws[c] # "gone"
  /\ server' = IF server[c].made
       THEN [server EXCEPT ![c] = [NoConnection EXCEPT !.closed = TRUE]]
       ELSE server
  /\ frame' = NoFrame
  /\ UNCHANGED <<lost, entry, up, down, ws, greeted, waiting, clients, storing, misfits>>
-----------------------------------------------------------------------------
(* setRemoteDescription and addRemoteCandidate of the library.             *)
Accepts(pc, m) ==
  CASE m.type = "offer"     -> TRUE
    [] m.type = "answer"    -> pc.remote = Nobody
    [] m.type = "candidate" -> pc.remote # Nobody
    [] OTHER                -> TRUE

Apply(pc, m, self) ==
  CASE m.type = "offer"     -> [pc EXCEPT !.remote = m.of,
                                  !.out = @ \o Trickle("answer", m.id, self)]
    [] m.type = "answer"    -> [pc EXCEPT !.remote = m.of]
    [] m.type = "candidate" -> [pc EXCEPT !.taken = @ + 1]
    [] OTHER                -> pc

Receive(p) == down' = [down EXCEPT ![p] = Tail(@)]
Misfit(p, m) == misfits' = misfits \cup {<<p, m.type>>}

(* NetworkClient::handleSignallingMessage: an offer makes the connection,  *)
(* anything else needs one.                                                *)
ClientReceive(c) ==
  LET m == Head(down[c])
      pc == IF m.type = "offer" THEN [server[c] EXCEPT !.made = TRUE, !.stored = TRUE]
                                ELSE server[c]
  IN
  /\ ws[c] = "open" /\ down[c] # <<>>
  /\ Receive(c)
  /\ IF m.type # "join" /\ pc.made /\ Accepts(pc, m)
       THEN server' = [server EXCEPT ![c] = Apply(pc, m, c)] /\ UNCHANGED misfits
       ELSE Misfit(c, m) /\ UNCHANGED server
  /\ frame' = NoFrame
  /\ UNCHANGED <<lost, entry, up, ws, greeted, waiting, clients, storing>>

(* Fault: any message may be a client's first.                             *)
AnyCreates(type) == TRUE

Creates(type) == type \in {"offer", "join"}

(* NetworkServer::handleSignallingMessage.  A join from a client without   *)
(* an entry enters createClientConnection, where the library starts to     *)
(* negotiate before the entry is stored; the rest looks the entry up.      *)
ServerReceive(s) ==
  LET m == Head(down[s])
      c == m.id
      pc == clients[s][c]
  IN
  /\ ws[s] = "open" /\ down[s] # <<>> /\ storing[s] = Nobody
  /\ \/ /\ ~pc.stored /\ Creates(m.type)
        /\ clients' = [clients EXCEPT ![s][c] =
             [pc EXCEPT !.made = TRUE, !.out = Trickle("offer", c, s)]]
        /\ storing' = [storing EXCEPT ![s] = c]
        /\ UNCHANGED <<down, misfits>>
     \/ /\ pc.stored
        /\ Receive(s)
        /\ IF Accepts(pc, m)
             THEN /\ clients' = [clients EXCEPT ![s][c] = Apply(pc, m, s)]
                  /\ UNCHANGED misfits
             ELSE Misfit(s, m) /\ UNCHANGED clients
        /\ UNCHANGED storing
     \/ /\ ~pc.stored /\ ~Creates(m.type)
        /\ Receive(s)
        /\ Misfit(s, m)
        /\ UNCHANGED <<clients, storing>>
  /\ frame' = NoFrame
  /\ UNCHANGED <<lost, entry, up, ws, greeted, waiting, server>>

(* Fault: the entry is stored after its parts were moved out of it.        *)
EmptyStore(s) ==
  /\ storing[s] # Nobody
  /\ clients' = [clients EXCEPT ![s][storing[s]] = [NoConnection EXCEPT !.stored = TRUE]]
  /\ storing' = [storing EXCEPT ![s] = Nobody]
  /\ frame' = NoFrame
  /\ UNCHANGED <<lost, entry, up, down, ws, greeted, waiting, server, misfits>>

(* The end of createClientConnection: m_clients[id] is set, and the        *)
(* handler goes on with its message, which ServerReceive then takes.       *)
Store(s) ==
  /\ storing[s] # Nobody
  /\ clients' = [clients EXCEPT ![s][storing[s]].stored = TRUE]
  /\ storing' = [storing EXCEPT ![s] = Nobody]
  /\ frame' = NoFrame
  /\ UNCHANGED <<lost, entry, up, down, ws, greeted, waiting, server, misfits>>

(* The callbacks onLocalDescription and onLocalCandidate, on the library's *)
(* thread: they do not wait for the handlers.                              *)
ServerSend(s, c) ==
  /\ ws[s] = "open" /\ clients[s][c].out # <<>>
  /\ Send(s, Head(clients[s][c].out))
  /\ clients' = [clients EXCEPT ![s][c].out = Tail(@)]
  /\ frame' = NoFrame
  /\ UNCHANGED <<lost, entry, down, ws, greeted, waiting, server, storing, misfits>>

ClientSend(c) ==
  /\ ws[c] = "open" /\ server[c].out # <<>>
  /\ Send(c, Head(server[c].out))
  /\ server' = [server EXCEPT ![c].out = Tail(@)]
  /\ frame' = NoFrame
  /\ UNCHANGED <<lost, entry, down, ws, greeted, waiting, clients, storing, misfits>>
-----------------------------------------------------------------------------
TakeUp(p) == up[p] # <<>> /\ up' = [up EXCEPT ![p] = Tail(@)]

(* PeerManager.Register: an id in use is refused, and nobody is told.      *)
RelayRegister(p) ==
  /\ TakeUp(p)
  /\ Head(up[p]).type = "register"
  /\ entry' = IF entry[IdOf(p)] = Nobody THEN [entry EXCEPT ![IdOf(p)] = p] ELSE entry
  /\ frame' = NoFrame
  /\ UNCHANGED <<lost, down, ws, peerVars>>

(* Faults: an unregistered sender is let through; so are only servers.     *)
OpenMayRelay(p) ==
  LET target == entry[Head(up[p]).id] IN
  target # Nobody /\ "server" \in {RoleOf(p), RoleOf(target)}

OneWayMayRelay(p) ==
  /\ entry[IdOf(p)] = p /\ entry[Head(up[p]).id] # Nobody
  /\ RoleOf(p) = "server"

(* handleConnection's checks: the sender is registered, the target exists, *)
(* and they are not both clients.                                          *)
MayRelay(p) ==
  LET target == entry[Head(up[p]).id] IN
  /\ entry[IdOf(p)] = p
  /\ target # Nobody
  /\ "server" \in {RoleOf(p), RoleOf(target)}

RelayForward(p) ==
  LET m == Head(up[p])
      target == entry[m.id]
  IN
  /\ TakeUp(p)
  /\ m.type # "register" /\ MayRelay(p)
  /\ down' = [down EXCEPT ![target] = Append(@, Msg(m.type, IdOf(p), m.of))]
  /\ frame' = [from |-> IdOf(p), to |-> m.id, kind |-> m.type]
  /\ UNCHANGED <<lost, entry, ws, peerVars>>

RelayDrop(p) ==
  /\ TakeUp(p)
  /\ Head(up[p]).type # "register" /\ ~MayRelay(p)
  /\ frame' = NoFrame
  /\ UNCHANGED <<lost, entry, down, ws, peerVars>>

(* Two handlers in WriteMessage on one connection may garble a message;    *)
(* the target's own handler is there to answer a ping.                     *)
RelayLose(p) ==
  /\ TakeUp(p)
  /\ Head(up[p]).type # "register" /\ MayRelay(p)
  /\ lost' = TRUE
  /\ frame' = NoFrame
  /\ UNCHANGED <<entry, down, ws, peerVars>>

(* The connection of p ends at the relay: Unregister if it is registered.  *)
Evict(p) ==
  /\ entry' = [id \in Ids |-> IF entry[id] = p THEN Nobody ELSE entry[id]]
  /\ down' = [down EXCEPT ![p] = <<>>]
  /\ frame' = NoFrame

(* WriteMessage to a peer that is gone fails, and with it the connection   *)
(* of the peer that sent the message.                                      *)
RelayFails(p) ==
  /\ up[p] # <<>> /\ ws[p] # "gone"
  /\ Head(up[p]).type # "register" /\ MayRelay(p)
  /\ ws[entry[Head(up[p]).id]] = "gone"
  /\ Evict(p)
  /\ up' = [up EXCEPT ![p] = <<>>]
  /\ ws' = [ws EXCEPT ![p] = "gone"]
  /\ UNCHANGED <<lost, peerVars>>

RelayTeardown(p) ==
  /\ ws[p] = "gone"
  /\ entry[IdOf(p)] = p \/ up[p] # <<>> \/ down[p] # <<>>
  /\ Evict(p)
  /\ up' = [up EXCEPT ![p] = <<>>]
  /\ UNCHANGED <<lost, ws, peerVars>>

Relay(p) ==
  RelayRegister(p) \/ RelayForward(p) \/ RelayDrop(p) \/ RelayLose(p)
    \/ RelayFails(p) \/ RelayTeardown(p)

Next ==
  \/ \E p \in Peers : Open(p) \/ Opened(p) \/ OnOpen(p) \/ EndWait(p) \/ Leave(p) \/ Relay(p)
  \/ \E c \in Clients : ClientReceive(c) \/ ClientSend(c) \/ Disconnect(c)
  \/ \E s \in Runs : ServerReceive(s) \/ Store(s) \/ (\E c \in Clients : ServerSend(s, c))

Spec == Init /\ [][Next]_vars

(* Threads are scheduled fairly, waits end, and wires deliver; nothing     *)
(* makes a peer open a websocket, succeed in it, or leave.                 *)
Fairness ==
  /\ \A p \in Peers : WF_vars(OnOpen(p)) /\ WF_vars(EndWait(p)) /\ WF_vars(Relay(p))
  /\ \A c \in Clients : WF_vars(ClientReceive(c)) /\ WF_vars(ClientSend(c))
  /\ \A s \in Runs : /\ WF_vars(ServerReceive(s)) /\ WF_vars(Store(s))
                     /\ \A c \in Clients : WF_vars(ServerSend(s, c))

FairSpec == Spec /\ Fairness
-----------------------------------------------------------------------------
MsgTypes == RelayTypes \cup {"register"}
Messages == [type : MsgTypes, id : Ids, of : Peers]
Connection == [made : BOOLEAN, stored : BOOLEAN, remote : Peers \cup {Nobody},
               taken : Nat, out : Seq(Messages), closed : BOOLEAN]

(* Every variable has its type, an entry belongs to a peer of that id, and *)
(* what m_clients holds has been made and is not being made again          *)
(* ("assert(!m_clients.contains(id))", network_server.cpp:146).            *)
TypeOK ==
  /\ entry \in [Ids -> Peers \cup {Nobody}]
  /\ \A id \in Ids : entry[id] # Nobody => IdOf(entry[id]) = id
  /\ up \in [Peers -> Seq(Messages)]
  /\ down \in [Peers -> Seq(Messages)]
  /\ ws \in [Peers -> {"none", "connecting", "open", "gone"}]
  /\ greeted \in [Peers -> BOOLEAN]
  /\ waiting \in [Peers -> BOOLEAN]
  /\ clients \in [Runs -> [Clients -> Connection]]
  /\ server \in [Clients -> Connection]
  /\ storing \in [Runs -> Clients \cup {Nobody}]
  /\ \A s \in Runs, c \in Clients :
       clients[s][c].stored => clients[s][c].made /\ storing[s] # c
  /\ misfits \subseteq Peers \X MsgTypes
  /\ lost \in BOOLEAN

(* The game server's entry for a client has a remote description only if   *)
(* the client took the offer of this very run of the server, although all  *)
(* runs have one id and answers are routed by it alone                     *)
(* (network_server.cpp:38, 135-137, main.go:257); that lasts until the     *)
(* client disconnects.                                                     *)
DescriptionsPaired ==
  \A s \in Runs, c \in Clients :
    clients[s][c].remote # Nobody =>
      clients[s][c].remote = c /\ (server[c].remote = s \/ server[c].closed)

(* No message ever finds its handler without a connection or its           *)
(* connection without the description it needs, though the offer is sent   *)
(* before m_clients has the entry its answer looks up                      *)
(* (network_server.cpp:162-180, 250-255): unless the relay lost a message, *)
(* a run of the server ended, or a client closed its connection.           *)
NoMisfits ==
  misfits # {} =>
    lost \/ (\E s \in Runs : ws[s] = "gone") \/ (\E c \in Clients : server[c].closed)

(* A disconnect that found a connection is final: no other follows, though *)
(* the websocket stays, its handler makes a connection of any offer, and   *)
(* the server may restart and be sent what was meant for the run before    *)
(* (network_client.cpp:106-112, 199-206).  It is not so for a disconnect   *)
(* before the offer, which finds none and is forgotten: the connection is  *)
(* then made and negotiated all the same (JoinNegotiates makes no          *)
(* exception of it).                                                       *)
DisconnectFinal == \A c \in Clients : server[c].closed => ~server[c].made

(* The relay as it is modelled here keeps the contract that the detailed   *)
(* model of main.go implements.                                            *)
Contract == INSTANCE SignallingContract
  WITH NoId <- Nobody, MaxConns <- 0,
       members <- [id \in Ids |-> IF entry[id] = Nobody THEN "" ELSE RoleOf(entry[id])],
       listed <- {id \in Ids : entry[id] \in Runs}
RelayKeepsContract == Contract!Spec

(* A client whose onOpen ran in time, while a server is registered, gets   *)
(* its offer taken and its answer to that server, with all candidates,     *)
(* unless one of the two goes, the relay loses a message, or the client    *)
(* disconnects from it: a disconnect between the join and the offer does   *)
(* not keep it from being made (docs/signalling.md:102-120,                *)
(* network_client.cpp:106-112, 199-206).                                   *)
Complete(s, c) ==
  /\ server[c].remote = s /\ clients[s][c].remote = c
  /\ server[c].taken = Candidates /\ clients[s][c].taken = Candidates
Excused(s, c) == "gone" \in {ws[s], ws[c]} \/ server[c].closed \/ lost
JoinNegotiates ==
  \A s \in Runs, c \in Clients :
    (greeted[c] /\ waiting[c] /\ entry[ServerId] = s) ~> (Complete(s, c) \/ Excused(s, c))

(* What belongs to this connection is not with a callback or on a wire.    *)
Settled(s, c) ==
  /\ clients[s][c].out = <<>> /\ server[c].out = <<>> /\ up[c] = <<>> /\ down[c] = <<>>
  /\ \A m \in ToSet(up[s]) \cup ToSet(down[s]) : m.id # c

(* A connection for which nothing is on its way any more has all it needs, *)
(* each description and each candidate once: a callback before the entry   *)
(* is stored, a client or a run that comes and goes, and a candidate that  *)
(* a handler would throw away cost it nothing (network_server.cpp:162-180, *)
(* 250-255, network_client.cpp:106-124); with the same exceptions.         *)
NothingMissing ==
  \A s \in Runs, c \in Clients :
    clients[s][c].made /\ Settled(s, c) => Complete(s, c) \/ Excused(s, c)

(* "Registration (first message after WebSocket connect)"                  *)
(* (docs/signalling.md:45), with the one exception this code makes:        *)
(* nothing is sent before `register` but the `join` of a client whose wait *)
(* timed out (network_client.cpp:22-25, 74-77).                            *)
RegisterFirst ==
  \A p \in Peers : ~greeted[p] /\ up[p] # <<>> =>
    p \in Clients /\ ~waiting[p] /\ up[p] = <<Msg("join", ServerId, p)>>

(* Not so in this code.  "Server added to /servers list"                   *)
(* (docs/signalling.md:96): a server that sends `register` is listed, if   *)
(* it stays.                                                               *)
RegisteredServerListed ==
  \A s \in Runs : greeted[s] ~> (entry[ServerId] = s \/ ws[s] = "gone")
=============================================================================
