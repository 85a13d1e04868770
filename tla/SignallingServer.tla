--------------------------- MODULE SignallingServer ---------------------------
(***************************************************************************)
(* The signalling server, signalling-server/main.go: a PeerManager shared  *)
(* by one handler goroutine per websocket, and the shutdown goroutine.     *)
(*                                                                         *)
(* A handler runs the loop of handleConnection.  Every PeerManager method  *)
(* takes the mutex for its whole body, so it is one step; what a handler   *)
(* does between two of them interleaves with every other handler.  For a   *)
(* relayed message those are Get(target), GetRole(self) and WriteMessage:  *)
(* the PeerInfo that Get returned is used after the mutex is released.     *)
(* WriteMessage is two steps, because a second goroutine may enter the     *)
(* same connection's WriteMessage while the first is inside it.            *)
(*                                                                         *)
(* Peers are the environment: they send any message at any time.           *)
(* Messages that the handler drops with `continue` and no other effect     *)
(* (bad JSON, unknown type or role, unregistered sender, unknown target,   *)
(* refused registration) are the steps that change nothing.                *)
(***************************************************************************)
EXTENDS Naturals, SequencesExt

CONSTANTS
  Ids,        \* peer ids: the {peer-id} of /connect/{peer-id}
  NoId,       \* the empty id
  Conns,      \* websocket connections, each with its own handler goroutine
  NoConn,     \* the nil connection
  RelayTypes, \* the message types that are relayed (offer, answer, ...)
  MaxConns    \* -max-connections; 0 is unlimited

ASSUME ConstantsAssumption ==
  /\ IsFiniteSet(Ids)
  /\ NoId \notin Ids
  /\ NoConn \notin Conns
  /\ RelayTypes \subseteq {"offer", "answer", "candidate", "join"}
  /\ MaxConns \in Nat

VARIABLES
  peers,      \* PeerManager.peers
  servers,    \* PeerManager.servers
  pc,         \* where each connection's handler is
  url,        \* the id each handler took from its request's path
  registered, \* the handler's `registered` flag
  job,        \* the message a handler is relaying, with the PeerInfo it got
  sock,       \* up; lost: the peer is gone; closed: Close() was called here
  overlap,    \* whether a WriteMessage in progress met another on its target
  phase,      \* serving; draining: shutdown sweep done; stopped: exited
  frame       \* the relayed message this step put on a connection, if any

pmVars == <<peers, servers>>
vars == <<peers, servers, pc, url, registered, job, sock, overlap, phase, frame>>

Roles == {"client", "server"}
PeerInfo == [conn : Conns, role : Roles]
Absent == [conn |-> NoConn, role |-> ""]
Pong(c) == [kind |-> "pong", peer |-> [conn |-> c, role |-> ""]]
NoJob == [kind |-> "none", peer |-> Absent]
Relays == [kind : RelayTypes, peer : PeerInfo]
NoFrame == [from |-> NoId, to |-> NoId, kind |-> "none"]

HasPeer(id) == peers[id] # Absent
Members == {id \in Ids : HasPeer(id)}
NumPeers == Cardinality(Members)
GetRole(id) == peers[id].role
GetServerList == ToSet(servers)
Target(c) == job[c].peer.conn
WritersTo(t) == {c \in Conns : pc[c] = "writing" /\ Target(c) = t}
Running == phase # "stopped"
Readable(c) == pc[c] = "read"
-----------------------------------------------------------------------------
Init ==
  /\ peers = [id \in Ids |-> Absent]
  /\ servers = <<>>
  /\ pc = [c \in Conns |-> "none"]
  /\ url = [c \in Conns |-> NoId]
  /\ registered = [c \in Conns |-> FALSE]
  /\ job = [c \in Conns |-> NoJob]
  /\ sock = [c \in Conns |-> "closed"]
  /\ overlap = [c \in Conns |-> FALSE]
  /\ phase = "serving"
  /\ frame = NoFrame

(* wsHandler: a new connection.  Its name may be one used before, but not  *)
(* while a handler still holds a PeerInfo that points to the old one.      *)
Connect(c, id) ==
  /\ pc[c] = "none"
  /\ \A d \in Conns : Target(d) # c
  /\ pc' = [pc EXCEPT ![c] = "read"]
  /\ url' = [url EXCEPT ![c] = id]
  /\ sock' = [sock EXCEPT ![c] = "up"]
  /\ UNCHANGED <<pmVars, registered, job, overlap, phase>>
  /\ frame' = NoFrame

(* The peer of c closes its end, crashes, or becomes unreachable.          *)
LoseLink(c) ==
  /\ sock[c] = "up"
  /\ sock' = [sock EXCEPT ![c] = "lost"]
  /\ UNCHANGED <<pmVars, pc, url, registered, job, overlap, phase>>
  /\ frame' = NoFrame

(* Faulty versions of this module's operators, each with one slip that the *)
(* code avoids: the properties are tested against them.                    *)
OverwritingMayRegister(id) == MaxConns = 0 \/ NumPeers < MaxConns
LateMayRegister(id) == ~HasPeer(id) /\ (MaxConns = 0 \/ NumPeers <= MaxConns)

(* PeerManager.Register refuses an id that is taken, and one too many.     *)
MayRegister(id) ==
  /\ ~HasPeer(id)
  /\ MaxConns = 0 \/ NumPeers < MaxConns

(* Fault: the role is not looked at, clients are listed too.               *)
ListingRegister(c, role) ==
  /\ Readable(c)
  /\ ~registered[c]
  /\ MayRegister(url[c])
  /\ peers' = [peers EXCEPT ![url[c]] = [conn |-> c, role |-> role]]
  /\ servers' = Append(servers, url[c])
  /\ registered' = [registered EXCEPT ![c] = TRUE]
  /\ UNCHANGED <<pc, url, job, sock, overlap, phase>>
  /\ frame' = NoFrame

Register(c, role) ==
  /\ Readable(c)
  /\ ~registered[c]
  /\ MayRegister(url[c])
  /\ peers' = [peers EXCEPT ![url[c]] = [conn |-> c, role |-> role]]
  /\ servers' = IF role = "server" THEN Append(servers, url[c]) ELSE servers
  /\ registered' = [registered EXCEPT ![c] = TRUE]
  /\ UNCHANGED <<pc, url, job, sock, overlap, phase>>
  /\ frame' = NoFrame

(* A relayable message: pm.Get of its target, the sender itself when the   *)
(* message names none.                                                     *)
Lookup(c, kind, id) ==
  LET target == IF id = NoId THEN url[c] ELSE id IN
  /\ Readable(c)
  /\ registered[c]
  /\ HasPeer(target)
  /\ job' = [job EXCEPT ![c] = [kind |-> kind, peer |-> peers[target]]]
  /\ pc' = [pc EXCEPT ![c] = "role"]
  /\ UNCHANGED <<pmVars, url, registered, sock, overlap, phase>>
  /\ frame' = NoFrame

(* Fault: the roles are not compared.                                      *)
LaxForbidden(c) == FALSE

(* pm.GetRole of the sender: client to client is dropped.                  *)
Forbidden(c) == GetRole(url[c]) = "client" /\ job[c].peer.role = "client"

CheckRole(c) ==
  /\ pc[c] = "role"
  /\ IF Forbidden(c)
       THEN pc' = [pc EXCEPT ![c] = "read"] /\ job' = [job EXCEPT ![c] = NoJob]
       ELSE pc' = [pc EXCEPT ![c] = "write"] /\ UNCHANGED job
  /\ UNCHANGED <<pmVars, url, registered, sock, overlap, phase>>
  /\ frame' = NoFrame

(* The ping handler, run inside ReadMessage, answers on its own connection *)
(* with WriteMessage.                                                      *)
Ping(c) ==
  /\ Readable(c)
  /\ job' = [job EXCEPT ![c] = Pong(c)]
  /\ pc' = [pc EXCEPT ![c] = "write"]
  /\ UNCHANGED <<pmVars, url, registered, sock, overlap, phase>>
  /\ frame' = NoFrame

BeginWrite(c) ==
  LET others == WritersTo(Target(c)) IN
  /\ pc[c] = "write"
  /\ pc' = [pc EXCEPT ![c] = "writing"]
  /\ overlap' = [d \in Conns |->
                   overlap[d] \/ (others # {} /\ d \in others \cup {c})]
  /\ UNCHANGED <<pmVars, url, registered, job, sock, phase>>
  /\ frame' = NoFrame

(* Fault: the handler goes on with the last message still in hand.         *)
LeakyLeaveWrite(c, nxt) ==
  /\ pc[c] = "writing"
  /\ pc' = [pc EXCEPT ![c] = nxt]
  /\ overlap' = [overlap EXCEPT ![c] = FALSE]
  /\ UNCHANGED <<pmVars, url, registered, job, sock, phase>>

(* WriteMessage returns, or panics, and the handler goes to pc nxt.        *)
LeaveWrite(c, nxt) ==
  /\ pc[c] = "writing"
  /\ pc' = [pc EXCEPT ![c] = nxt]
  /\ job' = [job EXCEPT ![c] = NoJob]
  /\ overlap' = [overlap EXCEPT ![c] = FALSE]
  /\ UNCHANGED <<pmVars, url, registered, sock, phase>>

(* msg.ID = id: the receiver sees the sender's id.                         *)
FrameOf(c) == [from |-> url[c], to |-> url[Target(c)], kind |-> job[c].kind]

WriteOk(c) ==
  /\ LeaveWrite(c, "read")
  /\ sock[Target(c)] # "closed"
  /\ frame' = IF job[c].kind = "pong" THEN NoFrame ELSE FrameOf(c)

WriteError(c) ==
  /\ LeaveWrite(c, "closing")
  /\ sock[Target(c)] # "up"
  /\ frame' = NoFrame

(* Two WriteMessages on one connection are a data race on its write        *)
(* buffer: the frame may also come out garbled, or the second writer       *)
(* panics, which net/http recovers after the handler's deferred function.  *)
WriteRace(c) ==
  /\ overlap[c]
  /\ \/ LeaveWrite(c, "read")
     \/ LeaveWrite(c, "closing")
  /\ frame' = NoFrame

(* Fault: the loop continues after a read error.                           *)
ContinuingReadError(c) ==
  /\ pc[c] = "read"
  /\ sock[c] # "up"
  /\ UNCHANGED vars

(* ReadMessage fails: the peer is gone, or this end closed the connection. *)
ReadError(c) ==
  /\ pc[c] = "read"
  /\ sock[c] # "up"
  /\ pc' = [pc EXCEPT ![c] = "closing"]
  /\ UNCHANGED <<pmVars, url, registered, job, sock, overlap, phase>>
  /\ frame' = NoFrame

(* Fault: the list keeps the id of a server that left.                     *)
ForgetfulUnregister(id) ==
  /\ peers' = [peers EXCEPT ![id] = Absent]
  /\ UNCHANGED servers

(* PeerManager.Unregister: the id leaves both tables, its connection is    *)
(* closed.                                                                 *)
Unregister(id) ==
  /\ peers' = [peers EXCEPT ![id] = Absent]
  /\ servers' = IF GetRole(id) = "server" THEN RemoveFirst(servers, id) ELSE servers

(* Faults: unregister whatever the handler's flag says; leave it open.     *)
EvictingTeardown(c) ==
  /\ pc[c] = "closing"
  /\ Unregister(url[c])
  /\ sock' = [sock EXCEPT ![c] = "closed"]
  /\ pc' = [pc EXCEPT ![c] = "none"]
  /\ url' = [url EXCEPT ![c] = NoId]
  /\ registered' = [registered EXCEPT ![c] = FALSE]
  /\ UNCHANGED <<job, overlap, phase>>
  /\ frame' = NoFrame

LeakingTeardown(c) ==
  /\ pc[c] = "closing"
  /\ IF registered[c] THEN Unregister(url[c]) ELSE UNCHANGED pmVars
  /\ pc' = [pc EXCEPT ![c] = "none"]
  /\ url' = [url EXCEPT ![c] = NoId]
  /\ registered' = [registered EXCEPT ![c] = FALSE]
  /\ UNCHANGED <<job, sock, overlap, phase>>
  /\ frame' = NoFrame

(* The deferred function of wsHandler.                                     *)
Teardown(c) ==
  /\ pc[c] = "closing"
  /\ IF registered[c] THEN Unregister(url[c]) ELSE UNCHANGED pmVars
  /\ sock' = [d \in Conns |->
                IF d = c \/ (registered[c] /\ d = peers[url[c]].conn)
                  THEN "closed" ELSE sock[d]]
  /\ pc' = [pc EXCEPT ![c] = "none"]
  /\ url' = [url EXCEPT ![c] = NoId]
  /\ registered' = [registered EXCEPT ![c] = FALSE]
  /\ UNCHANGED <<job, overlap, phase>>
  /\ frame' = NoFrame

(* The shutdown goroutine, first under the mutex: every registered         *)
(* connection is closed, no entry is removed.                              *)
ShutdownSweep ==
  /\ phase = "serving"
  /\ phase' = "draining"
  /\ sock' = [c \in Conns |->
                IF \E id \in Ids : peers[id].conn = c THEN "closed" ELSE sock[c]]
  /\ UNCHANGED <<pmVars, pc, url, registered, job, overlap>>
  /\ frame' = NoFrame

(* Then srv.Shutdown makes ListenAndServe return, and main with it.        *)
Exit ==
  /\ phase = "draining"
  /\ phase' = "stopped"
  /\ UNCHANGED <<pmVars, pc, url, registered, job, sock, overlap>>
  /\ frame' = NoFrame

Handler(c) ==
  \/ \E id \in Ids : Connect(c, id)
  \/ \E role \in Roles : Register(c, role)
  \/ \E kind \in RelayTypes, id \in Ids \cup {NoId} : Lookup(c, kind, id)
  \/ CheckRole(c)
  \/ Ping(c)
  \/ BeginWrite(c)
  \/ WriteOk(c)
  \/ WriteError(c)
  \/ WriteRace(c)
  \/ ReadError(c)
  \/ Teardown(c)

Next ==
  /\ Running
  /\ \/ \E c \in Conns : Handler(c) \/ LoseLink(c)
     \/ ShutdownSweep
     \/ Exit

Spec == Init /\ [][Next]_vars

(* Goroutines are scheduled fairly.  A write to a connection whose peer is *)
(* gone or that is closed here ends with an error.  A write to a live peer *)
(* has no deadline in the code: nothing is assumed of it.  ReadMessage on  *)
(* a lost connection returns the finitely many messages already received,  *)
(* then the error, hence strong fairness.                                  *)
Fairness == \A c \in Conns :
  /\ WF_vars(CheckRole(c))
  /\ WF_vars(BeginWrite(c))
  /\ WF_vars(WriteError(c))
  /\ WF_vars(Teardown(c))
  /\ SF_vars(ReadError(c))

FairSpec == Spec /\ Fairness
-----------------------------------------------------------------------------
(* Every variable has its type, and a handler holds a message exactly      *)
(* while it relays it: no path through handleConnection (main.go:213-276)  *)
(* leaves the loop body with a PeerInfo in hand.                           *)
TypeOK ==
  /\ peers \in [Ids -> PeerInfo \cup {Absent}]
  /\ servers \in Seq(Ids)
  /\ pc \in [Conns -> {"none", "read", "role", "write", "writing", "closing"}]
  /\ url \in [Conns -> Ids \cup {NoId}]
  /\ registered \in [Conns -> BOOLEAN]
  /\ job \in [Conns -> Relays \cup {Pong(c) : c \in Conns} \cup {NoJob}]
  /\ sock \in [Conns -> {"up", "lost", "closed"}]
  /\ overlap \in [Conns -> BOOLEAN]
  /\ phase \in {"serving", "draining", "stopped"}
  /\ \A c \in Conns : job[c] = NoJob <=> pc[c] \in {"none", "read", "closing"}
  /\ \A c \in Conns : url[c] = NoId <=> pc[c] = "none"

(* The handlers' `registered` flags and the peer table agree: an entry is  *)
(* always that of the one live handler that registered it, under the id of *)
(* its own path (main.go:78-98, 199-204, 234-246).  Two connections that   *)
(* race for one id, or one that ends after it was refused, must not        *)
(* disturb the other's entry.                                              *)
RegistrationExact ==
  /\ \A c \in Conns : registered[c] => url[c] \in Ids /\ peers[url[c]].conn = c
  /\ \A id \in Ids : HasPeer(id) =>
       registered[peers[id].conn] /\ url[peers[id].conn] = id

(* /servers returns each registered server once and no client ("Clients    *)
(* are hidden (never listed)", docs/signalling.md:9), through every order  *)
(* of registrations and departures (main.go:93-95, 107-115, 147-153).      *)
ServerListExact ==
  /\ IsInjective(servers)
  /\ GetServerList = {id \in Ids : GetRole(id) = "server"}

(* -max-connections bounds the registered peers: the check and the insert  *)
(* are one critical section (main.go:79-92).                               *)
CapRespected == MaxConns > 0 => NumPeers <= MaxConns

(* A PeerInfo is used after the mutex that guarded it is released          *)
(* (main.go:257, 263, 272).  If its connection is not closed it is still   *)
(* the current entry of its id: a relayed message never reaches a          *)
(* connection that has lost its registration to another.                   *)
StaleTargetsAreClosed ==
  \A c \in Conns : job[c].kind \in RelayTypes /\ sock[Target(c)] # "closed" =>
    /\ registered[Target(c)]
    /\ peers[url[Target(c)]] = job[c].peer

(* What a step puts on a connection comes from a registered peer, goes to  *)
(* a registered peer, and is not from client to client, by the roles in    *)
(* the table when it is written, not when they were read                   *)
(* ("Client-to-client connections are blocked", docs/signalling.md:10).    *)
AccessControl ==
  [][frame' # NoFrame =>
       /\ {frame'.from, frame'.to} \subseteq Members
       /\ "server" \in {GetRole(frame'.from), GetRole(frame'.to)}]_vars

(* An entry is never replaced, and is removed only by the handler of the   *)
(* connection that registered it, once that handler's loop has ended       *)
(* (main.go:82-85, 199-204).                                               *)
OnlyOwnerWithdraws ==
  [][\A id \in Members : peers'[id] # peers[id] =>
       pc[peers[id].conn] = "closing" /\ peers'[id] = Absent]_vars

(* The server implements the contract of SignallingContract, through the   *)
(* roles in its table and the set of its list.                             *)
Contract == INSTANCE SignallingContract
  WITH members <- [id \in Ids |-> GetRole(id)], listed <- ToSet(servers)
ImplementsContract == Contract!Spec

(* A registered peer whose link is lost leaves the table, so its id can be *)
(* registered again, unless the process stops or the peer's handler is     *)
(* stuck for ever in a write to a live peer that does not read: the relay  *)
(* sets no write deadline (main.go:272).                                   *)
Departed(c) == ~registered[c] \/ phase = "stopped"
StuckInWrite(c) == pc[c] = "writing" /\ sock[Target(c)] = "up"
DeadPeersLeave ==
  \A c \in Conns :
    ((registered[c] /\ sock[c] # "up") ~> Departed(c)) \/ <>[]StuckInWrite(c)

(* Not so in this code.  "Game servers are publicly discoverable via HTTP  *)
(* /servers endpoint" (docs/signalling.md:8): a server whose own link is   *)
(* up stays listed while the process serves.                               *)
ListedWhileConnected ==
  [][\A id \in ToSet(servers) :
       phase = "serving" /\ sock[peers[id].conn] = "up" => id \in ToSet(servers')]_vars

(* Not so in this code.  S->>G: join { id: "<client-id>" }                 *)
(* (docs/signalling.md:104): a join that is being written to a server      *)
(* whose link is up and stays up reaches it.                               *)
JoinForwarded ==
  [][\A c \in Conns :
       /\ job[c].kind = "join" /\ pc[c] = "writing" /\ pc'[c] # "writing"
       /\ sock[Target(c)] = "up"
       => frame' = FrameOf(c)]_vars
=============================================================================
