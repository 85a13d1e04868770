--------------------------- MODULE NetworkServerLife ---------------------------
(***************************************************************************)
(* The life of a NetworkServer (network_server.cpp): start, stop and the   *)
(* destructor on the thread that owns it, the network thread of each       *)
(* start, and the handlers of each start's websocket on a thread of the    *)
(* library.  Nothing closes a websocket: onOpen's capture keeps it alive   *)
(* when m_signallingWebsocket is replaced, and stop does not touch it, so  *)
(* its handlers go on using the NetworkServer.                             *)
(*                                                                         *)
(* m_clients is written under m_clientsMutex; handleSignallingMessage      *)
(* reads it, and createClientConnection reads m_signallingWebsocket,       *)
(* without a lock.  A read while another thread writes, or of an object    *)
(* that was destroyed, is undefined, and nothing is promised after it.     *)
(*                                                                         *)
(* A player sends its join and, once it has the offer, its answer to the   *)
(* websocket that the relay has under the server's id.  Once connected it  *)
(* may open its test data channel: onDataChannel then takes m_clientsMutex *)
(* on a thread of its connection.                                          *)
(***************************************************************************)
EXTENDS Naturals, Sequences

CONSTANTS
  Players,  \* the clients of the server; each joins once
  Starts    \* bound on the number of calls of start, each with its websocket

ASSUME LifeAssumption == Starts \in Nat \ {0}

VARIABLES
  owner,   \* what the owner does: idle, running, joining, clearing, gone
  running, \* m_running
  starts,  \* how often start was called; also the newest thread's number
  net,     \* each network thread: none, assigning, opening, waiting, looping, ended
  promise, \* wsPromise of each start: none, unset, set, dead
  late,    \* the starts whose wait timed out
  dangling,\* whether a callback used a promise that was dead
  current, \* m_signallingWebsocket, 0 if null
  sock,    \* each websocket: none, connecting, open, closed
  holder,  \* the websocket the relay has under id 12345, 0 if none
  inbox,   \* the messages on their way to each websocket's handler
  hand,    \* each websocket's handler: where it is, for which player
  lock,    \* who holds m_clientsMutex, 0 if nobody
  clients, \* m_clients: the websocket each stored connection sends on
  channel, \* each player's test data channel: none, waiting, finding, done
  offers,  \* connections whose offer was not sent yet, with their websocket
  player,  \* each player: out, joined, offered, answered, connected
  undefined

ownerVars == <<owner, running, starts>>
netVars == <<net, promise, late, dangling>>
wireVars == <<sock, holder, inbox, player>>
handVars == <<hand, lock, clients, channel, offers>>
vars == <<ownerVars, netVars, current, wireVars, handVars, undefined>>

Gens == 1 .. Starts
Owner == Starts + 1
Channel == Starts + 2
Idle == [at |-> "idle", for |-> "nobody"]
At(g, places) == hand[g].at \in places
-----------------------------------------------------------------------------
Init ==
  /\ owner = "idle" /\ running = FALSE /\ starts = 0
  /\ net = [g \in Gens |-> "none"]
  /\ promise = [g \in Gens |-> "none"]
  /\ late = {} /\ dangling = FALSE
  /\ current = 0
  /\ sock = [g \in Gens |-> "none"]
  /\ holder = 0
  /\ inbox = [g \in Gens |-> <<>>]
  /\ hand = [g \in Gens |-> Idle]
  /\ lock = 0
  /\ clients = [p \in Players |-> 0]
  /\ channel = [p \in Players |-> "none"]
  /\ offers = {}
  /\ player = [p \in Players |-> "out"]
  /\ undefined = FALSE

(* NetworkServer::start.                                                   *)
Start ==
  /\ owner = "idle" /\ ~running /\ starts < Starts
  /\ owner' = "running" /\ running' = TRUE /\ starts' = starts + 1
  /\ net' = [net EXCEPT ![starts'] = "assigning"]
  /\ UNCHANGED <<promise, late, dangling, current, wireVars, handVars, undefined>>

(* Faults: m_clients is cleared first; the thread is not joined.           *)
ClearingStop ==
  /\ owner = "running"
  /\ owner' = "joining" /\ running' = FALSE
  /\ clients' = [p \in Players |-> 0]
  /\ offers' = {o \in offers : clients[o[1]] = 0}
  /\ UNCHANGED <<starts, netVars, current, wireVars, hand, lock, channel, undefined>>

Detached == starts > 0

(* NetworkServer::stop: m_running is cleared and the thread joined, then   *)
(* m_clients is cleared under its mutex.  ServerInstance::run ends on the  *)
(* kill flag, and its owner's destructor calls stop.                       *)
Stop ==
  /\ owner = "running"
  /\ owner' = "joining" /\ running' = FALSE
  /\ UNCHANGED <<starts, netVars, current, wireVars, handVars, undefined>>

Joined == net[starts] = "ended"

StopJoined ==
  /\ owner = "joining" /\ Joined /\ lock = 0
  /\ owner' = "clearing" /\ lock' = Owner
  /\ UNCHANGED <<running, starts, netVars, current, wireVars, hand, clients,
                 channel, offers, undefined>>

(* The connections in m_clients go with their entries, and their callbacks *)
(* with them; one that runs is not cut short.                              *)
StopCleared ==
  /\ owner = "clearing"
  /\ owner' = "idle" /\ lock' = 0
  /\ clients' = [p \in Players |-> 0]
  /\ offers' = {o \in offers : clients[o[1]] = 0}
  /\ UNCHANGED <<running, starts, netVars, current, wireVars, hand, channel, undefined>>

(* The rest of ~NetworkServer, whose call of stop returns at once.         *)
Destroy ==
  /\ owner = "idle" /\ starts > 0
  /\ owner' = "gone"
  /\ offers' = {o \in offers : clients[o[1]] = 0}
  /\ UNCHANGED <<running, starts, netVars, current, wireVars, hand, lock,
                 clients, channel, undefined>>
-----------------------------------------------------------------------------
(* Faults: the wait is left out; it has no limit; when it times out,       *)
(* m_signallingWebsocket is reset.                                         *)
HastyOpenSocket(g) ==
  /\ net[g] = "opening"
  /\ sock' = [sock EXCEPT ![g] = "connecting"]
  /\ promise' = [promise EXCEPT ![g] = "dead"]
  /\ net' = [net EXCEPT ![g] = "looping"]
  /\ UNCHANGED <<ownerVars, late, dangling, current, holder, inbox, player,
                 handVars, undefined>>

PatientWaitEnds(g) ==
  /\ net[g] = "waiting" /\ promise[g] = "set"
  /\ promise' = [promise EXCEPT ![g] = "dead"]
  /\ net' = [net EXCEPT ![g] = "looping"]
  /\ UNCHANGED <<ownerVars, late, dangling, current, wireVars, handVars, undefined>>

ResettingWaitEnds(g) ==
  /\ net[g] = "waiting"
  /\ late' = IF promise[g] = "unset" THEN late \cup {g} ELSE late
  /\ current' = IF promise[g] = "unset" THEN 0 ELSE current
  /\ promise' = [promise EXCEPT ![g] = "dead"]
  /\ net' = [net EXCEPT ![g] = "looping"]
  /\ UNCHANGED <<ownerVars, dangling, wireVars, handVars, undefined>>

(* startSignallingWebsocket: m_signallingWebsocket is set, then the        *)
(* websocket opened, then onOpen or onError waited for, up to 90 s.        *)
Assign(g) ==
  /\ net[g] = "assigning"
  /\ current' = g
  /\ undefined' = \E h \in Gens : At(h, {"making"})
  /\ promise' = [promise EXCEPT ![g] = "unset"]
  /\ net' = [net EXCEPT ![g] = "opening"]
  /\ UNCHANGED <<ownerVars, late, dangling, wireVars, handVars>>

OpenSocket(g) ==
  /\ net[g] = "opening"
  /\ sock' = [sock EXCEPT ![g] = "connecting"]
  /\ net' = [net EXCEPT ![g] = "waiting"]
  /\ UNCHANGED <<ownerVars, promise, late, dangling, current, holder, inbox,
                 player, handVars, undefined>>

(* Time may be up at any moment.                                           *)
WaitEnds(g) ==
  /\ net[g] = "waiting"
  /\ late' = IF promise[g] = "unset" THEN late \cup {g} ELSE late
  /\ promise' = [promise EXCEPT ![g] = "dead"]
  /\ net' = [net EXCEPT ![g] = "looping"]
  /\ UNCHANGED <<ownerVars, dangling, current, wireVars, handVars, undefined>>

(* NetworkServer::run's loop ends.                                         *)
LoopEnds(g) ==
  /\ net[g] = "looping" /\ ~running
  /\ net' = [net EXCEPT ![g] = "ended"]
  /\ UNCHANGED <<ownerVars, promise, late, dangling, current, wireVars,
                 handVars, undefined>>

(* What onOpen and onError do with the promise they captured by reference. *)
Fulfil(g) ==
  /\ promise' = [promise EXCEPT ![g] = IF @ = "dead" THEN @ ELSE "set"]
  /\ dangling' = (dangling \/ promise[g] = "dead")

(* onOpen: `register` is sent; the relay takes it unless it has the id.    *)
OnOpen(g) ==
  /\ sock[g] = "connecting"
  /\ sock' = [sock EXCEPT ![g] = "open"]
  /\ holder' = IF holder = 0 THEN g ELSE holder
  /\ Fulfil(g)
  /\ UNCHANGED <<ownerVars, net, late, current, inbox, player, handVars, undefined>>

OnError(g) ==
  /\ sock[g] = "connecting"
  /\ sock' = [sock EXCEPT ![g] = "closed"]
  /\ Fulfil(g)
  /\ UNCHANGED <<ownerVars, net, late, current, holder, inbox, player,
                 handVars, undefined>>

(* onClosed only logs; what arrived before is still handled.               *)
OnClosed(g) ==
  /\ sock[g] = "open"
  /\ sock' = [sock EXCEPT ![g] = "closed"]
  /\ holder' = IF holder = g THEN 0 ELSE holder
  /\ UNCHANGED <<ownerVars, netVars, current, inbox, player, handVars, undefined>>
-----------------------------------------------------------------------------
(* onDataChannel only looks entries up and sets a field no handler reads.  *)
Read(g) == undefined' = (owner = "gone" \/ lock \notin {0, g, Channel})

(* handleSignallingMessage looks the player up; a join that finds none     *)
(* enters createClientConnection, an answer that finds none is dropped and *)
(* one that finds its connection completes the negotiation.                *)
Lookup(g) ==
  LET m == Head(inbox[g]) IN
  /\ inbox[g] # <<>> /\ At(g, {"idle"})
  /\ Read(g)
  /\ inbox' = [inbox EXCEPT ![g] = Tail(@)]
  /\ hand' = IF clients[m.from] = 0 /\ m.type = "join"
               THEN [hand EXCEPT ![g] = [at |-> "making", for |-> m.from]]
               ELSE hand
  /\ player' = IF clients[m.from] # 0 /\ m.type = "answer"
                 THEN [player EXCEPT ![m.from] = "connected"]
                 ELSE player
  /\ UNCHANGED <<ownerVars, netVars, current, sock, holder, lock, clients,
                 channel, offers>>

(* createClientConnection up to the lock: it asserts that the player has   *)
(* no entry, the callbacks capture m_signallingWebsocket, and the library  *)
(* begins to negotiate.                                                    *)
Make(g) ==
  /\ At(g, {"making"})
  /\ Read(g)
  /\ offers' = offers \cup {<<hand[g].for, current>>}
  /\ hand' = [hand EXCEPT ![g].at = "storing"]
  /\ UNCHANGED <<ownerVars, netVars, current, wireVars, lock, clients, channel>>

Lock(g) ==
  /\ At(g, {"storing"}) /\ lock = 0
  /\ undefined' = (owner = "gone")
  /\ lock' = g
  /\ hand' = [hand EXCEPT ![g].at = "locked"]
  /\ UNCHANGED <<ownerVars, netVars, current, wireVars, clients, channel, offers>>

(* Fault: the mutex is not released.                                       *)
LockedStore(g) ==
  /\ At(g, {"locked"})
  /\ undefined' = (owner = "gone")
  /\ clients' = [clients EXCEPT ![hand[g].for] = g]
  /\ hand' = [hand EXCEPT ![g].at = "finding"]
  /\ UNCHANGED <<ownerVars, netVars, current, wireVars, lock, channel, offers>>

Store(g) ==
  /\ At(g, {"locked"})
  /\ undefined' = (owner = "gone")
  /\ clients' = [clients EXCEPT ![hand[g].for] = g]
  /\ lock' = 0
  /\ hand' = [hand EXCEPT ![g].at = "finding"]
  /\ UNCHANGED <<ownerVars, netVars, current, wireVars, channel, offers>>

(* The second look-up, after createClientConnection.                       *)
Find(g) ==
  /\ At(g, {"finding"})
  /\ Read(g)
  /\ hand' = [hand EXCEPT ![g] = Idle]
  /\ UNCHANGED <<ownerVars, netVars, current, wireVars, lock, clients, channel, offers>>

(* onLocalDescription: the offer goes out on the websocket it captured and *)
(* reaches the player if the relay has that one under the server's id.     *)
SendOffer(p, g) ==
  /\ <<p, g>> \in offers
  /\ offers' = offers \ {<<p, g>>}
  /\ player' = IF g # 0 /\ holder = g THEN [player EXCEPT ![p] = "offered"] ELSE player
  /\ UNCHANGED <<ownerVars, netVars, current, sock, holder, inbox, hand, lock,
                 clients, channel, undefined>>

(* A player's messages, relayed to the websocket that has the id.          *)
Deliver(type, p) == inbox' = [inbox EXCEPT ![holder] = Append(@, [type |-> type, from |-> p])]

PlayerSends(p) ==
  /\ holder # 0
  /\ \/ player[p] = "out" /\ Deliver("join", p) /\ player' = [player EXCEPT ![p] = "joined"]
     \/ player[p] = "offered" /\ Deliver("answer", p)
          /\ player' = [player EXCEPT ![p] = "answered"]
  /\ UNCHANGED <<ownerVars, netVars, current, sock, holder, handVars, undefined>>
-----------------------------------------------------------------------------
(* External: a connected player opens its test data channel, once.         *)
OpenChannel(p) ==
  /\ player[p] = "connected" /\ clients[p] # 0 /\ owner # "gone"
  /\ channel[p] = "none"
  /\ channel' = [channel EXCEPT ![p] = "waiting"]
  /\ UNCHANGED <<ownerVars, netVars, current, wireVars, hand, lock, clients,
                 offers, undefined>>

(* onDataChannel: it takes the lock, then keeps the channel in the entry   *)
(* if there still is one.                                                  *)
ChannelLock(p) ==
  /\ channel[p] = "waiting" /\ lock = 0
  /\ undefined' = (owner = "gone")
  /\ lock' = Channel
  /\ channel' = [channel EXCEPT ![p] = "finding"]
  /\ UNCHANGED <<ownerVars, netVars, current, wireVars, hand, clients, offers>>

ChannelAttach(p) ==
  /\ channel[p] = "finding"
  /\ undefined' = (owner = "gone")
  /\ lock' = 0
  /\ channel' = [channel EXCEPT ![p] = "done"]
  /\ UNCHANGED <<ownerVars, netVars, current, wireVars, hand, clients, offers>>
-----------------------------------------------------------------------------
NetworkThread(g) == Assign(g) \/ OpenSocket(g) \/ WaitEnds(g) \/ LoopEnds(g)
Callback(g) == OnOpen(g) \/ OnError(g) \/ OnClosed(g)
Handler(g) == Lookup(g) \/ Make(g) \/ Lock(g) \/ Store(g) \/ Find(g)
OnDataChannel(p) == ChannelLock(p) \/ ChannelAttach(p)

Next ==
  /\ ~undefined
  /\ \/ Start \/ Stop \/ StopJoined \/ StopCleared \/ Destroy
     \/ \E g \in Gens : NetworkThread(g) \/ Callback(g) \/ Handler(g)
     \/ \E p \in Players : PlayerSends(p) \/ \E g \in 0 .. Starts : SendOffer(p, g)
     \/ \E p \in Players : OpenChannel(p) \/ OnDataChannel(p)

Spec == Init /\ [][Next]_vars

(* stop, which holds m_clientsMutex, destroys a connection whose callback  *)
(* is running and waits for that mutex.  Whether the destructor waits for  *)
(* the callback is the library's choice.                                   *)
ClearWaits == owner = "clearing" /\ \E p \in Players : channel[p] = "waiting" /\ clients[p] # 0

(* Threads run, the wait has its time limit, callbacks of the library that *)
(* are due are called.  Nobody has to start, stop or join, and a websocket *)
(* need not ever open.                                                     *)
Fairness ==
  /\ WF_vars(~undefined /\ (StopJoined \/ (StopCleared /\ ~ClearWaits)))
  /\ \A g \in Gens : /\ WF_vars(~undefined /\ NetworkThread(g))
                     /\ WF_vars(~undefined /\ Handler(g))
  /\ \A p \in Players, g \in Gens : WF_vars(~undefined /\ SendOffer(p, g))
  /\ \A p \in Players : WF_vars(~undefined /\ OnDataChannel(p))

FairSpec == Spec /\ Fairness
-----------------------------------------------------------------------------
OwnerType ==
  /\ owner \in {"idle", "running", "joining", "clearing", "gone"}
  /\ running \in BOOLEAN /\ starts \in 0 .. Starts

NetType ==
  /\ net \in [Gens -> {"none", "assigning", "opening", "waiting", "looping", "ended"}]
  /\ promise \in [Gens -> {"none", "unset", "set", "dead"}]
  /\ late \subseteq Gens
  /\ current \in 0 .. Starts
  /\ dangling \in BOOLEAN /\ undefined \in BOOLEAN

Messages == [type : {"join", "answer"}, from : Players]

WireType ==
  /\ sock \in [Gens -> {"none", "connecting", "open", "closed"}]
  /\ holder \in 0 .. Starts
  /\ inbox \in [Gens -> Seq(Messages)]
  /\ player \in [Players -> {"out", "joined", "offered", "answered", "connected"}]

HandType ==
  /\ hand \in [Gens -> [at : {"idle", "making", "storing", "locked", "finding"},
                        for : Players \cup {"nobody"}]]
  /\ \A g \in Gens : hand[g] = Idle \/ (hand[g].at # "idle" /\ hand[g].for \in Players)
  /\ lock \in 0 .. Channel
  /\ clients \in [Players -> 0 .. Starts]
  /\ channel \in [Players -> {"none", "waiting", "finding", "done"}]
  /\ offers \subseteq Players \X (0 .. Starts)

(* m_clientsMutex is held by the handler, the owner or the data channel's  *)
(* callback whose lock_guard is in scope, by one at a time                 *)
(* (network_server.cpp:31, 188, 252).                                      *)
MutexExact ==
  /\ \A g \in Gens : At(g, {"locked"}) <=> lock = g
  /\ owner = "clearing" <=> lock = Owner
  /\ (\E p \in Players : channel[p] = "finding") <=> lock = Channel
  /\ \A p, q \in Players : channel[p] = "finding" /\ channel[q] = "finding" => p = q

(* Every variable has its type, and the mutex its holder.                  *)
TypeOK == OwnerType /\ NetType /\ WireType /\ HandType /\ MutexExact

(* stop leaves no thread behind (network_server.cpp:28-30): no network     *)
(* thread runs while the server is stopped or gone, so that start never    *)
(* overwrites a thread that was not joined, and only the newest one runs.  *)
ThreadJoined ==
  \A g \in Gens :
    net[g] \notin {"none", "ended"} => g = starts /\ owner \in {"running", "joining"}

(* Although handlers read m_clients and m_signallingWebsocket without a    *)
(* lock on another thread than the one that sets them                      *)
(* (network_server.cpp:76, 112, 162), nothing is undefined in a server     *)
(* that was started once and not yet stopped, and no connection is made    *)
(* without a websocket to send its offer on.                               *)
SafeWhileRunning ==
  starts = 1 /\ owner = "running" =>
    /\ ~undefined
    /\ \A p \in Players : <<p, 0>> \notin offers

(* A callback meets a promise that is dead (network_server.cpp:44-53) only *)
(* if some start's wait for its websocket timed out.                       *)
DanglingOnlyLate == dangling => late # {}

(* The second look-up, which is not atomic with the store before it        *)
(* (network_server.cpp:121-128, 250-255), never finds a connection that    *)
(* another start's handler made for the player.  It finds its own, or none *)
(* because stop was called and cleared m_clients.                          *)
FindsEntry ==
  \A g \in Gens : At(g, {"finding"}) =>
    \/ clients[hand[g].for] = g
    \/ clients[hand[g].for] = 0 /\ (owner \in {"idle", "gone"} \/ starts > g)

Waiting(p) == \E i \in DOMAIN inbox[1] : inbox[1][i] = [type |-> "join", from |-> p]
InWork(p, places) == hand[1].for = p /\ At(1, places)

(* No join is lost between the websocket, its handler and the offer's      *)
(* callback, which captured m_signallingWebsocket without a lock           *)
(* (network_server.cpp:97-131, 159-180): while a server started once runs  *)
(* with its websocket, a player that waits for its offer has its join on   *)
(* the way, its connection being made or its offer about to be sent, and   *)
(* each that ever joined ends up in m_clients, though its offer may have   *)
(* been sent, and answered, before it is.                                  *)
JoinKept ==
  starts = 1 /\ running /\ sock[1] # "closed" =>
    \A p \in Players :
      /\ player[p] = "joined" =>
           Waiting(p) \/ InWork(p, {"making"}) \/ <<p, 1>> \in offers
      /\ player[p] # "out" =>
           Waiting(p) \/ InWork(p, {"making", "storing", "locked"}) \/ clients[p] = 1

(* stop returns, though the websocket may never open and stop has to wait  *)
(* for the thread that waits for it (network_server.cpp:28-32, 83), and    *)
(* though handlers and callbacks take the mutex it needs (188, 252).  The  *)
(* exception: it may wait for ever for a callback that waits for it.       *)
StopReturns == owner = "joining" ~> (owner \in {"idle", "gone"} \/ undefined \/ ClearWaits)

(* A player that joins a server started once gets an offer and an entry in *)
(* m_clients, unless the server stops or loses its websocket.              *)
JoinAnswered ==
  \A p \in Players :
    (starts = 1 /\ player[p] = "joined")
      ~> \/ clients[p] # 0 /\ player[p] # "joined"
         \/ ~running \/ sock[1] = "closed" \/ undefined
=============================================================================
