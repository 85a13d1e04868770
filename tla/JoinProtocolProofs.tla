-------------------------- MODULE JoinProtocolProofs --------------------------
(***************************************************************************)
(* Proofs about JoinProtocol, for every number of clients, of runs of the  *)
(* game server and of candidates: its types, that the relay in it keeps    *)
(* SignallingContract, that a peer registers first, and that descriptions  *)
(* pair up.  The last rests on each client's join being on one wire or     *)
(* with one run at a time: only that run ever offers to the client, so     *)
(* only its offer was answered.                                            *)
(***************************************************************************)
EXTENDS JoinProtocol, SequenceLemmas

(* Every step is a step of one of the actions.                             *)
LEMMA Steps ==
  ASSUME Next
  PROVE  \/ \E p \in Peers : Open(p)
         \/ \E p \in Peers : Opened(p)
         \/ \E p \in Peers : OnOpen(p)
         \/ \E p \in Peers : EndWait(p)
         \/ \E p \in Peers : Leave(p)
         \/ \E p \in Peers : RelayRegister(p)
         \/ \E p \in Peers : RelayForward(p)
         \/ \E p \in Peers : RelayDrop(p)
         \/ \E p \in Peers : RelayLose(p)
         \/ \E p \in Peers : RelayFails(p)
         \/ \E p \in Peers : RelayTeardown(p)
         \/ \E c \in Clients : ClientReceive(c)
         \/ \E c \in Clients : ClientSend(c)
         \/ \E c \in Clients : Disconnect(c)
         \/ \E s \in Runs : ServerReceive(s)
         \/ \E s \in Runs : Store(s)
         \/ \E s \in Runs, c \in Clients : ServerSend(s, c)
  BY Zenon DEF Next, Relay

LEMMA IdTypes ==
  /\ \A p \in Peers : IdOf(p) \in Ids /\ RoleOf(p) \in {"client", "server"} /\ p # Nobody
  /\ \A id \in Ids : id # Nobody
  /\ \A c \in Clients : IdOf(c) = c /\ c \in Peers /\ c \in Ids /\ c \notin Runs
  /\ \A s \in Runs : IdOf(s) = ServerId /\ s \in Peers
  /\ ServerId \in Ids /\ ServerId \notin Clients
  BY JoinAssumption DEF IdOf, RoleOf, Ids, Peers

(* What the wires, the relay and the connections are made of.              *)
LEMMA MsgTyped ==
  ASSUME NEW type \in MsgTypes, NEW id \in Ids, NEW of \in Peers
  PROVE  Msg(type, id, of) \in Messages
  BY DEF Msg, Messages

LEMMA TrickleTyped ==
  ASSUME NEW type \in MsgTypes, NEW id \in Ids, NEW of \in Peers
  PROVE  /\ Trickle(type, id, of) \in Seq(Messages)
         /\ \A m \in ToSet(Trickle(type, id, of)) :
              m = Msg(type, id, of) \/ m = Msg("candidate", id, of)
  <1>1. Msg(type, id, of) \in Messages /\ Msg("candidate", id, of) \in Messages
    BY MsgTyped DEF MsgTypes, RelayTypes
  <1>2. Candidates + 1 \in Nat
    BY JoinAssumption
  <1>3. \A i \in 1 .. Candidates + 1 :
          Msg(IF i = 1 THEN type ELSE "candidate", id, of) \in Messages
    BY <1>1
  <1>. QED
    BY <1>1, <1>2, <1>3 DEF Trickle, ToSet

LEMMA ConnectionTyped ==
  /\ NoConnection \in Connection
  /\ [NoConnection EXCEPT !.closed = TRUE] \in Connection
  <1>1. <<>> \in Seq(Messages) /\ FALSE \in BOOLEAN /\ TRUE \in BOOLEAN
    OBVIOUS
  <1>. QED
    BY <1>1 DEF NoConnection, Connection

LEMMA ApplyTyped ==
  ASSUME NEW pc \in Connection, NEW m \in Messages, NEW self \in Peers
  PROVE  Apply(pc, m, self) \in Connection
  <1>1. CASE m.type = "offer"
    <2>1. Trickle("answer", m.id, self) \in Seq(Messages)
      BY TrickleTyped DEF Messages, MsgTypes, RelayTypes
    <2>2. pc.out \o Trickle("answer", m.id, self) \in Seq(Messages)
      BY <2>1, ToSetConcat DEF Connection
    <2>. QED
      BY <1>1, <2>2 DEF Apply, Connection, Messages
  <1>2. CASE m.type = "answer"
    BY <1>2 DEF Apply, Connection, Messages
  <1>3. CASE m.type = "candidate"
    BY <1>3 DEF Apply, Connection
  <1>4. CASE m.type \notin {"offer", "answer", "candidate"}
    BY <1>4 DEF Apply
  <1>. QED
    BY <1>1, <1>2, <1>3, <1>4

(* A send, a receipt, and a change of one connection.                      *)
LEMMA SendTyped ==
  ASSUME up \in [Peers -> Seq(Messages)], NEW p \in Peers, NEW m \in Messages, Send(p, m)
  PROVE  /\ up' \in [Peers -> Seq(Messages)]
         /\ ToSet(up'[p]) = ToSet(up[p]) \cup {m}
         /\ up'[p] = Append(up[p], m)
         /\ \A q \in Peers : q # p => up'[q] = up[q]
  <1>1. Append(up[p], m) \in Seq(Messages) /\ ToSet(Append(up[p], m)) = ToSet(up[p]) \cup {m}
    BY ToSetAppend
  <1>. QED
    BY <1>1 DEF Send

LEMMA TakenTyped ==
  ASSUME up \in [Peers -> Seq(Messages)], NEW p \in Peers, TakeUp(p)
  PROVE  /\ up' \in [Peers -> Seq(Messages)]
         /\ up[p] # <<>> /\ up'[p] = Tail(up[p])
         /\ Head(up[p]) \in ToSet(up[p]) /\ Head(up[p]) \in Messages
         /\ ToSet(up'[p]) \subseteq ToSet(up[p])
         /\ \A q \in Peers : q # p => up'[q] = up[q]
  <1>1. up[p] \in Seq(Messages) /\ up[p] # <<>>
    BY DEF TakeUp
  <1>2. /\ Head(up[p]) \in ToSet(up[p]) /\ Head(up[p]) \in Messages
        /\ Tail(up[p]) \in Seq(Messages) /\ ToSet(Tail(up[p])) \subseteq ToSet(up[p])
    BY <1>1, ToSetTail
  <1>. QED
    BY <1>1, <1>2 DEF TakeUp

LEMMA ReceiptTyped ==
  ASSUME down \in [Peers -> Seq(Messages)], NEW p \in Peers, down[p] # <<>>
  PROVE  /\ Head(down[p]) \in ToSet(down[p]) /\ Head(down[p]) \in Messages
         /\ Receive(p) => /\ down' \in [Peers -> Seq(Messages)]
                          /\ ToSet(down'[p]) \subseteq ToSet(down[p])
                          /\ \A q \in Peers : q # p => down'[q] = down[q]
  <1>1. down[p] \in Seq(Messages)
    OBVIOUS
  <1>2. /\ Head(down[p]) \in ToSet(down[p]) /\ Head(down[p]) \in Messages
        /\ Tail(down[p]) \in Seq(Messages) /\ ToSet(Tail(down[p])) \subseteq ToSet(down[p])
    BY <1>1, ToSetTail
  <1>. QED
    BY <1>2 DEF Receive

LEMMA OutTyped ==
  ASSUME NEW pc \in Connection, pc.out # <<>>
  PROVE  /\ Head(pc.out) \in ToSet(pc.out) /\ Head(pc.out) \in Messages
         /\ Tail(pc.out) \in Seq(Messages) /\ ToSet(Tail(pc.out)) \subseteq ToSet(pc.out)
         /\ [pc EXCEPT !.out = Tail(@)] \in Connection
  <1>1. pc.out \in Seq(Messages)
    BY DEF Connection
  <1>2. /\ Head(pc.out) \in ToSet(pc.out) /\ Head(pc.out) \in Messages
        /\ Tail(pc.out) \in Seq(Messages) /\ ToSet(Tail(pc.out)) \subseteq ToSet(pc.out)
    BY <1>1, ToSetTail
  <1>. QED
    BY <1>2 DEF Connection
-----------------------------------------------------------------------------
EntryType ==
  /\ entry \in [Ids -> Peers \cup {Nobody}]
  /\ \A id \in Ids : entry[id] # Nobody => IdOf(entry[id]) = id

WireType == up \in [Peers -> Seq(Messages)] /\ down \in [Peers -> Seq(Messages)]

FlagType ==
  /\ ws \in [Peers -> {"none", "connecting", "open", "gone"}]
  /\ greeted \in [Peers -> BOOLEAN]
  /\ waiting \in [Peers -> BOOLEAN]
  /\ misfits \subseteq Peers \X MsgTypes
  /\ lost \in BOOLEAN

ConnType ==
  /\ clients \in [Runs -> [Clients -> Connection]]
  /\ server \in [Clients -> Connection]
  /\ storing \in [Runs -> Clients \cup {Nobody}]

StoredInv ==
  /\ \A s \in Runs : storing[s] # Nobody => clients[s][storing[s]].made
  /\ \A s \in Runs, c \in Clients :
       clients[s][c].stored => clients[s][c].made /\ storing[s] # c

Types == EntryType /\ WireType /\ FlagType /\ ConnType /\ StoredInv

(* Every message to a run of the server is from a client.                  *)
Senders == \A s \in Runs : \A m \in ToSet(down[s]) : m.id \in Clients

LEMMA EntryStep == ASSUME EntryType, WireType, Next PROVE EntryType'
  <1>. USE DEF EntryType
  <1>1. CASE UNCHANGED entry
    BY <1>1
  <1>2. ASSUME NEW p \in Peers, RelayRegister(p) PROVE EntryType'
    BY <1>2, IdTypes DEF RelayRegister
  <1>3. ASSUME NEW p \in Peers, Evict(p) PROVE EntryType'
    BY <1>3 DEF Evict
  <1>. QED
    BY Steps, <1>1, <1>2, <1>3, Zenon
    DEF Open, Opened, OnOpen, EndWait, Leave, RelayForward, RelayDrop, RelayLose,
        RelayFails, RelayTeardown, ClientReceive, ClientSend, Disconnect,
        ServerReceive, Store, ServerSend

LEMMA FlagStep == ASSUME Types, Next PROVE FlagType'
  <1>. USE DEF Types, FlagType
  <1>1. CASE UNCHANGED <<ws, greeted, waiting, misfits, lost>>
    BY <1>1
  <1>2. ASSUME NEW p \in Peers, Open(p) \/ Opened(p) \/ OnOpen(p) \/ EndWait(p) \/ Leave(p)
        PROVE  FlagType'
    BY <1>2 DEF Open, Opened, OnOpen, EndWait, Leave, peerVars
  <1>3. ASSUME NEW p \in Peers, RelayLose(p) \/ RelayFails(p) PROVE FlagType'
    BY <1>3 DEF RelayLose, RelayFails, peerVars
  <1>4. ASSUME NEW p \in Peers, down[p] # <<>>,
               UNCHANGED misfits \/ Misfit(p, Head(down[p])),
               UNCHANGED <<ws, greeted, waiting, lost>>
        PROVE  FlagType'
    <2>1. Head(down[p]).type \in MsgTypes
      BY <1>4, ReceiptTyped DEF WireType, Messages
    <2>. QED
      BY <1>4, <2>1 DEF Misfit
  <1>5. ASSUME NEW c \in Clients, ClientReceive(c) PROVE FlagType'
    BY <1>4, <1>5, IdTypes, Zenon DEF ClientReceive
  <1>6. ASSUME NEW s \in Runs, ServerReceive(s) PROVE FlagType'
    BY <1>4, <1>6, IdTypes, Zenon DEF ServerReceive
  <1>. QED
    BY Steps, <1>1, <1>2, <1>3, <1>5, <1>6, Zenon
    DEF RelayRegister, RelayForward, RelayDrop, RelayTeardown, ClientSend, Disconnect,
        Store, ServerSend, peerVars

LEMMA WireStep == ASSUME Types, Next PROVE WireType'
  <1>. USE IdTypes DEF Types, WireType
  <1>1. CASE UNCHANGED <<up, down>>
    BY <1>1
  <1>2. ASSUME NEW p \in Peers, NEW m \in Messages, Send(p, m), UNCHANGED down
        PROVE  WireType'
    BY <1>2, SendTyped
  <1>3. ASSUME NEW p \in Peers, OnOpen(p) PROVE WireType'
    <2>1. Msg("register", IdOf(p), p) \in Messages
      BY MsgTyped DEF MsgTypes
    <2>. QED
      BY <1>2, <1>3, <2>1 DEF OnOpen
  <1>4. ASSUME NEW p \in Peers, EndWait(p) PROVE WireType'
    <2>1. Msg("join", ServerId, p) \in Messages
      BY MsgTyped DEF MsgTypes, RelayTypes
    <2>. QED
      BY <1>1, <1>2, <1>4, <2>1 DEF EndWait
  <1>5. ASSUME NEW p \in Peers, TakeUp(p), UNCHANGED down PROVE WireType'
    BY <1>5, TakenTyped
  <1>6. ASSUME NEW p \in Peers, RelayForward(p) PROVE WireType'
    <2>. DEFINE m == Head(up[p])
    <2>1. up' \in [Peers -> Seq(Messages)] /\ m \in Messages
      BY <1>6, TakenTyped DEF RelayForward
    <2>2. entry[m.id] \in Peers
      BY <1>6, <2>1 DEF RelayForward, MayRelay, EntryType, Messages
    <2>3. Msg(m.type, IdOf(p), m.of) \in Messages
      BY <2>1, MsgTyped DEF Messages
    <2>. HIDE DEF m
    <2>4. Append(down[entry[m.id]], Msg(m.type, IdOf(p), m.of)) \in Seq(Messages)
      BY <2>2, <2>3
    <2>5. down' = [down EXCEPT ![entry[m.id]] = Append(@, Msg(m.type, IdOf(p), m.of))]
      BY <1>6 DEF RelayForward, m
    <2>. QED
      BY <2>1, <2>4, <2>5
  <1>7. ASSUME NEW p \in Peers, RelayFails(p) \/ RelayTeardown(p) PROVE WireType'
    <2>1. up' = [up EXCEPT ![p] = <<>>] /\ down' = [down EXCEPT ![p] = <<>>]
      BY <1>7 DEF RelayFails, RelayTeardown, Evict
    <2>2. <<>> \in Seq(Messages)
      OBVIOUS
    <2>. QED
      BY <2>1, <2>2
  <1>8. ASSUME NEW p \in Peers, down[p] # <<>>, Receive(p), UNCHANGED up PROVE WireType'
    BY <1>8, ReceiptTyped
  <1>9. ASSUME NEW c \in Clients, ClientSend(c) PROVE WireType'
    <2>1. Head(server[c].out) \in Messages
      BY <1>9, OutTyped DEF ClientSend, ConnType
    <2>. QED
      BY <1>2, <1>9, <2>1 DEF ClientSend
  <1>10. ASSUME NEW s \in Runs, NEW c \in Clients, ServerSend(s, c) PROVE WireType'
    <2>1. clients[s][c] \in Connection
      BY DEF ConnType
    <2>2. Head(clients[s][c].out) \in Messages
      BY <1>10, <2>1, OutTyped DEF ServerSend
    <2>. QED
      BY <1>2, <1>10, <2>2 DEF ServerSend
  <1>11. ASSUME NEW c \in Clients, ClientReceive(c) PROVE WireType'
    BY <1>8, <1>11, Zenon DEF ClientReceive
  <1>12. ASSUME NEW s \in Runs, ServerReceive(s) PROVE WireType'
    BY <1>1, <1>8, <1>12, Zenon DEF ServerReceive
  <1>. QED
    BY Steps, <1>1, <1>3, <1>4, <1>5, <1>6, <1>7, <1>9, <1>10, <1>11, <1>12, Zenon
    DEF Open, Opened, Leave, RelayRegister, RelayDrop, RelayLose, Disconnect, Store

(* What each action does to the connections.                               *)
ClientChange(c, pc) ==
  /\ server' \in [Clients -> Connection]
  /\ server'[c] = pc
  /\ \A d \in Clients : d # c => server'[d] = server[d]

EntryChange(s, c, pc) ==
  /\ clients' \in [Runs -> [Clients -> Connection]]
  /\ clients'[s][c] = pc
  /\ \A t \in Runs, d \in Clients : t # s \/ d # c => clients'[t][d] = clients[t][d]

LEMMA ClientChanges ==
  ASSUME ConnType, NEW c \in Clients, NEW pc \in Connection,
         server' = [server EXCEPT ![c] = pc]
  PROVE  ClientChange(c, pc)
  BY DEF ConnType, ClientChange

LEMMA EntryChanges ==
  ASSUME ConnType, NEW s \in Runs, NEW c \in Clients, NEW pc \in Connection,
         clients' = [clients EXCEPT ![s][c] = pc]
  PROVE  EntryChange(s, c, pc)
  BY DEF ConnType, EntryChange

(* NetworkClient::handleSignallingMessage.                                 *)
LEMMA ClientReceives ==
  ASSUME Types, NEW c \in Clients, ClientReceive(c)
  PROVE  /\ Head(down[c]) \in Messages /\ Head(down[c]) \in ToSet(down[c])
         /\ \/ UNCHANGED server
            \/ /\ Head(down[c]).type # "offer" => server[c].made
               /\ \E pc \in {server[c], [server[c] EXCEPT !.made = TRUE, !.stored = TRUE]} :
                   /\ pc \in Connection
                   /\ pc.made
                   /\ Accepts(pc, Head(down[c]))
                   /\ ClientChange(c, Apply(pc, Head(down[c]), c))
  <1>. DEFINE m == Head(down[c])
              pc == IF m.type = "offer" THEN [server[c] EXCEPT !.made = TRUE, !.stored = TRUE]
                                        ELSE server[c]
  <1>1. m \in Messages /\ m \in ToSet(down[c])
    BY ReceiptTyped, IdTypes DEF ClientReceive, Types, WireType
  <1>2. pc \in Connection
    <2>1. server[c] \in Connection /\ TRUE \in BOOLEAN
      BY DEF Types, ConnType
    <2>. QED
      BY <2>1 DEF Connection
  <1>3. \/ UNCHANGED server
        \/ pc.made /\ Accepts(pc, m) /\ server' = [server EXCEPT ![c] = Apply(pc, m, c)]
    BY Zenon DEF ClientReceive
  <1>4. Apply(pc, m, c) \in Connection
    BY <1>1, <1>2, ApplyTyped, IdTypes
  <1>. HIDE DEF m
  <1>5. CASE UNCHANGED server
    BY <1>1, <1>5 DEF m
  <1>6. CASE pc.made /\ Accepts(pc, m) /\ server' = [server EXCEPT ![c] = Apply(pc, m, c)]
    <2>1. ClientChange(c, Apply(pc, m, c))
      BY <1>4, <1>6, ClientChanges DEF Types
    <2>2. m.type # "offer" => server[c].made
      BY <1>6
    <2>. QED
      BY <1>1, <1>2, <1>6, <2>1, <2>2, Zenon DEF m
  <1>. QED
    BY <1>3, <1>5, <1>6

(* NetworkServer::handleSignallingMessage.                                 *)
LEMMA ServerReceives ==
  ASSUME Types, Senders, NEW s \in Runs, ServerReceive(s)
  PROVE  /\ Head(down[s]) \in Messages /\ Head(down[s]) \in ToSet(down[s])
         /\ Head(down[s]).id \in Clients
         /\ \/ UNCHANGED <<clients, storing>>
            \/ /\ Creates(Head(down[s]).type) /\ storing[s] = Nobody
               /\ ~clients[s][Head(down[s]).id].stored
               /\ UNCHANGED down
               /\ storing' = [storing EXCEPT ![s] = Head(down[s]).id]
               /\ EntryChange(s, Head(down[s]).id,
                     [clients[s][Head(down[s]).id] EXCEPT !.made = TRUE,
                        !.out = Trickle("offer", Head(down[s]).id, s)])
            \/ /\ clients[s][Head(down[s]).id].stored
               /\ Accepts(clients[s][Head(down[s]).id], Head(down[s]))
               /\ UNCHANGED storing
               /\ EntryChange(s, Head(down[s]).id,
                     Apply(clients[s][Head(down[s]).id], Head(down[s]), s))
  <1>. DEFINE m == Head(down[s])
              c == m.id
              pc == clients[s][c]
              new == [pc EXCEPT !.made = TRUE, !.out = Trickle("offer", c, s)]
  <1>1. m \in Messages /\ m \in ToSet(down[s]) /\ c \in Clients
    BY ReceiptTyped, IdTypes DEF ServerReceive, Types, WireType, Senders
  <1>2. pc \in Connection
    BY <1>1 DEF Types, ConnType
  <1>3. \/ UNCHANGED <<clients, storing>>
        \/ /\ Creates(m.type) /\ storing[s] = Nobody /\ ~pc.stored /\ UNCHANGED down
           /\ storing' = [storing EXCEPT ![s] = c]
           /\ clients' = [clients EXCEPT ![s][c] = new]
        \/ /\ pc.stored /\ Accepts(pc, m) /\ UNCHANGED storing
           /\ clients' = [clients EXCEPT ![s][c] = Apply(pc, m, s)]
    BY Zenon DEF ServerReceive
  <1>4. Apply(pc, m, s) \in Connection
    BY <1>1, <1>2, ApplyTyped, IdTypes
  <1>5. new \in Connection
    <2>1. Trickle("offer", c, s) \in Seq(Messages)
      BY <1>1, TrickleTyped, IdTypes DEF MsgTypes, RelayTypes
    <2>2. TRUE \in BOOLEAN
      OBVIOUS
    <2>. HIDE DEF m, c, pc
    <2>. QED
      BY <1>2, <2>1, <2>2 DEF Connection
  <1>. HIDE DEF m, pc, new
  <1>6. CASE UNCHANGED <<clients, storing>>
    BY <1>1, <1>6 DEF m
  <1>7. CASE /\ Creates(m.type) /\ storing[s] = Nobody /\ ~pc.stored /\ UNCHANGED down
             /\ storing' = [storing EXCEPT ![s] = c]
             /\ clients' = [clients EXCEPT ![s][c] = new]
    <2>1. EntryChange(s, c, new)
      BY <1>1, <1>5, <1>7, EntryChanges DEF Types
    <2>. QED
      BY <1>1, <1>7, <2>1, Zenon DEF m, pc, new
  <1>8. CASE /\ pc.stored /\ Accepts(pc, m) /\ UNCHANGED storing
             /\ clients' = [clients EXCEPT ![s][c] = Apply(pc, m, s)]
    <2>1. EntryChange(s, c, Apply(pc, m, s))
      BY <1>1, <1>4, <1>8, EntryChanges DEF Types
    <2>. QED
      BY <1>1, <1>8, <2>1, Zenon DEF m, pc
  <1>. QED
    BY <1>3, <1>6, <1>7, <1>8

LEMMA Stores ==
  ASSUME Types, NEW s \in Runs, Store(s)
  PROVE  /\ storing[s] \in Clients /\ storing' = [storing EXCEPT ![s] = Nobody]
         /\ EntryChange(s, storing[s], [clients[s][storing[s]] EXCEPT !.stored = TRUE])
  <1>1. storing[s] \in Clients
    BY DEF Store, Types, ConnType
  <1>2. clients[s][storing[s]] \in Connection /\ TRUE \in BOOLEAN
    BY <1>1 DEF Types, ConnType
  <1>3. [clients[s][storing[s]] EXCEPT !.stored = TRUE] \in Connection
    BY <1>2 DEF Connection
  <1>4. clients' = [clients EXCEPT ![s][storing[s]] =
                      [clients[s][storing[s]] EXCEPT !.stored = TRUE]]
    BY <1>1, <1>2 DEF Store, Types, ConnType
  <1>. QED
    BY <1>1, <1>3, <1>4, EntryChanges DEF Types, Store

LEMMA Sends ==
  ASSUME Types
  PROVE  /\ \A s \in Runs, c \in Clients : ServerSend(s, c) =>
              /\ Head(clients[s][c].out) \in ToSet(clients[s][c].out)
              /\ Head(clients[s][c].out) \in Messages
              /\ ToSet(Tail(clients[s][c].out)) \subseteq ToSet(clients[s][c].out)
              /\ EntryChange(s, c, [clients[s][c] EXCEPT !.out = Tail(@)])
         /\ \A c \in Clients : ClientSend(c) =>
              /\ Head(server[c].out) \in ToSet(server[c].out)
              /\ Head(server[c].out) \in Messages
              /\ ToSet(Tail(server[c].out)) \subseteq ToSet(server[c].out)
              /\ ClientChange(c, [server[c] EXCEPT !.out = Tail(@)])
  <1>1. ASSUME NEW s \in Runs, NEW c \in Clients, ServerSend(s, c)
        PROVE  /\ Head(clients[s][c].out) \in ToSet(clients[s][c].out)
               /\ Head(clients[s][c].out) \in Messages
               /\ ToSet(Tail(clients[s][c].out)) \subseteq ToSet(clients[s][c].out)
               /\ EntryChange(s, c, [clients[s][c] EXCEPT !.out = Tail(@)])
    <2>. DEFINE pc == clients[s][c]
    <2>1. pc \in Connection /\ pc.out # <<>>
      BY <1>1 DEF Types, ConnType, ServerSend
    <2>2. clients' = [clients EXCEPT ![s][c] = [pc EXCEPT !.out = Tail(@)]]
      BY <1>1 DEF ServerSend, Types, ConnType
    <2>. HIDE DEF pc
    <2>3. /\ Head(pc.out) \in ToSet(pc.out) /\ Head(pc.out) \in Messages
          /\ ToSet(Tail(pc.out)) \subseteq ToSet(pc.out)
          /\ [pc EXCEPT !.out = Tail(@)] \in Connection
      BY <2>1, OutTyped
    <2>. QED
      BY <2>2, <2>3, EntryChanges DEF pc, Types
  <1>2. ASSUME NEW c \in Clients, ClientSend(c)
        PROVE  /\ Head(server[c].out) \in ToSet(server[c].out)
               /\ Head(server[c].out) \in Messages
               /\ ToSet(Tail(server[c].out)) \subseteq ToSet(server[c].out)
               /\ ClientChange(c, [server[c] EXCEPT !.out = Tail(@)])
    <2>. DEFINE pc == server[c]
    <2>1. pc \in Connection /\ pc.out # <<>>
      BY <1>2 DEF Types, ConnType, ClientSend
    <2>2. server' = [server EXCEPT ![c] = [pc EXCEPT !.out = Tail(@)]]
      BY <1>2 DEF ClientSend, Types, ConnType
    <2>. HIDE DEF pc
    <2>3. /\ Head(pc.out) \in ToSet(pc.out) /\ Head(pc.out) \in Messages
          /\ ToSet(Tail(pc.out)) \subseteq ToSet(pc.out)
          /\ [pc EXCEPT !.out = Tail(@)] \in Connection
      BY <2>1, OutTyped
    <2>. QED
      BY <2>2, <2>3, ClientChanges DEF pc, Types
  <1>. QED
    BY <1>1, <1>2

(* An entry is stored only once it was made, and is then not in the making *)
(* any more.                                                               *)
LEMMA StoredKept ==
  ASSUME ConnType, StoredInv, NEW s \in Runs, NEW c \in Clients, NEW pc \in Connection,
         EntryChange(s, c, pc), pc.made \/ ~clients[s][c].made,
         \/ storing' = storing
         \/ storing' = [storing EXCEPT ![s] = c] /\ pc.made
         \/ storing' = [storing EXCEPT ![s] = Nobody],
         pc.stored => pc.made /\ storing'[s] # c
  PROVE  StoredInv'
  <1>. USE DEF EntryChange
  <1>1. ASSUME NEW t \in Runs, storing'[t] # Nobody PROVE clients'[t][storing'[t]].made
    <2>1. storing'[t] = storing[t] \/ (t = s /\ storing'[t] = c /\ pc.made)
      BY <1>1 DEF ConnType
    <2>2. CASE t = s /\ storing'[t] = c /\ pc.made
      BY <2>2
    <2>3. CASE storing'[t] = storing[t]
      <3>1. storing[t] \in Clients /\ clients[t][storing[t]].made
        BY <1>1, <2>3 DEF ConnType, StoredInv
      <3>2. CASE t = s /\ storing[t] = c
        BY <2>3, <3>1, <3>2
      <3>3. CASE ~(t = s /\ storing[t] = c)
        <4>1. clients'[t][storing[t]] = clients[t][storing[t]]
          BY <3>1, <3>3
        <4>. QED
          BY <2>3, <3>1, <4>1
      <3>. QED
        BY <3>2, <3>3
    <2>. QED
      BY <2>1, <2>2, <2>3
  <1>2. ASSUME NEW t \in Runs, NEW d \in Clients, clients'[t][d].stored
        PROVE  clients'[t][d].made /\ storing'[t] # d
    <2>1. CASE t = s /\ d = c
      BY <1>2, <2>1
    <2>2. CASE ~(t = s /\ d = c)
      <3>1. clients'[t][d] = clients[t][d]
        BY <2>2
      <3>2. clients[t][d].made /\ storing[t] # d
        BY <1>2, <3>1 DEF StoredInv
      <3>3. storing'[t] # d
        BY <2>2, <3>2, JoinAssumption DEF ConnType
      <3>. QED
        BY <3>1, <3>2, <3>3
    <2>. QED
      BY <2>1, <2>2
  <1>. QED
    BY <1>1, <1>2 DEF StoredInv

LEMMA ConnStep == ASSUME Types, Senders, Next PROVE ConnType' /\ StoredInv'
  <1>. USE DEF ConnType, StoredInv
  <1>0. ConnType /\ StoredInv
    BY DEF Types
  <1>1. CASE UNCHANGED <<clients, server, storing>>
    BY <1>0, <1>1
  <1>2. ASSUME NEW c \in Clients, NEW pc, ClientChange(c, pc), UNCHANGED <<clients, storing>>
        PROVE  ConnType' /\ StoredInv'
    BY <1>0, <1>2 DEF ClientChange
  <1>3. ASSUME NEW s \in Runs, NEW c \in Clients, NEW pc \in Connection,
               EntryChange(s, c, pc), UNCHANGED server,
               storing' \in [Runs -> Clients \cup {Nobody}]
        PROVE  ConnType'
    BY <1>0, <1>3 DEF EntryChange
  <1>4. ASSUME NEW s \in Runs, ServerReceive(s) PROVE ConnType' /\ StoredInv'
    <2>. DEFINE m == Head(down[s])
                c == m.id
                pc == clients[s][c]
                new == [pc EXCEPT !.made = TRUE, !.out = Trickle("offer", c, s)]
                next == Apply(pc, m, s)
    <2>1. UNCHANGED server
      BY <1>4 DEF ServerReceive
    <2>2. m \in Messages /\ c \in Clients
      BY <1>4, ServerReceives
    <2>3. pc \in Connection
      BY <1>0, <2>2 DEF ConnType
    <2>4. CASE UNCHANGED <<clients, storing>>
      BY <1>1, <2>1, <2>4
    <2>5. CASE /\ storing[s] = Nobody /\ ~pc.stored /\ storing' = [storing EXCEPT ![s] = c]
               /\ EntryChange(s, c, new)
      <3>1. new \in Connection
        BY <2>2, <2>5 DEF EntryChange
      <3>2. new.made /\ ~new.stored
        BY <2>3, <2>5 DEF Connection
      <3>. HIDE DEF new, c, pc
      <3>3. storing' \in [Runs -> Clients \cup {Nobody}]
        BY <1>0, <2>2, <2>5
      <3>. QED
        BY <1>0, <1>3, <2>1, <2>2, <2>5, <3>1, <3>2, <3>3, StoredKept
    <2>6. CASE UNCHANGED storing /\ pc.stored /\ EntryChange(s, c, next)
      <3>1. next \in Connection
        BY <2>2, <2>6 DEF EntryChange
      <3>2. next.made = pc.made /\ next.stored = pc.stored
        BY <2>3 DEF Apply, Connection
      <3>3. pc.made /\ storing[s] # c
        BY <1>0, <2>2, <2>6 DEF StoredInv
      <3>. HIDE DEF next, c, pc
      <3>. QED
        BY <1>0, <1>3, <2>1, <2>2, <2>6, <3>1, <3>2, <3>3, StoredKept
    <2>. QED
      BY <1>4, ServerReceives, <2>4, <2>5, <2>6, Zenon
  <1>5. ASSUME NEW s \in Runs, Store(s) PROVE ConnType' /\ StoredInv'
    <2>. DEFINE c == storing[s]
                pc == [clients[s][c] EXCEPT !.stored = TRUE]
    <2>1. /\ c \in Clients /\ storing' = [storing EXCEPT ![s] = Nobody]
          /\ EntryChange(s, c, pc)
          /\ UNCHANGED server
      BY <1>5, Stores DEF Store
    <2>2. clients[s][c] \in Connection /\ c # Nobody /\ Nobody \notin Clients
      BY <1>0, <2>1, JoinAssumption
    <2>3. clients[s][c].made
      BY <1>0, <2>2 DEF StoredInv
    <2>4. pc.made
      BY <2>2, <2>3 DEF Connection
    <2>5. pc \in Connection
      BY <2>1 DEF EntryChange
    <2>6. storing' \in [Runs -> Clients \cup {Nobody}] /\ storing'[s] # c
      BY <1>0, <2>1, <2>2
    <2>. HIDE DEF pc, c
    <2>. QED
      BY <1>0, <1>3, <2>1, <2>4, <2>5, <2>6, StoredKept
  <1>6. ASSUME NEW s \in Runs, NEW c \in Clients, ServerSend(s, c)
        PROVE  ConnType' /\ StoredInv'
    <2>. DEFINE pc == [clients[s][c] EXCEPT !.out = Tail(@)]
    <2>1. EntryChange(s, c, pc) /\ UNCHANGED <<server, storing>>
      BY <1>6, Sends DEF ServerSend
    <2>2. pc \in Connection
      BY <2>1 DEF EntryChange
    <2>3. pc.made = clients[s][c].made /\ pc.stored = clients[s][c].stored
      BY <1>0 DEF Connection
    <2>. HIDE DEF pc
    <2>. QED
      BY <1>0, <1>3, <2>1, <2>2, <2>3, StoredKept
  <1>7. ASSUME NEW c \in Clients, ClientReceive(c) PROVE ConnType' /\ StoredInv'
    BY <1>1, <1>2, <1>7, ClientReceives DEF ClientReceive
  <1>8. ASSUME NEW c \in Clients, ClientSend(c) PROVE ConnType' /\ StoredInv'
    BY <1>2, <1>8, Sends DEF ClientSend
  <1>9. ASSUME NEW c \in Clients, Disconnect(c) PROVE ConnType' /\ StoredInv'
    <2>1. CASE server[c].made
      BY <1>2, <1>9, <2>1, ConnectionTyped, ClientChanges DEF Disconnect, Types
    <2>2. CASE ~server[c].made
      BY <1>9, <2>2, Zenon DEF Disconnect, Types, ConnType, StoredInv
    <2>. QED
      BY <2>1, <2>2
  <1>. QED
    BY Steps, <1>1, <1>4, <1>5, <1>6, <1>7, <1>8, <1>9, Zenon
    DEF Open, Opened, OnOpen, EndWait, Leave, RelayRegister, RelayForward, RelayDrop,
        RelayLose, RelayFails, RelayTeardown, peerVars

LEMMA TypesMean == Types <=> TypeOK /\ \A s \in Runs : storing[s] # Nobody => clients[s][storing[s]].made
  BY Zenon DEF Types, EntryType, WireType, FlagType, ConnType, StoredInv, TypeOK
-----------------------------------------------------------------------------
(* Whether the client's connection has taken an offer, or was closed.      *)
Paired(c) == server[c].remote # Nobody \/ server[c].closed

(* What clients and runs of the server send: clients ask and, once they    *)
(* took an offer, answer; runs offer, to clients whose connection they     *)
(* have made.  Candidates come with either.                                *)
OfClient(m, c) ==
  /\ m.type \in {"register", "join", "answer", "candidate"}
  /\ m.type # "register" => m.id = ServerId
  /\ m.type \in {"answer", "candidate"} => m.of = c /\ Paired(c)

OfServer(m, s) ==
  /\ m.type \in {"register", "offer", "candidate"}
  /\ m.type # "register" => m.id \in Clients /\ m.of = s /\ clients[s][m.id].made

ForServer(m) ==
  /\ m.id \in Clients /\ m.type \in {"join", "answer", "candidate"}
  /\ m.type # "join" => m.of = m.id /\ Paired(m.id)

ForClient(m, c) ==
  /\ m.id = ServerId /\ m.type \in {"offer", "candidate"}
  /\ m.of \in Runs /\ clients[m.of][c].made

MessageInv ==
  /\ \A c \in Clients :
       /\ \A m \in ToSet(up[c]) : OfClient(m, c)
       /\ \A m \in ToSet(down[c]) : ForClient(m, c)
       /\ \A m \in ToSet(server[c].out) :
            OfClient(m, c) /\ m.type \notin {"register", "join"}
  /\ \A s \in Runs :
       /\ \A m \in ToSet(up[s]) : OfServer(m, s)
       /\ \A m \in ToSet(down[s]) : ForServer(m)
       /\ \A c \in Clients : \A m \in ToSet(clients[s][c].out) :
            OfServer(m, s) /\ m.type # "register" /\ m.id = c

(* An offer is taken from a run that made a connection for the client; a   *)
(* run's connection has the answer of a client that took an offer.         *)
RemoteInv ==
  /\ \A c \in Clients : server[c].remote # Nobody =>
       server[c].remote \in Runs /\ clients[server[c].remote][c].made
  /\ \A s \in Runs, c \in Clients : clients[s][c].remote # Nobody =>
       clients[s][c].remote = c /\ clients[s][c].made /\ Paired(c)

(* A client's join is on its wire up, or with one run of the server: on    *)
(* that run's wire down, or it has led to a connection there.              *)
Joins(q) == {i \in DOMAIN q : q[i].type = "join"}
Asked(s, c) == clients[s][c].made \/ \E m \in ToSet(down[s]) : m.type = "join" /\ m.id = c
JoinInv ==
  \A c \in Clients :
    /\ \A i, j \in Joins(up[c]) : i = j
    /\ Joins(up[c]) # {} => \A s \in Runs : ~Asked(s, c)
    /\ \A s, t \in Runs : Asked(s, c) /\ Asked(t, c) => s = t
    /\ ws[c] = "none" \/ waiting[c] => Joins(up[c]) = {} /\ \A s \in Runs : ~Asked(s, c)

IInv == Types /\ MessageInv /\ RemoteInv /\ JoinInv

LEMMA MessagesFromClients == MessageInv => Senders
  BY DEF MessageInv, Senders, ForServer

(* The two ends of a connection belong to each other.                      *)
LEMMA Pairs == ASSUME IInv PROVE DescriptionsPaired
  <1>. SUFFICES ASSUME NEW s \in Runs, NEW c \in Clients, clients[s][c].remote # Nobody
                PROVE  clients[s][c].remote = c /\ (server[c].remote = s \/ server[c].closed)
    BY DEF DescriptionsPaired
  <1>1. clients[s][c].remote = c /\ clients[s][c].made /\ Paired(c)
    BY DEF IInv, RemoteInv
  <1>2. CASE server[c].remote # Nobody
    <2>1. server[c].remote \in Runs /\ Asked(server[c].remote, c) /\ Asked(s, c)
      BY <1>1, <1>2 DEF IInv, RemoteInv, Asked
    <2>. QED
      BY <1>1, <2>1 DEF IInv, JoinInv
  <1>. QED
    BY <1>1, <1>2 DEF Paired

LEMMA Initially == Init => IInv
  <1>. SUFFICES ASSUME Init PROVE IInv
    OBVIOUS
  <1>. USE DEF Init
  <1>0. <<>> \in Seq(Messages)
    OBVIOUS
  <1>1. EntryType /\ WireType
    BY <1>0 DEF EntryType, WireType
  <1>2. FlagType
    BY Zenon DEF FlagType
  <1>3. ConnType
    BY ConnectionTyped DEF ConnType
  <1>4. /\ \A s \in Runs, c \in Clients : clients[s][c] = NoConnection /\ storing[s] = Nobody
        /\ \A c \in Clients : server[c] = NoConnection
        /\ \A p \in Peers : up[p] = <<>> /\ down[p] = <<>>
        /\ ~NoConnection.made /\ ~NoConnection.stored
        /\ NoConnection.remote = Nobody /\ NoConnection.out = <<>>
    BY DEF NoConnection
  <1>5. StoredInv
    <2>1. \A s \in Runs : storing[s] = Nobody
      OBVIOUS
    <2>. QED
      BY <1>4, <2>1 DEF StoredInv
  <1>6. MessageInv
    BY <1>4, ToSetEmpty, IdTypes DEF MessageInv
  <1>7. RemoteInv
    BY <1>4 DEF RemoteInv
  <1>8. JoinInv
    <2>1. Joins(<<>>) = {}
      BY DEF Joins
    <2>2. \A s \in Runs, c \in Clients : ~Asked(s, c)
      BY <1>4, ToSetEmpty, IdTypes DEF Asked
    <2>. QED
      BY <1>4, <2>1, <2>2, IdTypes DEF JoinInv
  <1>. QED
    BY <1>1, <1>2, <1>3, <1>5, <1>6, <1>7, <1>8 DEF IInv, Types
-----------------------------------------------------------------------------
(* What was made stays made, what was paired stays paired.                 *)
LEMMA MadeStays ==
  ASSUME Types, Senders, Next, NEW s \in Runs, NEW c \in Clients, clients[s][c].made
  PROVE  clients'[s][c].made
  <1>1. ASSUME NEW t \in Runs, NEW d \in Clients, NEW pc, EntryChange(t, d, pc),
               clients[t][d].made => pc.made
        PROVE  clients'[s][c].made
    BY <1>1 DEF EntryChange
  <1>2. \A t \in Runs, d \in Clients : clients[t][d] \in Connection
    BY DEF Types, ConnType
  <1>3. ASSUME NEW t \in Runs, ServerReceive(t) PROVE clients'[s][c].made
    <2>. DEFINE m == Head(down[t])
                d == m.id
                pc == clients[t][d]
    <2>1. d \in Clients /\ pc \in Connection
      BY <1>2, <1>3, ServerReceives
    <2>2. [pc EXCEPT !.made = TRUE, !.out = Trickle("offer", d, t)].made
      BY <2>1 DEF Connection
    <2>3. Apply(pc, m, t).made = pc.made
      BY <2>1 DEF Apply, Connection
    <2>4. \/ UNCHANGED clients
          \/ EntryChange(t, d, [pc EXCEPT !.made = TRUE, !.out = Trickle("offer", d, t)])
          \/ EntryChange(t, d, Apply(pc, m, t))
      BY <1>3, ServerReceives
    <2>. HIDE DEF d, pc, m
    <2>5. ASSUME EntryChange(t, d, Apply(pc, m, t)) PROVE clients'[s][c].made
      BY <1>1, <2>1, <2>3, <2>5 DEF pc
    <2>6. ASSUME EntryChange(t, d, [pc EXCEPT !.made = TRUE, !.out = Trickle("offer", d, t)])
          PROVE  clients'[s][c].made
      BY <1>1, <2>1, <2>2, <2>6
    <2>. QED
      BY <2>4, <2>5, <2>6
  <1>4. ASSUME NEW t \in Runs, Store(t) PROVE clients'[s][c].made
    <2>1. /\ storing[t] \in Clients
          /\ EntryChange(t, storing[t], [clients[t][storing[t]] EXCEPT !.stored = TRUE])
      BY <1>4, Stores
    <2>2. clients[t][storing[t]].made => [clients[t][storing[t]] EXCEPT !.stored = TRUE].made
      BY <1>2, <2>1 DEF Connection
    <2>. QED
      BY <1>1, <2>1, <2>2
  <1>5. ASSUME NEW t \in Runs, NEW d \in Clients, ServerSend(t, d) PROVE clients'[s][c].made
    <2>1. EntryChange(t, d, [clients[t][d] EXCEPT !.out = Tail(@)])
      BY <1>5, Sends
    <2>2. clients[t][d].made => [clients[t][d] EXCEPT !.out = Tail(@)].made
      BY <1>2 DEF Connection
    <2>. QED
      BY <1>1, <2>1, <2>2
  <1>. QED
    BY Steps, <1>3, <1>4, <1>5, Zenon
    DEF Open, Opened, OnOpen, EndWait, Leave, RelayRegister, RelayForward, RelayDrop,
        RelayLose, RelayFails, RelayTeardown, ClientReceive, ClientSend, Disconnect, peerVars

(* How a client's connection can change: it takes an offer or a candidate, *)
(* it is closed, or it has sent a message.                                 *)
LEMMA ClientSteps ==
  ASSUME Types, MessageInv, Next, NEW c \in Clients
  PROVE  \/ UNCHANGED server[c]
         \/ /\ server'[c].remote \in Runs /\ clients[server'[c].remote][c].made
            /\ \A m \in ToSet(server'[c].out) :
                 m \in ToSet(server[c].out) \/ m \in ToSet(Trickle("answer", ServerId, c))
         \/ server'[c].closed /\ server'[c].remote = Nobody /\ server'[c].out = <<>>
         \/ /\ server'[c].remote = server[c].remote /\ server'[c].closed = server[c].closed
            /\ ToSet(server'[c].out) \subseteq ToSet(server[c].out)
  <1>0. server[c] \in Connection
    BY DEF Types, ConnType
  <1>1. ASSUME NEW d \in Clients, NEW pc, ClientChange(d, pc), d # c PROVE UNCHANGED server[c]
    BY <1>1 DEF ClientChange
  <1>2. CASE ClientReceive(c) /\ ~UNCHANGED server
    <2>. DEFINE m == Head(down[c])
    <2>1. m \in Messages /\ ForClient(m, c)
      BY <1>2, ClientReceives DEF MessageInv
    <2>2. PICK pc \in {server[c], [server[c] EXCEPT !.made = TRUE, !.stored = TRUE]} :
            pc \in Connection /\ ClientChange(c, Apply(pc, m, c))
      BY <1>2, ClientReceives
    <2>3. pc.out = server[c].out /\ pc.remote = server[c].remote /\ pc.closed = server[c].closed
      BY <1>0, <2>2 DEF Connection
    <2>. HIDE DEF m
    <2>4. CASE m.type = "offer"
      <3>1. server'[c].remote = m.of /\ server'[c].out = pc.out \o Trickle("answer", ServerId, c)
        <4>1. m.id = ServerId
          BY <2>1 DEF ForClient
        <4>. QED
          BY <2>2, <2>4, <4>1 DEF ClientChange, Apply, Connection
      <3>2. Trickle("answer", ServerId, c) \in Seq(Messages) /\ pc.out \in Seq(Messages)
        BY <2>2, TrickleTyped, IdTypes DEF Connection, MsgTypes, RelayTypes
      <3>3. ToSet(server'[c].out) \subseteq ToSet(pc.out) \cup ToSet(Trickle("answer", ServerId, c))
        BY <3>1, <3>2, ToSetConcat
      <3>4. m.of \in Runs /\ clients[m.of][c].made
        BY <2>1, <2>4 DEF ForClient
      <3>. QED
        BY <2>3, <3>1, <3>3, <3>4
    <2>5. CASE m.type = "candidate"
      <3>1. /\ server'[c].remote = pc.remote /\ server'[c].closed = pc.closed
            /\ server'[c].out = pc.out
        BY <2>2, <2>5 DEF ClientChange, Apply, Connection
      <3>. QED
        BY <2>3, <3>1
    <2>. QED
      BY <2>1, <2>4, <2>5 DEF ForClient
  <1>3. CASE ClientSend(c)
    <2>1. /\ ToSet(Tail(server[c].out)) \subseteq ToSet(server[c].out)
          /\ server'[c] = [server[c] EXCEPT !.out = Tail(@)]
      BY <1>3, Sends DEF ClientChange
    <2>. QED
      BY <1>0, <2>1 DEF Connection
  <1>4. CASE Disconnect(c)
    <2>1. CASE server[c].made
      <3>1. server'[c] = [NoConnection EXCEPT !.closed = TRUE]
        BY <1>4, <2>1, ConnectionTyped, ClientChanges DEF Disconnect, Types, ClientChange
      <3>. QED
        BY <3>1 DEF NoConnection
    <2>2. CASE ~server[c].made
      BY <1>4, <2>2, Zenon DEF Disconnect
    <2>. QED
      BY <2>1, <2>2
  <1>5. ASSUME NEW d \in Clients, d # c, ClientReceive(d) \/ ClientSend(d) \/ Disconnect(d)
        PROVE  UNCHANGED server[c]
    <2>1. CASE ClientReceive(d)
      BY <1>1, <1>5, <2>1, ClientReceives
    <2>2. CASE ClientSend(d)
      BY <1>1, <1>5, <2>2, Sends
    <2>3. CASE Disconnect(d)
      <3>1. CASE server[d].made
        BY <1>1, <1>5, <2>3, <3>1, ConnectionTyped, ClientChanges DEF Disconnect, Types
      <3>2. CASE ~server[d].made
        BY <2>3, <3>2, Zenon DEF Disconnect
      <3>. QED
        BY <3>1, <3>2
    <2>. QED
      BY <1>5, <2>1, <2>2, <2>3
  <1>6. CASE UNCHANGED server
    BY <1>6
  <1>7. \/ UNCHANGED server
        \/ \E d \in Clients : ClientReceive(d) \/ ClientSend(d) \/ Disconnect(d)
    BY Steps, Zenon
    DEF Open, Opened, OnOpen, EndWait, Leave, RelayRegister, RelayForward, RelayDrop,
        RelayLose, RelayFails, RelayTeardown, ServerReceive, Store, ServerSend, peerVars
  <1>. QED
    BY <1>2, <1>3, <1>4, <1>5, <1>6, <1>7

LEMMA PairedStays ==
  ASSUME Types, MessageInv, Next, NEW c \in Clients, Paired(c)
  PROVE  Paired(c)'
  BY ClientSteps, IdTypes DEF Paired, Peers

(* How an entry of m_clients can change: it is made and has its offer to   *)
(* send, it takes an answer, or it changes in nothing that matters here.   *)
LEMMA EntrySteps ==
  ASSUME Types, MessageInv, Next, NEW s \in Runs, NEW c \in Clients
  PROVE  /\ \/ clients'[s][c].made = clients[s][c].made
            \/ \E m \in ToSet(down[s]) : m.type = "join" /\ m.id = c /\ UNCHANGED <<up, down, ws, waiting>>
         /\ \A m \in ToSet(clients'[s][c].out) :
              \/ m \in ToSet(clients[s][c].out)
              \/ m \in ToSet(Trickle("offer", c, s)) /\ clients'[s][c].made
         /\ \/ clients'[s][c].remote = clients[s][c].remote
            \/ clients'[s][c].remote = c /\ clients[s][c].made /\ Paired(c)
  <1>. DEFINE Goal ==
         /\ \/ clients'[s][c].made = clients[s][c].made
            \/ \E m \in ToSet(down[s]) : m.type = "join" /\ m.id = c /\ UNCHANGED <<up, down, ws, waiting>>
         /\ \A m \in ToSet(clients'[s][c].out) :
              \/ m \in ToSet(clients[s][c].out)
              \/ m \in ToSet(Trickle("offer", c, s)) /\ clients'[s][c].made
         /\ \/ clients'[s][c].remote = clients[s][c].remote
            \/ clients'[s][c].remote = c /\ clients[s][c].made /\ Paired(c)
  <1>0. /\ \A t \in Runs, d \in Clients : clients[t][d] \in Connection
        /\ Senders
    BY MessagesFromClients DEF Types, ConnType
  <1>1. CASE clients'[s][c] = clients[s][c]
    BY <1>1
  <1>2. ASSUME NEW t \in Runs, NEW d \in Clients, NEW pc, EntryChange(t, d, pc), t # s \/ d # c
        PROVE  Goal
    BY <1>1, <1>2 DEF EntryChange
  <1>3. ASSUME ServerReceive(s), Head(down[s]).id = c, clients' # clients PROVE Goal
    <2>. DEFINE m == Head(down[s])
                pc == clients[s][c]
                new == [pc EXCEPT !.made = TRUE, !.out = Trickle("offer", c, s)]
    <2>1. m \in Messages /\ m \in ToSet(down[s]) /\ ForServer(m) /\ m.id = c /\ pc \in Connection
      BY <1>0, <1>3, ServerReceives DEF MessageInv
    <2>2. \/ Creates(m.type) /\ UNCHANGED <<up, down, ws, waiting>> /\ clients'[s][c] = new
          \/ pc.stored /\ clients'[s][c] = Apply(pc, m, s)
      BY <1>0, <1>3, ServerReceives DEF EntryChange, ServerReceive
    <2>. HIDE DEF m, pc
    <2>3. CASE Creates(m.type) /\ UNCHANGED <<up, down, ws, waiting>> /\ clients'[s][c] = new
      <3>1. m.type = "join"
        BY <2>1, <2>3 DEF Creates, ForServer
      <3>2. /\ clients'[s][c].made /\ clients'[s][c].out = Trickle("offer", c, s)
            /\ clients'[s][c].remote = pc.remote
        BY <2>1, <2>3 DEF Connection
      <3>. QED
        BY <2>1, <2>3, <3>1, <3>2 DEF pc
    <2>4. CASE pc.stored /\ clients'[s][c] = Apply(pc, m, s)
      <3>1. clients'[s][c].out = pc.out /\ clients'[s][c].made = pc.made
        BY <2>1, <2>4 DEF Apply, ForServer, Connection
      <3>2. CASE m.type = "answer"
        <4>1. clients'[s][c].remote = c /\ Paired(c)
          BY <2>1, <2>4, <3>2 DEF Apply, ForServer, Connection
        <4>2. pc.made
          BY <2>4 DEF Types, StoredInv, pc
        <4>. QED
          BY <3>1, <4>1, <4>2 DEF pc
      <3>3. CASE m.type # "answer"
        <4>1. clients'[s][c].remote = pc.remote
          BY <2>1, <2>4, <3>3 DEF Apply, ForServer, Connection
        <4>. QED
          BY <3>1, <4>1 DEF pc
      <3>. QED
        BY <3>2, <3>3
    <2>. QED
      BY <2>2, <2>3, <2>4
  <1>4. ASSUME NEW t \in Runs, ServerReceive(t) PROVE Goal
    <2>1. Head(down[t]).id \in Clients
      BY <1>0, <1>4, ServerReceives
    <2>2. UNCHANGED clients \/ \E pc : EntryChange(t, Head(down[t]).id, pc)
      BY <1>0, <1>4, ServerReceives
    <2>. QED
      BY <1>1, <1>2, <1>3, <1>4, <2>1, <2>2
  <1>5. ASSUME NEW t \in Runs, Store(t) PROVE Goal
    <2>1. /\ storing[t] \in Clients
          /\ EntryChange(t, storing[t], [clients[t][storing[t]] EXCEPT !.stored = TRUE])
      BY <1>5, Stores
    <2>2. CASE t = s /\ storing[t] = c
      <3>1. clients'[s][c] = [clients[s][c] EXCEPT !.stored = TRUE] /\ clients[s][c] \in Connection
        BY <1>0, <2>1, <2>2 DEF EntryChange
      <3>2. /\ clients'[s][c].made = clients[s][c].made /\ clients'[s][c].out = clients[s][c].out
            /\ clients'[s][c].remote = clients[s][c].remote
        BY <3>1 DEF Connection
      <3>. QED
        BY <3>2
    <2>. QED
      BY <1>2, <2>1, <2>2
  <1>6. ASSUME NEW t \in Runs, NEW d \in Clients, ServerSend(t, d) PROVE Goal
    <2>1. /\ EntryChange(t, d, [clients[t][d] EXCEPT !.out = Tail(@)])
          /\ ToSet(Tail(clients[t][d].out)) \subseteq ToSet(clients[t][d].out)
      BY <1>6, Sends
    <2>2. CASE t = s /\ d = c
      <3>1. clients'[s][c] = [clients[s][c] EXCEPT !.out = Tail(@)] /\ clients[s][c] \in Connection
        BY <1>0, <2>1, <2>2 DEF EntryChange
      <3>2. /\ clients'[s][c].made = clients[s][c].made
            /\ clients'[s][c].out = Tail(clients[s][c].out)
            /\ clients'[s][c].remote = clients[s][c].remote
        BY <3>1 DEF Connection
      <3>. QED
        BY <2>1, <2>2, <3>2
    <2>. QED
      BY <1>2, <2>1, <2>2
  <1>7. \/ UNCHANGED clients
        \/ \E t \in Runs : ServerReceive(t) \/ Store(t)
        \/ \E t \in Runs, d \in Clients : ServerSend(t, d)
    BY Steps, Zenon
    DEF Open, Opened, OnOpen, EndWait, Leave, RelayRegister, RelayForward, RelayDrop,
        RelayLose, RelayFails, RelayTeardown, ClientReceive, ClientSend, Disconnect, peerVars
  <1>. QED
    BY <1>1, <1>4, <1>5, <1>6, <1>7
-----------------------------------------------------------------------------
(* What a step can put on a wire up: a registration, a client's join, or   *)
(* what a connection had to send.                                          *)
LEMMA UpFlow ==
  ASSUME Types, Next, NEW p \in Peers
  PROVE  \A m \in ToSet(up'[p]) :
           \/ m \in ToSet(up[p])
           \/ m = Msg("register", IdOf(p), p)
           \/ p \in Clients /\ m = Msg("join", ServerId, p)
           \/ p \in Clients /\ m \in ToSet(server[p].out)
           \/ p \in Runs /\ \E c \in Clients : m \in ToSet(clients[p][c].out)
  <1>. USE IdTypes DEF Types, WireType
  <1>1. CASE UNCHANGED up
    BY <1>1
  <1>2. ASSUME NEW q \in Peers, NEW n \in Messages, Send(q, n), q = p
        PROVE  ToSet(up'[p]) = ToSet(up[p]) \cup {n}
    BY <1>2, SendTyped
  <1>3. ASSUME NEW q \in Peers, NEW n \in Messages, Send(q, n), q # p PROVE up'[p] = up[p]
    BY <1>3, SendTyped
  <1>4. CASE OnOpen(p)
    <2>1. Msg("register", IdOf(p), p) \in Messages
      BY MsgTyped DEF MsgTypes
    <2>. QED
      BY <1>2, <1>4, <2>1 DEF OnOpen
  <1>5. CASE EndWait(p)
    <2>1. Msg("join", ServerId, p) \in Messages
      BY MsgTyped DEF MsgTypes, RelayTypes
    <2>. QED
      BY <1>1, <1>2, <1>5, <2>1 DEF EndWait, Peers
  <1>6. ASSUME NEW q \in Peers, OnOpen(q) \/ EndWait(q), q # p PROVE up'[p] = up[p]
    BY <1>6 DEF OnOpen, EndWait, Send
  <1>7. ASSUME NEW q \in Peers, TakeUp(q) PROVE ToSet(up'[p]) \subseteq ToSet(up[p])
    BY <1>7, TakenTyped
  <1>8. ASSUME NEW q \in Peers, RelayFails(q) \/ RelayTeardown(q)
        PROVE  ToSet(up'[p]) \subseteq ToSet(up[p])
    BY <1>8, ToSetEmpty DEF RelayFails, RelayTeardown
  <1>9. ASSUME NEW c \in Clients, ClientSend(c)
        PROVE  up'[p] = up[p] \/ (p = c /\ ToSet(up'[p]) = ToSet(up[p]) \cup {Head(server[c].out)})
    BY <1>2, <1>3, <1>9, Sends DEF ClientSend
  <1>10. ASSUME NEW c \in Clients, ClientSend(c) PROVE Head(server[c].out) \in ToSet(server[c].out)
    BY <1>10, Sends
  <1>11. ASSUME NEW s \in Runs, NEW c \in Clients, ServerSend(s, c)
         PROVE  /\ Head(clients[s][c].out) \in ToSet(clients[s][c].out)
                /\ \/ up'[p] = up[p]
                   \/ p = s /\ ToSet(up'[p]) = ToSet(up[p]) \cup {Head(clients[s][c].out)}
    BY <1>2, <1>3, <1>11, Sends DEF ServerSend
  <1>12. \/ UNCHANGED up \/ OnOpen(p) \/ EndWait(p)
         \/ \E q \in Peers : q # p /\ (OnOpen(q) \/ EndWait(q))
         \/ \E q \in Peers : TakeUp(q) \/ RelayFails(q) \/ RelayTeardown(q)
         \/ \E c \in Clients : ClientSend(c)
         \/ \E s \in Runs, c \in Clients : ServerSend(s, c)
    BY Steps, Zenon
    DEF Open, Opened, Leave, RelayRegister, RelayForward, RelayDrop, RelayLose, ClientReceive,
        ServerReceive, Store, Disconnect
  <1>. HIDE DEF Types, WireType
  <1>13. ASSUME NEW c \in Clients, ClientSend(c), NEW m \in ToSet(up'[p])
         PROVE  m \in ToSet(up[p]) \/ (p \in Clients /\ m \in ToSet(server[p].out))
    BY <1>9, <1>10, <1>13
  <1>14. ASSUME NEW s \in Runs, NEW c \in Clients, ServerSend(s, c), NEW m \in ToSet(up'[p])
         PROVE  m \in ToSet(up[p]) \/ (p \in Runs /\ \E d \in Clients : m \in ToSet(clients[p][d].out))
    BY <1>11, <1>14
  <1>. QED
    BY <1>1, <1>4, <1>5, <1>6, <1>7, <1>8, <1>12, <1>13, <1>14

(* What a step can put on a wire down: the message the relay forwards.     *)
LEMMA DownFlow ==
  ASSUME Types, Next, NEW p \in Peers
  PROVE  \A m \in ToSet(down'[p]) :
           \/ m \in ToSet(down[p])
           \/ \E q \in Peers :
                /\ RelayForward(q)
                /\ Head(up[q]) \in ToSet(up[q]) /\ Head(up[q]) \in Messages
                /\ Head(up[q]).type # "register" /\ entry[Head(up[q]).id] = p
                /\ m = Msg(Head(up[q]).type, IdOf(q), Head(up[q]).of)
  <1>1. CASE UNCHANGED down
    BY <1>1
  <1>2. ASSUME NEW q \in Peers, RelayForward(q)
        PROVE  /\ Head(up[q]) \in ToSet(up[q]) /\ Head(up[q]) \in Messages
               /\ Head(up[q]).type # "register"
               /\ \/ down'[p] = down[p]
                  \/ /\ entry[Head(up[q]).id] = p
                     /\ ToSet(down'[p]) =
                          ToSet(down[p]) \cup {Msg(Head(up[q]).type, IdOf(q), Head(up[q]).of)}
    <2>. DEFINE n == Head(up[q])
                m == Msg(n.type, IdOf(q), n.of)
    <2>1. n \in ToSet(up[q]) /\ n \in Messages /\ n.type # "register"
      BY <1>2, TakenTyped DEF RelayForward, Types, WireType
    <2>2. m \in Messages
      BY <2>1, MsgTyped, IdTypes DEF Messages
    <2>3. down' = [down EXCEPT ![entry[n.id]] = Append(@, m)]
      BY <1>2 DEF RelayForward
    <2>4. down \in [Peers -> Seq(Messages)]
      BY DEF Types, WireType
    <2>. HIDE DEF n, m
    <2>5. Append(down[p], m) \in Seq(Messages) /\ ToSet(Append(down[p], m)) = ToSet(down[p]) \cup {m}
      BY <2>2, <2>4, ToSetAppend
    <2>6. down'[p] = down[p] \/ (entry[n.id] = p /\ down'[p] = Append(down[p], m))
      BY <2>3, <2>4
    <2>. QED
      BY <2>1, <2>5, <2>6 DEF n, m
  <1>3. ASSUME NEW q \in Peers, RelayFails(q) \/ RelayTeardown(q)
        PROVE  ToSet(down'[p]) \subseteq ToSet(down[p])
    BY <1>3, ToSetEmpty DEF RelayFails, RelayTeardown, Evict, Types, WireType
  <1>4. ASSUME NEW q \in Peers, down[q] # <<>>, Receive(q)
        PROVE  ToSet(down'[p]) \subseteq ToSet(down[p])
    BY <1>4, ReceiptTyped DEF Types, WireType
  <1>5. /\ \A c \in Clients : ClientReceive(c) => down[c] # <<>> /\ Receive(c)
        /\ \A s \in Runs : ServerReceive(s) => UNCHANGED down \/ (down[s] # <<>> /\ Receive(s))
    BY Zenon DEF ClientReceive, ServerReceive
  <1>6. \/ UNCHANGED down
        \/ \E q \in Peers : RelayForward(q) \/ RelayFails(q) \/ RelayTeardown(q)
        \/ \E q \in Peers : down[q] # <<>> /\ Receive(q)
    <2>1. \/ UNCHANGED down
          \/ \E q \in Peers : RelayForward(q) \/ RelayFails(q) \/ RelayTeardown(q)
          \/ \E c \in Clients : ClientReceive(c)
          \/ \E s \in Runs : ServerReceive(s)
      BY Steps, Zenon
      DEF Open, Opened, OnOpen, EndWait, Leave, RelayRegister, RelayDrop, RelayLose,
          ClientSend, Store, Disconnect, ServerSend
    <2>. QED
      BY <1>5, <2>1, Zenon DEF Peers
  <1>. QED
    BY <1>1, <1>2, <1>3, <1>4, <1>6

(* What holds of a message goes on holding.                                *)
LEMMA MessagesKept ==
  ASSUME Types, MessageInv, Next
  PROVE  /\ \A m \in Messages : ForServer(m) => ForServer(m)'
         /\ \A m \in Messages, c \in Clients :
              /\ OfClient(m, c) => OfClient(m, c)'
              /\ ForClient(m, c) => ForClient(m, c)'
         /\ \A m \in Messages, s \in Runs : OfServer(m, s) => OfServer(m, s)'
  <1>1. \A c \in Clients : Paired(c) => Paired(c)'
    BY PairedStays
  <1>2. \A s \in Runs, c \in Clients : clients[s][c].made => clients'[s][c].made
    BY MadeStays, MessagesFromClients
  <1>. QED
    BY <1>1, <1>2 DEF OfClient, OfServer, ForServer, ForClient

LEMMA MessageStep == ASSUME Types, MessageInv, Next PROVE MessageInv'
  <1>0. /\ up \in [Peers -> Seq(Messages)] /\ down \in [Peers -> Seq(Messages)]
        /\ \A id \in Ids : entry[id] # Nobody => IdOf(entry[id]) = id
        /\ \A s \in Runs, c \in Clients : clients[s][c].out \in Seq(Messages)
        /\ \A c \in Clients : server[c].out \in Seq(Messages)
    BY DEF Types, WireType, EntryType, ConnType, Connection
  <1>1. /\ \A p \in Peers : ToSet(up[p]) \subseteq Messages /\ ToSet(down[p]) \subseteq Messages
        /\ \A s \in Runs, c \in Clients : ToSet(clients[s][c].out) \subseteq Messages
        /\ \A c \in Clients : ToSet(server[c].out) \subseteq Messages
    BY <1>0, ToSetTyped
  <1>2. ASSUME NEW c \in Clients, NEW m \in ToSet(up'[c]) PROVE OfClient(m, c)'
    <2>1. CASE m \in ToSet(up[c]) \/ m \in ToSet(server[c].out)
      BY <1>1, <2>1, MessagesKept, IdTypes DEF MessageInv
    <2>2. CASE m = Msg("register", IdOf(c), c) \/ m = Msg("join", ServerId, c)
      BY <2>2 DEF OfClient, Msg
    <2>. QED
      BY <1>2, <2>1, <2>2, UpFlow, IdTypes
  <1>3. ASSUME NEW s \in Runs, NEW m \in ToSet(up'[s]) PROVE OfServer(m, s)'
    <2>1. CASE m \in ToSet(up[s]) \/ \E c \in Clients : m \in ToSet(clients[s][c].out)
      BY <1>1, <2>1, MessagesKept, IdTypes DEF MessageInv
    <2>2. CASE m = Msg("register", IdOf(s), s)
      BY <2>2 DEF OfServer, Msg
    <2>. QED
      BY <1>3, <2>1, <2>2, UpFlow, IdTypes
  <1>4. ASSUME NEW c \in Clients, NEW m \in ToSet(down'[c]) PROVE ForClient(m, c)'
    <2>1. CASE m \in ToSet(down[c])
      BY <1>1, <2>1, MessagesKept, IdTypes DEF MessageInv
    <2>2. ASSUME NEW q \in Peers, NEW n \in ToSet(up[q]), n \in Messages, n.type # "register",
                 entry[n.id] = c, m = Msg(n.type, IdOf(q), n.of)
          PROVE  ForClient(m, c)'
      <3>1. n.id = c
        BY <1>0, <2>2, IdTypes DEF Messages
      <3>2. q \in Runs /\ OfServer(n, q)
        BY <2>2, <3>1, IdTypes DEF MessageInv, OfClient, Peers
      <3>3. m.id = ServerId /\ m.type = n.type /\ m.of = n.of /\ m \in Messages
        BY <2>2, <3>2, IdTypes, MsgTyped DEF Msg, Messages
      <3>4. ForClient(m, c)
        BY <2>2, <3>1, <3>2, <3>3 DEF ForClient, OfServer
      <3>. QED
        BY <3>3, <3>4, MessagesKept
    <2>. QED
      BY <1>4, <2>1, <2>2, DownFlow, IdTypes
  <1>5. ASSUME NEW s \in Runs, NEW m \in ToSet(down'[s]) PROVE ForServer(m)'
    <2>1. CASE m \in ToSet(down[s])
      BY <1>1, <2>1, MessagesKept, IdTypes DEF MessageInv
    <2>2. ASSUME NEW q \in Peers, NEW n \in ToSet(up[q]), n \in Messages, n.type # "register",
                 entry[n.id] = s, m = Msg(n.type, IdOf(q), n.of)
          PROVE  ForServer(m)'
      <3>1. n.id = ServerId
        BY <1>0, <2>2, IdTypes DEF Messages
      <3>2. q \in Clients /\ OfClient(n, q)
        BY <2>2, <3>1, IdTypes DEF MessageInv, OfServer, Peers
      <3>3. m.id = q /\ m.type = n.type /\ m.of = n.of /\ m \in Messages
        BY <2>2, <3>2, IdTypes, MsgTyped DEF Msg, Messages
      <3>4. ForServer(m)
        BY <2>2, <3>2, <3>3 DEF ForServer, OfClient
      <3>. QED
        BY <3>3, <3>4, MessagesKept
    <2>. QED
      BY <1>5, <2>1, <2>2, DownFlow, IdTypes
  <1>6. ASSUME NEW c \in Clients, NEW m \in ToSet(server'[c].out)
        PROVE  OfClient(m, c)' /\ m.type \notin {"register", "join"}
    <2>1. CASE m \in ToSet(server[c].out)
      BY <1>1, <2>1, MessagesKept DEF MessageInv
    <2>2. CASE m \in ToSet(Trickle("answer", ServerId, c)) /\ server'[c].remote \in Runs
      <3>1. m = Msg("answer", ServerId, c) \/ m = Msg("candidate", ServerId, c)
        BY <2>2, TrickleTyped, IdTypes DEF MsgTypes, RelayTypes
      <3>2. Paired(c)'
        BY <2>2, IdTypes DEF Paired
      <3>. QED
        BY <3>1, <3>2 DEF OfClient, Msg
    <2>. QED
      BY <1>6, <2>1, <2>2, ClientSteps, ToSetEmpty
  <1>7. ASSUME NEW s \in Runs, NEW c \in Clients, NEW m \in ToSet(clients'[s][c].out)
        PROVE  OfServer(m, s)' /\ m.type # "register" /\ m.id = c
    <2>1. CASE m \in ToSet(clients[s][c].out)
      BY <1>1, <2>1, MessagesKept DEF MessageInv
    <2>2. CASE m \in ToSet(Trickle("offer", c, s)) /\ clients'[s][c].made
      <3>1. m = Msg("offer", c, s) \/ m = Msg("candidate", c, s)
        BY <2>2, TrickleTyped, IdTypes DEF MsgTypes, RelayTypes
      <3>. QED
        BY <2>2, <3>1 DEF OfServer, Msg
    <2>. QED
      BY <1>7, <2>1, <2>2, EntrySteps
  <1>. QED
    BY <1>2, <1>3, <1>4, <1>5, <1>6, <1>7, Zenon DEF MessageInv

LEMMA RemoteStep == ASSUME Types, MessageInv, RemoteInv, Next PROVE RemoteInv'
  <1>0. \A s \in Runs, c \in Clients : clients[s][c].made => clients'[s][c].made
    BY MadeStays, MessagesFromClients
  <1>1. ASSUME NEW c \in Clients, server'[c].remote # Nobody
        PROVE  server'[c].remote \in Runs /\ clients'[server'[c].remote][c].made
    BY <1>0, <1>1, ClientSteps DEF RemoteInv
  <1>2. ASSUME NEW s \in Runs, NEW c \in Clients, clients'[s][c].remote # Nobody
        PROVE  clients'[s][c].remote = c /\ clients'[s][c].made /\ Paired(c)'
    <2>1. clients'[s][c].remote = c /\ clients[s][c].made /\ Paired(c)
      BY <1>2, EntrySteps DEF RemoteInv
    <2>. QED
      BY <1>0, <2>1, PairedStays
  <1>. QED
    BY <1>1, <1>2 DEF RemoteInv
-----------------------------------------------------------------------------
(* The joins on a wire that something is sent on or taken from.            *)
Single(q) == \A i, j \in Joins(q) : i = j

LEMMA JoinsAppend ==
  ASSUME NEW q \in Seq(Messages), NEW m \in Messages
  PROVE  /\ m.type # "join" => Joins(Append(q, m)) = Joins(q)
         /\ Joins(q) = {} => Single(Append(q, m))
  <1>. DEFINE r == Append(q, m)
  <1>1. /\ Len(q) \in Nat /\ DOMAIN q = 1 .. Len(q) /\ DOMAIN r = 1 .. Len(q) + 1
        /\ \A i \in 1 .. Len(q) : r[i] = q[i]
        /\ r[Len(q) + 1] = m
    BY AppendProperties, LenProperties
  <1>. HIDE DEF r
  <1>2. Joins(r) \subseteq Joins(q) \cup {Len(q) + 1} /\ Joins(q) \subseteq Joins(r)
    BY <1>1 DEF Joins
  <1>3. m.type # "join" => Len(q) + 1 \notin Joins(r)
    BY <1>1 DEF Joins
  <1>. QED
    BY <1>2, <1>3 DEF r, Single

LEMMA JoinsTail ==
  ASSUME NEW q \in Seq(Messages), q # <<>>, Single(q)
  PROVE  /\ Single(Tail(q))
         /\ Joins(q) = {} => Joins(Tail(q)) = {}
         /\ Head(q).type = "join" => Joins(q) # {} /\ Joins(Tail(q)) = {}
  <1>. DEFINE r == Tail(q)
  <1>1. /\ Len(q) \in Nat \ {0} /\ DOMAIN q = 1 .. Len(q) /\ DOMAIN r = 1 .. Len(q) - 1
        /\ \A i \in 1 .. Len(q) - 1 : r[i] = q[i + 1]
        /\ Head(q) = q[1]
    BY HeadTailProperties, LenProperties, EmptySeq
  <1>. HIDE DEF r
  <1>2. \A i \in Joins(r) : i \in Nat \ {0} /\ i + 1 \in Joins(q)
    BY <1>1 DEF Joins
  <1>3. Head(q).type = "join" => 1 \in Joins(q)
    BY <1>1 DEF Joins
  <1>4. Single(r)
    BY <1>2 DEF Single
  <1>5. Head(q).type = "join" => Joins(r) = {}
    BY <1>2, <1>3 DEF Single
  <1>. QED
    BY <1>2, <1>3, <1>4, <1>5 DEF r

LEMMA JoinsEmpty == Joins(<<>>) = {} /\ Single(<<>>)
  BY DEF Joins, Single

(* Only the end of a client's wait puts a join on its wire.                *)
LEMMA JoinsStep ==
  ASSUME Types, MessageInv, JoinInv, Next, NEW c \in Clients
  PROVE  \/ /\ Single(up'[c]) /\ (Joins(up[c]) = {} => Joins(up'[c]) = {})
            /\ ws'[c] = "none" \/ waiting'[c] => ws[c] = "none" \/ waiting[c]
         \/ EndWait(c) /\ Send(c, Msg("join", ServerId, c)) /\ UNCHANGED ws
  <1>. DEFINE Kept == Single(up'[c]) /\ (Joins(up[c]) = {} => Joins(up'[c]) = {})
  <1>0. Single(up[c]) /\ up[c] \in Seq(Messages) /\ c \in Peers
    BY IdTypes DEF JoinInv, Single, Types, WireType
  <1>1. ASSUME up'[c] = up[c] PROVE Kept
    BY <1>0, <1>1
  <1>2. ASSUME NEW q \in Peers, NEW n \in Messages, Send(q, n), n.type # "join" PROVE Kept
    <2>1. CASE q = c
      <3>1. up'[c] = Append(up[c], n)
        BY <1>2, <2>1, SendTyped DEF Types, WireType
      <3>. QED
        BY <1>0, <1>2, <3>1, JoinsAppend DEF Single
    <2>. QED
      BY <1>0, <1>1, <1>2, <2>1, SendTyped DEF Types, WireType
  <1>3. ASSUME NEW q \in Peers, TakeUp(q) PROVE Kept
    <2>1. up'[c] = up[c] \/ (up[c] # <<>> /\ up'[c] = Tail(up[c]))
      BY <1>0, <1>3, TakenTyped DEF Types, WireType
    <2>. QED
      BY <1>0, <1>1, <2>1, JoinsTail
  <1>4. ASSUME NEW q \in Peers, RelayFails(q) \/ RelayTeardown(q) PROVE Kept
    <2>1. up'[c] = up[c] \/ up'[c] = <<>>
      BY <1>0, <1>4 DEF RelayFails, RelayTeardown, Types, WireType
    <2>. QED
      BY <1>1, <2>1, JoinsEmpty
  <1>5. ASSUME NEW q \in Peers, OnOpen(q) PROVE Kept
    <2>1. Msg("register", IdOf(q), q) \in Messages /\ Msg("register", IdOf(q), q).type # "join"
      BY MsgTyped, IdTypes DEF MsgTypes, Msg
    <2>. QED
      BY <1>2, <1>5, <2>1 DEF OnOpen
  <1>6. ASSUME NEW d \in Clients, ClientSend(d) PROVE Kept
    <2>1. Head(server[d].out) \in Messages /\ Head(server[d].out) \in ToSet(server[d].out)
      BY <1>6, Sends
    <2>2. Head(server[d].out).type # "join"
      BY <2>1 DEF MessageInv
    <2>. QED
      BY <1>2, <1>6, <2>1, <2>2, IdTypes DEF ClientSend
  <1>7. ASSUME NEW s \in Runs, NEW d \in Clients, ServerSend(s, d) PROVE Kept
    <2>1. Head(clients[s][d].out) \in Messages /\ Head(clients[s][d].out) \in ToSet(clients[s][d].out)
      BY <1>7, Sends
    <2>2. Head(clients[s][d].out).type # "join"
      BY <2>1 DEF MessageInv, OfServer
    <2>. QED
      BY <1>2, <1>7, <2>1, <2>2, IdTypes DEF ServerSend
  <1>8. ASSUME NEW q \in Peers, EndWait(q), ~(q = c /\ Send(c, Msg("join", ServerId, c)))
        PROVE  Kept
    <2>1. up'[c] = up[c]
      BY <1>0, <1>8 DEF EndWait, Send, Types, WireType
    <2>. QED
      BY <1>1, <2>1
  <1>9. Kept \/ (EndWait(c) /\ Send(c, Msg("join", ServerId, c)))
    <2>1. \/ UNCHANGED up
          \/ \E q \in Peers : TakeUp(q) \/ RelayFails(q) \/ RelayTeardown(q) \/ OnOpen(q) \/ EndWait(q)
          \/ \E d \in Clients : ClientSend(d)
          \/ \E s \in Runs, d \in Clients : ServerSend(s, d)
      BY Steps, Zenon
      DEF Open, Opened, Leave, RelayRegister, RelayForward, RelayDrop, RelayLose, ClientReceive,
          ServerReceive, Store, Disconnect
    <2>. HIDE DEF Kept
    <2>2. UNCHANGED up => Kept
      BY <1>1
    <2>. QED
      BY <1>3, <1>4, <1>5, <1>6, <1>7, <1>8, <2>1, <2>2, Zenon
  <1>10. ws'[c] = "none" \/ waiting'[c] => ws[c] = "none" \/ waiting[c]
    <2>1. CASE UNCHANGED <<ws, waiting>>
      BY <2>1
    <2>2. ASSUME NEW p \in Peers,
                 Open(p) \/ Opened(p) \/ OnOpen(p) \/ EndWait(p) \/ Leave(p) \/ RelayFails(p)
          PROVE  ws'[c] = "none" \/ waiting'[c] => ws[c] = "none" \/ waiting[c]
      BY <1>0, <2>2
      DEF Open, Opened, OnOpen, EndWait, Leave, RelayFails, peerVars, Types, FlagType
    <2>. QED
      BY Steps, <2>1, <2>2, Zenon
      DEF RelayRegister, RelayForward, RelayDrop, RelayLose, RelayTeardown, ClientReceive,
          ClientSend, Disconnect, ServerReceive, Store, ServerSend, peerVars
  <1>11. EndWait(c) /\ Send(c, Msg("join", ServerId, c)) => UNCHANGED ws
    <2>1. ASSUME Send(c, Msg("join", ServerId, c)), UNCHANGED up PROVE FALSE
      <3>1. Len(Append(up[c], Msg("join", ServerId, c))) = Len(up[c]) + 1 /\ Len(up[c]) \in Nat
        BY <1>0, MsgTyped, AppendProperties, LenProperties, IdTypes DEF MsgTypes, RelayTypes
      <3>2. up[c] = Append(up[c], Msg("join", ServerId, c))
        BY <1>0, <2>1 DEF Send, Types, WireType
      <3>. QED
        BY <3>1, <3>2
    <2>. QED
      BY <2>1, Zenon DEF EndWait
  <1>. QED
    BY <1>9, <1>10, <1>11, Zenon

(* A run is asked by a client when the relay forwards the client's join.   *)
LEMMA AskedStep ==
  ASSUME Types, MessageInv, Next, NEW s \in Runs, NEW c \in Clients, Asked(s, c)', ~Asked(s, c)
  PROVE  /\ RelayForward(c) /\ Head(up[c]).type = "join" /\ entry[Head(up[c]).id] = s
  <1>1. ~clients'[s][c].made
    BY EntrySteps DEF Asked
  <1>2. PICK m \in ToSet(down'[s]) : m.type = "join" /\ m.id = c
    BY <1>1 DEF Asked
  <1>3. m \notin ToSet(down[s])
    BY <1>2 DEF Asked
  <1>4. PICK q \in Peers :
          /\ RelayForward(q) /\ entry[Head(up[q]).id] = s
          /\ m = Msg(Head(up[q]).type, IdOf(q), Head(up[q]).of)
    BY <1>2, <1>3, DownFlow, IdTypes
  <1>5. Head(up[q]).type = "join" /\ IdOf(q) = c
    BY <1>2, <1>4 DEF Msg
  <1>6. q = c
    BY <1>5, IdTypes DEF Peers
  <1>. QED
    BY <1>4, <1>5, <1>6

LEMMA JoinStep == ASSUME Types, MessageInv, JoinInv, Next PROVE JoinInv'
  <1>. SUFFICES ASSUME NEW c \in Clients
                PROVE  /\ Single(up'[c])
                       /\ Joins(up'[c]) # {} => \A s \in Runs : ~Asked(s, c)'
                       /\ \A s, t \in Runs : Asked(s, c)' /\ Asked(t, c)' => s = t
                       /\ ws'[c] = "none" \/ waiting'[c] =>
                            Joins(up'[c]) = {} /\ \A s \in Runs : ~Asked(s, c)'
    BY DEF JoinInv, Single
  <1>0. /\ Single(up[c]) /\ up[c] \in Seq(Messages) /\ c \in Peers
        /\ Joins(up[c]) # {} => \A s \in Runs : ~Asked(s, c)
        /\ \A s, t \in Runs : Asked(s, c) /\ Asked(t, c) => s = t
        /\ ws[c] = "none" \/ waiting[c] => Joins(up[c]) = {} /\ \A s \in Runs : ~Asked(s, c)
    BY IdTypes DEF JoinInv, Single, Types, WireType
  <1>1. CASE EndWait(c) /\ Send(c, Msg("join", ServerId, c)) /\ UNCHANGED ws
    <2>1. waiting[c] /\ ~waiting'[c] /\ UNCHANGED <<down, clients>>
      BY <1>0, <1>1 DEF EndWait, Types, FlagType
    <2>5. ws[c] # "none"
      <3>1. ws[c] = "open" \/ ws' = [ws EXCEPT ![c] = "gone"]
        BY <1>1, IdTypes DEF EndWait
      <3>. QED
        BY <1>0, <1>1, <3>1 DEF Types, FlagType
    <2>2. Joins(up[c]) = {} /\ \A s \in Runs : ~Asked(s, c)'
      BY <1>0, <2>1 DEF Asked
    <2>3. up'[c] = Append(up[c], Msg("join", ServerId, c)) /\ Msg("join", ServerId, c) \in Messages
      BY <1>0, <1>1, MsgTyped, IdTypes, SendTyped DEF MsgTypes, RelayTypes, Types, WireType
    <2>4. Single(up'[c])
      BY <1>0, <2>2, <2>3, JoinsAppend
    <2>. QED
      BY <1>1, <2>1, <2>2, <2>4, <2>5
  <1>2. CASE RelayForward(c) /\ Head(up[c]).type = "join"
    <2>1. up[c] # <<>> /\ up'[c] = Tail(up[c]) /\ UNCHANGED <<ws, waiting>>
      BY <1>0, <1>2, TakenTyped DEF RelayForward, Types, WireType, peerVars
    <2>2. Joins(up[c]) # {} /\ Joins(up'[c]) = {} /\ Single(up'[c])
      BY <1>0, <1>2, <2>1, JoinsTail
    <2>3. \A s \in Runs : Asked(s, c)' => entry[Head(up[c]).id] = s
      BY <1>0, <2>2, AskedStep
    <2>. QED
      BY <1>0, <2>1, <2>2, <2>3
  <1>3. CASE ~(RelayForward(c) /\ Head(up[c]).type = "join")
    <2>1. \A s \in Runs : Asked(s, c)' => Asked(s, c)
      BY <1>3, AskedStep
    <2>. QED
      BY <1>0, <1>1, <2>1, JoinsStep
  <1>. QED
    BY <1>2, <1>3

(* What every reachable state satisfies.                                   *)
THEOREM Invariance == Spec => []IInv
  <1>1. Init => IInv
    BY Initially
  <1>2. IInv /\ [Next]_vars => IInv'
    <2>1. CASE UNCHANGED vars
      <3>1. Types => Types'
        BY <2>1
        DEF vars, peerVars, Types, EntryType, WireType, FlagType, ConnType, StoredInv
      <3>2. MessageInv => MessageInv'
        <4>1. up' = up /\ down' = down /\ clients' = clients /\ server' = server
          BY <2>1 DEF vars, peerVars
        <4>2. \A m : ForServer(m) => ForServer(m)'
          BY <4>1 DEF ForServer, Paired
        <4>3. /\ \A m, p : OfClient(m, p) => OfClient(m, p)'
              /\ \A m, p : OfServer(m, p) => OfServer(m, p)'
              /\ \A m, p : ForClient(m, p) => ForClient(m, p)'
          BY <4>1 DEF OfClient, OfServer, ForClient, Paired
        <4>4. ASSUME MessageInv, NEW c \in Clients
              PROVE  /\ \A m \in ToSet(up'[c]) : OfClient(m, c)'
                     /\ \A m \in ToSet(down'[c]) : ForClient(m, c)'
                     /\ \A m \in ToSet(server'[c].out) :
                          OfClient(m, c)' /\ m.type \notin {"register", "join"}
          <5>1. /\ ToSet(up'[c]) = ToSet(up[c]) /\ ToSet(down'[c]) = ToSet(down[c])
                /\ ToSet(server'[c].out) = ToSet(server[c].out)
            BY <4>1
          <5>. QED
            BY <4>3, <4>4, <5>1 DEF MessageInv
        <4>5. ASSUME MessageInv, NEW s \in Runs
              PROVE  /\ \A m \in ToSet(up'[s]) : OfServer(m, s)'
                     /\ \A m \in ToSet(down'[s]) : ForServer(m)'
                     /\ \A c \in Clients : \A m \in ToSet(clients'[s][c].out) :
                          OfServer(m, s)' /\ m.type # "register" /\ m.id = c
          <5>1. /\ ToSet(up'[s]) = ToSet(up[s]) /\ ToSet(down'[s]) = ToSet(down[s])
                /\ \A c \in Clients : ToSet(clients'[s][c].out) = ToSet(clients[s][c].out)
            BY <4>1
          <5>. QED
            BY <4>2, <4>3, <4>5, <5>1 DEF MessageInv
        <4>. QED
          BY <4>4, <4>5, Zenon DEF MessageInv
      <3>3. (RemoteInv => RemoteInv') /\ (JoinInv => JoinInv')
        BY <2>1, Zenon DEF vars, peerVars, RemoteInv, JoinInv, Paired, Asked
      <3>. QED
        BY <3>1, <3>2, <3>3 DEF IInv
    <2>2. ASSUME IInv, Next PROVE IInv'
      <3>1. Types /\ MessageInv /\ RemoteInv /\ JoinInv /\ Senders
        BY <2>2, MessagesFromClients DEF IInv
      <3>2. Types'
        BY <2>2, <3>1, EntryStep, WireStep, FlagStep, ConnStep DEF Types
      <3>. QED
        BY <2>2, <3>1, <3>2, MessageStep, RemoteStep, JoinStep DEF IInv
    <2>. QED
      BY <2>1, <2>2
  <1>. QED
    BY <1>1, <1>2, PTL DEF Spec

(* Every variable keeps its type; a table entry belongs to a peer of that  *)
(* id; a connection is stored once made, and not made again.               *)
THEOREM TypeCorrect == Spec => []TypeOK
  <1>1. IInv => TypeOK
    BY TypesMean DEF IInv
  <1>. QED
    BY <1>1, Invariance, PTL

(* A description that a run of the server has taken is from the client     *)
(* that took that run's offer, however many runs share the id.             *)
THEOREM DescriptionsArePaired == Spec => []DescriptionsPaired
  <1>1. IInv => DescriptionsPaired
    BY Pairs
  <1>. QED
    BY <1>1, Invariance, PTL
-----------------------------------------------------------------------------
(* The relay of this module keeps the contract: a new registration is      *)
(* Admit, the eviction of a registered peer is Withdraw, a forwarded       *)
(* message is Deliver, and the relay's table sees nothing of the rest.     *)
THEOREM RelayImplementsContract == Spec => RelayKeepsContract
  <1>. DEFINE m == [id \in Ids |-> IF entry[id] = Nobody THEN "" ELSE RoleOf(entry[id])]
              l == {id \in Ids : entry[id] \in Runs}
  <1>. USE DEF Contract!NoFrame, NoFrame
  <1>1. Init => Contract!Init
    <2>. SUFFICES ASSUME Init PROVE Contract!Init
      OBVIOUS
    <2>1. \A id \in Ids : entry[id] = Nobody
      BY DEF Init
    <2>2. m = [id \in Ids |-> ""] /\ l = {}
      BY <2>1, JoinAssumption
    <2>3. frame = NoFrame
      BY DEF Init
    <2>. QED
      BY <2>2, <2>3 DEF Contract!Init
  <1>2. IInv /\ IInv' /\ [Next]_vars => [Contract!Next]_(Contract!vars)
    <2>. SUFFICES ASSUME IInv, IInv', [Next]_vars
                  PROVE  Contract!Next \/ UNCHANGED Contract!vars
      OBVIOUS
    <2>0. EntryType /\ EntryType'
      BY DEF IInv, Types
    <2>1. ASSUME entry' = entry, frame' = NoFrame PROVE Contract!Next
      BY <2>1, Zenon DEF Contract!Next, Contract!Quiet
    <2>2. ASSUME NEW p \in Peers, RelayRegister(p) PROVE Contract!Next
      <3>1. CASE entry[IdOf(p)] # Nobody
        BY <2>1, <2>2, <3>1 DEF RelayRegister
      <3>2. CASE entry[IdOf(p)] = Nobody
        <4>1. /\ entry' = [entry EXCEPT ![IdOf(p)] = p] /\ frame' = NoFrame
              /\ IdOf(p) \in Ids /\ p # Nobody /\ RoleOf(p) \in {"client", "server"}
          BY <2>2, <3>2, IdTypes DEF RelayRegister
        <4>2. m' = [m EXCEPT ![IdOf(p)] = RoleOf(p)] /\ m[IdOf(p)] = ""
          BY <2>0, <3>2, <4>1 DEF EntryType
        <4>3. l' = IF RoleOf(p) = "server" THEN l \cup {IdOf(p)} ELSE l
          <5>1. RoleOf(p) = "server" <=> p \in Runs
            BY IdTypes DEF RoleOf
          <5>. QED
            BY <2>0, <3>2, <4>1, <5>1, JoinAssumption DEF EntryType
        <4>. HIDE DEF m, l
        <4>4. Contract!Admit(IdOf(p), RoleOf(p))
          BY <4>1, <4>2, <4>3, Zenon DEF Contract!Admit, m, l
        <4>. QED
          BY <4>1, <4>4, Zenon DEF Contract!Next
      <3>. QED
        BY <3>1, <3>2
    <2>3. ASSUME NEW p \in Peers, Evict(p) PROVE Contract!Next
      <3>1. /\ frame' = NoFrame
            /\ \A id \in Ids : entry'[id] = IF entry[id] = p THEN Nobody ELSE entry[id]
        BY <2>3 DEF Evict
      <3>2. \A id \in Ids : entry[id] = p <=> id = IdOf(p) /\ entry[IdOf(p)] = p
        BY <2>0, IdTypes DEF EntryType
      <3>3. CASE entry[IdOf(p)] # p
        <4>1. entry' = entry
          BY <2>0, <3>1, <3>2, <3>3 DEF EntryType
        <4>. QED
          BY <2>1, <3>1, <4>1
      <3>4. CASE entry[IdOf(p)] = p
        <4>1. IdOf(p) \in Ids /\ m[IdOf(p)] # ""
          BY <3>4, IdTypes
        <4>2. m' = [m EXCEPT ![IdOf(p)] = ""]
          BY <3>1, <3>2, <3>4
        <4>3. l' = l \ {IdOf(p)}
          BY <3>1, <3>2, <3>4, JoinAssumption
        <4>. HIDE DEF m, l
        <4>4. Contract!Withdraw(IdOf(p))
          BY <3>1, <4>1, <4>2, <4>3, Zenon DEF Contract!Withdraw, m, l
        <4>. QED
          BY <4>1, <4>4, Zenon DEF Contract!Next
      <3>. QED
        BY <3>3, <3>4
    <2>4. ASSUME NEW p \in Peers, RelayForward(p) PROVE Contract!Next
      <3>. DEFINE n == Head(up[p])
      <3>1. n \in Messages /\ n.type # "register" /\ MayRelay(p)
            /\ frame' = [from |-> IdOf(p), to |-> n.id, kind |-> n.type] /\ entry' = entry
        BY <2>4, TakenTyped DEF RelayForward, IInv, Types, WireType
      <3>2. n.type \in RelayTypes /\ n.id \in Ids /\ IdOf(p) \in Ids
        BY <3>1, IdTypes DEF Messages, MsgTypes
      <3>3. /\ m[IdOf(p)] = RoleOf(p) /\ m[n.id] = RoleOf(entry[n.id])
            /\ RoleOf(p) # "" /\ RoleOf(entry[n.id]) # ""
            /\ "server" \in {RoleOf(p), RoleOf(entry[n.id])}
        BY <2>0, <3>1, <3>2, IdTypes DEF MayRelay, EntryType
      <3>4. m' = m /\ l' = l
        BY <3>1
      <3>. HIDE DEF m, l, n
      <3>5. {IdOf(p), n.id} \subseteq Contract!Joined
        BY <3>2, <3>3 DEF Contract!Joined, m
      <3>6. Contract!Deliver(IdOf(p), n.id, n.type)
        BY <3>1, <3>3, <3>4, <3>5 DEF Contract!Deliver, m, l
      <3>. QED
        BY <3>2, <3>6, Zenon DEF Contract!Next
    <2>5. CASE Next
      BY Steps, <2>1, <2>2, <2>3, <2>4, <2>5, Zenon
      DEF Open, Opened, OnOpen, EndWait, Leave, RelayDrop, RelayLose, RelayFails, RelayTeardown,
          ClientReceive, ClientSend, Disconnect, ServerReceive, Store, ServerSend
    <2>6. CASE UNCHANGED vars
      BY <2>6, Zenon DEF vars, Contract!vars
    <2>. QED
      BY <2>5, <2>6
  <1>. QED
    BY <1>1, <1>2, Invariance, PTL DEF Spec, RelayKeepsContract, Contract!Spec
-----------------------------------------------------------------------------
(* Before a peer's `register` is sent there is nothing of it anywhere,     *)
(* except for the join of a client whose wait timed out.                   *)
SilentOut(p) ==
  /\ p \in Clients => server[p].out = <<>>
  /\ p \in Runs => \A c \in Clients : clients[p][c].out = <<>>

GreetInv ==
  \A p \in Peers :
    /\ ws[p] = "none" => up[p] = <<>>
    /\ ~greeted[p] =>
         /\ up[p] = <<>> \/ (p \in Clients /\ ~waiting[p] /\ up[p] = <<Msg("join", ServerId, p)>>)
         /\ down[p] = <<>> /\ entry[IdOf(p)] # p
         /\ SilentOut(p)

LEMMA GreetInitially == Init => GreetInv
  BY IdTypes DEF Init, GreetInv, SilentOut, NoConnection

(* What a peer that has not greeted has to send stays nothing: it gets no  *)
(* message that could change it.                                           *)
LEMMA SilentStep ==
  ASSUME IInv, GreetInv, Next, NEW p \in Peers, ~greeted[p]
  PROVE  SilentOut(p)'
  <1>0. /\ Types /\ MessageInv /\ Senders
        /\ down[p] = <<>> /\ SilentOut(p) /\ ToSet(down[p]) = {}
    BY MessagesFromClients, ToSetEmpty DEF IInv, GreetInv
  <1>1. ASSUME p \in Clients PROVE server'[p].out = <<>>
    <2>1. ~ClientReceive(p) /\ ~ClientSend(p)
      BY <1>0, <1>1 DEF ClientReceive, ClientSend, SilentOut
    <2>2. server[p] \in Connection
      BY <1>0, <1>1 DEF Types, ConnType
    <2>3. \A d \in Clients : \A pc : ClientChange(d, pc) /\ d # p => server'[p] = server[p]
      BY <1>1 DEF ClientChange
    <2>4. ASSUME NEW d \in Clients, ClientReceive(d) PROVE server'[p] = server[p]
      BY <1>0, <1>1, <2>1, <2>3, <2>4, ClientReceives
    <2>5. ASSUME NEW d \in Clients, ClientSend(d) PROVE server'[p] = server[p]
      BY <1>0, <1>1, <2>1, <2>3, <2>5, Sends
    <2>6. ASSUME NEW d \in Clients, Disconnect(d)
          PROVE  server'[p] = server[p] \/ server'[p] = [NoConnection EXCEPT !.closed = TRUE]
      BY <1>0, <1>1, <2>6 DEF Disconnect, Types, ConnType
    <2>7. UNCHANGED server \/ \E d \in Clients : ClientReceive(d) \/ ClientSend(d) \/ Disconnect(d)
      BY Steps, Zenon
      DEF Open, Opened, OnOpen, EndWait, Leave, RelayRegister, RelayForward, RelayDrop,
          RelayLose, RelayFails, RelayTeardown, ServerReceive, Store, ServerSend, peerVars
    <2>8. server'[p] = server[p] \/ server'[p] = [NoConnection EXCEPT !.closed = TRUE]
      BY <2>4, <2>5, <2>6, <2>7
    <2>. QED
      BY <1>0, <1>1, <2>8 DEF SilentOut, NoConnection
  <1>2. ASSUME p \in Runs, NEW c \in Clients PROVE clients'[p][c].out = <<>>
    <2>1. ~ServerReceive(p) /\ ~ServerSend(p, c)
      BY <1>0, <1>2 DEF ServerReceive, ServerSend, SilentOut
    <2>2. \A s \in Runs, d \in Clients : \A pc :
            EntryChange(s, d, pc) /\ (s # p \/ d # c) => clients'[p][c] = clients[p][c]
      BY <1>2 DEF EntryChange
    <2>3. ASSUME NEW s \in Runs, ServerReceive(s) PROVE clients'[p][c] = clients[p][c]
      BY <1>0, <2>1, <2>2, <2>3, ServerReceives
    <2>4. ASSUME NEW s \in Runs, NEW d \in Clients, ServerSend(s, d)
          PROVE  clients'[p][c] = clients[p][c]
      BY <1>0, <2>1, <2>2, <2>4, Sends
    <2>5. ASSUME NEW s \in Runs, Store(s) PROVE clients'[p][c].out = clients[p][c].out
      <3>1. /\ storing[s] \in Clients
            /\ EntryChange(s, storing[s], [clients[s][storing[s]] EXCEPT !.stored = TRUE])
        BY <1>0, <2>5, Stores
      <3>2. CASE s = p /\ storing[s] = c
        <4>1. clients'[p][c] = [clients[p][c] EXCEPT !.stored = TRUE] /\ clients[p][c] \in Connection
          BY <1>0, <3>1, <3>2 DEF EntryChange, Types, ConnType
        <4>. QED
          BY <4>1 DEF Connection
      <3>. QED
        BY <2>2, <3>1, <3>2
    <2>6. \/ UNCHANGED clients
          \/ \E s \in Runs : ServerReceive(s) \/ Store(s)
          \/ \E s \in Runs, d \in Clients : ServerSend(s, d)
      BY Steps, Zenon
      DEF Open, Opened, OnOpen, EndWait, Leave, RelayRegister, RelayForward, RelayDrop,
          RelayLose, RelayFails, RelayTeardown, ClientReceive, ClientSend, Disconnect, peerVars
    <2>7. clients'[p][c].out = clients[p][c].out
      BY <2>3, <2>4, <2>5, <2>6
    <2>. QED
      BY <1>0, <1>2, <2>7 DEF SilentOut
  <1>. QED
    BY <1>1, <1>2 DEF SilentOut

(* The relay has neither an entry nor a message for it.                    *)
LEMMA UnknownStep ==
  ASSUME IInv, GreetInv, Next, NEW p \in Peers, ~greeted[p]
  PROVE  down'[p] = <<>> /\ entry'[IdOf(p)] # p
  <1>0. /\ EntryType /\ WireType
        /\ down[p] = <<>> /\ entry[IdOf(p)] # p
        /\ up[p] = <<>> \/ up[p] = <<Msg("join", ServerId, p)>>
        /\ IdOf(p) \in Ids /\ p # Nobody
    BY IdTypes DEF IInv, Types, GreetInv
  <1>1. CASE UNCHANGED <<entry, down>>
    BY <1>0, <1>1
  <1>2. ASSUME NEW q \in Peers, RelayRegister(q) PROVE down'[p] = <<>> /\ entry'[IdOf(p)] # p
    <2>1. q # p
      BY <1>0, <1>2 DEF RelayRegister, TakeUp, Msg
    <2>. QED
      BY <1>0, <1>2, <2>1, IdTypes DEF RelayRegister, EntryType
  <1>3. ASSUME NEW q \in Peers, RelayForward(q) PROVE down'[p] = <<>> /\ entry'[IdOf(p)] # p
    <2>1. Head(up[q]) \in Messages
      BY <1>0, <1>3, TakenTyped DEF RelayForward, WireType
    <2>2. entry[Head(up[q]).id] # p
      BY <1>0, <2>1 DEF EntryType, Messages
    <2>. QED
      BY <1>0, <1>3, <2>2 DEF RelayForward, WireType
  <1>4. ASSUME NEW q \in Peers, Evict(q) PROVE down'[p] = <<>> /\ entry'[IdOf(p)] # p
    BY <1>0, <1>4 DEF Evict, WireType
  <1>5. ASSUME NEW q \in Peers, down[q] # <<>>, Receive(q), UNCHANGED entry
        PROVE  down'[p] = <<>> /\ entry'[IdOf(p)] # p
    BY <1>0, <1>5 DEF Receive, WireType
  <1>6. /\ \A c \in Clients : ClientReceive(c) => down[c] # <<>> /\ Receive(c) /\ UNCHANGED entry
        /\ \A s \in Runs : ServerReceive(s) =>
             UNCHANGED <<entry, down>> \/ (down[s] # <<>> /\ Receive(s) /\ UNCHANGED entry)
    BY Zenon DEF ClientReceive, ServerReceive
  <1>7. /\ \A c \in Clients : ClientReceive(c) => down'[p] = <<>> /\ entry'[IdOf(p)] # p
        /\ \A s \in Runs : ServerReceive(s) => down'[p] = <<>> /\ entry'[IdOf(p)] # p
    BY <1>1, <1>5, <1>6, Zenon DEF Peers
  <1>. QED
    BY Steps, <1>1, <1>2, <1>3, <1>4, <1>7, Zenon
    DEF Open, Opened, OnOpen, EndWait, Leave, RelayDrop, RelayLose, RelayFails, RelayTeardown,
        ClientSend, Disconnect, Store, ServerSend

(* Its wire up stays empty, or the end of a client's wait sends the join.  *)
Unsent(p) ==
  up[p] = <<>> \/ (p \in Clients /\ ~waiting[p] /\ up[p] = <<Msg("join", ServerId, p)>>)

LEMMA UnsentStep ==
  ASSUME IInv, GreetInv, Next, NEW p \in Peers
  PROVE  /\ ws'[p] = "none" => up'[p] = <<>>
         /\ ~greeted'[p] => ~greeted[p] /\ Unsent(p)'
  <1>. DEFINE Goal == /\ ws'[p] = "none" => up'[p] = <<>>
                      /\ ~greeted'[p] => ~greeted[p] /\ Unsent(p)'
  <1>0. /\ WireType /\ FlagType
        /\ ws[p] = "none" => up[p] = <<>>
        /\ ~greeted[p] => Unsent(p)
        /\ ~greeted[p] /\ p \in Clients => server[p].out = <<>>
        /\ ~greeted[p] /\ p \in Runs => \A c \in Clients : clients[p][c].out = <<>>
    BY DEF IInv, Types, GreetInv, SilentOut, Unsent
  <1>1. ASSUME up'[p] = up[p], greeted' = greeted, waiting'[p] => waiting[p] \/ up[p] = <<>>,
               ws'[p] # "none" \/ ws[p] = "none"
        PROVE  Goal
    BY <1>0, <1>1 DEF Unsent
  <1>2. ASSUME NEW q \in Peers, Open(q) PROVE Goal
    BY <1>0, <1>1, <1>2 DEF Open, FlagType
  <1>3. ASSUME NEW q \in Peers, Opened(q) \/ Leave(q) PROVE Goal
    BY <1>0, <1>1, <1>3 DEF Opened, Leave, FlagType, peerVars
  <1>4. ASSUME NEW q \in Peers, OnOpen(q) PROVE Goal
    <2>1. CASE q = p
      BY <1>0, <1>4, <2>1 DEF OnOpen, FlagType
    <2>2. CASE q # p
      <3>1. up'[p] = up[p] /\ greeted'[p] = greeted[p] /\ waiting' = waiting /\ ws'[p] = ws[p]
        BY <1>0, <1>4, <2>2 DEF OnOpen, Send, WireType, FlagType
      <3>. QED
        BY <1>0, <3>1 DEF Unsent
    <2>. QED
      BY <2>1, <2>2
  <1>5. ASSUME NEW q \in Peers, EndWait(q) PROVE Goal
    <2>1. /\ greeted' = greeted /\ waiting'[q] = FALSE /\ waiting[q]
          /\ ws'[p] = ws[p] \/ ws'[p] = "gone"
      BY <1>0, <1>5 DEF EndWait, FlagType
    <2>2. CASE up'[p] = up[p]
      BY <1>0, <1>1, <1>5, <2>1, <2>2 DEF EndWait, FlagType
    <2>3. CASE up'[p] # up[p]
      <3>1. /\ q = p /\ p \in Clients /\ ws[p] = "open" /\ UNCHANGED ws
            /\ up'[p] = Append(up[p], Msg("join", ServerId, p))
        BY <1>0, <1>5, <2>3 DEF EndWait, Send, WireType, Peers
      <3>2. ~greeted[p] => up[p] = <<>>
        BY <1>0, <2>1, <3>1 DEF Unsent
      <3>3. Append(<<>>, Msg("join", ServerId, p)) = <<Msg("join", ServerId, p)>>
        OBVIOUS
      <3>. QED
        BY <2>1, <3>1, <3>2, <3>3 DEF Unsent
    <2>. QED
      BY <2>2, <2>3
  <1>6. ASSUME NEW q \in Peers, TakeUp(q), UNCHANGED <<ws, greeted, waiting>> PROVE Goal
    <2>1. CASE q = p
      <3>1. up[p] # <<>> /\ up'[p] = Tail(up[p])
        BY <1>0, <1>6, <2>1, TakenTyped DEF WireType
      <3>2. ~greeted[p] => up'[p] = <<>>
        <4>1. Tail(<<Msg("join", ServerId, p)>>) = <<>>
          OBVIOUS
        <4>. QED
          BY <1>0, <3>1, <4>1 DEF Unsent
      <3>. QED
        BY <1>0, <1>6, <3>1, <3>2 DEF Unsent
    <2>2. CASE q # p
      BY <1>0, <1>1, <1>6, <2>2, TakenTyped DEF WireType
    <2>. QED
      BY <2>1, <2>2
  <1>7. ASSUME NEW q \in Peers, RelayFails(q) \/ RelayTeardown(q) PROVE Goal
    <2>1. /\ up'[p] = up[p] \/ up'[p] = <<>>
          /\ ws'[p] = ws[p] \/ ws'[p] = "gone"
          /\ greeted' = greeted /\ waiting' = waiting
      BY <1>0, <1>7 DEF RelayFails, RelayTeardown, WireType, FlagType, peerVars
    <2>. QED
      BY <1>0, <2>1 DEF Unsent
  <1>8. ASSUME NEW c \in Clients, ClientSend(c) PROVE Goal
    <2>1. UNCHANGED <<ws, greeted, waiting>>
      BY <1>8 DEF ClientSend
    <2>2. CASE c = p
      BY <1>0, <1>8, <2>1, <2>2 DEF ClientSend
    <2>3. CASE c # p
      BY <1>0, <1>1, <1>8, <2>1, <2>3 DEF ClientSend, Send, WireType
    <2>. QED
      BY <2>2, <2>3
  <1>9. ASSUME NEW s \in Runs, NEW c \in Clients, ServerSend(s, c) PROVE Goal
    <2>1. UNCHANGED <<ws, greeted, waiting>>
      BY <1>9 DEF ServerSend
    <2>2. CASE s = p
      BY <1>0, <1>9, <2>1, <2>2 DEF ServerSend
    <2>3. CASE s # p
      BY <1>0, <1>1, <1>9, <2>1, <2>3 DEF ServerSend, Send, WireType
    <2>. QED
      BY <2>2, <2>3
  <1>10. UNCHANGED <<up, ws, greeted, waiting>> => Goal
    BY <1>1
  <1>11. \/ UNCHANGED <<up, ws, greeted, waiting>>
         \/ \E q \in Peers : Open(q) \/ Opened(q) \/ Leave(q) \/ OnOpen(q) \/ EndWait(q)
         \/ \E q \in Peers : TakeUp(q) /\ UNCHANGED <<ws, greeted, waiting>>
         \/ \E q \in Peers : RelayFails(q) \/ RelayTeardown(q)
         \/ \E c \in Clients : ClientSend(c)
         \/ \E s \in Runs, c \in Clients : ServerSend(s, c)
    BY Steps, Zenon
    DEF RelayRegister, RelayForward, RelayDrop, RelayLose, ClientReceive, ServerReceive, Store,
        Disconnect, peerVars
  <1>. HIDE DEF Goal
  <1>12. Goal
    BY <1>2, <1>3, <1>4, <1>5, <1>6, <1>7, <1>8, <1>9, <1>10, <1>11, Zenon
  <1>. QED
    BY <1>12 DEF Goal

LEMMA GreetStep == ASSUME IInv, GreetInv, Next PROVE GreetInv'
  BY SilentStep, UnknownStep, UnsentStep, Zenon DEF GreetInv, Unsent

(* A peer's first message is its registration, but for a client whose wait *)
(* timed out.                                                              *)
THEOREM RegistrationFirst == Spec => []RegisterFirst
  <1>1. Init => GreetInv
    BY GreetInitially
  <1>2. IInv /\ GreetInv /\ [Next]_vars => GreetInv'
    <2>1. CASE UNCHANGED vars
      BY <2>1, Zenon DEF vars, peerVars, GreetInv, SilentOut
    <2>. QED
      BY <2>1, GreetStep
  <1>3. GreetInv => RegisterFirst
    BY DEF GreetInv, RegisterFirst
  <1>. QED
    BY <1>1, <1>2, <1>3, Invariance, PTL DEF Spec
=============================================================================
