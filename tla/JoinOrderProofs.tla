---------------------------- MODULE JoinOrderProofs ----------------------------
(***************************************************************************)
(* Proofs about JoinProtocol, for every value of its constants: no message *)
(* finds its handler without what it needs (NoMisfits), a connection that  *)
(* was closed stays closed (DisconnectFinal), and one for which nothing is *)
(* on its way any more has everything it needs (NothingMissing).           *)
(*                                                                         *)
(* All rest on the two pipelines of a connection: the run's offer and      *)
(* candidates on their way to the client, and the client's answer and      *)
(* candidates on their way back.  The first half shows in which order the  *)
(* messages come; the second counts them: what a connection has taken and  *)
(* what is in its three queues make up all its candidates.                 *)
(***************************************************************************)
EXTENDS JoinProtocolProofs, PipelineLemmas

(* Nothing that NoMisfits makes an exception for has happened; nothing of  *)
(* it to this run and this client.                                         *)
Good ==
  /\ ~lost
  /\ \A s \in Runs : ws[s] # "gone"
  /\ \A c \in Clients : ~server[c].closed

Fine(s, c) == ~lost /\ ws[s] # "gone" /\ ~server[c].closed

Kind(type, id) == {m \in Messages : m.type = type /\ m.id = id}

(* What a client has still to send; if it is gone it sends nothing more.   *)
Unsaid(c) == IF ws[c] = "gone" THEN <<>> ELSE server[c].out

OfferOnce(s, c) ==
  OneCopy(clients[s][c].out, up[s], down[c], Paired(c), Kind("offer", c), Kind("offer", ServerId))
OfferFirst(s, c) ==
  InOrder(clients[s][c].out, up[s], down[c], Paired(c),
          Kind("offer", c), Kind("candidate", c),
          Kind("offer", ServerId), Kind("candidate", ServerId))

AnswerOnce(s, c) ==
  OneCopy(Unsaid(c), up[c], down[s], clients[s][c].remote # Nobody,
          Kind("answer", ServerId), Kind("answer", c))
AnswerFirst(s, c) ==
  InOrder(Unsaid(c), up[c], down[s], clients[s][c].remote # Nobody,
          Kind("answer", ServerId), Kind("candidate", ServerId),
          Kind("answer", c), Kind("candidate", c))

(* There is one offer, and while nothing is lost it comes before its       *)
(* candidates; and so it is with the answer.                               *)
OrderInv ==
  \A s \in Runs, c \in Clients : clients[s][c].made =>
    /\ OfferOnce(s, c)
    /\ Fine(s, c) /\ ws[c] # "gone" => OfferFirst(s, c)
    /\ Fine(s, c) => AnswerOnce(s, c) /\ AnswerFirst(s, c)

(* Which parts of a connection belong together: a client's connection is   *)
(* one that took an offer, and closed for good; a run's is stored or about *)
(* to be, and has nothing before it was made.                              *)
ClientConnInv ==
  \A c \in Clients :
    /\ server[c].made <=> server[c].remote # Nobody
    /\ server[c].closed => ~server[c].made
    /\ ~Paired(c) => server[c].out = <<>>
    /\ Paired(c) => \E s \in Runs : clients[s][c].made

EntryConnInv ==
  \A s \in Runs, c \in Clients :
    /\ clients[s][c].made => clients[s][c].stored \/ storing[s] = c
    /\ ~clients[s][c].made => clients[s][c].out = <<>> /\ clients[s][c].remote = Nobody

(* Who is there: one run of the server at a time, and no entry for a peer  *)
(* that has not started.                                                   *)
StartInv ==
  /\ \A p \in Peers : ws[p] = "none" => entry[IdOf(p)] # p
  /\ \A s, t \in Runs : s # t => ws[s] \in {"none", "gone"} \/ ws[t] \in {"none", "gone"}

(* A client that asked a run, and that run, are registered until they go.  *)
RegisteredInv ==
  \A s \in Runs, c \in Clients : Asked(s, c) =>
    /\ ws[s] # "none"
    /\ entry[ServerId] = s \/ ws[s] = "gone"
    /\ entry[c] = c \/ (ws[c] = "gone" /\ up[c] = <<>>)

NoneMisfit == misfits = {} \/ ~Good
-----------------------------------------------------------------------------
(* What the two handlers do, message by message.                           *)
LEMMA ClientTakes ==
  ASSUME Types, MessageInv, NEW c \in Clients, ClientReceive(c), NEW m, m = Head(down[c])
  PROVE  /\ m \in Messages /\ ForClient(m, c)
         /\ ws[c] = "open" /\ down[c] # <<>> /\ down'[c] = Tail(down[c])
         /\ \A p \in Peers : p # c => down'[p] = down[p]
         /\ \A d \in Clients : d # c => server'[d] = server[d]
         /\ server'[c].closed = server[c].closed
         /\ m.type = "offer" => /\ server'[c].made /\ server'[c].remote = m.of
                                /\ server'[c].out = server[c].out \o Trickle("answer", ServerId, c)
         /\ m.type # "offer" => /\ server'[c].made = server[c].made
                                /\ server'[c].remote = server[c].remote
                                /\ server'[c].out = server[c].out
         /\ \/ UNCHANGED misfits
            \/ m.type # "offer" /\ ~(server[c].made /\ server[c].remote # Nobody)
  <1>. DEFINE pc == IF m.type = "offer" THEN [server[c] EXCEPT !.made = TRUE, !.stored = TRUE]
                                        ELSE server[c]
  <1>1. /\ m \in Messages /\ ForClient(m, c) /\ c \in Peers
        /\ down \in [Peers -> Seq(Messages)] /\ server \in [Clients -> Connection]
        /\ server[c] \in Connection
    BY ReceiptTyped, IdTypes DEF ClientReceive, Types, WireType, ConnType, MessageInv
  <1>2. /\ ws[c] = "open" /\ down[c] # <<>> /\ down' = [down EXCEPT ![c] = Tail(@)]
        /\ IF m.type # "join" /\ pc.made /\ Accepts(pc, m)
             THEN server' = [server EXCEPT ![c] = Apply(pc, m, c)] /\ UNCHANGED misfits
             ELSE Misfit(c, m) /\ UNCHANGED server
    BY Zenon DEF ClientReceive, Receive
  <1>3. m.type \in {"offer", "candidate"} /\ m.id = ServerId
    BY <1>1 DEF ForClient
  <1>4. CASE m.type = "offer"
    <2>1. pc.made /\ Accepts(pc, m) /\ pc.closed = server[c].closed /\ pc.out = server[c].out
          /\ pc \in Connection
      BY <1>1, <1>4 DEF Connection, Accepts
    <2>. HIDE DEF pc
    <2>2. server' = [server EXCEPT ![c] = Apply(pc, m, c)] /\ UNCHANGED misfits
      BY <1>2, <1>4, <2>1
    <2>3. server'[c] = [pc EXCEPT !.remote = m.of, !.out = @ \o Trickle("answer", ServerId, c)]
      BY <1>1, <1>3, <1>4, <2>2 DEF Apply
    <2>4. /\ server'[c].made /\ server'[c].remote = m.of /\ server'[c].closed = server[c].closed
          /\ server'[c].out = server[c].out \o Trickle("answer", ServerId, c)
      BY <2>1, <2>3 DEF Connection
    <2>. QED
      BY <1>1, <1>2, <1>4, <2>2, <2>4
  <1>5. CASE m.type = "candidate"
    <2>1. \/ UNCHANGED server
          \/ server' = [server EXCEPT ![c] = [server[c] EXCEPT !.taken = @ + 1]]
      BY <1>2, <1>5, Zenon DEF Apply
    <2>2. /\ server'[c].made = server[c].made /\ server'[c].remote = server[c].remote
          /\ server'[c].out = server[c].out /\ server'[c].closed = server[c].closed
      BY <1>1, <2>1 DEF Connection
    <2>3. UNCHANGED misfits \/ ~(server[c].made /\ server[c].remote # Nobody)
      BY <1>2, <1>5 DEF Accepts
    <2>. QED
      BY <1>1, <1>2, <1>5, <2>1, <2>2, <2>3
  <1>. QED
    BY <1>3, <1>4, <1>5

LEMMA ServerTakes ==
  ASSUME Types, MessageInv, NEW s \in Runs, ServerReceive(s), NEW m, m = Head(down[s]), 
         NEW c, c = m.id
  PROVE  /\ m \in Messages /\ ForServer(m) /\ c \in Clients /\ m \in ToSet(down[s])
         /\ ws[s] = "open" /\ storing[s] = Nobody /\ down[s] # <<>>
         /\ \A t \in Runs, d \in Clients : t # s \/ d # c => clients'[t][d] = clients[t][d]
         /\ \/ /\ m.type = "join" /\ ~clients[s][c].stored
               /\ clients'[s][c].made /\ clients'[s][c].out = Trickle("offer", c, s)
               /\ clients'[s][c].remote = clients[s][c].remote
               /\ storing' = [storing EXCEPT ![s] = c]
               /\ UNCHANGED <<down, misfits>>
            \/ /\ down' = [down EXCEPT ![s] = Tail(@)] /\ UNCHANGED storing
               /\ clients'[s][c].made = clients[s][c].made
               /\ clients'[s][c].stored = clients[s][c].stored
               /\ clients'[s][c].out = clients[s][c].out
               /\ clients'[s][c].remote =
                    IF m.type = "answer" /\ clients[s][c].stored /\ clients[s][c].remote = Nobody
                    THEN c ELSE clients[s][c].remote
               /\ \/ UNCHANGED misfits
                  \/ m.type = "answer" /\ (~clients[s][c].stored \/ clients[s][c].remote # Nobody)
                  \/ m.type = "candidate" /\ (~clients[s][c].stored \/ clients[s][c].remote = Nobody)
  <1>. DEFINE pc == clients[s][c]
  <1>1. /\ m \in Messages /\ ForServer(m) /\ c \in Clients /\ s \in Peers /\ m \in ToSet(down[s])
        /\ clients \in [Runs -> [Clients -> Connection]] /\ pc \in Connection
    BY ReceiptTyped, IdTypes
    DEF ServerReceive, Types, WireType, ConnType, MessageInv, ForServer
  <1>2. /\ ws[s] = "open" /\ down[s] # <<>> /\ storing[s] = Nobody
        /\ \/ /\ ~pc.stored /\ Creates(m.type)
              /\ clients' = [clients EXCEPT ![s][c] =
                   [pc EXCEPT !.made = TRUE, !.out = Trickle("offer", c, s)]]
              /\ storing' = [storing EXCEPT ![s] = c]
              /\ UNCHANGED <<down, misfits>>
           \/ /\ pc.stored
              /\ Receive(s)
              /\ IF Accepts(pc, m)
                   THEN clients' = [clients EXCEPT ![s][c] = Apply(pc, m, s)] /\ UNCHANGED misfits
                   ELSE Misfit(s, m) /\ UNCHANGED clients
              /\ UNCHANGED storing
           \/ /\ ~pc.stored /\ ~Creates(m.type)
              /\ Receive(s)
              /\ Misfit(s, m)
              /\ UNCHANGED <<clients, storing>>
    BY Zenon DEF ServerReceive
  <1>3. m.type \in {"join", "answer", "candidate"} /\ (m.type = "answer" => m.of = c)
    BY <1>1 DEF ForServer
  <1>4. CASE /\ ~pc.stored /\ Creates(m.type)
             /\ clients' = [clients EXCEPT ![s][c] =
                  [pc EXCEPT !.made = TRUE, !.out = Trickle("offer", c, s)]]
             /\ storing' = [storing EXCEPT ![s] = c]
             /\ UNCHANGED <<down, misfits>>
    <2>1. m.type = "join"
      BY <1>3, <1>4 DEF Creates
    <2>2. clients'[s][c] = [pc EXCEPT !.made = TRUE, !.out = Trickle("offer", c, s)]
      BY <1>1, <1>4
    <2>3. /\ clients'[s][c].made /\ clients'[s][c].out = Trickle("offer", c, s)
          /\ clients'[s][c].remote = pc.remote
      BY <1>1, <2>2 DEF Connection
    <2>4. \A t \in Runs, d \in Clients : t # s \/ d # c => clients'[t][d] = clients[t][d]
      BY <1>1, <1>4
    <2>. QED
      BY <1>1, <1>2, <1>4, <2>1, <2>3, <2>4
  <1>5. CASE /\ pc.stored
             /\ Receive(s)
             /\ IF Accepts(pc, m)
                  THEN clients' = [clients EXCEPT ![s][c] = Apply(pc, m, s)] /\ UNCHANGED misfits
                  ELSE Misfit(s, m) /\ UNCHANGED clients
             /\ UNCHANGED storing
    <2>1. \A t \in Runs, d \in Clients : t # s \/ d # c => clients'[t][d] = clients[t][d]
      BY <1>1, <1>5
    <2>2. clients'[s][c] = IF Accepts(pc, m) THEN Apply(pc, m, s) ELSE pc
      BY <1>1, <1>5
    <2>3. /\ clients'[s][c].made = pc.made /\ clients'[s][c].stored = pc.stored
          /\ clients'[s][c].out = pc.out
      BY <1>1, <1>3, <2>2 DEF Apply, Connection
    <2>4. clients'[s][c].remote = IF m.type = "answer" /\ pc.remote = Nobody THEN c ELSE pc.remote
      BY <1>1, <1>3, <2>2 DEF Accepts, Apply, Connection
    <2>5. \/ UNCHANGED misfits
          \/ m.type = "answer" /\ pc.remote # Nobody
          \/ m.type = "candidate" /\ pc.remote = Nobody
      BY <1>3, <1>5 DEF Accepts
    <2>. QED
      BY <1>1, <1>2, <1>5, <2>1, <2>3, <2>4, <2>5 DEF Receive
  <1>6. CASE /\ ~pc.stored /\ ~Creates(m.type)
             /\ Receive(s)
             /\ UNCHANGED <<clients, storing>>
    <2>1. m.type \in {"answer", "candidate"}
      BY <1>3, <1>6 DEF Creates
    <2>. QED
      BY <1>1, <1>2, <1>6, <2>1 DEF Receive
  <1>. QED
    BY <1>2, <1>4, <1>5, <1>6

LEMMA ClientSends ==
  ASSUME Types, NEW c \in Clients, ClientSend(c)
  PROVE  /\ ws[c] = "open" /\ server[c].out # <<>>
         /\ Head(server[c].out) \in Messages
         /\ Head(server[c].out) \in ToSet(server[c].out)
         /\ up'[c] = Append(up[c], Head(server[c].out))
         /\ \A p \in Peers : p # c => up'[p] = up[p]
         /\ server'[c].made = server[c].made /\ server'[c].remote = server[c].remote
         /\ server'[c].closed = server[c].closed /\ server'[c].out = Tail(server[c].out)
         /\ \A d \in Clients : d # c => server'[d] = server[d]
  <1>1. /\ Head(server[c].out) \in Messages /\ Head(server[c].out) \in ToSet(server[c].out)
        /\ ClientChange(c, [server[c] EXCEPT !.out = Tail(@)])
    BY Sends
  <1>2. ws[c] = "open" /\ server[c].out # <<>> /\ Send(c, Head(server[c].out))
    BY DEF ClientSend
  <1>3. /\ up'[c] = Append(up[c], Head(server[c].out))
        /\ \A p \in Peers : p # c => up'[p] = up[p]
    BY <1>1, <1>2, SendTyped, IdTypes DEF Types, WireType
  <1>4. server[c] \in Connection
    BY DEF Types, ConnType
  <1>5. /\ server'[c].made = server[c].made /\ server'[c].remote = server[c].remote
        /\ server'[c].closed = server[c].closed /\ server'[c].out = Tail(server[c].out)
        /\ \A d \in Clients : d # c => server'[d] = server[d]
    BY <1>1, <1>4 DEF ClientChange, Connection
  <1>. QED
    BY <1>1, <1>2, <1>3, <1>5

LEMMA ServerSends ==
  ASSUME Types, NEW s \in Runs, NEW c \in Clients, ServerSend(s, c)
  PROVE  /\ ws[s] = "open" /\ clients[s][c].out # <<>>
         /\ Head(clients[s][c].out) \in Messages
         /\ Head(clients[s][c].out) \in ToSet(clients[s][c].out)
         /\ up'[s] = Append(up[s], Head(clients[s][c].out))
         /\ \A p \in Peers : p # s => up'[p] = up[p]
         /\ clients'[s][c].made = clients[s][c].made
         /\ clients'[s][c].stored = clients[s][c].stored
         /\ clients'[s][c].remote = clients[s][c].remote
         /\ clients'[s][c].out = Tail(clients[s][c].out)
         /\ \A t \in Runs, d \in Clients : t # s \/ d # c => clients'[t][d] = clients[t][d]
  <1>1. /\ Head(clients[s][c].out) \in Messages
        /\ Head(clients[s][c].out) \in ToSet(clients[s][c].out)
        /\ EntryChange(s, c, [clients[s][c] EXCEPT !.out = Tail(@)])
    BY Sends
  <1>2. ws[s] = "open" /\ clients[s][c].out # <<>> /\ Send(s, Head(clients[s][c].out))
    BY DEF ServerSend
  <1>3. /\ up'[s] = Append(up[s], Head(clients[s][c].out))
        /\ \A p \in Peers : p # s => up'[p] = up[p]
    BY <1>1, <1>2, SendTyped, IdTypes DEF Types, WireType
  <1>4. clients[s][c] \in Connection
    BY DEF Types, ConnType
  <1>5. /\ clients'[s][c].made = clients[s][c].made
        /\ clients'[s][c].stored = clients[s][c].stored
        /\ clients'[s][c].remote = clients[s][c].remote
        /\ clients'[s][c].out = Tail(clients[s][c].out)
        /\ \A t \in Runs, d \in Clients : t # s \/ d # c => clients'[t][d] = clients[t][d]
    BY <1>1, <1>4 DEF EntryChange, Connection
  <1>. QED
    BY <1>1, <1>2, <1>3, <1>5

LEMMA StoreEffect ==
  ASSUME Types, NEW s \in Runs, Store(s), NEW c, c = storing[s]
  PROVE  /\ c \in Clients /\ storing' = [storing EXCEPT ![s] = Nobody]
         /\ clients[s][c].made
         /\ clients'[s][c].made = clients[s][c].made /\ clients'[s][c].stored
         /\ clients'[s][c].remote = clients[s][c].remote
         /\ clients'[s][c].out = clients[s][c].out
         /\ \A t \in Runs, d \in Clients : t # s \/ d # c => clients'[t][d] = clients[t][d]
  <1>1. /\ c \in Clients /\ storing' = [storing EXCEPT ![s] = Nobody]
        /\ EntryChange(s, c, [clients[s][c] EXCEPT !.stored = TRUE])
    BY Stores
  <1>2. clients[s][c] \in Connection /\ c # Nobody
    BY <1>1, IdTypes DEF Types, ConnType
  <1>3. clients[s][c].made
    BY <1>1, <1>2 DEF Types, StoredInv
  <1>4. /\ clients'[s][c].made = clients[s][c].made /\ clients'[s][c].stored
        /\ clients'[s][c].remote = clients[s][c].remote
        /\ clients'[s][c].out = clients[s][c].out
    BY <1>1, <1>2 DEF EntryChange, Connection
  <1>. QED
    BY <1>1, <1>3, <1>4 DEF EntryChange

(* A disconnect that finds no connection changes none.                     *)
Closes(c) == Disconnect(c) /\ server[c].made

LEMMA DisconnectForgotten ==
  ASSUME NEW c \in Clients, Disconnect(c), ~Closes(c)
  PROVE  UNCHANGED server
  BY Zenon DEF Disconnect, Closes

LEMMA DisconnectEffect ==
  ASSUME Types, NEW c \in Clients, Closes(c)
  PROVE  /\ server[c].made
         /\ ~server'[c].made /\ server'[c].closed
         /\ server'[c].remote = Nobody /\ server'[c].out = <<>>
         /\ \A d \in Clients : d # c => server'[d] = server[d]
  BY DEF Closes, Disconnect, NoConnection, Types, ConnType

(* Which actions change a connection.                                      *)
LEMMA ClientOnly ==
  ASSUME Types, MessageInv, Next, NEW c \in Clients
  PROVE  server'[c] = server[c] \/ ClientReceive(c) \/ ClientSend(c) \/ Closes(c)
  <1>1. ASSUME NEW d \in Clients, d # c, ClientReceive(d) \/ ClientSend(d) \/ Disconnect(d)
        PROVE  server'[c] = server[c]
    BY <1>1, ClientTakes, ClientSends, DisconnectEffect, DisconnectForgotten
  <1>2. UNCHANGED server \/ \E d \in Clients : ClientReceive(d) \/ ClientSend(d) \/ Disconnect(d)
    BY Steps, Zenon
    DEF Open, Opened, OnOpen, EndWait, Leave, RelayRegister, RelayForward, RelayDrop,
        RelayLose, RelayFails, RelayTeardown, ServerReceive, Store, ServerSend, peerVars
  <1>. QED
    BY <1>1, <1>2, DisconnectForgotten

LEMMA EntryOnly ==
  ASSUME Types, MessageInv, Next, NEW s \in Runs
  PROVE  \/ \A c \in Clients : clients'[s][c] = clients[s][c] /\ storing'[s] = storing[s]
         \/ ServerReceive(s)
         \/ Store(s)
         \/ \E c \in Clients : ServerSend(s, c)
  <1>1. ASSUME NEW t \in Runs, t # s, ServerReceive(t), NEW c \in Clients
        PROVE  clients'[s][c] = clients[s][c] /\ storing'[s] = storing[s]
    <2>1. storing \in [Runs -> Clients \cup {Nobody}]
      BY DEF Types, ConnType
    <2>2. clients'[s][c] = clients[s][c]
      BY <1>1, ServerTakes
    <2>3. UNCHANGED storing \/ storing' = [storing EXCEPT ![t] = Head(down[t]).id]
      BY <1>1, Zenon DEF ServerReceive
    <2>. QED
      BY <1>1, <2>1, <2>2, <2>3
  <1>2. ASSUME NEW t \in Runs, t # s, Store(t), NEW c \in Clients
        PROVE  clients'[s][c] = clients[s][c] /\ storing'[s] = storing[s]
    BY <1>2, StoreEffect DEF Types, ConnType
  <1>3. ASSUME NEW t \in Runs, t # s, NEW d \in Clients, ServerSend(t, d), NEW c \in Clients
        PROVE  clients'[s][c] = clients[s][c] /\ storing'[s] = storing[s]
    BY <1>3, ServerSends DEF ServerSend
  <1>4. \/ UNCHANGED <<clients, storing>>
        \/ \E t \in Runs : ServerReceive(t) \/ Store(t) \/ \E d \in Clients : ServerSend(t, d)
    BY Steps, Zenon
    DEF Open, Opened, OnOpen, EndWait, Leave, RelayRegister, RelayForward, RelayDrop,
        RelayLose, RelayFails, RelayTeardown, ClientReceive, ClientSend, Disconnect, peerVars
  <1>. QED
    BY <1>1, <1>2, <1>3, <1>4
-----------------------------------------------------------------------------
(* An offer that a client is about to take finds it without one.           *)
LEMMA OfferHead ==
  ASSUME IInv, OrderInv, NEW c \in Clients, down[c] # <<>>, Head(down[c]).type = "offer"
  PROVE  /\ Head(down[c]).of \in Runs /\ clients[Head(down[c]).of][c].made
         /\ ~Paired(c)
  <1>. DEFINE m == Head(down[c])
  <1>1. down[c] \in Seq(Messages) /\ m \in Messages /\ ForClient(m, c)
    BY ReceiptTyped, IdTypes DEF IInv, Types, WireType, MessageInv
  <1>2. m.of \in Runs /\ clients[m.of][c].made /\ m \in Kind("offer", ServerId)
    BY <1>1 DEF ForClient, Kind
  <1>3. Has(down[c], Kind("offer", ServerId))
    BY <1>1, <1>2, OnTail
  <1>4. OfferOnce(m.of, c)
    BY <1>2 DEF OrderInv
  <1>. QED
    BY <1>2, <1>3, <1>4 DEF OfferOnce, OneCopy

LEMMA ClientConnStep ==
  ASSUME IInv, OrderInv, ClientConnInv, Next
  PROVE  ClientConnInv'
  <1>. SUFFICES ASSUME NEW c \in Clients
                PROVE  /\ server'[c].made <=> server'[c].remote # Nobody
                       /\ server'[c].closed => ~server'[c].made
                       /\ ~Paired(c)' => server'[c].out = <<>>
                       /\ Paired(c)' => \E s \in Runs : clients'[s][c].made
    BY DEF ClientConnInv
  <1>0. /\ Types /\ MessageInv /\ Senders
        /\ server[c].made <=> server[c].remote # Nobody
        /\ server[c].closed => ~server[c].made
        /\ ~Paired(c) => server[c].out = <<>>
        /\ Paired(c) => \E s \in Runs : clients[s][c].made
        /\ server[c].made \in BOOLEAN /\ server'[c].made \in BOOLEAN
    <2>1. Types'
      BY EntryStep, FlagStep, WireStep, ConnStep, MessagesFromClients DEF IInv, Types
    <2>. QED
      BY <2>1, MessagesFromClients DEF IInv, ClientConnInv, Types, ConnType, Connection
  <1>1. \A s \in Runs : clients[s][c].made => clients'[s][c].made
    BY <1>0, MadeStays
  <1>2. CASE server'[c] = server[c]
    BY <1>0, <1>1, <1>2 DEF Paired
  <1>3. CASE ClientReceive(c)
    <2>1. CASE Head(down[c]).type = "offer"
      <3>1. down[c] # <<>>
        BY <1>3 DEF ClientReceive
      <3>2. /\ Head(down[c]).of \in Runs /\ clients[Head(down[c]).of][c].made
            /\ ~server[c].closed
        BY <2>1, <3>1, OfferHead DEF Paired
      <3>3. /\ server'[c].made /\ server'[c].remote = Head(down[c]).of
            /\ server'[c].closed = server[c].closed
        BY <1>0, <1>3, <2>1, ClientTakes
      <3>4. Head(down[c]).of # Nobody
        BY <3>2, IdTypes
      <3>. QED
        BY <1>1, <3>2, <3>3, <3>4 DEF Paired
    <2>2. CASE Head(down[c]).type # "offer"
      <3>1. /\ server'[c].made = server[c].made /\ server'[c].remote = server[c].remote
            /\ server'[c].closed = server[c].closed /\ server'[c].out = server[c].out
        BY <1>0, <1>3, <2>2, ClientTakes
      <3>. QED
        BY <1>0, <1>1, <3>1 DEF Paired
    <2>. QED
      BY <2>1, <2>2
  <1>4. CASE ClientSend(c)
    <2>1. /\ server'[c].made = server[c].made /\ server'[c].remote = server[c].remote
          /\ server'[c].closed = server[c].closed /\ server[c].out # <<>>
      BY <1>0, <1>4, ClientSends
    <2>. QED
      BY <1>0, <1>1, <2>1 DEF Paired
  <1>5. CASE Closes(c)
    <2>1. /\ server[c].made /\ ~server'[c].made /\ server'[c].closed
          /\ server'[c].remote = Nobody /\ server'[c].out = <<>>
      BY <1>0, <1>5, DisconnectEffect
    <2>. QED
      BY <1>0, <1>1, <2>1 DEF Paired
  <1>. QED
    BY <1>0, <1>2, <1>3, <1>4, <1>5, ClientOnly

LEMMA EntryConnStep ==
  ASSUME IInv, EntryConnInv, Next
  PROVE  EntryConnInv'
  <1>. SUFFICES ASSUME NEW s \in Runs, NEW c \in Clients
                PROVE  /\ clients'[s][c].made => clients'[s][c].stored \/ storing'[s] = c
                       /\ ~clients'[s][c].made =>
                            clients'[s][c].out = <<>> /\ clients'[s][c].remote = Nobody
    BY DEF EntryConnInv
  <1>0. /\ Types /\ MessageInv
        /\ clients[s][c].made => clients[s][c].stored \/ storing[s] = c
        /\ ~clients[s][c].made => clients[s][c].out = <<>> /\ clients[s][c].remote = Nobody
        /\ storing \in [Runs -> Clients \cup {Nobody}] /\ c # Nobody
        /\ clients[s][c].stored => clients[s][c].made
    BY IdTypes DEF IInv, EntryConnInv, Types, ConnType, StoredInv
  <1>1. CASE clients'[s][c] = clients[s][c] /\ storing'[s] = storing[s]
    BY <1>0, <1>1
  <1>2. CASE ServerReceive(s)
    <2>. DEFINE m == Head(down[s])
                d == m.id
    <2>1. d \in Clients /\ storing[s] = Nobody
      BY <1>0, <1>2, ServerTakes
    <2>2. CASE d = c
      <3>1. \/ clients'[s][c].made /\ storing'[s] = c
            \/ /\ UNCHANGED storing
               /\ clients'[s][c].made = clients[s][c].made
               /\ clients'[s][c].stored = clients[s][c].stored
               /\ clients'[s][c].out = clients[s][c].out
               /\ clients'[s][c].remote = clients[s][c].remote \/ clients[s][c].stored
        BY <1>0, <1>2, <2>2, ServerTakes
      <3>. QED
        BY <1>0, <3>1
    <2>3. CASE d # c
      <3>1. clients'[s][c] = clients[s][c]
        BY <1>0, <1>2, <2>3, ServerTakes
      <3>. QED
        BY <1>0, <2>1, <3>1
    <2>. QED
      BY <2>2, <2>3
  <1>3. CASE Store(s)
    <2>1. CASE storing[s] = c
      BY <1>0, <1>3, <2>1, StoreEffect
    <2>2. CASE storing[s] # c
      <3>1. clients'[s][c] = clients[s][c]
        BY <1>0, <1>3, <2>2, StoreEffect
      <3>. QED
        BY <1>0, <2>2, <3>1
    <2>. QED
      BY <2>1, <2>2
  <1>4. ASSUME NEW d \in Clients, ServerSend(s, d)
        PROVE  /\ clients'[s][c].made => clients'[s][c].stored \/ storing'[s] = c
               /\ ~clients'[s][c].made =>
                    clients'[s][c].out = <<>> /\ clients'[s][c].remote = Nobody
    <2>1. UNCHANGED storing
      BY <1>4 DEF ServerSend
    <2>2. CASE d = c
      BY <1>0, <1>4, <2>1, <2>2, ServerSends
    <2>3. CASE d # c
      BY <1>0, <1>4, <2>1, <2>3, ServerSends
    <2>. QED
      BY <2>2, <2>3
  <1>. QED
    BY <1>0, <1>1, <1>2, <1>3, <1>4, EntryOnly
-----------------------------------------------------------------------------
(* How a websocket and an entry of the relay can change.                   *)
LEMMA WsMoves ==
  ASSUME Types, Next, NEW p \in Peers
  PROVE  /\ ws'[p] = "none" => ws[p] = "none"
         /\ ws[p] = "gone" => ws'[p] = "gone"
         /\ ws'[p] \notin {"none", "gone"} => ws[p] \notin {"none", "gone"} \/ Open(p)
  <1>. DEFINE Goal == /\ ws'[p] = "none" => ws[p] = "none"
                      /\ ws[p] = "gone" => ws'[p] = "gone"
                      /\ ws'[p] \notin {"none", "gone"} => ws[p] \notin {"none", "gone"} \/ Open(p)
  <1>0. FlagType
    BY DEF Types
  <1>1. CASE UNCHANGED ws
    BY <1>1
  <1>2. ASSUME NEW q \in Peers,
               Open(q) \/ Opened(q) \/ OnOpen(q) \/ EndWait(q) \/ Leave(q) \/ RelayFails(q)
        PROVE  Goal
    <2>1. CASE q = p
      BY <1>0, <1>2, <2>1 DEF Open, Opened, OnOpen, EndWait, Leave, RelayFails, FlagType
    <2>2. CASE q # p
      <3>1. ws'[p] = ws[p]
        BY <1>0, <1>2, <2>2 DEF Open, Opened, OnOpen, EndWait, Leave, RelayFails, FlagType
      <3>. QED
        BY <3>1
    <2>. QED
      BY <2>1, <2>2
  <1>. HIDE DEF Goal
  <1>3. UNCHANGED ws => Goal
    BY DEF Goal
  <1>4. Goal
    BY Steps, <1>2, <1>3, Zenon
    DEF RelayRegister, RelayForward, RelayDrop, RelayLose, RelayTeardown, ClientReceive,
        ClientSend, Disconnect, ServerReceive, Store, ServerSend, peerVars
  <1>. QED
    BY <1>4 DEF Goal

LEMMA EntryMoves ==
  ASSUME Types, Next, NEW id \in Ids
  PROVE  \/ entry'[id] = entry[id]
         \/ \E q \in Peers : /\ entry[id] = Nobody /\ entry'[id] = q
                             /\ up[q] # <<>>
         \/ \E q \in Peers : /\ entry[id] = q /\ entry'[id] = Nobody
                             /\ ws'[q] = "gone" /\ up'[q] = <<>>
  <1>0. EntryType /\ WireType /\ FlagType
    BY DEF Types
  <1>1. ASSUME NEW q \in Peers, RelayRegister(q)
        PROVE  \/ entry'[id] = entry[id]
               \/ entry[id] = Nobody /\ entry'[id] = q /\ up[q] # <<>>
    BY <1>0, <1>1 DEF RelayRegister, TakeUp, EntryType
  <1>2. ASSUME NEW q \in Peers, RelayFails(q) \/ RelayTeardown(q)
        PROVE  \/ entry'[id] = entry[id]
               \/ entry[id] = q /\ entry'[id] = Nobody /\ ws'[q] = "gone" /\ up'[q] = <<>>
    <2>1. ws'[q] = "gone" /\ up'[q] = <<>>
      BY <1>0, <1>2 DEF RelayFails, RelayTeardown, WireType, FlagType
    <2>2. entry'[id] = IF entry[id] = q THEN Nobody ELSE entry[id]
      BY <1>0, <1>2 DEF RelayFails, RelayTeardown, Evict
    <2>. QED
      BY <2>1, <2>2
  <1>3. \/ UNCHANGED entry
        \/ \E q \in Peers : RelayRegister(q) \/ RelayFails(q) \/ RelayTeardown(q)
    BY Steps, Zenon
    DEF Open, Opened, OnOpen, EndWait, Leave, RelayForward, RelayDrop, RelayLose,
        ClientReceive, ClientSend, Disconnect, ServerReceive, Store, ServerSend
  <1>. QED
    BY <1>1, <1>2, <1>3

LEMMA StartStep ==
  ASSUME IInv, GreetInv, StartInv, Next
  PROVE  StartInv'
  <1>0. Types
    BY DEF IInv
  <1>1. ASSUME NEW p \in Peers, ws'[p] = "none" PROVE entry'[IdOf(p)] # p
    <2>1. ws[p] = "none" /\ up[p] = <<>> /\ entry[IdOf(p)] # p /\ IdOf(p) \in Ids /\ p # Nobody
      BY <1>0, <1>1, WsMoves, IdTypes DEF GreetInv, StartInv
    <2>. QED
      BY <1>0, <2>1, EntryMoves
  <1>2. ASSUME NEW s \in Runs, NEW t \in Runs, s # t
        PROVE  ws'[s] \in {"none", "gone"} \/ ws'[t] \in {"none", "gone"}
    <2>1. s \in Peers /\ t \in Peers /\ (ws[s] \in {"none", "gone"} \/ ws[t] \in {"none", "gone"})
      BY <1>2, IdTypes DEF StartInv
    <2>2. ASSUME NEW u \in Runs, NEW v \in Runs, u # v, Open(u)
          PROVE  ws'[v] \in {"none", "gone"}
      <3>1. ws[v] \in {"none", "gone"} /\ ws' = [ws EXCEPT ![u] = "connecting"]
        BY <2>2 DEF Open
      <3>. QED
        BY <1>0, <2>2, <3>1, IdTypes DEF Types, FlagType
    <2>. QED
      BY <1>0, <1>2, <2>1, <2>2, WsMoves
  <1>. QED
    BY <1>1, <1>2 DEF StartInv

(* A peer that is gone sends nothing.                                      *)
LEMMA GoneSilent ==
  ASSUME Types, Next, NEW p \in Peers, ws[p] = "gone", up[p] = <<>>
  PROVE  up'[p] = <<>>
  <1>0. WireType
    BY DEF Types
  <1>1. ASSUME NEW q \in Peers, NEW n, Send(q, n), ws[q] = "open" PROVE up'[p] = up[p]
    BY <1>0, <1>1 DEF Send, WireType
  <1>2. ASSUME NEW q \in Peers, TakeUp(q) PROVE up'[p] = up[p]
    BY <1>0, <1>2 DEF TakeUp, WireType
  <1>3. ASSUME NEW q \in Peers, RelayFails(q) \/ RelayTeardown(q) PROVE up'[p] = <<>>
    BY <1>0, <1>3 DEF RelayFails, RelayTeardown, WireType
  <1>4. \/ UNCHANGED up
        \/ \E q \in Peers : \E n : Send(q, n) /\ ws[q] = "open"
        \/ \E q \in Peers : TakeUp(q) \/ RelayFails(q) \/ RelayTeardown(q)
    <2>1. \A q \in Peers : OnOpen(q) \/ EndWait(q) =>
            UNCHANGED up \/ \E n : Send(q, n) /\ ws[q] = "open"
      BY Zenon DEF OnOpen, EndWait
    <2>2. \A c \in Clients : ClientSend(c) => \E n : Send(c, n) /\ ws[c] = "open"
      BY Zenon DEF ClientSend
    <2>3. \A s \in Runs, c \in Clients : ServerSend(s, c) => \E n : Send(s, n) /\ ws[s] = "open"
      BY Zenon DEF ServerSend
    <2>. QED
      BY Steps, <2>1, <2>2, <2>3, IdTypes, Zenon
      DEF Open, Opened, Leave, RelayRegister, RelayForward, RelayDrop, RelayLose, ClientReceive,
          ServerReceive, Store, Disconnect
  <1>. QED
    BY <1>1, <1>2, <1>3, <1>4

LEMMA RegisteredStep ==
  ASSUME IInv, StartInv, RegisteredInv, Next
  PROVE  RegisteredInv'
  <1>. SUFFICES ASSUME NEW s \in Runs, NEW c \in Clients, Asked(s, c)'
                PROVE  /\ ws'[s] # "none"
                       /\ entry'[ServerId] = s \/ ws'[s] = "gone"
                       /\ entry'[c] = c \/ (ws'[c] = "gone" /\ up'[c] = <<>>)
    BY DEF RegisteredInv
  <1>0. /\ Types /\ MessageInv
        /\ s \in Peers /\ c \in Peers /\ c \in Ids /\ ServerId \in Ids
        /\ s # Nobody /\ c # Nobody /\ IdOf(s) = ServerId /\ IdOf(c) = c
    BY IdTypes DEF IInv
  <1>1. CASE Asked(s, c)
    <2>1. /\ ws[s] # "none"
          /\ entry[ServerId] = s \/ ws[s] = "gone"
          /\ entry[c] = c \/ (ws[c] = "gone" /\ up[c] = <<>>)
      BY <1>1 DEF RegisteredInv
    <2>2. ws'[s] # "none" /\ (ws[s] = "gone" => ws'[s] = "gone")
      BY <1>0, <2>1, WsMoves
    <2>3. entry[ServerId] = s => entry'[ServerId] = s \/ ws'[s] = "gone"
      BY <1>0, EntryMoves
    <2>4. entry[c] = c => entry'[c] = c \/ (ws'[c] = "gone" /\ up'[c] = <<>>)
      BY <1>0, EntryMoves
    <2>5. ws[c] = "gone" /\ up[c] = <<>> => ws'[c] = "gone" /\ up'[c] = <<>>
      BY <1>0, WsMoves, GoneSilent
    <2>. QED
      BY <2>1, <2>2, <2>3, <2>4, <2>5
  <1>2. CASE ~Asked(s, c)
    <2>1. RelayForward(c) /\ Head(up[c]).type = "join" /\ entry[Head(up[c]).id] = s
      BY <1>0, <1>2, AskedStep
    <2>2. Head(up[c]).id = ServerId
      <3>1. Head(up[c]) \in ToSet(up[c])
        BY <1>0, <2>1, TakenTyped DEF RelayForward, Types, WireType
      <3>. QED
        BY <1>0, <2>1, <3>1 DEF MessageInv, OfClient
    <2>3. entry[c] = c /\ UNCHANGED <<entry, ws>>
      BY <1>0, <2>1 DEF RelayForward, MayRelay
    <2>4. ws[s] # "none"
      BY <1>0, <2>1, <2>2 DEF StartInv
    <2>. QED
      BY <2>1, <2>2, <2>3, <2>4
  <1>. QED
    BY <1>1, <1>2
-----------------------------------------------------------------------------
(* What a forwarded message does to the wires.                             *)
LEMMA Forwards ==
  ASSUME Types, NEW p \in Peers, RelayForward(p)
  PROVE  LET m == Head(up[p])
             q == entry[m.id]
             n == Msg(m.type, IdOf(p), m.of)
         IN  /\ m \in Messages /\ m \in ToSet(up[p]) /\ m.type # "register"
             /\ up[p] # <<>> /\ up'[p] = Tail(up[p])
             /\ \A r \in Peers : r # p => up'[r] = up[r]
             /\ q \in Peers /\ IdOf(q) = m.id
             /\ n \in Messages /\ n.type = m.type /\ n.id = IdOf(p)
             /\ down'[q] = Append(down[q], n)
             /\ \A r \in Peers : r # q => down'[r] = down[r]
             /\ UNCHANGED <<entry, ws, clients, server>>
  <1>. DEFINE m == Head(up[p])
              q == entry[m.id]
              n == Msg(m.type, IdOf(p), m.of)
  <1>1. /\ m \in Messages /\ m \in ToSet(up[p]) /\ m.type # "register"
        /\ up[p] # <<>> /\ up'[p] = Tail(up[p])
        /\ \A r \in Peers : r # p => up'[r] = up[r]
    BY TakenTyped DEF RelayForward, Types, WireType
  <1>2. q \in Peers /\ IdOf(q) = m.id
    BY <1>1 DEF RelayForward, MayRelay, Types, EntryType, Messages
  <1>3. n \in Messages /\ n.type = m.type /\ n.id = IdOf(p)
    BY <1>1, MsgTyped, IdTypes DEF Messages, Msg
  <1>4. down' = [down EXCEPT ![q] = Append(@, n)]
    BY Zenon DEF RelayForward
  <1>. HIDE DEF q, n
  <1>5. down'[q] = Append(down[q], n) /\ \A r \in Peers : r # q => down'[r] = down[r]
    BY <1>2, <1>4 DEF Types, WireType
  <1>6. UNCHANGED <<entry, ws, clients, server>>
    BY DEF RelayForward, peerVars
  <1>. QED
    BY <1>1, <1>2, <1>3, <1>5, <1>6 DEF q, n

(* The excuses stay.                                                       *)
LEMMA ExcusesStay ==
  ASSUME Types, MessageInv, Next
  PROVE  /\ lost => lost'
         /\ \A s \in Runs : ws[s] = "gone" => ws'[s] = "gone"
         /\ \A c \in Clients : server[c].closed => server'[c].closed
  <1>1. \A s \in Runs : ws[s] = "gone" => ws'[s] = "gone"
    BY WsMoves, IdTypes
  <1>2. lost => lost'
    BY Steps, Zenon
    DEF Open, Opened, OnOpen, EndWait, Leave, RelayRegister, RelayForward, RelayDrop, RelayLose,
        RelayFails, RelayTeardown, ClientReceive, ClientSend, Disconnect, ServerReceive, Store,
        ServerSend
  <1>3. ASSUME NEW c \in Clients, server[c].closed PROVE server'[c].closed
    BY <1>3, ClientOnly, ClientTakes, ClientSends, DisconnectEffect
  <1>. QED
    BY <1>1, <1>2, <1>3

LEMMA FineBefore ==
  ASSUME Types, MessageInv, Next
  PROVE  /\ Good' => Good
         /\ \A s \in Runs, c \in Clients : Fine(s, c)' => Fine(s, c)
  BY ExcusesStay DEF Good, Fine

(* Only one run makes a connection for a client.                           *)
LEMMA OneMaker ==
  ASSUME IInv, NEW s \in Runs, NEW t \in Runs, NEW c \in Clients,
         clients[s][c].made, clients[t][c].made
  PROVE  s = t
  BY DEF IInv, JoinInv, Asked

OrderHyps ==
  /\ IInv /\ GreetInv /\ OrderInv /\ ClientConnInv /\ EntryConnInv /\ StartInv /\ RegisteredInv

(* What the server and the relay do with an offer and its candidates.      *)
OfferFlow(s, c) ==
  Flow(Messages, clients[s][c].out, up[s], down[c], Paired(c),
       clients'[s][c].out, up'[s], down'[c], Paired(c)',
       Kind("offer", c), Kind("candidate", c), Kind("offer", ServerId), Kind("candidate", ServerId))
OfferLoss(s, c) ==
  Loss(Messages, clients[s][c].out, up[s], down[c], Paired(c),
       clients'[s][c].out, up'[s], down'[c], Paired(c)')

LEMMA OfferMoves ==
  ASSUME OrderHyps, Next, NEW s \in Runs, NEW c \in Clients, clients[s][c].made
  PROVE  OfferFlow(s, c) \/ (OfferLoss(s, c) /\ ~(Fine(s, c)' /\ ws'[c] # "gone"))
  <1>. DEFINE S == Kind("offer", c)
              T == Kind("candidate", c)
              R == Kind("offer", ServerId)
              U == Kind("candidate", ServerId)
              out == clients[s][c].out
              d == Paired(c)
              e == Paired(c)'
              Goal == OfferFlow(s, c) \/ (OfferLoss(s, c) /\ ~(Fine(s, c)' /\ ws'[c] # "gone"))
  <1>0. /\ Types /\ MessageInv /\ IInv
        /\ s \in Peers /\ c \in Peers /\ c # s /\ c # Nobody
        /\ IdOf(s) = ServerId /\ IdOf(c) = c /\ c # ServerId
        /\ \A p \in Peers : up[p] \in Seq(Messages) /\ down[p] \in Seq(Messages)
        /\ out \in Seq(Messages) /\ d \in BOOLEAN /\ e \in BOOLEAN
    <2>1. /\ Types /\ MessageInv /\ IInv /\ Senders
      BY MessagesFromClients DEF OrderHyps, IInv
    <2>2. server[c] \in Connection /\ server'[c] \in Connection /\ clients[s][c] \in Connection
      BY <2>1, ConnStep DEF Types, ConnType
    <2>3. out \in Seq(Messages) /\ d \in BOOLEAN /\ e \in BOOLEAN
      BY <2>2 DEF Connection, Paired
    <2>4. \A p \in Peers : up[p] \in Seq(Messages) /\ down[p] \in Seq(Messages)
      BY <2>1 DEF Types, WireType
    <2>5. /\ s \in Peers /\ c \in Peers /\ c # s /\ c # Nobody
          /\ IdOf(s) = ServerId /\ IdOf(c) = c /\ c # ServerId
      BY IdTypes
    <2>. QED
      BY <2>1, <2>3, <2>4, <2>5
  <1>2. ASSUME Flow(Messages, out, up[s], down[c], d,
                    clients'[s][c].out, up'[s], down'[c], e, S, T, R, U)
        PROVE  Goal
    BY <1>2 DEF OfferFlow
  <1>3. ASSUME Loss(Messages, out, up[s], down[c], d, clients'[s][c].out, up'[s], down'[c], e),
               ~Fine(s, c)' \/ ws'[c] = "gone"
        PROVE  Goal
    BY <1>3 DEF OfferLoss
  <1>4. ASSUME clients'[s][c].out = out, Keeps(Messages, up[s], up'[s], S \cup T),
               down'[c] = down[c], e = d
        PROVE  Goal
    <2>. HIDE DEF S, T, R, U, out, d, e, Goal
    <2>1. Keeps(Messages, down[c], down'[c], R \cup U)
      BY <1>4 DEF Keeps
    <2>. QED
      BY <1>0, <1>2, <1>4, <2>1 DEF Flow
  <1>5. ASSUME clients'[s][c].out = out, up'[s] = up[s], down'[c] = down[c], e = d
        PROVE  Goal
    <2>. HIDE DEF S, T, R, U, out, d, e, Goal
    <2>1. Keeps(Messages, up[s], up'[s], S \cup T)
      BY <1>5 DEF Keeps
    <2>. QED
      BY <1>4, <1>5, <2>1
  <1>6. server'[c] = server[c] => e = d
    BY DEF Paired
  <1>. HIDE DEF S, T, R, U, out, d, e, Goal
  <1>7. clients' = clients => clients'[s][c].out = out
    BY DEF out
  <1>10. ASSUME NEW q \in Peers, Open(q) \/ Opened(q) \/ Leave(q) PROVE Goal
    BY <1>5, <1>6, <1>7, <1>10 DEF Open, Opened, Leave, peerVars
  <1>11. ASSUME NEW q \in Peers, OnOpen(q) PROVE Goal
    <2>1. CASE q = s
      <3>1. Msg("register", ServerId, s) \in Messages \ (S \cup T)
        BY MsgTyped, IdTypes DEF MsgTypes, S, T, Kind, Msg
      <3>2. up'[s] = Append(up[s], Msg("register", ServerId, s))
        BY <1>0, <1>11, <2>1 DEF OnOpen, Send, Types, WireType
      <3>. QED
        BY <1>4, <1>6, <1>7, <1>11, <3>1, <3>2 DEF OnOpen, Keeps
    <2>2. CASE q # s
      BY <1>0, <1>5, <1>6, <1>7, <1>11, <2>2 DEF OnOpen, Send, Types, WireType
    <2>. QED
      BY <2>1, <2>2
  <1>12. ASSUME NEW q \in Peers, EndWait(q) PROVE Goal
    <2>1. up'[s] = up[s]
      BY <1>0, <1>12 DEF EndWait, Send, Types, WireType
    <2>. QED
      BY <1>5, <1>6, <1>7, <1>12, <2>1 DEF EndWait
  <1>13. ASSUME NEW q \in Peers, RelayRegister(q) PROVE Goal
    <2>1. /\ UNCHANGED <<down, clients, server>>
          /\ q # s => up'[s] = up[s]
          /\ q = s => up[s] # <<>> /\ up'[s] = Tail(up[s]) /\ Head(up[s]) \notin S \cup T
      BY <1>0, <1>13 DEF RelayRegister, TakeUp, peerVars, Types, WireType, S, T, Kind
    <2>. QED
      BY <1>4, <1>5, <1>6, <1>7, <2>1 DEF Keeps
  <1>14. ASSUME NEW q \in Peers, RelayForward(q) PROVE Goal
    <2>. DEFINE m == Head(up[q])
                t == entry[m.id]
                n == Msg(m.type, IdOf(q), m.of)
    <2>1. /\ m \in Messages /\ m \in ToSet(up[q]) /\ m.type # "register"
          /\ up[q] # <<>> /\ up'[q] = Tail(up[q])
          /\ \A r \in Peers : r # q => up'[r] = up[r]
          /\ t \in Peers /\ IdOf(t) = m.id
          /\ n \in Messages /\ n.type = m.type /\ n.id = IdOf(q)
          /\ down'[t] = Append(down[t], n)
          /\ \A r \in Peers : r # t => down'[r] = down[r]
          /\ UNCHANGED <<clients, server>>
      BY <1>0, <1>14, Forwards
    <2>0. m = Head(up[q])
      OBVIOUS
    <2>. HIDE DEF m, t, n
    <2>2. e = d /\ clients'[s][c].out = out
      BY <1>6, <1>7, <2>1
    <2>3. CASE q = s /\ m.id = c
      <3>1. t = c
        BY <1>0, <2>1, <2>3, IdTypes DEF Peers
      <3>2. (m \in S <=> n \in R) /\ (m \in T <=> n \in U)
        BY <1>0, <2>1, <2>3 DEF S, T, R, U, Kind
      <3>3. Flow(Messages, out, up[s], down[c], d,
                 clients'[s][c].out, up'[s], down'[c], e, S, T, R, U)
        BY <1>0, <2>0, <2>1, <2>2, <2>3, <3>1, <3>2 DEF Flow
      <3>. QED
        BY <1>2, <3>3
    <2>4. CASE q = s /\ m.id # c
      <3>1. t # c /\ m \notin S \cup T
        BY <1>0, <2>1, <2>4 DEF S, T, Kind
      <3>. QED
        BY <1>0, <1>4, <2>0, <2>1, <2>2, <2>4, <3>1 DEF Keeps
    <2>5. CASE q # s
      <3>1. q \in Clients => m.id = ServerId
        BY <1>0, <2>1 DEF MessageInv, OfClient
      <3>2. q \in Runs => clients[q][m.id].made
        BY <1>0, <2>1 DEF MessageInv, OfServer
      <3>3. m.id # c
        BY <1>0, <2>5, <3>1, <3>2, OneMaker DEF Peers
      <3>4. t # c
        BY <1>0, <2>1, <3>3
      <3>. QED
        BY <1>0, <1>5, <2>1, <2>2, <2>5, <3>4
    <2>. QED
      BY <2>3, <2>4, <2>5
  <1>15. ASSUME NEW q \in Peers, RelayDrop(q) \/ RelayLose(q) PROVE Goal
    <2>1. /\ UNCHANGED <<down, ws, clients, server>>
          /\ q # s => up'[s] = up[s]
          /\ q = s => up[s] # <<>> /\ up'[s] = Tail(up[s])
      BY <1>0, <1>15 DEF RelayDrop, RelayLose, TakeUp, peerVars, Types, WireType
    <2>2. e = d /\ clients'[s][c].out = out
      BY <1>6, <1>7, <2>1
    <2>3. CASE q # s
      BY <1>5, <2>1, <2>2, <2>3
    <2>4. CASE q = s /\ Head(up[s]) \notin S \cup T
      BY <1>4, <2>1, <2>2, <2>4 DEF Keeps
    <2>5. CASE q = s /\ Head(up[s]) \in S \cup T
      <3>1. Loss(Messages, out, up[s], down[c], d, clients'[s][c].out, up'[s], down'[c], e)
        BY <1>0, <2>1, <2>2, <2>5 DEF Loss
      <3>2. ASSUME RelayDrop(s), Fine(s, c)', ws'[c] # "gone" PROVE FALSE
        <4>1. Asked(s, c) /\ ws[s] # "gone" /\ ws[c] # "gone"
          BY <2>1, <3>2 DEF Asked, Fine
        <4>2. entry[ServerId] = s /\ entry[c] = c
          BY <4>1 DEF OrderHyps, RegisteredInv
        <4>3. Head(up[s]).id = c /\ RoleOf(s) = "server"
          BY <2>5 DEF S, T, Kind, RoleOf
        <4>. QED
          BY <1>0, <3>2, <4>2, <4>3 DEF RelayDrop, MayRelay
      <3>3. RelayLose(s) => ~Fine(s, c)'
        BY DEF RelayLose, Fine
      <3>. QED
        BY <1>3, <1>15, <2>5, <3>1, <3>2, <3>3
    <2>. QED
      BY <2>3, <2>4, <2>5
  <1>16. ASSUME NEW q \in Peers, RelayFails(q) \/ RelayTeardown(q) PROVE Goal
    <2>1. /\ up' = [up EXCEPT ![q] = <<>>] /\ down' = [down EXCEPT ![q] = <<>>]
          /\ ws'[q] = "gone" /\ UNCHANGED <<clients, server>>
      BY <1>0, <1>16 DEF RelayFails, RelayTeardown, Evict, peerVars, Types, FlagType
    <2>2. e = d /\ clients'[s][c].out = out
      BY <1>6, <1>7, <2>1
    <2>3. CASE q \in {s, c}
      <3>1. Loss(Messages, out, up[s], down[c], d, clients'[s][c].out, up'[s], down'[c], e)
        BY <1>0, <2>1, <2>2, <2>3 DEF Loss, Types, WireType
      <3>2. ~Fine(s, c)' \/ ws'[c] = "gone"
        BY <2>1, <2>3 DEF Fine
      <3>. QED
        BY <1>3, <3>1, <3>2
    <2>4. CASE q \notin {s, c}
      <3>1. up'[s] = up[s] /\ down'[c] = down[c]
        BY <1>0, <2>1, <2>4 DEF Types, WireType
      <3>. QED
        BY <1>5, <2>2, <3>1
    <2>. QED
      BY <2>3, <2>4
  <1>17. ASSUME NEW x \in Clients, ClientReceive(x) PROVE Goal
    <2>1. UNCHANGED <<up, clients>>
      BY <1>17 DEF ClientReceive
    <2>2. CASE x # c
      <3>1. down'[c] = down[c] /\ server'[c] = server[c]
        BY <1>0, <1>17, <2>2, ClientTakes
      <3>. QED
        BY <1>5, <1>6, <1>7, <2>1, <3>1
    <2>3. CASE x = c
      <3>. DEFINE m == Head(down[c])
      <3>1. /\ m \in Messages /\ ForClient(m, c) /\ down[c] # <<>> /\ down'[c] = Tail(down[c])
            /\ server'[c].closed = server[c].closed
            /\ m.type = "offer" => server'[c].remote = m.of
            /\ m.type # "offer" => server'[c].remote = server[c].remote
        BY <1>0, <1>17, <2>3, ClientTakes
      <3>2. m.of # Nobody /\ (m \in R <=> m.type = "offer")
        BY <3>1, IdTypes DEF ForClient, R, Kind
      <3>3. e <=> d \/ m \in R
        BY <3>1, <3>2 DEF d, e, Paired
      <3>4. Flow(Messages, out, up[s], down[c], d,
                 clients'[s][c].out, up'[s], down'[c], e, S, T, R, U)
        BY <1>0, <1>7, <2>1, <3>1, <3>3 DEF Flow
      <3>. QED
        BY <1>2, <3>4
    <2>. QED
      BY <2>2, <2>3
  <1>18. ASSUME NEW x \in Clients, ClientSend(x) PROVE Goal
    <2>1. UNCHANGED <<down, clients>>
      BY <1>18 DEF ClientSend
    <2>2. up'[s] = up[s]
      BY <1>0, <1>18, ClientSends, IdTypes
    <2>3. e = d
      <3>1. server'[c].remote = server[c].remote /\ server'[c].closed = server[c].closed
        BY <1>0, <1>18, ClientSends
      <3>. QED
        BY <3>1 DEF d, e, Paired
    <2>. QED
      BY <1>5, <1>7, <2>1, <2>2, <2>3
  <1>19. ASSUME NEW x \in Clients, Disconnect(x) PROVE Goal
    <2>1. UNCHANGED <<up, down, clients>>
      BY <1>19 DEF Disconnect
    <2>2. e = d
      <3>1. CASE x = c /\ Closes(x)
        <4>1. server[c].made /\ server'[c].closed
          BY <1>0, <1>19, <3>1, DisconnectEffect
        <4>2. server[c].remote # Nobody
          BY <4>1 DEF OrderHyps, ClientConnInv
        <4>. QED
          BY <1>0, <4>1, <4>2 DEF d, e, Paired
      <3>2. CASE x # c /\ Closes(x)
        BY <1>0, <1>6, <1>19, <3>2, DisconnectEffect
      <3>3. CASE ~Closes(x)
        <4>1. server'[c] = server[c]
          BY <1>19, <3>3, DisconnectForgotten
        <4>. QED
          BY <1>6, <4>1 DEF d, e, Paired
      <3>. QED
        BY <3>1, <3>2, <3>3
    <2>. QED
      BY <1>5, <1>7, <2>1, <2>2
  <1>20. ASSUME NEW t \in Runs, ServerReceive(t) PROVE Goal
    <2>. DEFINE m == Head(down[t])
    <2>1. UNCHANGED <<up, server>>
      BY <1>20 DEF ServerReceive
    <2>2. down'[c] = down[c]
      BY <1>0, <1>20, IdTypes DEF ServerReceive, Receive, Types, WireType
    <2>3. clients'[s][c].out = out
      <3>1. clients[s][c].stored \/ storing[s] = c
        BY DEF OrderHyps, EntryConnInv
      <3>2. t # s \/ m.id # c => clients'[s][c] = clients[s][c]
        BY <1>0, <1>20, ServerTakes
      <3>3. t = s /\ m.id = c => clients'[s][c].out = clients[s][c].out
        BY <1>0, <1>20, <3>1, ServerTakes
      <3>. QED
        BY <3>2, <3>3 DEF out
    <2>. QED
      BY <1>5, <1>6, <2>1, <2>2, <2>3
  <1>21. ASSUME NEW t \in Runs, Store(t) PROVE Goal
    <2>1. UNCHANGED <<up, down, server>>
      BY <1>21 DEF Store
    <2>2. clients'[s][c].out = clients[s][c].out
      <3>1. t # s \/ storing[t] # c => clients'[s][c] = clients[s][c]
        BY <1>0, <1>21, StoreEffect
      <3>2. t = s /\ storing[t] = c => clients'[s][c].out = clients[s][c].out
        BY <1>0, <1>21, StoreEffect
      <3>. QED
        BY <3>1, <3>2
    <2>. QED
      BY <1>5, <1>6, <2>1, <2>2 DEF out
  <1>22. ASSUME NEW t \in Runs, NEW x \in Clients, ServerSend(t, x) PROVE Goal
    <2>1. UNCHANGED <<down, server>>
      BY <1>22 DEF ServerSend
    <2>2. CASE t = s /\ x = c
      <3>1. /\ out # <<>> /\ clients'[s][c].out = Tail(out)
            /\ up'[s] = Append(up[s], Head(out))
        BY <1>0, <1>22, <2>2, ServerSends DEF out
      <3>2. Flow(Messages, out, up[s], down[c], d,
                 clients'[s][c].out, up'[s], down'[c], e, S, T, R, U)
        BY <1>0, <1>6, <2>1, <3>1 DEF Flow
      <3>. QED
        BY <1>2, <3>2
    <2>3. CASE t = s /\ x # c
      <3>. DEFINE n == Head(clients[s][x].out)
      <3>1. /\ n \in Messages /\ n \in ToSet(clients[s][x].out) /\ up'[s] = Append(up[s], n)
            /\ clients'[s][c] = clients[s][c]
        BY <1>0, <1>22, <2>3, ServerSends
      <3>2. n.id = x
        BY <1>0, <3>1 DEF MessageInv
      <3>. HIDE DEF n
      <3>3. n \in Messages \ (S \cup T)
        BY <2>3, <3>1, <3>2 DEF S, T, Kind
      <3>. QED
        BY <1>4, <1>6, <2>1, <3>1, <3>3 DEF Keeps, out
    <2>4. CASE t # s
      <3>1. up'[s] = up[s] /\ clients'[s][c] = clients[s][c]
        BY <1>0, <1>22, <2>4, ServerSends
      <3>. QED
        BY <1>5, <1>6, <2>1, <3>1 DEF out
    <2>. QED
      BY <2>2, <2>3, <2>4
  <1>23. Goal
    BY Steps, <1>10, <1>11, <1>12, <1>13, <1>14, <1>15, <1>16, <1>17, <1>18, <1>19, <1>20,
       <1>21, <1>22, Zenon
  <1>. QED
    BY <1>23 DEF Goal

LEMMA OfferStep ==
  ASSUME OrderHyps, Next, NEW s \in Runs, NEW c \in Clients, clients[s][c].made
  PROVE  OfferOnce(s, c)' /\ (Fine(s, c)' /\ ws'[c] # "gone" => OfferFirst(s, c)')
  <1>. DEFINE S == Kind("offer", c)
              T == Kind("candidate", c)
              R == Kind("offer", ServerId)
              U == Kind("candidate", ServerId)
              q == clients[s][c].out
              r == clients'[s][c].out
              d == Paired(c)
              e == Paired(c)'
  <1>1. /\ OneCopy(q, up[s], down[c], d, S, R)
        /\ Fine(s, c)' /\ ws'[c] # "gone" => InOrder(q, up[s], down[c], d, S, T, R, U)
    BY FineBefore, WsMoves, IdTypes DEF OrderHyps, IInv, OrderInv, OfferOnce, OfferFirst
  <1>2. CASE OfferFlow(s, c)
    <2>1. Flow(Messages, q, up[s], down[c], d, r, up'[s], down'[c], e, S, T, R, U)
      BY <1>2 DEF OfferFlow
    <2>. HIDE DEF S, T, R, U, q, r, d, e
    <2>2. /\ OneCopy(r, up'[s], down'[c], e, S, R)
          /\ InOrder(q, up[s], down[c], d, S, T, R, U) =>
               InOrder(r, up'[s], down'[c], e, S, T, R, U)
      BY <1>1, <2>1, Flows
    <2>. QED
      BY <1>1, <2>2 DEF OfferOnce, OfferFirst, Kind, S, T, R, U, r, e
  <1>3. CASE OfferLoss(s, c) /\ ~(Fine(s, c)' /\ ws'[c] # "gone")
    <2>1. Loss(Messages, q, up[s], down[c], d, r, up'[s], down'[c], e)
      BY <1>3 DEF OfferLoss
    <2>. HIDE DEF S, R, q, r, d, e
    <2>2. OneCopy(r, up'[s], down'[c], e, S, R)
      BY <1>1, <2>1, Losses
    <2>. QED
      BY <1>3, <2>2 DEF OfferOnce, Kind, S, R, r, e
  <1>. QED
    BY <1>2, <1>3, OfferMoves
-----------------------------------------------------------------------------
(* What the library hands to the callbacks: the description, and then its  *)
(* candidates.                                                             *)
LEMMA TrickleLeads ==
  ASSUME NEW type \in MsgTypes \ {"candidate"}, NEW id \in Ids, NEW of \in Peers
  PROVE  /\ <<>> \o Trickle(type, id, of) = Trickle(type, id, of)
         /\ Once(Trickle(type, id, of), Kind(type, id))
         /\ Led(Trickle(type, id, of), Kind(type, id), Kind("candidate", id))
  <1>. DEFINE q == Trickle(type, id, of)
  <1>1. q \in Seq(Messages)
    BY TrickleTyped
  <1>2. <<>> \o q = q
    BY <1>1, ConcatEmptySeq
  <1>3. /\ Candidates \in Nat /\ DOMAIN q = 1 .. Candidates + 1
        /\ \A i \in DOMAIN q : q[i] = Msg(IF i = 1 THEN type ELSE "candidate", id, of)
    BY JoinAssumption DEF Trickle
  <1>4. Msg(type, id, of) \in Kind(type, id)
    BY MsgTyped DEF Kind, Msg
  <1>. HIDE DEF q
  <1>5. 1 \in DOMAIN q /\ \A i \in DOMAIN q : i # 1 => 1 < i
    BY <1>3
  <1>6. \A i \in DOMAIN q : /\ q[i] \in Kind(type, id) => i = 1
                            /\ q[i] \in Kind("candidate", id) => i # 1
    BY <1>3 DEF Kind, Msg
  <1>7. q[1] \in Kind(type, id)
    BY <1>3, <1>4, <1>5
  <1>8. Once(q, Kind(type, id)) /\ Led(q, Kind(type, id), Kind("candidate", id))
    BY <1>5, <1>6, <1>7 DEF Once, Led
  <1>. QED
    BY <1>2, <1>8 DEF q

(* While nothing is lost, what a client sends to the run it asked gets     *)
(* there.                                                                  *)
LEMMA Routed ==
  ASSUME OrderHyps, NEW s \in Runs, NEW c \in Clients, Fine(s, c), clients[s][c].made
  PROVE  entry[ServerId] = s /\ (up[c] # <<>> => entry[c] = c)
  BY DEF OrderHyps, RegisteredInv, Asked, Fine

(* A client without an offer has not answered, and no run has its answer.  *)
LEMMA Unanswered ==
  ASSUME IInv, ClientConnInv, NEW s \in Runs, NEW c \in Clients, ~Paired(c)
  PROVE  /\ server[c].out = <<>> /\ clients[s][c].remote = Nobody
         /\ ~Has(up[c], Kind("answer", ServerId)) /\ ~Has(up[c], Kind("candidate", ServerId))
         /\ ~Has(down[s], Kind("answer", c)) /\ ~Has(down[s], Kind("candidate", c))
  <1>1. server[c].out = <<>> /\ clients[s][c].remote = Nobody
    BY DEF IInv, RemoteInv, ClientConnInv
  <1>2. up[c] \in Seq(Messages) /\ down[s] \in Seq(Messages)
    BY IdTypes DEF IInv, Types, WireType
  <1>3. \A m \in ToSet(up[c]) : m.type \notin {"answer", "candidate"}
    BY DEF IInv, MessageInv, OfClient
  <1>4. \A m \in ToSet(down[s]) : m.type \in {"answer", "candidate"} => m.id # c
    BY DEF IInv, MessageInv, ForServer
  <1>. QED
    BY <1>1, <1>2, <1>3, <1>4, HasElement DEF Kind

(* What the client and the relay do with an answer and its candidates:     *)
(* they pass them on; the client is gone, and they with it; or there is an *)
(* answer now.                                                             *)
AnswerFlow(s, c) ==
  Flow(Messages, Unsaid(c), up[c], down[s], clients[s][c].remote # Nobody,
       Unsaid(c)', up'[c], down'[s], clients'[s][c].remote # Nobody,
       Kind("answer", ServerId), Kind("candidate", ServerId), Kind("answer", c), Kind("candidate", c))
AnswerStop(s, c) ==
  Stop(Messages, Unsaid(c), up[c], down[s], clients[s][c].remote # Nobody,
       Unsaid(c)', up'[c], down'[s], clients'[s][c].remote # Nobody,
       Kind("answer", ServerId) \cup Kind("candidate", ServerId))
AnswerStart(s, c) ==
  /\ ~Paired(c) /\ Paired(c)'
  /\ Unsaid(c)' = Trickle("answer", ServerId, c)
  /\ UNCHANGED <<up, ws, clients>> /\ down'[s] = down[s]

LEMMA AnswerStarts ==
  ASSUME OrderHyps, Next, NEW s \in Runs, NEW c \in Clients, ~Paired(c), Paired(c)'
  PROVE  AnswerStart(s, c)
  <1>0. /\ Types /\ MessageInv /\ IInv /\ c \in Peers /\ s \in Peers /\ c # s
        /\ server[c].remote = Nobody /\ ~server[c].closed /\ server[c].out = <<>>
    BY IdTypes DEF OrderHyps, IInv, ClientConnInv, Paired
  <1>1. ClientReceive(c) /\ Head(down[c]).type = "offer"
    <2>1. server'[c] # server[c]
      BY DEF Paired
    <2>2. ~ClientSend(c)
      BY <1>0, ClientSends
    <2>3. ~Closes(c)
      BY <1>0, DisconnectEffect DEF OrderHyps, ClientConnInv
    <2>4. ClientReceive(c)
      BY <1>0, <2>1, <2>2, <2>3, ClientOnly
    <2>5. Head(down[c]).type # "offer" =>
            server'[c].remote = server[c].remote /\ server'[c].closed = server[c].closed
      BY <1>0, <2>4, ClientTakes
    <2>. QED
      BY <2>4, <2>5 DEF Paired
  <1>2. /\ ws[c] = "open" /\ \A p \in Peers : p # c => down'[p] = down[p]
        /\ server'[c].out = server[c].out \o Trickle("answer", ServerId, c)
    <2>1. Types /\ MessageInv /\ ClientReceive(c)
      BY <1>0, <1>1
    <2>2. ws[c] = "open" /\ \A p \in Peers : p # c => down'[p] = down[p]
      BY <2>1, ClientTakes
    <2>3. Head(down[c]).type = "offer" =>
            server'[c].out = server[c].out \o Trickle("answer", ServerId, c)
      BY <2>1, ClientTakes
    <2>. QED
      BY <1>1, <2>2, <2>3
  <1>3. <<>> \o Trickle("answer", ServerId, c) = Trickle("answer", ServerId, c)
    BY TrickleLeads, IdTypes DEF MsgTypes, RelayTypes
  <1>4. UNCHANGED <<up, ws, clients>>
    BY <1>1 DEF ClientReceive
  <1>. QED
    BY <1>0, <1>2, <1>3, <1>4 DEF AnswerStart, Unsaid

LEMMA AnswerMoves ==
  ASSUME OrderHyps, Next, NEW s \in Runs, NEW c \in Clients, clients[s][c].made, Fine(s, c)'
  PROVE  AnswerFlow(s, c) \/ (AnswerStop(s, c) /\ ws'[c] = "gone") \/ AnswerStart(s, c)
  <1>. DEFINE S == Kind("answer", ServerId)
              T == Kind("candidate", ServerId)
              R == Kind("answer", c)
              U == Kind("candidate", c)
              out == Unsaid(c)
              next == Unsaid(c)'
              d == clients[s][c].remote # Nobody
              e == clients'[s][c].remote # Nobody
              Goal == \/ AnswerFlow(s, c)
                      \/ AnswerStop(s, c) /\ ws'[c] = "gone"
                      \/ AnswerStart(s, c)
  <1>0. /\ Types /\ MessageInv /\ IInv /\ Fine(s, c)
        /\ s \in Peers /\ c \in Peers /\ c # s /\ c # Nobody
        /\ IdOf(s) = ServerId /\ IdOf(c) = c /\ c # ServerId
        /\ \A p \in Peers : IdOf(p) = c => p = c
        /\ \A p \in Peers : up[p] \in Seq(Messages) /\ down[p] \in Seq(Messages)
        /\ out \in Seq(Messages) /\ d \in BOOLEAN /\ e \in BOOLEAN
    <2>1. /\ Types /\ MessageInv /\ IInv
      BY DEF OrderHyps, IInv
    <2>2. server[c].out \in Seq(Messages)
      BY <2>1 DEF Types, ConnType, Connection
    <2>3. out \in Seq(Messages)
      BY <2>2 DEF Unsaid
    <2>4. \A p \in Peers : up[p] \in Seq(Messages) /\ down[p] \in Seq(Messages)
      BY <2>1 DEF Types, WireType
    <2>5. /\ s \in Peers /\ c \in Peers /\ c # s /\ c # Nobody
          /\ IdOf(s) = ServerId /\ IdOf(c) = c /\ c # ServerId
          /\ \A p \in Peers : IdOf(p) = c => p = c
      BY IdTypes DEF Peers
    <2>. QED
      BY <2>1, <2>3, <2>4, <2>5, FineBefore
  <1>1. ASSUME Flow(Messages, out, up[c], down[s], d, next, up'[c], down'[s], e, S, T, R, U)
        PROVE  Goal
    BY <1>1 DEF AnswerFlow
  <1>2. ASSUME Stop(Messages, out, up[c], down[s], d, next, up'[c], down'[s], e, S \cup T),
               ws'[c] = "gone"
        PROVE  Goal
    BY <1>2 DEF AnswerStop
  <1>3. /\ server'[c].out = server[c].out => next = out \/ (next = <<>> /\ ws'[c] = "gone")
        /\ server'[c].out = server[c].out /\ ws'[c] = ws[c] => next = out
        /\ ws'[c] = "gone" => next = <<>>
        /\ ws'[c] = "open" => next = server'[c].out
        /\ ws[c] = "open" => out = server[c].out
    BY <1>0, WsMoves DEF Unsaid
  <1>4. clients'[s][c].remote = clients[s][c].remote => e = d
    OBVIOUS
  <1>. HIDE DEF S, T, R, U, out, next, d, e, Goal
  <1>5. ASSUME server'[c].out = server[c].out, Keeps(Messages, up[c], up'[c], S \cup T),
               down'[s] = down[s], e = d
        PROVE  Goal
    <2>1. Keeps(Messages, down[s], down'[s], R \cup U)
      BY <1>5 DEF Keeps
    <2>2. CASE next = out
      <3>1. Flow(Messages, out, up[c], down[s], d, next, up'[c], down'[s], e, S, T, R, U)
        BY <1>0, <1>5, <2>1, <2>2 DEF Flow
      <3>. QED
        BY <1>1, <3>1
    <2>3. CASE next = <<>> /\ ws'[c] = "gone"
      <3>1. Stop(Messages, out, up[c], down[s], d, next, up'[c], down'[s], e, S \cup T)
        BY <1>0, <1>5, <2>3 DEF Stop
      <3>. QED
        BY <1>2, <2>3, <3>1
    <2>. QED
      BY <1>3, <1>5, <2>2, <2>3
  <1>6. ASSUME server'[c].out = server[c].out, up'[c] = up[c], down'[s] = down[s], e = d
        PROVE  Goal
    <2>1. Keeps(Messages, up[c], up'[c], S \cup T)
      BY <1>6 DEF Keeps
    <2>. QED
      BY <1>5, <1>6, <2>1
  <1>7. ASSUME server'[c].out = server[c].out, ws'[c] = ws[c], up'[c] = up[c],
               Keeps(Messages, down[s], down'[s], R \cup U), e = d
        PROVE  Goal
    <2>1. Keeps(Messages, up[c], up'[c], S \cup T)
      BY <1>7 DEF Keeps
    <2>2. Flow(Messages, out, up[c], down[s], d, next, up'[c], down'[s], e, S, T, R, U)
      BY <1>0, <1>3, <1>7, <2>1 DEF Flow
    <2>. QED
      BY <1>1, <2>2
  <1>8. /\ clients' = clients => e = d
        /\ server' = server => server'[c].out = server[c].out
    BY <1>4
  <1>10. ASSUME NEW q \in Peers, Open(q) \/ Opened(q) \/ Leave(q) PROVE Goal
    BY <1>6, <1>8, <1>10 DEF Open, Opened, Leave, peerVars
  <1>11. ASSUME NEW q \in Peers, OnOpen(q) PROVE Goal
    <2>1. CASE q = c
      <3>1. Msg("register", c, c) \in Messages \ (S \cup T)
        BY <1>0, MsgTyped, IdTypes DEF MsgTypes, S, T, Kind, Msg
      <3>2. up'[c] = Append(up[c], Msg("register", c, c))
        BY <1>0, <1>11, <2>1 DEF OnOpen, Send, Types, WireType
      <3>. QED
        BY <1>5, <1>8, <1>11, <3>1, <3>2 DEF OnOpen, Keeps
    <2>2. CASE q # c
      BY <1>0, <1>6, <1>8, <1>11, <2>2 DEF OnOpen, Send, Types, WireType
    <2>. QED
      BY <2>1, <2>2
  <1>12. ASSUME NEW q \in Peers, EndWait(q) PROVE Goal
    <2>1. Msg("join", ServerId, c) \in Messages \ (S \cup T)
      BY <1>0, MsgTyped, IdTypes DEF MsgTypes, RelayTypes, S, T, Kind, Msg
    <2>2. up'[c] = up[c] \/ up'[c] = Append(up[c], Msg("join", ServerId, c))
      BY <1>0, <1>12 DEF EndWait, Send, Types, WireType
    <2>3. Keeps(Messages, up[c], up'[c], S \cup T)
      BY <2>1, <2>2 DEF Keeps
    <2>. QED
      BY <1>5, <1>8, <1>12, <2>3 DEF EndWait
  <1>13. ASSUME NEW q \in Peers, RelayRegister(q) PROVE Goal
    <2>1. /\ UNCHANGED <<down, clients, server>>
          /\ q # c => up'[c] = up[c]
          /\ q = c => up[c] # <<>> /\ up'[c] = Tail(up[c]) /\ Head(up[c]) \notin S \cup T
      BY <1>0, <1>13 DEF RelayRegister, TakeUp, peerVars, Types, WireType, S, T, Kind
    <2>. QED
      BY <1>5, <1>6, <1>8, <2>1 DEF Keeps
  <1>14. ASSUME NEW q \in Peers, RelayForward(q) PROVE Goal
    <2>. DEFINE m == Head(up[q])
                t == entry[m.id]
                n == Msg(m.type, IdOf(q), m.of)
    <2>0. m = Head(up[q]) /\ t = entry[m.id]
      OBVIOUS
    <2>1. /\ m \in Messages /\ m \in ToSet(up[q]) /\ m.type # "register"
          /\ up[q] # <<>> /\ up'[q] = Tail(up[q])
          /\ \A r \in Peers : r # q => up'[r] = up[r]
          /\ t \in Peers
          /\ n \in Messages /\ n.type = m.type /\ n.id = IdOf(q)
          /\ down'[t] = Append(down[t], n)
          /\ \A r \in Peers : r # t => down'[r] = down[r]
          /\ UNCHANGED <<ws, clients, server>>
      BY <1>0, <1>14, Forwards
    <2>. HIDE DEF m, t, n
    <2>2. /\ e = d /\ next = out
          /\ server'[c].out = server[c].out /\ ws'[c] = ws[c]
      BY <1>3, <1>8, <2>1
    <2>3. CASE q = c
      <3>1. m.id = ServerId
        BY <1>0, <2>1, <2>3 DEF MessageInv, OfClient
      <3>2. t = s
        BY <1>0, <2>0, <3>1, Routed
      <3>3. (m \in S <=> n \in R) /\ (m \in T <=> n \in U)
        BY <1>0, <2>1, <2>3, <3>1 DEF S, T, R, U, Kind
      <3>4. Flow(Messages, out, up[c], down[s], d, next, up'[c], down'[s], e, S, T, R, U)
        BY <1>0, <2>0, <2>1, <2>2, <2>3, <3>2, <3>3 DEF Flow
      <3>. QED
        BY <1>1, <3>4
    <2>4. CASE q # c
      <3>1. n \in Messages \ (R \cup U)
        BY <1>0, <2>1, <2>4 DEF R, U, Kind
      <3>2. Keeps(Messages, down[s], down'[s], R \cup U)
        BY <1>0, <2>1, <3>1 DEF Keeps
      <3>. QED
        BY <1>0, <1>7, <2>1, <2>2, <2>4, <3>2
    <2>. QED
      BY <2>3, <2>4
  <1>15. ASSUME NEW q \in Peers, RelayDrop(q) \/ RelayLose(q) PROVE Goal
    <2>1. /\ UNCHANGED <<down, ws, clients, server>>
          /\ q # c => up'[c] = up[c]
          /\ q = c => up[c] # <<>> /\ up'[c] = Tail(up[c])
      BY <1>0, <1>15 DEF RelayDrop, RelayLose, TakeUp, peerVars, Types, WireType
    <2>2. CASE q # c
      BY <1>6, <1>8, <2>1, <2>2
    <2>3. CASE q = c
      <3>1. ASSUME Head(up[c]) \in S \cup T PROVE FALSE
        <4>1. entry[ServerId] = s /\ entry[c] = c
          BY <1>0, <2>1, <2>3, Routed
        <4>2. Head(up[c]).id = ServerId /\ RoleOf(s) = "server" /\ s # Nobody
          BY <3>1, IdTypes DEF S, T, Kind, RoleOf
        <4>3. RelayLose(c)
          BY <1>0, <1>15, <2>3, <4>1, <4>2 DEF RelayDrop, MayRelay
        <4>. QED
          BY <4>3 DEF RelayLose, Fine
      <3>2. Keeps(Messages, up[c], up'[c], S \cup T)
        BY <2>1, <2>3, <3>1 DEF Keeps
      <3>. QED
        BY <1>5, <1>8, <2>1, <3>2
    <2>. QED
      BY <2>2, <2>3
  <1>16. ASSUME NEW q \in Peers, RelayFails(q) \/ RelayTeardown(q) PROVE Goal
    <2>1. /\ up' = [up EXCEPT ![q] = <<>>] /\ down' = [down EXCEPT ![q] = <<>>]
          /\ ws'[q] = "gone" /\ UNCHANGED <<clients, server>>
      BY <1>0, <1>16 DEF RelayFails, RelayTeardown, Evict, peerVars, Types, FlagType
    <2>2. q # s
      BY <2>1 DEF Fine
    <2>3. down'[s] = down[s] /\ e = d /\ (q # c => up'[c] = up[c]) /\ (q = c => up'[c] = <<>>)
      BY <1>0, <1>8, <2>1, <2>2 DEF Types, WireType
    <2>4. CASE q = c
      <3>1. Stop(Messages, out, up[c], down[s], d, next, up'[c], down'[s], e, S \cup T)
        BY <1>0, <1>3, <2>1, <2>3, <2>4 DEF Stop
      <3>. QED
        BY <1>2, <2>1, <2>4, <3>1
    <2>5. CASE q # c
      BY <1>6, <1>8, <2>1, <2>3, <2>5
    <2>. QED
      BY <2>4, <2>5
  <1>17. ASSUME NEW x \in Clients, ClientReceive(x) PROVE Goal
    <2>1. UNCHANGED <<up, ws, clients>> /\ e = d
      BY <1>8, <1>17 DEF ClientReceive
    <2>2. down'[s] = down[s]
      BY <1>0, <1>17, ClientTakes, IdTypes
    <2>3. CASE x # c \/ Head(down[c]).type # "offer"
      <3>1. server'[c].out = server[c].out
        BY <1>0, <1>17, <2>3, ClientTakes
      <3>. QED
        BY <1>6, <2>1, <2>2, <3>1
    <2>4. CASE x = c /\ Head(down[c]).type = "offer"
      <3>1. down[c] # <<>> /\ server'[c].remote = Head(down[c]).of
        BY <1>0, <1>17, <2>4, ClientTakes
      <3>2. ~Paired(c) /\ Head(down[c]).of \in Runs
        BY <1>0, <2>4, <3>1, OfferHead DEF OrderHyps
      <3>3. Paired(c)'
        BY <3>1, <3>2, IdTypes DEF Paired
      <3>. QED
        BY <3>2, <3>3, AnswerStarts DEF Goal
    <2>. QED
      BY <2>3, <2>4
  <1>18. ASSUME NEW x \in Clients, ClientSend(x) PROVE Goal
    <2>1. UNCHANGED <<down, ws, clients>> /\ e = d
      BY <1>8, <1>18 DEF ClientSend
    <2>2. CASE x = c
      <3>1. /\ out # <<>> /\ next = Tail(out) /\ up'[c] = Append(up[c], Head(out))
        BY <1>0, <1>3, <1>18, <2>1, <2>2, ClientSends
      <3>2. Flow(Messages, out, up[c], down[s], d, next, up'[c], down'[s], e, S, T, R, U)
        BY <1>0, <2>1, <3>1 DEF Flow
      <3>. QED
        BY <1>1, <3>2
    <2>3. CASE x # c
      <3>1. up'[c] = up[c] /\ server'[c] = server[c]
        BY <1>0, <1>18, <2>3, ClientSends
      <3>. QED
        BY <1>6, <2>1, <3>1
    <2>. QED
      BY <2>2, <2>3
  <1>19. ASSUME NEW x \in Clients, Disconnect(x) PROVE Goal
    <2>1. server'[c] = server[c]
      <3>1. CASE Closes(x)
        BY <1>0, <1>19, <3>1, DisconnectEffect DEF Fine
      <3>2. CASE ~Closes(x)
        BY <1>19, <3>2, DisconnectForgotten
      <3>. QED
        BY <3>1, <3>2
    <2>. QED
      BY <1>6, <1>8, <1>19, <2>1 DEF Disconnect
  <1>20. ASSUME NEW t \in Runs, ServerReceive(t) PROVE Goal
    <2>. DEFINE m == Head(down[t])
    <2>1. UNCHANGED <<up, ws, server>> /\ next = out
      BY <1>3, <1>20 DEF ServerReceive
    <2>2. CASE t # s
      <3>1. down'[s] = down[s]
        BY <1>0, <1>20, <2>2, IdTypes DEF ServerReceive, Receive, Types, WireType
      <3>2. clients'[s][c] = clients[s][c]
        BY <1>0, <1>20, <2>2, ServerTakes
      <3>. QED
        BY <1>4, <1>6, <2>1, <3>1, <3>2
    <2>3. CASE t = s /\ m.id # c
      <3>1. /\ down[s] # <<>> /\ clients'[s][c] = clients[s][c]
            /\ UNCHANGED down \/ down' = [down EXCEPT ![s] = Tail(@)]
        BY <1>0, <1>20, <2>3, ServerTakes
      <3>2. m \notin R \cup U
        BY <2>3 DEF R, U, Kind
      <3>3. Keeps(Messages, down[s], down'[s], R \cup U)
        BY <1>0, <2>3, <3>1, <3>2 DEF Keeps, Types, WireType
      <3>. QED
        BY <1>4, <1>7, <2>1, <3>1, <3>3
    <2>4. CASE t = s /\ m.id = c
      <3>1. clients[s][c].stored \/ storing[s] = c
        BY DEF OrderHyps, EntryConnInv
      <3>2. /\ m \in Messages /\ down[s] # <<>> /\ down' = [down EXCEPT ![s] = Tail(@)]
            /\ clients'[s][c].remote =
                 IF m.type = "answer" /\ clients[s][c].remote = Nobody
                 THEN c ELSE clients[s][c].remote
        BY <1>0, <1>20, <2>4, <3>1, ServerTakes
      <3>3. m \in R <=> m.type = "answer"
        BY <2>4, <3>2 DEF R, Kind
      <3>4. e <=> d \/ m \in R
        BY <1>0, <3>2, <3>3 DEF d, e
      <3>5. down'[s] = Tail(down[s])
        BY <1>0, <3>2 DEF Types, WireType
      <3>6. Flow(Messages, out, up[c], down[s], d, next, up'[c], down'[s], e, S, T, R, U)
        BY <1>0, <2>1, <2>4, <3>2, <3>4, <3>5 DEF Flow
      <3>. QED
        BY <1>1, <3>6
    <2>. QED
      BY <2>2, <2>3, <2>4
  <1>21. ASSUME NEW t \in Runs, Store(t) PROVE Goal
    <2>1. UNCHANGED <<up, down, server>>
      BY <1>21 DEF Store
    <2>2. clients'[s][c].remote = clients[s][c].remote
      <3>1. t # s \/ storing[t] # c => clients'[s][c] = clients[s][c]
        BY <1>0, <1>21, StoreEffect
      <3>2. t = s /\ storing[t] = c => clients'[s][c].remote = clients[s][c].remote
        BY <1>0, <1>21, StoreEffect
      <3>. QED
        BY <3>1, <3>2
    <2>. QED
      BY <1>4, <1>6, <1>8, <2>1, <2>2
  <1>22. ASSUME NEW t \in Runs, NEW x \in Clients, ServerSend(t, x) PROVE Goal
    <2>1. UNCHANGED <<down, server>> /\ up'[c] = up[c]
      <3>1. c # t
        BY IdTypes
      <3>2. up'[c] = up[c]
        BY <1>0, <1>22, <3>1, ServerSends
      <3>. QED
        BY <1>22, <3>2 DEF ServerSend
    <2>2. clients'[s][c].remote = clients[s][c].remote
      <3>1. t # s \/ x # c => clients'[s][c] = clients[s][c]
        BY <1>0, <1>22, ServerSends
      <3>2. t = s /\ x = c => clients'[s][c].remote = clients[s][c].remote
        BY <1>0, <1>22, ServerSends
      <3>. QED
        BY <3>1, <3>2
    <2>. QED
      BY <1>4, <1>6, <1>8, <2>1, <2>2
  <1>23. Goal
    BY Steps, <1>10, <1>11, <1>12, <1>13, <1>14, <1>15, <1>16, <1>17, <1>18, <1>19, <1>20,
       <1>21, <1>22, Zenon
  <1>. QED
    BY <1>23 DEF Goal

LEMMA AnswerStep ==
  ASSUME OrderHyps, Next, NEW s \in Runs, NEW c \in Clients, clients[s][c].made, Fine(s, c)'
  PROVE  AnswerOnce(s, c)' /\ AnswerFirst(s, c)'
  <1>. DEFINE S == Kind("answer", ServerId)
              T == Kind("candidate", ServerId)
              R == Kind("answer", c)
              U == Kind("candidate", c)
              q == Unsaid(c)
              r == Unsaid(c)'
              d == clients[s][c].remote # Nobody
              e == clients'[s][c].remote # Nobody
  <1>1. /\ OneCopy(q, up[c], down[s], d, S, R)
        /\ InOrder(q, up[c], down[s], d, S, T, R, U)
    BY FineBefore DEF OrderHyps, IInv, OrderInv, AnswerOnce, AnswerFirst
  <1>. SUFFICES /\ OneCopy(r, up'[c], down'[s], e, S, R)
                /\ InOrder(r, up'[c], down'[s], e, S, T, R, U)
    BY DEF AnswerOnce, AnswerFirst, Kind
  <1>2. CASE AnswerFlow(s, c)
    <2>1. Flow(Messages, q, up[c], down[s], d, r, up'[c], down'[s], e, S, T, R, U)
      BY <1>2 DEF AnswerFlow
    <2>. HIDE DEF S, T, R, U, q, r, d, e
    <2>. QED
      BY <1>1, <2>1, Flows
  <1>3. CASE AnswerStop(s, c)
    <2>1. Stop(Messages, q, up[c], down[s], d, r, up'[c], down'[s], e, S \cup T)
      BY <1>3 DEF AnswerStop
    <2>. HIDE DEF S, T, R, U, q, r, d, e
    <2>. QED
      BY <1>1, <2>1, Stops
  <1>4. CASE AnswerStart(s, c)
    <2>1. /\ clients[s][c].remote = Nobody
          /\ ~Has(up[c], S) /\ ~Has(up[c], T) /\ ~Has(down[s], R) /\ ~Has(down[s], U)
      BY <1>4, Unanswered DEF OrderHyps, AnswerStart
    <2>2. Once(r, S) /\ Led(r, S, T)
      BY <1>4, TrickleLeads, IdTypes DEF AnswerStart, MsgTypes, RelayTypes
    <2>3. up'[c] = up[c] /\ down'[s] = down[s] /\ ~e
      BY <1>4, <2>1 DEF AnswerStart
    <2>. HIDE DEF S, T, R, U, q, r, e
    <2>. QED
      BY <2>1, <2>2, <2>3, Starts
  <1>. QED
    BY <1>2, <1>3, <1>4, AnswerMoves
-----------------------------------------------------------------------------
(* A connection is made for a client that has not been offered one.        *)
LEMMA MadeNew ==
  ASSUME OrderHyps, Next, NEW s \in Runs, NEW c \in Clients,
         ~clients[s][c].made, clients'[s][c].made
  PROVE  /\ ~Paired(c) /\ ~Paired(c)' /\ UNCHANGED <<up, down, ws, server>>
         /\ clients'[s][c].out = Trickle("offer", c, s) /\ clients'[s][c].remote = Nobody
         /\ ~Has(up[s], Kind("offer", c)) /\ ~Has(up[s], Kind("candidate", c))
         /\ ~Has(down[c], Kind("offer", ServerId)) /\ ~Has(down[c], Kind("candidate", ServerId))
  <1>0. /\ Types /\ MessageInv /\ JoinInv /\ s \in Peers /\ c \in Peers
        /\ up[s] \in Seq(Messages) /\ down[c] \in Seq(Messages)
    BY IdTypes DEF OrderHyps, IInv, Types, WireType
  <1>1. \E m \in ToSet(down[s]) : m.type = "join" /\ m.id = c
    BY <1>0, EntrySteps
  <1>2. \A t \in Runs : ~clients[t][c].made
    BY <1>0, <1>1 DEF JoinInv, Asked
  <1>3. ~Paired(c)
    BY <1>2 DEF OrderHyps, ClientConnInv
  <1>4. ServerReceive(s) /\ Head(down[s]).id = c
    <2>1. ASSUME NEW d \in Clients, ServerSend(s, d) PROVE FALSE
      BY <1>0, <2>1, ServerSends
    <2>2. ASSUME Store(s) PROVE FALSE
      BY <1>0, <2>2, StoreEffect
    <2>3. ServerReceive(s)
      BY <1>0, <2>1, <2>2, EntryOnly
    <2>. QED
      BY <1>0, <2>3, ServerTakes
  <1>5. /\ clients'[s][c].out = Trickle("offer", c, s) /\ UNCHANGED down
        /\ clients'[s][c].remote = clients[s][c].remote
    BY <1>0, <1>4, ServerTakes
  <1>6. UNCHANGED <<up, ws, server>>
    BY <1>4 DEF ServerReceive
  <1>7. ~Paired(c)' /\ clients[s][c].remote = Nobody
    BY <1>3, <1>6 DEF Paired, OrderHyps, EntryConnInv
  <1>8. \A m \in ToSet(up[s]) : m.type \in {"offer", "candidate"} => m.id # c
    BY <1>0, <1>2 DEF MessageInv, OfServer
  <1>9. \A m \in ToSet(down[c]) : FALSE
    BY <1>0, <1>2 DEF MessageInv, ForClient
  <1>. QED
    BY <1>0, <1>3, <1>5, <1>6, <1>7, <1>8, <1>9, HasElement DEF Kind

LEMMA OrderStep ==
  ASSUME OrderHyps, Next
  PROVE  OrderInv'
  <1>. SUFFICES ASSUME NEW s \in Runs, NEW c \in Clients, clients'[s][c].made
                PROVE  /\ OfferOnce(s, c)'
                       /\ Fine(s, c)' /\ ws'[c] # "gone" => OfferFirst(s, c)'
                       /\ Fine(s, c)' => AnswerOnce(s, c)' /\ AnswerFirst(s, c)'
    BY Zenon DEF OrderInv
  <1>1. CASE clients[s][c].made
    BY <1>1, OfferStep, AnswerStep
  <1>2. CASE ~clients[s][c].made
    <2>. DEFINE q == Trickle("offer", c, s)
    <2>1. /\ ~Paired(c) /\ ~Paired(c)' /\ UNCHANGED <<up, down, ws, server>>
          /\ clients'[s][c].out = q /\ clients'[s][c].remote = Nobody
          /\ ~Has(up[s], Kind("offer", c)) /\ ~Has(up[s], Kind("candidate", c))
          /\ ~Has(down[c], Kind("offer", ServerId)) /\ ~Has(down[c], Kind("candidate", ServerId))
      BY <1>2, MadeNew
    <2>2. Once(q, Kind("offer", c)) /\ Led(q, Kind("offer", c), Kind("candidate", c))
      BY TrickleLeads, IdTypes DEF MsgTypes, RelayTypes
    <2>. HIDE DEF q
    <2>3. /\ OneCopy(q, up[s], down[c], Paired(c)', Kind("offer", c), Kind("offer", ServerId))
          /\ InOrder(q, up[s], down[c], Paired(c)', Kind("offer", c), Kind("candidate", c),
                     Kind("offer", ServerId), Kind("candidate", ServerId))
      BY <2>1, <2>2, Starts
    <2>4. OfferOnce(s, c)' /\ OfferFirst(s, c)'
      BY <2>1, <2>3 DEF OfferOnce, OfferFirst, Kind
    <2>5. /\ server[c].out = <<>>
          /\ ~Has(up[c], Kind("answer", ServerId)) /\ ~Has(up[c], Kind("candidate", ServerId))
          /\ ~Has(down[s], Kind("answer", c)) /\ ~Has(down[s], Kind("candidate", c))
      BY <2>1, Unanswered DEF OrderHyps
    <2>6. /\ OneCopy(<<>>, up[c], down[s], FALSE, Kind("answer", ServerId), Kind("answer", c))
          /\ InOrder(<<>>, up[c], down[s], FALSE,
                     Kind("answer", ServerId), Kind("candidate", ServerId),
                     Kind("answer", c), Kind("candidate", c))
      BY <2>5, OnEmpty, Starts
    <2>7. AnswerOnce(s, c)' /\ AnswerFirst(s, c)'
      <3>1. Unsaid(c)' = <<>> /\ (clients'[s][c].remote # Nobody) = FALSE
        BY <2>1, <2>5 DEF Unsaid
      <3>. QED
        BY <2>1, <2>6, <3>1 DEF AnswerOnce, AnswerFirst, Kind
    <2>. QED
      BY <2>4, <2>7
  <1>. QED
    BY <1>1, <1>2
-----------------------------------------------------------------------------
(* A run that has heard from a client made the connection to it.           *)
LEMMA HeardFrom ==
  ASSUME OrderHyps, Good, NEW s \in Runs, ws[s] = "open", NEW c \in Clients, Paired(c)
  PROVE  clients[s][c].made
  <1>1. PICK t \in Runs : clients[t][c].made
    BY DEF OrderHyps, ClientConnInv
  <1>2. ws[t] \notin {"none", "gone"}
    BY <1>1 DEF OrderHyps, RegisteredInv, Asked, Good
  <1>. QED
    BY <1>1, <1>2 DEF OrderHyps, StartInv

LEMMA MisfitStep ==
  ASSUME OrderHyps, NoneMisfit, Next
  PROVE  NoneMisfit'
  <1>. SUFFICES ASSUME Good' PROVE misfits' = {}
    BY DEF NoneMisfit
  <1>0. /\ IInv /\ Types /\ MessageInv /\ Good /\ misfits = {}
    BY FineBefore DEF OrderHyps, IInv, NoneMisfit
  <1>1. ASSUME NEW c \in Clients, ClientReceive(c) PROVE UNCHANGED misfits
    <2>. DEFINE m == Head(down[c])
                R == Kind("offer", ServerId)
                U == Kind("candidate", ServerId)
    <2>. SUFFICES ASSUME m.type # "offer", ~(server[c].made /\ server[c].remote # Nobody)
                  PROVE  FALSE
      BY <1>0, <1>1, ClientTakes
    <2>1. /\ m \in Messages /\ ForClient(m, c) /\ ws[c] = "open"
          /\ down[c] # <<>> /\ down[c] \in Seq(Messages)
      BY <1>0, <1>1, ClientTakes, IdTypes DEF Types, WireType
    <2>2. m \in U /\ m.of \in Runs /\ clients[m.of][c].made
      BY <2>1 DEF ForClient, Kind
    <2>3. OfferFirst(m.of, c)
      BY <1>0, <2>1, <2>2 DEF OrderHyps, OrderInv, Good, Fine
    <2>4. Paired(c) \/ Led(down[c], R, U)
      BY <2>3 DEF OfferFirst, InOrder
    <2>5. ~Led(down[c], R, U)
      BY <2>1, <2>2, OnTail
    <2>6. ~server[c].closed /\ (server[c].made <=> server[c].remote # Nobody)
      BY <1>0 DEF Good, OrderHyps, ClientConnInv
    <2>. QED
      BY <2>4, <2>5, <2>6 DEF Paired
  <1>2. ASSUME NEW s \in Runs, ServerReceive(s) PROVE UNCHANGED misfits
    <2>. DEFINE m == Head(down[s])
                c == m.id
                R == Kind("answer", c)
                U == Kind("candidate", c)
                d == clients[s][c].remote # Nobody
    <2>. SUFFICES ASSUME \/ m.type = "answer" /\ (~clients[s][c].stored \/ d)
                         \/ m.type = "candidate" /\ (~clients[s][c].stored \/ ~d)
                  PROVE  FALSE
      BY <1>0, <1>2, ServerTakes
    <2>1. /\ m \in Messages /\ ForServer(m) /\ c \in Clients /\ ws[s] = "open"
          /\ storing[s] = Nobody /\ down[s] # <<>> /\ down[s] \in Seq(Messages)
      BY <1>0, <1>2, ServerTakes, IdTypes DEF Types, WireType
    <2>2. clients[s][c].made
      BY <1>0, <2>1, HeardFrom DEF ForServer
    <2>3. clients[s][c].stored
      BY <2>1, <2>2, IdTypes DEF OrderHyps, EntryConnInv
    <2>4. AnswerOnce(s, c) /\ AnswerFirst(s, c)
      BY <1>0, <2>1, <2>2 DEF OrderHyps, OrderInv, Good, Fine
    <2>5. (Has(down[s], R) => ~d) /\ (d \/ Led(down[s], R, U))
      BY <2>4 DEF AnswerOnce, AnswerFirst, OneCopy, InOrder
    <2>6. (m.type = "answer" => m \in R) /\ (m.type = "candidate" => m \in U)
      BY <2>1 DEF Kind
    <2>. HIDE DEF R, U
    <2>7. (m \in R => Has(down[s], R)) /\ (Led(down[s], R, U) => m \notin U)
      BY <2>1, OnTail
    <2>. QED
      BY <2>3, <2>5, <2>6, <2>7
  <1>3. UNCHANGED misfits
    BY Steps, <1>1, <1>2, Zenon
    DEF Open, Opened, OnOpen, EndWait, Leave, RelayRegister, RelayForward, RelayDrop,
        RelayLose, RelayFails, RelayTeardown, ClientSend, Disconnect, Store, ServerSend, peerVars
  <1>. QED
    BY <1>0, <1>3
-----------------------------------------------------------------------------
(* Nothing is there at the start.                                          *)
LEMMA OrderInitially == Init => OrderHyps /\ NoneMisfit
  <1>. SUFFICES ASSUME Init PROVE OrderHyps /\ NoneMisfit
    OBVIOUS
  <1>1. /\ \A s \in Runs, c \in Clients :
             ~clients[s][c].made /\ clients[s][c].out = <<>> /\ clients[s][c].remote = Nobody
        /\ \A c \in Clients : /\ ~server[c].made /\ server[c].remote = Nobody
                              /\ server[c].out = <<>> /\ ~server[c].closed
    BY DEF Init, NoConnection
  <1>2. /\ \A id \in Ids : entry[id] = Nobody
        /\ \A p \in Peers : ws[p] = "none" /\ down[p] = <<>>
        /\ misfits = {}
    BY Zenon DEF Init
  <1>3. OrderInv /\ EntryConnInv /\ ClientConnInv
    BY <1>1 DEF OrderInv, EntryConnInv, ClientConnInv, Paired
  <1>4. StartInv
    BY <1>2, IdTypes DEF StartInv
  <1>5. RegisteredInv
    BY <1>1, <1>2, IdTypes, ToSetEmpty DEF RegisteredInv, Asked
  <1>. QED
    BY <1>2, <1>3, <1>4, <1>5, Initially, GreetInitially DEF OrderHyps, NoneMisfit

(* A description is on its way at most once, the candidates behind it, and *)
(* the parts of a connection, of the relay's table and of the runs belong  *)
(* together; so no message comes too early.                                *)
THEOREM OrderInvariance == Spec => [](OrderHyps /\ NoneMisfit)
  <1>1. OrderHyps /\ NoneMisfit /\ IInv' /\ [Next]_vars => (OrderHyps /\ NoneMisfit)'
    <2>1. CASE UNCHANGED vars
      <3>1. GreetInv => GreetInv'
        BY <2>1, Zenon DEF vars, peerVars, GreetInv, SilentOut
      <3>2. /\ \A s \in Runs, c \in Clients : Fine(s, c)' => Fine(s, c)
            /\ NoneMisfit => NoneMisfit'
        BY <2>1, Zenon DEF vars, peerVars, NoneMisfit, Good, Fine
      <3>3. \A s \in Runs, c \in Clients :
              /\ OfferOnce(s, c) => OfferOnce(s, c)'
              /\ OfferFirst(s, c) => OfferFirst(s, c)'
              /\ AnswerOnce(s, c) => AnswerOnce(s, c)'
              /\ AnswerFirst(s, c) => AnswerFirst(s, c)'
        <4>1. up' = up /\ down' = down /\ ws' = ws /\ clients' = clients /\ server' = server
          BY <2>1 DEF vars, peerVars
        <4>2. \A c \in Clients : Paired(c)' = Paired(c) /\ Unsaid(c)' = Unsaid(c)
          BY <4>1 DEF Paired, Unsaid
        <4>. QED
          BY <4>1, <4>2 DEF OfferOnce, OfferFirst, AnswerOnce, AnswerFirst, Kind
      <3>4. OrderInv => OrderInv'
        BY <2>1, <3>2, <3>3, Zenon DEF vars, peerVars, OrderInv
      <3>5. (ClientConnInv => ClientConnInv') /\ (EntryConnInv => EntryConnInv')
        BY <2>1, Zenon DEF vars, peerVars, ClientConnInv, EntryConnInv, Paired
      <3>6. (StartInv => StartInv') /\ (RegisteredInv => RegisteredInv')
        BY <2>1, Zenon DEF vars, peerVars, StartInv, RegisteredInv, Asked
      <3>. QED
        BY <3>1, <3>2, <3>4, <3>5, <3>6 DEF OrderHyps
    <2>2. ASSUME OrderHyps, NoneMisfit, IInv', Next PROVE (OrderHyps /\ NoneMisfit)'
      <3>1. GreetInv'
        BY <2>2, GreetStep DEF OrderHyps
      <3>2. ClientConnInv' /\ EntryConnInv' /\ StartInv' /\ RegisteredInv'
        BY <2>2, ClientConnStep, EntryConnStep, StartStep, RegisteredStep DEF OrderHyps
      <3>. QED
        BY <2>2, <3>1, <3>2, OrderStep, MisfitStep DEF OrderHyps
    <2>. QED
      BY <2>1, <2>2
  <1>. QED
    BY <1>1, OrderInitially, Invariance, PTL DEF Spec

(* No message ever finds its handler without a connection or its           *)
(* connection without the description it needs, though an offer is sent    *)
(* before m_clients has the entry its answer looks up, and three processes *)
(* pass the messages on: unless the relay lost one, a run of the server    *)
(* ended, or a client disconnected (network_server.cpp:162-180, 250-255).  *)
THEOREM NothingMisfits == Spec => []NoMisfits
  <1>1. OrderHyps /\ NoneMisfit => NoMisfits
    BY DEF NoneMisfit, Good, NoMisfits
  <1>. QED
    BY <1>1, OrderInvariance, PTL

(* After a disconnect that found a connection no offer makes the client    *)
(* another, for it was made only one, and that one took it                 *)
(* (network_client.cpp:106-112, 199-206).  Before the offer disconnect     *)
(* finds none and says nothing about what is to come.                      *)
THEOREM DisconnectIsFinal == Spec => []DisconnectFinal
  <1>1. OrderHyps => DisconnectFinal
    BY DEF OrderHyps, ClientConnInv, DisconnectFinal
  <1>. QED
    BY <1>1, OrderInvariance, PTL
-----------------------------------------------------------------------------
OfferWhole(s, c) ==
  Whole(clients[s][c].out, up[s], down[c], Paired(c), server[c].taken,
        Kind("offer", c), Kind("candidate", c),
        Kind("offer", ServerId), Kind("candidate", ServerId), Candidates)
AnswerWhole(s, c) ==
  Whole(Unsaid(c), up[c], down[s], clients[s][c].remote # Nobody, clients[s][c].taken,
        Kind("answer", ServerId), Kind("candidate", ServerId),
        Kind("answer", c), Kind("candidate", c), Candidates)

(* Nothing is missing on either way, if the two are there and nothing of   *)
(* what excuses them happened.                                             *)
WholeInv ==
  \A s \in Runs, c \in Clients : clients[s][c].made /\ Fine(s, c) /\ ws[c] # "gone" =>
    OfferWhole(s, c) /\ (Paired(c) => AnswerWhole(s, c))

(* No candidate is taken before there is a description.                    *)
TakenInv ==
  /\ \A c \in Clients : ~Paired(c) => server[c].taken = 0
  /\ \A s \in Runs, c \in Clients : clients[s][c].remote = Nobody => clients[s][c].taken = 0
-----------------------------------------------------------------------------
(* Which candidates a handler takes.                                       *)
LEMMA ClientCounts ==
  ASSUME Types, MessageInv, NEW c \in Clients, ClientReceive(c), NEW m, m = Head(down[c])
  PROVE  server'[c].taken =
           IF m.type = "candidate" /\ server[c].made /\ server[c].remote # Nobody
           THEN server[c].taken + 1 ELSE server[c].taken
  <1>. DEFINE pc == IF m.type = "offer" THEN [server[c] EXCEPT !.made = TRUE, !.stored = TRUE]
                                        ELSE server[c]
  <1>1. /\ m.type \in {"offer", "candidate"}
        /\ server \in [Clients -> Connection] /\ server[c] \in Connection
    BY ClientTakes DEF Types, ConnType, ForClient
  <1>2. IF m.type # "join" /\ pc.made /\ Accepts(pc, m)
          THEN server' = [server EXCEPT ![c] = Apply(pc, m, c)]
          ELSE UNCHANGED server
    BY Zenon DEF ClientReceive
  <1>3. CASE m.type = "offer"
    <2>1. pc.made /\ Accepts(pc, m) /\ pc.taken = server[c].taken /\ pc \in Connection
      BY <1>1, <1>3 DEF Connection, Accepts
    <2>. HIDE DEF pc
    <2>2. server' = [server EXCEPT ![c] = Apply(pc, m, c)]
      BY <1>2, <1>3, <2>1
    <2>3. server'[c] = [pc EXCEPT !.remote = m.of, !.out = @ \o Trickle("answer", m.id, c)]
      BY <1>1, <1>3, <2>2 DEF Apply
    <2>. QED
      BY <1>3, <2>1, <2>3 DEF Connection
  <1>4. CASE m.type = "candidate"
    <2>1. CASE server[c].made /\ server[c].remote # Nobody
      <3>1. server' = [server EXCEPT ![c] = [server[c] EXCEPT !.taken = @ + 1]]
        BY <1>2, <1>4, <2>1, Zenon DEF Accepts, Apply
      <3>. QED
        BY <1>1, <1>4, <2>1, <3>1 DEF Connection
    <2>2. CASE ~(server[c].made /\ server[c].remote # Nobody)
      <3>1. server' = server
        BY <1>2, <1>4, <2>2 DEF Accepts
      <3>. QED
        BY <2>2, <3>1
    <2>. QED
      BY <2>1, <2>2
  <1>. QED
    BY <1>1, <1>3, <1>4

LEMMA ServerCounts ==
  ASSUME Types, MessageInv, NEW s \in Runs, ServerReceive(s), NEW m, m = Head(down[s]),
         NEW c, c = m.id
  PROVE  clients'[s][c].taken =
           IF m.type = "candidate" /\ clients[s][c].stored /\ clients[s][c].remote # Nobody
           THEN clients[s][c].taken + 1 ELSE clients[s][c].taken
  <1>. DEFINE pc == clients[s][c]
  <1>1. /\ m.type \in {"join", "answer", "candidate"} /\ c \in Clients
        /\ clients \in [Runs -> [Clients -> Connection]] /\ pc \in Connection
    BY ServerTakes DEF Types, ConnType, ForServer
  <1>2. \/ /\ ~pc.stored
           /\ clients' = [clients EXCEPT ![s][c] =
                [pc EXCEPT !.made = TRUE, !.out = Trickle("offer", c, s)]]
        \/ /\ pc.stored
           /\ IF Accepts(pc, m)
                THEN clients' = [clients EXCEPT ![s][c] = Apply(pc, m, s)]
                ELSE UNCHANGED clients
        \/ ~pc.stored /\ UNCHANGED clients
    BY Zenon DEF ServerReceive
  <1>3. CASE /\ ~pc.stored
             /\ clients' = [clients EXCEPT ![s][c] =
                  [pc EXCEPT !.made = TRUE, !.out = Trickle("offer", c, s)]]
    <2>1. clients'[s][c] = [pc EXCEPT !.made = TRUE, !.out = Trickle("offer", c, s)]
      BY <1>1, <1>3
    <2>. QED
      BY <1>1, <1>3, <2>1 DEF Connection
  <1>4. CASE /\ pc.stored
             /\ IF Accepts(pc, m)
                  THEN clients' = [clients EXCEPT ![s][c] = Apply(pc, m, s)]
                  ELSE UNCHANGED clients
    <2>1. clients'[s][c] = IF Accepts(pc, m) THEN Apply(pc, m, s) ELSE pc
      BY <1>1, <1>4
    <2>2. Accepts(pc, m) <=>
            (m.type = "answer" => pc.remote = Nobody) /\ (m.type = "candidate" => pc.remote # Nobody)
      BY <1>1 DEF Accepts
    <2>. HIDE DEF pc
    <2>3. CASE m.type = "candidate"
      <3>1. Apply(pc, m, s) = [pc EXCEPT !.taken = @ + 1]
        BY <2>3 DEF Apply
      <3>. QED
        BY <1>1, <1>4, <2>1, <2>2, <2>3, <3>1 DEF Connection, pc
    <2>4. CASE m.type # "candidate"
      <3>1. Apply(pc, m, s) = pc \/ Apply(pc, m, s) = [pc EXCEPT !.remote = m.of]
        BY <1>1, <2>4 DEF Apply
      <3>2. clients'[s][c].taken = pc.taken
        BY <1>1, <2>1, <3>1 DEF Connection
      <3>. QED
        BY <2>4, <3>2 DEF pc
    <2>. QED
      BY <2>3, <2>4
  <1>. QED
    BY <1>2, <1>3, <1>4

(* No other step changes what a connection has taken.                      *)
LEMMA ClientTaken ==
  ASSUME Types, MessageInv, Next, NEW c \in Clients, ~ClientReceive(c), ~Closes(c)
  PROVE  server'[c].taken = server[c].taken
  <1>1. ASSUME ClientSend(c) PROVE server'[c].taken = server[c].taken
    <2>1. ClientChange(c, [server[c] EXCEPT !.out = Tail(@)])
      BY <1>1, Sends
    <2>. QED
      BY <2>1 DEF ClientChange, Types, ConnType, Connection
  <1>. QED
    BY <1>1, ClientOnly

LEMMA ServerTaken ==
  ASSUME Types, MessageInv, Next, NEW s \in Runs, NEW c \in Clients, ~ServerReceive(s)
  PROVE  clients'[s][c].taken = clients[s][c].taken
  <1>1. ASSUME NEW d \in Clients, ServerSend(s, d) PROVE clients'[s][c].taken = clients[s][c].taken
    <2>1. EntryChange(s, d, [clients[s][d] EXCEPT !.out = Tail(@)])
      BY <1>1, Sends
    <2>2. clients[s][d] \in Connection
      BY DEF Types, ConnType
    <2>3. clients'[s][d].taken = clients[s][d].taken
      BY <2>1, <2>2 DEF EntryChange, Connection
    <2>. QED
      BY <2>1, <2>3 DEF EntryChange
  <1>2. ASSUME Store(s) PROVE clients'[s][c].taken = clients[s][c].taken
    <2>1. /\ storing[s] \in Clients
          /\ EntryChange(s, storing[s], [clients[s][storing[s]] EXCEPT !.stored = TRUE])
      BY <1>2, Stores
    <2>. DEFINE d == storing[s]
    <2>2. clients[s][d] \in Connection
      BY <2>1 DEF Types, ConnType
    <2>3. clients'[s][d].taken = clients[s][d].taken
      BY <2>1, <2>2 DEF EntryChange, Connection
    <2>. QED
      BY <2>1, <2>3 DEF EntryChange
  <1>. QED
    BY <1>1, <1>2, EntryOnly

LEMMA TakenStep ==
  ASSUME OrderHyps, TakenInv, Next
  PROVE  TakenInv'
  <1>0. Types /\ MessageInv
    BY DEF OrderHyps, IInv
  <1>1. ASSUME NEW c \in Clients, ~Paired(c)' PROVE server'[c].taken = 0
    <2>1. ~Closes(c)
      BY <1>0, <1>1, DisconnectEffect DEF Paired
    <2>2. CASE ClientReceive(c)
      <3>. DEFINE m == Head(down[c])
      <3>1. m.type # "offer"
        <4>1. ForClient(m, c) /\ (m.type = "offer" => server'[c].remote = m.of)
          BY <1>0, <2>2, ClientTakes
        <4>. QED
          BY <1>1, <4>1, IdTypes DEF ForClient, Paired
      <3>2. server'[c].remote = server[c].remote /\ server'[c].closed = server[c].closed
        BY <1>0, <2>2, <3>1, ClientTakes
      <3>3. ~Paired(c) /\ server[c].remote = Nobody
        BY <1>1, <3>2 DEF Paired
      <3>4. server'[c].taken = server[c].taken
        BY <1>0, <2>2, <3>3, ClientCounts
      <3>. QED
        BY <3>3, <3>4 DEF TakenInv
    <2>3. CASE ~ClientReceive(c)
      <3>1. server'[c].taken = server[c].taken
        BY <1>0, <2>1, <2>3, ClientTaken
      <3>2. ~Paired(c)
        <4>1. server'[c] = server[c] \/ ClientSend(c)
          BY <1>0, <2>1, <2>3, ClientOnly
        <4>. QED
          BY <1>0, <1>1, <4>1, ClientSends DEF Paired
      <3>. QED
        BY <3>1, <3>2 DEF TakenInv
    <2>. QED
      BY <2>2, <2>3
  <1>2. ASSUME NEW s \in Runs, NEW c \in Clients, clients'[s][c].remote = Nobody
        PROVE  clients'[s][c].taken = 0
    <2>1. clients[s][c].remote = Nobody /\ clients'[s][c].taken = clients[s][c].taken
      <3>1. CASE ServerReceive(s) /\ Head(down[s]).id = c
        <4>1. /\ c # Nobody
              /\ \/ clients'[s][c].remote = clients[s][c].remote
                 \/ clients'[s][c].remote = c
          BY <1>0, <3>1, ServerTakes, IdTypes
        <4>2. clients[s][c].remote = Nobody
          BY <1>2, <4>1
        <4>. QED
          BY <1>0, <3>1, <4>2, ServerCounts
      <3>2. CASE ServerReceive(s) /\ Head(down[s]).id # c
        BY <1>0, <1>2, <3>2, ServerTakes
      <3>3. CASE ~ServerReceive(s)
        <4>1. clients'[s][c].taken = clients[s][c].taken
          BY <1>0, <3>3, ServerTaken
        <4>2. clients'[s][c].remote = clients[s][c].remote
          <5>1. ASSUME Store(s) PROVE clients'[s][c].remote = clients[s][c].remote
            BY <1>0, <5>1, StoreEffect
          <5>2. ASSUME NEW d \in Clients, ServerSend(s, d)
                PROVE  clients'[s][c].remote = clients[s][c].remote
            BY <1>0, <5>2, ServerSends
          <5>. QED
            BY <1>0, <3>3, <5>1, <5>2, EntryOnly
        <4>. QED
          BY <1>2, <4>1, <4>2
      <3>. QED
        BY <3>1, <3>2, <3>3
    <2>. QED
      BY <2>1 DEF TakenInv
  <1>. QED
    BY <1>1, <1>2, Zenon DEF TakenInv
-----------------------------------------------------------------------------
(* How the wire down to a peer can change.                                 *)
LEMMA DownMoves ==
  ASSUME Types, MessageInv, Next, NEW p \in Peers
  PROVE  \/ down'[p] = down[p]
         \/ \E m \in Messages : down'[p] = Append(down[p], m)
         \/ p \in Clients /\ ClientReceive(p)
         \/ p \in Runs /\ ServerReceive(p)
         \/ ws'[p] = "gone"
  <1>. DEFINE Goal == \/ down'[p] = down[p]
                      \/ \E m \in Messages : down'[p] = Append(down[p], m)
                      \/ p \in Clients /\ ClientReceive(p)
                      \/ p \in Runs /\ ServerReceive(p)
                      \/ ws'[p] = "gone"
  <1>1. ASSUME NEW q \in Peers, RelayForward(q) PROVE Goal
    <2>. DEFINE t == entry[Head(up[q]).id]
                n == Msg(Head(up[q]).type, IdOf(q), Head(up[q]).of)
    <2>1. /\ n \in Messages /\ down'[t] = Append(down[t], n)
          /\ \A r \in Peers : r # t => down'[r] = down[r]
      BY <1>1, Forwards
    <2>. HIDE DEF t, n
    <2>. QED
      BY <2>1
  <1>2. ASSUME NEW q \in Peers, RelayFails(q) \/ RelayTeardown(q) PROVE Goal
    <2>1. down' = [down EXCEPT ![q] = <<>>] /\ ws'[q] = "gone"
      BY <1>2 DEF RelayFails, RelayTeardown, Evict, Types, FlagType
    <2>. QED
      BY <2>1 DEF Types, WireType
  <1>3. ASSUME NEW c \in Clients, ClientReceive(c) PROVE Goal
    BY <1>3, ClientTakes
  <1>4. ASSUME NEW s \in Runs, ServerReceive(s) PROVE Goal
    <2>1. UNCHANGED down \/ down' = [down EXCEPT ![s] = Tail(@)]
      BY <1>4, ServerTakes
    <2>. QED
      BY <1>4, <2>1 DEF Types, WireType
  <1>5. UNCHANGED down => Goal
    OBVIOUS
  <1>. HIDE DEF Goal
  <1>6. Goal
    BY Steps, <1>1, <1>2, <1>3, <1>4, <1>5, Zenon
    DEF Open, Opened, OnOpen, EndWait, Leave, RelayRegister, RelayDrop, RelayLose, ClientSend,
        Disconnect, Store, ServerSend, peerVars
  <1>. QED
    BY <1>6 DEF Goal

(* Both ends take every candidate that comes, because it comes after what  *)
(* it belongs to.                                                          *)
LEMMA OfferArrives ==
  ASSUME OrderHyps, Next, NEW s \in Runs, NEW c \in Clients, clients[s][c].made,
         Fine(s, c)', ws'[c] # "gone"
  PROVE  Arrival(Messages, down[c], server[c].taken, down'[c], server'[c].taken,
                 Kind("candidate", ServerId))
  <1>. DEFINE m == Head(down[c])
              R == Kind("offer", ServerId)
              U == Kind("candidate", ServerId)
  <1>0. /\ Types /\ MessageInv /\ c \in Peers /\ Fine(s, c) /\ ws[c] # "gone"
        /\ down[c] \in Seq(Messages)
    BY FineBefore, WsMoves, IdTypes DEF OrderHyps, IInv, Types, WireType
  <1>1. CASE ClientReceive(c)
    <2>1. /\ m \in Messages /\ ForClient(m, c) /\ down[c] # <<>> /\ down'[c] = Tail(down[c])
      BY <1>0, <1>1, ClientTakes
    <2>2. m \in U <=> m.type = "candidate"
      BY <2>1 DEF ForClient, Kind
    <2>3. ASSUME m \in U PROVE server[c].made /\ server[c].remote # Nobody
      <3>1. Paired(c) \/ Led(down[c], R, U)
        BY <1>0 DEF OrderHyps, OrderInv, OfferFirst, InOrder
      <3>2. ~Led(down[c], R, U)
        BY <1>0, <2>1, <2>3, OnTail
      <3>. QED
        BY <1>0, <3>1, <3>2 DEF Paired, Fine, OrderHyps, ClientConnInv
    <2>4. server'[c].taken = IF m \in U THEN server[c].taken + 1 ELSE server[c].taken
      BY <1>0, <1>1, <2>2, <2>3, ClientCounts
    <2>. QED
      BY <2>1, <2>4 DEF Arrival
  <1>2. CASE ~ClientReceive(c)
    <2>1. server'[c].taken = server[c].taken
      <3>1. ~Closes(c)
        BY <1>0, DisconnectEffect DEF Fine
      <3>. QED
        BY <1>0, <1>2, <3>1, ClientTaken
    <2>2. down'[c] = down[c] \/ \E n \in Messages : down'[c] = Append(down[c], n)
      BY <1>0, <1>2, DownMoves, JoinAssumption
    <2>. QED
      BY <2>1, <2>2 DEF Arrival
  <1>. QED
    BY <1>1, <1>2

LEMMA AnswerArrives ==
  ASSUME OrderHyps, Next, NEW s \in Runs, NEW c \in Clients, clients[s][c].made, Fine(s, c)'
  PROVE  Arrival(Messages, down[s], clients[s][c].taken, down'[s], clients'[s][c].taken,
                 Kind("candidate", c))
  <1>. DEFINE m == Head(down[s])
              R == Kind("answer", c)
              U == Kind("candidate", c)
              n == clients[s][c].taken
              k == clients'[s][c].taken
  <1>0. /\ Types /\ MessageInv /\ s \in Peers /\ c # Nobody /\ Fine(s, c)
        /\ down[s] \in Seq(Messages)
    BY FineBefore, IdTypes DEF OrderHyps, IInv, Types, WireType
  <1>1. CASE ServerReceive(s)
    <2>1. /\ m \in Messages /\ down[s] # <<>> /\ storing[s] = Nobody
          /\ \/ m.type = "join" /\ down'[s] = down[s]
             \/ down'[s] = Tail(down[s])
      <3>1. /\ m \in Messages /\ down[s] # <<>> /\ storing[s] = Nobody
            /\ \/ m.type = "join" /\ UNCHANGED down
               \/ down' = [down EXCEPT ![s] = Tail(@)]
        BY <1>0, <1>1, ServerTakes
      <3>. QED
        BY <1>0, <3>1 DEF Types, WireType
    <2>2. m \in U <=> m.type = "candidate" /\ m.id = c
      BY <2>1 DEF Kind
    <2>3. ASSUME m \in U PROVE clients[s][c].stored /\ clients[s][c].remote # Nobody
      <3>1. clients[s][c].remote # Nobody \/ Led(down[s], R, U)
        BY <1>0 DEF OrderHyps, OrderInv, AnswerFirst, InOrder
      <3>2. ~Led(down[s], R, U)
        BY <1>0, <2>1, <2>3, OnTail
      <3>3. clients[s][c].stored
        BY <1>0, <2>1 DEF OrderHyps, EntryConnInv
      <3>. QED
        BY <3>1, <3>2, <3>3
    <2>4. k = IF m \in U THEN n + 1 ELSE n
      <3>1. CASE m.id = c
        BY <1>0, <1>1, <2>2, <2>3, <3>1, ServerCounts
      <3>2. CASE m.id # c
        <4>1. clients'[s][c] = clients[s][c]
          BY <1>0, <1>1, <3>2, ServerTakes
        <4>. QED
          BY <2>2, <3>2, <4>1
      <3>. QED
        BY <3>1, <3>2
    <2>. QED
      BY <2>1, <2>2, <2>4 DEF Arrival
  <1>2. CASE ~ServerReceive(s)
    <2>1. k = n
      BY <1>0, <1>2, ServerTaken
    <2>2. down'[s] = down[s] \/ \E a \in Messages : down'[s] = Append(down[s], a)
      BY <1>0, <1>2, DownMoves, JoinAssumption DEF Fine
    <2>. QED
      BY <2>1, <2>2 DEF Arrival
  <1>. QED
    BY <1>1, <1>2
-----------------------------------------------------------------------------
(* What a connection has to send when it is made: all there is.            *)
LEMMA TrickleWhole ==
  ASSUME NEW type \in MsgTypes \ {"candidate"}, NEW id \in Ids, NEW of \in Peers
  PROVE  /\ Has(Trickle(type, id, of), Kind(type, id))
         /\ Count(Trickle(type, id, of), Kind("candidate", id)) = Candidates
  <1>. DEFINE q == Trickle(type, id, of)
              A == {i \in DOMAIN q : q[i] \in Kind("candidate", id)}
  <1>1. /\ Candidates \in Nat /\ DOMAIN q = 1 .. Candidates + 1
        /\ \A i \in DOMAIN q : q[i] = Msg(IF i = 1 THEN type ELSE "candidate", id, of)
    BY JoinAssumption DEF Trickle
  <1>2. /\ Msg(type, id, of) \in Kind(type, id)
        /\ Msg(type, id, of) \notin Kind("candidate", id)
        /\ Msg("candidate", id, of) \in Kind("candidate", id)
    BY MsgTyped DEF Msg, Kind, MsgTypes, RelayTypes
  <1>. HIDE DEF q
  <1>3. 1 \in DOMAIN q /\ q[1] \in Kind(type, id)
    BY <1>1, <1>2
  <1>4. A = 2 .. Candidates + 1
    BY <1>1, <1>2
  <1>5. Cardinality(2 .. Candidates + 1) = Candidates
    BY <1>1, FS_Interval
  <1>. QED
    BY <1>3, <1>4, <1>5 DEF Has, Count, q

(* A step keeps each of the two ways whole.                                *)
LEMMA OfferWholeStep ==
  ASSUME OrderHyps, WholeInv, Next, NEW s \in Runs, NEW c \in Clients, clients[s][c].made,
         Fine(s, c)', ws'[c] # "gone"
  PROVE  OfferWhole(s, c)'
  <1>. DEFINE S == Kind("offer", c)
              T == Kind("candidate", c)
              R == Kind("offer", ServerId)
              U == Kind("candidate", ServerId)
              q == clients[s][c].out
              r == clients'[s][c].out
              d == Paired(c)
              e == Paired(c)'
              n == server[c].taken
              k == server'[c].taken
  <1>1. Fine(s, c) /\ ws[c] # "gone"
    BY FineBefore, WsMoves, IdTypes DEF OrderHyps, IInv
  <1>2. Whole(q, up[s], down[c], d, n, S, T, R, U, Candidates)
    BY <1>1 DEF WholeInv, OfferWhole
  <1>3. Flow(Messages, q, up[s], down[c], d, r, up'[s], down'[c], e, S, T, R, U)
    BY OfferMoves DEF OfferFlow
  <1>4. Arrival(Messages, down[c], n, down'[c], k, U)
    BY OfferArrives
  <1>. SUFFICES Whole(r, up'[s], down'[c], e, k, S, T, R, U, Candidates)
    BY DEF OfferWhole, Kind
  <1>. HIDE DEF S, T, R, U, q, r, d, e, n, k
  <1>. QED
    BY <1>2, <1>3, <1>4, StaysWhole

LEMMA AnswerWholeStep ==
  ASSUME OrderHyps, WholeInv, TakenInv, Next, NEW s \in Runs, NEW c \in Clients,
         clients[s][c].made, Fine(s, c)', ws'[c] # "gone", Paired(c)'
  PROVE  AnswerWhole(s, c)'
  <1>. DEFINE S == Kind("answer", ServerId)
              T == Kind("candidate", ServerId)
              R == Kind("answer", c)
              U == Kind("candidate", c)
              q == Unsaid(c)
              r == Unsaid(c)'
              d == clients[s][c].remote # Nobody
              e == clients'[s][c].remote # Nobody
              n == clients[s][c].taken
              k == clients'[s][c].taken
  <1>1. Fine(s, c) /\ ws[c] # "gone"
    BY FineBefore, WsMoves, IdTypes DEF OrderHyps, IInv
  <1>. SUFFICES Whole(r, up'[c], down'[s], e, k, S, T, R, U, Candidates)
    BY DEF AnswerWhole, Kind
  <1>2. CASE Paired(c)
    <2>1. Whole(q, up[c], down[s], d, n, S, T, R, U, Candidates)
      BY <1>1, <1>2 DEF WholeInv, AnswerWhole
    <2>2. Flow(Messages, q, up[c], down[s], d, r, up'[c], down'[s], e, S, T, R, U)
      BY <1>2, AnswerMoves DEF AnswerFlow, AnswerStart
    <2>3. Arrival(Messages, down[s], n, down'[s], k, U)
      BY AnswerArrives
    <2>. HIDE DEF S, T, R, U, q, r, d, e, n, k
    <2>. QED
      BY <2>1, <2>2, <2>3, StaysWhole
  <1>3. CASE ~Paired(c)
    <2>1. /\ r = Trickle("answer", ServerId, c)
          /\ UNCHANGED <<up, clients>> /\ down'[s] = down[s]
      BY <1>3, AnswerStarts DEF AnswerStart
    <2>2. clients[s][c].remote = Nobody /\ ~Has(up[c], T) /\ ~Has(down[s], U)
      BY <1>3, Unanswered DEF OrderHyps
    <2>3. Has(r, S) /\ Count(r, T) = Candidates
      BY <2>1, TrickleWhole, IdTypes DEF MsgTypes, RelayTypes
    <2>4. k = 0 /\ up'[c] = up[c]
      BY <2>1, <2>2 DEF TakenInv
    <2>5. Candidates \in Nat
      BY JoinAssumption
    <2>. HIDE DEF S, T, R, U, q, r, d, e, n, k
    <2>6. Whole(r, up[c], down[s], e, 0, S, T, R, U, Candidates)
      BY <2>2, <2>3, <2>5, WholeAtStart
    <2>. QED
      BY <2>1, <2>4, <2>6
  <1>. QED
    BY <1>2, <1>3

LEMMA WholeStep ==
  ASSUME OrderHyps, TakenInv, WholeInv, Next
  PROVE  WholeInv'
  <1>. SUFFICES ASSUME NEW s \in Runs, NEW c \in Clients,
                       clients'[s][c].made, Fine(s, c)', ws'[c] # "gone"
                PROVE  OfferWhole(s, c)' /\ (Paired(c)' => AnswerWhole(s, c)')
    BY Zenon DEF WholeInv
  <1>1. CASE clients[s][c].made
    BY <1>1, OfferWholeStep, AnswerWholeStep
  <1>2. CASE ~clients[s][c].made
    <2>. DEFINE q == Trickle("offer", c, s)
                S == Kind("offer", c)
                T == Kind("candidate", c)
                R == Kind("offer", ServerId)
                U == Kind("candidate", ServerId)
    <2>1. /\ ~Paired(c) /\ ~Paired(c)' /\ UNCHANGED <<up, down, ws, server>>
          /\ clients'[s][c].out = q /\ ~Has(up[s], T) /\ ~Has(down[c], U)
      BY <1>2, MadeNew
    <2>2. Has(q, S) /\ Count(q, T) = Candidates
      BY TrickleWhole, IdTypes DEF MsgTypes, RelayTypes
    <2>3. server[c].taken = 0 /\ Candidates \in Nat
      BY <2>1, JoinAssumption DEF TakenInv
    <2>. HIDE DEF q, S, T, R, U
    <2>4. Whole(q, up[s], down[c], Paired(c)', 0, S, T, R, U, Candidates)
      BY <2>1, <2>2, <2>3, WholeAtStart
    <2>5. OfferWhole(s, c)'
      BY <2>1, <2>3, <2>4 DEF OfferWhole, Kind, S, T, R, U
    <2>. QED
      BY <2>1, <2>5
  <1>. QED
    BY <1>1, <1>2

LEMMA WholeInitially == Init => TakenInv /\ WholeInv
  BY DEF Init, NoConnection, TakenInv, WholeInv

(* Of a connection nothing is missing: its description is with a callback, *)
(* on a wire or taken, and so is each of its candidates, as long as the    *)
(* relay loses nothing and neither of the two is gone; what it has taken   *)
(* and what is under way add up to all there are (network_server.cpp:      *)
(* 162-180, 250-255, network_client.cpp:106-124).                          *)
THEOREM WholeInvariance == Spec => [](TakenInv /\ WholeInv)
  <1>1. OrderHyps /\ TakenInv /\ WholeInv /\ [Next]_vars => (TakenInv /\ WholeInv)'
    <2>1. CASE UNCHANGED vars
      <3>1. up' = up /\ down' = down /\ ws' = ws /\ clients' = clients /\ server' = server
        BY <2>1 DEF vars, peerVars
      <3>2. \A s \in Runs, c \in Clients :
              /\ Paired(c)' = Paired(c) /\ Unsaid(c)' = Unsaid(c)
              /\ (Paired(c)' <=> Paired(c)) /\ (Fine(s, c)' <=> Fine(s, c))
        BY <2>1 DEF vars, peerVars, Paired, Unsaid, Fine
      <3>3. TakenInv => TakenInv'
        BY <2>1, Zenon DEF vars, peerVars, TakenInv, Paired
      <3>4. ASSUME WholeInv PROVE WholeInv'
        <4>. SUFFICES ASSUME NEW s \in Runs, NEW c \in Clients,
                             clients'[s][c].made, Fine(s, c)', ws'[c] # "gone"
                      PROVE  OfferWhole(s, c)' /\ (Paired(c)' => AnswerWhole(s, c)')
          BY Zenon DEF WholeInv
        <4>1. clients[s][c].made /\ Fine(s, c) /\ ws[c] # "gone"
          BY <3>1, <3>2
        <4>2. OfferWhole(s, c) /\ (Paired(c) => AnswerWhole(s, c))
          BY <3>4, <4>1 DEF WholeInv
        <4>3. OfferWhole(s, c)'
          BY <3>1, <3>2, <4>2 DEF OfferWhole, Kind
        <4>4. Paired(c)' => AnswerWhole(s, c)'
          BY <3>1, <3>2, <4>2 DEF AnswerWhole, Kind
        <4>. QED
          BY <4>3, <4>4
      <3>. QED
        BY <3>3, <3>4
    <2>2. CASE Next
      BY <2>2, TakenStep, WholeStep
    <2>. QED
      BY <2>1, <2>2
  <1>. QED
    BY <1>1, WholeInitially, OrderInvariance, PTL DEF Spec

(* A connection for which nothing is on its way any more has the remote    *)
(* description and all the remote candidates at both ends, unless the      *)
(* relay lost a message, one of the two is gone, or the client             *)
(* disconnected (network_server.cpp:162-180, 250-255,                      *)
(* network_client.cpp:106-124).                                            *)
THEOREM EverythingArrives == Spec => []NothingMissing
  <1>1. ASSUME OrderHyps, WholeInv PROVE NothingMissing
    <2>. SUFFICES ASSUME NEW s \in Runs, NEW c \in Clients,
                         clients[s][c].made, Settled(s, c), ~Excused(s, c)
                  PROVE  Complete(s, c)
      BY DEF NothingMissing
    <2>1. /\ Fine(s, c) /\ ws[c] # "gone" /\ Unsaid(c) = <<>>
          /\ clients[s][c].out = <<>> /\ up[c] = <<>> /\ down[c] = <<>>
      BY DEF Excused, Fine, Settled, Unsaid
    <2>2. ASSUME NEW type PROVE ~Has(up[s], Kind(type, c)) /\ ~Has(down[s], Kind(type, c))
      <3>1. up[s] \in Seq(Messages) /\ down[s] \in Seq(Messages)
        BY <1>1, IdTypes DEF OrderHyps, IInv, Types, WireType
      <3>2. \A m \in ToSet(up[s]) \cup ToSet(down[s]) : m \notin Kind(type, c)
        BY DEF Settled, Kind
      <3>. QED
        BY <3>1, <3>2, HasElement
    <2>3. Paired(c) /\ server[c].taken = Candidates
      <3>. DEFINE S == Kind("offer", c)
                  T == Kind("candidate", c)
                  R == Kind("offer", ServerId)
                  U == Kind("candidate", ServerId)
      <3>1. Whole(<<>>, up[s], <<>>, Paired(c), server[c].taken, S, T, R, U, Candidates)
        BY <1>1, <2>1 DEF WholeInv, OfferWhole
      <3>2. ~Has(up[s], S) /\ ~Has(up[s], T)
        BY <2>2
      <3>. HIDE DEF S, T, R, U
      <3>3. ~Has(<<>>, S) /\ ~Has(<<>>, T) /\ ~Has(<<>>, R) /\ ~Has(<<>>, U)
        BY OnEmpty
      <3>. QED
        BY <3>1, <3>2, <3>3, WholeAtEnd
    <2>4. clients[s][c].remote # Nobody /\ clients[s][c].taken = Candidates
      <3>. DEFINE S == Kind("answer", ServerId)
                  T == Kind("candidate", ServerId)
                  R == Kind("answer", c)
                  U == Kind("candidate", c)
                  d == clients[s][c].remote # Nobody
      <3>1. Whole(<<>>, <<>>, down[s], d, clients[s][c].taken, S, T, R, U, Candidates)
        BY <1>1, <2>1, <2>3 DEF WholeInv, AnswerWhole
      <3>2. ~Has(down[s], R) /\ ~Has(down[s], U)
        BY <2>2
      <3>. HIDE DEF S, T, R, U, d
      <3>3. ~Has(<<>>, S) /\ ~Has(<<>>, T)
        BY OnEmpty
      <3>4. d /\ clients[s][c].taken = Candidates
        BY <3>1, <3>2, <3>3, WholeAtEnd
      <3>. QED
        BY <3>4 DEF d
    <2>5. clients[s][c].remote = c /\ (server[c].remote = s \/ server[c].closed)
      BY <1>1, <2>4, Pairs DEF OrderHyps, DescriptionsPaired
    <2>. QED
      BY <2>1, <2>3, <2>4, <2>5 DEF Fine, Complete
  <1>. QED
    BY <1>1, WholeInvariance, OrderInvariance, PTL
=============================================================================
