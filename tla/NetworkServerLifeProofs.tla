----------------------- MODULE NetworkServerLifeProofs -----------------------
(***************************************************************************)
(* Proofs about NetworkServerLife, for every set of players and every      *)
(* number of starts: its types and who holds the mutex, that threads are   *)
(* joined, that nothing undefined happens in a server started once and not *)
(* stopped, when a callback meets a dead promise, what the second look-up  *)
(* finds, and that no join is lost.  Liveness stays with TLC.              *)
(***************************************************************************)
EXTENDS NetworkServerLife, TLAPS

(* The owner's flags agree, and no thread is ahead of its start.           *)
OwnerInv ==
  /\ running <=> owner = "running"
  /\ starts = 0 => owner = "idle"
  /\ \A g \in Gens : g > starts => net[g] = "none"

(* How far the network thread is tells what its websocket and its promise  *)
(* can be; a wait that ends with the websocket still connecting is late.   *)
StageInv ==
  \A g \in Gens :
    /\ net[g] \in {"none", "assigning", "opening"} => sock[g] = "none"
    /\ net[g] = "opening" => promise[g] = "unset"
    /\ net[g] = "waiting" => promise[g] \in {"unset", "set"}
    /\ net[g] \notin {"none", "assigning"} => current # 0
    /\ sock[g] = "connecting" => \/ promise[g] = "unset"
                                 \/ promise[g] = "dead" /\ g \in late

(* Only a websocket that has opened has a handler at work.                 *)
HandInv ==
  /\ holder # 0 => sock[holder] = "open"
  /\ \A g \in Gens :
       inbox[g] # <<>> \/ hand[g] # Idle => sock[g] \in {"open", "closed"}

(* m_signallingWebsocket is set before any handler captures it.            *)
OfferInv == \A p \in Players : <<p, 0>> \notin offers

(* What is kept of player p's join: in the handler's inbox, at work in the *)
(* handler, as an offer still to be sent, or as the entry of m_clients.    *)
Has(box, p) == \E i \in DOMAIN box : box[i] = [type |-> "join", from |-> p]
Once(box, p) ==
  \A i, j \in DOMAIN box :
    box[i] = [type |-> "join", from |-> p] /\ box[j] = [type |-> "join", from |-> p] => i = j
Busy(h, p) == h.for = p /\ h.at \in {"making", "storing", "locked"}

Kept(box, h, entry, unsent, at, p) ==
  /\ Once(box, p)
  /\ Has(box, p) => entry = 0 /\ ~Busy(h, p)
  /\ at = "out" => ~Has(box, p) /\ ~Busy(h, p) /\ entry = 0 /\ <<p, 1>> \notin unsent
  /\ at = "joined" => \/ Has(box, p) \/ <<p, 1>> \in unsent
                      \/ h.for = p /\ h.at = "making"
  /\ at # "out" => Has(box, p) \/ Busy(h, p) \/ entry = 1

(* A server not started more than once and not stopped, whose websocket    *)
(* was not closed: the relay has it once it is open, its number is the     *)
(* only one about, and every join is kept.                                 *)
Undisturbed == sock[1] # "closed" /\ (starts = 0 \/ (starts = 1 /\ running))

OnlyOne ==
  /\ current \in {0, 1}
  /\ holder = IF sock[1] = "open" THEN 1 ELSE 0
  /\ \A p \in Players, g \in 0 .. Starts : <<p, g>> \in offers => g = 1 /\ sock[1] = "open"

KeptInv ==
  Undisturbed =>
    /\ OnlyOne
    /\ \A p \in Players : Kept(inbox[1], hand[1], clients[p], offers, player[p], p)

(* A player's join is in one place, and one handler serves it, whatever    *)
(* number of websockets are about: until the player has joined nothing is  *)
(* there for it, while the join waits no handler serves it, and a handler  *)
(* that has not stored its connection finds no other in m_clients.         *)
Serves(h, p) == h.for = p /\ h.at # "idle"

Sole(boxes, hands, entry, at, p) ==
  /\ \A g \in Gens : Once(boxes[g], p)
  /\ \A g, h \in Gens : Has(boxes[g], p) /\ Has(boxes[h], p) => g = h
  /\ \A g, h \in Gens : Has(boxes[g], p) => entry = 0 /\ ~Serves(hands[h], p)
  /\ \A g, h \in Gens : Serves(hands[g], p) /\ Serves(hands[h], p) => g = h
  /\ \A g \in Gens : Serves(hands[g], p) /\ hands[g].at # "finding" => entry = 0
  /\ at = "out" => /\ entry = 0
                   /\ \A g \in Gens : ~Has(boxes[g], p) /\ ~Serves(hands[g], p)

SoleInv == \A p \in Players : Sole(inbox, hand, clients[p], player[p], p)

IInv ==
  /\ TypeOK /\ OwnerInv /\ ThreadJoined /\ StageInv /\ HandInv /\ OfferInv
  /\ DanglingOnlyLate /\ SafeWhileRunning /\ FindsEntry
  /\ SoleInv /\ KeptInv
-----------------------------------------------------------------------------
(* Every step is a step of one of the actions, and nothing undefined has   *)
(* happened before it.                                                     *)
LEMMA Steps ==
  ASSUME Next
  PROVE  /\ undefined # TRUE
         /\ \/ Start \/ Stop \/ StopJoined \/ StopCleared \/ Destroy
            \/ \E g \in Gens : Assign(g)
            \/ \E g \in Gens : OpenSocket(g)
            \/ \E g \in Gens : WaitEnds(g)
            \/ \E g \in Gens : LoopEnds(g)
            \/ \E g \in Gens : OnOpen(g)
            \/ \E g \in Gens : OnError(g)
            \/ \E g \in Gens : OnClosed(g)
            \/ \E g \in Gens : Lookup(g)
            \/ \E g \in Gens : Make(g)
            \/ \E g \in Gens : Lock(g)
            \/ \E g \in Gens : Store(g)
            \/ \E g \in Gens : Find(g)
            \/ \E p \in Players : PlayerSends(p)
            \/ \E p \in Players, g \in 0 .. Starts : SendOffer(p, g)
            \/ \E p \in Players : OpenChannel(p)
            \/ \E p \in Players : ChannelLock(p)
            \/ \E p \in Players : ChannelAttach(p)
  BY Zenon DEF Next, NetworkThread, Callback, Handler, OnDataChannel

LEMMA Initially == Init => IInv
  <1>. SUFFICES ASSUME Init PROVE IInv
    OBVIOUS
  <1>. USE LifeAssumption DEF Init, Gens, Owner, Channel, Idle, At
  <1>0. running \in BOOLEAN /\ dangling \in BOOLEAN /\ undefined \in BOOLEAN
    BY Zenon
  <1>1. OwnerType /\ NetType
    BY <1>0 DEF OwnerType, NetType
  <1>2. WireType
    <2>1. <<>> \in Seq(Messages)
      OBVIOUS
    <2>. QED
      BY <2>1 DEF WireType
  <1>3. HandType /\ MutexExact
    BY DEF HandType, MutexExact
  <1>4. OwnerInv /\ ThreadJoined /\ StageInv /\ HandInv
    BY DEF OwnerInv, ThreadJoined, StageInv, HandInv
  <1>5. OfferInv /\ DanglingOnlyLate /\ SafeWhileRunning /\ FindsEntry
    BY DEF OfferInv, DanglingOnlyLate, SafeWhileRunning, FindsEntry
  <1>6. KeptInv
    BY DEF KeptInv, OnlyOne, Kept, Has, Once, Busy
  <1>7. SoleInv
    <2>1. ASSUME NEW p \in Players PROVE Sole(inbox, hand, clients[p], player[p], p)
      <3>1. clients[p] = 0 /\ \A g \in Gens : ~Has(inbox[g], p) /\ ~Serves(hand[g], p) /\ Once(inbox[g], p)
        BY DEF Serves, Has, Once
      <3>. QED
        BY <3>1, Zenon DEF Sole
    <2>. QED
      BY <2>1, Zenon DEF SoleInv
  <1>. QED
    BY <1>1, <1>2, <1>3, <1>4, <1>5, <1>6, <1>7 DEF IInv, TypeOK

(* A handler at work belongs to a start that has happened, and that has    *)
(* set m_signallingWebsocket.                                              *)
LEMMA AtWork ==
  ASSUME TypeOK, OwnerInv, StageInv, HandInv, NEW g \in Gens, hand[g] # Idle \/ inbox[g] # <<>>
  PROVE  g <= starts /\ current # 0 /\ net[g] \notin {"none", "assigning", "opening"}
  <1>1. sock[g] \in {"open", "closed"}
    BY DEF HandInv
  <1>2. net[g] \notin {"none", "assigning", "opening"} /\ current # 0
    BY <1>1 DEF StageInv
  <1>. QED
    BY <1>2, LifeAssumption DEF TypeOK, OwnerType, OwnerInv, Gens

(* The types, one group of variables at a time.                            *)
LEMMA OwnerTypeStep == ASSUME OwnerType, Next PROVE OwnerType'
  <1>1. CASE UNCHANGED ownerVars
    BY <1>1 DEF ownerVars, OwnerType
  <1>2. CASE Start \/ Stop \/ StopJoined \/ StopCleared \/ Destroy
    <2>1. running' \in BOOLEAN
      BY <1>2, Zenon DEF Start, Stop, StopJoined, StopCleared, Destroy, OwnerType
    <2>. QED
      BY <1>2, <2>1, LifeAssumption
      DEF Start, Stop, StopJoined, StopCleared, Destroy, OwnerType
  <1>. QED
    BY Steps, <1>1, <1>2, Zenon
    DEF Assign, OpenSocket, WaitEnds, LoopEnds, OnOpen, OnError, OnClosed, Lookup,
        Make, Lock, Store, Find, PlayerSends, SendOffer, OpenChannel, ChannelLock,
        ChannelAttach

LEMMA NetTypeStep == ASSUME TypeOK, Next PROVE NetType'
  <1>. USE LifeAssumption DEF TypeOK, OwnerType, NetType, Gens
  <1>1. CASE UNCHANGED <<netVars, current, undefined>>
    BY <1>1 DEF netVars
  <1>2. CASE Start
    BY <1>2 DEF Start
  <1>3. ASSUME NEW g \in Gens, Assign(g) PROVE NetType'
    <2>1. undefined' \in BOOLEAN
      BY <1>3, Zenon DEF Assign
    <2>. QED
      BY <1>3, <2>1 DEF Assign
  <1>4. ASSUME NEW g \in Gens, OpenSocket(g) \/ WaitEnds(g) \/ LoopEnds(g) PROVE NetType'
    BY <1>4 DEF OpenSocket, WaitEnds, LoopEnds
  <1>5. ASSUME NEW g \in Gens, OnOpen(g) \/ OnError(g) PROVE NetType'
    <2>1. dangling' \in BOOLEAN
      BY <1>5, Zenon DEF OnOpen, OnError, Fulfil
    <2>. QED
      BY <1>5, <2>1 DEF OnOpen, OnError, Fulfil
  <1>6. ASSUME UNCHANGED <<netVars, current>>, undefined' \in BOOLEAN PROVE NetType'
    BY <1>6 DEF netVars
  <1>. QED
    BY Steps, <1>1, <1>2, <1>3, <1>4, <1>5, <1>6, Zenon
    DEF Stop, StopJoined, StopCleared, Destroy, OnClosed, Lookup, Read, Make, Lock,
        Store, Find, PlayerSends, SendOffer, OpenChannel, ChannelLock, ChannelAttach

LEMMA WireTypeStep == ASSUME TypeOK, Next PROVE WireType'
  <1>. USE LifeAssumption DEF TypeOK, WireType, Gens
  <1>1. CASE UNCHANGED wireVars
    BY <1>1 DEF wireVars
  <1>2. ASSUME NEW g \in Gens, OpenSocket(g) \/ OnOpen(g) \/ OnError(g) \/ OnClosed(g)
        PROVE  WireType'
    <2>1. sock' \in [Gens -> {"none", "connecting", "open", "closed"}]
      BY <1>2 DEF OpenSocket, OnOpen, OnError, OnClosed
    <2>2. holder' \in 0 .. Starts
      BY <1>2 DEF OpenSocket, OnOpen, OnError, OnClosed
    <2>3. UNCHANGED <<inbox, player>>
      BY <1>2 DEF OpenSocket, OnOpen, OnError, OnClosed
    <2>. QED
      BY <2>1, <2>2, <2>3
  <1>3. ASSUME NEW g \in Gens, Lookup(g) PROVE WireType'
    <2>1. inbox[g] \in Seq(Messages) /\ inbox[g] # <<>>
      BY <1>3 DEF Lookup
    <2>2. Tail(inbox[g]) \in Seq(Messages)
      BY <2>1
    <2>3. player' \in [Players -> {"out", "joined", "offered", "answered", "connected"}]
      BY <1>3 DEF Lookup
    <2>. QED
      BY <1>3, <2>2, <2>3 DEF Lookup
  <1>4. ASSUME NEW p \in Players, PlayerSends(p) PROVE WireType'
    <2>1. PICK type \in {"join", "answer"} :
            inbox' = [inbox EXCEPT ![holder] = Append(@, [type |-> type, from |-> p])]
      BY <1>4 DEF PlayerSends, Deliver
    <2>2. holder \in Gens
      BY <1>4 DEF PlayerSends
    <2>3. [type |-> type, from |-> p] \in Messages
      BY DEF Messages
    <2>4. Append(inbox[holder], [type |-> type, from |-> p]) \in Seq(Messages)
      BY <2>2, <2>3
    <2>. QED
      BY <1>4, <2>1, <2>4 DEF PlayerSends
  <1>5. ASSUME NEW p \in Players, NEW g \in 0 .. Starts, SendOffer(p, g) PROVE WireType'
    BY <1>5 DEF SendOffer
  <1>. QED
    BY Steps, <1>1, <1>2, <1>3, <1>4, <1>5, Zenon
    DEF Start, Stop, StopJoined, StopCleared, Destroy, Assign, WaitEnds, LoopEnds,
        Make, Lock, Store, Find, OpenChannel, ChannelLock, ChannelAttach

(* A handler's next place.                                                 *)
LEMMA HandMoves ==
  ASSUME HandType, NEW g \in Gens, NEW at, NEW for,
         hand' = [hand EXCEPT ![g] = [at |-> at, for |-> for]],
         \/ at = "idle" /\ for = "nobody"
         \/ at \in {"making", "storing", "locked", "finding"} /\ for \in Players
  PROVE  /\ hand' \in [Gens -> [at : {"idle", "making", "storing", "locked", "finding"},
                                for : Players \cup {"nobody"}]]
         /\ \A h \in Gens : hand'[h] = Idle \/ (hand'[h].at # "idle" /\ hand'[h].for \in Players)
  BY DEF HandType, Idle

(* A handler that is somewhere is there for a player, and a handler that   *)
(* goes on is still there for the same one.                                *)
LEMMA HandOf ==
  ASSUME HandType, NEW g \in Gens, hand[g].at # "idle"
  PROVE  /\ hand[g].for \in Players
         /\ \A at : [hand EXCEPT ![g].at = at]
                     = [hand EXCEPT ![g] = [at |-> at, for |-> hand[g].for]]
  BY DEF HandType, Idle

(* What a handler takes from its inbox is a message of a player.           *)
LEMMA Message ==
  ASSUME TypeOK, NEW g \in Gens, inbox[g] # <<>>
  PROVE  Head(inbox[g]) \in Messages /\ Head(inbox[g]).from \in Players
  <1>1. inbox[g] \in Seq(Messages)
    BY DEF TypeOK, WireType
  <1>2. Head(inbox[g]) \in Messages
    BY <1>1
  <1>. QED
    BY <1>2 DEF Messages

LEMMA HandTypeStep == ASSUME TypeOK, Next PROVE HandType'
  <1>. USE LifeAssumption DEF TypeOK, HandType, Gens, Owner, Channel, At, Idle
  <1>1. CASE UNCHANGED handVars
    BY <1>1 DEF handVars
  <1>2. CASE StopJoined \/ StopCleared \/ Destroy
    BY <1>2 DEF StopJoined, StopCleared, Destroy
  <1>3. ASSUME NEW g \in Gens, Lookup(g) PROVE HandType'
    <2>1. Head(inbox[g]).from \in Players
      BY <1>3, Message DEF Lookup
    <2>. QED
      BY <1>3, <2>1, HandMoves DEF Lookup
  <1>4. ASSUME NEW g \in Gens, Make(g) PROVE HandType'
    <2>1. hand[g].at # "idle" /\ hand' = [hand EXCEPT ![g].at = "storing"]
      BY <1>4 DEF Make
    <2>2. hand[g].for \in Players /\ hand' = [hand EXCEPT ![g] = [at |-> "storing", for |-> hand[g].for]]
      BY <2>1, HandOf
    <2>3. offers' \subseteq Players \X (0 .. Starts) /\ UNCHANGED <<lock, clients, channel>>
      BY <1>4, <2>2 DEF Make, NetType
    <2>. QED
      BY <2>2, <2>3, HandMoves
  <1>5. ASSUME NEW g \in Gens, Lock(g) PROVE HandType'
    BY <1>5, HandOf, HandMoves DEF Lock
  <1>6. ASSUME NEW g \in Gens, Store(g) PROVE HandType'
    BY <1>6, HandOf, HandMoves DEF Store
  <1>7. ASSUME NEW g \in Gens, Find(g) PROVE HandType'
    BY <1>7, HandMoves DEF Find
  <1>8. ASSUME NEW p \in Players, NEW g \in 0 .. Starts, SendOffer(p, g) PROVE HandType'
    BY <1>8 DEF SendOffer
  <1>9. ASSUME NEW p \in Players, OpenChannel(p) \/ ChannelLock(p) \/ ChannelAttach(p)
        PROVE  HandType'
    <2>1. UNCHANGED <<hand, clients, offers>> /\ lock' \in 0 .. Channel
      BY <1>9 DEF OpenChannel, ChannelLock, ChannelAttach
    <2>2. channel' \in [Players -> {"none", "waiting", "finding", "done"}]
      BY <1>9 DEF OpenChannel, ChannelLock, ChannelAttach
    <2>. QED
      BY <2>1, <2>2
  <1>. QED
    BY Steps, <1>1, <1>2, <1>3, <1>4, <1>5, <1>6, <1>7, <1>8, <1>9, Zenon
    DEF Start, Stop, Assign, OpenSocket, WaitEnds, LoopEnds, OnOpen, OnError,
        OnClosed, PlayerSends

LEMMA MutexStep == ASSUME TypeOK, Next PROVE MutexExact'
  <1>. USE LifeAssumption DEF TypeOK, MutexExact, OwnerType, HandType, Gens, Owner, Channel, At, Idle
  <1>1. CASE UNCHANGED <<owner, hand, lock, channel>>
    BY <1>1
  <1>2. CASE Start \/ Stop \/ StopJoined \/ StopCleared \/ Destroy
    <2>1. UNCHANGED <<hand, channel>>
      BY <1>2, Zenon DEF Start, Stop, StopJoined, StopCleared, Destroy, handVars
    <2>2. CASE Start \/ Stop \/ Destroy
      BY <2>1, <2>2 DEF Start, Stop, Destroy, handVars
    <2>3. CASE StopJoined
      BY <2>1, <2>3 DEF StopJoined
    <2>4. CASE StopCleared
      BY <2>1, <2>4 DEF StopCleared
    <2>. QED
      BY <1>2, <2>2, <2>3, <2>4
  <1>3. ASSUME NEW g \in Gens, Lookup(g) PROVE MutexExact'
    BY <1>3 DEF Lookup, ownerVars
  <1>4. ASSUME NEW g \in Gens, Make(g) PROVE MutexExact'
    BY <1>4 DEF Make, ownerVars
  <1>5. ASSUME NEW g \in Gens, Lock(g) PROVE MutexExact'
    BY <1>5 DEF Lock, ownerVars
  <1>6. ASSUME NEW g \in Gens, Store(g) PROVE MutexExact'
    BY <1>6 DEF Store, ownerVars
  <1>7. ASSUME NEW g \in Gens, Find(g) PROVE MutexExact'
    BY <1>7 DEF Find, ownerVars
  <1>8. ASSUME NEW p \in Players, OpenChannel(p) \/ ChannelLock(p) \/ ChannelAttach(p)
        PROVE  MutexExact'
    <2>1. UNCHANGED <<owner, hand>>
      BY <1>8 DEF OpenChannel, ChannelLock, ChannelAttach, ownerVars
    <2>2. CASE OpenChannel(p)
      BY <2>1, <2>2 DEF OpenChannel
    <2>3. CASE ChannelLock(p)
      BY <2>1, <2>3 DEF ChannelLock
    <2>4. CASE ChannelAttach(p)
      BY <2>1, <2>4 DEF ChannelAttach
    <2>. QED
      BY <1>8, <2>2, <2>3, <2>4
  <1>. QED
    BY Steps, <1>1, <1>2, <1>3, <1>4, <1>5, <1>6, <1>7, <1>8, Zenon
    DEF Assign, OpenSocket, WaitEnds, LoopEnds, OnOpen, OnError, OnClosed,
        PlayerSends, SendOffer, ownerVars, handVars

LEMMA TypeStep == ASSUME TypeOK, Next PROVE TypeOK'
  BY OwnerTypeStep, NetTypeStep, WireTypeStep, HandTypeStep, MutexStep DEF TypeOK
-----------------------------------------------------------------------------
(* The owner and the threads.                                              *)
LEMMA OwnerStep ==
  ASSUME TypeOK, OwnerInv, ThreadJoined, Next
  PROVE  OwnerInv' /\ ThreadJoined'
  <1>. USE LifeAssumption DEF TypeOK, OwnerType, NetType, OwnerInv, ThreadJoined, Gens
  <1>1. CASE UNCHANGED <<ownerVars, net>>
    BY <1>1 DEF ownerVars
  <1>2. CASE Start
    BY <1>2 DEF Start
  <1>3. CASE Stop \/ StopJoined \/ StopCleared \/ Destroy
    BY <1>3 DEF Stop, StopJoined, Joined, StopCleared, Destroy, netVars
  <1>4. ASSUME NEW g \in Gens, Assign(g) \/ OpenSocket(g) \/ WaitEnds(g) \/ LoopEnds(g)
        PROVE  OwnerInv' /\ ThreadJoined'
    <2>1. /\ net[g] \notin {"none", "ended"}
          /\ \A h \in Gens : h # g => net'[h] = net[h]
          /\ UNCHANGED ownerVars
      BY <1>4 DEF Assign, OpenSocket, WaitEnds, LoopEnds
    <2>. QED
      BY <2>1 DEF ownerVars
  <1>. QED
    BY Steps, <1>1, <1>2, <1>3, <1>4, Zenon
    DEF OnOpen, OnError, OnClosed, Fulfil, Lookup, Make, Lock, Store, Find,
        PlayerSends, SendOffer, OpenChannel, ChannelLock, ChannelAttach, netVars

(* The network thread, its websocket and its promise.                      *)
LEMMA StageStep == ASSUME TypeOK, OwnerInv, StageInv, Next PROVE StageInv'
  <1>. USE LifeAssumption DEF TypeOK, NetType, WireType, StageInv, Gens
  <1>1. CASE UNCHANGED <<net, promise, late, current, sock>>
    BY <1>1
  <1>2. CASE Start
    BY <1>2 DEF Start, wireVars, OwnerInv, OwnerType
  <1>3. ASSUME NEW g \in Gens, Assign(g) PROVE StageInv'
    BY <1>3 DEF Assign, wireVars
  <1>4. ASSUME NEW g \in Gens, OpenSocket(g) PROVE StageInv'
    BY <1>4 DEF OpenSocket
  <1>5. ASSUME NEW g \in Gens, WaitEnds(g) PROVE StageInv'
    BY <1>5 DEF WaitEnds, wireVars
  <1>6. ASSUME NEW g \in Gens, LoopEnds(g) PROVE StageInv'
    BY <1>6 DEF LoopEnds, wireVars
  <1>7. ASSUME NEW g \in Gens, OnOpen(g) \/ OnError(g) PROVE StageInv'
    <2>1. /\ sock[g] = "connecting" /\ sock'[g] \in {"open", "closed"}
          /\ \A h \in Gens : h # g => sock'[h] = sock[h] /\ promise'[h] = promise[h]
          /\ promise'[g] \in {promise[g], "set"}
          /\ UNCHANGED <<net, late, current>>
      BY <1>7 DEF OnOpen, OnError, Fulfil
    <2>. QED
      BY <2>1
  <1>8. ASSUME NEW g \in Gens, OnClosed(g) PROVE StageInv'
    BY <1>8 DEF OnClosed, netVars
  <1>. QED
    BY Steps, <1>1, <1>2, <1>3, <1>4, <1>5, <1>6, <1>7, <1>8, Zenon
    DEF Stop, StopJoined, StopCleared, Destroy, Lookup, Make, Lock, Store, Find,
        PlayerSends, SendOffer, OpenChannel, ChannelLock, ChannelAttach, netVars, wireVars

(* Handlers and their websockets.                                          *)
LEMMA HandStep == ASSUME TypeOK, StageInv, HandInv, Next PROVE HandInv'
  <1>. USE LifeAssumption DEF TypeOK, WireType, HandType, HandInv, Gens
  <1>1. CASE UNCHANGED <<sock, holder, inbox, hand>>
    BY <1>1
  <1>2. ASSUME NEW g \in Gens, OpenSocket(g) PROVE HandInv'
    <2>1. sock[g] = "none"
      BY <1>2 DEF OpenSocket, StageInv
    <2>2. holder # g /\ inbox[g] = <<>> /\ hand[g] = Idle
      <3>1. "none" \notin {"open", "closed"}
        OBVIOUS
      <3>2. g # 0
        OBVIOUS
      <3>. QED
        BY <2>1, <3>1, <3>2, Zenon
    <2>3. \A h \in Gens : h # g => sock'[h] = sock[h]
      BY <1>2 DEF OpenSocket
    <2>4. UNCHANGED <<holder, inbox, hand>>
      BY <1>2 DEF OpenSocket, handVars
    <2>5. holder' # 0 => sock'[holder'] = "open"
      <3>1. holder # 0 => holder \in Gens
        OBVIOUS
      <3>. QED
        BY <2>2, <2>3, <2>4, <3>1, Zenon
    <2>6. \A h \in Gens : inbox'[h] # <<>> \/ hand'[h] # Idle => sock'[h] \in {"open", "closed"}
      BY <2>2, <2>3, <2>4
    <2>. QED
      BY <2>5, <2>6
  <1>3. ASSUME NEW g \in Gens, OnOpen(g) \/ OnError(g) \/ OnClosed(g) PROVE HandInv'
    <2>1. /\ sock'[g] \in {"open", "closed"}
          /\ \A h \in Gens : h # g => sock'[h] = sock[h]
          /\ UNCHANGED <<inbox, hand>>
      BY <1>3 DEF OnOpen, OnError, OnClosed, handVars
    <2>2. holder' # 0 => sock'[holder'] = "open"
      <3>1. CASE OnOpen(g)
        BY <3>1 DEF OnOpen
      <3>2. CASE OnError(g)
        BY <3>2 DEF OnError
      <3>3. CASE OnClosed(g)
        BY <3>3 DEF OnClosed
      <3>. QED
        BY <1>3, <3>1, <3>2, <3>3
    <2>. QED
      BY <2>1, <2>2
  <1>4. ASSUME NEW g \in Gens, Lookup(g) PROVE HandInv'
    BY <1>4 DEF Lookup
  <1>5. ASSUME NEW g \in Gens, Make(g) \/ Lock(g) \/ Store(g) \/ Find(g) PROVE HandInv'
    BY <1>5 DEF Make, Lock, Store, Find, At, Idle, wireVars
  <1>6. ASSUME NEW p \in Players, PlayerSends(p) PROVE HandInv'
    BY <1>6 DEF PlayerSends, Deliver, handVars
  <1>. QED
    BY Steps, <1>1, <1>2, <1>3, <1>4, <1>5, <1>6, Zenon
    DEF Start, Stop, StopJoined, StopCleared, Destroy, Assign, WaitEnds, LoopEnds,
        SendOffer, OpenChannel, ChannelLock, ChannelAttach, wireVars, handVars

LEMMA OfferStep ==
  ASSUME TypeOK, OwnerInv, StageInv, HandInv, OfferInv, Next
  PROVE  OfferInv'
  <1>. USE DEF OfferInv
  <1>1. CASE UNCHANGED offers
    BY <1>1
  <1>2. CASE StopCleared \/ Destroy
    BY <1>2 DEF StopCleared, Destroy
  <1>3. ASSUME NEW g \in Gens, Make(g) PROVE OfferInv'
    <2>1. current # 0
      BY <1>3, AtWork DEF Make, At, Idle
    <2>. QED
      BY <1>3, <2>1 DEF Make
  <1>4. ASSUME NEW p \in Players, NEW g \in 0 .. Starts, SendOffer(p, g) PROVE OfferInv'
    BY <1>4 DEF SendOffer
  <1>. QED
    BY Steps, <1>1, <1>2, <1>3, <1>4, Zenon
    DEF Start, Stop, StopJoined, Assign, OpenSocket, WaitEnds, LoopEnds, OnOpen,
        OnError, OnClosed, Lookup, Lock, Store, Find, PlayerSends, OpenChannel,
        ChannelLock, ChannelAttach, handVars

LEMMA DanglingStep == ASSUME TypeOK, StageInv, DanglingOnlyLate, Next PROVE DanglingOnlyLate'
  <1>. USE DEF TypeOK, NetType, StageInv, DanglingOnlyLate
  <1>1. CASE UNCHANGED <<late, dangling>>
    BY <1>1
  <1>2. ASSUME NEW g \in Gens, WaitEnds(g) PROVE DanglingOnlyLate'
    BY <1>2 DEF WaitEnds
  <1>3. ASSUME NEW g \in Gens, OnOpen(g) \/ OnError(g) PROVE DanglingOnlyLate'
    <2>1. UNCHANGED late /\ sock[g] = "connecting"
      BY <1>3 DEF OnOpen, OnError
    <2>2. dangling' => dangling \/ promise[g] = "dead"
      BY <1>3, Zenon DEF OnOpen, OnError, Fulfil
    <2>. QED
      BY <2>1, <2>2
  <1>. QED
    BY Steps, <1>1, <1>2, <1>3, Zenon
    DEF Start, Stop, StopJoined, StopCleared, Destroy, Assign, OpenSocket, LoopEnds,
        OnClosed, Lookup, Make, Lock, Store, Find, PlayerSends, SendOffer, OpenChannel,
        ChannelLock, ChannelAttach, netVars

(* A handler of the only start finds the mutex free, its own or with a     *)
(* data channel's callback while the server runs.                          *)
LEMMA Unshared ==
  ASSUME TypeOK, OwnerInv, StageInv, HandInv, starts = 1, owner = "running",
         NEW g \in Gens, hand[g] # Idle \/ inbox[g] # <<>>
  PROVE  g = 1 /\ lock \in {0, g, Channel}
  <1>. USE LifeAssumption DEF Gens
  <1>1. \A h \in Gens : hand[h] # Idle \/ inbox[h] # <<>> => h = 1
    BY AtWork
  <1>2. ASSUME lock \in Gens PROVE lock = 1
    BY <1>1, <1>2 DEF TypeOK, MutexExact, At, Idle
  <1>3. lock # Owner
    BY DEF TypeOK, MutexExact
  <1>. QED
    BY <1>1, <1>2, <1>3 DEF TypeOK, HandType, Owner, Channel

LEMMA SafeStep ==
  ASSUME TypeOK, OwnerInv, StageInv, HandInv, OfferInv, SafeWhileRunning, Next
  PROVE  SafeWhileRunning'
  <1>. SUFFICES ASSUME starts' = 1, owner' = "running" PROVE ~undefined'
    BY OfferStep DEF OfferInv, SafeWhileRunning
  <1>1. ~undefined
    BY Steps, Zenon DEF TypeOK, NetType
  <1>2. CASE UNCHANGED undefined
    BY <1>1, <1>2
  <1>3. ASSUME NEW g \in Gens, Assign(g) PROVE ~undefined'
    <2>1. starts = 1 /\ net[g] = "assigning"
      BY <1>3 DEF Assign, ownerVars
    <2>2. \A h \in Gens : ~At(h, {"making"})
      BY <2>1, AtWork, LifeAssumption DEF At, Idle, OwnerInv, Gens
    <2>. QED
      BY <1>3, <2>2, Zenon DEF Assign
  <1>4. ASSUME NEW g \in Gens, Lookup(g) \/ Make(g) \/ Lock(g) \/ Store(g) \/ Find(g)
        PROVE  ~undefined'
    <2>1. starts = 1 /\ owner = "running"
      BY <1>4 DEF Lookup, Make, Lock, Store, Find, ownerVars
    <2>2. hand[g] # Idle \/ inbox[g] # <<>>
      BY <1>4 DEF Lookup, Make, Lock, Store, Find, At, Idle
    <2>3. owner # "gone" /\ lock \in {0, g, Channel}
      BY <2>1, <2>2, Unshared
    <2>. QED
      BY <1>4, <2>3, Zenon DEF Lookup, Make, Lock, Store, Find, Read
  <1>5. ASSUME NEW p \in Players, ChannelLock(p) \/ ChannelAttach(p) PROVE ~undefined'
    <2>1. owner # "gone"
      BY <1>5 DEF ChannelLock, ChannelAttach, ownerVars
    <2>. QED
      BY <1>5, <2>1, Zenon DEF ChannelLock, ChannelAttach
  <1>. QED
    BY Steps, <1>2, <1>3, <1>4, <1>5, Zenon
    DEF Start, Stop, StopJoined, StopCleared, Destroy, OpenSocket, WaitEnds, LoopEnds,
        OnOpen, OnError, OnClosed, PlayerSends, SendOffer, OpenChannel
-----------------------------------------------------------------------------
(* A join in an inbox that gets another message, or loses its first.       *)
LEMMA JoinAppended ==
  ASSUME NEW box \in Seq(Messages), NEW m \in Messages, NEW p
  PROVE  /\ Has(Append(box, m), p) <=> (Has(box, p) \/ m = [type |-> "join", from |-> p])
         /\ Once(box, p) /\ ~(Has(box, p) /\ m = [type |-> "join", from |-> p])
              => Once(Append(box, m), p)
  <1>1. /\ Len(box) \in Nat /\ DOMAIN box = 1 .. Len(box)
        /\ DOMAIN Append(box, m) = 1 .. Len(box) + 1
        /\ \A i \in 1 .. Len(box) : Append(box, m)[i] = box[i]
        /\ Append(box, m)[Len(box) + 1] = m
    OBVIOUS
  <1>2. \A i \in 1 .. Len(box) + 1 : i \in 1 .. Len(box) \/ i = Len(box) + 1
    BY <1>1
  <1>3. 1 .. Len(box) \subseteq 1 .. Len(box) + 1 /\ Len(box) + 1 \in 1 .. Len(box) + 1
    BY <1>1
  <1>. DEFINE n == Len(box)
              all == Append(box, m)
              join == [type |-> "join", from |-> p]
  <1>. HIDE DEF n, all, join
  <1>4. /\ DOMAIN box = 1 .. n /\ DOMAIN all = 1 .. n + 1
        /\ \A i \in 1 .. n : all[i] = box[i]
        /\ all[n + 1] = m
        /\ \A i \in 1 .. n + 1 : i \in 1 .. n \/ i = n + 1
        /\ 1 .. n \subseteq 1 .. n + 1 /\ n + 1 \in 1 .. n + 1
    BY <1>1, <1>2, <1>3 DEF n, all
  <1>5. Has(all, p) <=> (Has(box, p) \/ m = join)
    BY <1>4 DEF Has, join
  <1>6. ASSUME Once(box, p), ~(Has(box, p) /\ m = join) PROVE Once(all, p)
    <2>. SUFFICES ASSUME NEW i \in DOMAIN all, NEW j \in DOMAIN all, all[i] = join, all[j] = join
                  PROVE  i = j
      BY DEF Once, join
    <2>1. CASE i \in 1 .. n /\ j \in 1 .. n
      BY <1>4, <1>6, <2>1 DEF Once, join
    <2>2. CASE i = n + 1 \/ j = n + 1
      BY <1>4, <1>6, <2>2 DEF Has, join
    <2>. QED
      BY <1>4, <2>1, <2>2
  <1>. QED
    BY <1>5, <1>6 DEF all, join

LEMMA JoinTaken ==
  ASSUME NEW box \in Seq(Messages), box # <<>>, NEW p, Once(box, p)
  PROVE  /\ Once(Tail(box), p)
         /\ Head(box) = [type |-> "join", from |-> p] => Has(box, p) /\ ~Has(Tail(box), p)
         /\ Head(box) # [type |-> "join", from |-> p] => (Has(Tail(box), p) <=> Has(box, p))
  <1>. DEFINE n == Len(box)
              rest == Tail(box)
              join == [type |-> "join", from |-> p]
  <1>1. n \in Nat /\ n > 0 /\ DOMAIN box = 1 .. n /\ DOMAIN rest = 1 .. n - 1
    OBVIOUS
  <1>2. \A i \in 1 .. n - 1 : rest[i] = box[i + 1] /\ i + 1 \in 1 .. n
    OBVIOUS
  <1>3. Head(box) = box[1] /\ 1 \in 1 .. n
    OBVIOUS
  <1>. HIDE DEF n, rest, join
  <1>4. \A i \in 1 .. n : i # 1 => i - 1 \in 1 .. n - 1 /\ rest[i - 1] = box[i]
    BY <1>1, <1>2
  <1>5. Once(rest, p)
    <2>. SUFFICES ASSUME NEW i \in 1 .. n - 1, NEW j \in 1 .. n - 1, rest[i] = join, rest[j] = join
                  PROVE  i = j
      BY <1>1 DEF Once, join
    <2>1. i + 1 = j + 1
      BY <1>1, <1>2 DEF Once, join
    <2>. QED
      BY <2>1
  <1>6. ASSUME box[1] = join PROVE Has(box, p) /\ ~Has(rest, p)
    <2>1. Has(box, p)
      BY <1>1, <1>3, <1>6 DEF Has, join
    <2>2. ASSUME NEW i \in 1 .. n - 1, rest[i] = join PROVE FALSE
      <3>1. i + 1 = 1
        BY <1>1, <1>2, <1>3, <1>6, <2>2 DEF Once, join
      <3>. QED
        BY <3>1
    <2>. QED
      BY <1>1, <2>1, <2>2 DEF Has, join
  <1>7. ASSUME box[1] # join PROVE Has(rest, p) <=> Has(box, p)
    <2>1. ASSUME Has(rest, p) PROVE Has(box, p)
      BY <1>1, <1>2, <2>1 DEF Has, join
    <2>2. ASSUME Has(box, p) PROVE Has(rest, p)
      <3>1. PICK i \in 1 .. n : box[i] = join
        BY <1>1, <2>2 DEF Has, join
      <3>2. i - 1 \in 1 .. n - 1 /\ rest[i - 1] = join
        BY <1>4, <1>7, <3>1
      <3>. QED
        BY <1>1, <3>2 DEF Has, join
    <2>. QED
      BY <2>1, <2>2
  <1>. QED
    BY <1>3, <1>5, <1>6, <1>7 DEF rest, join

(* What m does to the place of p's join when it is appended to, or taken   *)
(* from, the inbox of websocket g.                                         *)
LEMMA SoleAppended ==
  ASSUME NEW p \in Players, NEW g \in Gens, NEW m \in Messages,
         NEW boxes \in [Gens -> Seq(Messages)], NEW hands, NEW entry, NEW at, NEW after,
         Sole(boxes, hands, entry, at, p),
         m = [type |-> "join", from |-> p] => at = "out", after # "out" \/ at = "out",
         m = [type |-> "join", from |-> p] => after # "out"
  PROVE  Sole([boxes EXCEPT ![g] = Append(@, m)], hands, entry, after, p)
  <1>. DEFINE new == [boxes EXCEPT ![g] = Append(@, m)]
              join == [type |-> "join", from |-> p]
  <1>1. new[g] = Append(boxes[g], m) /\ (\A h \in Gens : h # g => new[h] = boxes[h])
    OBVIOUS
  <1>2. boxes[g] \in Seq(Messages) /\ Once(boxes[g], p)
    BY DEF Sole
  <1>3. /\ Has(Append(boxes[g], m), p) <=> (Has(boxes[g], p) \/ m = join)
        /\ Once(boxes[g], p) /\ ~(Has(boxes[g], p) /\ m = join) => Once(Append(boxes[g], m), p)
    BY <1>2, JoinAppended
  <1>. HIDE DEF new, join
  <1>4. CASE m = join
    <2>1. at = "out"
      BY <1>4 DEF join
    <2>2. \A h \in Gens : Has(new[h], p) <=> h = g
      BY <1>1, <1>3, <1>4, <2>1 DEF Sole
    <2>3. \A h \in Gens : Once(new[h], p)
      BY <1>1, <1>3, <2>1 DEF Sole
    <2>4. after # "out"
      BY <1>4 DEF join
    <2>5. Sole(new, hands, entry, after, p)
      BY <2>1, <2>2, <2>3, <2>4, Zenon DEF Sole
    <2>. QED
      BY <2>5 DEF new
  <1>5. CASE m # join
    <2>1. \A h \in Gens : Has(new[h], p) <=> Has(boxes[h], p)
      BY <1>1, <1>3, <1>5
    <2>2. \A h \in Gens : Once(new[h], p)
      BY <1>1, <1>3, <1>5 DEF Sole
    <2>3. Sole(new, hands, entry, after, p)
      BY <2>1, <2>2, Zenon DEF Sole
    <2>. QED
      BY <2>3 DEF new
  <1>. QED
    BY <1>4, <1>5

LEMMA SoleTaken ==
  ASSUME NEW p \in Players, NEW g \in Gens, NEW boxes \in [Gens -> Seq(Messages)],
         NEW hands, NEW entry, NEW at, NEW after, NEW moved,
         boxes[g] # <<>>,
         Sole(boxes, hands, entry, at, p), after # "out" \/ at = "out",
         \A h \in Gens : h # g => moved[h] = hands[h],
         hands[g].at = "idle",
         Head(boxes[g]) = [type |-> "join", from |-> p] /\ entry = 0
           => moved[g] = [at |-> "making", for |-> p],
         Head(boxes[g]) # [type |-> "join", from |-> p] => ~Serves(moved[g], p)
  PROVE  Sole([boxes EXCEPT ![g] = Tail(@)], moved, entry, after, p)
  <1>. DEFINE new == [boxes EXCEPT ![g] = Tail(@)]
              join == [type |-> "join", from |-> p]
  <1>1. new[g] = Tail(boxes[g]) /\ (\A h \in Gens : h # g => new[h] = boxes[h])
    OBVIOUS
  <1>2. boxes[g] \in Seq(Messages) /\ Once(boxes[g], p)
    BY DEF Sole
  <1>3. /\ Once(Tail(boxes[g]), p)
        /\ Head(boxes[g]) = join => Has(boxes[g], p) /\ ~Has(Tail(boxes[g]), p)
        /\ Head(boxes[g]) # join => (Has(Tail(boxes[g]), p) <=> Has(boxes[g], p))
    <2>. DEFINE box == boxes[g]
    <2>1. box \in Seq(Messages) /\ box # <<>> /\ Once(box, p)
      BY <1>2
    <2>. HIDE DEF box
    <2>2. /\ Once(Tail(box), p)
          /\ Head(box) = join => Has(box, p) /\ ~Has(Tail(box), p)
          /\ Head(box) # join => (Has(Tail(box), p) <=> Has(box, p))
      BY <2>1, JoinTaken
    <2>. QED
      BY <2>2 DEF box
  <1>. HIDE DEF join, new
  <1>4. \A h \in Gens : Once(new[h], p)
    BY <1>1, <1>3 DEF Sole
  <1>5. ~Serves(hands[g], p)
    BY DEF Serves
  <1>6. CASE Head(boxes[g]) = join
    <2>1. Has(boxes[g], p)
      BY <1>3, <1>6
    <2>2. entry = 0 /\ (\A h \in Gens : ~Serves(hands[h], p)) /\ at # "out"
      BY <2>1 DEF Sole
    <2>3. \A h \in Gens : ~Has(new[h], p)
      BY <1>1, <1>3, <1>6, <2>1 DEF Sole
    <2>4. moved[g] = [at |-> "making", for |-> p]
      BY <1>6, <2>2, Zenon DEF join
    <2>5. Serves(moved[g], p)
      BY <2>4 DEF Serves
    <2>6. \A h \in Gens : Serves(moved[h], p) <=> h = g
      BY <2>2, <2>5, Zenon
    <2>7. Sole(new, moved, entry, after, p)
      BY <1>4, <2>2, <2>3, <2>6, Zenon DEF Sole
    <2>. QED
      BY <2>7 DEF new
  <1>7. CASE Head(boxes[g]) # join
    <2>1. \A h \in Gens : Has(new[h], p) <=> Has(boxes[h], p)
      BY <1>1, <1>3, <1>7
    <2>2. \A h \in Gens : Serves(moved[h], p) => h # g /\ moved[h] = hands[h] /\ Serves(hands[h], p)
      BY <1>7 DEF join
    <2>3. Sole(new, moved, entry, after, p)
      BY <1>4, <2>1, <2>2, Zenon DEF Sole
    <2>. QED
      BY <2>3 DEF new
  <1>. QED
    BY <1>6, <1>7

LEMMA SoleStep ==
  ASSUME TypeOK, SoleInv, Next, NEW p \in Players
  PROVE  Sole(inbox, hand, clients[p], player[p], p)'
  <1>. DEFINE Now == Sole(inbox, hand, clients[p], player[p], p)
  <1>0. /\ Now
        /\ inbox \in [Gens -> Seq(Messages)]
        /\ DOMAIN hand = Gens /\ DOMAIN player = Players /\ DOMAIN clients = Players
        /\ \A g \in Gens : hand[g] = Idle \/ (hand[g].at # "idle" /\ hand[g].for \in Players)
    BY DEF TypeOK, WireType, HandType, SoleInv
  <1>1. CASE UNCHANGED <<inbox, hand, clients, player>>
    BY <1>0, <1>1
  <1>2. CASE StopCleared
    <2>1. UNCHANGED <<inbox, hand, player>> /\ clients'[p] = 0
      BY <1>2 DEF StopCleared, wireVars
    <2>. QED
      BY <1>0, <2>1 DEF Sole
  <1>3. ASSUME NEW g \in Gens, Lookup(g) PROVE Now'
    <2>. DEFINE m == Head(inbox[g])
    <2>1. /\ inbox[g] # <<>> /\ hand[g].at = "idle" /\ UNCHANGED clients
          /\ inbox' = [inbox EXCEPT ![g] = Tail(@)]
          /\ \A h \in Gens : h # g => hand'[h] = hand[h]
          /\ player'[p] # "out" \/ player[p] = "out"
          /\ hand'[g] = IF clients[m.from] = 0 /\ m.type = "join"
                          THEN [at |-> "making", for |-> m.from] ELSE hand[g]
      BY <1>0, <1>3 DEF Lookup, At
    <2>2. m = [type |-> "join", from |-> p] <=> m.type = "join" /\ m.from = p
      BY <2>1, Message DEF Messages
    <2>3. IF m = [type |-> "join", from |-> p]
            THEN clients[p] = 0 => hand'[g] = [at |-> "making", for |-> p]
            ELSE ~Serves(hand'[g], p)
      BY <2>1, <2>2 DEF Serves
    <2>4. Sole(inbox', hand', clients[p], player'[p], p)
      <3>. HIDE DEF m, Now
      <3>1. Sole(inbox, hand, clients[p], player[p], p)
        BY <1>0 DEF Now
      <3>2. /\ inbox[g] # <<>> /\ hand[g].at = "idle"
            /\ inbox' = [inbox EXCEPT ![g] = Tail(@)]
            /\ \A h \in Gens : h # g => hand'[h] = hand[h]
            /\ player'[p] # "out" \/ player[p] = "out"
        BY <2>1
      <3>3. /\ Head(inbox[g]) = [type |-> "join", from |-> p] /\ clients[p] = 0
                 => hand'[g] = [at |-> "making", for |-> p]
            /\ Head(inbox[g]) # [type |-> "join", from |-> p] => ~Serves(hand'[g], p)
        BY <2>3 DEF m
      <3>4. inbox \in [Gens -> Seq(Messages)]
        BY <1>0
      <3>5. Sole([inbox EXCEPT ![g] = Tail(@)], hand', clients[p], player'[p], p)
        BY <3>1, <3>2, <3>3, <3>4, SoleTaken
      <3>. QED
        BY <3>2, <3>5
    <2>. QED
      BY <2>1, <2>4
  <1>4. ASSUME NEW g \in Gens, Make(g) \/ Lock(g) \/ Store(g) \/ Find(g) PROVE Now'
    <2>1. UNCHANGED <<inbox, player>> /\ (\A h \in Gens : h # g => hand'[h] = hand[h])
      <3>1. UNCHANGED wireVars
        BY <1>4, Zenon DEF Make, Lock, Store, Find
      <3>2. \A h \in Gens : h # g => hand'[h] = hand[h]
        BY <1>0, <1>4 DEF Make, Lock, Store, Find
      <3>. QED
        BY <3>1, <3>2 DEF wireVars
    <2>0. /\ hand[g].at # "idle" /\ hand[g].for \in Players
          /\ hand'[g] = Idle \/ hand'[g].for = hand[g].for
      <3>1. hand[g].at # "idle"
        BY <1>4 DEF Make, Lock, Store, Find, At
      <3>. QED
        <4>1. hand[g].for \in Players
          BY <1>0, <3>1 DEF Idle
        <4>2. \/ hand' = [hand EXCEPT ![g] = Idle]
              \/ \E at \in {"storing", "locked", "finding"} : hand' = [hand EXCEPT ![g].at = at]
          BY <1>4, Zenon DEF Make, Lock, Store, Find
        <4>3. CASE hand' = [hand EXCEPT ![g] = Idle]
          BY <1>0, <3>1, <4>1, <4>3
        <4>4. ASSUME NEW at \in {"storing", "locked", "finding"}, hand' = [hand EXCEPT ![g].at = at]
              PROVE  hand'[g].for = hand[g].for
          BY <4>4 DEF TypeOK, HandType
        <4>. QED
          BY <3>1, <4>1, <4>2, <4>3, <4>4
    <2>2. /\ Serves(hand'[g], p) => Serves(hand[g], p)
          /\ Serves(hand'[g], p) /\ hand'[g].at # "finding" => hand[g].at # "finding" /\ UNCHANGED clients
      <3>1. Serves(hand'[g], p) => Serves(hand[g], p)
        BY <2>0 DEF Serves, Idle
      <3>2. CASE Make(g) \/ Lock(g)
        BY <3>1, <3>2 DEF Make, Lock, At
      <3>3. CASE Store(g)
        BY <1>0, <3>1, <3>3 DEF Store
      <3>4. CASE Find(g)
        BY <1>0, <3>1, <3>4 DEF Find, Serves, Idle
      <3>. QED
        BY <1>4, <3>2, <3>3, <3>4
    <2>3. clients'[p] = clients[p] \/ (Serves(hand[g], p) /\ hand[g].at # "finding" /\ hand'[g].at = "finding")
      <3>1. CASE Make(g) \/ Lock(g) \/ Find(g)
        BY <3>1, Zenon DEF Make, Lock, Find
      <3>2. CASE Store(g)
        BY <1>0, <3>2 DEF Store, At, Serves
      <3>. QED
        BY <1>4, <3>1, <3>2
    <2>4. \A h \in Gens : Serves(hand'[h], p) => Serves(hand[h], p)
      BY <2>1, <2>2
    <2>5. CASE clients'[p] = clients[p]
      BY <1>0, <2>1, <2>2, <2>4, <2>5 DEF Sole
    <2>6. CASE Serves(hand[g], p) /\ hand'[g].at = "finding"
      <3>1. /\ \A h \in Gens : Serves(hand'[h], p) => h = g
            /\ player[p] # "out" /\ \A h \in Gens : ~Has(inbox[h], p)
        BY <1>0, <2>4, <2>6 DEF Sole
      <3>. QED
        BY <1>0, <2>1, <2>6, <3>1 DEF Sole
    <2>. QED
      BY <2>3, <2>5, <2>6
  <1>5. ASSUME NEW q \in Players, NEW g \in 0 .. Starts, SendOffer(q, g) PROVE Now'
    <2>1. UNCHANGED <<inbox, hand, clients>> /\ (player'[p] # "out" \/ player[p] = "out")
      BY <1>0, <1>5 DEF SendOffer
    <2>. QED
      BY <1>0, <2>1 DEF Sole
  <1>6. ASSUME NEW q \in Players, PlayerSends(q) PROVE Now'
    <2>1. holder \in Gens /\ UNCHANGED <<hand, clients>>
      BY <1>6, LifeAssumption DEF PlayerSends, TypeOK, WireType, Gens, handVars
    <2>2. PICK m \in Messages :
            /\ inbox' = [inbox EXCEPT ![holder] = Append(@, m)]
            /\ m = [type |-> "join", from |-> p] => player[p] = "out" /\ player'[p] # "out"
            /\ player'[p] # "out" \/ player[p] = "out"
      <3>1. CASE player[q] = "out" /\ Deliver("join", q) /\ player' = [player EXCEPT ![q] = "joined"]
        <4>1. [type |-> "join", from |-> q] \in Messages
          BY DEF Messages
        <4>. QED
          BY <1>0, <4>1, <3>1 DEF Deliver
      <3>2. CASE /\ player[q] = "offered" /\ Deliver("answer", q)
                 /\ player' = [player EXCEPT ![q] = "answered"]
        <4>1. [type |-> "answer", from |-> q] \in Messages
          BY DEF Messages
        <4>. QED
          BY <1>0, <4>1, <3>2 DEF Deliver
      <3>. QED
        BY <1>6, <3>1, <3>2 DEF PlayerSends
    <2>3. Sole([inbox EXCEPT ![holder] = Append(@, m)], hand, clients[p], player'[p], p)
      BY <1>0, <2>1, <2>2, SoleAppended
    <2>. QED
      BY <2>1, <2>2, <2>3
  <1>. QED
    BY Steps, <1>1, <1>2, <1>3, <1>4, <1>5, <1>6, Zenon
    DEF Start, Stop, StopJoined, Destroy, Assign, OpenSocket, WaitEnds, LoopEnds, OnOpen,
        OnError, OnClosed, OpenChannel, ChannelLock, ChannelAttach, wireVars, handVars

LEMMA SoleInvStep == ASSUME TypeOK, SoleInv, Next PROVE SoleInv'
  BY SoleStep, Zenon DEF SoleInv

(* No other handler's connection is found, and none only after stop.       *)
LEMMA FindsStep ==
  ASSUME TypeOK, OwnerInv, StageInv, HandInv, SoleInv, FindsEntry, Next
  PROVE  FindsEntry'
  <1>1. \A h \in Gens : hand[h] # Idle => h <= starts
    BY AtWork
  <1>0. \A h \in Gens : At(h, {"finding"}) => hand[h].for \in Players
    BY HandOf DEF TypeOK, At
  <1>. USE LifeAssumption DEF TypeOK, OwnerType, HandType, OwnerInv, FindsEntry, At, Idle, Gens
  <1>3. CASE UNCHANGED <<hand, clients, starts>>
             /\ (owner \in {"idle", "gone"} => owner' \in {"idle", "gone"})
    BY <1>3
  <1>4. CASE Start
    BY <1>1, <1>4 DEF Start, handVars
  <1>5. CASE StopCleared
    BY <1>0, <1>5 DEF StopCleared
  <1>6. ASSUME NEW g \in Gens, Store(g) PROVE FindsEntry'
    <2>. DEFINE p == hand[g].for
    <2>1. /\ p \in Players /\ hand[g].at = "locked" /\ hand' = [hand EXCEPT ![g].at = "finding"]
          /\ clients' = [clients EXCEPT ![p] = g] /\ UNCHANGED <<owner, starts>>
      BY <1>6, HandOf DEF Store, ownerVars
    <2>2. ASSUME NEW h \in Gens, h # g, hand'[h].at = "finding" PROVE hand[h].for # p
      <3>1. Sole(inbox, hand, clients[p], player[p], p)
        BY <2>1, Zenon DEF SoleInv
      <3>2. Serves(hand[g], p) /\ (hand[h].for = p => Serves(hand[h], p))
        BY <2>1, <2>2 DEF Serves
      <3>. QED
        BY <2>2, <3>1, <3>2, Zenon DEF Sole
    <2>3. clients'[hand'[g].for] = g
      BY <2>1
    <2>. HIDE DEF p
    <2>4. ASSUME NEW h \in Gens, h # g, hand'[h].at = "finding"
          PROVE  clients'[hand'[h].for] = clients[hand[h].for] /\ hand[h].at = "finding"
      <3>1. hand'[h] = hand[h]
        BY <2>1, <2>4
      <3>. QED
        BY <1>0, <2>1, <2>2, <2>4, <3>1
    <2>. QED
      BY <2>1, <2>3, <2>4
  <1>7. ASSUME NEW g \in Gens, Lookup(g) \/ Make(g) \/ Lock(g) \/ Find(g) PROVE FindsEntry'
    <2>1. hand'[g].at # "finding" /\ (\A h \in Gens : h # g => hand'[h] = hand[h])
      BY <1>7, HandOf DEF Lookup, Make, Lock, Find
    <2>2. UNCHANGED <<starts, owner, clients>>
      BY <1>7, Zenon DEF Lookup, Make, Lock, Find, ownerVars
    <2>3. \A h \in Gens : hand'[h].at = "finding" => hand'[h] = hand[h]
      BY <2>1
    <2>. QED
      BY <2>2, <2>3
  <1>8. CASE Stop \/ StopJoined \/ Destroy
    BY <1>8 DEF Stop, StopJoined, Destroy, handVars
  <1>. QED
    BY Steps, <1>3, <1>4, <1>5, <1>6, <1>7, <1>8, Zenon
    DEF Assign, OpenSocket, WaitEnds, LoopEnds, OnOpen, OnError, OnClosed, PlayerSends,
        SendOffer, OpenChannel, ChannelLock, ChannelAttach, ownerVars, handVars
-----------------------------------------------------------------------------
(* A server that is undisturbed after a step was so before it.             *)
LEMMA UndisturbedBefore ==
  ASSUME TypeOK, OwnerInv, StageInv, Next, Undisturbed'
  PROVE  Undisturbed /\ owner \in {"idle", "running"} /\ (owner = "idle" => starts = 0)
  <1>. USE LifeAssumption DEF TypeOK, OwnerType, NetType, WireType, OwnerInv, StageInv, Undisturbed, Gens
  <1>1. CASE Start
    BY <1>1 DEF Start, wireVars
  <1>2. CASE Stop \/ StopJoined \/ StopCleared \/ Destroy
    BY <1>2 DEF Stop, StopJoined, StopCleared, Destroy, wireVars
  <1>3. CASE UNCHANGED ownerVars /\ (sock[1] = "closed" => sock'[1] = "closed")
    BY <1>3 DEF ownerVars
  <1>4. ASSUME NEW g \in Gens, OpenSocket(g) \/ OnOpen(g) \/ OnError(g) \/ OnClosed(g)
        PROVE  UNCHANGED ownerVars /\ (sock[1] = "closed" => sock'[1] = "closed")
    BY <1>4 DEF OpenSocket, OnOpen, OnError, OnClosed
  <1>. QED
    BY Steps, <1>1, <1>2, <1>3, <1>4, Zenon
    DEF Assign, WaitEnds, LoopEnds, Lookup, Make, Lock, Store, Find, PlayerSends, SendOffer,
        OpenChannel, ChannelLock, ChannelAttach, wireVars

(* Nothing is at work in it but the first start's thread, websocket and    *)
(* handler.                                                                *)
LEMMA FirstOnly ==
  ASSUME TypeOK, OwnerInv, StageInv, HandInv, Undisturbed, NEW g \in Gens,
         net[g] # "none" \/ sock[g] # "none" \/ hand[g] # Idle \/ inbox[g] # <<>>
  PROVE  g = 1
  <1>1. net[g] # "none"
    BY DEF StageInv, HandInv
  <1>. QED
    BY <1>1, LifeAssumption DEF Undisturbed, OwnerInv, TypeOK, OwnerType, Gens

LEMMA OnlyOneStep ==
  ASSUME TypeOK, OwnerInv, StageInv, HandInv, Next, Undisturbed', Undisturbed, OnlyOne
  PROVE  OnlyOne'
  <1>. USE LifeAssumption DEF Gens, OnlyOne
  <1>1. CASE UNCHANGED <<current, holder, sock, offers>>
    BY <1>1
  <1>2. CASE StopCleared \/ Destroy
    BY <1>2 DEF StopCleared, Destroy, wireVars
  <1>3. ASSUME NEW g \in Gens, Assign(g) PROVE OnlyOne'
    <2>1. g = 1
      BY <1>3, FirstOnly DEF Assign
    <2>. QED
      BY <1>3, <2>1 DEF Assign, wireVars, handVars
  <1>4. ASSUME NEW g \in Gens, OpenSocket(g) \/ OnOpen(g) \/ OnError(g) \/ OnClosed(g)
        PROVE  OnlyOne'
    <2>1. g = 1
      <3>1. net[g] # "none"
        BY <1>4 DEF OpenSocket, OnOpen, OnError, OnClosed, StageInv
      <3>. QED
        BY <3>1, FirstOnly
    <2>2. sock[1] # "open" /\ UNCHANGED <<current, offers>>
      <3>1. CASE OpenSocket(g)
        BY <2>1, <3>1 DEF OpenSocket, StageInv, handVars
      <3>2. CASE OnOpen(g) \/ OnError(g)
        BY <2>1, <3>2 DEF OnOpen, OnError, handVars
      <3>3. CASE OnClosed(g)
        BY <2>1, <3>3 DEF OnClosed, Undisturbed, TypeOK, WireType
      <3>. QED
        BY <1>4, <3>1, <3>2, <3>3
    <2>3. holder = 0 /\ \A p \in Players, h \in 0 .. Starts : <<p, h>> \notin offers'
      BY <2>2
    <2>4. holder' = IF sock'[1] = "open" THEN 1 ELSE 0
      BY <1>4, <2>1, <2>3 DEF OpenSocket, OnOpen, OnError, OnClosed, TypeOK, WireType
    <2>. QED
      BY <2>2, <2>3, <2>4
  <1>5. ASSUME NEW g \in Gens, Make(g) PROVE OnlyOne'
    <2>1. hand[g] # Idle
      BY <1>5 DEF Make, At, Idle
    <2>2. g = 1 /\ current # 0
      BY <2>1, FirstOnly, AtWork
    <2>3. sock[1] = "open"
      BY <2>1, <2>2 DEF HandInv, Undisturbed
    <2>. QED
      BY <1>5, <2>2, <2>3 DEF Make, wireVars
  <1>6. ASSUME NEW p \in Players, NEW g \in 0 .. Starts, SendOffer(p, g) PROVE OnlyOne'
    BY <1>6 DEF SendOffer
  <1>. QED
    BY Steps, <1>1, <1>2, <1>3, <1>4, <1>5, <1>6, Zenon
    DEF Start, Stop, StopJoined, WaitEnds, LoopEnds, Lookup, Lock, Store, Find, PlayerSends,
        OpenChannel, ChannelLock, ChannelAttach, wireVars, handVars

(* No step loses a join.                                                   *)
LEMMA KeptStep ==
  ASSUME TypeOK, OwnerInv, StageInv, HandInv, Next, Undisturbed', Undisturbed, OnlyOne,
         NEW p \in Players, Kept(inbox[1], hand[1], clients[p], offers, player[p], p)
  PROVE  Kept(inbox[1], hand[1], clients[p], offers, player[p], p)'
  <1>. DEFINE join == [type |-> "join", from |-> p]
              Now == Kept(inbox[1], hand[1], clients[p], offers, player[p], p)
  <1>0. /\ 1 \in Gens /\ inbox[1] \in Seq(Messages) /\ inbox \in [Gens -> Seq(Messages)]
        /\ hand[1] = Idle \/ (hand[1].at # "idle" /\ hand[1].for \in Players)
        /\ clients \in [Players -> 0 .. Starts]
        /\ player[p] \in {"out", "joined", "offered", "answered", "connected"}
        /\ DOMAIN hand = Gens /\ DOMAIN player = Players
    <2>1. 1 \in Gens
      BY LifeAssumption DEF Gens
    <2>. QED
      BY <2>1 DEF TypeOK, WireType, HandType
  <1>1. CASE UNCHANGED <<inbox, hand, clients, offers, player>>
    BY <1>1
  <1>2. CASE StopCleared \/ Destroy
    BY <1>2, UndisturbedBefore DEF StopCleared, Destroy
  <1>3. ASSUME NEW g \in Gens, Lookup(g) PROVE Now'
    <2>1. g = 1
      BY <1>3, FirstOnly DEF Lookup
    <2>. DEFINE m == Head(inbox[1])
    <2>2. /\ inbox[1] # <<>> /\ hand[1].at = "idle"
          /\ inbox'[1] = Tail(inbox[1])
          /\ UNCHANGED <<clients, offers>>
          /\ player'[p] = player[p] \/ (clients[p] # 0 /\ player'[p] = "connected")
          /\ m = join => player'[p] = player[p]
          /\ hand' = IF clients[m.from] = 0 /\ m.type = "join"
                       THEN [hand EXCEPT ![1] = [at |-> "making", for |-> m.from]] ELSE hand
      BY <1>0, <1>3, <2>1 DEF Lookup, At
    <2>3. m = join <=> m.type = "join" /\ m.from = p
      BY <2>2, Message, <1>0 DEF Messages
    <2>4. Once(inbox[1], p)
      BY DEF Kept
    <2>. DEFINE box == inbox[1]
    <2>5. /\ Once(Tail(box), p)
          /\ Head(box) = join => Has(box, p) /\ ~Has(Tail(box), p)
          /\ Head(box) # join => (Has(Tail(box), p) <=> Has(box, p))
      <3>1. box \in Seq(Messages) /\ box # <<>> /\ Once(box, p)
        BY <1>0, <2>2, <2>4
      <3>. HIDE DEF box
      <3>. QED
        BY <3>1, JoinTaken
    <2>6. /\ Once(inbox'[1], p)
          /\ m = join => Has(inbox[1], p) /\ ~Has(inbox'[1], p)
          /\ m # join => (Has(inbox'[1], p) <=> Has(inbox[1], p))
      BY <2>2, <2>5
    <2>. HIDE DEF m
    <2>7. CASE m = join
      <3>1. hand'[1] = [at |-> "making", for |-> p]
        BY <1>0, <2>2, <2>3, <2>6, <2>7 DEF Kept
      <3>. QED
        BY <2>2, <2>6, <2>7, <3>1 DEF Kept, Busy
    <2>8. CASE m # join
      <3>1. ~Busy(hand'[1], p) /\ ~Busy(hand[1], p)
        BY <1>0, <2>2, <2>3, <2>8 DEF Busy
      <3>2. ~(hand[1].for = p /\ hand[1].at = "making")
        BY <2>2
      <3>. QED
        BY <2>2, <2>6, <2>8, <3>1, <3>2 DEF Kept
    <2>. QED
      BY <2>7, <2>8
  <1>4. ASSUME NEW g \in Gens, Make(g) \/ Lock(g) \/ Store(g) \/ Find(g) PROVE Now'
    <2>1. hand[g] # Idle
      BY <1>4 DEF Make, Lock, Store, Find, At, Idle
    <2>2. g = 1 /\ current = 1
      BY <2>1, FirstOnly, AtWork DEF OnlyOne
    <2>3. UNCHANGED <<inbox, player>>
      BY <1>4 DEF Make, Lock, Store, Find, wireVars
    <2>4. CASE Make(g)
      BY <1>0, <2>2, <2>3, <2>4 DEF Make, At, Kept, Busy
    <2>5. CASE Lock(g)
      BY <1>0, <2>2, <2>3, <2>5 DEF Lock, At, Kept, Busy
    <2>6. CASE Store(g)
      BY <1>0, <2>2, <2>3, <2>6 DEF Store, At, Kept, Busy
    <2>7. CASE Find(g)
      BY <1>0, <2>2, <2>3, <2>7 DEF Find, At, Kept, Busy, Idle
    <2>. QED
      BY <1>4, <2>4, <2>5, <2>6, <2>7
  <1>5. ASSUME NEW q \in Players, NEW g \in 0 .. Starts, SendOffer(q, g) PROVE Now'
    <2>1. g = 1 /\ holder = 1
      BY <1>5 DEF SendOffer, OnlyOne
    <2>2. /\ <<q, 1>> \in offers /\ offers' = offers \ {<<q, 1>>}
          /\ player' = [player EXCEPT ![q] = "offered"]
          /\ UNCHANGED <<inbox, hand, clients>>
      BY <1>5, <2>1 DEF SendOffer
    <2>3. CASE q = p
      <3>1. player'[p] = "offered" /\ player[p] # "out"
        BY <1>0, <2>2, <2>3 DEF Kept
      <3>. QED
        BY <2>2, <3>1 DEF Kept
    <2>4. CASE q # p
      <3>1. player'[p] = player[p] /\ (<<p, 1>> \in offers' <=> <<p, 1>> \in offers)
        BY <2>2, <2>4
      <3>. QED
        BY <2>2, <3>1 DEF Kept
    <2>. QED
      BY <2>3, <2>4
  <1>6. ASSUME NEW q \in Players, PlayerSends(q) PROVE Now'
    <2>1. holder = 1
      BY <1>6 DEF PlayerSends, OnlyOne
    <2>2. PICK m \in Messages :
            /\ inbox' = [inbox EXCEPT ![1] = Append(@, m)]
            /\ m.from = q /\ m = [type |-> m.type, from |-> m.from]
            /\ \/ m.type = "join" /\ player[q] = "out" /\ player' = [player EXCEPT ![q] = "joined"]
               \/ /\ m.type = "answer" /\ player[q] = "offered"
                  /\ player' = [player EXCEPT ![q] = "answered"]
      <3>1. CASE player[q] = "out" /\ Deliver("join", q) /\ player' = [player EXCEPT ![q] = "joined"]
        <4>1. [type |-> "join", from |-> q] \in Messages
          BY DEF Messages
        <4>. QED
          BY <2>1, <4>1, <3>1 DEF Deliver
      <3>2. CASE /\ player[q] = "offered" /\ Deliver("answer", q)
                 /\ player' = [player EXCEPT ![q] = "answered"]
        <4>1. [type |-> "answer", from |-> q] \in Messages
          BY DEF Messages
        <4>. QED
          BY <2>1, <4>1, <3>2 DEF Deliver
      <3>. QED
        BY <1>6, <3>1, <3>2 DEF PlayerSends
    <2>3. inbox'[1] = Append(inbox[1], m) /\ UNCHANGED <<hand, clients, offers>>
      BY <1>0, <1>6, <2>2 DEF PlayerSends, handVars
    <2>4. m = join <=> (m.type = "join" /\ q = p)
      BY <2>2
    <2>5. /\ Has(inbox'[1], p) <=> (Has(inbox[1], p) \/ m = join)
          /\ Once(inbox[1], p) /\ ~(Has(inbox[1], p) /\ m = join) => Once(inbox'[1], p)
      BY <1>0, <2>3, JoinAppended
    <2>6. CASE m = join
      <3>1. player[p] = "out" /\ player'[p] = "joined"
        BY <1>0, <2>2, <2>4, <2>6
      <3>. QED
        BY <2>3, <2>5, <2>6, <3>1 DEF Kept
    <2>7. CASE m # join
      <3>1. \/ player'[p] = player[p]
            \/ player[p] = "offered" /\ player'[p] = "answered"
        BY <1>0, <2>2, <2>4, <2>7
      <3>. QED
        BY <2>3, <2>5, <2>7, <3>1 DEF Kept
    <2>. QED
      BY <2>6, <2>7
  <1>. QED
    BY Steps, <1>1, <1>2, <1>3, <1>4, <1>5, <1>6, Zenon
    DEF Start, Stop, StopJoined, Assign, OpenSocket, WaitEnds, LoopEnds, OnOpen, OnError,
        OnClosed, OpenChannel, ChannelLock, ChannelAttach, wireVars, handVars

LEMMA KeptInvStep ==
  ASSUME TypeOK, OwnerInv, StageInv, HandInv, KeptInv, Next
  PROVE  KeptInv'
  <1>. SUFFICES ASSUME Undisturbed'
                PROVE  /\ OnlyOne'
                       /\ \A p \in Players : Kept(inbox[1], hand[1], clients[p], offers, player[p], p)'
    BY Zenon DEF KeptInv
  <1>1. Undisturbed
    BY UndisturbedBefore
  <1>2. OnlyOne /\ \A p \in Players : Kept(inbox[1], hand[1], clients[p], offers, player[p], p)
    BY <1>1 DEF KeptInv
  <1>. QED
    BY <1>1, <1>2, OnlyOneStep, KeptStep
-----------------------------------------------------------------------------
LEMMA Inductive == IInv /\ [Next]_vars => IInv'
  <1>. SUFFICES ASSUME IInv, [Next]_vars PROVE IInv'
    OBVIOUS
  <1>1. CASE Next
    BY <1>1, TypeStep, OwnerStep, StageStep, HandStep, OfferStep, DanglingStep,
       SafeStep, SoleInvStep, FindsStep, KeptInvStep
    DEF IInv
  <1>2. CASE UNCHANGED vars
    BY <1>2
    DEF vars, ownerVars, netVars, wireVars, handVars, IInv, TypeOK, OwnerType, NetType,
        WireType, HandType, MutexExact, OwnerInv, ThreadJoined, StageInv, HandInv,
        OfferInv, DanglingOnlyLate, SafeWhileRunning, FindsEntry, At,
        SoleInv, KeptInv, Undisturbed, OnlyOne
  <1>. QED
    BY <1>1, <1>2

(* The inductive invariant holds throughout.                               *)
THEOREM Invariance == Spec => []IInv
  BY Initially, Inductive, PTL DEF Spec

(* Types, and the mutex has one holder at most: the handler, the owner or  *)
(* the data channel's callback whose lock_guard is in scope                *)
(* (network_server.cpp:31, 188, 252).                                      *)
THEOREM TypeCorrect == Spec => []TypeOK
  <1>1. IInv => TypeOK
    BY DEF IInv
  <1>. QED
    BY <1>1, Invariance, PTL

(* stop joins: no network thread runs in a server that is stopped or gone, *)
(* whatever number of times it is started (network_server.cpp:15-33).      *)
THEOREM ThreadsJoined == Spec => []ThreadJoined
  <1>1. IInv => ThreadJoined
    BY DEF IInv
  <1>. QED
    BY <1>1, Invariance, PTL

(* The unlocked reads of network_server.cpp:112 and 162 race with nothing  *)
(* in a server that was started once and not stopped.                      *)
THEOREM RunningIsSafe == Spec => []SafeWhileRunning
  <1>1. IInv => SafeWhileRunning
    BY DEF IInv
  <1>. QED
    BY <1>1, Invariance, PTL

(* Only a timed-out wait leaves a callback with a dead promise             *)
(* (network_server.cpp:44-53, 83).                                         *)
THEOREM DanglingIsLate == Spec => []DanglingOnlyLate
  <1>1. IInv => DanglingOnlyLate
    BY DEF IInv
  <1>. QED
    BY <1>1, Invariance, PTL

(* The second look-up of network_server.cpp:122 never finds a connection   *)
(* of another start's handler, and misses its own only after a stop.       *)
THEOREM EntryFound == Spec => []FindsEntry
  <1>1. IInv => FindsEntry
    BY DEF IInv
  <1>. QED
    BY <1>1, Invariance, PTL

(* No join is lost between the relay, the handler, the callback that sends *)
(* the offer and m_clients, whatever the network thread and the owner do   *)
(* meanwhile, for every number of players: the safety that JoinAnswered    *)
(* rests on (network_server.cpp:97-131, 159-180, 250-255).                 *)
THEOREM JoinsKept == Spec => []JoinKept
  <1>1. IInv => JoinKept
    <2>. SUFFICES ASSUME IInv, starts = 1, running, sock[1] # "closed", NEW p \in Players
                  PROVE  /\ player[p] = "joined" =>
                              Waiting(p) \/ InWork(p, {"making"}) \/ <<p, 1>> \in offers
                         /\ player[p] # "out" =>
                              \/ Waiting(p) \/ InWork(p, {"making", "storing", "locked"})
                              \/ clients[p] = 1
      BY DEF JoinKept
    <2>1. Kept(inbox[1], hand[1], clients[p], offers, player[p], p)
      BY DEF IInv, KeptInv, Undisturbed
    <2>. QED
      BY <2>1 DEF Kept, Has, Busy, Waiting, InWork, At
  <1>. QED
    BY <1>1, Invariance, PTL
=============================================================================
