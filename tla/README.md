# io-game-framework: specifications and proofs

TLA+ models of the game framework in this repository, the TLC configurations
that check them on small instances, and proofs for TLAPS. Source paths below
are relative to the repository; `main.go` is `signalling-server/main.go`, and the
C++ files are under `game/src/`.

## 1. The system

| Component | State | Operations | Talks to |
|---|---|---|---|
| Signalling relay (`main.go`) | `PeerManager`: `peers`, `servers`, `maxConns`, under one mutex; per connection: id from the path, `registered`, the handler's place in its loop | upgrade, register, relay offer/answer/candidate/join, ping, teardown, shutdown; `/stats`, `/servers`, `/health` read only | game clients and servers over websockets |
| `NetworkClient` | random id, websocket, one peer connection | `connect`, message handler, library callbacks, `disconnect` | the relay; the server's data channels |
| `NetworkServer` | id 12345, websocket, `m_clients` under a mutex, network thread | `start`, `stop`, message handler, `createClientConnection`, callbacks | the relay; each client's data channels |
| `Game` and systems (`game.cpp`, `tank_systems.h`) | tick count, an entity registry with tanks, bullets, collectibles, destructibles, under a mutex | `step`, `queueInput`, `spawn*`, `destroyEntity` | called by the instances' main loops |
| `ServerInstance` | game, network server, kill flag, time accounting | `run`, `stop` | `Game`, `NetworkServer` |
| `ClientInstance` | game, network client, renderer, time accounting | `run`, input, drawing | `Game`, `NetworkClient` |
| `StateEventRegistry`, `StateEvent` | table of functions | register, invoke | nothing uses them |
| Renderer, debug drawing, build, containers | - | - | - |

The shipped client's `main` builds `ClientInstance{true}`, a local game, for
which `run` does not call `connect`; the join protocol runs in a
`ClientInstance{false}`. The network server sends nothing of the game's state
yet: the tick of its loop is a TODO. `docs/netcode.md` is a design, not code.

### What is hard, and what makes each part correct

*Relay.* Each handler is a goroutine. Only the `PeerManager` methods are atomic:
a relayed message is Get, GetRole and WriteMessage with everything else in
between, on a `PeerInfo` that may have left the table. Correct means: the
handlers' flags and the table agree, the list is exactly the servers, the cap
holds, no message goes from client to client by the roles at the moment of the
write, an entry is removed by its owner only, and the peers that are gone leave.

*Join protocol.* Three processes, a library thread that sends the offer while
the handler that made the connection is still running, a promise on a stack
that a late callback may outlive, a server that restarts under the id of its
dead predecessor. Correct means: no message comes before what it needs, offers
and answers belong to the same run of the server, and a join leads to a
negotiated connection if both sides stay.

*Life of a `NetworkServer`.* Several threads: the owner's, the network thread of
each start, and the library's, which call the handler of each start's
websocket and the `onDataChannel` callback of each connection. Nothing closes a
websocket, so a stopped, restarted or destroyed server still has handlers; their
reads of `m_clients` and `m_signallingWebsocket` take no lock, and three places take `m_clientsMutex`, one of them while it
destroys connections whose callbacks may be waiting for it. Correct means: in a
server started once and running nothing is undefined and every join gets its
connection; a handler never goes on with the connection that another one made;
stop leaves no thread behind and returns.

*Loops.* One step per iteration while time that passed is owed. Correct means: a
loop that fell behind catches up when its iterations leave time over, and none
stops stepping.

*Game.* Several bullets per target and several targets per bullet in a tick;
ids of two widths; unsigned ages. Correct means: health is exact, bullets
expire, damage is paid for with bullets, an input acts on its own tank.

`PROJECT.json` lists every hazard at its line with the properties aimed at it.

## 2. Modules

| Module | Models | Lines |
|---|---|---|
| `SignallingContract` | what the relay promises: members with roles, the public list, delivery only between members and never between clients | abstract |
| `SignallingServer` | `main.go` in full detail | `main.go` |
| `JoinProtocol` | clients, runs of the game server and a coarser relay, joined by FIFO wires | `network_client.cpp`, `network_server.cpp`, `main.go` |
| `NetworkServerLife` | start, stop and the destructor of `NetworkServer` against its threads and handlers | `network_server.cpp` |
| `GameLoops` | the time accounting of the three loops | `server_instance.cpp`, `client_instance.cpp`, `network_server.cpp` |
| `TankGame` | `Game` and its systems | `game.cpp`, `tank_systems.h` |
| `MC*` | constants and symmetry sets for TLC, where a cfg alone does not do | |
| `SequenceLemmas` | what appending to and removing from a list does to its elements | |
| `PipelineLemmas` | three FIFO queues in a row: a description in one place at most, no candidate ahead of it, and how many candidates are in them | |
| `SignallingServerProofs`, `JoinProtocolProofs`, `JoinOrderProofs`, `NetworkServerLifeProofs`, `GameLoopsProofs`, `TankGameProofs` | the theorems | |

The modules meet at three points. `SignallingServer` and the relay inside
`JoinProtocol` both implement `SignallingContract`. `JoinProtocol` has a
`NetworkServer` that was started once and runs; what may happen around start, stop and
the destructor is `NetworkServerLife`, whose `SafeWhileRunning` is the reason why
`JoinProtocol` may treat a handler's reads as well defined. A step in `GameLoops` is
a `Step` of `TankGame`.

Operators whose comment starts with "Fault:" or "Faults:" are versions of the operator after
them with one slip (a dropped guard, an off-by-one, a missing reset). No
specification uses them: substituting one for its original must break the
property it is paired with in `PROJECT.json`, which shows that the property
depends on that line of the code.

### SignallingServer

`pc[c]` is the place of connection `c`'s handler: `read` (in ReadMessage), `role`
(between Get and GetRole), `write` and `writing` (before and inside
WriteMessage), `closing` (about to run the deferred function), `none` (no
handler). `job[c]` is the message in hand with the `PeerInfo` that Get returned.
`sock[c]` tells a live websocket from one whose peer is gone and from one that
was closed here. Every `PeerManager` method is one step because it holds the
mutex throughout. WriteMessage is two steps so that two of them on one connection
can overlap (`overlap`): then the frame may be lost or the second writer may
panic, which net/http recovers after the deferred function. A failed write ends
the handler of the *sender*. The shutdown goroutine closes the registered
connections and leaves the table alone; then `main` returns. Messages that the
handler drops change nothing and are stuttering steps. Closing an id's connection
name for reuse waits until no handler holds a pointer to it: a new connection is
a new object in the code.

`frame` is what the step delivers. `ImplementsContract` maps the roles in the
table and the set of its list to `SignallingContract`.

### JoinProtocol

`up[p]` and `down[p]` are the websocket of peer `p`; `entry` is the relay's table. A run
of the game server is a process with the fixed id; a run starts when the one
before is gone, which the relay may not have noticed. `waiting[p]` is the life
of the promise on the stack of `startSignallingWebsocket`: `OnOpen` after
its end is undefined behaviour, so the process survives or not. `storing[s]`
is the time from the creation of a peer connection, when the library begins to
call back, to the moment the entry is in `m_clients`. `misfits` collects
messages that a handler had no use for: no connection, or the library threw.
`Disconnect` is `NetworkClient::disconnect`: it closes the peer connection, if there is
one, and leaves the websocket with its handler, which makes a new connection of any
offer. Called before the offer it finds nothing to close and is forgotten: the
offer makes a connection all the same, and `JoinNegotiates` holds for such a client
as for any other. `closed` remembers, for the properties, the calls that closed a
connection; `DisconnectFinal` is about those.

The relay's handlers are one step per message here. `RelayKeepsContract` checks
this relay against the same contract the detailed one implements; `RelayLose`
(a garbled write) and `Leave` (a handler ended by a panic or a failed write)
bring in what the detailed model adds.

Assumed of libdatachannel: creating a data channel starts the negotiation at
once; the description callback comes before the candidate callbacks; messages
of a websocket are handled one at a time; the state becomes Open before onOpen
runs; `send` on a websocket that is not open throws; so do a candidate without a
remote description and a second answer.

### NetworkServerLife

`owner` is where the thread that owns the server is: it calls `Start` and `Stop`
(joining, then clearing `m_clients` under the mutex) and may `Destroy` the object.
A start has a number; `net[g]` is its network thread (`assigning` to
`m_signallingWebsocket`, `opening` the websocket, `waiting` on the promise,
`looping`), `promise[g]` its promise, `sock[g]` its websocket and
`hand[g]` the handler of that websocket, which is broken up where the code takes or
ought to take a lock: `making` (between the look-up and the callbacks' capture
of `m_signallingWebsocket`), `storing`, `locked`, `finding`. `channel[p]` is
the `onDataChannel` callback of player `p`'s connection, which the library calls on a
thread of its own: `waiting` for the mutex (line 188), `finding` the entry with
the mutex held, `done`. A player may open its channel once its answer was taken
(`connected`), and once only: that bound is needed because a `std::mutex` is not fair,
and callers without end could keep a handler from it. `lock` is the holder
of `m_clientsMutex`: a handler (line 252), the owner (31) or a callback (188).
`clients[p]` and `offers` name the websocket a
connection sends on. `holder` stands for the relay: the websocket it has under the
server's id; the first to register keeps it until it closes.

A callback that runs while `StopCleared` destroys its connection is not cut
short. Whether the connection's destructor waits for it is decided by
libdatachannel, which is not in the repository, and both are in the model: the step
`StopCleared` is always possible, but not fair while a callback of one of the
connections waits for the mutex that the owner holds (`ClearWaits`). In the
one outcome the callback comes after the clear, finds no entry, or an object that
was destroyed; in the other neither thread goes on.

Two things are undefined behaviour here. An unlocked read that overlaps a
write, or one of an object that was destroyed, sets `undefined`, and nothing moves
after it. A callback that meets a dead promise sets `dangling`, and the run goes
on as the survivable outcome; `JoinProtocol` has the other one.

### GameLoops

One iteration is one step: elapsed time, capped where the code caps it, is
added to `remainingTime`; if a step is due it is made and subtracted; the sleep
until the next is what `remainingTime` lacks. Time is in integer units
(`FixedTimestep` is 600 of them). The server's step is its scaled timestep
(`CurrentTimestep`), the ramp between the fixed one and nine tenths of the mean,
rounded up in favour of catching up, so a failure to catch up is not an artefact of
rounding. `Light` and `Heavy` are iterations without and with load. `usual` is what the
next iteration takes without load: for the client a frame of the screen its window
is on, since the target rate is that screen's refresh rate
(`client_instance.cpp:25-26, 60-63`) and drawing waits for it. Nothing says that a
frame is shorter than a timestep: at 60 Hz it is just as long, at 30 Hz twice.
`ChangeScreen` moves the window to a screen of another rate; it is a step of its own,
so that the fairness of the loop does not force it.
`ended` is set when the loop sees its kill flag.

### TankGame

Each storage of the registry is a function from its entities. Geometry becomes a
choice: in a tick, any set of (bullet, target) pairs that the code's guards
allow, with destructibles at fixed sites. `Low` is the conversion of a peer id to
`uint32_t`, `spawnedFor` remembers the id a tank was spawned for, and `born` the tick
in which a bullet was made; the last two exist for the properties only. Health is
in the code's own units; all its values are multiples of 25 below 2^24, so that
floats are exact. `faulted` is set when an entity is destroyed twice, after which
nothing is promised.

## 3. Runs

| Run | Instance | Shows |
|---|---|---|
| `signalling_safety` | 3 connections, 3 ids, cap 2, symmetry; 169 000 states | type, registration, list, cap, stale pointers, access control, ownership, refinement |
| `signalling_liveness` | 2 connections, 2 ids; 35 000 states | dead peers leave the table |
| `signalling_listed` | 2 connections | a failed write to a client evicts the server that wrote it |
| `signalling_forwarded` | 3 connections | a join is lost when two writers meet |
| `tank_safety` | 4 entities, peers 1, 2, 4 with `LowWord` 3 (4 narrows to 1), lifetime 2, 5 ticks; 429 000 states | health, expiry, damage, steering |
| `tank_double_destroy` | 2 destructibles and 2 more entities | a bullet with two targets is destroyed twice |
| `tank_wide_ids` | peers 1 and 3 with `LowWord` 2 | a wide id steers and cannot shoot |
| `join` | 1 client, 2 runs, 1 candidate each way; 201 000 states | type, pairing, order, completeness, disconnect, registration, contract, negotiation |
| `join_restart` | 1 client, 2 runs | a restarted server is refused for good |
| `server_life` | 2 players with a data channel each, 2 starts; 492 000 states | type and mutex, threads joined, safe while running, dead promise only after a timeout, second look-up, no join lost, stop returns, joins answered |
| `loops_pace` | all three loops, 2 slow iterations of 1.5 or 13 timesteps, frames at 144, 60 and 30 Hz; 20 000 states | all go on stepping; the network thread and the client gain in exactly the iterations that leave time over, and make up for every stall once all do |
| `loops_catch_up` | the server, 3 iterations of 20 timesteps | the server never catches up |

The bounds. Three connections are a sender, a target and one that
takes an id over or writes at the same time; a fourth adds no new relation. The
cap of two is met with three. Two destructible hits and one expiry need three
bullets or a tank; four entities give both. Four bullets on one destructible are
the most that matter for its health (100 / 25), which the proofs cover
for any number. Five ticks are two lifetimes. In the join runs messages are finite
by themselves: a client joins once, and the number of candidates is the only
bound; two runs are needed for a restart, and one client is enough for it, since
runs compete for an id and clients do not. Several clients at once are
covered by the proofs. `server_life` needs two starts, to have a handler of the
first at work under the second, and two players, to have one stored, or a data
channel opened, while the other joins. In the loop runs `Window` is 3 where the code has 20, with the
other constants in proportion 600 : 3600 : 72000 of 1/60 s : 0.1 s : 2 s;
`MaxHeavy` bounds the load, which has to end for a loop to catch up. `Frames` has a
length below, at and above the timestep, and the client may change between
them before every iteration. The longer of
the slow iterations, 8000, is more than two ticks of the network thread, which would
not fall behind by anything shorter than one.
`MaxBacklog` cuts `remainingTime` off, above what happens in
`loops_pace`; in `loops_catch_up` it only hides further growth. The window does
not decide that run: computed in floating point with the code's
window of 20, slow iterations of a third of a second as the 17th, 37th and 39th of
a loop whose other iterations take 1/180 s leave it behind for good too, one more
timestep every 30 iterations.

`CHECK_DEADLOCK FALSE` is set everywhere: the relay stops after a shutdown, the
game at `MaxTick` (a bound of the model), a loop at its kill flag, a server
when it is destroyed or something undefined happened, and peers may all leave.

The six violation runs state what a document or a comment of the repository says
and the code does not do; the findings in `PROJECT.json` quote the lines. They
are: a server loses its listing when a write to a client fails
(`main.go:273`); two writers on one websocket (`main.go:272`); a bullet destroyed
twice (`tank_systems.h:142`); 64-bit ids cut to 32 (`tank_systems.h:35, 150`);
a restarted
server refused in silence (`main.go:241`, `network_server.cpp:38`); a server
that fell far behind and never catches up (`server_instance.cpp:55`). A
seventh one, join before register after a timeout
(`network_client.cpp:22-25, 74-77`), is the exception that `RegisterFirst`
spells out: it shows, and proves, that there is no other.

### Fairness

*Relay* (`FairSpec` of `SignallingServer`): goroutines run, so each handler
step is weakly fair. A write to a live peer has no deadline in the code and nothing is
assumed of it: `DeadPeersLeave` has the exception in its statement. ReadMessage
returns the finitely many messages already received before it returns the error,
so ReadError is strongly fair. Nothing makes peers connect, send or leave.

*Join* (`FairSpec` of `JoinProtocol`): threads run, waits end (the code's
`wait_for` has a timeout), the relay handles what arrives. Nothing makes a
websocket open or a peer stay. `JoinNegotiates` therefore starts from a client
whose onOpen ran before its wait ended.

*Life* (`FairSpec` of `NetworkServerLife`): threads run, the wait has its limit, the
library calls what is due, a mutex that becomes free is taken. Nobody has
to start, stop or join; a websocket need not open or fail, and no channel be opened.
Clearing `m_clients` is fair except under `ClearWaits`, and `StopReturns` names that
exception: without it TLC shows stop waiting for a callback that waits for stop.
Nothing is promised after `undefined`, so each fairness condition is about a step
before it.

*Loops* (`FairSpec` of `GameLoops`): the thread runs. Load is not fair: `Heavy`
happens at most `MaxHeavy` times. Nothing makes a screen fast: `MakesUp` has
iterations that leave time over in its hypothesis, and is not about the server, whose
step depends on its window (`loops_catch_up`).

## 4. Proofs

For every value of the constants that satisfies the modules' assumptions.

*SignallingServerProofs.* The inductive invariant `IInv` is the type invariant,
`RegistrationExact`, `ServerListExact`, `StaleTargetsAreClosed` and the facts that a
handler relaying a message is registered. `ServerListExact` alone is not
inductive: removing the first occurrence leaves no second one only because the
list has no repetition, and the removal happens only because the table has the
role (`SequenceLemmas`). `StaleTargetsAreClosed` needs `RegistrationExact`: an entry
disappears in the step that closes its connection. `AccessControl` follows: the
role compared earlier is the role in the table now, or the connection is closed and
the write does not succeed. `Implementation` maps each step to a step of
the contract or a quiet one. `CapRespected` uses the cardinality theorems for finite
sets and only the assumption that `Ids` is finite.

*TankGameProofs.* `TypeOK`, `HealthExact` and `BulletsExpire` are inductive together.
Health needs that the bullets that strike are as many as health allows, a finite
cardinality; a bullet's age since creation is bounded because its spawn tick is
never later. `DamagePaid` and `ShootersSteer` are action properties proved from
the same invariant.

*NetworkServerLifeProofs.* The inductive invariant adds to the type
and the mutex what ties the threads together: only the newest start has a network
thread that is not ended, and only while the owner is running or joining
(`ThreadJoined`); a start that has not happened has no websocket, no handler and
no messages; `current` is set once a thread is past `assigning`.
`SafeWhileRunning` then follows because a handler only exists after its websocket
opened, which is after `current` was set, the only writer besides it is the owner
in `clearing`, and the third holder of the mutex writes nothing that a handler reads.

`FindsEntry` has no hypothesis on stop or on the number of starts, so it needs to know
what the handlers of all starts' websockets do for one player (`SoleInv`): the
player's join is in one inbox, once; while it waits there no handler serves the
player and there is no entry; one handler serves a player at a time, and finds no
entry until it stores its own. Then nobody but `StopCleared` can take away what was
stored, and none but stop puts the owner where an entry may be missing; a later
start only makes the handler's start an old one. `SoleAppended` and `SoleTaken` say
what a message appended to an inbox, or taken from it, does to that.

`JoinKept` is the safety that `JoinAnswered` rests on: a join is never nowhere. It is
not inductive. A second join of a player whose entry exists would be dropped by
the look-up, so `Kept` says that a player's join is in the inbox once at most, and
only while the player has no entry and no handler at work; a player that has not
joined has none of it; and `OnlyOne` says that the websocket captured is the one the
relay has, without which an offer would be sent to nobody. The hypothesis
(`Undisturbed`: started once at most, not stopped, its websocket not closed) is what
`JoinAnswered` excuses too, and `UndisturbedBefore` shows that no step brings it
back. `KeptInv` was checked with TLC in the instance of `server_life` first.

*GameLoopsProofs.* `TypeOK` rests on `Total`, a fold, being a number, and on its bounds,
so the module starts with induction. The induction theorems of the library take
an operator and cannot be used here, but `WFMin` takes sets: a set of naturals has a
least member (`LeastNatural`), so a set that has 0 and with n also n + 1 has them all
(`Inductive`). With it the recursive function behind the fold exists
(`SumsExist`, by induction on the size of its argument) and stays within its bounds
(`SumsBounds`, likewise). `TimestepBounds` follows: the server's step is positive, so
that a step always takes something off the backlog, and at most the fixed timestep
or the cap on an iteration.

`GainsGround` is the safety half of `MakesUp`. It says of the network thread and the
client, when they are late, that an iteration brings them closer to the present
exactly if it takes less than the step, and nothing is assumed about how long
iterations or frames are. Its invariant `PaceInv` says that a loop which is late
does not sleep: with a sleep, an iteration's elapsed time could exceed the step even
if its work does not. `CapAssumption` (a tick, 0.1 s, is no longer than the 2 s that
are made up for) is used for iterations that do not gain: were they cut off below a
tick, a slow one would gain after all. `SlowScreenStaysLate` is the other side: a
client whose screens are all of 60 Hz or less never makes up for a stall, for every
length of stall and step; once a timestep late it stays so until it ends.
`NetworkStepsEachTime` is the safety half of `KeepsStepping` for the network thread:
backlog and sleep together are always what a step takes, so every iteration but the
first makes one. Its hypotheses are those of the code (0.1 s is less than the limits
of 1 s and 2 s) and that `MaxBacklog`, a bound of the model, is no less than a tick.
`SteadyServerStays` is why the server is left out, and shows that the run
`loops_catch_up` is no accident of its numbers: four timesteps behind, the step is
nine tenths of the mean (rounded up), so it is at most the iteration's own
duration unless the window still holds longer ones, and the backlog does not shrink.

*JoinProtocolProofs.* The inductive invariant has four parts: the types; which
peers the messages on each wire can come from and belong to; what the remote
description of each side implies of the other; and that a client's join is in one
place only, on one wire or with one run of the server. `DescriptionsPaired` is not
inductive without the last: a join that reached two runs would give the client two
offers under one id. `RelayImplementsContract` maps `RelayRegister` to `Admit`,
the end of a connection to `Withdraw`, `RelayForward` to `Deliver` and the rest
to quiet steps, for any number of clients and runs. `RegistrationFirst` has an
invariant of its own on top (`GreetInv`): a peer that has not
registered has been sent nothing, because the relay forwards to ids in its
table, so it has nothing to answer.

*JoinOrderProofs.* `NoMisfits` and `DisconnectFinal` speak of the order of messages.
A connection between a run and a client has two pipelines, each of three queues:
what the sender's library has still to send, the sender's websocket and the
receiver's. A description is in one of them at most and not there any more once it
has arrived (`OneCopy`); while nothing is lost, no candidate is ahead of
it (`InOrder`). `PipelineLemmas` proves once what a step can do to a pipeline:
other messages move, the sender sends, the relay forwards, the receiver takes, a
wire loses something, the sender ends. `OfferStep` and `AnswerStep` show that
every action does one of these to the pipelines of every connection, whoever's action
it is (`OfferMoves`, `AnswerMoves`). `OrderInv` says so of all connections, each
with an excuse of its own (`Fine` fails: something was lost, its run is gone or its
client disconnected), so it is inductive although a lost offer does leave its
candidates in front. It rests on which parts of a connection exist together
(`ClientConnInv`, `EntryConnInv`), on one run being up at a time (`StartInv`), and
on a client and the run it asked being registered until they go
(`RegisteredInv`), all on top of the invariant of `JoinProtocolProofs`. The
conjunction was checked with TLC on one client and two runs before it was proved.
`NoMisfits` excuses more than that (`Good`: no run and no client at all), because the
answer to a run that is gone reaches the next run, which has the same id.
`NothingMisfits` follows because a candidate at its receiver has no description behind
it; `DisconnectIsFinal` because the one offer that could make a connection anew
has been taken by the connection that was closed.

The second half is about completeness. `NothingMissing` is the counterpart in which nothing may be
left over: a connection with nothing under way has both descriptions and
all candidates. The order alone does not give it, for a queue may be in order and
short of a message. So `WholeInv` counts: the candidates in the three queues of a
pipeline and those taken add up to `Candidates`, and the description is in a
queue or has been taken. Queues that are not lost keep the sum by
`PipelineLemmas` (`StaysWhole`), provided the receiver takes every candidate that
comes (`Arrival`); that it does not throw one away is where the order is needed
(`OfferArrives`, `AnswerArrives` use `OrderInv`). What starts a pipeline is the whole
of `Trickle`, and before that nothing was taken (`TakenInv`). `WholeInv` and
`TakenInv` were checked with TLC on one client, two runs and one candidate, and on one
client, one run and two candidates, before they were proved. The theorem does not
say that a connection ever has nothing under way; that is `JoinNegotiates`.

Model-checked only: liveness (`DeadPeersLeave`, `JoinNegotiates`, `StopReturns`,
`JoinAnswered`, `MakesUp`, `KeepsStepping`), which is out of the prover's reach, and
the violations. Every invariant and action property of a passing run is stated
by a theorem.

## 5. Not modelled

- Contents of descriptions and candidates, JSON and its errors, origin checks, TLS,
  logging. The HTTP endpoints are reads of `Members` and `GetServerList`.
- Positions, speeds, angles and drawing. `Renderer` reads the registry on the thread
  that steps the game.
- `StateEventRegistry`: nothing includes it, and `registerStateEventFunc` cannot be
  instantiated (it makes a `std::function` of the callable's own type).
- `docs/netcode.md`: nothing of it is implemented.
- Data channels (`network_client.cpp:160-197`, `network_server.cpp:183-248`) but for what
  the server's `onDataChannel` does under `m_clientsMutex`, which is in
  `NetworkServerLife`: the callbacks log, or send a greeting that is logged. No client
  in the repository opens the test channel that `onDataChannel` waits for; that one may
  is an external step of the model.
- What libdatachannel's destructors wait for: see `ClearWaits`.
- A second `connect`: nothing calls it twice. `disconnect` racing the handler
  thread on `m_connection`: `Disconnect` is between two messages.
- That `m_clients` never shrinks while the server runs (`network_server.h:51`):
  nothing in the repository says that it should, and nothing bounds it.

## 6. Plan

Done, in this order: the relay, its contract and their proofs; the join protocol;
the game and its proofs; the life of a `NetworkServer` and its proofs; the loops;
`disconnect`; the proofs of the join protocol, with the order of its
messages and with their number; the proofs about the loops, and that no join is
lost in a server that runs.

What is left, by what it would add:

1. `SignallingServer` in place of the relay of `JoinProtocol` in a small instance. The
   contract covers access and listing; the rest (a lost message, a failed write) is
   in `RelayLose` and `RelayFails` already.
2. Inputs queued per frame and applied per step in one model of `GameLoops` and
   `TankGame`.
