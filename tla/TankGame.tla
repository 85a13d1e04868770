------------------------------- MODULE TankGame -------------------------------
(***************************************************************************)
(* The game simulation: Game (game.cpp) over the systems of                *)
(* tank_systems.h, an entity registry with one storage per component.      *)
(*                                                                         *)
(* step and queueInput hold the state mutex and the other operations run   *)
(* on the thread that calls them, so each operation is one step here.      *)
(* Geometry is abstract: which bullet is in range of which target in a     *)
(* tick, and which collectible a tank reaches, is any choice, except that  *)
(* destructibles do not move and one bullet reaches those of one site at a *)
(* time.  Nothing pushes entities apart, and spawnDestructible may put one *)
(* where another stands, so a bullet can be in range of several targets.   *)
(*                                                                         *)
(* Peer ids are 64-bit, but InputSystem::apply and SpawnSystem::process    *)
(* take them as uint32_t: Low is that conversion.                          *)
(***************************************************************************)
EXTENDS Naturals, FiniteSetsExt

CONSTANTS
  Entities,      \* entity ids of the registry
  PeerIDs,       \* the 64-bit peer ids in use
  LowWord,       \* 2^32, the values of a uint32_t
  Lifetime,      \* Bullet::lifetime * 60, in ticks
  Collectibles0, \* the entities setupInitialGameState makes collectibles
  Destructibles0,\* and destructibles, each at the site of its name
  Sites,         \* positions of destructibles, out of range of each other
  MaxTick        \* bound on tickCount

ASSUME GameAssumption ==
  /\ IsFiniteSet(Entities)
  /\ PeerIDs \subseteq Nat
  /\ LowWord \in Nat \ {0}
  /\ Lifetime \in Nat \ {0}
  /\ Collectibles0 \subseteq Entities
  /\ Destructibles0 \subseteq (Entities \ Collectibles0) \cap Sites
  /\ MaxTick \in Nat

VARIABLES
  tickCount,     \* GameState::tickCount
  tanks,         \* Tank storage: entity -> peer id as stored, and as asked for
  bullets,       \* Bullet storage: entity -> owner, spawn tick, tick of creation
  collectibles,  \* Collectible storage: entity -> active
  destructibles, \* Destructible storage: entity -> health, active, site
  faulted,       \* an entity that is not there was destroyed (undefined)
  input          \* the input this step applied, with the tanks it steered

vars == <<tickCount, tanks, bullets, collectibles, destructibles, faulted, input>>

(* Fault: the id is kept as it is.                                         *)
WideLow(peerId) == peerId

Low(peerId) == peerId % LowWord
MaxHealth == 100
Damage == 25
NoInput == [peerId |-> 0, shoot |-> FALSE, steered |-> {}]

Live == DOMAIN tanks \cup DOMAIN bullets \cup DOMAIN collectibles
          \cup DOMAIN destructibles
Free == Entities \ Live

(* Storage with the entries of new added, and without the entities gone.   *)
With(storage, new) ==
  [e \in DOMAIN storage \cup DOMAIN new |->
     IF e \in DOMAIN new THEN new[e] ELSE storage[e]]
Without(storage, gone) == [e \in DOMAIN storage \ gone |-> storage[e]]

Empty == [e \in {} |-> {}]
NewDestructible(site) == [health |-> MaxHealth, active |-> TRUE, site |-> site]
-----------------------------------------------------------------------------
Init ==
  /\ tickCount = 0
  /\ tanks = Empty
  /\ bullets = Empty
  /\ collectibles = [e \in Collectibles0 |-> TRUE]
  /\ destructibles = [e \in Destructibles0 |-> NewDestructible(e)]
  /\ faulted = FALSE
  /\ input = NoInput

SpawnTank(peerId) ==
  /\ \E e \in Free :
       tanks' = With(tanks, [x \in {e} |->
                  [peerId |-> Low(peerId), spawnedFor |-> peerId]])
  /\ input' = NoInput
  /\ UNCHANGED <<tickCount, bullets, collectibles, destructibles, faulted>>

(* A bullet spawned this way has spawn tick 0, whatever the tick.          *)
SpawnBullet(peerId) ==
  /\ \E e \in Free :
       bullets' = With(bullets, [x \in {e} |->
         [ownerPeerId |-> Low(peerId), spawnTick |-> 0, born |-> tickCount]])
  /\ input' = NoInput
  /\ UNCHANGED <<tickCount, tanks, collectibles, destructibles, faulted>>

SpawnCollectible ==
  /\ \E e \in Free : collectibles' = With(collectibles, [x \in {e} |-> TRUE])
  /\ input' = NoInput
  /\ UNCHANGED <<tickCount, tanks, bullets, destructibles, faulted>>

SpawnDestructible(site) ==
  /\ \E e \in Free :
       destructibles' = With(destructibles, [x \in {e} |-> NewDestructible(site)])
  /\ input' = NoInput
  /\ UNCHANGED <<tickCount, tanks, bullets, collectibles, faulted>>

DestroyEntity(e) ==
  /\ e \in Live
  /\ tanks' = Without(tanks, {e})
  /\ bullets' = Without(bullets, {e})
  /\ collectibles' = Without(collectibles, {e})
  /\ destructibles' = Without(destructibles, {e})
  /\ input' = NoInput
  /\ UNCHANGED <<tickCount, faulted>>

(* InputSystem::apply and ShootSystem::process pick their tanks apart: one *)
(* compares with the narrowed id, the other with the full one.             *)
Steers(e, peerId) == tanks[e].peerId = Low(peerId)

(* Fault: any tank answers to a shot.                                      *)
OpenShoots(e, peerId) == tanks[e].peerId >= 0

Shoots(e, peerId) == tanks[e].peerId = peerId

QueueInput(peerId, shoot) ==
  LET shooters == {e \in DOMAIN tanks : shoot /\ Shoots(e, peerId)} IN
  /\ \E shells \in SUBSET Free :
       /\ Cardinality(shells) = Cardinality(shooters)
       /\ bullets' = With(bullets, [e \in shells |->
            [ownerPeerId |-> peerId, spawnTick |-> tickCount, born |-> tickCount]])
  /\ input' = [peerId |-> peerId, shoot |-> shoot,
               steered |-> {e \in DOMAIN tanks : Steers(e, peerId)}]
  /\ UNCHANGED <<tickCount, tanks, collectibles, destructibles, faulted>>

(* Fault: expiry one tick late.                                            *)
LateExpired(tick) == {e \in DOMAIN bullets : tick - bullets[e].spawnTick > Lifetime}

(* The bullets that ShootSystem::update removes at a tick.                 *)
Expired(tick) == {e \in DOMAIN bullets : tick - bullets[e].spawnTick >= Lifetime}

StruckBy(hits, e) == {b \in DOMAIN bullets : <<b, e>> \in hits}
TargetsOf(hits, b) == {h \in hits : h[1] = b}
OneSiteEach(hits) ==
  \A g, h \in hits : g[1] = h[1] => destructibles[g[2]].site = destructibles[h[2]].site

(* Fault: a destructible that goes down in a tick keeps taking hits in it. *)
OverkillHits(flying) ==
  {hits \in SUBSET (flying \X DOMAIN destructibles) :
     /\ OneSiteEach(hits)
     /\ \A e \in DOMAIN destructibles :
          StruckBy(hits, e) # {} => destructibles[e].active}

(* Bullet against destructible.  One that is inactive takes no hit, and a  *)
(* hit may make it inactive for the bullets after it in the same tick.     *)
DestructibleHits(flying) ==
  {hits \in SUBSET (flying \X DOMAIN destructibles) :
     /\ OneSiteEach(hits)
     /\ \A e \in DOMAIN destructibles :
          /\ StruckBy(hits, e) # {} => destructibles[e].active
          /\ Cardinality(StruckBy(hits, e)) * Damage <= destructibles[e].health}

(* Bullet against the tanks of other peers.                                *)
TankHits(flying) ==
  SUBSET {h \in flying \X DOMAIN tanks :
            bullets[h[1]].ownerPeerId # tanks[h[2]].peerId}

(* Fault: collided bullets fly on.                                         *)
PiercingCollided(hits) == {}

Collided(hits) == {h[1] : h \in hits}

Hit(e, hits) ==
  LET health == destructibles[e].health - Damage * Cardinality(StruckBy(hits, e))
  IN  [health |-> health, active |-> destructibles[e].active /\ health > 0,
       site |-> destructibles[e].site]

(* Game::step.  MovementSystem only moves tanks.  A bullet is entered in   *)
(* bulletsToRemove once for every target it hit and destroyed as often.    *)
Step ==
  LET tick == tickCount + 1
      flying == DOMAIN bullets \ Expired(tick)
  IN
  /\ tickCount < MaxTick
  /\ tickCount' = tick
  /\ \E onTargets \in DestructibleHits(flying), onTanks \in TankHits(flying) :
       LET hits == onTargets \cup onTanks IN
       /\ destructibles' = [e \in DOMAIN destructibles |-> Hit(e, onTargets)]
       /\ bullets' = Without(bullets, Expired(tick) \cup Collided(hits))
       /\ faulted' = \E b \in flying : Cardinality(TargetsOf(hits, b)) > 1
  /\ \E taken \in SUBSET DOMAIN collectibles :
       /\ DOMAIN tanks = {} => taken = {}
       /\ collectibles' = [e \in DOMAIN collectibles |->
                             collectibles[e] /\ e \notin taken]
  /\ input' = NoInput
  /\ UNCHANGED tanks

(* Nothing is promised once an entity was destroyed twice: the registry's  *)
(* assertion stops a debug build, a release build goes on with a registry  *)
(* in an unknown state.                                                    *)
Next ==
  /\ ~faulted
  /\ \/ \E peerId \in PeerIDs : SpawnTank(peerId) \/ SpawnBullet(peerId)
     \/ SpawnCollectible
     \/ \E site \in Sites : SpawnDestructible(site)
     \/ \E e \in Entities : DestroyEntity(e)
     \/ \E peerId \in PeerIDs, shoot \in BOOLEAN : QueueInput(peerId, shoot)
     \/ Step

Spec == Init /\ [][Next]_vars
-----------------------------------------------------------------------------
(* The storages hold well-formed components, and a bullet is nothing else. *)
TypeOK ==
  /\ tickCount \in 0 .. MaxTick
  /\ tanks \in [DOMAIN tanks -> [peerId : 0 .. LowWord - 1, spawnedFor : PeerIDs]]
  /\ bullets \in [DOMAIN bullets ->
                   [ownerPeerId : Nat, spawnTick : Nat, born : Nat]]
  /\ collectibles \in [DOMAIN collectibles -> BOOLEAN]
  /\ destructibles \in [DOMAIN destructibles -> [health : Int, active : BOOLEAN, site : Sites]]
  /\ faulted \in BOOLEAN
  /\ Live \subseteq Entities
  /\ DOMAIN bullets \cap (DOMAIN tanks \cup DOMAIN collectibles
                            \cup DOMAIN destructibles) = {}

(* A destructible is active exactly while it has health, and its health is *)
(* never negative, however many bullets arrive in one tick                 *)
(* (tank_systems.h:101-114).                                               *)
HealthExact ==
  \A e \in DOMAIN destructibles :
    /\ destructibles[e].health \in {0, 25, 50, 75, 100}
    /\ destructibles[e].active <=> destructibles[e].health > 0

(* No bullet is older than its lifetime, and no spawn tick lies in the     *)
(* future, where the unsigned age would wrap around (tank_systems.h:82).   *)
BulletsExpire ==
  \A b \in DOMAIN bullets :
    /\ bullets[b].spawnTick <= bullets[b].born
    /\ bullets[b].born <= tickCount
    /\ tickCount - bullets[b].born < Lifetime

(* Damage is paid for: a destructible loses in a tick no more than the     *)
(* bullets that leave the game in that tick account for, so no bullet      *)
(* strikes the same target twice (tank_systems.h:101-114, 140-143).        *)
DamagePaid ==
  [][\A e \in DOMAIN destructibles \cap DOMAIN destructibles' :
       LET lost == destructibles[e].health - destructibles'[e].health
       IN  lost <= Damage * Cardinality(DOMAIN bullets \ DOMAIN bullets')]_vars

(* An input fires only from tanks that it also steers, and from all of     *)
(* them when the peer's id fits 32 bits, although the two systems compare  *)
(* ids of different width (tank_systems.h:35-37, 55-59, 150-157).          *)
ShootersSteer ==
  [][LET fired == Cardinality(DOMAIN bullets' \ DOMAIN bullets) IN
     input'.shoot =>
       /\ fired <= Cardinality(input'.steered)
       /\ input'.peerId < LowWord => fired = Cardinality(input'.steered)]_vars

(* Not so in this code.  "Remove collided bullets" (tank_systems.h:140): a *)
(* collided bullet is removed once.                                        *)
NoDoubleDestroy == ~faulted

(* Not so in this code.  "applies input to tank velocity", "handles        *)
(* shooting" (tank_systems.h:32, 52): the input of a peer that has a tank  *)
(* steers its tanks and no others, and a shot appears if it asks for one.  *)
InputReachesOwnTank ==
  [][LET own == {e \in DOMAIN tanks : tanks[e].spawnedFor = input'.peerId} IN
     input'.shoot /\ own # {} =>
       /\ input'.steered = own
       /\ \E b \in DOMAIN bullets' \ DOMAIN bullets :
            bullets'[b].ownerPeerId = input'.peerId]_vars
=============================================================================
