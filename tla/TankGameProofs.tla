---------------------------- MODULE TankGameProofs ----------------------------
(***************************************************************************)
(* Proofs about TankGame.  Its three invariants are inductive together:    *)
(* health stays in quarters because DestructibleHits lets no more bullets  *)
(* strike a destructible than its health allows, and a bullet's age is     *)
(* bounded because its spawn tick is never after its creation.             *)
(***************************************************************************)
EXTENDS TankGame, FiniteSetTheorems, TLAPS

(* Sets of entities are finite: the registry has finitely many.            *)
LEMMA EntitySets ==
  ASSUME NEW S \in SUBSET Entities
  PROVE  IsFiniteSet(S) /\ Cardinality(S) \in Nat
BY GameAssumption, FS_Subset, FS_CardinalityType

(* A storage that loses entries keeps the type and the value of the rest.  *)
LEMMA WithoutStorage ==
  ASSUME NEW s, NEW T, s \in [DOMAIN s -> T], NEW gone
  PROVE  /\ DOMAIN Without(s, gone) = DOMAIN s \ gone
         /\ \A e \in DOMAIN s \ gone : Without(s, gone)[e] = s[e]
         /\ Without(s, gone) \in [DOMAIN Without(s, gone) -> T]
BY DEF Without

(* The conversion to uint32_t.                                             *)
LEMMA LowWords ==
  ASSUME NEW p \in Nat
  PROVE  /\ Low(p) \in 0 .. LowWord - 1
         /\ p < LowWord => Low(p) = p
BY GameAssumption DEF Low

IInv == TypeOK /\ HealthExact /\ BulletsExpire

(* Components of the storages, by entity.                                  *)
TankType == [peerId : 0 .. LowWord - 1, spawnedFor : PeerIDs]
BulletType == [ownerPeerId : Nat, spawnTick : Nat, born : Nat]
DestructibleType == [health : Int, active : BOOLEAN, site : Sites]

(* What TypeOK says of the entities.                                       *)
Apart ==
  /\ Live \subseteq Entities
  /\ DOMAIN bullets \cap (DOMAIN tanks \cup DOMAIN collectibles
                            \cup DOMAIN destructibles) = {}

(* A storage typed by entity is a typed function.                          *)
LEMMA Typed ==
  ASSUME NEW s, NEW T, s = [e \in DOMAIN s |-> s[e]], \A e \in DOMAIN s : s[e] \in T
  PROVE  s \in [DOMAIN s -> T]
OBVIOUS

(* The initial states satisfy the invariant.                               *)
LEMMA InitInv == Init => IInv
<1> SUFFICES ASSUME Init PROVE IInv
  OBVIOUS
<1>1. TypeOK
  <2>1. tickCount \in 0 .. MaxTick
    BY GameAssumption DEF Init
  <2>7. faulted \in BOOLEAN
    BY Zenon DEF Init
  <2>2. tanks = Empty /\ bullets = Empty /\ DOMAIN Empty = {}
    <3>1. tanks = Empty /\ bullets = Empty
      BY Zenon DEF Init
    <3>2. DOMAIN Empty = {}
      BY Zenon DEF Empty
    <3> QED
      BY <3>1, <3>2
  <2>3. tanks \in [DOMAIN tanks -> TankType] /\ bullets \in [DOMAIN bullets -> BulletType]
    <3>1. Empty = [e \in DOMAIN Empty |-> Empty[e]]
      BY DEF Empty
    <3>2. \A e \in DOMAIN Empty : Empty[e] \in TankType /\ Empty[e] \in BulletType
      BY <2>2
    <3> QED
      BY <2>2, <3>1, <3>2, Typed
  <2>4. collectibles \in [DOMAIN collectibles -> BOOLEAN] /\ DOMAIN collectibles = Collectibles0
    BY Zenon DEF Init
  <2>5. /\ destructibles \in [DOMAIN destructibles -> DestructibleType]
        /\ DOMAIN destructibles = Destructibles0
    <3>1. \A x \in Destructibles0 : NewDestructible(x) \in DestructibleType
      BY GameAssumption DEF NewDestructible, MaxHealth, DestructibleType
    <3> QED
      BY <3>1 DEF Init
  <2> HIDE DEF TankType, BulletType, DestructibleType
  <2>6. Live \subseteq Entities
    BY <2>2, <2>4, <2>5, GameAssumption DEF Live
  <2> QED
    BY <2>1, <2>2, <2>3, <2>4, <2>5, <2>6, <2>7, Zenon
    DEF TypeOK, TankType, BulletType, DestructibleType
<1>2. HealthExact
  BY DEF Init, HealthExact, NewDestructible, MaxHealth
<1>3. BulletsExpire
  BY DEF Init, BulletsExpire, Empty
<1> QED
  BY <1>1, <1>2, <1>3 DEF IInv

(* The operations that add one entity to one storage keep the invariant:   *)
(* spawnTank.                                                              *)
LEMMA SpawnTankInv ==
  ASSUME IInv, NEW peerId \in PeerIDs, SpawnTank(peerId)
  PROVE  IInv'
<1> PICK e \in Free :
      tanks' = With(tanks, [x \in {e} |->
                 [peerId |-> Low(peerId), spawnedFor |-> peerId]])
  BY DEF SpawnTank
<1>1. /\ DOMAIN tanks' = DOMAIN tanks \cup {e}
      /\ tanks'[e] = [peerId |-> Low(peerId), spawnedFor |-> peerId]
      /\ \A x \in DOMAIN tanks \ {e} : tanks'[x] = tanks[x]
      /\ tanks' = [x \in DOMAIN tanks' |-> tanks'[x]]
  BY DEF With, Free, Live
<1>2. \A x \in DOMAIN tanks' : tanks'[x] \in TankType
  BY LowWords, GameAssumption, <1>1 DEF IInv, TypeOK, TankType
<1>3. tanks' \in [DOMAIN tanks' -> TankType]
  BY <1>1, <1>2, Typed
<1>4. TypeOK'
  BY <1>1, <1>3 DEF IInv, TypeOK, TankType, SpawnTank, Free, Live
<1>5. HealthExact' /\ BulletsExpire'
  BY DEF IInv, HealthExact, BulletsExpire, SpawnTank
<1> QED
  BY <1>4, <1>5 DEF IInv

(* spawnBullet: a spawn tick of 0 is never after the creation.             *)
LEMMA SpawnBulletInv ==
  ASSUME IInv, NEW peerId \in PeerIDs, SpawnBullet(peerId)
  PROVE  IInv'
<1> DEFINE bullet == [ownerPeerId |-> Low(peerId), spawnTick |-> 0, born |-> tickCount]
<1> PICK e \in Free : bullets' = With(bullets, [x \in {e} |-> bullet])
  BY DEF SpawnBullet
<1>0. tickCount \in Nat /\ bullet \in BulletType
  BY LowWords, GameAssumption DEF IInv, TypeOK, BulletType
<1>1. /\ DOMAIN bullets' = DOMAIN bullets \cup {e}
      /\ bullets'[e] = bullet
      /\ \A x \in DOMAIN bullets \ {e} : bullets'[x] = bullets[x]
      /\ bullets' = [x \in DOMAIN bullets' |-> bullets'[x]]
  BY DEF With, Free, Live
<1>2. \A x \in DOMAIN bullets' : bullets'[x] \in BulletType
  BY <1>0, <1>1 DEF IInv, TypeOK, BulletType
<1>3. bullets' \in [DOMAIN bullets' -> BulletType]
  BY <1>1, <1>2, Typed
<1>4. TypeOK'
  BY <1>1, <1>3 DEF IInv, TypeOK, BulletType, SpawnBullet, Free, Live
<1>5. HealthExact'
  BY DEF IInv, HealthExact, SpawnBullet
<1>6. BulletsExpire'
  <2>1. bullet.spawnTick = 0 /\ bullet.born = tickCount /\ tickCount' = tickCount
    BY DEF SpawnBullet
  <2> HIDE DEF bullet
  <2>2. tickCount - tickCount < Lifetime
    BY <1>0, GameAssumption
  <2> QED
    BY <1>0, <1>1, <2>1, <2>2 DEF IInv, BulletsExpire
<1> QED
  BY <1>4, <1>5, <1>6 DEF IInv

(* spawnCollectible.                                                       *)
LEMMA SpawnCollectibleInv ==
  ASSUME IInv, SpawnCollectible
  PROVE  IInv'
<1> PICK e \in Free : collectibles' = With(collectibles, [x \in {e} |-> TRUE])
  BY DEF SpawnCollectible
<1>1. /\ DOMAIN collectibles' = DOMAIN collectibles \cup {e}
      /\ collectibles'[e] = TRUE
      /\ \A x \in DOMAIN collectibles \ {e} : collectibles'[x] = collectibles[x]
      /\ collectibles' = [x \in DOMAIN collectibles' |-> collectibles'[x]]
  BY DEF With, Free, Live
<1>2. collectibles' \in [DOMAIN collectibles' -> BOOLEAN]
  <2>1. \A x \in DOMAIN collectibles' : collectibles'[x] \in BOOLEAN
    BY <1>1, Zenon DEF IInv, TypeOK
  <2> QED
    BY <1>1, <2>1, Typed, Zenon
<1>3. Apart'
  <2>1. /\ Apart /\ e \in Entities /\ e \notin Live
        /\ tanks' = tanks /\ bullets' = bullets /\ destructibles' = destructibles
    BY Zenon DEF IInv, TypeOK, Apart, SpawnCollectible, Free
  <2>2. DOMAIN collectibles' = DOMAIN collectibles \cup {e}
    BY <1>1
  <2> QED
    BY <2>1, <2>2 DEF Apart, Live
<1>4. TypeOK'
  <2>1. /\ tickCount' = tickCount /\ tanks' = tanks /\ bullets' = bullets
        /\ destructibles' = destructibles /\ faulted' = faulted
    BY Zenon DEF SpawnCollectible
  <2>3. faulted' \in BOOLEAN
    BY <2>1, Zenon DEF IInv, TypeOK
  <2>2. /\ tickCount' \in 0 .. MaxTick
        /\ tanks' \in [DOMAIN tanks' -> TankType]
        /\ bullets' \in [DOMAIN bullets' -> BulletType]
        /\ destructibles' \in [DOMAIN destructibles' -> DestructibleType]
    BY <2>1 DEF IInv, TypeOK, TankType, BulletType, DestructibleType
  <2> QED
    BY <1>2, <1>3, <2>2, <2>3, Zenon
    DEF TypeOK, Apart, TankType, BulletType, DestructibleType
<1>5. HealthExact' /\ BulletsExpire'
  BY DEF IInv, HealthExact, BulletsExpire, SpawnCollectible
<1> QED
  BY <1>4, <1>5 DEF IInv

(* spawnDestructible.                                                      *)
LEMMA SpawnDestructibleInv ==
  ASSUME IInv, NEW site \in Sites, SpawnDestructible(site)
  PROVE  IInv'
<1> PICK e \in Free :
      destructibles' = With(destructibles, [x \in {e} |-> NewDestructible(site)])
  BY DEF SpawnDestructible
<1>1. /\ DOMAIN destructibles' = DOMAIN destructibles \cup {e}
      /\ destructibles'[e] = NewDestructible(site)
      /\ \A x \in DOMAIN destructibles \ {e} : destructibles'[x] = destructibles[x]
      /\ destructibles' = [x \in DOMAIN destructibles' |-> destructibles'[x]]
  BY DEF With, Free, Live
<1>2. \A x \in DOMAIN destructibles' : destructibles'[x] \in DestructibleType
  <2>1. NewDestructible(site) \in DestructibleType
    BY DEF DestructibleType, NewDestructible, MaxHealth
  <2> QED
    BY <1>1, <2>1 DEF IInv, TypeOK, DestructibleType
<1>3. destructibles' \in [DOMAIN destructibles' -> DestructibleType]
  BY <1>1, <1>2, Typed
<1>4. TypeOK'
  BY <1>1, <1>3 DEF IInv, TypeOK, DestructibleType, SpawnDestructible, Free, Live
<1>5. HealthExact'
  <2>1. NewDestructible(site).health = 100 /\ NewDestructible(site).active = TRUE
    BY DEF NewDestructible, MaxHealth
  <2> QED
    BY <1>1, <2>1 DEF IInv, HealthExact
<1>6. BulletsExpire'
  BY DEF IInv, BulletsExpire, SpawnDestructible
<1> QED
  BY <1>4, <1>5, <1>6 DEF IInv

(* destroyEntity removes an entity from every storage.                     *)
LEMMA DestroyInv ==
  ASSUME IInv, NEW e \in Entities, DestroyEntity(e)
  PROVE  IInv'
<1>0. /\ tanks' = Without(tanks, {e}) /\ bullets' = Without(bullets, {e})
      /\ collectibles' = Without(collectibles, {e})
      /\ destructibles' = Without(destructibles, {e})
      /\ tickCount' = tickCount /\ faulted' = faulted
  BY Zenon DEF DestroyEntity
<1>1. /\ tanks \in [DOMAIN tanks -> TankType]
      /\ bullets \in [DOMAIN bullets -> BulletType]
      /\ collectibles \in [DOMAIN collectibles -> BOOLEAN]
      /\ destructibles \in [DOMAIN destructibles -> DestructibleType]
  BY Zenon DEF IInv, TypeOK, TankType, BulletType, DestructibleType
<1> HIDE DEF TankType, BulletType, DestructibleType
<1>2. /\ DOMAIN tanks' = DOMAIN tanks \ {e}
      /\ tanks' \in [DOMAIN tanks' -> TankType]
  BY <1>0, <1>1, WithoutStorage
<1>3. /\ DOMAIN bullets' = DOMAIN bullets \ {e}
      /\ \A b \in DOMAIN bullets' : bullets'[b] = bullets[b]
      /\ bullets' \in [DOMAIN bullets' -> BulletType]
  <2>1. /\ DOMAIN Without(bullets, {e}) = DOMAIN bullets \ {e}
        /\ \A b \in DOMAIN bullets \ {e} : Without(bullets, {e})[b] = bullets[b]
        /\ Without(bullets, {e}) \in [DOMAIN Without(bullets, {e}) -> BulletType]
    BY <1>1, WithoutStorage, Zenon
  <2> QED
    BY <2>1, <1>0
<1>4. /\ DOMAIN collectibles' = DOMAIN collectibles \ {e}
      /\ collectibles' \in [DOMAIN collectibles' -> BOOLEAN]
  BY <1>0, <1>1, WithoutStorage, Zenon
<1>5. /\ DOMAIN destructibles' = DOMAIN destructibles \ {e}
      /\ \A x \in DOMAIN destructibles' : destructibles'[x] = destructibles[x]
      /\ destructibles' \in [DOMAIN destructibles' -> DestructibleType]
  <2>1. /\ DOMAIN Without(destructibles, {e}) = DOMAIN destructibles \ {e}
        /\ \A x \in DOMAIN destructibles \ {e} : Without(destructibles, {e})[x] = destructibles[x]
        /\ Without(destructibles, {e}) \in [DOMAIN Without(destructibles, {e}) -> DestructibleType]
    BY <1>1, WithoutStorage, Zenon
  <2> QED
    BY <2>1, <1>0
<1>6. Apart'
  <2>1. Apart
    BY Zenon DEF IInv, TypeOK, Apart
  <2> QED
    BY <2>1, <1>2, <1>3, <1>4, <1>5 DEF Apart, Live
<1>7. TypeOK'
  <2>1. tickCount' \in 0 .. MaxTick /\ faulted' \in BOOLEAN
    BY <1>0, Zenon DEF IInv, TypeOK
  <2> QED
    BY <2>1, <1>2, <1>3, <1>4, <1>5, <1>6, Zenon
    DEF TypeOK, Apart, TankType, BulletType, DestructibleType
<1>8. HealthExact'
  BY <1>5 DEF IInv, HealthExact
<1>9. BulletsExpire'
  BY <1>0, <1>3 DEF IInv, BulletsExpire
<1> QED
  BY <1>7, <1>8, <1>9 DEF IInv

(* queueInput adds a bullet for every tank that shoots.                    *)
LEMMA QueueInv ==
  ASSUME IInv, NEW peerId \in PeerIDs, NEW shoot \in BOOLEAN, QueueInput(peerId, shoot)
  PROVE  IInv'
<1> DEFINE bullet == [ownerPeerId |-> peerId, spawnTick |-> tickCount, born |-> tickCount]
<1> PICK shells \in SUBSET Free : bullets' = With(bullets, [e \in shells |-> bullet])
  BY DEF QueueInput
<1>0. /\ tanks' = tanks /\ collectibles' = collectibles
      /\ destructibles' = destructibles /\ tickCount' = tickCount /\ faulted' = faulted
  BY Zenon DEF QueueInput
<1>1. /\ tickCount \in Nat /\ bullet \in BulletType
      /\ bullet.spawnTick = tickCount /\ bullet.born = tickCount
  BY GameAssumption DEF IInv, TypeOK, BulletType
<1> HIDE DEF bullet
<1>2. /\ DOMAIN bullets' = DOMAIN bullets \cup shells
      /\ \A x \in shells : bullets'[x] = bullet
      /\ \A x \in DOMAIN bullets \ shells : bullets'[x] = bullets[x]
      /\ bullets' = [x \in DOMAIN bullets' |-> bullets'[x]]
  BY DEF With
<1>3. bullets' \in [DOMAIN bullets' -> BulletType]
  <2>1. \A x \in DOMAIN bullets : bullets[x] \in BulletType
    BY DEF IInv, TypeOK, BulletType
  <2> QED
    BY <1>1, <1>2, <2>1, Typed
<1>4. Apart'
  <2>1. Apart /\ shells \subseteq Entities /\ shells \cap Live = {}
    BY Zenon DEF IInv, TypeOK, Apart, Free
  <2> QED
    BY <2>1, <1>0, <1>2 DEF Apart, Live
<1>5. TypeOK'
  <2>1. /\ tickCount' \in 0 .. MaxTick /\ faulted' \in BOOLEAN
        /\ collectibles' \in [DOMAIN collectibles' -> BOOLEAN]
    BY <1>0, Zenon DEF IInv, TypeOK
  <2>2. /\ tanks' \in [DOMAIN tanks' -> TankType]
        /\ destructibles' \in [DOMAIN destructibles' -> DestructibleType]
    BY <1>0 DEF IInv, TypeOK, TankType, DestructibleType
  <2> QED
    BY <2>1, <2>2, <1>3, <1>4, Zenon
    DEF TypeOK, Apart, TankType, BulletType, DestructibleType
<1>6. HealthExact'
  BY <1>0 DEF IInv, HealthExact
<1>7. BulletsExpire'
  <2>1. tickCount - tickCount < Lifetime
    BY <1>1, GameAssumption
  <2> QED
    BY <1>0, <1>1, <1>2, <2>1 DEF IInv, BulletsExpire
<1> QED
  BY <1>5, <1>6, <1>7 DEF IInv

(* What one tick does to bullets and destructibles.                        *)
LEMMA StepEffects ==
  ASSUME IInv, Step
  PROVE  \E onTargets, onTanks :
           /\ onTargets \in DestructibleHits(DOMAIN bullets \ Expired(tickCount + 1))
           /\ destructibles' = [e \in DOMAIN destructibles |-> Hit(e, onTargets)]
           /\ bullets' = Without(bullets,
                 Expired(tickCount + 1) \cup Collided(onTargets \cup onTanks))
           /\ faulted' \in BOOLEAN
BY Zenon DEF Step

(* Hits never take more than a destructible has.                           *)
LEMMA HitHealth ==
  ASSUME IInv, NEW flying \in SUBSET DOMAIN bullets,
         NEW hits \in DestructibleHits(flying), NEW e \in DOMAIN destructibles
  PROVE  LET n == Cardinality(StruckBy(hits, e)) IN
         /\ n \in Nat
         /\ Hit(e, hits) \in DestructibleType
         /\ Hit(e, hits).health = destructibles[e].health - 25 * n
         /\ Hit(e, hits).health \in {0, 25, 50, 75, 100}
         /\ Hit(e, hits).active <=> Hit(e, hits).health > 0
<1> DEFINE n == Cardinality(StruckBy(hits, e))
           h == destructibles[e].health - 25 * n
<1>1. StruckBy(hits, e) \in SUBSET Entities
  BY DEF StruckBy, IInv, TypeOK, Live
<1>2. n \in Nat
  BY <1>1, EntitySets
<1>3. n * 25 <= destructibles[e].health
  BY DEF DestructibleHits, Damage
<1>4. /\ destructibles[e] \in DestructibleType
      /\ destructibles[e].health \in {0, 25, 50, 75, 100}
      /\ destructibles[e].active <=> destructibles[e].health > 0
  BY DEF IInv, TypeOK, HealthExact, DestructibleType
<1> HIDE DEF n
<1>5. h \in {0, 25, 50, 75, 100} /\ (h > 0 => destructibles[e].health > 0)
  BY <1>2, <1>3, <1>4
<1>6. Hit(e, hits) = [health |-> h, active |-> destructibles[e].active /\ h > 0,
                      site |-> destructibles[e].site]
  <2>1. Damage * n = 25 * n
    BY DEF Damage
  <2> QED
    BY <2>1, Zenon DEF Hit, n
<1>7. Hit(e, hits).health = h
  BY <1>6
<1>8. Hit(e, hits).active <=> h > 0
  <2> HIDE DEF h
  <2>1. Hit(e, hits).active = (destructibles[e].active /\ h > 0)
    BY <1>6
  <2>2. h > 0 => destructibles[e].active
    BY <1>4, <1>5
  <2> QED
    BY <2>1, <2>2, Zenon
<1>9. Hit(e, hits) \in DestructibleType
  BY <1>4, <1>5, <1>6 DEF DestructibleType
<1> QED
  BY <1>2, <1>5, <1>7, <1>8, <1>9 DEF n

(* A tick keeps the invariant.                                             *)
LEMMA StepInv ==
  ASSUME IInv, Step
  PROVE  IInv'
<1> DEFINE tick == tickCount + 1
           flying == DOMAIN bullets \ Expired(tick)
<1> PICK onTargets, onTanks :
      /\ onTargets \in DestructibleHits(flying)
      /\ destructibles' = [e \in DOMAIN destructibles |-> Hit(e, onTargets)]
      /\ bullets' = Without(bullets, Expired(tick) \cup Collided(onTargets \cup onTanks))
      /\ faulted' \in BOOLEAN
  BY StepEffects, Zenon
<1> DEFINE gone == Expired(tick) \cup Collided(onTargets \cup onTanks)
<1>1. tick \in 0 .. MaxTick /\ tickCount \in Nat /\ tickCount' = tick /\ tanks' = tanks
  <2>1. tickCount < MaxTick /\ tickCount' = tick /\ tanks' = tanks
    BY Zenon DEF Step
  <2>2. tickCount \in 0 .. MaxTick
    BY DEF IInv, TypeOK
  <2> QED
    BY <2>1, <2>2, GameAssumption
<1>2. DOMAIN collectibles' = DOMAIN collectibles /\ collectibles' \in [DOMAIN collectibles' -> BOOLEAN]
  <2> PICK taken \in SUBSET DOMAIN collectibles :
        collectibles' = [e \in DOMAIN collectibles |-> collectibles[e] /\ e \notin taken]
    BY Zenon DEF Step
  <2> QED
    BY Zenon
<1>3. /\ DOMAIN bullets' = DOMAIN bullets \ gone
      /\ \A b \in DOMAIN bullets \ gone : bullets'[b] = bullets[b]
      /\ bullets' \in [DOMAIN bullets' -> BulletType]
  <2>1. bullets \in [DOMAIN bullets -> BulletType]
    BY DEF IInv, TypeOK, BulletType
  <2>2. bullets' = Without(bullets, gone)
    OBVIOUS
  <2> HIDE DEF gone
  <2>3. /\ DOMAIN Without(bullets, gone) = DOMAIN bullets \ gone
        /\ \A b \in DOMAIN bullets \ gone : Without(bullets, gone)[b] = bullets[b]
        /\ Without(bullets, gone) \in [DOMAIN Without(bullets, gone) -> BulletType]
    BY <2>1, WithoutStorage, Zenon
  <2> QED
    BY <2>2, <2>3
<1>4. \A e \in DOMAIN destructibles :
        /\ Hit(e, onTargets) \in DestructibleType
        /\ Hit(e, onTargets).health \in {0, 25, 50, 75, 100}
        /\ Hit(e, onTargets).active <=> Hit(e, onTargets).health > 0
  <2>1. flying \in SUBSET DOMAIN bullets
    OBVIOUS
  <2> QED
    BY <2>1, HitHealth, Zenon
<1>5. /\ DOMAIN destructibles' = DOMAIN destructibles
      /\ destructibles' \in [DOMAIN destructibles' -> DestructibleType]
      /\ \A e \in DOMAIN destructibles : destructibles'[e] = Hit(e, onTargets)
  BY <1>4, Zenon
<1>6. Apart'
  <2>1. Apart
    BY Zenon DEF IInv, TypeOK, Apart
  <2> HIDE DEF gone
  <2> QED
    BY <2>1, <1>1, <1>2, <1>3, <1>5 DEF Apart, Live
<1>7. TypeOK'
  <2>1. tanks' \in [DOMAIN tanks' -> TankType]
    BY <1>1 DEF IInv, TypeOK, TankType
  <2> QED
    BY <2>1, <1>1, <1>2, <1>3, <1>5, <1>6, Zenon
    DEF TypeOK, Apart, TankType, BulletType, DestructibleType
<1>8. HealthExact'
  BY <1>4, <1>5, Zenon DEF HealthExact
<1>9. BulletsExpire'
  <2> SUFFICES ASSUME NEW b \in DOMAIN bullets'
               PROVE  /\ bullets'[b].spawnTick <= bullets'[b].born
                      /\ bullets'[b].born <= tickCount'
                      /\ tickCount' - bullets'[b].born < Lifetime
    BY DEF BulletsExpire
  <2>1. b \in DOMAIN bullets /\ b \notin Expired(tick) /\ bullets'[b] = bullets[b]
    BY <1>3
  <2>2. /\ bullets[b].spawnTick \in Nat /\ bullets[b].born \in Nat
        /\ bullets[b].spawnTick <= bullets[b].born /\ bullets[b].born <= tickCount
    BY <2>1 DEF IInv, TypeOK, BulletsExpire
  <2>3. tick - bullets[b].spawnTick < Lifetime
    BY <2>1, <2>2, <1>1, GameAssumption DEF Expired
  <2> QED
    BY <2>1, <2>2, <2>3, <1>1, GameAssumption
<1> QED
  BY <1>7, <1>8, <1>9 DEF IInv

(* Every step keeps the invariant.                                         *)
LEMMA NextInv == IInv /\ [Next]_vars => IInv'
<1> SUFFICES ASSUME IInv, [Next]_vars PROVE IInv'
  OBVIOUS
<1>1. CASE UNCHANGED vars
  <2>1. TypeOK'
    BY <1>1, Zenon DEF IInv, TypeOK, vars, Live
  <2>2. HealthExact' /\ BulletsExpire'
    BY <1>1 DEF IInv, HealthExact, BulletsExpire, vars
  <2> QED
    BY <2>1, <2>2 DEF IInv
<1>2. ASSUME NEW peerId \in PeerIDs, SpawnTank(peerId) \/ SpawnBullet(peerId) PROVE IInv'
  BY <1>2, SpawnTankInv, SpawnBulletInv
<1>3. CASE SpawnCollectible
  BY <1>3, SpawnCollectibleInv
<1>4. ASSUME NEW site \in Sites, SpawnDestructible(site) PROVE IInv'
  BY <1>4, SpawnDestructibleInv
<1>5. ASSUME NEW e \in Entities, DestroyEntity(e) PROVE IInv'
  BY <1>5, DestroyInv
<1>6. ASSUME NEW peerId \in PeerIDs, NEW shoot \in BOOLEAN, QueueInput(peerId, shoot)
      PROVE  IInv'
  BY <1>6, QueueInv
<1>7. CASE Step
  BY <1>7, StepInv
<1> QED
  BY <1>1, <1>2, <1>3, <1>4, <1>5, <1>6, <1>7, Zenon DEF Next

(* The invariant holds in every reachable state.                           *)
THEOREM Invariance == Spec => []IInv
<1>1. Init => IInv
  BY InitInv
<1>2. IInv /\ [Next]_vars => IInv'
  BY NextInv
<1> QED
  BY <1>1, <1>2, PTL DEF Spec

(* The storages stay well-formed and a bullet is never also something      *)
(* else, under every operation of Game (game.cpp:11-45).                   *)
THEOREM TypeCorrect == Spec => []TypeOK
<1>1. IInv => TypeOK
  BY DEF IInv
<1> QED
  BY <1>1, Invariance, PTL

(* However many bullets strike in a tick, health stays exact and agrees    *)
(* with `active` (tank_systems.h:101-114).                                 *)
THEOREM HealthCorrect == Spec => []HealthExact
<1>1. IInv => HealthExact
  BY DEF IInv
<1> QED
  BY <1>1, Invariance, PTL

(* Every bullet is gone by the end of its lifetime, also one spawned with  *)
(* spawn tick 0 in mid-game (tank_systems.h:71-91, 163).                   *)
THEOREM BulletsCorrect == Spec => []BulletsExpire
<1>1. IInv => BulletsExpire
  BY DEF IInv
<1> QED
  BY <1>1, Invariance, PTL

(* A tick pays for the damage it does with bullets.                        *)
LEMMA StepPays ==
  ASSUME IInv, Step, NEW e \in DOMAIN destructibles \cap DOMAIN destructibles'
  PROVE  destructibles[e].health - destructibles'[e].health
           <= Damage * Cardinality(DOMAIN bullets \ DOMAIN bullets')
<1> DEFINE flying == DOMAIN bullets \ Expired(tickCount + 1)
<1> PICK onTargets, onTanks :
      /\ onTargets \in DestructibleHits(flying)
      /\ destructibles' = [x \in DOMAIN destructibles |-> Hit(x, onTargets)]
      /\ bullets' = Without(bullets,
            Expired(tickCount + 1) \cup Collided(onTargets \cup onTanks))
  BY StepEffects, Zenon
<1> DEFINE struck == StruckBy(onTargets, e)
           left == DOMAIN bullets \ DOMAIN bullets'
<1>1. struck \subseteq left
  BY DEF StruckBy, Collided, Without
<1>2. left \in SUBSET Entities
  BY DEF IInv, TypeOK, Live
<1>3. /\ Cardinality(struck) \in Nat /\ Cardinality(left) \in Nat
      /\ Cardinality(struck) <= Cardinality(left)
  <2>1. IsFiniteSet(left) /\ Cardinality(left) \in Nat
    BY <1>2, EntitySets
  <2> QED
    BY <1>1, <2>1, FS_Subset, FS_CardinalityType
<1>4. destructibles'[e].health = destructibles[e].health - 25 * Cardinality(struck)
  <2>1. destructibles'[e] = Hit(e, onTargets)
    BY Zenon
  <2>2. Hit(e, onTargets).health = destructibles[e].health - 25 * Cardinality(struck)
    BY HitHealth
  <2> QED
    BY <2>1, <2>2
<1>5. destructibles[e].health \in Int
  BY DEF IInv, TypeOK
<1> HIDE DEF struck, left
<1> QED
  BY <1>3, <1>4, <1>5 DEF Damage, left

(* No destructible loses more in a tick than the bullets that leave the    *)
(* game in it account for (tank_systems.h:101-114, 140-143).               *)
THEOREM DamageIsPaid == Spec => DamagePaid
<1> DEFINE Paid == \A e \in DOMAIN destructibles \cap DOMAIN destructibles' :
             LET lost == destructibles[e].health - destructibles'[e].health
             IN  lost <= Damage * Cardinality(DOMAIN bullets \ DOMAIN bullets')
<1>1. IInv /\ [Next]_vars => [Paid]_vars
  <2> SUFFICES ASSUME IInv, Next, NEW e \in DOMAIN destructibles \cap DOMAIN destructibles'
               PROVE  destructibles[e].health - destructibles'[e].health
                        <= Damage * Cardinality(DOMAIN bullets \ DOMAIN bullets')
    BY Zenon
  <2>1. Cardinality(DOMAIN bullets \ DOMAIN bullets') \in Nat
    BY EntitySets DEF IInv, TypeOK, Live
  <2>2. destructibles[e].health \in Int
    BY DEF IInv, TypeOK
  <2>3. CASE Step
    BY <2>3, StepPays
  <2>4. CASE destructibles'[e] = destructibles[e]
    BY <2>1, <2>2, <2>4 DEF Damage
  <2>5. CASE UNCHANGED destructibles
    BY <2>4, <2>5
  <2>6. ASSUME NEW peerId \in PeerIDs, SpawnTank(peerId) \/ SpawnBullet(peerId)
        PROVE  UNCHANGED destructibles
    BY <2>6, Zenon DEF SpawnTank, SpawnBullet
  <2>7. CASE SpawnCollectible
    BY <2>5, <2>7, Zenon DEF SpawnCollectible
  <2>8. ASSUME NEW site \in Sites, SpawnDestructible(site)
        PROVE  destructibles'[e] = destructibles[e]
    BY <2>8 DEF SpawnDestructible, With, Free, Live
  <2>9. ASSUME NEW x \in Entities, DestroyEntity(x)
        PROVE  destructibles'[e] = destructibles[e]
    BY <2>9 DEF DestroyEntity, Without
  <2>10. ASSUME NEW peerId \in PeerIDs, NEW shoot \in BOOLEAN, QueueInput(peerId, shoot)
         PROVE  UNCHANGED destructibles
    BY <2>10, Zenon DEF QueueInput
  <2> QED
    BY <2>3, <2>4, <2>5, <2>6, <2>7, <2>8, <2>9, <2>10, Zenon DEF Next
<1>2. Spec => [][Paid]_vars
  BY <1>1, Invariance, PTL DEF Spec
<1> QED
  BY <1>2, Zenon DEF DamagePaid

(* One input: the tanks that fire are among those it steers.               *)
LEMMA QueueSteers ==
  ASSUME IInv, NEW peerId \in PeerIDs, NEW shoot \in BOOLEAN, QueueInput(peerId, shoot),
         shoot
  PROVE  LET fired == Cardinality(DOMAIN bullets' \ DOMAIN bullets) IN
         /\ input'.peerId = peerId
         /\ fired <= Cardinality(input'.steered)
         /\ peerId < LowWord => fired = Cardinality(input'.steered)
<1> DEFINE shooters == {e \in DOMAIN tanks : shoot /\ Shoots(e, peerId)}
           steered == {e \in DOMAIN tanks : Steers(e, peerId)}
           bullet == [ownerPeerId |-> peerId, spawnTick |-> tickCount, born |-> tickCount]
<1> PICK shells \in SUBSET Free :
      /\ Cardinality(shells) = Cardinality(shooters)
      /\ bullets' = With(bullets, [e \in shells |-> bullet])
  BY DEF QueueInput
<1>1. input' = [peerId |-> peerId, shoot |-> shoot, steered |-> steered]
  BY Zenon DEF QueueInput
<1>2. DOMAIN bullets' \ DOMAIN bullets = shells
  BY DEF With, Free, Live
<1>3. \A e \in DOMAIN tanks : tanks[e].peerId \in 0 .. LowWord - 1
  BY DEF IInv, TypeOK
<1>4. peerId \in Nat /\ (peerId < LowWord => Low(peerId) = peerId)
  BY LowWords, GameAssumption
<1>5. shooters \subseteq steered
  BY <1>3, <1>4, GameAssumption DEF Shoots, Steers
<1>6. peerId < LowWord => shooters = steered
  BY <1>4 DEF Shoots, Steers
<1>7. /\ Cardinality(shooters) \in Nat /\ Cardinality(steered) \in Nat
      /\ Cardinality(shooters) <= Cardinality(steered)
  <2>1. steered \in SUBSET Entities
    BY DEF IInv, TypeOK, Live
  <2>2. IsFiniteSet(steered) /\ Cardinality(steered) \in Nat
    BY <2>1, EntitySets
  <2> QED
    BY <1>5, <2>2, FS_Subset, FS_CardinalityType
<1> HIDE DEF shooters, steered
<1>8. input'.peerId = peerId /\ input'.steered = steered
  BY <1>1
<1> QED
  BY <1>2, <1>6, <1>7, <1>8

(* Shooting never escapes steering, and equals it for ids that fit 32      *)
(* bits, though the two systems read ids of different width                *)
(* (tank_systems.h:35-37, 55-59, 150-157).                                 *)
THEOREM ShootingSteers == Spec => ShootersSteer
<1> DEFINE Steered ==
      LET fired == Cardinality(DOMAIN bullets' \ DOMAIN bullets) IN
        input'.shoot =>
          /\ fired <= Cardinality(input'.steered)
          /\ input'.peerId < LowWord => fired = Cardinality(input'.steered)
<1>1. IInv /\ [Next]_vars => [Steered]_vars
  <2> SUFFICES ASSUME IInv, Next PROVE Steered
    BY Zenon
  <2>1. CASE input' = NoInput
    <3>1. ~ input'.shoot
      BY <2>1 DEF NoInput
    <3> QED
      BY <3>1
  <2>2. ASSUME NEW peerId \in PeerIDs, NEW shoot \in BOOLEAN, QueueInput(peerId, shoot)
        PROVE  Steered
    <3>1. input'.shoot = shoot
      BY <2>2 DEF QueueInput
    <3>2. CASE shoot
      <4>1. LET fired == Cardinality(DOMAIN bullets' \ DOMAIN bullets) IN
            /\ input'.peerId = peerId
            /\ fired <= Cardinality(input'.steered)
            /\ peerId < LowWord => fired = Cardinality(input'.steered)
        BY <2>2, <3>2, QueueSteers, Zenon
      <4> QED
        BY <4>1
    <3>3. CASE ~shoot
      BY <3>1, <3>3, Zenon
    <3> QED
      BY <3>2, <3>3
  <2>3. input' = NoInput \/ \E peerId \in PeerIDs, shoot \in BOOLEAN : QueueInput(peerId, shoot)
    BY Zenon DEF Next, SpawnTank, SpawnBullet, SpawnCollectible, SpawnDestructible,
             DestroyEntity, Step
  <2> QED
    BY <2>1, <2>2, <2>3, Zenon
<1>2. Spec => [][Steered]_vars
  BY <1>1, Invariance, PTL DEF Spec
<1> QED
  BY <1>2, Zenon DEF ShootersSteer
=============================================================================
