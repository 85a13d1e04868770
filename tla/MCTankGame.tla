------------------------------ MODULE MCTankGame ------------------------------
(* Instances of TankGame for TLC.                                           *)
EXTENDS TankGame, TLC

(* Entities outside the initial set-up are interchangeable.                 *)
Symmetry == Permutations(Entities \ (Collectibles0 \cup Destructibles0))
=============================================================================
