-------------------------- MODULE MCSessionStorage --------------------------
(***************************************************************************)
(* Two databases, the launcher and the manager, for TLC.                   *)
(***************************************************************************)
EXTENDS SessionStorage, TLC

CONSTANTS launcher, manager, d1, d2

Order == <<d1, d2>>
ActorSymmetry == Permutations(Actors)
=============================================================================
