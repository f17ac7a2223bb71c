-------------------------------- MODULE MCWorld --------------------------------
(***************************************************************************)
(* Instances of World for TLC.                                             *)
(***************************************************************************)
EXTENDS World

CONSTANTS Health, Velocity  \* two component types, as in the tests of ecs/mod.rs

ComponentTypes == {Health, Velocity}
=============================================================================
