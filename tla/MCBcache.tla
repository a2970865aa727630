------------------------------- MODULE MCBcache -------------------------------
(***************************************************************************)
(* Bcache for TLC.  The blocks of the device are interchangeable: nothing  *)
(* orders them, and the device may hold anything to begin with.            *)
(***************************************************************************)
EXTENDS Bcache

BlockSymmetry == Permutations(Blocks)
===============================================================================
