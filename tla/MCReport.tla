------------------------------ MODULE MCReport ------------------------------
(* Two slots and two objects, players of either team, one of no team and   *)
(* one whose name is empty, two capture points, two moves of the game.     *)
EXTENDS Report

MCPlayers ==
  {[name |-> "Me", team |-> 1], [name |-> "Ann", team |-> 1],
   [name |-> "Ann", team |-> 2], [name |-> "", team |-> 2],
   [name |-> "Bob", team |-> 0]}

Symmetry == Permutations(Entity) \cup Permutations(Obj)
=============================================================================
