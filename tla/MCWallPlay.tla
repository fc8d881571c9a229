------------------------------ MODULE MCWallPlay ------------------------------
(* Small instances of WallPlay: transitions of two and three frames. *)
EXTENDS WallPlay
==============================================================================
