--------------------------- MODULE MCWorldSession ---------------------------
(***************************************************************************)
(* Three tasks that send, few packets, an impatient enter_world.           *)
(***************************************************************************)
EXTENDS WorldSession, TLC
Symmetric == Permutations(Tasks)
=============================================================================
