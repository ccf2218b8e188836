---------------------------- MODULE MCWhoCommand ----------------------------
(***************************************************************************)
(* Users in two channels, and one in a channel that Discord's cache does   *)
(* not hold, give !who commands; the .cfg files give the bounds.           *)
(***************************************************************************)
EXTENDS WhoCommand
=============================================================================
