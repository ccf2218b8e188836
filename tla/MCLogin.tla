------------------------------ MODULE MCLogin -------------------------------
(***************************************************************************)
(* The group modulo 79, generated by 3, whose numbers have four digits to  *)
(* the base 3: secrets with 0 to 3 leading zeros and with zeros at the     *)
(* other end all occur.                                                    *)
(***************************************************************************)
EXTENDS Login, TLC

MCX == "right" :> 5 @@ "wrong" :> 12

MCScramble(u, v) == (u + 7 * v) % 11
=============================================================================
