------------------------------- MODULE MCLhash -------------------------------
(* An instance of Lhash for TLC. *)
EXTENDS Lhash

(* Two items share a key, and three keys a hash. *)
AllItems == 1 .. 8
KeyOf == <<1, 2, 3, 4, 5, 6, 7, 1>>
HashFunction == <<5, 5, 13, 5, 0, 2, 6>>
==============================================================================
