------------------------------ MODULE MCAccounts ------------------------------
(***************************************************************************)
(* TLC instances of Accounts: a character that was sold, with its old and  *)
(* its new owner hash, and a second character.                             *)
(***************************************************************************)
EXTENDS Accounts, TLC

CONSTANTS seller, buyer, other

CharacterOf == (seller :> "sold") @@ (buyer :> "sold") @@ (other :> "other")

(* Browsers and slots are interchangeable. *)
Symmetry == Permutations(Browsers) \cup Permutations(Requests)
===============================================================================
