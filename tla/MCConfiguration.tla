--------------------------- MODULE MCConfiguration ---------------------------
(***************************************************************************)
(* TLC instance of Configuration: two corporations, each in an alliance   *)
(* of its own, and configurations that name them in one list, in the       *)
(* other, or in none.                                                      *)
(***************************************************************************)
EXTENDS Configuration, TLC

CONSTANTS brave, outside

AllianceOf == (brave :> "Brave Collective") @@ (outside :> "elsewhere")

Config(alliances, corporations, admin) ==
    [alliances |-> alliances, corporations |-> corporations, adminCorp |-> admin]

ByAlliance == Config({AllianceOf[brave]}, {}, brave)
ByCorporation == Config({}, {brave}, brave)
Handover == Config({}, {}, outside)

SomeConfigs == {ByAlliance, ByCorporation, Handover}

(* Browsers and slots are interchangeable. *)
Symmetry == Permutations(Browsers) \cup Permutations(Requests)
=============================================================================
