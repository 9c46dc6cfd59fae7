--------------------------- MODULE MCInventoryFetch ---------------------------
(***************************************************************************)
(* TLC instance of InventoryFetch: two copies and a stack of one quality,  *)
(* a researched original of that type, and two other types, one of them    *)
(* outside the hangar.                                                     *)
(***************************************************************************)
EXTENDS InventoryFetch

CONSTANTS copy1, copy2, stack, researched, single, elsewhere

Stock == {copy1, copy2, stack, researched, single, elsewhere}

QualityOf ==
    [b \in Stock |-> CASE b \in {copy1, copy2, stack} -> "fresh"
                       [] b = researched -> "researched"
                       [] b = single -> "single"
                       [] b = elsewhere -> "elsewhere"]
TypeOf ==
    [b \in Stock |-> CASE b = single -> 1 [] b = elsewhere -> 3 [] OTHER -> 2]
QuantityOf ==
    [b \in Stock |-> CASE b \in {copy1, copy2, elsewhere} -> -2
                       [] b = researched -> -1
                       [] b = stack -> 3
                       [] b = single -> 2]

(* An office, and two containers in it *)
LocationOf ==
    [b \in Stock |-> CASE b \in {copy1, stack} -> 2 [] b = copy2 -> 3 [] OTHER -> 1]

(* An office in a structure, a container in it, and an item in that: from  *)
(* the outside and from the inside; the item twice, because it was moved;  *)
(* without the container.                                                  *)
At(item, location) == [item |-> item, location |-> location]
SomeAssets ==
    {<<At(1, 9), At(2, 1), At(4, 2)>>, <<At(4, 2), At(2, 1), At(1, 9)>>,
     <<At(4, 2), At(2, 1), At(4, 1)>>, <<At(4, 2), At(1, 9)>>}

(* The last inventory was empty, or held the office and one container. *)
LastTrees == {{}, {1, 2}}

(* Every list of three of these four; the other two may come meanwhile. *)
AnyListing ==
    {s \in [1 .. 3 -> {copy1, stack, researched, elsewhere}] : IsInjective(s)}
===============================================================================
