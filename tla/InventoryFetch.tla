---------------------------- MODULE InventoryFetch ----------------------------
(***************************************************************************)
(* updateBlueprintInventory (asset_ticker.go): one fetch of the            *)
(* corporation's blueprints, page by page, while EVE's listing may change  *)
(* between two pages; then the count of each quality; then the goroutines  *)
(* that ask for the names of the types, for those of the containers, and   *)
(* for the assets, and sync.WaitGroup; and the tree of the assets.         *)
(* Everything a fetch works on is its own, but for the tree of the last    *)
(* one, so that one fetch stands for all.                                  *)
(*                                                                         *)
(*   pages    fetchCorpBlueprints, before the request for page             *)
(*   group    the loop over the blueprints                                 *)
(*   wait     wg.Wait, while the goroutines run                            *)
(*   done     returned an inventory                                        *)
(*   failed   returned an error                                            *)
(*                                                                         *)
(* The location filter asks inv.tree, the tree of the inventory under      *)
(* construction, which is nil until the end: only the hangar is filtered.  *)
(* The names of the hangars, one request that falls back to "Division n",  *)
(* are left out.                                                           *)
(***************************************************************************)
EXTENDS Integers, SequencesExt

CONSTANTS
    Blueprints,  \* what may be in the listing
    Quality,     \* [Blueprints -> qualities]: type, efficiencies, and runs
    Type,        \* [Blueprints -> Nat]: its type alone
    Quantity,    \* -2 a copy, -1 researched, or a stack; no less (glue.go:13)
    InHangar,    \* those with LocationFlag bpHangar
    Location,    \* [Blueprints -> Nat]: the container or office it is in
    Listings,    \* what the listing may be when the fetch begins
    Before,      \* the trees, as sets of keys, that app.inventoryState may hold
    AssetLists,  \* what fetchCorpAssets may return; nil if it fails
    None,        \* no asset
    PageSize,    \* blueprints on a page
    ChunkSize,   \* types or containers in a request for names (1000)
    MaxChanges   \* bound: changes to the listing during the fetch

VARIABLES
    listing,     \* Seq(Blueprints): EVE's list
    pc,
    page, pages, attempt,   \* the loop's variables
    blueprints,  \* Seq(Blueprints): what was fetched
    books,       \* [bpcs, bpos]: sequences of [quality, quantity]
    todo,        \* Seq(Nat): types whose names are still to be asked for
    names,       \* types whose name is known
    known,       \* keys of the last inventory's tree, once they were read
    unknown,     \* Seq(Nat): containers whose names are still to be asked for
    labels,      \* containers whose name is known
    fetching,    \* the goroutine of fetchCorpAssets runs
    assets,      \* Seq(Assets): what it returned
    tree,        \* the map of buildAssetTree
    added,       \* auxiliary: blueprints that came during the fetch
    removed,     \* auxiliary: blueprints that went
    refusals,    \* auxiliary: requests that failed since a page last arrived,
                 \* up to MaxAttempts + 1
    unpaged,     \* auxiliary: an answer had no page count
    unnamed,     \* auxiliary: types in requests for names that failed
    unlabeled    \* auxiliary: containers in requests for names that failed

loop == <<page, pages, attempt>>
observed == <<added, removed, refusals, unpaged>>
typeJob == <<todo, names, unnamed>>
containerJob == <<unknown, labels, unlabeled>>
assetJob == <<fetching, assets>>
jobs == <<typeJob, containerJob, assetJob>>
vars == <<listing, pc, loop, blueprints, books, known, jobs, tree, observed>>

MaxAttempts == 5

ASSUME Constants ==
    /\ PageSize \in Nat \ {0} /\ ChunkSize \in Nat \ {0} /\ MaxChanges \in Nat
    /\ DOMAIN Quality = Blueprints /\ Type \in [Blueprints -> Nat]
    /\ Quantity \in [Blueprints -> Nat \cup {-2, -1}]
    /\ InHangar \subseteq Blueprints
    /\ Location \in [Blueprints -> Nat]
    /\ Listings \subseteq {s \in Seq(Blueprints) : IsInjective(s)}
    /\ Before \subseteq SUBSET Nat
    /\ AssetLists \subseteq Seq([item : Nat, location : Nat])

Books == {"bpcs", "bpos"}
EmptyBooks == [k \in Books |-> <<>>]

Init ==
    /\ listing \in Listings
    /\ pc = "pages"
    /\ page = 1 /\ pages = 1 /\ attempt = 1
    /\ blueprints = <<>> /\ books = EmptyBooks
    /\ todo = <<>> /\ names = {} /\ unnamed = {}
    /\ known = {} /\ unknown = <<>> /\ labels = {} /\ unlabeled = {}
    /\ fetching = FALSE /\ assets = <<>> /\ tree = <<>>
    /\ added = {} /\ removed = {} /\ refusals = 0
    /\ unpaged = FALSE
-----------------------------------------------------------------------------
(* EVE: an empty list has one page. *)
PageCount ==
    IF listing = <<>> THEN 1 ELSE (Len(listing) + PageSize - 1) \div PageSize
LastOn(p) == IF p * PageSize < Len(listing) THEN p * PageSize ELSE Len(listing)
PageAt(p) == SubSeq(listing, (p - 1) * PageSize + 1, LastOn(p))

Changes == Cardinality(added) + Cardinality(removed)

Offer(b, i) ==
    /\ pc = "pages" /\ Changes < MaxChanges
    /\ b \notin ToSet(listing) \cup removed
    /\ listing' = InsertAt(listing, i, b)
    /\ added' = added \cup {b}
    /\ UNCHANGED <<pc, loop, blueprints, books, known, jobs, tree, removed, refusals,
                   unpaged>>

Withdraw(i) ==
    /\ pc = "pages" /\ Changes < MaxChanges
    /\ listing' = RemoveAt(listing, i)
    /\ removed' = removed \cup {listing[i]}
    /\ UNCHANGED <<pc, loop, blueprints, books, known, jobs, tree, added, refusals,
                   unpaged>>
-----------------------------------------------------------------------------
(* for page <= pages: X-Pages is read anew on every page, and is 0 if it   *)
(* is missing or no number.                                                *)
CountsOnce(counted) == IF page = 1 THEN counted ELSE pages  \* mutant: read once
NewPages(counted) == counted

KeepsAttempt == attempt                 \* mutant: failures of all pages add up
FirstAttempt == 1

PageArrives(counted) ==
    /\ pc = "pages" /\ page <= PageCount
    /\ blueprints' = blueprints \o PageAt(page)
    /\ pages' = NewPages(counted)
    /\ page' = page + 1
    /\ attempt' = FirstAttempt
    /\ pc' = IF page' <= pages' THEN "pages" ELSE "group"
    /\ refusals' = 0
    /\ unpaged' = (unpaged \/ counted # PageCount)
    /\ UNCHANGED <<listing, books, known, jobs, tree, added, removed>>

(* A request that fails is repeated: page-- and page++ in the code.  A     *)
(* page that is not there any more is refused too.                         *)
RewindsPage == IF page > 1 THEN page - 1 ELSE page  \* mutant: page -= 2
RepeatedPage == page

TriesSeven == attempt > MaxAttempts + 1 \* mutant: off by one
Exhausted == attempt > MaxAttempts

SameAttempt == attempt                  \* mutant: no attempt++
NextAttempt == attempt + 1

PageFails ==
    /\ pc = "pages"
    /\ refusals' = IF refusals > MaxAttempts THEN refusals ELSE refusals + 1
    /\ IF Exhausted
          THEN pc' = "failed" /\ UNCHANGED loop
          ELSE /\ attempt' = NextAttempt
               /\ page' = RepeatedPage
               /\ pc' = IF page' <= pages THEN "pages" ELSE "group"
               /\ UNCHANGED pages
    /\ UNCHANGED <<listing, blueprints, books, known, jobs, tree, added, removed,
                   unpaged>>
-----------------------------------------------------------------------------
BookOf(b) == IF Quantity[b] = -2 THEN "bpcs" ELSE "bpos"
Pieces(b) == IF Quantity[b] \in {-2, -1} THEN 1 ELSE Quantity[b]

(* m[bp.TypeId] is searched for the quality.  A quality implies the type,  *)
(* so that one sequence stands for the map from types to lists.            *)
SameQuality(book, b) == {i \in DOMAIN book : book[i].quality = Quality[b]}

EntersAnew(book, b) ==                  \* mutant: no search
    Append(book, [quality |-> Quality[b], quantity |-> Pieces(b)])

Enter(book, b) ==
    IF SameQuality(book, b) = {}
       THEN Append(book, [quality |-> Quality[b], quantity |-> Pieces(b)])
       ELSE [i \in DOMAIN book |->
               IF i \in SameQuality(book, b)
                  THEN [book[i] EXCEPT !.quantity = @ + Pieces(b)]
                  ELSE book[i]]

(* One turn of the loop: "continue" for what is not in the hangar *)
Count(m, b) ==
    IF b \in InHangar THEN [m EXCEPT ![BookOf(b)] = Enter(@, b)] ELSE m
CountAll(bps) == FoldLeft(Count, EmptyBooks, bps)

InHangarOnly(bps) == ToSet(bps) \cap InHangar

(* slices.Sort and slices.Compact *)
SortCompact(ids) ==
    CHOOSE s \in [1 .. Cardinality(ids) -> ids] :
        \A i, j \in DOMAIN s : i < j => s[i] < s[j]

(* At the end the goroutines start.  The fetch is over: its locals, EVE's  *)
(* listing and what was observed of it are forgotten.                      *)
Group(keys) ==
    /\ pc = "group"
    /\ known' = keys
    /\ books' = CountAll(blueprints)
    /\ todo' = SortCompact({Type[b] : b \in InHangarOnly(blueprints)})
    /\ unknown' = SortCompact({Location[b] : b \in InHangarOnly(blueprints)} \ keys)
    /\ fetching' = TRUE
    /\ pc' = "wait"
    /\ listing' = <<>> /\ page' = 1 /\ pages' = 1 /\ attempt' = 1
    /\ added' = {} /\ removed' = {} /\ refusals' = 0 /\ unpaged' = FALSE
    /\ UNCHANGED <<blueprints, names, unnamed, labels, unlabeled, assets, tree>>
-----------------------------------------------------------------------------
(* slices.Chunk *)
ChunkEnd(ids) == IF ChunkSize < Len(ids) THEN ChunkSize ELSE Len(ids)
Chunk(ids) == SubSeq(ids, 1, ChunkEnd(ids))
DropsOne(ids) ==                        \* mutant: off by one
    SubSeq(ids, ChunkEnd(ids) + 2, Len(ids))
AfterChunk(ids) == SubSeq(ids, ChunkEnd(ids) + 1, Len(ids))

(* fetchTypeNames, fetchCorpItemNames: a chunk that fails is not repeated, *)
(* what it asked for stays without a name.                                 *)
NameChunk(ok) ==
    /\ pc = "wait" /\ todo # <<>>
    /\ todo' = AfterChunk(todo)
    /\ IF ok
          THEN names' = names \cup ToSet(Chunk(todo)) /\ UNCHANGED unnamed
          ELSE unnamed' = unnamed \cup ToSet(Chunk(todo)) /\ UNCHANGED names
    /\ UNCHANGED <<listing, pc, loop, blueprints, books, known, containerJob, assetJob,
                   tree, observed>>

LabelChunk(ok) ==
    /\ pc = "wait" /\ unknown # <<>>
    /\ unknown' = AfterChunk(unknown)
    /\ IF ok
          THEN labels' = labels \cup ToSet(Chunk(unknown)) /\ UNCHANGED unlabeled
          ELSE unlabeled' = unlabeled \cup ToSet(Chunk(unknown)) /\ UNCHANGED labels
    /\ UNCHANGED <<listing, pc, loop, blueprints, books, known, typeJob, assetJob,
                   tree, observed>>

(* fetchCorpAssets: pages as above; its error is dropped. *)
AssetsArrive(list) ==
    /\ pc = "wait" /\ fetching
    /\ fetching' = FALSE
    /\ assets' = list
    /\ UNCHANGED <<listing, pc, loop, blueprints, books, known, typeJob, containerJob,
                   tree, observed>>
-----------------------------------------------------------------------------
(* buildAssetTree: a node may be made for a location before its own asset  *)
(* comes, and an item that comes twice keeps its first asset.              *)
NodeOf(m, id) ==
    IF id \in DOMAIN m THEN m[id] ELSE [asset |-> None, children |-> <<>>]

KeepsNone(node, a) ==                   \* mutant: no "if ca.Asset == nil"
    node.asset
AssetOf(node, a) == IF node.asset = None THEN a ELSE node.asset

AddAsset(m, a) ==
    [id \in DOMAIN m \cup {a.item, a.location} |->
       [asset |-> IF id # a.item THEN NodeOf(m, id).asset
                  ELSE IF id \in DOMAIN m THEN AssetOf(m[id], a) ELSE a,
        children |-> IF id = a.location THEN Append(NodeOf(m, id).children, a.item)
                                        ELSE NodeOf(m, id).children]]

buildAssetTree(list) == FoldLeft(AddAsset, <<>>, list)

WaitsForTypes == todo = <<>>            \* mutant: no wg.Add for the other two
Waited == todo = <<>> /\ unknown = <<>> /\ ~fetching

Return ==
    /\ pc = "wait" /\ Waited
    /\ tree' = buildAssetTree(assets)
    /\ pc' = "done"
    /\ UNCHANGED <<listing, loop, blueprints, books, known, jobs, observed>>

FetchStep ==
    \/ \E counted \in {0, PageCount} : PageArrives(counted)
    \/ PageFails
    \/ \E keys \in Before : Group(keys)
    \/ \E ok \in BOOLEAN : NameChunk(ok) \/ LabelChunk(ok)
    \/ \E list \in AssetLists \cup {<<>>} : AssetsArrive(list)
    \/ Return

Next ==
    \/ FetchStep
    \/ \E b \in Blueprints, i \in 1 .. Len(listing) + 1 : Offer(b, i)
    \/ \E i \in 1 .. Len(listing) : Withdraw(i)

(* Requests end (client timeout 10 s, esiRequestTimeout 20 s). *)
Spec == Init /\ [][Next]_vars
FairSpec == Spec /\ WF_vars(FetchStep)
-----------------------------------------------------------------------------
TypeOK ==
    /\ listing \in Seq(Blueprints) /\ blueprints \in Seq(Blueprints)
    /\ pc \in {"pages", "group", "wait", "done", "failed"}
    /\ page \in Nat \ {0} /\ pages \in Nat /\ attempt \in 1 .. MaxAttempts + 1
    /\ books \in [Books -> Seq([quality : Range(Quality), quantity : Int])]
    /\ todo \in Seq(Range(Type)) /\ names \subseteq Range(Type)
    /\ added \subseteq Blueprints /\ removed \subseteq Blueprints
    /\ refusals \in 0 .. MaxAttempts + 1 /\ unpaged \in BOOLEAN /\ unnamed \subseteq Range(Type)
    /\ known \in Before \cup {{}} /\ unknown \in Seq(Range(Location))
    /\ labels \subseteq Range(Location) /\ unlabeled \subseteq Range(Location)
    /\ fetching \in BOOLEAN /\ assets \in AssetLists \cup {<<>>}

(* If every answer had its page count and nothing left the listing during  *)
(* the fetch, nothing that was there all along is missed: what is added    *)
(* moves the rest to later pages, and X-Pages is read again for the last.  *)
NothingMissed ==
    pc = "group" /\ removed = {} /\ ~unpaged =>
        ToSet(listing) \ added \subseteq ToSet(blueprints)

(* If nothing came to the listing during the fetch, no blueprint is        *)
(* fetched twice, and so none is counted twice: what is removed moves the  *)
(* rest to pages that were fetched already.                                *)
NothingTwice == pc \in {"pages", "group"} /\ added = {} => IsInjective(blueprints)

(* A fetch fails only if one page was refused six times in a row: failures *)
(* of other pages, however many, do not add up.                            *)
FailsOnlyPersistently == pc = "failed" => refusals > MaxAttempts

(* What a blueprint adds to the quantity of quality q in book k *)
InBook(k, b) == b \in InHangar /\ (Quantity[b] = -2 <=> k = "bpcs")
AddsTo(k, q, b) ==
    IF ~InBook(k, b) \/ Quality[b] # q THEN 0
    ELSE IF Quantity[b] < 0 THEN 1 ELSE Quantity[b]
Total(k, q, bps) == FoldLeft(LAMBDA n, b : n + AddsTo(k, q, b), 0, bps)

(* What the books bks should say of the blueprints bps *)
Agree(bks, bps) ==
    \A k \in Books :
        /\ {bks[k][i].quality : i \in DOMAIN bks[k]} =
           {Quality[b] : b \in {x \in ToSet(bps) : InBook(k, x)}}
        /\ \A i, j \in DOMAIN bks[k] :
              bks[k][i].quality = bks[k][j].quality => i = j
        /\ \A i \in DOMAIN bks[k] :
              bks[k][i].quantity = Total(k, bks[k][i].quality, bps)

(* "populate bpo/bpc with a total count of each type/quality"              *)
(* (asset_ticker.go:139): each book has one entry for each quality that    *)
(* was fetched from the hangar, and its quantity is the sum of theirs.     *)
TotalsAgree == pc \in {"wait", "done"} => Agree(books, blueprints)

(* From the pages to the count: if the listing did not change during the   *)
(* fetch and every answer had its page count, the books count what is in   *)
(* it, all of it and each once, however often requests were repeated.      *)
QuietFetchIsExact ==
    [][pc = "group" /\ pc' = "wait" /\ added = {} /\ removed = {} /\ ~unpaged =>
          Agree(books', listing)]_vars

(* getBlueprints finds a name for every type it lists, except for those in *)
(* a request for names that failed.                                        *)
NamesAreComplete ==
    pc = "done" =>
        \A b \in ToSet(blueprints) \cap InHangar : Type[b] \in names \cup unnamed

(* Every container with a counted blueprint gets its name, was in the tree *)
(* of the last inventory, or was in a request for names that failed: no    *)
(* goroutine is still at it when the inventory is returned.                *)
ContainersAreNamed ==
    pc = "done" =>
        \A b \in ToSet(blueprints) \cap InHangar :
            Location[b] \in labels \cup unlabeled \cup known

(* What the list has for location l, in its order *)
FoundIn(l, list) ==
    FoldLeft(LAMBDA ids, a : IF a.location = l THEN Append(ids, a.item) ELSE ids,
             <<>>, list)

(* In whatever order the assets come, every node has for children what was *)
(* found in it, each time it was found, and its own asset if that came at  *)
(* all: none is lost because its container came later, or was not there.   *)
TreeIsComplete ==
    LET Items == {a.item : a \in ToSet(assets)}
    IN pc = "done" =>
         /\ DOMAIN tree = Items \cup {a.location : a \in ToSet(assets)}
         /\ \A l \in DOMAIN tree :
               /\ tree[l].children = FoundIn(l, assets)
               /\ IF l \in Items
                     THEN tree[l].asset \in {a \in ToSet(assets) : a.item = l}
                     ELSE tree[l].asset = None

(* A fetch ends, with an inventory or an error. *)
FetchEnds == <>(pc \in {"done", "failed"})
=============================================================================
