------------------------ MODULE InventoryFetchProofs ------------------------
(***************************************************************************)
(* Theorems about InventoryFetch, for every listing, page size and number  *)
(* of changes, and every list of assets: what the pages bring, by an       *)
(* invariant of the loop; what is made of it, by induction over the lists  *)
(* that the loops of the code go through.                                  *)
(***************************************************************************)
EXTENDS InventoryFetch, Induction

(* What the retries do to the loop's variables *)
LoopTypes ==
    /\ listing \in Seq(Blueprints) /\ blueprints \in Seq(Blueprints)
    /\ page \in Nat \ {0} /\ pages \in Nat
    /\ attempt \in 1 .. MaxAttempts + 1 /\ refusals \in Nat
    /\ pc = "pages" => page <= pages /\ refusals = attempt - 1

(* The places of the listing that were asked for *)
Seen == (page - 1) * PageSize

(* While nothing leaves, what came before the next page was fetched. *)
NothingSkipped ==
    pc = "pages" /\ removed = {} /\ ~unpaged =>
        \A i \in 1 .. Len(listing) :
            i <= Seen /\ listing[i] \notin added => listing[i] \in ToSet(blueprints)

(* While nothing comes, what is still to be fetched was not fetched yet. *)
NothingReturns ==
    added = {} /\ pc \in {"pages", "group"} =>
        /\ IsInjective(listing) /\ IsInjective(blueprints)
        /\ pc = "pages" =>
              \A i \in 1 .. Len(listing) :
                  i > Seen => listing[i] \notin ToSet(blueprints)

IInv == LoopTypes /\ FailsOnlyPersistently
        /\ NothingSkipped /\ NothingMissed /\ NothingReturns
-----------------------------------------------------------------------------
LEMMA InsertedSeq ==
    ASSUME NEW S, NEW s \in Seq(S), NEW e \in S, NEW i \in 1 .. Len(s) + 1
    PROVE  /\ InsertAt(s, i, e) \in Seq(S)
           /\ Len(InsertAt(s, i, e)) = Len(s) + 1
           /\ \A j \in 1 .. Len(s) + 1 :
                 InsertAt(s, i, e)[j] = IF j < i THEN s[j]
                                        ELSE IF j = i THEN e ELSE s[j - 1]
<1> DEFINE front == SubSeq(s, 1, i - 1)  back == SubSeq(s, i, Len(s))
<1>1. Len(s) \in Nat /\ \A j \in 1 .. Len(s) : s[j] \in S
  BY LenProperties, ElementOfSeq
<1>2. /\ front \in Seq(S) /\ Len(front) = i - 1
      /\ \A j \in 1 .. i - 1 : front[j] = s[j]
  BY <1>1, SubSeqProperties
<1>3. /\ back \in Seq(S) /\ Len(back) = Len(s) - i + 1
      /\ \A j \in 1 .. Len(s) - i + 1 : back[j] = s[i + j - 1]
  BY <1>1, SubSeqProperties
<1>4. <<e>> \in Seq(S) /\ Len(<<e>>) = 1 /\ <<e>>[1] = e
  OBVIOUS
<1>5. /\ front \o <<e>> \in Seq(S) /\ Len(front \o <<e>>) = i
      /\ \A j \in 1 .. i : (front \o <<e>>)[j] = IF j < i THEN s[j] ELSE e
  <2> HIDE DEF front
  <2>1. /\ front \o <<e>> \in Seq(S) /\ Len(front \o <<e>>) = Len(front) + 1
        /\ \A j \in 1 .. Len(front) + 1 : (front \o <<e>>)[j] =
              IF j <= Len(front) THEN front[j] ELSE <<e>>[j - Len(front)]
    BY <1>2, <1>4, ConcatProperties
  <2>2. \A j \in 1 .. i : j = i => j - (i - 1) = 1
    BY <1>1
  <2> QED BY <1>1, <1>2, <1>4, <2>1, <2>2
<1>6. InsertAt(s, i, e) = (front \o <<e>>) \o back
  BY DEF InsertAt
<1> HIDE DEF front, back
<1>7. /\ (front \o <<e>>) \o back \in Seq(S)
      /\ Len((front \o <<e>>) \o back) = Len(s) + 1
      /\ \A j \in 1 .. Len(s) + 1 : ((front \o <<e>>) \o back)[j] =
            IF j <= i THEN (front \o <<e>>)[j] ELSE back[j - i]
  BY <1>1, <1>3, <1>5, ConcatProperties
<1> QED BY <1>1, <1>3, <1>5, <1>6, <1>7

LEMMA RemovedSeq ==
    ASSUME NEW S, NEW s \in Seq(S), NEW i \in 1 .. Len(s)
    PROVE  /\ RemoveAt(s, i) \in Seq(S)
           /\ Len(RemoveAt(s, i)) = Len(s) - 1
           /\ \A j \in 1 .. Len(s) - 1 :
                 RemoveAt(s, i)[j] = IF j < i THEN s[j] ELSE s[j + 1]
<1> DEFINE front == SubSeq(s, 1, i - 1)  back == SubSeq(s, i + 1, Len(s))
<1>1. Len(s) \in Nat /\ \A j \in 1 .. Len(s) : s[j] \in S
  BY LenProperties, ElementOfSeq
<1>2. /\ front \in Seq(S) /\ Len(front) = i - 1
      /\ \A j \in 1 .. i - 1 : front[j] = s[j]
  BY <1>1, SubSeqProperties
<1>3. /\ back \in Seq(S) /\ Len(back) = Len(s) - i
      /\ \A j \in 1 .. Len(s) - i : back[j] = s[i + j]
  BY <1>1, SubSeqProperties
<1>4. RemoveAt(s, i) = front \o back
  BY DEF RemoveAt
<1> HIDE DEF front, back
<1>5. /\ front \o back \in Seq(S) /\ Len(front \o back) = Len(s) - 1
      /\ \A j \in 1 .. Len(s) - 1 : (front \o back)[j] =
            IF j <= i - 1 THEN front[j] ELSE back[j - (i - 1)]
  BY <1>1, <1>2, <1>3, ConcatProperties
<1> QED BY <1>1, <1>2, <1>3, <1>4, <1>5

(* Pages follow one another without a gap, and PageCount of them hold the  *)
(* whole list.                                                             *)
LEMMA NextPlaces ==
    ASSUME NEW p \in Nat \ {0}
    PROVE  /\ (p - 1) * PageSize \in Nat
           /\ p * PageSize = (p - 1) * PageSize + PageSize
           /\ p * PageSize \in Nat
BY Constants

LEMMA PageContents ==
    ASSUME NEW p \in Nat \ {0}, listing \in Seq(Blueprints)
    PROVE  /\ PageAt(p) \in Seq(Blueprints)
           /\ \A j \in 1 .. Len(PageAt(p)) :
                 /\ (p - 1) * PageSize + j \in 1 .. Len(listing)
                 /\ (p - 1) * PageSize + j <= p * PageSize
                 /\ PageAt(p)[j] = listing[(p - 1) * PageSize + j]
           /\ \A i \in 1 .. Len(listing) :
                 (p - 1) * PageSize < i /\ i <= p * PageSize =>
                    \E j \in 1 .. Len(PageAt(p)) : PageAt(p)[j] = listing[i]
<1> DEFINE m == (p - 1) * PageSize  n == LastOn(p)  q == p * PageSize
<1>1. m \in Nat /\ q \in Nat /\ m < q /\ PageSize \in Nat
  BY NextPlaces, Constants
<1>2. Len(listing) \in Nat /\ \A i \in 1 .. Len(listing) : listing[i] \in Blueprints
  BY LenProperties, ElementOfSeq
<1>3. n \in Nat /\ n <= Len(listing) /\ n <= q /\ (n = q \/ n = Len(listing))
  BY <1>1, <1>2 DEF LastOn
<1>4. PageAt(p) = SubSeq(listing, m + 1, n)
  BY DEF PageAt
<1> HIDE DEF m, n, q
<1>5. /\ SubSeq(listing, m + 1, n) \in Seq(Blueprints)
      /\ Len(SubSeq(listing, m + 1, n)) = IF m + 1 <= n THEN n - (m + 1) + 1 ELSE 0
      /\ \A j \in 1 .. n - (m + 1) + 1 :
            SubSeq(listing, m + 1, n)[j] = listing[m + 1 + j - 1]
  <2>1. \A i \in m + 1 .. n : listing[i] \in Blueprints
    BY <1>1, <1>2, <1>3
  <2> QED BY <1>1, <1>3, <2>1, SubSeqProperties
<1>6. Len(PageAt(p)) = IF m + 1 <= n THEN n - m ELSE 0
  BY <1>1, <1>3, <1>4, <1>5
<1>7. \A j \in 1 .. Len(PageAt(p)) :
         m + j \in 1 .. Len(listing) /\ m + j <= q /\ PageAt(p)[j] = listing[m + j]
  BY <1>1, <1>2, <1>3, <1>4, <1>5, <1>6
<1>8. ASSUME NEW i \in 1 .. Len(listing), m < i, i <= q
      PROVE  \E j \in 1 .. Len(PageAt(p)) : PageAt(p)[j] = listing[i]
  <2>1. i <= n
    BY <1>1, <1>2, <1>3, <1>8
  <2>2. i - m \in 1 .. Len(PageAt(p)) /\ m + (i - m) = i
    BY <1>1, <1>2, <1>3, <1>6, <1>8, <2>1
  <2> QED BY <1>7, <2>2
<1> QED BY <1>4, <1>5, <1>7, <1>8 DEF m, q

LEMMA PagesHoldAll ==
    ASSUME listing \in Seq(Blueprints)
    PROVE  /\ PageCount \in Nat \ {0}
           /\ Len(listing) <= PageCount * PageSize
<1>1. Len(listing) \in Nat /\ PageSize \in Nat /\ PageSize >= 1
  BY LenProperties, Constants
<1>2. CASE listing = <<>>
  BY <1>1, <1>2 DEF PageCount
<1>3. CASE listing # <<>>
  <2>1. Len(listing) >= 1
    BY <1>1, <1>3, EmptySeq
  <2> DEFINE k == (Len(listing) + PageSize - 1) \div PageSize
  <2>2. k \in Int /\ k * PageSize <= Len(listing) + PageSize - 1
        /\ Len(listing) + PageSize - 1 < k * PageSize + PageSize
    BY <1>1, Z3
  <2>3. PageCount = k
    BY <1>3 DEF PageCount
  <2> HIDE DEF k
  <2>4. k >= 1
    BY <1>1, <2>1, <2>2, Z3
  <2> QED BY <1>1, <2>2, <2>3, <2>4
<1> QED BY <1>2, <1>3
-----------------------------------------------------------------------------
LEMMA InitIInv == Init => IInv
<1> SUFFICES ASSUME Init PROVE IInv
  OBVIOUS
<1>1. listing \in Seq(Blueprints) /\ IsInjective(listing)
  BY Constants DEF Init
<1>2. Seen = 0
  BY Constants DEF Init, Seen
<1>3. Len(listing) \in Nat
  BY <1>1, LenProperties
<1>4. LoopTypes
  BY <1>1, EmptySeq DEF Init, LoopTypes, MaxAttempts
<1>5. NothingReturns
  BY <1>1 DEF Init, NothingReturns, IsInjective, ToSet
<1>6. NothingSkipped /\ NothingMissed /\ FailsOnlyPersistently
  BY <1>2, <1>3 DEF Init, NothingSkipped, NothingMissed, FailsOnlyPersistently
<1> QED BY <1>4, <1>5, <1>6 DEF IInv

(* What comes moves the rest to later places: all that was asked for and   *)
(* was there before the fetch still stands where it was or later.          *)
LEMMA OfferKeeps ==
    ASSUME IInv, NEW b \in Blueprints, NEW i \in 1 .. Len(listing) + 1, Offer(b, i)
    PROVE  IInv'
<1> USE DEF IInv
<1>1. /\ listing' \in Seq(Blueprints) /\ Len(listing') = Len(listing) + 1
      /\ \A j \in 1 .. Len(listing) + 1 :
            listing'[j] = IF j < i THEN listing[j]
                          ELSE IF j = i THEN b ELSE listing[j - 1]
  <2>1. listing \in Seq(Blueprints) /\ listing' = InsertAt(listing, i, b)
    BY DEF Offer, LoopTypes
  <2> QED BY <2>1, InsertedSeq
<1>2. Len(listing) \in Nat /\ Seen \in Nat /\ Seen' = Seen
  BY LenProperties, NextPlaces DEF Offer, LoopTypes, Seen, loop
<1>3. LoopTypes' /\ pc = "pages" /\ pc' = "pages"
  BY <1>1 DEF Offer, LoopTypes, loop
<1>4. added' = added \cup {b} /\ removed' = removed /\ unpaged' = unpaged
      /\ blueprints' = blueprints
  BY DEF Offer
<1>5. NothingSkipped'
  <2> SUFFICES ASSUME removed' = {}, ~unpaged', NEW j \in 1 .. Len(listing'),
                      j <= Seen', listing'[j] \notin added'
               PROVE  listing'[j] \in ToSet(blueprints')
    BY DEF NothingSkipped
  <2>1. PICK k \in 1 .. Len(listing) : k <= j /\ listing'[j] = listing[k]
    <3>1. j # i
      BY <1>1, <1>2, <1>4
    <3>2. CASE j < i
      BY <1>1, <1>2, <3>2
    <3>3. CASE j > i
      <4>1. j - 1 \in 1 .. Len(listing)
        BY <1>1, <1>2, <3>3
      <4> QED BY <1>1, <1>2, <3>3, <4>1
    <3> QED BY <1>1, <1>2, <3>1, <3>2, <3>3
  <2>2. k <= Seen /\ listing[k] \notin added
    BY <1>1, <1>2, <1>4, <2>1
  <2> QED BY <1>3, <1>4, <2>1, <2>2 DEF NothingSkipped
<1>6. NothingReturns' /\ NothingMissed' /\ FailsOnlyPersistently'
  BY <1>3, <1>4 DEF NothingReturns, NothingMissed, FailsOnlyPersistently
<1> QED BY <1>3, <1>5, <1>6

(* What goes moves the rest to earlier places: what is left to ask for was *)
(* there to ask for before.                                                *)
LEMMA WithdrawKeeps ==
    ASSUME IInv, NEW i \in 1 .. Len(listing), Withdraw(i)
    PROVE  IInv'
<1> USE DEF IInv
<1>1. /\ listing' \in Seq(Blueprints) /\ Len(listing') = Len(listing) - 1
      /\ \A j \in 1 .. Len(listing) - 1 :
            listing'[j] = IF j < i THEN listing[j] ELSE listing[j + 1]
  BY RemovedSeq DEF Withdraw, LoopTypes
<1>2. Len(listing) \in Nat /\ Seen \in Nat /\ Seen' = Seen
  BY LenProperties, NextPlaces DEF Withdraw, LoopTypes, Seen, loop
<1>3. LoopTypes' /\ pc = "pages" /\ pc' = "pages"
  BY <1>1 DEF Withdraw, LoopTypes, loop
<1>4. added' = added /\ removed' # {} /\ blueprints' = blueprints
  BY DEF Withdraw
<1>5. NothingSkipped' /\ NothingMissed' /\ FailsOnlyPersistently'
  BY <1>3, <1>4 DEF NothingSkipped, NothingMissed, FailsOnlyPersistently
<1>6. NothingReturns'
  <2> SUFFICES ASSUME added = {}
               PROVE  /\ IsInjective(listing') /\ IsInjective(blueprints)
                      /\ \A j \in 1 .. Len(listing') :
                            j > Seen => listing'[j] \notin ToSet(blueprints)
    BY <1>2, <1>3, <1>4 DEF NothingReturns
  <2> DEFINE old(j) == IF j < i THEN j ELSE j + 1
  <2>1. \A j \in 1 .. Len(listing') :
           old(j) \in 1 .. Len(listing) /\ old(j) >= j /\ listing'[j] = listing[old(j)]
    BY <1>1, <1>2
  <2>2. \A j, k \in 1 .. Len(listing') : old(j) = old(k) => j = k
    BY <1>1, <1>2
  <2> HIDE DEF old
  <2>3. DOMAIN listing = 1 .. Len(listing) /\ DOMAIN listing' = 1 .. Len(listing')
    BY <1>1, LenProperties DEF LoopTypes
  <2>4. IsInjective(listing) /\ IsInjective(blueprints)
    BY <1>3 DEF NothingReturns
  <2>5. IsInjective(listing')
    BY <2>1, <2>2, <2>3, <2>4 DEF IsInjective
  <2>6. \A j \in 1 .. Len(listing') : j > Seen => listing'[j] \notin ToSet(blueprints)
    <3> TAKE j \in 1 .. Len(listing')
    <3>1. HAVE j > Seen
    <3>2. old(j) > Seen
      <4>1. old(j) \in Int /\ old(j) >= j
        BY <2>1, <1>2
      <4>2. j \in Int
        BY <1>1, <1>2
      <4> QED BY <1>2, <3>1, <4>1, <4>2
    <3> QED BY <1>3, <2>1, <3>2 DEF NothingReturns
  <2> QED BY <2>4, <2>5, <2>6
<1> QED BY <1>3, <1>5, <1>6

(* A page takes the next PageSize places, or what is left of them. *)
LEMMA PageKeeps ==
    ASSUME IInv, NEW counted \in {0, PageCount}, PageArrives(counted)
    PROVE  IInv'
<1> USE DEF IInv
<1>0. listing \in Seq(Blueprints) /\ blueprints \in Seq(Blueprints) /\ page \in Nat \ {0}
      /\ pages \in Nat /\ pc = "pages"
  BY DEF LoopTypes, PageArrives
<1> DEFINE got == PageAt(page)
<1>1. /\ got \in Seq(Blueprints)
      /\ \A j \in 1 .. Len(got) :
            /\ Seen + j \in 1 .. Len(listing)
            /\ Seen + j <= page * PageSize
            /\ got[j] = listing[Seen + j]
      /\ \A i \in 1 .. Len(listing) :
            Seen < i /\ i <= page * PageSize =>
               \E j \in 1 .. Len(got) : got[j] = listing[i]
  BY <1>0, PageContents DEF Seen
<1>2. /\ blueprints' = blueprints \o got /\ page' = page + 1 /\ listing' = listing
      /\ added' = added /\ removed' = removed /\ pages' = counted
      /\ attempt' = 1 /\ refusals' = 0 /\ unpaged' = (unpaged \/ counted # PageCount)
      /\ pc' = IF page' <= pages' THEN "pages" ELSE "group"
  BY DEF PageArrives, NewPages, FirstAttempt
<1> HIDE DEF got
<1>3. Seen' = page * PageSize /\ Seen \in Nat /\ Seen' \in Nat /\ Seen <= Seen'
  <2>1. page' - 1 = page
    BY <1>0, <1>2
  <2> QED BY <1>0, <1>2, <2>1, NextPlaces, Constants DEF Seen
<1>4. /\ blueprints' \in Seq(Blueprints)
      /\ Len(blueprints') = Len(blueprints) + Len(got)
      /\ \A i \in 1 .. Len(blueprints) + Len(got) : blueprints'[i] =
            IF i <= Len(blueprints) THEN blueprints[i] ELSE got[i - Len(blueprints)]
  BY <1>0, <1>1, <1>2, ConcatProperties
<1>5. /\ Len(listing) \in Nat /\ DOMAIN listing = 1 .. Len(listing)
      /\ Len(got) \in Nat /\ DOMAIN got = 1 .. Len(got)
      /\ Len(blueprints) \in Nat /\ DOMAIN blueprints = 1 .. Len(blueprints)
      /\ DOMAIN blueprints' = 1 .. Len(blueprints) + Len(got)
  BY <1>0, <1>1, <1>4, LenProperties
<1>6. ToSet(blueprints') = ToSet(blueprints) \cup ToSet(got)
  <2>1. ToSet(blueprints') \subseteq ToSet(blueprints) \cup ToSet(got)
    <3> SUFFICES ASSUME NEW i \in 1 .. Len(blueprints) + Len(got)
                 PROVE  blueprints'[i] \in ToSet(blueprints) \cup ToSet(got)
      BY <1>5 DEF ToSet
    <3>1. CASE i <= Len(blueprints)
      BY <1>4, <1>5, <3>1 DEF ToSet
    <3>2. CASE i > Len(blueprints)
      <4>1. i - Len(blueprints) \in 1 .. Len(got)
        BY <1>5, <3>2
      <4>2. blueprints'[i] = got[i - Len(blueprints)]
        BY <1>4, <1>5, <3>2
      <4> QED BY <1>5, <4>1, <4>2 DEF ToSet
    <3> QED BY <1>5, <3>1, <3>2
  <2>2. ToSet(blueprints) \subseteq ToSet(blueprints')
    <3> SUFFICES ASSUME NEW i \in 1 .. Len(blueprints)
                 PROVE  blueprints[i] \in ToSet(blueprints')
      BY <1>5 DEF ToSet
    <3>1. i \in 1 .. Len(blueprints) + Len(got) /\ blueprints'[i] = blueprints[i]
      BY <1>4, <1>5
    <3> QED BY <1>5, <3>1 DEF ToSet
  <2>3. ToSet(got) \subseteq ToSet(blueprints')
    <3> SUFFICES ASSUME NEW j \in 1 .. Len(got)
                 PROVE  got[j] \in ToSet(blueprints')
      BY <1>5 DEF ToSet
    <3>1. /\ Len(blueprints) + j \in 1 .. Len(blueprints) + Len(got)
          /\ ~(Len(blueprints) + j <= Len(blueprints))
          /\ (Len(blueprints) + j) - Len(blueprints) = j
      BY <1>5
    <3>2. blueprints'[Len(blueprints) + j] = got[j]
      BY <1>4, <3>1
    <3> QED BY <1>5, <3>1, <3>2 DEF ToSet
  <2> QED BY <2>1, <2>2, <2>3
<1>7. LoopTypes'
  BY <1>0, <1>2, <1>4, PagesHoldAll DEF LoopTypes, MaxAttempts
<1>8. ASSUME removed' = {}, ~unpaged', NEW i \in 1 .. Len(listing),
             i <= Seen', listing[i] \notin added
      PROVE  listing[i] \in ToSet(blueprints')
  <2>1. CASE i <= Seen
    BY <1>0, <1>2, <1>6, <1>8, <2>1 DEF NothingSkipped
  <2>2. CASE Seen < i
    <3>1. PICK j \in 1 .. Len(got) : got[j] = listing[i]
      BY <1>1, <1>3, <1>8, <2>2
    <3> QED BY <1>5, <1>6, <3>1 DEF ToSet
  <2> QED BY <1>3, <1>5, <2>1, <2>2
<1>9. NothingSkipped'
  BY <1>2, <1>8 DEF NothingSkipped
<1>10. NothingMissed'
  <2>0. ToSet(listing) = {listing[i] : i \in 1 .. Len(listing)}
    BY <1>5 DEF ToSet
  <2> SUFFICES ASSUME pc' = "group", removed' = {}, ~unpaged',
                      NEW i \in 1 .. Len(listing), listing[i] \notin added
               PROVE  listing[i] \in ToSet(blueprints')
    BY <1>2, <2>0 DEF NothingMissed
  <2>1. counted = PageCount /\ page + 1 > PageCount
    <3>1. counted = PageCount /\ pages' = counted /\ page' = page + 1
      BY <1>2
    <3>2. ~(page' <= pages')
      BY <1>2
    <3>3. PageCount \in Nat /\ page \in Nat
      BY <1>0, PagesHoldAll
    <3> QED BY <3>1, <3>2, <3>3
  <2>2. Len(listing) <= page * PageSize
    <3>1. PageCount <= page /\ PageCount \in Nat /\ PageSize \in Nat
      BY <1>0, <2>1, PagesHoldAll, Constants
    <3>2. PageCount * PageSize <= page * PageSize
      BY <1>0, <3>1
    <3>3. PageCount * PageSize \in Nat /\ page * PageSize \in Nat
      BY <1>0, <3>1
    <3>4. Len(listing) <= PageCount * PageSize
      BY <1>0, PagesHoldAll
    <3> QED BY <1>5, <3>2, <3>3, <3>4
  <2>3. i <= Seen'
    BY <1>3, <1>5, <2>2
  <2> QED BY <1>8, <2>3
<1>11. NothingReturns'
  <2> SUFFICES ASSUME added = {}
               PROVE  /\ IsInjective(listing) /\ IsInjective(blueprints')
                      /\ \A i \in 1 .. Len(listing) :
                            i > Seen' => listing[i] \notin ToSet(blueprints')
    BY <1>2 DEF NothingReturns
  <2>1. /\ IsInjective(listing) /\ IsInjective(blueprints)
        /\ \A i \in 1 .. Len(listing) : i > Seen => listing[i] \notin ToSet(blueprints)
    BY <1>0 DEF NothingReturns
  <2>2. \A j \in 1 .. Len(got) : got[j] \notin ToSet(blueprints)
    <3> TAKE j \in 1 .. Len(got)
    <3>1. Seen + j \in 1 .. Len(listing) /\ Seen + j > Seen
      BY <1>1, <1>3, <1>5
    <3> QED BY <1>1, <2>1, <3>1
  <2>3. IsInjective(blueprints')
    <3> SUFFICES ASSUME NEW i \in 1 .. Len(blueprints) + Len(got),
                        NEW k \in 1 .. Len(blueprints) + Len(got),
                        blueprints'[i] = blueprints'[k], i < k
                 PROVE  FALSE
      BY <1>5 DEF IsInjective
    <3>1. CASE k <= Len(blueprints)
      <4>1. i \in DOMAIN blueprints /\ k \in DOMAIN blueprints
        BY <1>5, <3>1
      <4>2. blueprints[i] = blueprints[k]
        BY <1>4, <1>5, <3>1
      <4> QED BY <2>1, <4>1, <4>2, <1>5 DEF IsInjective
    <3>2. CASE k > Len(blueprints)
      <4>1. k - Len(blueprints) \in 1 .. Len(got)
            /\ blueprints'[k] = got[k - Len(blueprints)]
        BY <1>4, <1>5, <3>2
      <4>2. CASE i <= Len(blueprints)
        <5>1. blueprints'[i] \in ToSet(blueprints)
          BY <1>4, <1>5, <4>2 DEF ToSet
        <5> QED BY <2>2, <4>1, <5>1
      <4>3. CASE i > Len(blueprints)
        <5>1. i - Len(blueprints) \in 1 .. Len(got)
              /\ blueprints'[i] = got[i - Len(blueprints)]
          BY <1>4, <1>5, <4>3
        <5>2. listing[Seen + (i - Len(blueprints))] = listing[Seen + (k - Len(blueprints))]
          BY <1>1, <4>1, <5>1
        <5>3. Seen + (i - Len(blueprints)) = Seen + (k - Len(blueprints))
          BY <1>1, <1>5, <2>1, <4>1, <5>1, <5>2 DEF IsInjective
        <5> QED BY <1>3, <1>5, <5>3
      <4> QED BY <1>5, <4>2, <4>3
    <3> QED BY <1>5, <3>1, <3>2
  <2>4. \A i \in 1 .. Len(listing) : i > Seen' => listing[i] \notin ToSet(blueprints')
    <3> TAKE i \in 1 .. Len(listing)
    <3>1. HAVE i > Seen'
    <3>2. listing[i] \notin ToSet(blueprints)
      BY <1>3, <1>5, <2>1, <3>1
    <3>3. \A j \in 1 .. Len(got) : listing[i] # got[j]
      <4> SUFFICES ASSUME NEW j \in 1 .. Len(got), listing[i] = got[j] PROVE FALSE
        OBVIOUS
      <4>1. Seen + j \in 1 .. Len(listing) /\ Seen + j <= Seen' /\ listing[i] = listing[Seen + j]
        BY <1>1, <1>3
      <4>2. i = Seen + j
        BY <1>5, <2>1, <4>1 DEF IsInjective
      <4> QED BY <1>3, <1>5, <3>1, <4>1, <4>2
    <3> QED BY <1>5, <1>6, <3>2, <3>3 DEF ToSet
  <2> QED BY <2>1, <2>3, <2>4
<1>12. FailsOnlyPersistently'
  BY <1>2 DEF FailsOnlyPersistently
<1> QED BY <1>7, <1>9, <1>10, <1>11, <1>12

(* A request that fails leaves everything where it is, but for the count   *)
(* of its attempts.                                                        *)
LEMMA FailureKeeps ==
    ASSUME IInv, PageFails
    PROVE  IInv'
<1> USE DEF IInv, MaxAttempts
<1>1. /\ listing' = listing /\ blueprints' = blueprints /\ added' = added
      /\ removed' = removed /\ unpaged' = unpaged /\ page' = page /\ pages' = pages
      /\ pc = "pages" /\ pc' \in {"pages", "failed"}
  BY DEF PageFails, RepeatedPage, LoopTypes, loop
<1>2. LoopTypes' /\ FailsOnlyPersistently'
  BY <1>1 DEF LoopTypes, FailsOnlyPersistently, PageFails, Exhausted, NextAttempt,
     RepeatedPage, loop
<1>3. Seen' = Seen
  BY <1>1 DEF Seen
<1>4. NothingSkipped' /\ NothingMissed' /\ NothingReturns'
  BY <1>1, <1>3 DEF NothingSkipped, NothingMissed, NothingReturns
<1> QED BY <1>2, <1>4

LEMMA NextIInv == IInv /\ [Next]_vars => IInv'
<1> SUFFICES ASSUME IInv, [Next]_vars PROVE IInv'
  OBVIOUS
<1>1. ASSUME NEW counted \in {0, PageCount}, PageArrives(counted) PROVE IInv'
  BY <1>1, PageKeeps
<1>2. CASE PageFails
  BY <1>2, FailureKeeps
<1>3. ASSUME NEW b \in Blueprints, NEW i \in 1 .. Len(listing) + 1, Offer(b, i)
      PROVE  IInv'
  BY <1>3, OfferKeeps
<1>4. ASSUME NEW i \in 1 .. Len(listing), Withdraw(i) PROVE IInv'
  BY <1>4, WithdrawKeeps
<1>5. ASSUME NEW keys \in Before, Group(keys) PROVE IInv'
  <2>1. /\ listing' = <<>> /\ blueprints' = blueprints /\ pc' = "wait"
        /\ page' = 1 /\ attempt' = 1 /\ pages' = 1 /\ refusals' = 0
    BY <1>5 DEF Group
  <2>2. LoopTypes'
    BY <2>1, EmptySeq DEF IInv, LoopTypes, MaxAttempts
  <2> QED BY <2>1, <2>2 DEF IInv, FailsOnlyPersistently, NothingSkipped,
          NothingMissed, NothingReturns
<1>6. CASE \/ \E ok \in BOOLEAN : NameChunk(ok) \/ LabelChunk(ok)
           \/ \E list \in AssetLists \cup {<<>>} : AssetsArrive(list)
           \/ Return
  <2>1. /\ UNCHANGED <<listing, loop, blueprints, observed>>
        /\ pc = "wait" /\ pc' \in {"wait", "done"}
    BY <1>6 DEF NameChunk, LabelChunk, AssetsArrive, Return
  <2> QED BY <2>1 DEF IInv, LoopTypes, FailsOnlyPersistently, NothingSkipped,
          NothingMissed, NothingReturns, loop, observed
<1>7. CASE UNCHANGED vars
  BY <1>7 DEF vars, loop, observed, IInv, LoopTypes, FailsOnlyPersistently,
     NothingSkipped, NothingMissed, NothingReturns, Seen
<1> QED BY <1>1, <1>2, <1>3, <1>4, <1>5, <1>6, <1>7 DEF Next, FetchStep

LEMMA Inductive == Spec => []IInv
BY InitIInv, NextIInv, PTL DEF Spec
-----------------------------------------------------------------------------
(* However many pages there are and whatever comes to the listing in the   *)
(* meantime: if nothing leaves it and every answer had its page count,     *)
(* nothing that was there all along is missed (asset_ticker.go:303-344).   *)
THEOREM NothingIsMissed == Spec => []NothingMissed
BY Inductive, PTL DEF IInv

(* However often something leaves the listing and requests are repeated:   *)
(* if nothing comes to it, nothing is fetched twice.                       *)
THEOREM NothingIsRepeated == Spec => []NothingTwice
<1>1. IInv => NothingTwice
  BY DEF IInv, NothingReturns, NothingTwice
<1> QED BY <1>1, Inductive, PTL

(* The page-- and attempt++ of the retries (asset_ticker.go:312-333) give  *)
(* up on a page only after six refusals of that page.                      *)
THEOREM FailureIsPersistent == Spec => []FailsOnlyPersistently
BY Inductive, PTL DEF IInv
-----------------------------------------------------------------------------
(* A fetch that nothing disturbs has at any time just the pages it asked   *)
(* for, in the order of the listing.                                       *)
QuietPrefix ==
    added = {} /\ removed = {} /\ ~unpaged =>
        /\ pc = "pages" =>
              /\ Len(blueprints) = LastOn(page - 1)
              /\ \A i \in 1 .. Len(blueprints) : blueprints[i] = listing[i]
        /\ pc = "group" => blueprints = listing

LEMMA PageLength ==
    ASSUME NEW p \in Nat \ {0}, listing \in Seq(Blueprints)
    PROVE  /\ LastOn(p - 1) \in Nat /\ LastOn(p) \in Nat
           /\ Len(PageAt(p)) = LastOn(p) - LastOn(p - 1)
<1> DEFINE m == (p - 1) * PageSize  n == LastOn(p)  q == p * PageSize  k == LastOn(p - 1)
<1>1. m \in Nat /\ q \in Nat /\ m < q
  BY NextPlaces, Constants
<1>2. Len(listing) \in Nat /\ \A i \in 1 .. Len(listing) : listing[i] \in Blueprints
  BY LenProperties, ElementOfSeq
<1>3. n = IF q < Len(listing) THEN q ELSE Len(listing)
  BY DEF LastOn
<1>4. k = IF m < Len(listing) THEN m ELSE Len(listing)
  BY DEF LastOn
<1>5. PageAt(p) = SubSeq(listing, m + 1, n)
  BY DEF PageAt
<1> HIDE DEF m, n, q, k
<1>6. Len(SubSeq(listing, m + 1, n)) = IF m + 1 <= n THEN n - (m + 1) + 1 ELSE 0
  <2>1. n \in Int /\ m + 1 \in Int /\ \A i \in m + 1 .. n : listing[i] \in Blueprints
    BY <1>1, <1>2, <1>3
  <2> QED BY <2>1, SubSeqProperties
<1> QED BY <1>1, <1>2, <1>3, <1>4, <1>5, <1>6 DEF n, k

LEMMA QuietPage ==
    ASSUME IInv, QuietPrefix, NEW counted \in {0, PageCount}, PageArrives(counted)
    PROVE  QuietPrefix'
<1> SUFFICES ASSUME added = {}, removed = {}, ~unpaged, counted = PageCount
             PROVE  /\ pc' = "pages" =>
                          /\ Len(blueprints') = LastOn(page - 1)'
                          /\ \A i \in 1 .. Len(blueprints') : blueprints'[i] = listing'[i]
                    /\ pc' = "group" => blueprints' = listing'
  <2>1. added' = added /\ removed' = removed /\ (unpaged \/ counted # PageCount <=> unpaged')
    BY DEF PageArrives
  <2> QED BY <2>1 DEF QuietPrefix
<1> DEFINE got == PageAt(page)
<1>1. /\ listing \in Seq(Blueprints) /\ blueprints \in Seq(Blueprints)
      /\ page \in Nat \ {0} /\ pc = "pages" /\ listing' = listing
      /\ blueprints' = blueprints \o got /\ page' = page + 1 /\ pages' = PageCount
      /\ pc' = IF page' <= pages' THEN "pages" ELSE "group"
  BY DEF IInv, LoopTypes, PageArrives, NewPages
<1>2. /\ Len(blueprints) = LastOn(page - 1)
      /\ \A i \in 1 .. Len(blueprints) : blueprints[i] = listing[i]
  BY <1>1 DEF QuietPrefix
<1>3. /\ got \in Seq(Blueprints)
      /\ \A j \in 1 .. Len(got) : /\ (page - 1) * PageSize + j \in 1 .. Len(listing)
                                  /\ got[j] = listing[(page - 1) * PageSize + j]
  BY <1>1, PageContents
<1>4. /\ LastOn(page - 1) \in Nat /\ LastOn(page) \in Nat
      /\ Len(got) = LastOn(page) - LastOn(page - 1)
  BY <1>1, PageLength
<1> HIDE DEF got
<1>5. /\ Len(listing) \in Nat /\ Len(got) \in Nat /\ (page - 1) * PageSize \in Nat
      /\ page * PageSize \in Nat
  BY <1>1, <1>3, LenProperties, NextPlaces
<1>6. /\ blueprints' \in Seq(Blueprints) /\ Len(blueprints') = LastOn(page)
      /\ \A i \in 1 .. Len(blueprints') : blueprints'[i] =
            IF i <= Len(blueprints) THEN blueprints[i] ELSE got[i - Len(blueprints)]
  <2>1. /\ blueprints' \in Seq(Blueprints)
        /\ Len(blueprints') = Len(blueprints) + Len(got)
        /\ \A i \in 1 .. Len(blueprints) + Len(got) : blueprints'[i] =
              IF i <= Len(blueprints) THEN blueprints[i] ELSE got[i - Len(blueprints)]
    BY <1>1, <1>3, ConcatProperties
  <2> QED BY <1>2, <1>4, <2>1
<1>7. \A i \in 1 .. Len(blueprints') : blueprints'[i] = listing[i]
  <2> SUFFICES ASSUME NEW i \in 1 .. Len(blueprints') PROVE blueprints'[i] = listing[i]
    OBVIOUS
  <2>1. CASE i <= Len(blueprints)
    BY <1>2, <1>4, <1>6, <2>1
  <2>2. CASE i > Len(blueprints)
    <3>1. i - Len(blueprints) \in 1 .. Len(got)
          /\ blueprints'[i] = got[i - Len(blueprints)]
      BY <1>2, <1>4, <1>6, <2>2
    <3>2. (page - 1) * PageSize + (i - Len(blueprints)) \in 1 .. Len(listing)
      BY <1>3, <3>1
    <3>3. (page - 1) * PageSize < Len(listing)
      BY <1>2, <1>4, <1>5, <2>2, <3>2
    <3>4. Len(blueprints) = (page - 1) * PageSize
      BY <1>2, <3>3 DEF LastOn
    <3>5. (page - 1) * PageSize + (i - Len(blueprints)) = i
      BY <1>5, <3>4
    <3> QED BY <1>3, <3>1, <3>5
  <2> QED BY <1>2, <1>4, <1>6, <2>1, <2>2
<1>8. LastOn(page - 1)' = LastOn(page)
  <2>1. page' - 1 = page
    BY <1>1
  <2> QED BY <1>1, <2>1 DEF LastOn
<1>9. ASSUME pc' = "group" PROVE blueprints' = listing
  <2>1. PageCount \in Nat /\ Len(listing) <= PageCount * PageSize
    BY <1>1, PagesHoldAll
  <2>2. PageCount <= page /\ page \in Nat /\ PageSize \in Nat
    BY <1>1, <1>9, <2>1, Constants
  <2>3. PageCount * PageSize <= page * PageSize /\ PageCount * PageSize \in Nat
    BY <2>1, <2>2
  <2>4. LastOn(page) = Len(listing)
    BY <1>5, <2>1, <2>3 DEF LastOn
  <2> QED BY <1>1, <1>6, <1>7, <2>4, SeqEqual
<1> QED BY <1>1, <1>6, <1>7, <1>8, <1>9

LEMMA QuietNext == IInv /\ QuietPrefix /\ [Next]_vars => QuietPrefix'
<1> SUFFICES ASSUME IInv, QuietPrefix, [Next]_vars PROVE QuietPrefix'
  OBVIOUS
<1>1. ASSUME NEW counted \in {0, PageCount}, PageArrives(counted) PROVE QuietPrefix'
  BY <1>1, QuietPage
<1>2. CASE PageFails
  <2>1. /\ UNCHANGED <<listing, blueprints, added, removed, unpaged, page>>
        /\ pc = "pages" /\ pc' \in {"pages", "failed"}
    BY <1>2 DEF PageFails, RepeatedPage, IInv, LoopTypes, loop
  <2> QED BY <2>1 DEF QuietPrefix, LastOn
<1>3. ASSUME NEW b \in Blueprints, NEW i \in 1 .. Len(listing) + 1, Offer(b, i)
      PROVE  QuietPrefix'
  BY <1>3 DEF Offer, QuietPrefix
<1>4. ASSUME NEW i \in 1 .. Len(listing), Withdraw(i) PROVE QuietPrefix'
  BY <1>4 DEF Withdraw, QuietPrefix
<1>5. CASE \/ \E keys \in Before : Group(keys)
           \/ \E ok \in BOOLEAN : NameChunk(ok) \/ LabelChunk(ok)
           \/ \E list \in AssetLists \cup {<<>>} : AssetsArrive(list)
           \/ Return
  <2>1. pc' \in {"wait", "done"}
    BY <1>5 DEF Group, NameChunk, LabelChunk, AssetsArrive, Return
  <2> QED BY <2>1 DEF QuietPrefix
<1>6. CASE UNCHANGED vars
  BY <1>6 DEF vars, loop, observed, QuietPrefix, LastOn
<1> QED BY <1>1, <1>2, <1>3, <1>4, <1>5, <1>6 DEF Next, FetchStep

LEMMA QuietAlways == Spec => []QuietPrefix
<1>1. Init => QuietPrefix
  <2> SUFFICES ASSUME Init PROVE QuietPrefix
    OBVIOUS
  <2>1. listing \in Seq(Blueprints)
    BY Constants DEF Init
  <2>2. Len(listing) \in Nat /\ PageSize \in Nat
    BY <2>1, LenProperties, Constants
  <2>3. LastOn(0) = 0
    BY <2>2 DEF LastOn
  <2>4. page - 1 = 0 /\ Len(blueprints) = 0 /\ pc = "pages"
    BY DEF Init
  <2> QED BY <2>3, <2>4 DEF QuietPrefix
<1> QED BY <1>1, QuietNext, Inductive, PTL DEF Spec
-----------------------------------------------------------------------------
(* The count of the blueprints *)
Entries == [quality : Range(Quality), quantity : Int]
BookTypes == [Books -> Seq(Entries)]

(* A turn of the loop over the blueprints (asset_ticker.go:140-205) leaves *)
(* books that are books.                                                   *)
LEMMA EnterType ==
    ASSUME NEW b \in Blueprints, NEW book \in Seq(Entries)
    PROVE  Enter(book, b) \in Seq(Entries)
<1>1. Quality[b] \in Range(Quality) /\ Pieces(b) \in Int
  BY Constants DEF Range, Pieces
<1>2. CASE SameQuality(book, b) = {}
  BY <1>1, <1>2, AppendProperties DEF Enter, Entries
<1>3. CASE SameQuality(book, b) # {}
  <2>1. DOMAIN book = 1 .. Len(book) /\ Len(book) \in Nat
    BY LenProperties
  <2>2. \A i \in 1 .. Len(book) : book[i] \in Entries
                          /\ [book[i] EXCEPT !.quantity = @ + Pieces(b)] \in Entries
    <3> TAKE i \in 1 .. Len(book)
    <3>1. book[i] \in Entries
      BY ElementOfSeq
    <3> QED BY <1>1, <3>1 DEF Entries
  <2>3. Enter(book, b) \in [1 .. Len(book) -> Entries]
    BY <1>3, <2>1, <2>2 DEF Enter
  <2> QED BY <2>1, <2>3, SeqDef
<1> QED BY <1>2, <1>3

LEMMA CountType ==
    ASSUME NEW b \in Blueprints, NEW m \in BookTypes
    PROVE  Count(m, b) \in BookTypes
BY EnterType DEF Count, BookTypes, BookOf, Books

(* CountAll is what the loop makes of the empty books, turn after turn.    *)
(* FoldLeft has an operator for a parameter, so that this is said of each  *)
(* fold of the model on its own.                                           *)
LEMMA CountAllSteps ==
    ASSUME NEW bps \in Seq(Blueprints)
    PROVE  \E h \in [0 .. Len(bps) -> BookTypes] :
              /\ h[0] = EmptyBooks /\ h[Len(bps)] = CountAll(bps)
              /\ \A i \in 0 .. Len(bps) - 1 : h[i + 1] = Count(h[i], bps[i + 1])
<1> DEFINE n == Len(bps)
           step == [x \in BookTypes \X (1 .. n) |-> Count(x[1], bps[x[2]])]
           Fix(g) == g = [s \in SUBSET DOMAIN bps |->
                            IF s = {} THEN EmptyBooks
                            ELSE Count(g[s \ {Max(s)}], bps[Max(s)])]
<1>1. n \in Nat /\ DOMAIN bps = 1 .. n /\ \A i \in 1 .. n : bps[i] \in Blueprints
  BY LenProperties, ElementOfSeq
<1>2. EmptyBooks \in BookTypes
  BY EmptySeq DEF EmptyBooks, BookTypes
<1>3. /\ step \in [BookTypes \X (1 .. n) -> BookTypes]
      /\ \A m \in BookTypes, i \in 1 .. n : step[<<m, i>>] = Count(m, bps[i])
  BY <1>1, CountType
<1>4. CountAll(bps) = (CHOOSE g : Fix(g))[DOMAIN bps]
  BY DEF CountAll, FoldLeft, MapThenFoldSet
<1> HIDE DEF step, n
<1>5. \A s \in SUBSET (1 .. n) : s # {} => Max(s) \in 1 .. n
  BY <1>1, LargestIn
<1>6. \E g : Fix(g)
  <2>1. PICK g : FoldsTo(g, n, BookTypes, EmptyBooks, step)
    BY <1>1, <1>2, <1>3, FoldExists
  <2>2. Fix(g)
    BY <1>1, <1>3, <1>5, <2>1 DEF FoldsTo
  <2> HIDE DEF Fix
  <2> QED BY <2>2
<1>7. PICK g : Fix(g) /\ CountAll(bps) = g[1 .. n]
  <2> HIDE DEF Fix
  <2> QED BY <1>1, <1>4, <1>6
<1>8. FoldsLike(g, n, BookTypes, EmptyBooks, step)
  BY <1>1, <1>3, <1>5, <1>7 DEF FoldsLike
<1>9. PICK h : StepsOf(h, g, n, BookTypes, EmptyBooks, step)
  BY <1>1, <1>2, <1>3, <1>8, FoldSteps
<1>10. h \in [0 .. n -> BookTypes] /\ h[0] = EmptyBooks /\ h[n] = CountAll(bps)
  BY <1>7, <1>9 DEF StepsOf
<1>11. \A i \in 0 .. n - 1 : h[i + 1] = Count(h[i], bps[i + 1])
  <2> TAKE i \in 0 .. n - 1
  <2>1. i + 1 \in 1 .. n /\ h[i] \in BookTypes
    BY <1>1, <1>10
  <2> QED BY <1>3, <1>9, <2>1 DEF StepsOf
<1> QED BY <1>10, <1>11 DEF n
-----------------------------------------------------------------------------
LEMMA QuantityType == \A b \in Blueprints : Quantity[b] \in Int
<1> TAKE b \in Blueprints
<1>1. Quantity[b] \in Nat \cup {-2, -1}
  BY Constants
<1> QED BY <1>1

(* So is the sum of what the blueprints add to a quality. *)
LEMMA TotalSteps ==
    ASSUME NEW k, NEW q, NEW bps \in Seq(Blueprints)
    PROVE  \E h \in [0 .. Len(bps) -> Int] :
              /\ h[0] = 0 /\ h[Len(bps)] = Total(k, q, bps)
              /\ \A i \in 0 .. Len(bps) - 1 : h[i + 1] = h[i] + AddsTo(k, q, bps[i + 1])
<1> DEFINE n == Len(bps)
           step == [x \in Int \X (1 .. n) |-> x[1] + AddsTo(k, q, bps[x[2]])]
           Fix(g) == g = [s \in SUBSET DOMAIN bps |->
                            IF s = {} THEN 0
                            ELSE g[s \ {Max(s)}] + AddsTo(k, q, bps[Max(s)])]
<1>1. n \in Nat /\ DOMAIN bps = 1 .. n /\ \A i \in 1 .. n : bps[i] \in Blueprints
  BY LenProperties, ElementOfSeq
<1>2. \A i \in 1 .. n : AddsTo(k, q, bps[i]) \in Int
  <2> TAKE i \in 1 .. n
  <2>1. Quantity[bps[i]] \in Int
    <3>1. bps[i] \in Blueprints
      BY <1>1
    <3> QED BY <3>1, QuantityType
  <2> QED BY <2>1 DEF AddsTo
<1>3. /\ step \in [Int \X (1 .. n) -> Int]
      /\ \A m \in Int, i \in 1 .. n : step[<<m, i>>] = m + AddsTo(k, q, bps[i])
  BY <1>1, <1>2
<1> DEFINE S == Int  zero == 0
<1>0. zero \in S /\ step \in [S \X (1 .. n) -> S]
  BY <1>3
<1>4. Total(k, q, bps) = (CHOOSE g : Fix(g))[DOMAIN bps]
  BY DEF Total, FoldLeft, MapThenFoldSet
<1> HIDE DEF step, n, S, zero
<1>5. \A s \in SUBSET (1 .. n) : s # {} => Max(s) \in 1 .. n
  BY <1>1, LargestIn
<1>6. \E g : Fix(g)
  <2>1. PICK g : FoldsTo(g, n, S, zero, step)
    BY <1>1, <1>0, FoldExists
  <2>2. Fix(g)
    BY <1>1, <1>3, <1>5, <2>1 DEF FoldsTo, S, zero
  <2> HIDE DEF Fix
  <2> QED BY <2>2
<1>7. PICK g : Fix(g) /\ Total(k, q, bps) = g[1 .. n]
  <2> HIDE DEF Fix
  <2> QED BY <1>1, <1>4, <1>6
<1>8. FoldsLike(g, n, S, zero, step)
  BY <1>1, <1>3, <1>5, <1>7 DEF FoldsLike, S, zero
<1>9. PICK h : StepsOf(h, g, n, S, zero, step)
  BY <1>1, <1>0, <1>8, FoldSteps
<1>10. h \in [0 .. n -> Int] /\ h[0] = 0 /\ h[n] = Total(k, q, bps)
  BY <1>7, <1>9 DEF StepsOf, S, zero
<1>11. \A i \in 0 .. n - 1 : h[i + 1] = h[i] + AddsTo(k, q, bps[i + 1])
  <2> TAKE i \in 0 .. n - 1
  <2>1. i + 1 \in 1 .. n /\ h[i] \in Int
    BY <1>1, <1>10
  <2> QED BY <1>3, <1>9, <2>1 DEF StepsOf, S, zero
<1> QED BY <1>10, <1>11 DEF n

Has(book, q) == \E i \in DOMAIN book : book[i].quality = q

(* What a book says of quality q, if total is the sum so far *)
Says(book, q, total) ==
    /\ \A i, j \in DOMAIN book : book[i].quality = q /\ book[j].quality = q => i = j
    /\ \A i \in DOMAIN book : book[i].quality = q => book[i].quantity = total
    /\ ~Has(book, q) => total = 0

(* Entering a blueprint keeps its quality to one entry, with the sum, and  *)
(* leaves the other qualities alone.                                       *)
LEMMA EnterEffect ==
    ASSUME NEW b \in Blueprints, NEW book \in Seq(Entries), NEW q, NEW total \in Int,
           Says(book, q, total)
    PROVE  /\ Says(Enter(book, b), q, IF Quality[b] = q THEN total + Pieces(b) ELSE total)
           /\ Has(Enter(book, b), q) <=> Has(book, q) \/ Quality[b] = q
<1>1. Quality[b] \in Range(Quality) /\ Pieces(b) \in Int
  BY Constants DEF Range, Pieces
<1>2. DOMAIN book = 1 .. Len(book) /\ Len(book) \in Nat
      /\ \A i \in 1 .. Len(book) : book[i] \in Entries
  BY LenProperties, ElementOfSeq
<1>3. CASE SameQuality(book, b) = {}
  <2> DEFINE e == [quality |-> Quality[b], quantity |-> Pieces(b)]
  <2>1. e \in Entries /\ e.quality = Quality[b] /\ e.quantity = Pieces(b)
    BY <1>1 DEF Entries
  <2>2. Enter(book, b) = Append(book, e)
    BY <1>3 DEF Enter
  <2> HIDE DEF e
  <2>3. /\ DOMAIN Append(book, e) = 1 .. Len(book) + 1
        /\ \A i \in 1 .. Len(book) : Append(book, e)[i] = book[i]
        /\ Append(book, e)[Len(book) + 1] = e
    BY <1>2, <2>1, AppendProperties, LenProperties
  <2>4. ~Has(book, Quality[b])
    BY <1>3 DEF SameQuality, Has
  <2> QED BY <1>1, <1>2, <2>1, <2>2, <2>3, <2>4 DEF Says, Has
<1>4. CASE SameQuality(book, b) # {}
  <2>1. DOMAIN Enter(book, b) = DOMAIN book
    BY <1>4 DEF Enter
  <2>2. \A i \in DOMAIN book :
           /\ Enter(book, b)[i].quality = book[i].quality
           /\ Enter(book, b)[i].quantity = IF book[i].quality = Quality[b]
                                              THEN book[i].quantity + Pieces(b)
                                              ELSE book[i].quantity
    BY <1>2, <1>4 DEF Enter, SameQuality, Entries
  <2>3. Has(book, Quality[b])
    BY <1>4 DEF SameQuality, Has
  <2> QED BY <2>1, <2>2, <2>3 DEF Says, Has
<1> QED BY <1>3, <1>4

(* After the loop a book has an entry for just the qualities that belong   *)
(* in it, and each one's quantity is the sum of theirs.                    *)
LEMMA CountTotals ==
    ASSUME NEW bps \in Seq(Blueprints), NEW k \in Books, NEW q
    PROVE  /\ Says(CountAll(bps)[k], q, Total(k, q, bps))
           /\ Has(CountAll(bps)[k], q) <=>
                 \E b \in ToSet(bps) : InBook(k, b) /\ Quality[b] = q
<1> DEFINE n == Len(bps)
<1>1. n \in Nat /\ DOMAIN bps = 1 .. n /\ \A i \in 1 .. n : bps[i] \in Blueprints
  BY LenProperties, ElementOfSeq
<1>2. PICK h \in [0 .. n -> BookTypes] :
         /\ h[0] = EmptyBooks /\ h[n] = CountAll(bps)
         /\ \A i \in 0 .. n - 1 : h[i + 1] = Count(h[i], bps[i + 1])
  BY CountAllSteps
<1>3. PICK t \in [0 .. n -> Int] :
         /\ t[0] = 0 /\ t[n] = Total(k, q, bps)
         /\ \A i \in 0 .. n - 1 : t[i + 1] = t[i] + AddsTo(k, q, bps[i + 1])
  BY TotalSteps
<1> HIDE DEF n
<1> DEFINE Among(j) == \E i \in 1 .. j : InBook(k, bps[i]) /\ Quality[bps[i]] = q
           T == {j \in 0 .. n : Says(h[j][k], q, t[j]) /\ (Has(h[j][k], q) <=> Among(j))}
<1>4. 0 \in T
  <2>1. h[0][k] = <<>> /\ DOMAIN <<>> = {}
    BY <1>2 DEF EmptyBooks
  <2> QED BY <1>1, <1>3, <2>1 DEF Says, Has
<1>5. ASSUME NEW j \in 0 .. n - 1, j \in T PROVE j + 1 \in T
  <2> DEFINE b == bps[j + 1]
  <2>1. j \in 0 .. n /\ j + 1 \in 1 .. n /\ j + 1 \in 0 .. n
    BY <1>1
  <2>2. b \in Blueprints /\ h[j] \in BookTypes /\ h[j][k] \in Seq(Entries) /\ t[j] \in Int
    BY <1>1, <1>2, <1>3, <2>1 DEF BookTypes
  <2>3. h[j + 1][k] = IF InBook(k, b) THEN Enter(h[j][k], b) ELSE h[j][k]
    <3>1. h[j + 1] = Count(h[j], b)
      BY <1>2
    <3> QED BY <2>2, <3>1 DEF Count, InBook, BookOf, Books, BookTypes
  <2>4. t[j + 1] = IF InBook(k, b) /\ Quality[b] = q THEN t[j] + Pieces(b) ELSE t[j]
    BY <1>3, <2>2, Constants DEF AddsTo, Pieces, InBook
  <2>5. Among(j + 1) <=> Among(j) \/ (InBook(k, b) /\ Quality[b] = q)
    <3>1. \A i \in 1 .. j + 1 : i \in 1 .. j \/ i = j + 1
      BY <1>1
    <3>2. \A i \in 1 .. j : i \in 1 .. j + 1
      BY <1>1
    <3>3. j + 1 \in 1 .. j + 1
      BY <1>1
    <3> QED BY <3>1, <3>2, <3>3
  <2> HIDE DEF b, Among
  <2>6. Says(h[j][k], q, t[j]) /\ (Has(h[j][k], q) <=> Among(j))
    BY <1>5
  <2>7. Says(h[j + 1][k], q, t[j + 1]) /\ (Has(h[j + 1][k], q) <=> Among(j + 1))
    <3>1. CASE InBook(k, b)
      <4>1. /\ Says(Enter(h[j][k], b), q,
                    IF Quality[b] = q THEN t[j] + Pieces(b) ELSE t[j])
            /\ Has(Enter(h[j][k], b), q) <=> Has(h[j][k], q) \/ Quality[b] = q
        BY <2>2, <2>6, EnterEffect
      <4>2. t[j + 1] = IF Quality[b] = q THEN t[j] + Pieces(b) ELSE t[j]
        BY <2>4, <3>1
      <4> QED BY <2>3, <2>5, <2>6, <3>1, <4>1, <4>2
    <3>2. CASE ~InBook(k, b)
      BY <2>3, <2>4, <2>5, <2>6, <3>2
    <3> QED BY <3>1, <3>2
  <2> QED BY <2>1, <2>7
<1>6. \A j \in 0 .. n : j \in T
  <2> HIDE DEF T
  <2> QED BY <1>1, <1>4, <1>5, UpTo
<1>7. n \in T
  BY <1>1, <1>6
<1>8. Among(n) <=> \E b \in ToSet(bps) : InBook(k, b) /\ Quality[b] = q
  BY <1>1 DEF ToSet
<1> QED BY <1>2, <1>3, <1>7, <1>8

LEMMA CountAllAgrees ==
    ASSUME NEW bps \in Seq(Blueprints)
    PROVE  Agree(CountAll(bps), bps)
<1> SUFFICES ASSUME NEW k \in Books
             PROVE  LET book == CountAll(bps)[k]
                    IN  /\ {book[i].quality : i \in DOMAIN book} =
                           {Quality[b] : b \in {x \in ToSet(bps) : InBook(k, x)}}
                        /\ \A i, j \in DOMAIN book :
                              book[i].quality = book[j].quality => i = j
                        /\ \A i \in DOMAIN book :
                              book[i].quantity = Total(k, book[i].quality, bps)
  BY DEF Agree
<1> DEFINE book == CountAll(bps)[k]
<1>1. ASSUME NEW q
      PROVE  /\ Says(book, q, Total(k, q, bps))
             /\ Has(book, q) <=> \E b \in ToSet(bps) : InBook(k, b) /\ Quality[b] = q
  BY CountTotals
<1> HIDE DEF book
<1>2. \A q : q \in {book[i].quality : i \in DOMAIN book} <=>
             q \in {Quality[b] : b \in {x \in ToSet(bps) : InBook(k, x)}}
  BY <1>1 DEF Has
<1>3. \A i, j \in DOMAIN book : book[i].quality = book[j].quality => i = j
  BY <1>1 DEF Says
<1>4. \A i \in DOMAIN book : book[i].quantity = Total(k, book[i].quality, bps)
  BY <1>1 DEF Says
<1> QED BY <1>2, <1>3, <1>4 DEF book
-----------------------------------------------------------------------------
(* The tree of the assets *)
Assets == [item : Nat, location : Nat]
Nodes == [asset : Assets \cup {None}, children : Seq(Nat)]
Trees == UNION {[D -> Nodes] : D \in SUBSET Nat}

(* A turn of the loop of buildAssetTree leaves a tree that is one. *)
LEMMA AddAssetType ==
    ASSUME NEW m \in Trees, NEW a \in Assets
    PROVE  AddAsset(m, a) \in Trees
<1>1. PICK D \in SUBSET Nat : m \in [D -> Nodes]
  BY DEF Trees
<1> DEFINE E == D \cup {a.item, a.location}
<1>2. a.item \in Nat /\ a.location \in Nat /\ E \in SUBSET Nat
  BY DEF Assets
<1>3. \A id \in E : NodeOf(m, id) \in Nodes
  <2> TAKE id \in E
  <2>1. [asset |-> None, children |-> <<>>] \in Nodes
    BY EmptySeq DEF Nodes
  <2> QED BY <1>1, <2>1 DEF NodeOf
<1>4. \A id \in E : AddAsset(m, a)[id] \in Nodes
  <2> TAKE id \in E
  <2>1. id \in DOMAIN m \cup {a.item, a.location}
    BY <1>1
  <2>2. id \in DOMAIN m => m[id].asset \in Assets \cup {None}
    BY <1>1 DEF Nodes
  <2>3. /\ NodeOf(m, id).asset \in Assets \cup {None}
        /\ NodeOf(m, id).children \in Seq(Nat)
    BY <1>3 DEF Nodes
  <2>4. Append(NodeOf(m, id).children, a.item) \in Seq(Nat)
    BY <1>2, <2>3, AppendProperties
  <2> QED BY <2>1, <2>2, <2>3, <2>4 DEF AddAsset, AssetOf, Nodes
<1>5. AddAsset(m, a) \in [E -> Nodes]
  BY <1>1, <1>4 DEF AddAsset
<1> HIDE DEF E
<1> QED BY <1>2, <1>5 DEF Trees

(* The tree, and what was found in a location, turn after turn *)
LEMMA TreeSteps ==
    ASSUME NEW list \in Seq(Assets)
    PROVE  \E h \in [0 .. Len(list) -> Trees] :
              /\ h[0] = <<>> /\ h[Len(list)] = buildAssetTree(list)
              /\ \A i \in 0 .. Len(list) - 1 : h[i + 1] = AddAsset(h[i], list[i + 1])
<1> DEFINE n == Len(list)
           step == [x \in Trees \X (1 .. n) |-> AddAsset(x[1], list[x[2]])]
           Fix(g) == g = [s \in SUBSET DOMAIN list |->
                            IF s = {} THEN <<>>
                            ELSE AddAsset(g[s \ {Max(s)}], list[Max(s)])]
<1>1. n \in Nat /\ DOMAIN list = 1 .. n /\ \A i \in 1 .. n : list[i] \in Assets
  BY LenProperties, ElementOfSeq
<1>2. <<>> \in Trees
  <2>1. <<>> \in [{} -> Nodes]
    OBVIOUS
  <2> QED BY <2>1 DEF Trees
<1>3. /\ step \in [Trees \X (1 .. n) -> Trees]
      /\ \A m \in Trees, i \in 1 .. n : step[<<m, i>>] = AddAsset(m, list[i])
  BY <1>1, AddAssetType
<1>4. buildAssetTree(list) = (CHOOSE g : Fix(g))[DOMAIN list]
  BY DEF buildAssetTree, FoldLeft, MapThenFoldSet
<1> DEFINE empty == <<>>
<1>5. empty \in Trees
  BY <1>2
<1> HIDE DEF step, n, empty
<1>6. \A s \in SUBSET (1 .. n) : s # {} => Max(s) \in 1 .. n
  BY <1>1, LargestIn
<1>7. \E g : Fix(g)
  <2>1. PICK g : FoldsTo(g, n, Trees, empty, step)
    BY <1>1, <1>5, <1>3, FoldExists
  <2>2. Fix(g)
    BY <1>1, <1>3, <1>6, <2>1 DEF FoldsTo, empty
  <2> HIDE DEF Fix
  <2> QED BY <2>2
<1>8. PICK g : Fix(g) /\ buildAssetTree(list) = g[1 .. n]
  <2> HIDE DEF Fix
  <2> QED BY <1>1, <1>4, <1>7
<1>9. FoldsLike(g, n, Trees, empty, step)
  BY <1>1, <1>3, <1>6, <1>8 DEF FoldsLike, empty
<1>10. PICK h : StepsOf(h, g, n, Trees, empty, step)
  BY <1>1, <1>5, <1>3, <1>9, FoldSteps
<1>11. h \in [0 .. n -> Trees] /\ h[0] = <<>> /\ h[n] = buildAssetTree(list)
  BY <1>8, <1>10 DEF StepsOf, empty
<1>12. \A i \in 0 .. n - 1 : h[i + 1] = AddAsset(h[i], list[i + 1])
  <2> TAKE i \in 0 .. n - 1
  <2>1. i + 1 \in 1 .. n /\ h[i] \in Trees
    BY <1>1, <1>11
  <2> QED BY <1>3, <1>10, <2>1 DEF StepsOf
<1> QED BY <1>11, <1>12 DEF n

LEMMA FoundSteps ==
    ASSUME NEW list \in Seq(Assets), NEW l
    PROVE  \E h \in [0 .. Len(list) -> Seq(Nat)] :
              /\ h[0] = <<>> /\ h[Len(list)] = FoundIn(l, list)
              /\ \A i \in 0 .. Len(list) - 1 :
                    h[i + 1] = IF list[i + 1].location = l
                                  THEN Append(h[i], list[i + 1].item) ELSE h[i]
<1> DEFINE n == Len(list)
           With(ids, a) == IF a.location = l THEN Append(ids, a.item) ELSE ids
           step == [x \in Seq(Nat) \X (1 .. n) |-> With(x[1], list[x[2]])]
           Fix(g) == g = [s \in SUBSET DOMAIN list |->
                            IF s = {} THEN <<>>
                            ELSE With(g[s \ {Max(s)}], list[Max(s)])]
<1>1. n \in Nat /\ DOMAIN list = 1 .. n /\ \A i \in 1 .. n : list[i] \in Assets
  BY LenProperties, ElementOfSeq
<1>2. FoundIn(l, list) = (CHOOSE g : Fix(g))[DOMAIN list]
  BY DEF FoundIn, FoldLeft, MapThenFoldSet
<1>3. \A ids \in Seq(Nat), a \in Assets : With(ids, a) \in Seq(Nat)
  <2> TAKE ids \in Seq(Nat), a \in Assets
  <2>1. a.item \in Nat
    BY DEF Assets
  <2> QED BY <2>1, AppendProperties
<1> HIDE DEF With
<1>4. /\ step \in [Seq(Nat) \X (1 .. n) -> Seq(Nat)]
      /\ \A m \in Seq(Nat), i \in 1 .. n : step[<<m, i>>] = With(m, list[i])
  BY <1>1, <1>3
<1> DEFINE empty == <<>>  S == Seq(Nat)
<1>5. empty \in S /\ step \in [S \X (1 .. n) -> S]
  BY <1>4, EmptySeq
<1> HIDE DEF step, n, empty, S
<1>6. \A s \in SUBSET (1 .. n) : s # {} => Max(s) \in 1 .. n
  BY <1>1, LargestIn
<1>7. \E g : Fix(g)
  <2>1. PICK g : FoldsTo(g, n, S, empty, step)
    BY <1>1, <1>5, FoldExists
  <2>2. Fix(g)
    BY <1>1, <1>4, <1>6, <2>1 DEF FoldsTo, empty, S
  <2> HIDE DEF Fix
  <2> QED BY <2>2
<1>8. PICK g : Fix(g) /\ FoundIn(l, list) = g[1 .. n]
  <2> HIDE DEF Fix
  <2> QED BY <1>1, <1>2, <1>7
<1>9. FoldsLike(g, n, S, empty, step)
  BY <1>1, <1>4, <1>6, <1>8 DEF FoldsLike, empty, S
<1>10. PICK h : StepsOf(h, g, n, S, empty, step)
  BY <1>1, <1>5, <1>9, FoldSteps
<1>11. h \in [0 .. n -> Seq(Nat)] /\ h[0] = <<>> /\ h[n] = FoundIn(l, list)
  BY <1>8, <1>10 DEF StepsOf, empty, S
<1>12. \A i \in 0 .. n - 1 : h[i + 1] = With(h[i], list[i + 1])
  <2> TAKE i \in 0 .. n - 1
  <2>1. i + 1 \in 1 .. n /\ h[i] \in Seq(Nat)
    BY <1>1, <1>11
  <2> QED BY <1>4, <1>10, <2>1 DEF StepsOf, S
<1> QED BY <1>11, <1>12 DEF n, With

(* What the tree of the assets so far says of location l *)
OwnAsset(asset, l, items) ==
    IF \E x \in items : x.item = l THEN asset \in {x \in items : x.item = l}
                                     ELSE asset = None

HasNode(m, l, items, found) ==
    /\ l \in DOMAIN m => m[l].children = found /\ OwnAsset(m[l].asset, l, items)
    /\ l \notin DOMAIN m => found = <<>> /\ \A x \in items : x.item # l

(* One more asset makes at most two nodes, and what the tree says of any   *)
(* location stays what the assets so far say of it.                        *)
LEMMA AddAssetEffect ==
    ASSUME NEW m \in Trees, NEW a \in Assets, NEW items, NEW l, NEW found,
           HasNode(m, l, items, found)
    PROVE  /\ DOMAIN AddAsset(m, a) = DOMAIN m \cup {a.item, a.location}
           /\ HasNode(AddAsset(m, a), l, items \cup {a},
                      IF a.location = l THEN Append(found, a.item) ELSE found)
<1>1. DOMAIN AddAsset(m, a) = DOMAIN m \cup {a.item, a.location}
  BY DEF AddAsset
<1>2. NodeOf(m, l).children = found
  BY DEF NodeOf, HasNode
<1>3. CASE l \in DOMAIN AddAsset(m, a)
  <2>1. AddAsset(m, a)[l].children =
           IF a.location = l THEN Append(found, a.item) ELSE found
    BY <1>1, <1>2, <1>3 DEF AddAsset
  <2>2. AddAsset(m, a)[l].asset = IF l # a.item THEN NodeOf(m, l).asset
                                  ELSE IF l \in DOMAIN m THEN AssetOf(m[l], a) ELSE a
    BY <1>1, <1>3 DEF AddAsset
  <2>3. OwnAsset(AddAsset(m, a)[l].asset, l, items \cup {a})
    <3>1. CASE l = a.item
      <4>1. \E x \in items \cup {a} : x.item = l
        BY <3>1
      <4>2. CASE l \in DOMAIN m
        <5>1. OwnAsset(m[l].asset, l, items)
          BY <4>2 DEF HasNode
        <5> QED BY <2>2, <3>1, <4>1, <4>2, <5>1 DEF AssetOf, OwnAsset
      <4>3. CASE l \notin DOMAIN m
        BY <2>2, <3>1, <4>1, <4>3 DEF OwnAsset
      <4> QED BY <4>2, <4>3
    <3>2. CASE l # a.item
      <4>1. OwnAsset(NodeOf(m, l).asset, l, items)
        BY DEF HasNode, NodeOf, OwnAsset
      <4> QED BY <2>2, <3>2, <4>1 DEF OwnAsset
    <3> QED BY <3>1, <3>2
  <2> QED BY <1>1, <1>3, <2>1, <2>3 DEF HasNode
<1>4. CASE l \notin DOMAIN AddAsset(m, a)
  <2>1. l \notin DOMAIN m /\ a.item # l /\ a.location # l
    BY <1>1, <1>4
  <2> QED BY <1>1, <1>4, <2>1 DEF HasNode
<1> QED BY <1>1, <1>3, <1>4

(* The tree says of every location what all the assets say of it, in       *)
(* whatever order they came.                                               *)
LEMMA TreeContents ==
    ASSUME NEW list \in Seq(Assets), NEW l
    PROVE  /\ DOMAIN buildAssetTree(list) = {a.item : a \in ToSet(list)}
                                            \cup {a.location : a \in ToSet(list)}
           /\ HasNode(buildAssetTree(list), l, ToSet(list), FoundIn(l, list))
<1> DEFINE n == Len(list)
<1>1. n \in Nat /\ DOMAIN list = 1 .. n /\ \A i \in 1 .. n : list[i] \in Assets
  BY LenProperties, ElementOfSeq
<1>2. PICK h \in [0 .. n -> Trees] :
         /\ h[0] = <<>> /\ h[n] = buildAssetTree(list)
         /\ \A i \in 0 .. n - 1 : h[i + 1] = AddAsset(h[i], list[i + 1])
  BY TreeSteps
<1>3. PICK f \in [0 .. n -> Seq(Nat)] :
         /\ f[0] = <<>> /\ f[n] = FoundIn(l, list)
         /\ \A i \in 0 .. n - 1 : f[i + 1] = IF list[i + 1].location = l
                                  THEN Append(f[i], list[i + 1].item) ELSE f[i]
  BY FoundSteps
<1> HIDE DEF n
<1> DEFINE So(j) == {list[i] : i \in 1 .. j}
           Right(j) == /\ DOMAIN h[j] = {a.item : a \in So(j)} \cup {a.location : a \in So(j)}
                       /\ HasNode(h[j], l, So(j), f[j])
           T == {j \in 0 .. n : Right(j)}
<1>4. 0 \in T
  <2>1. So(0) = {} /\ DOMAIN h[0] = {}
    BY <1>2
  <2> QED BY <1>1, <1>3, <2>1 DEF HasNode
<1>5. ASSUME NEW j \in 0 .. n - 1, j \in T PROVE j + 1 \in T
  <2> DEFINE a == list[j + 1]
  <2>1. j \in 0 .. n /\ j + 1 \in 1 .. n /\ j + 1 \in 0 .. n
    BY <1>1
  <2>2. a \in Assets /\ h[j] \in Trees
    BY <1>1, <1>2, <2>1
  <2>3. So(j + 1) = So(j) \cup {a}
    <3>1. \A i \in 1 .. j + 1 : i \in 1 .. j \/ i = j + 1
      BY <1>1
    <3>2. \A i \in 1 .. j : i \in 1 .. j + 1
      BY <1>1
    <3>3. j + 1 \in 1 .. j + 1
      BY <1>1
    <3> QED BY <3>1, <3>2, <3>3
  <2>4. h[j + 1] = AddAsset(h[j], a)
        /\ f[j + 1] = IF a.location = l THEN Append(f[j], a.item) ELSE f[j]
    BY <1>2, <1>3
  <2>5. Right(j)
    BY <1>5
  <2> HIDE DEF So, a
  <2>6. Right(j + 1)
    <3>1. /\ DOMAIN AddAsset(h[j], a) = DOMAIN h[j] \cup {a.item, a.location}
          /\ HasNode(AddAsset(h[j], a), l, So(j) \cup {a},
                     IF a.location = l THEN Append(f[j], a.item) ELSE f[j])
      BY <2>2, <2>5, AddAssetEffect
    <3>2. DOMAIN h[j + 1] = {x.item : x \in So(j + 1)} \cup {x.location : x \in So(j + 1)}
      BY <2>3, <2>4, <2>5, <3>1
    <3>3. HasNode(h[j + 1], l, So(j + 1), f[j + 1])
      BY <2>3, <2>4, <3>1
    <3> QED BY <3>2, <3>3
  <2> HIDE DEF Right
  <2> QED BY <2>1, <2>6
<1>6. \A j \in 0 .. n : j \in T
  <2> HIDE DEF T
  <2> QED BY <1>1, <1>4, <1>5, UpTo
<1>7. n \in T
  <2>1. n \in 0 .. n
    BY <1>1
  <2> HIDE DEF T
  <2> QED BY <1>6, <2>1
<1>8. So(n) = ToSet(list)
  BY <1>1 DEF ToSet
<1> QED BY <1>2, <1>3, <1>7, <1>8
-----------------------------------------------------------------------------
(* What the goroutines are asked for: slices.Sort and slices.Compact keep  *)
(* every key,                                                              *)
LEMMA SortedList ==
    ASSUME NEW ids \in SUBSET Nat, IsFiniteSet(ids)
    PROVE  SortCompact(ids) \in Seq(ids) /\ ToSet(SortCompact(ids)) = ids
<1>1. \E s \in [1 .. Cardinality(ids) -> ids] : Increasing(s)
  BY IncreasingExists
<1>2. SortCompact(ids) \in [1 .. Cardinality(ids) -> ids] /\ Increasing(SortCompact(ids))
  BY <1>1 DEF SortCompact, Increasing
<1> QED BY <1>2, IncreasingListsAll

(* and slices.Chunk leaves none out. *)
LEMMA ChunkParts ==
    ASSUME NEW S, NEW ids \in Seq(S)
    PROVE  /\ Chunk(ids) \in Seq(S) /\ AfterChunk(ids) \in Seq(S)
           /\ ToSet(ids) = ToSet(Chunk(ids)) \cup ToSet(AfterChunk(ids))
<1> DEFINE n == Len(ids)  e == ChunkEnd(ids)  s1 == Chunk(ids)  s2 == AfterChunk(ids)
<1>1. n \in Nat /\ DOMAIN ids = 1 .. n /\ \A i \in 1 .. n : ids[i] \in S
  BY LenProperties, ElementOfSeq
<1>2. e \in Nat /\ e <= n
  BY <1>1, Constants DEF ChunkEnd
<1>3. s1 = SubSeq(ids, 1, e) /\ s2 = SubSeq(ids, e + 1, n)
  BY DEF Chunk, AfterChunk
<1> HIDE DEF n, e, s1, s2
<1>4. s1 \in Seq(S) /\ Len(s1) = e /\ \A i \in 1 .. e : s1[i] = ids[i]
  BY <1>1, <1>2, <1>3, SubSeqProperties
<1>5. s2 \in Seq(S) /\ Len(s2) = n - e /\ \A i \in 1 .. n - e : s2[i] = ids[e + i]
  <2>1. /\ s2 \in Seq(S) /\ Len(s2) = IF e + 1 <= n THEN n - (e + 1) + 1 ELSE 0
        /\ \A i \in 1 .. n - (e + 1) + 1 : s2[i] = ids[e + 1 + i - 1]
    <3>1. e + 1 \in Int /\ n \in Int /\ \A i \in e + 1 .. n : ids[i] \in S
      BY <1>1, <1>2
    <3> QED BY <1>3, <3>1, SubSeqProperties
  <2>2. n - (e + 1) + 1 = n - e
    BY <1>1, <1>2
  <2>3. \A i \in 1 .. n - e : e + 1 + i - 1 = e + i
    BY <1>1, <1>2
  <2> QED BY <1>1, <1>2, <2>1, <2>2, <2>3
<1>6. DOMAIN s1 = 1 .. e /\ DOMAIN s2 = 1 .. n - e
  BY <1>4, <1>5, LenProperties
<1>7. ToSet(s1) = {ids[i] : i \in 1 .. e} /\ ToSet(ids) = {ids[i] : i \in 1 .. n}
  BY <1>1, <1>4, <1>6 DEF ToSet
<1>8. ToSet(s2) = {ids[i] : i \in e + 1 .. n}
  <2>1. ToSet(s2) = {ids[e + i] : i \in 1 .. n - e}
    BY <1>5, <1>6 DEF ToSet
  <2>2. \A i \in 1 .. n - e : e + i \in e + 1 .. n
    BY <1>1, <1>2
  <2>3. \A i \in e + 1 .. n : i - e \in 1 .. n - e /\ e + (i - e) = i
    BY <1>1, <1>2
  <2> QED BY <2>1, <2>2, <2>3
<1>9. 1 .. n = (1 .. e) \cup (e + 1 .. n)
  BY <1>1, <1>2
<1> QED BY <1>4, <1>5, <1>7, <1>8, <1>9 DEF n, e, s1, s2

(* The keys of what is in the hangar, but for the rest, as a sorted list *)
LEMMA KeysToAsk ==
    ASSUME NEW bps \in Seq(Blueprints), NEW K \in [Blueprints -> Nat], NEW rest
    PROVE  LET ids == {K[b] : b \in InHangarOnly(bps)} \ rest
           IN  /\ SortCompact(ids) \in Seq(Range(K))
               /\ ToSet(SortCompact(ids)) = ids
<1> DEFINE H == InHangarOnly(bps)  all == {K[b] : b \in H}  ids == all \ rest
<1>1. IsFiniteSet(H) /\ H \subseteq Blueprints
  <2>1. IsFiniteSet(ToSet(bps)) /\ ToSet(bps) \subseteq Blueprints
    BY FiniteToSet
  <2>2. H \subseteq ToSet(bps)
    BY DEF InHangarOnly
  <2> QED BY <2>1, <2>2, FS_Subset
<1> HIDE DEF H
<1>2. IsFiniteSet(all)
  BY <1>1, FiniteImage
<1>3. IsFiniteSet(ids)
  <2>1. ids \in SUBSET all
    OBVIOUS
  <2> QED BY <1>2, <2>1, FS_Subset
<1>4. ids \in SUBSET Nat /\ ids \subseteq Range(K)
  BY <1>1 DEF Range
<1> HIDE DEF ids
<1>5. SortCompact(ids) \in Seq(ids) /\ ToSet(SortCompact(ids)) = ids
  BY <1>3, <1>4, SortedList
<1>6. SortCompact(ids) \in Seq(Range(K))
  BY <1>4, <1>5, SeqMonotonic
<1> QED BY <1>5, <1>6 DEF ids, H

LEMMA ListsToAsk ==
    ASSUME blueprints \in Seq(Blueprints), NEW keys, Group(keys)
    PROVE  /\ todo' \in Seq(Range(Type)) /\ unknown' \in Seq(Range(Location))
           /\ ToSet(todo') = {Type[b] : b \in InHangarOnly(blueprints)}
           /\ ToSet(unknown') = {Location[b] : b \in InHangarOnly(blueprints)} \ keys
<1> DEFINE ids(K, rest) == {K[b] : b \in InHangarOnly(blueprints)} \ rest
<1>1. todo' = SortCompact(ids(Type, {})) /\ unknown' = SortCompact(ids(Location, keys))
  <2>1. ids(Type, {}) = {Type[b] : b \in InHangarOnly(blueprints)}
    OBVIOUS
  <2> QED BY <2>1 DEF Group
<1>2. ASSUME NEW K \in [Blueprints -> Nat], NEW rest
      PROVE  /\ SortCompact(ids(K, rest)) \in Seq(Range(K))
             /\ ToSet(SortCompact(ids(K, rest))) = ids(K, rest)
  BY KeysToAsk
<1>3. Type \in [Blueprints -> Nat] /\ Location \in [Blueprints -> Nat]
  BY Constants
<1>4. /\ ids(Type, {}) = {Type[b] : b \in InHangarOnly(blueprints)}
      /\ ids(Location, keys) = {Location[b] : b \in InHangarOnly(blueprints)} \ keys
  OBVIOUS
<1> HIDE DEF ids
<1>5. /\ todo' \in Seq(Range(Type)) /\ ToSet(todo') = ids(Type, {})
      /\ unknown' \in Seq(Range(Location)) /\ ToSet(unknown') = ids(Location, keys)
  BY <1>1, <1>2, <1>3
<1> QED BY <1>4, <1>5

LEMMA CountAllType ==
    ASSUME NEW bps \in Seq(Blueprints)
    PROVE  CountAll(bps) \in BookTypes
<1>1. Len(bps) \in 0 .. Len(bps)
  BY LenProperties
<1> QED BY <1>1, CountAllSteps

-----------------------------------------------------------------------------
LEMMA TypeInit == Init => TypeOK
<1> SUFFICES ASSUME Init PROVE TypeOK
  OBVIOUS
<1>1. listing \in Seq(Blueprints)
  BY Constants DEF Init
<1>2. books \in [Books -> Seq([quality : Range(Quality), quantity : Int])]
  BY EmptySeq DEF Init, EmptyBooks
<1>3. /\ blueprints \in Seq(Blueprints) /\ todo \in Seq(Range(Type))
      /\ unknown \in Seq(Range(Location))
  BY EmptySeq DEF Init
<1>4. /\ pc \in {"pages", "group", "wait", "done", "failed"}
      /\ page \in Nat \ {0} /\ pages \in Nat /\ attempt \in 1 .. MaxAttempts + 1
      /\ refusals \in 0 .. MaxAttempts + 1
  BY DEF Init, MaxAttempts
<1>5. /\ names = {} /\ added = {} /\ removed = {} /\ unnamed = {} /\ known = {}
      /\ labels = {} /\ unlabeled = {} /\ assets = <<>>
      /\ unpaged \in BOOLEAN /\ fetching \in BOOLEAN
  BY DEF Init
<1> QED BY <1>1, <1>2, <1>3, <1>4, <1>5 DEF TypeOK

LEMMA TypeNext == TypeOK /\ [Next]_vars => TypeOK'
<1> SUFFICES ASSUME TypeOK, [Next]_vars PROVE TypeOK'
  OBVIOUS
<1> USE DEF MaxAttempts
<1>1. ASSUME NEW counted \in {0, PageCount}, PageArrives(counted) PROVE TypeOK'
  <2>1. PageCount \in Nat
    BY PagesHoldAll DEF TypeOK
  <2>2. PageAt(page) \in Seq(Blueprints)
    BY PageContents DEF TypeOK
  <2>3. blueprints' \in Seq(Blueprints)
    BY <1>1, <2>2, ConcatProperties DEF PageArrives, TypeOK
  <2>4. /\ page' \in Nat \ {0} /\ pages' \in Nat /\ attempt' \in 1 .. MaxAttempts + 1
        /\ refusals' \in 0 .. MaxAttempts + 1 /\ pc' \in {"pages", "group"}
    BY <1>1, <2>1 DEF PageArrives, NewPages, FirstAttempt, TypeOK
  <2>5. unpaged' \in BOOLEAN
    BY <1>1 DEF PageArrives
  <2>6. UNCHANGED <<listing, books, known, todo, names, unnamed, unknown, labels,
                    unlabeled, fetching, assets, added, removed>>
    BY <1>1 DEF PageArrives, jobs, typeJob, containerJob, assetJob
  <2> QED BY <2>3, <2>4, <2>5, <2>6 DEF TypeOK
<1>2. CASE PageFails
  <2>1. /\ page' \in Nat \ {0} /\ pages' \in Nat /\ attempt' \in 1 .. MaxAttempts + 1
        /\ refusals' \in 0 .. MaxAttempts + 1 /\ pc' \in {"pages", "group", "failed"}
    BY <1>2 DEF PageFails, RepeatedPage, NextAttempt, Exhausted, TypeOK, loop
  <2> QED BY <1>2, <2>1 DEF PageFails, TypeOK, jobs, typeJob, containerJob, assetJob
<1>3. ASSUME NEW b \in Blueprints, NEW i \in 1 .. Len(listing) + 1, Offer(b, i)
      PROVE  TypeOK'
  <2>1. listing' \in Seq(Blueprints)
    BY <1>3, InsertedSeq DEF Offer, TypeOK
  <2> QED BY <1>3, <2>1 DEF Offer, TypeOK, loop, jobs, typeJob, containerJob, assetJob
<1>4. ASSUME NEW i \in 1 .. Len(listing), Withdraw(i) PROVE TypeOK'
  <2>1. listing' \in Seq(Blueprints) /\ listing[i] \in Blueprints
    BY <1>4, RemovedSeq, ElementOfSeq DEF Withdraw, TypeOK
  <2> QED BY <1>4, <2>1 DEF Withdraw, TypeOK, loop, jobs, typeJob, containerJob,
          assetJob
<1>5. ASSUME NEW keys \in Before, Group(keys) PROVE TypeOK'
  <2>1. books' \in BookTypes
    BY <1>5, CountAllType DEF Group, TypeOK
  <2>2. todo' \in Seq(Range(Type)) /\ unknown' \in Seq(Range(Location))
    BY <1>5, ListsToAsk DEF TypeOK
  <2>3. listing' \in Seq(Blueprints)
    BY <1>5, EmptySeq DEF Group
  <2>4. /\ page' \in Nat \ {0} /\ pages' \in Nat /\ attempt' \in 1 .. MaxAttempts + 1
        /\ refusals' \in 0 .. MaxAttempts + 1
    BY <1>5 DEF Group
  <2>5. /\ pc' = "wait" /\ added' = {} /\ removed' = {} /\ known' \in Before
        /\ unpaged' \in BOOLEAN /\ fetching' \in BOOLEAN
    BY <1>5 DEF Group
  <2>6. UNCHANGED <<blueprints, names, unnamed, labels, unlabeled, assets>>
    BY <1>5 DEF Group
  <2> QED BY <2>1, <2>2, <2>3, <2>4, <2>5, <2>6 DEF TypeOK, BookTypes, Entries
<1>6. ASSUME NEW ok \in BOOLEAN, NameChunk(ok) PROVE TypeOK'
  <2>1. todo' \in Seq(Range(Type)) /\ ToSet(Chunk(todo)) \subseteq Range(Type)
    BY <1>6, ChunkParts, FiniteToSet DEF NameChunk, TypeOK
  <2> QED BY <1>6, <2>1 DEF NameChunk, TypeOK, loop, containerJob, assetJob, observed
<1>7. ASSUME NEW ok \in BOOLEAN, LabelChunk(ok) PROVE TypeOK'
  <2>1. unknown' \in Seq(Range(Location)) /\ ToSet(Chunk(unknown)) \subseteq Range(Location)
    BY <1>7, ChunkParts, FiniteToSet DEF LabelChunk, TypeOK
  <2> QED BY <1>7, <2>1 DEF LabelChunk, TypeOK, loop, typeJob, assetJob, observed
<1>8. ASSUME NEW list \in AssetLists \cup {<<>>}, AssetsArrive(list) PROVE TypeOK'
  BY <1>8 DEF AssetsArrive, TypeOK, loop, typeJob, containerJob, observed
<1>9. CASE Return
  BY <1>9 DEF Return, TypeOK, loop, jobs, typeJob, containerJob, assetJob, observed
<1>10. CASE UNCHANGED vars
  BY <1>10 DEF vars, TypeOK, loop, jobs, typeJob, containerJob, assetJob, observed
<1> QED BY <1>1, <1>2, <1>3, <1>4, <1>5, <1>6, <1>7, <1>8, <1>9, <1>10
        DEF Next, FetchStep
-----------------------------------------------------------------------------
(* The type and the container of a counted blueprint are still on a list,  *)
(* or were in a request that was answered or failed; and what the fetch    *)
(* returns was made of all that came.  TypeOK and Counted are inductive.   *)
Wanted(b) ==
    /\ Type[b] \in ToSet(todo) \cup names \cup unnamed
    /\ Location[b] \in ToSet(unknown) \cup labels \cup unlabeled \cup known

Counted ==
    /\ pc \in {"wait", "done"} =>
          /\ books = CountAll(blueprints)
          /\ \A b \in InHangarOnly(blueprints) : Wanted(b)
    /\ pc = "done" => todo = <<>> /\ unknown = <<>> /\ tree = buildAssetTree(assets)

LEMMA CountedNext == TypeOK /\ Counted /\ [Next]_vars => Counted'
<1> SUFFICES ASSUME TypeOK, Counted, [Next]_vars PROVE Counted'
  OBVIOUS
<1>1. ASSUME NEW keys \in Before, Group(keys) PROVE Counted'
  <2>1. ASSUME NEW b \in InHangarOnly(blueprints)
        PROVE  Type[b] \in ToSet(todo') /\ Location[b] \in ToSet(unknown') \cup known'
    <3>1. /\ ToSet(todo') = {Type[x] : x \in InHangarOnly(blueprints)}
          /\ ToSet(unknown') = {Location[x] : x \in InHangarOnly(blueprints)} \ keys
      BY <1>1, ListsToAsk DEF TypeOK
    <3>2. known' = keys
      BY <1>1 DEF Group
    <3> QED BY <3>1, <3>2
  <2> QED BY <1>1, <2>1 DEF Group, Counted, Wanted
<1>2. ASSUME NEW ok \in BOOLEAN, NameChunk(ok) PROVE Counted'
  <2>1. ToSet(todo) \subseteq ToSet(todo') \cup names' \cup unnamed'
        /\ names \subseteq names' /\ unnamed \subseteq unnamed'
    BY <1>2, ChunkParts DEF NameChunk, TypeOK
  <2>2. /\ pc = "wait" /\ pc' = "wait"
        /\ UNCHANGED <<blueprints, books, known, unknown, labels, unlabeled>>
    BY <1>2 DEF NameChunk, containerJob
  <2> QED BY <2>1, <2>2 DEF Counted, Wanted
<1>3. ASSUME NEW ok \in BOOLEAN, LabelChunk(ok) PROVE Counted'
  <2>1. ToSet(unknown) \subseteq ToSet(unknown') \cup labels' \cup unlabeled'
        /\ labels \subseteq labels' /\ unlabeled \subseteq unlabeled'
    BY <1>3, ChunkParts DEF LabelChunk, TypeOK
  <2>2. /\ pc = "wait" /\ pc' = "wait"
        /\ UNCHANGED <<blueprints, books, known, todo, names, unnamed>>
    BY <1>3 DEF LabelChunk, typeJob
  <2> QED BY <2>1, <2>2 DEF Counted, Wanted
<1>4. ASSUME NEW list \in AssetLists \cup {<<>>}, AssetsArrive(list) PROVE Counted'
  BY <1>4 DEF AssetsArrive, Counted, Wanted, typeJob, containerJob
<1>5. CASE Return
  BY <1>5 DEF Return, Waited, Counted, Wanted, jobs, typeJob, containerJob, assetJob
<1>6. CASE UNCHANGED vars
  BY <1>6 DEF vars, Counted, Wanted, jobs, typeJob, containerJob, assetJob
<1>7. CASE \/ \E counted \in {0, PageCount} : PageArrives(counted)
           \/ PageFails
           \/ \E b \in Blueprints, i \in 1 .. Len(listing) + 1 : Offer(b, i)
           \/ \E i \in 1 .. Len(listing) : Withdraw(i)
  <2>1. pc' \in {"pages", "group", "failed"}
    BY <1>7 DEF PageArrives, PageFails, Offer, Withdraw
  <2> QED BY <2>1 DEF Counted
<1> QED BY <1>1, <1>2, <1>3, <1>4, <1>5, <1>6, <1>7 DEF Next, FetchStep

LEMMA CountedAlways == Spec => [](TypeOK /\ Counted)
<1>1. Init => TypeOK /\ Counted
  BY TypeInit DEF Init, Counted
<1>2. TypeOK /\ Counted /\ [Next]_vars => (TypeOK /\ Counted)'
  BY TypeNext, CountedNext
<1> QED BY <1>1, <1>2, PTL DEF Spec
-----------------------------------------------------------------------------
(* The variables of a fetch keep their types: the books stay lists of      *)
(* entries with whole quantities, and nothing but types and locations of   *)
(* blueprints is asked for.                                                *)
THEOREM TypeCorrect == Spec => []TypeOK
BY CountedAlways, PTL

(* "populate bpo/bpc with a total count of each type/quality"              *)
(* (asset_ticker.go:139-205): whatever was fetched and in whatever order,  *)
(* each book has one entry for each quality, with the sum of what belongs  *)
(* to it.                                                                  *)
THEOREM TotalsAlwaysAgree == Spec => []TotalsAgree
<1>1. TypeOK /\ Counted => TotalsAgree
  BY CountAllAgrees DEF Counted, TypeOK, TotalsAgree
<1> QED BY <1>1, CountedAlways, PTL

(* From fetchCorpBlueprints to bpcs and bpos: a fetch during which the     *)
(* listing stays as it is, whatever requests are repeated, counts just     *)
(* what is in the listing.                                                 *)
THEOREM QuietFetchCounts == Spec => QuietFetchIsExact
<1>1. TypeOK /\ QuietPrefix /\ [Next]_vars =>
         [pc = "group" /\ pc' = "wait" /\ added = {} /\ removed = {} /\ ~unpaged =>
             Agree(books', listing)]_vars
  <2> SUFFICES ASSUME TypeOK, QuietPrefix, [Next]_vars, pc = "group", pc' = "wait",
                      added = {}, removed = {}, ~unpaged
               PROVE  Agree(books', listing)
    OBVIOUS
  <2>1. blueprints = listing /\ blueprints \in Seq(Blueprints)
    BY DEF QuietPrefix, TypeOK
  <2>2. books' = CountAll(blueprints)
    BY DEF Next, FetchStep, PageArrives, PageFails, Group, NameChunk, LabelChunk,
       AssetsArrive, Return, Offer, Withdraw, vars
  <2> QED BY <2>1, <2>2, CountAllAgrees
<1> QED BY <1>1, TypeCorrect, QuietAlways, PTL DEF Spec, QuietFetchIsExact

(* fetchTypeNames asks for every type of a counted blueprint, however the  *)
(* chunks fall (asset_ticker.go:349-384).                                  *)
THEOREM TypesAreNamed == Spec => []NamesAreComplete
<1>1. TypeOK /\ Counted => NamesAreComplete
  BY DEF Counted, Wanted, NamesAreComplete, InHangarOnly, ToSet
<1> QED BY <1>1, CountedAlways, PTL

(* fetchCorpItemNames does for the containers what the last inventory's    *)
(* tree does not know, and the inventory waits for it (wg.Wait).           *)
THEOREM ContainersGetNames == Spec => []ContainersAreNamed
<1>1. TypeOK /\ Counted => ContainersAreNamed
  BY DEF Counted, Wanted, ContainersAreNamed, InHangarOnly, ToSet
<1> QED BY <1>1, CountedAlways, PTL

(* buildAssetTree loses no asset and no child, whichever comes first       *)
(* (asset_ticker.go:541-563).                                              *)
THEOREM TreeHasAll == Spec => []TreeIsComplete
<1>1. TypeOK /\ Counted => TreeIsComplete
  <2> DEFINE Items == {a.item : a \in ToSet(assets)}
  <2> SUFFICES ASSUME TypeOK, Counted, pc = "done"
               PROVE  /\ DOMAIN tree = Items \cup {a.location : a \in ToSet(assets)}
                      /\ \A l \in DOMAIN tree :
                            /\ tree[l].children = FoundIn(l, assets)
                            /\ IF l \in Items
                                  THEN tree[l].asset \in {a \in ToSet(assets) : a.item = l}
                                  ELSE tree[l].asset = None
    BY DEF TreeIsComplete
  <2>1. tree = buildAssetTree(assets)
    BY DEF Counted
  <2>2. assets \in Seq(Assets)
    BY Constants, EmptySeq DEF TypeOK, Assets
  <2>3. DOMAIN tree = Items \cup {a.location : a \in ToSet(assets)}
    BY <2>1, <2>2, TreeContents
  <2>4. ASSUME NEW l \in DOMAIN tree
        PROVE  /\ tree[l].children = FoundIn(l, assets)
               /\ OwnAsset(tree[l].asset, l, ToSet(assets))
    BY <2>1, <2>2, TreeContents DEF HasNode
  <2> QED BY <2>3, <2>4 DEF OwnAsset
<1> QED BY <1>1, CountedAlways, PTL
=============================================================================
