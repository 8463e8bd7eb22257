---------------------------- MODULE SearchProofs ----------------------------
(***************************************************************************)
(* Theorems of DriveListing and of Search, which runs it batch after batch, *)
(* for any items, batches, limits, page size and budgets.                   *)
(***************************************************************************)
EXTENDS Search, ListFacts

---------------------------------------------------------------------------
(* The walk of one query: DriveListing.                                    *)

\* Until the call ends, what has matched all along is in hand or still ahead,
\* unless Drive has said that it gave up on something; and no item is in hand
\* twice.
WalkInv ==
  /\ TypeOK /\ IsInjective(rest) /\ IsInjective(found)
  /\ answer = None =>
       /\ pages < PageBudget
       /\ ~incomplete => stayed \subseteq ToSet(found) \cup ToSet(rest)
  /\ WholeOrRaised /\ FlagsAreTrue

---------------------------------------------------------------------------
(* One page.                                                               *)

\* Absorb adds what is new on the page, once, and drops nothing.
LEMMA AbsorbAdds ==
  ASSUME NEW items \in Seq(Items), NEW page \in Seq(Items), IsInjective(items),
         \A a, b \in 1..Len(page) : page[a] = page[b] /\ page[a] \notin ToSet(items) => a = b
  PROVE  /\ Absorb(items, page) \in Seq(Items) /\ IsInjective(Absorb(items, page))
         /\ ToSet(Absorb(items, page)) = ToSet(items) \cup ToSet(page)
<1> DEFINE new == ToSet(page) \ ToSet(items)
           add == Filtered(page, new)
<1>1. add \in Seq(Items) /\ ToSet(add) = ToSet(page) \cap new
  BY FilteredSet
<1>2. IsInjective(add)
  BY FilteredInjective
<1>3. ToSet(items) \cap ToSet(add) = {}
  BY <1>1
<1> HIDE DEF add
<1>4. IsInjective(items \o add) /\ items \o add \in Seq(Items)
  BY <1>1, <1>2, <1>3, InjectiveConcat
<1>5. ToSet(items \o add) = ToSet(items) \cup ToSet(add)
  BY <1>1, ToSetConcat
<1>6. QED
  BY <1>1, <1>4, <1>5 DEF add, Absorb

\* Whatever Drive serves, an item is new at one place of the page only.
LEMMA ServedOnce ==
  ASSUME ListingAssumption, WalkInv, NEW n \in 0..Len(rest), NEW page \in Served(n)
  PROVE  /\ page \in Seq(Items)
         /\ ToSet(Before(rest, n)) \subseteq ToSet(page)
         /\ \A a, b \in 1..Len(page) : page[a] = page[b] /\ page[a] \notin ToSet(found) => a = b
<1> DEFINE head == Before(rest, n)
<1>1. rest \in Seq(Items) /\ found \in Seq(Items) /\ IsInjective(rest)
  BY DEF WalkInv, TypeOK
<1>2. head \in Seq(Items) /\ IsInjective(head)
  BY <1>1, CutInTwo
<1>3. \A a, b \in 1..Len(head) : head[a] = head[b] => a = b
  BY <1>2 DEF IsInjective
<1> HIDE DEF head
<1>4. CASE page = head
  BY <1>2, <1>3, <1>4 DEF head
<1>5. ASSUME NEW i \in ToSet(found), page = <<i>> \o head
      PROVE  /\ page \in Seq(Items) /\ ToSet(head) \subseteq ToSet(page)
             /\ \A a, b \in 1..Len(page) : page[a] = page[b] /\ page[a] \notin ToSet(found) => a = b
  <2> DEFINE one == <<i>>
             m == Len(head)
  <2>1. i \in Items
    BY <1>1 DEF ToSet
  <2>2. one \in Seq(Items) /\ Len(one) = 1 /\ one[1] = i
    BY <2>1
  <2>3. m \in Nat
    BY <1>2
  <2> HIDE DEF one
  <2>4. ToSet(page) = ToSet(one) \cup ToSet(head)
    <3>1. page = one \o head
      BY <1>5 DEF one
    <3>2. ToSet(one \o head) = ToSet(one) \cup ToSet(head)
      BY <1>2, <2>2, ToSetConcat
    <3>3. QED
      BY <3>1, <3>2
  <2>5. /\ page \in Seq(Items) /\ Len(page) = m + 1 /\ page[1] = i
        /\ \A k \in 1..m : page[k + 1] = head[k]
    <3>1. page = one \o head
      BY <1>5 DEF one
    <3>2. page \in Seq(Items) /\ Len(page) = 1 + m
      BY <1>2, <2>2, <3>1, ConcatProperties
    <3>3. page[1] = one[1]
      BY <1>2, <2>2, <3>1
    <3>4. ASSUME NEW k \in 1..m PROVE page[k + 1] = head[k]
      <4>1. k + 1 \in 1..1 + m /\ ~(k + 1 <= 1) /\ (k + 1) - 1 = k
        BY <2>3
      <4>2. \A j \in 1..Len(one) + Len(head) :
              (one \o head)[j] = IF j <= Len(one) THEN one[j] ELSE head[j - Len(one)]
        BY <1>2, <2>2, ConcatProperties
      <4>3. page[k + 1] = head[(k + 1) - 1]
        BY <2>2, <3>1, <4>1, <4>2
      <4>4. QED
        BY <4>1, <4>3
    <3>5. QED
      BY <2>2, <2>3, <3>2, <3>3, <3>4
  <2> HIDE DEF m
  <2>6. ASSUME NEW a \in 1..m + 1, page[a] \notin ToSet(found)
        PROVE  a - 1 \in 1..m /\ page[a] = head[a - 1]
    <3>1. a # 1
      BY <2>5, <2>6
    <3>2. a - 1 \in 1..m /\ (a - 1) + 1 = a
      BY <2>3, <3>1
    <3>3. QED
      BY <2>5, <3>2
  <2>7. ASSUME NEW a \in 1..m + 1, NEW b \in 1..m + 1, page[a] = page[b], page[a] \notin ToSet(found)
        PROVE  a = b
    <3>1. /\ a - 1 \in 1..m /\ page[a] = head[a - 1]
          /\ b - 1 \in 1..m /\ page[b] = head[b - 1]
      BY <2>6, <2>7
    <3>2. a - 1 = b - 1
      BY <1>3, <2>7, <3>1 DEF m
    <3>3. QED
      BY <2>3, <3>2
  <2>8. QED
    BY <2>4, <2>5, <2>7
<1>6. QED
  BY <1>4, <1>5 DEF Served, head, Before

---------------------------------------------------------------------------
(* The inductive invariant.                                                *)

\* At the first page everything is still ahead.
LEMMA InitWalkInv == ListingAssumption /\ Init => WalkInv
<1> SUFFICES ASSUME ListingAssumption, Init PROVE WalkInv
  OBVIOUS
<1>1. PICK w \in Wanteds, S \in SUBSET Items : \E order \in Orders(S) :
        wanted = w /\ rest = order /\ stayed = ToSet(order)
  BY DEF Init
<1>2. IsFiniteSet(S)
  BY FS_Subset DEF ListingAssumption
<1>3. rest \in SetToSeqs(S) /\ stayed = ToSet(rest)
  BY <1>1 DEF Orders
<1>4. rest \in Seq(Items) /\ IsInjective(rest) /\ ToSet(rest) \in SUBSET Items
  BY <1>2, <1>3, Ordering
<1>5. found = <<>> /\ found \in Seq(Items) /\ IsInjective(found)
  BY DEF Init, IsInjective
<1>6. /\ wanted \in Wanteds /\ stayed = ToSet(rest) /\ pages = 0 /\ attempts = 0
      /\ incomplete = FALSE /\ answer = None /\ changes = 0
  BY <1>1 DEF Init
<1>7. ~Returned
  BY <1>6 DEF Returned
<1>8. TypeOK
  <2>1. pages \in 0..PageBudget /\ attempts \in 0..Retries /\ changes \in 0..MaxChanges
    BY <1>6 DEF ListingAssumption
  <2>2. incomplete \in BOOLEAN /\ answer \in SearchPage \cup {None, Failed}
    BY <1>6
  <2>3. QED
    BY <1>4, <1>5, <1>6, <2>1, <2>2 DEF TypeOK
<1>9. QED
  BY <1>4, <1>5, <1>6, <1>7, <1>8 DEF WalkInv, WholeOrRaised, FlagsAreTrue, ListingAssumption

\* What is ahead, filtered.
LEMMA Dropped ==
  ASSUME WalkInv, NEW s \in Seq(Items), IsInjective(s), NEW S
  PROVE  /\ Filtered(s, S) \in Seq(Items) /\ IsInjective(Filtered(s, S))
         /\ ToSet(Filtered(s, S)) = ToSet(s) \cap S
<1>1. \A a, b \in 1..Len(s) : s[a] = s[b] /\ s[a] \in S => a = b
  BY DEF IsInjective
<1>2. IsInjective(Filtered(s, S))
  BY <1>1, FilteredInjective
<1>3. QED
  BY <1>2, FilteredSet

\* One turn of the loop keeps what it says of what it holds.
LEMMA FetchPageKeeps ==
  ASSUME ListingAssumption, WalkInv, FetchPage
  PROVE  WalkInv'
<1>1. /\ answer = None /\ wanted' = wanted /\ stayed' = stayed /\ changes' = changes
      /\ pages < PageBudget
      /\ ~incomplete => stayed \subseteq ToSet(found) \cup ToSet(rest)
  BY DEF FetchPage, WalkInv
<1>2. PICK n \in 0..Len(rest), token \in BOOLEAN, flag \in BOOLEAN :
        \E page \in Served(n), lost \in SUBSET ToSet(SubSeq(rest, n + 1, Len(rest))) :
          /\ n <= PageLimit /\ (lost # {} => flag)
          /\ rest' = Filtered(SubSeq(rest, n + 1, Len(rest)), Items \ lost)
          /\ (rest' # <<>> => token)
          /\ found' = Absorb(found, page)
          /\ incomplete' = Sticky(incomplete, flag)
          /\ pages' = Turn(pages, page) /\ attempts' = 0
          /\ Resume(found', incomplete', token)
  BY DEF FetchPage
<1>3. PICK page \in Served(n), lost \in SUBSET ToSet(After(rest, n)) :
        /\ (lost # {} => flag)
        /\ rest' = Filtered(After(rest, n), Items \ lost)
        /\ (rest' # <<>> => token)
        /\ found' = Absorb(found, page)
        /\ incomplete' = (incomplete \/ flag)
        /\ pages' = pages + 1 /\ attempts' = 0
        /\ Resume(found', incomplete', token)
  BY <1>2 DEF After, Sticky, Turn
<1>4. /\ rest \in Seq(Items) /\ found \in Seq(Items) /\ IsInjective(rest) /\ IsInjective(found)
      /\ wanted \in Wanteds /\ wanted \in Nat /\ pages \in Nat /\ PageBudget \in Nat
      /\ incomplete \in BOOLEAN /\ stayed \in SUBSET Items /\ changes \in 0..MaxChanges
      /\ Retries \in Nat
  BY DEF WalkInv, TypeOK, ListingAssumption
<1>5. /\ page \in Seq(Items) /\ ToSet(Before(rest, n)) \subseteq ToSet(page)
      /\ \A a, b \in 1..Len(page) : page[a] = page[b] /\ page[a] \notin ToSet(found) => a = b
  BY ServedOnce
<1>6. /\ found' \in Seq(Items) /\ IsInjective(found')
      /\ ToSet(found') = ToSet(found) \cup ToSet(page)
  BY <1>3, <1>4, <1>5, AbsorbAdds
<1>7. /\ After(rest, n) \in Seq(Items) /\ IsInjective(After(rest, n))
      /\ ToSet(rest) = ToSet(Before(rest, n)) \cup ToSet(After(rest, n))
  BY <1>4, CutInTwo
<1>8. /\ rest' \in Seq(Items) /\ IsInjective(rest')
      /\ ToSet(rest') = ToSet(After(rest, n)) \cap (Items \ lost)
  BY <1>3, <1>7, Dropped
<1>9. ~incomplete' => stayed \subseteq ToSet(found') \cup ToSet(rest')
  <2> SUFFICES ASSUME ~incomplete', NEW i \in stayed PROVE i \in ToSet(found') \cup ToSet(rest')
    OBVIOUS
  <2>1. lost = {} /\ ~incomplete
    BY <1>3
  <2>2. i \in ToSet(found) \cup ToSet(rest) /\ i \in Items
    BY <1>1, <1>4, <2>1
  <2>3. QED
    BY <1>5, <1>6, <1>7, <1>8, <2>1, <2>2
<1>10. ~token => ToSet(rest') = {}
  BY <1>3 DEF ToSet
<1>11. /\ incomplete' \in BOOLEAN /\ pages' \in 0..PageBudget /\ attempts' \in 0..Retries
  BY <1>1, <1>3, <1>4
<1>12. CASE ~token /\ answer' = Answer(found', incomplete', FALSE, FALSE)
  <2>1. answer' \in SearchPage
    BY <1>6, <1>11, <1>12 DEF Answer, SearchPage
  <2>2. answer' # None /\ answer' # Failed
    BY <2>1 DEF ListingAssumption
  <2>3. /\ answer'.items = found' /\ answer'.incomplete = incomplete' /\ ~answer'.has_more
    BY <1>12 DEF Answer
  <2>4. ~incomplete' => stayed' \subseteq ToSet(found')
    BY <1>1, <1>9, <1>10, <1>12
  <2>5. WholeOrRaised' /\ FlagsAreTrue'
    BY <2>3, <2>4 DEF WholeOrRaised, FlagsAreTrue, EnumerationBudgetExceeded
  <2>6. TypeOK'
    BY <1>1, <1>4, <1>6, <1>8, <1>11, <2>1 DEF TypeOK
  <2>7. QED
    BY <1>6, <1>8, <2>2, <2>5, <2>6 DEF WalkInv
<1>13. CASE Met(token, Len(found')) /\ answer' = Answer(found', incomplete', TRUE, FALSE)
  <2>1. answer' \in SearchPage
    BY <1>6, <1>11, <1>13 DEF Answer, SearchPage
  <2>2. answer' # None /\ answer' # Failed
    BY <2>1 DEF ListingAssumption
  <2>3. /\ answer'.items = found' /\ answer'.has_more
    BY <1>13 DEF Answer
  <2>4. wanted' # Whole /\ Len(found') >= wanted'
    BY <1>1, <1>13 DEF Met
  <2>5. WholeOrRaised' /\ FlagsAreTrue'
    BY <1>6, <2>3, <2>4 DEF WholeOrRaised, FlagsAreTrue
  <2>6. TypeOK'
    BY <1>1, <1>4, <1>6, <1>8, <1>11, <2>1 DEF TypeOK
  <2>7. QED
    BY <1>6, <1>8, <2>2, <2>5, <2>6 DEF WalkInv
<1>14. CASE answer' = Spent(found', incomplete')
  <2>1. answer' \in SearchPage
    BY <1>6, <1>11, <1>14 DEF Spent, Answer, SearchPage
  <2>2. answer' # None /\ answer' # Failed
    BY <2>1 DEF ListingAssumption
  <2>3. answer'.incomplete /\ answer'.page_budget_exhausted
    BY <1>14 DEF Spent, Answer
  <2>4. WholeOrRaised' /\ FlagsAreTrue'
    BY <2>3 DEF WholeOrRaised, FlagsAreTrue, EnumerationBudgetExceeded
  <2>5. TypeOK'
    BY <1>1, <1>4, <1>6, <1>8, <1>11, <2>1 DEF TypeOK
  <2>6. QED
    BY <1>6, <1>8, <2>2, <2>4, <2>5 DEF WalkInv
<1>15. CASE pages' # PageBudget /\ answer' = answer
  <2>1. pages' < PageBudget /\ answer' = None
    BY <1>1, <1>3, <1>4, <1>15
  <2>2. WholeOrRaised' /\ FlagsAreTrue'
    BY <2>1 DEF WholeOrRaised, FlagsAreTrue, Returned
  <2>3. TypeOK'
    BY <1>1, <1>4, <1>6, <1>8, <1>11, <2>1 DEF TypeOK
  <2>4. QED
    BY <1>1, <1>6, <1>8, <1>9, <2>1, <2>2, <2>3 DEF WalkInv
<1>16. QED
  BY <1>3, <1>12, <1>13, <1>14, <1>15 DEF Resume, BudgetSpent

\* People may take items out of the query's reach, and bring items into it.
LEMMA ReachKeeps ==
  ASSUME ListingAssumption, WalkInv, answer = None, changes < MaxChanges, changes' = changes + 1,
         NEW i \in Items, Leave(i) \/ Enter(i)
  PROVE  WalkInv'
<1>1. /\ wanted' = wanted /\ found' = found /\ pages' = pages /\ attempts' = attempts
      /\ incomplete' = incomplete /\ answer' = None
  BY DEF Leave, Enter
<1>2. /\ rest \in Seq(Items) /\ IsInjective(rest) /\ ToSet(rest) \subseteq Items
      /\ changes' \in 0..MaxChanges /\ stayed \in SUBSET Items
      /\ ~incomplete => stayed \subseteq ToSet(found) \cup ToSet(rest)
  BY DEF WalkInv, TypeOK, ListingAssumption, ToSet
<1>3. /\ rest' \in Seq(Items) /\ IsInjective(rest') /\ stayed' \in SUBSET Items
      /\ stayed' \cap ToSet(rest) \subseteq ToSet(rest') /\ stayed' \subseteq stayed
  <2>1. CASE Leave(i)
    <3>1. rest' = Filtered(rest, Items \ {i}) /\ stayed' = stayed \ {i}
      BY <2>1 DEF Leave
    <3>2. /\ rest' \in Seq(Items) /\ IsInjective(rest')
          /\ ToSet(rest') = ToSet(rest) \cap (Items \ {i})
      BY <1>2, <3>1, Dropped
    <3>3. QED
      BY <1>2, <3>1, <3>2
  <2>2. CASE Enter(i)
    <3>1. stayed' = stayed /\ i \notin ToSet(rest)
      BY <2>2 DEF Enter
    <3>2. PICK k \in 1..Len(rest) + 1 : rest' = InsertAt(rest, k, i)
      BY <2>2 DEF Enter
    <3>3. /\ rest' \in Seq(Items) /\ IsInjective(rest')
          /\ ToSet(rest') = ToSet(rest) \cup {i}
      BY <1>2, <3>1, <3>2, InsertedAnywhere
    <3>4. QED
      BY <1>2, <3>1, <3>3
  <2>3. QED
    BY <2>1, <2>2
<1>4. WholeOrRaised' /\ FlagsAreTrue'
  BY <1>1 DEF WholeOrRaised, FlagsAreTrue, Returned
<1>5. TypeOK'
  BY <1>1, <1>2, <1>3 DEF WalkInv, TypeOK
<1>6. ~incomplete' => stayed' \subseteq ToSet(found') \cup ToSet(rest')
  BY <1>1, <1>2, <1>3
<1>7. QED
  BY <1>1, <1>3, <1>4, <1>5, <1>6 DEF WalkInv

\* A request goes on, is lost, or fails.
LEMMA RunKeeps ==
  ASSUME ListingAssumption, WalkInv, Run
  PROVE  WalkInv'
<1>1. CASE FetchPage
  BY <1>1, FetchPageKeeps
<1>2. CASE Retry
  <2>1. /\ attempts' \in 0..Retries
        /\ rest' = rest /\ changes' = changes /\ wanted' = wanted /\ found' = found
        /\ pages' = pages /\ incomplete' = incomplete /\ answer' = answer /\ stayed' = stayed
    BY <1>2 DEF Retry, WalkInv, TypeOK, ListingAssumption
  <2>2. QED
    BY <2>1 DEF WalkInv, TypeOK, WholeOrRaised, FlagsAreTrue, Returned
<1>3. CASE Fail
  <2>1. /\ answer' = Failed /\ attempts' = attempts
        /\ rest' = rest /\ changes' = changes /\ wanted' = wanted /\ found' = found
        /\ pages' = pages /\ incomplete' = incomplete /\ stayed' = stayed
    BY <1>3 DEF Fail
  <2>2. answer' # None /\ ~Returned'
    BY <2>1 DEF Returned, ListingAssumption
  <2>3. QED
    BY <2>1, <2>2 DEF WalkInv, TypeOK, WholeOrRaised, FlagsAreTrue
<1>4. QED
  BY <1>1, <1>2, <1>3 DEF Run

\* Every step keeps the invariant.
LEMMA NextWalkInv == ListingAssumption /\ WalkInv /\ [Next]_vars => WalkInv'
<1> SUFFICES ASSUME ListingAssumption, WalkInv, [Next]_vars PROVE WalkInv'
  OBVIOUS
<1>1. CASE Run
  BY <1>1, RunKeeps
<1>2. CASE Change
  <2>1. answer = None /\ changes < MaxChanges /\ changes' = changes + 1
    BY <1>2 DEF Change
  <2>2. PICK i \in Items : Leave(i) \/ Enter(i)
    BY <1>2 DEF Change
  <2>3. QED
    BY <2>1, <2>2, ReachKeeps
<1>3. CASE UNCHANGED vars
  BY <1>3 DEF vars, walk, WalkInv, TypeOK, WholeOrRaised, FlagsAreTrue, Returned
<1>4. QED
  BY <1>1, <1>2, <1>3 DEF Next

\* The invariant holds of every behaviour.
LEMMA AlwaysWalkInv == Spec => []WalkInv
<1>1. Init => WalkInv
  BY InitWalkInv, ListingAssumption
<1>2. WalkInv /\ [Next]_vars => WalkInv'
  BY NextWalkInv, ListingAssumption
<1>3. QED
  BY <1>1, <1>2, PTL DEF Spec

\* drive.py:295-332: no walk reads more pages than its budget or tries a page
\* more often than it may, and what it returns is a search page.
THEOREM TypeCorrect == Spec => []TypeOK
<1>1. WalkInv => TypeOK
  BY DEF WalkInv
<1>2. QED
  BY <1>1, AlwaysWalkInv, PTL

\* drive.py:420-440: whatever items come and go, and wherever Drive cuts its
\* pages, a whole enumeration has every item that matched all along, or raised.
THEOREM WholeListing == Spec => []WholeOrRaised
<1>1. WalkInv => WholeOrRaised
  BY DEF WalkInv
<1>2. QED
  BY <1>1, AlwaysWalkInv, PTL

\* drive.py:82-98, :325-328: has_more and incomplete mean what they say.
THEOREM FlagsHold == Spec => []FlagsAreTrue
<1>1. WalkInv => FlagsAreTrue
  BY DEF WalkInv
<1>2. QED
  BY <1>1, AlwaysWalkInv, PTL

---------------------------------------------------------------------------
(* The search: the invariant that makes silence evidence.                  *)

\* What NextBatch makes of all the batches.
MergedInto(batches, n, has_more, flag) ==
  [items |-> First(InterleaveByRank(batches), n),
   truncated |-> Len(InterleaveByRank(batches)) > n \/ has_more, incomplete |-> flag]
Outcome == MergedInto(ranked, limit, more, partial)

\* Of what stayed in its folder, all that is safe to show has been taken in from
\* the batches walked so far, unless a flag says otherwise; and what stayed in
\* the batch under way has matched since its walk began.
SearchInv ==
  /\ WalkInv
  /\ limit \in Limits /\ wanted = limit + 1
  /\ where \in [Items -> 0..Batches] /\ unmoved \subseteq Items
  /\ ranked \in Seq(Seq(Items \ Unsafe)) /\ Len(ranked) <= Batches
  /\ partial \in BOOLEAN /\ more \in BOOLEAN
  /\ result = None => Len(ranked) < Batches /\ unmoved \cap InBatch(Batch) \subseteq stayed
  /\ result # None => answer # None
  /\ Merged => Len(ranked) = Batches /\ result = Outcome
  /\ ~partial /\ ~more =>
       \A b \in 1..Len(ranked) : (unmoved \cap InBatch(b)) \ Unsafe \subseteq ToSet(ranked[b])

\* The hits shown are none of the unsafe ones.
LEMMA SafeHitsFacts ==
  ASSUME NEW s \in Seq(Items)
  PROVE  SafeHits(s) \in Seq(Items \ Unsafe) /\ ToSet(SafeHits(s)) = ToSet(s) \ Unsafe
<1> DEFINE S == Items \ Unsafe
           f == Filtered(s, S)
<1>1. f \in Seq(Items) /\ ToSet(f) = ToSet(s) \cap S
  BY FilteredSet
<1>2. ToSet(s) \subseteq Items
  BY DEF ToSet
<1>3. f \in Seq(S)
  <2> HIDE DEF f, S
  <2>1. \A k \in 1..Len(f) : f[k] \in ToSet(f)
    BY <1>1 DEF ToSet
  <2>2. \A k \in 1..Len(f) : f[k] \in S
    BY <1>1, <2>1
  <2>3. QED
    BY <1>1, <2>2
<1>4. QED
  BY <1>1, <1>2, <1>3 DEF SafeHits

\* What is made of the batches is a result.
LEMMA MergedIntoResult ==
  ASSUME SearchAssumption, NEW n \in Limits, NEW batches \in Seq(Seq(Items \ Unsafe)),
         NEW has_more \in BOOLEAN, NEW flag \in BOOLEAN
  PROVE  /\ MergedInto(batches, n, has_more, flag) \in SearchResult
         /\ Len(MergedInto(batches, n, has_more, flag).items) <= n
         /\ IsInjective(MergedInto(batches, n, has_more, flag).items)
<1> DEFINE T == Items \ Unsafe
           s == InterleaveByRank(batches)
<1>1. n \in Nat
  BY DEF SearchAssumption
<1>2. batches \in Seq(Seq(T))
  OBVIOUS
<1> HIDE DEF T
<1>3. s \in Seq(T) /\ IsInjective(s)
  BY <1>2, Interleaved
<1> HIDE DEF s
<1>4. First(s, n) \in Seq(T) /\ Len(First(s, n)) <= n /\ IsInjective(First(s, n))
  BY <1>1, <1>3, FirstOf
<1>5. (Len(s) > n \/ has_more) \in BOOLEAN
  OBVIOUS
<1>6. MergedInto(batches, n, has_more, flag) =
        [items |-> First(s, n), truncated |-> Len(s) > n \/ has_more, incomplete |-> flag]
  BY DEF MergedInto, s
<1>7. QED
  BY <1>4, <1>5, <1>6 DEF SearchResult, T

\* What the invariant is for.
LEMMA SearchInvShows ==
  ASSUME SearchAssumption, SearchInv
  PROVE  SearchTypeOK /\ SilenceIsEvidence
<1>1. /\ limit \in Limits /\ limit \in Nat /\ ranked \in Seq(Seq(Items \ Unsafe))
      /\ partial \in BOOLEAN /\ more \in BOOLEAN /\ where \in [Items -> 0..Batches]
      /\ unmoved \subseteq Items /\ Batches \in Nat
  BY DEF SearchInv, SearchAssumption
<1>2. /\ Outcome.items = First(InterleaveByRank(ranked), limit)
      /\ Outcome.truncated = (Len(InterleaveByRank(ranked)) > limit \/ more)
      /\ Outcome.incomplete = partial
      /\ Len(Outcome.items) <= limit /\ IsInjective(Outcome.items)
  BY <1>1, MergedIntoResult DEF Outcome, MergedInto
<1>3. SearchTypeOK
  BY <1>1, <1>2 DEF SearchInv, SearchTypeOK
<1>4. SilenceIsEvidence
  <2> SUFFICES ASSUME Merged, ~result.truncated, ~result.incomplete, NEW i \in unmoved \cap Matches
               PROVE  i \in ToSet(result.items)
    BY DEF SilenceIsEvidence
  <2> DEFINE s == InterleaveByRank(ranked)
             T == Items \ Unsafe
  <2>1. Len(ranked) = Batches /\ result = Outcome
    BY DEF SearchInv
  <2>2. ~partial /\ ~more /\ ~(Len(s) > limit)
    BY <1>2, <2>1
  <2>3. s \in Seq(T) /\ ToSet(s) = UNION {ToSet(ranked[b]) : b \in 1..Len(ranked)}
    <3>1. ranked \in Seq(Seq(T))
      BY <1>1
    <3> HIDE DEF T
    <3>2. QED
      BY <3>1, Interleaved
  <2> HIDE DEF s
  <2>4. Len(s) <= limit /\ ~more
    BY <1>1, <2>2, <2>3
  <2>5. First(s, limit) = s
    BY <1>1, <2>3, <2>4, FirstOf
  <2>6. i \in Items \ Unsafe /\ where[i] # 0 /\ where[i] \in 0..Batches
    BY <1>1 DEF Matches
  <2>7. where[i] \in 1..Len(ranked) /\ i \in (unmoved \cap InBatch(where[i])) \ Unsafe
    BY <1>1, <2>1, <2>6 DEF InBatch
  <2>8. i \in ToSet(ranked[where[i]])
    BY <2>2, <2>4, <2>7 DEF SearchInv
  <2>9. i \in ToSet(s)
    BY <2>3, <2>7, <2>8
  <2>10. QED
    BY <1>2, <2>1, <2>5, <2>9 DEF s
<1>5. QED
  BY <1>3, <1>4

\* The walk of the next batch begins with what is in its folders.
LEMMA Asked ==
  ASSUME ListingAssumption, NEW b, NEW order \in Orders(InBatch(b))
  PROVE  order \in Seq(Items) /\ IsInjective(order) /\ ToSet(order) = InBatch(b)
<1> DEFINE S == InBatch(b)
<1>1. S \in SUBSET Items
  BY DEF InBatch
<1>2. order \in SetToSeqs(S)
  BY DEF Orders
<1> HIDE DEF S
<1>3. IsFiniteSet(S)
  BY <1>1, FS_Subset DEF ListingAssumption
<1>4. order \in Seq(Items) /\ IsInjective(order) /\ ToSet(order) = S
  BY <1>1, <1>2, <1>3, Ordering
<1>5. QED
  BY <1>4 DEF S

\* At the first walk nothing has been taken in.
LEMMA InitSearchInv == ListingAssumption /\ SearchAssumption /\ SearchInit => SearchInv
<1> SUFFICES ASSUME ListingAssumption, SearchAssumption, SearchInit PROVE SearchInv
  OBVIOUS
<1>1. PICK order \in Orders(InBatch(1)) : rest = order /\ stayed = ToSet(order)
  BY DEF SearchInit
<1>2. rest \in Seq(Items) /\ IsInjective(rest) /\ ToSet(rest) = InBatch(1) /\ stayed = ToSet(rest)
  BY <1>1, Asked
<1>3. InBatch(1) \subseteq Items
  BY DEF InBatch
<1>4. /\ limit \in Limits /\ wanted = limit + 1 /\ limit + 1 \in Wanteds
      /\ pages = 0 /\ attempts = 0 /\ incomplete = FALSE /\ answer = None /\ changes = 0
      /\ found = <<>> /\ ranked = <<>> /\ partial = FALSE /\ more = FALSE /\ result = None
      /\ where \in [Items -> 0..Batches] /\ unmoved = Items
  BY DEF SearchInit, OneMore, SearchAssumption
<1>5. WalkInv
  <2>1. found \in Seq(Items) /\ IsInjective(found) /\ pages < PageBudget /\ ~Returned
    BY <1>4 DEF IsInjective, ListingAssumption, Returned
  <2>2. TypeOK
    <3>1. pages \in 0..PageBudget /\ attempts \in 0..Retries /\ changes \in 0..MaxChanges
      BY <1>4 DEF ListingAssumption
    <3>2. wanted \in Wanteds /\ incomplete \in BOOLEAN /\ answer \in SearchPage \cup {None, Failed}
      BY <1>4
    <3>3. QED
      BY <1>2, <1>3, <2>1, <3>1, <3>2 DEF TypeOK
  <2>3. QED
    BY <1>2, <1>4, <2>1, <2>2 DEF WalkInv, WholeOrRaised, FlagsAreTrue
<1>6. ranked \in Seq(Seq(Items \ Unsafe)) /\ Len(ranked) = 0 /\ Batch = 1 /\ ~Merged
  BY <1>4 DEF Batch, Merged
<1>7. Len(ranked) < Batches /\ unmoved \cap InBatch(Batch) \subseteq stayed
  BY <1>2, <1>6 DEF SearchAssumption
<1>8. \A b \in 1..Len(ranked) : (unmoved \cap InBatch(b)) \ Unsafe \subseteq ToSet(ranked[b])
  BY <1>6
<1>9. Len(ranked) <= Batches /\ partial \in BOOLEAN /\ more \in BOOLEAN /\ unmoved \subseteq Items
  <2>1. partial = FALSE /\ more = FALSE /\ unmoved = Items
    BY <1>4
  <2>2. Len(ranked) <= Batches
    BY <1>6 DEF SearchAssumption
  <2>3. QED
    BY <2>1, <2>2
<1>10. /\ limit \in Limits /\ wanted = limit + 1 /\ where \in [Items -> 0..Batches]
       /\ result = None
  BY <1>4
<1>11. QED
  BY <1>5, <1>6, <1>7, <1>8, <1>9, <1>10, Zenon DEF SearchInv

\* A walk begins.
LEMMA AskKeeps ==
  ASSUME ListingAssumption, SearchAssumption, limit \in Limits,
         changes \in 0..MaxChanges, changes' = changes,
         NEW b, NEW order \in Orders(InBatch(b)), Ask(OneMore(limit), order)
  PROVE  /\ WalkInv' /\ wanted' = limit + 1 /\ stayed' = InBatch(b) /\ answer' = None
         /\ rest' = order /\ found' = <<>> /\ ~incomplete'
<1>1. order \in Seq(Items) /\ IsInjective(order) /\ ToSet(order) = InBatch(b)
  BY Asked
<1>2. InBatch(b) \subseteq Items
  BY DEF InBatch
<1>3. /\ wanted' = limit + 1 /\ limit + 1 \in Wanteds /\ rest' = order /\ stayed' = ToSet(order)
      /\ found' = <<>> /\ pages' = 0 /\ attempts' = 0 /\ incomplete' = FALSE /\ answer' = None
  BY DEF Ask, OneMore, SearchAssumption
<1>4. found' \in Seq(Items) /\ IsInjective(found') /\ pages' < PageBudget /\ ~Returned'
  BY <1>3 DEF IsInjective, ListingAssumption, Returned
<1>5. TypeOK'
  <2>1. pages' \in 0..PageBudget /\ attempts' \in 0..Retries /\ changes' \in 0..MaxChanges
    BY <1>3 DEF ListingAssumption
  <2>2. wanted' \in Wanteds /\ incomplete' \in BOOLEAN /\ answer' \in SearchPage \cup {None, Failed}
    BY <1>3
  <2>3. QED
    BY <1>1, <1>2, <1>3, <1>4, <2>1, <2>2 DEF TypeOK
<1>6. WalkInv'
  BY <1>1, <1>3, <1>4, <1>5 DEF WalkInv, WholeOrRaised, FlagsAreTrue
<1>7. QED
  BY <1>1, <1>3, <1>6

\* The hits of a batch whose walk raised no flag are all that is safe to show of
\* what stayed in its folders.
LEMMA NextBatchKeeps ==
  ASSUME ListingAssumption, SearchAssumption, SearchInv, NextBatch
  PROVE  SearchInv'
<1>1. /\ result = None /\ answer \notin {None, Failed}
      /\ ranked' = Append(ranked, SafeHits(answer.items))
      /\ partial' = (partial \/ answer.incomplete) /\ more' = (more \/ answer.has_more)
      /\ changes' = changes /\ limit' = limit /\ where' = where /\ unmoved' = unmoved
  BY DEF NextBatch, AnyFlag
<1>2. /\ WalkInv /\ limit \in Limits /\ wanted = limit + 1
      /\ where \in [Items -> 0..Batches] /\ unmoved \subseteq Items
      /\ ranked \in Seq(Seq(Items \ Unsafe)) /\ Len(ranked) < Batches
      /\ partial \in BOOLEAN /\ more \in BOOLEAN
      /\ unmoved \cap InBatch(Batch) \subseteq stayed
      /\ ~partial /\ ~more =>
           \A b \in 1..Len(ranked) : (unmoved \cap InBatch(b)) \ Unsafe \subseteq ToSet(ranked[b])
  BY <1>1 DEF SearchInv
<1>3. /\ answer \in SearchPage /\ changes \in 0..MaxChanges
      /\ ~answer.incomplete /\ ~answer.has_more => stayed \subseteq ToSet(answer.items)
  BY <1>1, <1>2 DEF WalkInv, TypeOK, FlagsAreTrue, Returned
<1>4. answer.items \in Seq(Items) /\ answer.incomplete \in BOOLEAN /\ answer.has_more \in BOOLEAN
  BY <1>3 DEF SearchPage
<1> DEFINE n == Len(ranked)
           hits == SafeHits(answer.items)
           V == Seq(Items \ Unsafe)
<1>5. hits \in V /\ ToSet(hits) = ToSet(answer.items) \ Unsafe
  BY <1>4, SafeHitsFacts
<1>6. /\ n \in Nat /\ ranked' \in Seq(V) /\ Len(ranked') = n + 1 /\ ranked'[n + 1] = hits
      /\ \A b \in 1..n : ranked'[b] = ranked[b]
  <2>1. ranked \in Seq(V) /\ hits \in V /\ ranked' = Append(ranked, hits)
    BY <1>1, <1>2, <1>5
  <2> HIDE DEF V, hits
  <2>2. QED
    BY <2>1
<1> HIDE DEF hits
<1>7. partial' \in BOOLEAN /\ more' \in BOOLEAN
  BY <1>1, <1>2, <1>4
<1>8. \A b : InBatch(b)' = InBatch(b)
  BY <1>1 DEF InBatch
<1>9. ASSUME ~partial', ~more', NEW b \in 1..n + 1
      PROVE  (unmoved' \cap InBatch(b)') \ Unsafe \subseteq ToSet(ranked'[b])
  <2>1. ~partial /\ ~answer.incomplete /\ ~more /\ ~answer.has_more
    BY <1>1, <1>9
  <2>2. CASE b \in 1..n
    BY <1>1, <1>2, <1>6, <1>8, <2>1, <2>2
  <2>3. CASE b = n + 1
    <3>1. unmoved \cap InBatch(b) \subseteq stayed
      BY <1>2, <2>3 DEF Batch
    <3>2. stayed \subseteq ToSet(answer.items)
      BY <1>3, <2>1
    <3>3. QED
      BY <1>1, <1>5, <1>6, <1>8, <2>3, <3>1, <3>2
  <2>4. QED
    BY <1>6, <2>2, <2>3
<1>10. n + 1 <= Batches /\ Batches \in Nat /\ Batch = n + 1 /\ Batch' = n + 2
  BY <1>2, <1>6 DEF SearchAssumption, Batch
<1>11. CASE Batch < Batches /\ result' = result
            /\ \E order \in Orders(InBatch(Batch + 1)) :
                 Ask(OneMore(limit), order) /\ ranking' = Append(ranking, order)
  <2>1. PICK order \in Orders(InBatch(Batch + 1)) : Ask(OneMore(limit), order)
    BY <1>11
  <2>2. WalkInv' /\ wanted' = limit + 1 /\ stayed' = InBatch(Batch + 1) /\ answer' = None
    BY <1>1, <1>2, <1>3, <2>1, AskKeeps
  <2>3. Len(ranked') < Batches /\ Batch' = Batch + 1 /\ result' = None
    BY <1>1, <1>6, <1>10, <1>11
  <2>4. unmoved' \cap InBatch(Batch)' \subseteq stayed'
    BY <2>2, <2>3, <1>8 DEF InBatch
  <2>5. QED
    BY <1>1, <1>2, <1>6, <1>7, <1>9, <2>2, <2>3, <2>4 DEF SearchInv, Merged
<1>12. CASE Batch = Batches /\ UNCHANGED walk /\ result' = Outcome'
  <2>1. WalkInv'
    BY <1>1, <1>2, <1>12 DEF walk, WalkInv, TypeOK, WholeOrRaised, FlagsAreTrue, Returned
  <2>2. answer' = answer /\ wanted' = wanted /\ Len(ranked') = Batches
    BY <1>6, <1>10, <1>12 DEF walk
  <2>3. Outcome' \in SearchResult
    <3>1. limit' \in Limits /\ ranked' \in Seq(Seq(Items \ Unsafe))
      BY <1>1, <1>2, <1>6
    <3>2. MergedInto(ranked', limit', more', partial') \in SearchResult
      BY <3>1, <1>7, MergedIntoResult
    <3>3. QED
      BY <3>2 DEF Outcome
  <2>4. result' # None
    BY <1>12, <2>3 DEF SearchAssumption
  <2>5. QED
    BY <1>1, <1>2, <1>6, <1>7, <1>9, <1>12, <2>1, <2>2, <2>4 DEF SearchInv, Merged
<1>13. CASE /\ Batch = Batches /\ UNCHANGED <<walk, ranking>>
            /\ LET candidates == InterleaveByRank(ranked') IN
               result' = [items |-> First(candidates, limit),
                          truncated |-> Truncated(candidates, more'), incomplete |-> partial']
  <2>1. result' = MergedInto(ranked', limit, more', partial')
    BY <1>13 DEF MergedInto, Truncated
  <2>2. result' = Outcome'
    BY <1>1, <2>1 DEF Outcome
  <2>3. QED
    BY <1>12, <1>13, <2>2
<1>14. QED
  BY <1>11, <1>13 DEF NextBatch

\* An item that moves is no longer one that stayed.
LEMMA MoveKeeps ==
  ASSUME ListingAssumption, SearchAssumption, SearchInv,
         NEW i \in Items, NEW b \in 0..Batches, Move(i, b)
  PROVE  SearchInv'
<1>1. /\ answer = None /\ changes < MaxChanges /\ changes' = changes + 1
      /\ where' = [where EXCEPT ![i] = b] /\ unmoved' = unmoved \ {i}
      /\ limit' = limit /\ ranked' = ranked /\ partial' = partial /\ more' = more /\ result' = result
  BY DEF Move, batching
<1>2. /\ WalkInv /\ limit \in Limits /\ wanted = limit + 1
      /\ where \in [Items -> 0..Batches] /\ unmoved \subseteq Items
      /\ ranked \in Seq(Seq(Items \ Unsafe)) /\ Len(ranked) <= Batches
      /\ partial \in BOOLEAN /\ more \in BOOLEAN
      /\ result = None /\ Len(ranked) < Batches /\ unmoved \cap InBatch(Batch) \subseteq stayed
      /\ ~partial /\ ~more =>
           \A c \in 1..Len(ranked) : (unmoved \cap InBatch(c)) \ Unsafe \subseteq ToSet(ranked[c])
  BY <1>1 DEF SearchInv
<1>3. WalkInv' /\ wanted' = wanted /\ answer' = answer /\ stayed \ {i} \subseteq stayed'
  <2>1. CASE Leave(i) \/ Enter(i)
    <3>1. WalkInv'
      BY <1>1, <1>2, <2>1, ReachKeeps
    <3>2. QED
      BY <2>1, <3>1 DEF Leave, Enter
  <2>2. CASE UNCHANGED walk
    <3>1. changes' \in 0..MaxChanges
      BY <1>1, <1>2 DEF WalkInv, TypeOK, ListingAssumption
    <3>2. WalkInv'
      BY <1>2, <2>2, <3>1 DEF walk, WalkInv, TypeOK, WholeOrRaised, FlagsAreTrue, Returned
    <3>3. QED
      BY <2>2, <3>2 DEF walk
  <2>3. QED
    BY <2>1, <2>2 DEF Move
<1>4. where' \in [Items -> 0..Batches] /\ \A j \in Items \ {i} : where'[j] = where[j]
  BY <1>1, <1>2
<1>5. ASSUME NEW c PROVE unmoved' \cap InBatch(c)' \subseteq (unmoved \cap InBatch(c)) \ {i}
  BY <1>1, <1>2, <1>4 DEF InBatch
<1>6. unmoved' \subseteq Items /\ Batch' = Batch /\ ~Merged'
  BY <1>1, <1>2 DEF Batch, Merged
<1>7. unmoved' \cap InBatch(Batch)' \subseteq stayed'
  BY <1>2, <1>3, <1>5, <1>6
<1>8. ASSUME ~partial', ~more', NEW c \in 1..Len(ranked')
      PROVE  (unmoved' \cap InBatch(c)') \ Unsafe \subseteq ToSet(ranked'[c])
  <2>1. (unmoved \cap InBatch(c)) \ Unsafe \subseteq ToSet(ranked[c])
    BY <1>1, <1>2, <1>8
  <2>2. QED
    BY <1>1, <1>5, <2>1
<1>9. QED
  BY <1>1, <1>2, <1>3, <1>4, <1>6, <1>7, <1>8 DEF SearchInv

\* A step of the walk takes nothing from what the batches before it gave.
LEMMA WalkOnKeeps ==
  ASSUME ListingAssumption, SearchInv, WalkOn
  PROVE  SearchInv'
<1>1. WalkInv' /\ answer = None /\ wanted' = wanted /\ stayed' = stayed
  BY RunKeeps DEF SearchInv, WalkOn, Run, FetchPage, Retry, Fail
<1>2. /\ limit' = limit /\ where' = where /\ unmoved' = unmoved /\ ranked' = ranked
      /\ partial' = partial /\ more' = more /\ result' = result
  BY DEF WalkOn, batching
<1>3. result = None
  BY <1>1 DEF SearchInv
<1>4. Batch' = Batch /\ ~Merged' /\ \A c : InBatch(c)' = InBatch(c)
  BY <1>2, <1>3 DEF Batch, Merged, InBatch
<1>5. InBatch(Batch)' = InBatch(Batch)
  BY <1>2, <1>4 DEF InBatch
<1>6. QED
  BY <1>1, <1>2, <1>3, <1>4, <1>5 DEF SearchInv

\* Every step of a search keeps the invariant.
LEMMA NextSearchInv ==
  ListingAssumption /\ SearchAssumption /\ SearchInv /\ [SearchNext]_searchVars => SearchInv'
<1> SUFFICES ASSUME ListingAssumption, SearchAssumption, SearchInv, [SearchNext]_searchVars
             PROVE  SearchInv'
  OBVIOUS
<1>1. CASE NextBatch
  BY <1>1, NextBatchKeeps
<1>2. CASE WalkOn
  BY <1>2, WalkOnKeeps
<1>3. CASE \E i \in Items, b \in 0..Batches : Move(i, b)
  BY <1>3, MoveKeeps
<1>4. CASE SearchFails
  <2>1. /\ result' = Failed /\ answer # None /\ UNCHANGED <<walk, changes>>
        /\ limit' = limit /\ where' = where /\ unmoved' = unmoved /\ ranked' = ranked
        /\ partial' = partial /\ more' = more
    BY <1>4 DEF SearchFails, ListingAssumption
  <2>2. WalkInv' /\ answer' = answer /\ wanted' = wanted
    BY <2>1 DEF SearchInv, walk, WalkInv, TypeOK, WholeOrRaised, FlagsAreTrue, Returned
  <2>3. result' # None /\ ~Merged' /\ \A c : InBatch(c)' = InBatch(c)
    BY <2>1 DEF Merged, InBatch, ListingAssumption
  <2>4. QED
    BY <2>1, <2>2, <2>3 DEF SearchInv
<1>5. CASE UNCHANGED searchVars
  <2>1. /\ UNCHANGED <<walk, changes>> /\ result' = result
        /\ limit' = limit /\ where' = where /\ unmoved' = unmoved /\ ranked' = ranked
        /\ partial' = partial /\ more' = more
    BY <1>5 DEF searchVars, batching
  <2>2. WalkInv' /\ answer' = answer /\ wanted' = wanted /\ stayed' = stayed
    BY <2>1 DEF SearchInv, walk, WalkInv, TypeOK, WholeOrRaised, FlagsAreTrue, Returned
  <2>3. /\ Merged' = Merged /\ Batch' = Batch /\ Outcome' = Outcome
        /\ \A c : InBatch(c)' = InBatch(c)
    BY <2>1 DEF Merged, Batch, Outcome, MergedInto, InBatch
  <2>4. InBatch(Batch)' = InBatch(Batch)
    BY <2>1, <2>3 DEF InBatch
  <2>5. QED
    BY <2>1, <2>2, <2>3, <2>4 DEF SearchInv
<1>6. QED
  BY <1>1, <1>2, <1>3, <1>4, <1>5 DEF SearchNext

\* The invariant holds of every search.
LEMMA AlwaysSearchInv == SearchSpec => []SearchInv
<1>1. SearchInit => SearchInv
  BY InitSearchInv, ListingAssumption, SearchAssumption
<1>2. SearchInv /\ [SearchNext]_searchVars => SearchInv'
  BY NextSearchInv, ListingAssumption, SearchAssumption
<1>3. QED
  BY <1>1, <1>2, PTL DEF SearchSpec

\* scope.py:203-218: no search shows more than its limit, a hit twice, or one
\* that the boundary drops.
THEOREM SearchTypeCorrect == SearchSpec => []SearchTypeOK
<1>1. SearchInv => SearchTypeOK
  BY SearchInvShows, SearchAssumption
<1>2. QED
  BY <1>1, AlwaysSearchInv, PTL

\* scope.py:54-69: whatever is moved and wherever Drive cuts its pages, a search
\* without a flag has every match that stayed in its folder.
THEOREM SilenceHolds == SearchSpec => []SilenceIsEvidence
<1>1. SearchInv => SilenceIsEvidence
  BY SearchInvShows, SearchAssumption
<1>2. QED
  BY <1>1, AlwaysSearchInv, PTL

---------------------------------------------------------------------------
(* The search: the invariant that makes one hit more than the limit enough. *)

\* The folders hold nothing that the boundary drops.
AllSafe == \A i \in Unsafe : where[i] = 0

\* What was taken in of the batches is of them, and all that can be shown unless
\* one of them alone had more than the limit.
Sifted ==
  /\ \A b \in 1..Len(ranked) : ToSet(ranked[b]) \subseteq InBatch(b) \ Unsafe
  /\ ~more => \A b \in 1..Len(ranked) : ToSet(ranked[b]) = InBatch(b) \ Unsafe
  /\ more => \E b \in 1..Len(ranked) : Cardinality(InBatch(b)) > limit

\* While nobody changes anything, the walk under way goes through the items of
\* its batch in Drive's order, and every batch taken in is sifted, and if nothing
\* was dropped it is that order cut off, if at all, behind more than the limit.
RankInv ==
  changes = 0 =>
    /\ ranking \in Seq(Seq(Items))
    /\ \A b \in 1..Len(ranking) : IsInjective(ranking[b]) /\ ToSet(ranking[b]) = InBatch(b)
    /\ Len(ranking) = IF Merged THEN Len(ranked) ELSE Batch
    /\ result = None /\ answer = None /\ ~incomplete => found \o rest = ranking[Batch]
    /\ result = None /\ answer \notin {None, Failed} /\ ~answer.incomplete =>
         /\ Begins(answer.items, ranking[Batch])
         /\ answer.has_more => Len(answer.items) > limit
         /\ ~answer.has_more => answer.items = ranking[Batch]
    /\ ~partial => Sifted
    /\ ~partial /\ AllSafe =>
         /\ \A b \in 1..Len(ranked) : /\ Begins(ranked[b], ranking[b])
                                      /\ ranked[b] = ranking[b] \/ Len(ranked[b]) > limit
         /\ more => \E b \in 1..Len(ranked) : Len(ranked[b]) > limit
         /\ ~more => \A b \in 1..Len(ranked) : ranked[b] = ranking[b]

\* The parts of a list without repetition share nothing, and the first begins it.
LEMMA PartsOf ==
  ASSUME NEW T, NEW s \in Seq(T), NEW t \in Seq(T)
  PROVE  /\ Begins(s, s \o t)
         /\ IsInjective(s \o t) => ToSet(s) \cap ToSet(t) = {}
<1> DEFINE m == Len(s)
           n == Len(t)
           u == s \o t
<1>1. /\ m \in Nat /\ n \in Nat /\ u \in Seq(T) /\ Len(u) = m + n
      /\ \A k \in 1..m : u[k] = s[k]
      /\ \A k \in 1..n : u[m + k] = t[k]
  BY Joined
<1> HIDE DEF u
<1>2. ASSUME IsInjective(u) PROVE ToSet(s) \cap ToSet(t) = {}
  <2> SUFFICES ASSUME NEW a \in 1..m, NEW b \in 1..n, s[a] = t[b] PROVE FALSE
    BY DEF ToSet
  <2>1. a \in 1..m + n /\ m + b \in 1..m + n /\ a # m + b
    BY <1>1
  <2>2. u[a] = u[m + b]
    BY <1>1, <2>1
  <2>3. DOMAIN u = 1..m + n
    BY <1>1
  <2>4. QED
    BY <1>2, <2>1, <2>2, <2>3 DEF IsInjective
<1>3. QED
  BY <1>1, <1>2 DEF Begins, u

\* What is new on a page is what Drive serves for the first time.
LEMMA AbsorbServed ==
  ASSUME NEW items \in Seq(Items), NEW head \in Seq(Items), ToSet(items) \cap ToSet(head) = {},
         NEW page, page = head \/ \E i \in ToSet(items) : page = <<i>> \o head
  PROVE  Absorb(items, page) = items \o head
<1> DEFINE S == ToSet(page) \ ToSet(items)
<1>1. CASE page = head
  <2>1. ToSet(head) \subseteq S
    BY <1>1
  <2> HIDE DEF S
  <2>2. Filtered(head, S) = head
    BY <2>1, FilteredAll
  <2>3. QED
    BY <1>1, <2>2 DEF Absorb, S
<1>2. ASSUME NEW i \in ToSet(items), page = <<i>> \o head
      PROVE  Absorb(items, page) = items \o head
  <2> DEFINE one == <<i>>
             none == <<>>
  <2>1. i \in Items
    BY DEF ToSet
  <2>2. one \in Seq(Items) /\ ToSet(one) = {i}
    BY <2>1 DEF ToSet
  <2>3. page = one \o head
    BY <1>2
  <2>4. none \in Seq(Items) /\ none \o head = head
    OBVIOUS
  <2> HIDE DEF one
  <2>5. ToSet(page) = ToSet(one) \cup ToSet(head)
    BY <2>2, <2>3, ToSetConcat
  <2>6. ToSet(head) \subseteq S /\ ToSet(one) \cap S = {}
    BY <1>2, <2>2, <2>5
  <2> HIDE DEF S
  <2>7. Filtered(head, S) = head
    BY <2>6, FilteredAll
  <2>8. Filtered(one, S) = none
    BY <2>2, <2>6, FilteredAll
  <2>9. Filtered(one \o head, S) = Filtered(one, S) \o Filtered(head, S)
    BY <2>2, FilteredConcat
  <2>10. Filtered(page, S) = head
    BY <2>3, <2>4, <2>7, <2>8, <2>9
  <2>11. QED
    BY <2>10 DEF Absorb, S
<1>3. QED
  BY <1>1, <1>2

\* A page takes the walk on in the order it began with.
LEMMA PageInOrder ==
  ASSUME ListingAssumption, WalkInv, FetchPage, NEW order \in Seq(Items), IsInjective(order),
         ~incomplete => found \o rest = order
  PROVE  /\ answer' = None /\ ~incomplete' => found' \o rest' = order
         /\ answer' # None /\ ~answer'.incomplete =>
              /\ Begins(answer'.items, order)
              /\ answer'.has_more => Len(answer'.items) >= wanted
              /\ ~answer'.has_more => answer'.items = order
<1>1. answer = None
  BY DEF FetchPage
<1>2. PICK n \in 0..Len(rest), token \in BOOLEAN, flag \in BOOLEAN :
        \E page \in Served(n), lost \in SUBSET ToSet(SubSeq(rest, n + 1, Len(rest))) :
          /\ n <= PageLimit /\ (lost # {} => flag)
          /\ rest' = Filtered(SubSeq(rest, n + 1, Len(rest)), Items \ lost)
          /\ (rest' # <<>> => token)
          /\ found' = Absorb(found, page)
          /\ incomplete' = Sticky(incomplete, flag)
          /\ pages' = Turn(pages, page) /\ attempts' = 0
          /\ Resume(found', incomplete', token)
  BY DEF FetchPage
<1>3. PICK page \in Served(n), lost \in SUBSET ToSet(After(rest, n)) :
        /\ (lost # {} => flag)
        /\ rest' = Filtered(After(rest, n), Items \ lost)
        /\ (rest' # <<>> => token)
        /\ found' = Absorb(found, page)
        /\ incomplete' = (incomplete \/ flag)
        /\ Resume(found', incomplete', token)
  BY <1>2 DEF After, Sticky
<1>4. rest \in Seq(Items) /\ found \in Seq(Items)
  BY DEF WalkInv, TypeOK
<1> DEFINE head == Before(rest, n)
           tail == After(rest, n)
<1>5. head \in Seq(Items) /\ tail \in Seq(Items) /\ rest = head \o tail
      /\ ToSet(rest) = ToSet(head) \cup ToSet(tail)
  BY <1>4, CutInTwo
<1>6. page = head \/ \E i \in ToSet(found) : page = <<i>> \o head
  BY DEF Served, head, Before
<1> HIDE DEF head, tail
<1>7. ASSUME ~incomplete'
      PROVE  /\ found' \in Seq(Items) /\ rest' \in Seq(Items) /\ found' \o rest' = order
             /\ Begins(found', order) /\ (~token => found' = order)
  <2>1. lost = {} /\ ~incomplete /\ found \o rest = order
    BY <1>3, <1>7
  <2>2. ToSet(found) \cap ToSet(rest) = {}
    BY <1>4, <2>1, PartsOf
  <2>3. found' = found \o head
    BY <1>3, <1>4, <1>5, <1>6, <2>2, AbsorbServed
  <2>4. rest' = tail
    <3> DEFINE S == Items \ lost
    <3>1. ToSet(tail) \subseteq S
      BY <1>5, <2>1 DEF ToSet
    <3>2. rest' = Filtered(tail, S)
      BY <1>3 DEF tail
    <3> HIDE DEF S
    <3>3. QED
      BY <1>5, <3>1, <3>2, FilteredAll
  <2>5. found' \in Seq(Items) /\ found' \o rest' = order
    <3>1. found \o head \in Seq(Items)
      BY <1>4, <1>5
    <3>2. (found \o head) \o tail = found \o (head \o tail)
      BY <1>4, <1>5, ConcatAssociative
    <3>3. QED
      BY <1>5, <2>1, <2>3, <2>4, <3>1, <3>2
  <2>6. Begins(found', order)
    <3>1. Begins(found \o head, (found \o head) \o tail)
      BY <1>5, <2>3, <2>5, PartsOf
    <3>2. QED
      BY <2>3, <2>4, <2>5, <3>1
  <2>7. ASSUME ~token PROVE found' = order
    <3> DEFINE none == <<>>
    <3>1. tail = none
      BY <1>3, <2>4, <2>7
    <3>2. found \o head \in Seq(Items) /\ (found \o head) \o none = found \o head
      BY <2>3, <2>5, ConcatEmptySeq
    <3>3. QED
      BY <2>3, <2>4, <2>5, <3>1, <3>2
  <2>8. QED
    BY <1>5, <2>4, <2>5, <2>6, <2>7
<1>8. SUFFICES ASSUME answer' # None, ~answer'.incomplete
      PROVE  /\ Begins(answer'.items, order)
             /\ answer'.has_more => Len(answer'.items) >= wanted
             /\ ~answer'.has_more => answer'.items = order
  BY <1>7
<1>9. CASE ~token /\ answer' = Answer(found', incomplete', FALSE, FALSE)
  <2>1. answer'.items = found' /\ answer'.incomplete = incomplete' /\ ~answer'.has_more
    BY <1>9 DEF Answer
  <2>2. QED
    BY <1>7, <1>8, <1>9, <2>1
<1>10. CASE Met(token, Len(found')) /\ answer' = Answer(found', incomplete', TRUE, FALSE)
  <2>1. answer'.items = found' /\ answer'.incomplete = incomplete' /\ answer'.has_more
    BY <1>10 DEF Answer
  <2>2. Len(found') >= wanted
    BY <1>10 DEF Met
  <2>3. QED
    BY <1>7, <1>8, <2>1, <2>2
<1>11. CASE answer' = Spent(found', incomplete')
  BY <1>8, <1>11 DEF Spent, Answer
<1>12. CASE answer' = answer
  BY <1>1, <1>8, <1>12
<1>13. QED
  BY <1>3, <1>9, <1>10, <1>11, <1>12 DEF Resume

\* The first query goes through the first batch.
LEMMA InitRankInv == ListingAssumption /\ SearchInit => RankInv
<1> SUFFICES ASSUME ListingAssumption, SearchInit PROVE RankInv
  OBVIOUS
<1>1. PICK order \in Orders(InBatch(1)) : rest = order /\ ranking = <<order>>
  BY DEF SearchInit
<1>2. order \in Seq(Items) /\ IsInjective(order) /\ ToSet(order) = InBatch(1)
  BY <1>1, Asked
<1>3. ranked = <<>> /\ found = <<>> /\ result = None /\ answer = None /\ ~more
  BY DEF SearchInit
<1>4. Len(ranked) = 0 /\ Batch = 1 /\ ~Merged
  BY <1>3 DEF Batch, Merged
<1>5. ranking \in Seq(Seq(Items)) /\ Len(ranking) = 1 /\ ranking[1] = order
  <2> DEFINE V == Seq(Items)
  <2>1. order \in V
    BY <1>2
  <2> HIDE DEF V
  <2>2. ranking \in Seq(V) /\ Len(ranking) = 1 /\ ranking[1] = order
    BY <1>1, <2>1
  <2>3. QED
    BY <2>2 DEF V
<1>6. found \o rest = ranking[Batch]
  BY <1>1, <1>2, <1>3, <1>4, <1>5, ConcatEmptySeq
<1>7. \A b \in 1..Len(ranking) : IsInjective(ranking[b]) /\ ToSet(ranking[b]) = InBatch(b)
  BY <1>2, <1>5
<1>8. Sifted
  BY <1>3, <1>4 DEF Sifted
<1>9. QED
  BY <1>3, <1>4, <1>5, <1>6, <1>7, <1>8 DEF RankInv

\* What is sifted stays so while only the walk goes on.
LEMMA SameSifted ==
  ASSUME ranked' = ranked, more' = more, limit' = limit, where' = where, Sifted
  PROVE  Sifted'
<1>1. \A b : InBatch(b)' = InBatch(b)
  BY DEF InBatch
<1>2. QED
  BY <1>1 DEF Sifted

\* The walk under way keeps to its order.
LEMMA WalkOnRanks ==
  ASSUME ListingAssumption, SearchAssumption, SearchInv, RankInv, WalkOn
  PROVE  RankInv'
<1>1. /\ answer = None /\ changes' = changes /\ wanted = limit + 1 /\ limit' = limit /\ where' = where
      /\ ranked' = ranked /\ partial' = partial /\ more' = more /\ result' = result
      /\ ranking' = ranking /\ limit \in Limits
  BY DEF WalkOn, batching, Run, FetchPage, Retry, Fail, SearchInv
<1>2. result = None
  BY <1>1 DEF SearchInv
<1>3. SUFFICES ASSUME changes = 0 PROVE RankInv'
  BY <1>1 DEF RankInv
<1>4. /\ ranking \in Seq(Seq(Items))
      /\ \A b \in 1..Len(ranking) : IsInjective(ranking[b]) /\ ToSet(ranking[b]) = InBatch(b)
      /\ Len(ranking) = IF Merged THEN Len(ranked) ELSE Batch
      /\ ~incomplete => found \o rest = ranking[Batch]
  BY <1>1, <1>2, <1>3 DEF RankInv
<1>5. ~Merged /\ Batch \in 1..Len(ranking)
  BY <1>2, <1>4 DEF Merged, Batch, SearchInv
<1> DEFINE order == ranking[Batch]
<1>6. order \in Seq(Items) /\ IsInjective(order)
  BY <1>4, <1>5
<1>7. Batch' = Batch /\ ~Merged' /\ AllSafe' = AllSafe /\ \A b : InBatch(b)' = InBatch(b)
  BY <1>1, <1>5 DEF Batch, Merged, AllSafe, InBatch
<1>8. order' = order
  BY <1>1, <1>7
<1> HIDE DEF order
<1>9. /\ answer' = None /\ ~incomplete' => found' \o rest' = order
      /\ answer' \notin {None, Failed} /\ ~answer'.incomplete =>
           /\ Begins(answer'.items, order)
           /\ answer'.has_more => Len(answer'.items) > limit
           /\ ~answer'.has_more => answer'.items = order
  <2>1. CASE FetchPage
    <3>1. WalkInv /\ (~incomplete => found \o rest = order)
      BY <1>4 DEF order, SearchInv
    <3>2. /\ answer' = None /\ ~incomplete' => found' \o rest' = order
          /\ answer' # None /\ ~answer'.incomplete =>
               /\ Begins(answer'.items, order)
               /\ answer'.has_more => Len(answer'.items) >= wanted
               /\ ~answer'.has_more => answer'.items = order
      BY <1>6, <2>1, <3>1, PageInOrder
    <3>3. WalkInv'
      BY <2>1, <3>1, FetchPageKeeps
    <3>4. limit \in Nat /\ (answer' \notin {None, Failed} => Len(answer'.items) \in Nat)
      BY <1>1, <3>3 DEF WalkInv, TypeOK, SearchPage, SearchAssumption
    <3>5. QED
      BY <1>1, <3>2, <3>4
  <2>2. CASE Retry \/ Fail
    BY <1>1, <1>4, <2>2 DEF Retry, Fail, order, ListingAssumption
  <2>3. QED
    BY <2>1, <2>2 DEF WalkOn, Run
<1>10. /\ ranking' \in Seq(Seq(Items))
       /\ \A b \in 1..Len(ranking') : IsInjective(ranking'[b]) /\ ToSet(ranking'[b]) = InBatch(b)'
       /\ Len(ranking') = IF Merged' THEN Len(ranked') ELSE Batch'
  BY <1>1, <1>4, <1>5, <1>7
<1>11. ~partial' /\ AllSafe' =>
         /\ \A b \in 1..Len(ranked') : /\ Begins(ranked'[b], ranking'[b])
                                       /\ ranked'[b] = ranking'[b] \/ Len(ranked'[b]) > limit'
         /\ more' => \E b \in 1..Len(ranked') : Len(ranked'[b]) > limit'
         /\ ~more' => \A b \in 1..Len(ranked') : ranked'[b] = ranking'[b]
  BY <1>1, <1>3, <1>7 DEF RankInv
<1>12. ranking'[Batch'] = order
  BY <1>1, <1>7 DEF order
<1>13. ~partial' => Sifted'
  BY <1>1, <1>3, SameSifted DEF RankInv
<1>14. QED
  BY <1>1, <1>9, <1>10, <1>11, <1>12, <1>13 DEF RankInv

\* Taking a batch in cuts its order off behind more than the limit, or not at all.
LEMMA NextBatchRanks ==
  ASSUME ListingAssumption, SearchAssumption, SearchInv, RankInv, NextBatch
  PROVE  RankInv'
<1>1. /\ result = None /\ answer \notin {None, Failed}
      /\ ranked' = Append(ranked, SafeHits(answer.items))
      /\ partial' = (partial \/ answer.incomplete) /\ more' = (more \/ answer.has_more)
      /\ changes' = changes /\ limit' = limit /\ where' = where
  BY DEF NextBatch, AnyFlag
<1>2. SUFFICES ASSUME changes = 0 PROVE RankInv'
  BY <1>1 DEF RankInv
<1> DEFINE n == Len(ranked)
           hits == SafeHits(answer.items)
           order == ranking[n + 1]
           V == Seq(Items)
           U == Seq(Items \ Unsafe)
<1>3. /\ ranking \in Seq(V)
      /\ \A b \in 1..Len(ranking) : IsInjective(ranking[b]) /\ ToSet(ranking[b]) = InBatch(b)
      /\ Len(ranking) = n + 1 /\ Batch = n + 1 /\ n \in Nat
      /\ ranked \in Seq(U) /\ limit \in Limits /\ Batches \in Nat /\ n < Batches
      /\ answer \in SearchPage
  BY <1>1, <1>2 DEF RankInv, Merged, SearchInv, Batch, WalkInv, TypeOK, SearchAssumption
<1>4. ~answer.incomplete =>
        /\ Begins(answer.items, order)
        /\ answer.has_more => Len(answer.items) > limit
        /\ ~answer.has_more => answer.items = order
  BY <1>1, <1>2, <1>3 DEF RankInv
<1>5. answer.items \in V /\ answer.has_more \in BOOLEAN /\ answer.incomplete \in BOOLEAN
  BY <1>3 DEF SearchPage
<1>6. hits \in U
  BY <1>5, SafeHitsFacts
<1>7. order \in V /\ ToSet(order) = InBatch(n + 1)
  <2> HIDE DEF V
  <2>1. n + 1 \in 1..Len(ranking)
    BY <1>3
  <2>2. QED
    BY <1>3, <2>1
<1> HIDE DEF hits, order, V, U
<1>8. /\ Len(ranked') = n + 1 /\ ranked'[n + 1] = hits
      /\ \A b \in 1..n : ranked'[b] = ranked[b]
  <2>1. ranked' = Append(ranked, hits)
    BY <1>1 DEF hits
  <2> HIDE DEF n
  <2>2. n = Len(ranked)
    BY DEF n
  <2>3. QED
    BY <1>3, <1>6, <2>1, <2>2
<1>9. AllSafe' = AllSafe /\ Batch' = n + 2 /\ \A b : InBatch(b)' = InBatch(b)
  BY <1>1, <1>3, <1>8 DEF AllSafe, InBatch, Batch
<1>10. ASSUME ~partial', AllSafe'
       PROVE  /\ \A b \in 1..n + 1 : /\ Begins(ranked'[b], ranking[b])
                                     /\ ranked'[b] = ranking[b] \/ Len(ranked'[b]) > limit
              /\ more' => \E b \in 1..n + 1 : Len(ranked'[b]) > limit
              /\ ~more' => \A b \in 1..n + 1 : ranked'[b] = ranking[b]
  <2>1. /\ \A b \in 1..n : /\ Begins(ranked[b], ranking[b])
                           /\ ranked[b] = ranking[b] \/ Len(ranked[b]) > limit
        /\ more => \E b \in 1..n : Len(ranked[b]) > limit
        /\ ~more => \A b \in 1..n : ranked[b] = ranking[b]
    BY <1>1, <1>2, <1>9, <1>10 DEF RankInv, n
  <2>2. /\ Begins(answer.items, order)
        /\ answer.has_more => Len(answer.items) > limit
        /\ ~answer.has_more => answer.items = order
    BY <1>1, <1>4, <1>10
  <2>3. hits = answer.items
    <3> DEFINE S == Items \ Unsafe
               s == answer.items
    <3>1. s \in Seq(Items) /\ DOMAIN s = 1..Len(s) /\ Len(s) \in Nat
      BY <1>5 DEF V
    <3>2. \A k \in 1..Len(s) : s[k] \in ToSet(order)
      <4>1. DOMAIN order = 1..Len(order) /\ Len(order) \in Nat
        BY <1>7 DEF V
      <4>2. \A k \in 1..Len(s) : k \in 1..Len(order) /\ s[k] = order[k]
        BY <2>2, <3>1, <4>1 DEF Begins
      <4>3. QED
        BY <4>1, <4>2 DEF ToSet
    <3>3. \A i \in InBatch(n + 1) : i \in S
      <4>1. n + 1 # 0
        BY <1>3
      <4>2. QED
        BY <1>9, <1>10, <4>1 DEF InBatch, AllSafe
    <3>4. ToSet(s) \subseteq S
      BY <1>7, <3>1, <3>2, <3>3 DEF ToSet
    <3>5. hits = Filtered(s, S)
      BY DEF hits, SafeHits
    <3> HIDE DEF s, S
    <3>6. Filtered(s, S) = s
      BY <3>1, <3>4, FilteredAll
    <3>7. QED
      BY <3>5, <3>6 DEF s
  <2>4. \A b \in 1..n + 1 : b \in 1..n \/ b = n + 1
    BY <1>3
  <2>5. 1..n \subseteq 1..n + 1 /\ n + 1 \in 1..n + 1
    BY <1>3
  <2>6. ranked'[n + 1] = answer.items /\ ranking[n + 1] = order
    BY <1>8, <2>3 DEF order
  <2>7. ASSUME NEW b \in 1..n + 1
        PROVE  /\ Begins(ranked'[b], ranking[b])
               /\ ranked'[b] = ranking[b] \/ Len(ranked'[b]) > limit
               /\ ~more' => ranked'[b] = ranking[b]
    <3>1. CASE b \in 1..n
      BY <1>1, <1>8, <2>1, <3>1
    <3>2. CASE b = n + 1
      BY <1>1, <1>5, <2>2, <2>6, <3>2
    <3>3. QED
      BY <2>4, <3>1, <3>2
  <2>8. ASSUME more' PROVE \E b \in 1..n + 1 : Len(ranked'[b]) > limit
    <3>1. CASE more
      BY <1>8, <2>1, <2>5, <3>1
    <3>2. CASE answer.has_more
      BY <2>2, <2>5, <2>6, <3>2
    <3>3. QED
      BY <1>1, <2>8, <3>1, <3>2
  <2>9. QED
    BY <2>7, <2>8
<1>11. ~partial' => Sifted'
  <2>1. SUFFICES ASSUME ~partial' PROVE Sifted'
    OBVIOUS
  <2> DEFINE s == answer.items
             I == InBatch(n + 1)
             O == order
  <2>2. s \in Seq(Items) /\ O \in Seq(Items) /\ IsInjective(O) /\ ToSet(O) = I
    <3>1. n + 1 \in 1..Len(ranking)
      BY <1>3
    <3>2. QED
      BY <1>3, <1>5, <1>7, <3>1 DEF V, order
  <2>3. /\ Begins(s, O)
        /\ answer.has_more => Len(s) > limit
        /\ ~answer.has_more => s = O
    BY <1>1, <1>4, <2>1
  <2>4. ToSet(hits) = ToSet(s) \cap (Items \ Unsafe)
    <3> HIDE DEF s
    <3>1. ToSet(Filtered(s, Items \ Unsafe)) = ToSet(s) \cap (Items \ Unsafe)
      BY <2>2, FilteredSet
    <3>2. QED
      BY <3>1 DEF hits, SafeHits, s
  <2> HIDE DEF s, O
  <2>5. IsInjective(s) /\ ToSet(s) \subseteq ToSet(O)
    <3>1. \A k \in DOMAIN s : k \in DOMAIN O /\ s[k] = O[k]
      BY <2>2, <2>3 DEF Begins
    <3>2. QED
      BY <2>2, <3>1 DEF IsInjective, ToSet
  <2>6. I \in SUBSET Items
    BY DEF InBatch
  <2> HIDE DEF I
  <2>7. ToSet(hits) \subseteq I \ Unsafe /\ (~answer.has_more => ToSet(hits) = I \ Unsafe)
    BY <2>2, <2>3, <2>4, <2>5, <2>6
  <2>8. answer.has_more => Cardinality(I) > limit
    <3>1. Cardinality(ToSet(s)) = Len(s) /\ Len(s) \in Nat
      BY <2>2, <2>5, InjectiveCount
    <3>2. IsFiniteSet(I)
      BY <2>6, FS_Subset DEF ListingAssumption
    <3>3. ToSet(s) \in SUBSET I
      BY <2>2, <2>5
    <3>4. Cardinality(ToSet(s)) <= Cardinality(I) /\ Cardinality(I) \in Nat
      BY <3>2, <3>3, FS_Subset, FS_CardinalityType
    <3>5. limit \in Nat
      BY <1>3 DEF SearchAssumption
    <3>6. QED
      BY <2>3, <3>1, <3>4, <3>5
  <2>9. /\ \A b \in 1..n : ToSet(ranked[b]) \subseteq InBatch(b) \ Unsafe
        /\ ~more => \A b \in 1..n : ToSet(ranked[b]) = InBatch(b) \ Unsafe
        /\ more => \E b \in 1..n : Cardinality(InBatch(b)) > limit
    BY <1>1, <1>2, <2>1 DEF RankInv, Sifted, n
  <2>10. \A b \in 1..n + 1 : b \in 1..n \/ b = n + 1
    BY <1>3
  <2>11. 1..n \subseteq 1..n + 1 /\ n + 1 \in 1..n + 1
    BY <1>3
  <2>12. ASSUME NEW b \in 1..n + 1
         PROVE  /\ ToSet(ranked'[b]) \subseteq InBatch(b) \ Unsafe
                /\ ~more' => ToSet(ranked'[b]) = InBatch(b) \ Unsafe
    <3>1. CASE b \in 1..n
      BY <1>1, <1>8, <2>9, <3>1
    <3>2. CASE b = n + 1
      BY <1>1, <1>8, <2>7, <3>2 DEF I
    <3>3. QED
      BY <2>10, <3>1, <3>2
  <2>13. more' => \E b \in 1..n + 1 : Cardinality(InBatch(b)) > limit
    <3>1. CASE more
      BY <2>9, <2>11, <3>1
    <3>2. CASE answer.has_more
      BY <2>8, <2>11, <3>2 DEF I
    <3>3. QED
      BY <1>1, <3>1, <3>2
  <2>14. QED
    BY <1>1, <1>8, <1>9, <2>12, <2>13 DEF Sifted
<1>12. CASE Batch < Batches /\ result' = result
            /\ \E next \in Orders(InBatch(Batch + 1)) :
                 Ask(OneMore(limit), next) /\ ranking' = Append(ranking, next)
  <2>1. PICK next \in Orders(InBatch(n + 2)) :
          Ask(OneMore(limit), next) /\ ranking' = Append(ranking, next)
    BY <1>3, <1>12
  <2>2. next \in V /\ IsInjective(next) /\ ToSet(next) = InBatch(n + 2)
    BY <2>1, Asked DEF V
  <2>3. rest' = next /\ found' = <<>> /\ answer' = None
    BY <2>1 DEF Ask
  <2>4. /\ ranking' \in Seq(V) /\ Len(ranking') = n + 2 /\ ranking'[n + 2] = next
        /\ \A b \in 1..n + 1 : ranking'[b] = ranking[b]
    <3> HIDE DEF n
    <3>1. QED
      BY <1>3, <2>1, <2>2
  <2>5. ASSUME NEW b \in 1..n + 2
        PROVE  IsInjective(ranking'[b]) /\ ToSet(ranking'[b]) = InBatch(b)
    <3>1. CASE b \in 1..n + 1
      BY <1>3, <2>4, <3>1
    <3>2. CASE b = n + 2
      BY <2>2, <2>4, <3>2
    <3>3. QED
      BY <1>3, <3>1, <3>2
  <2>6. found' \o rest' = ranking'[Batch']
    <3>1. next \in Seq(Items)
      BY <2>2 DEF V
    <3>2. <<>> \o next = next
      BY <3>1, ConcatEmptySeq
    <3>3. QED
      BY <1>9, <2>3, <2>4, <3>2
  <2>7. ~Merged' /\ result' = None
    BY <1>1, <1>12 DEF Merged
  <2>8. \A b \in 1..n + 1 : ranking'[b] = ranking[b]
    BY <2>4
  <2>9. ~partial' /\ AllSafe' =>
          /\ \A b \in 1..Len(ranked') : /\ Begins(ranked'[b], ranking'[b])
                                        /\ ranked'[b] = ranking'[b] \/ Len(ranked'[b]) > limit'
          /\ more' => \E b \in 1..Len(ranked') : Len(ranked'[b]) > limit'
          /\ ~more' => \A b \in 1..Len(ranked') : ranked'[b] = ranking'[b]
    BY <1>1, <1>8, <1>10, <2>8
  <2>10. ranking' \in Seq(Seq(Items)) /\ Len(ranking') = IF Merged' THEN Len(ranked') ELSE Batch'
    BY <1>9, <2>4, <2>7 DEF V
  <2>11. \A b \in 1..Len(ranking') : IsInjective(ranking'[b]) /\ ToSet(ranking'[b]) = InBatch(b)'
    BY <1>9, <2>4, <2>5
  <2>12. QED
    BY <1>11, <2>3, <2>6, <2>7, <2>9, <2>10, <2>11 DEF RankInv
<1>13. CASE /\ Batch = Batches /\ UNCHANGED <<walk, ranking>>
            /\ LET candidates == InterleaveByRank(ranked') IN
               result' = [items |-> First(candidates, limit),
                          truncated |-> Truncated(candidates, more'), incomplete |-> partial']
  <2>1. result' = MergedInto(ranked', limit, more', partial')
    BY <1>13 DEF MergedInto, Truncated
  <2>2. ranked' \in Seq(Seq(Items \ Unsafe)) /\ partial' \in BOOLEAN /\ more' \in BOOLEAN
    BY NextBatchKeeps DEF SearchInv
  <2>3. result' \in SearchResult
    BY <1>3, <2>1, <2>2, MergedIntoResult
  <2>4. result' # None /\ Merged'
    BY <2>3 DEF Merged, SearchAssumption
  <2>5. ranking' = ranking
    BY <1>13
  <2>6. ~partial' /\ AllSafe' =>
          /\ \A b \in 1..Len(ranked') : /\ Begins(ranked'[b], ranking'[b])
                                        /\ ranked'[b] = ranking'[b] \/ Len(ranked'[b]) > limit'
          /\ more' => \E b \in 1..Len(ranked') : Len(ranked'[b]) > limit'
          /\ ~more' => \A b \in 1..Len(ranked') : ranked'[b] = ranking'[b]
    BY <1>1, <1>8, <1>10, <2>5
  <2>7. /\ ranking' \in Seq(Seq(Items)) /\ Len(ranking') = IF Merged' THEN Len(ranked') ELSE Batch'
        /\ \A b \in 1..Len(ranking') : IsInjective(ranking'[b]) /\ ToSet(ranking'[b]) = InBatch(b)'
    BY <1>3, <1>8, <1>9, <2>4, <2>5 DEF V
  <2>8. QED
    BY <1>11, <2>4, <2>6, <2>7 DEF RankInv
<1>14. QED
  BY <1>12, <1>13 DEF NextBatch

\* Every step of a search keeps the invariant; one that changes what is there ends
\* what it says.
LEMMA NextRankInv ==
  ASSUME ListingAssumption, SearchAssumption, SearchInv, RankInv, [SearchNext]_searchVars
  PROVE  RankInv'
<1>1. CASE NextBatch
  BY <1>1, NextBatchRanks
<1>2. CASE WalkOn
  BY <1>2, WalkOnRanks
<1>3. ASSUME NEW i \in Items, NEW b \in 0..Batches, Move(i, b) PROVE RankInv'
  <2>1. changes \in Nat /\ changes' = changes + 1
    BY <1>3 DEF Move, SearchInv, WalkInv, TypeOK, ListingAssumption
  <2>2. changes' # 0
    BY <2>1
  <2>3. QED
    BY <2>2 DEF RankInv
<1>4. CASE SearchFails
  <2>1. /\ result' = Failed /\ result = None /\ changes' = changes /\ ranking' = ranking
        /\ limit' = limit /\ where' = where /\ ranked' = ranked
        /\ partial' = partial /\ more' = more
    BY <1>4 DEF SearchFails
  <2>2. /\ ~Merged /\ ~Merged' /\ result' # None /\ Batch' = Batch /\ AllSafe' = AllSafe
        /\ \A b : InBatch(b)' = InBatch(b)
    BY <2>1 DEF Merged, InBatch, Batch, AllSafe, ListingAssumption
  <2>3. Sifted => Sifted'
    BY <2>1, SameSifted
  <2>4. QED
    BY <2>1, <2>2, <2>3 DEF RankInv
<1>5. CASE UNCHANGED searchVars
  <2>1. /\ result' = result /\ changes' = changes /\ ranking' = ranking
        /\ limit' = limit /\ where' = where /\ ranked' = ranked
        /\ partial' = partial /\ more' = more
        /\ found' = found /\ rest' = rest /\ answer' = answer /\ incomplete' = incomplete
    BY <1>5 DEF searchVars, walk, batching
  <2>2. /\ Merged' = Merged /\ Batch' = Batch /\ AllSafe' = AllSafe
        /\ \A b : InBatch(b)' = InBatch(b)
    BY <2>1 DEF Merged, InBatch, Batch, AllSafe
  <2>3. Sifted => Sifted'
    BY <2>1, SameSifted
  <2>4. QED
    BY <2>1, <2>2, <2>3 DEF RankInv
<1>6. QED
  BY <1>1, <1>2, <1>3, <1>4, <1>5 DEF SearchNext

\* The invariant holds of every search.
LEMMA AlwaysRankInv == SearchSpec => [](SearchInv /\ RankInv)
<1>1. SearchInit => SearchInv /\ RankInv
  BY InitSearchInv, InitRankInv, ListingAssumption, SearchAssumption
<1>2. SearchInv /\ RankInv /\ [SearchNext]_searchVars => SearchInv' /\ RankInv'
  BY NextSearchInv, NextRankInv, ListingAssumption, SearchAssumption
<1>3. QED
  BY <1>1, <1>2, PTL DEF SearchSpec

---------------------------------------------------------------------------
\* What the invariants say of a search that nothing disturbed.
LEMMA UndisturbedFacts ==
  ASSUME ListingAssumption, SearchAssumption, SearchInv, RankInv, Undisturbed, AllSafe
  PROVE  /\ limit \in Nat /\ Batches \in Nat /\ where \in [Items -> 0..Batches]
         /\ ranking \in Seq(Seq(Items)) /\ Len(ranking) = Batches
         /\ ranked \in Seq(Seq(Items)) /\ Len(ranked) = Batches
         /\ Separate(ranking) /\ \A b \in 1..Batches : ToSet(ranking[b]) = InBatch(b)
         /\ \A b \in 1..Batches : /\ Begins(ranked[b], ranking[b])
                                  /\ ranked[b] = ranking[b] \/ Len(ranked[b]) > limit
         /\ more => \E b \in 1..Batches : Len(ranked[b]) > limit
         /\ ~more => \A b \in 1..Batches : ranked[b] = ranking[b]
         /\ result.items = First(InterleaveByRank(ranked), limit)
         /\ result.truncated = (Len(InterleaveByRank(ranked)) > limit \/ more)
<1>1. /\ Merged /\ changes = 0 /\ ~result.incomplete
      /\ Len(ranked) = Batches /\ result = Outcome
      /\ limit \in Nat /\ Batches \in Nat /\ where \in [Items -> 0..Batches]
      /\ ranked \in Seq(Seq(Items \ Unsafe))
  BY DEF Undisturbed, SearchInv, SearchAssumption
<1>2. /\ result.items = First(InterleaveByRank(ranked), limit)
      /\ result.truncated = (Len(InterleaveByRank(ranked)) > limit \/ more)
      /\ result.incomplete = partial
  BY <1>1 DEF Outcome, MergedInto
<1>3. /\ ranking \in Seq(Seq(Items)) /\ Len(ranking) = Batches
      /\ \A b \in 1..Batches : IsInjective(ranking[b]) /\ ToSet(ranking[b]) = InBatch(b)
  BY <1>1 DEF RankInv
<1>4. /\ \A b \in 1..Batches : /\ Begins(ranked[b], ranking[b])
                               /\ ranked[b] = ranking[b] \/ Len(ranked[b]) > limit
      /\ more => \E b \in 1..Batches : Len(ranked[b]) > limit
      /\ ~more => \A b \in 1..Batches : ranked[b] = ranking[b]
  BY <1>1, <1>2 DEF RankInv
<1>5. \A b, c \in 1..Batches : b # c => InBatch(b) \cap InBatch(c) = {}
  BY DEF InBatch
<1>6. Separate(ranking)
  BY <1>3, <1>5 DEF Separate
<1>7. ranked \in Seq(Seq(Items))
  <2> DEFINE U == Seq(Items \ Unsafe)
             V == Seq(Items)
  <2>1. \A s \in U : s \in V
    OBVIOUS
  <2>2. ranked \in Seq(U)
    BY <1>1
  <2> HIDE DEF U, V
  <2>3. ranked \in Seq(V)
    BY <2>1, <2>2
  <2>4. QED
    BY <2>3 DEF V
<1>8. QED
  BY <1>1, <1>2, <1>3, <1>4, <1>6, <1>7

\* The place of an item in the order of its batch.
LEMMA RankIs ==
  ASSUME NEW i, NEW b, where[i] = b, IsInjective(ranking[b]),
         NEW p \in DOMAIN ranking[b], ranking[b][p] = i
  PROVE  Rank(i) = p
<1> DEFINE s == ranking[b]
           Place(k) == k \in DOMAIN s /\ s[k] = i
<1>1. \A k \in DOMAIN s : s[k] = i => k = p
  BY DEF IsInjective
<1>2. Rank(i) = CHOOSE k \in DOMAIN s : s[k] = i
  BY DEF Rank
<1> HIDE DEF s
<1>3. p \in DOMAIN s /\ s[p] = i
  BY DEF s
<1>4. QED
  BY <1>1, <1>2, <1>3

\* The hits shown are ahead of those that are not.
LEMMA ShowsTopHits ==
  ASSUME ListingAssumption, SearchAssumption, SearchInv, RankInv
  PROVE  TopHits
<1> SUFFICES ASSUME Undisturbed, AllSafe, NEW k \in 1..limit, NEW j \in Matches,
                    j \notin ToSet(First(result.items, k))
             PROVE  k <= Len(result.items) /\ Ahead(result.items[k], j)
  BY DEF TopHits, AllSafe
<1> DEFINE s == InterleaveByRank(ranked)
           b == where[j]
<1>1. /\ limit \in Nat /\ Batches \in Nat /\ where \in [Items -> 0..Batches]
      /\ ranking \in Seq(Seq(Items)) /\ Len(ranking) = Batches
      /\ ranked \in Seq(Seq(Items)) /\ Len(ranked) = Batches
      /\ Separate(ranking) /\ \A c \in 1..Batches : ToSet(ranking[c]) = InBatch(c)
      /\ \A c \in 1..Batches : /\ Begins(ranked[c], ranking[c])
                               /\ ranked[c] = ranking[c] \/ Len(ranked[c]) > limit
      /\ result.items = First(InterleaveByRank(ranked), limit)
  BY UndisturbedFacts
<1>2. j \in Items /\ b \in 1..Batches /\ j \in InBatch(b)
  BY <1>1 DEF Matches, InBatch
<1>3. /\ \A c \in 1..Batches : DOMAIN ranking[c] = 1..Len(ranking[c])
      /\ \A c \in 1..Batches : IsInjective(ranking[c])
  BY <1>1 DEF Separate
<1>4. PICK q \in 1..Len(ranking[b]) : ranking[b][q] = j
  BY <1>1, <1>2, <1>3 DEF ToSet
<1>5. s \in Seq(Items)
  BY <1>1, Interleaved
<1>6. First(result.items, k) = First(s, k)
  BY <1>1, <1>5, FirstFirst
<1>7. ranking[b][q] \notin ToSet(First(s, k))
  BY <1>4, <1>6
<1>8. /\ k <= Len(s)
      /\ \E c \in 1..Len(ranking) : \E p \in 1..Len(ranking[c]) :
           s[k] = ranking[c][p] /\ (p < q \/ (p = q /\ c < b))
  <2>1. b \in 1..Len(ranking) /\ k \in 1..limit
    BY <1>1, <1>2
  <2>2. \A c \in 1..Len(ranked) : /\ Begins(ranked[c], ranking[c])
                                  /\ ranked[c] = ranking[c] \/ Len(ranked[c]) > limit
    BY <1>1
  <2>3. ranking[b][q] \notin ToSet(First(InterleaveByRank(ranked), k))
    BY <1>7 DEF s
  <2> HIDE DEF b, s
  <2>4. /\ limit \in Nat /\ ranking \in Seq(Seq(Items)) /\ ranked \in Seq(Seq(Items))
        /\ Len(ranked) = Len(ranking) /\ Separate(ranking)
        /\ q \in 1..Len(ranking[b])
    BY <1>1, <1>4
  <2>5. k <= Len(InterleaveByRank(ranked))
    BY <2>1, <2>2, <2>3, <2>4, EnoughOfEach
  <2>6. AheadOfPlace(ranking, InterleaveByRank(ranked)[k], b, q)
    BY <2>1, <2>2, <2>3, <2>4, EnoughOfEach
  <2>7. QED
    BY <2>5, <2>6 DEF s, AheadOfPlace
<1>9. PICK c \in 1..Batches : \E p \in 1..Len(ranking[c]) :
        s[k] = ranking[c][p] /\ (p < q \/ (p = q /\ c < b))
  BY <1>1, <1>8
<1>10. PICK p \in 1..Len(ranking[c]) : s[k] = ranking[c][p] /\ (p < q \/ (p = q /\ c < b))
  BY <1>9
<1>11. k <= Len(result.items) /\ result.items[k] = s[k]
  <2> DEFINE f == First(s, limit)
  <2>1. /\ Len(f) = IF Len(s) < limit THEN Len(s) ELSE limit
        /\ \A i \in 1..Len(f) : f[i] = s[i]
    BY <1>1, <1>5, FirstOf
  <2>2. result.items = f
    BY <1>1
  <2> HIDE DEF f, s
  <2>3. k \in Nat /\ Len(s) \in Nat /\ k > 0 /\ k <= limit
    BY <1>1, <1>5
  <2>4. k \in 1..Len(f)
    BY <1>1, <1>8, <2>1, <2>3
  <2>5. QED
    BY <2>1, <2>2, <2>3, <2>4
<1> DEFINE i == s[k]
<1>12. where[i] = c
  <2>1. i \in ToSet(ranking[c])
    BY <1>3, <1>10 DEF ToSet
  <2>2. QED
    BY <1>1, <2>1 DEF InBatch
<1> HIDE DEF s, i
<1>13. Rank(i) = p
  <2>1. IsInjective(ranking[c]) /\ p \in DOMAIN ranking[c] /\ ranking[c][p] = i
    BY <1>3, <1>10 DEF i
  <2>2. QED
    BY <1>12, <2>1, RankIs
<1>14. Rank(j) = q
  BY <1>2, <1>3, <1>4, RankIs
<1>15. Ahead(i, j)
  BY <1>10, <1>12, <1>13, <1>14 DEF Ahead
<1>16. QED
  BY <1>11, <1>15 DEF i

\* `truncated` is what the number of the matches says.
LEMMA ShowsTruncated ==
  ASSUME ListingAssumption, SearchAssumption, SearchInv, RankInv
  PROVE  TruncatedTellsTruth
<1> SUFFICES ASSUME Undisturbed
             PROVE  /\ Cardinality(Matches) > limit => result.truncated
                    /\ result.truncated =>
                         \/ Cardinality(Matches) > limit
                         \/ \E b \in 1..Batches : /\ InBatch(b) \cap Unsafe # {}
                                                  /\ Cardinality(InBatch(b)) > limit
  BY DEF TruncatedTellsTruth
<1> DEFINE s == InterleaveByRank(ranked)
           M == Matches
<1>1. /\ limit \in Nat /\ Batches \in Nat /\ where \in [Items -> 0..Batches]
      /\ Len(ranked) = Batches /\ ranked \in Seq(Seq(Items \ Unsafe))
      /\ result.truncated = (Len(s) > limit \/ more)
  <2>1. /\ Merged /\ Len(ranked) = Batches /\ result = Outcome
        /\ limit \in Nat /\ Batches \in Nat /\ where \in [Items -> 0..Batches]
        /\ ranked \in Seq(Seq(Items \ Unsafe))
    BY DEF Undisturbed, SearchInv, SearchAssumption
  <2>2. QED
    BY <2>1 DEF Outcome, MergedInto
<1>2. /\ \A b \in 1..Batches : ToSet(ranked[b]) \subseteq InBatch(b) \ Unsafe
      /\ ~more => \A b \in 1..Batches : ToSet(ranked[b]) = InBatch(b) \ Unsafe
      /\ more => \E b \in 1..Batches : Cardinality(InBatch(b)) > limit
  <2>1. result.incomplete = partial
    BY DEF Undisturbed, SearchInv, Outcome, MergedInto
  <2>2. Sifted
    BY <2>1 DEF Undisturbed, RankInv
  <2>3. QED
    BY <1>1, <2>2 DEF Sifted
<1>3. M = UNION {InBatch(b) \ Unsafe : b \in 1..Batches}
  <2>1. \A i \in Items : where[i] \in 0..Batches
    BY <1>1
  <2>2. \A i \in Items : where[i] # 0 <=> where[i] \in 1..Batches
    BY <1>1, <2>1
  <2>3. \A i : i \in M <=> i \in Items \ Unsafe /\ where[i] # 0
    BY DEF Matches
  <2> HIDE DEF M
  <2>4. QED
    BY <2>2, <2>3 DEF InBatch
<1>4. IsFiniteSet(M) /\ Cardinality(M) \in Nat
  <2>1. M \in SUBSET Items
    BY DEF Matches
  <2> HIDE DEF M
  <2>2. QED
    BY <2>1, FS_Subset, FS_CardinalityType DEF ListingAssumption
<1>5. /\ IsInjective(s) /\ ToSet(s) = UNION {ToSet(ranked[b]) : b \in 1..Batches}
      /\ s \in Seq(Items \ Unsafe)
  <2> DEFINE U == Items \ Unsafe
  <2>1. ranked \in Seq(Seq(U)) /\ Len(ranked) = Batches
    BY <1>1
  <2> HIDE DEF U
  <2>2. /\ s \in Seq(U) /\ IsInjective(s)
        /\ ToSet(s) = UNION {ToSet(ranked[b]) : b \in 1..Len(ranked)}
    BY <2>1, Interleaved
  <2>3. QED
    BY <2>1, <2>2 DEF U
<1> HIDE DEF s, M
<1>6. Cardinality(ToSet(s)) = Len(s) /\ Len(s) \in Nat
  <2> DEFINE U == Items \ Unsafe
  <2>1. s \in Seq(U) /\ IsInjective(s)
    BY <1>5
  <2> HIDE DEF U
  <2>2. QED
    BY <2>1, InjectiveCount
<1>7. ToSet(s) \in SUBSET M
  BY <1>2, <1>3, <1>5
<1>8. Len(s) <= Cardinality(M)
  BY <1>4, <1>6, <1>7, FS_Subset
<1>9. ~more => Len(s) = Cardinality(M)
  <2>1. SUFFICES ASSUME ~more PROVE ToSet(s) = M
    BY <1>6
  <2>2. \A b \in 1..Batches : ToSet(ranked[b]) = InBatch(b) \ Unsafe
    BY <1>2, <2>1
  <2>3. QED
    BY <1>3, <1>5, <2>2
<1>10. ASSUME NEW b \in 1..Batches, Cardinality(InBatch(b)) > limit, InBatch(b) \cap Unsafe = {}
       PROVE  Cardinality(M) > limit
  <2> DEFINE I == InBatch(b)
  <2>1. I \in SUBSET M
    BY <1>3, <1>10
  <2>2. Cardinality(I) > limit
    BY <1>10
  <2> HIDE DEF I
  <2>3. Cardinality(I) <= Cardinality(M) /\ Cardinality(I) \in Nat
    BY <1>4, <2>1, FS_Subset, FS_CardinalityType
  <2>4. QED
    BY <1>1, <1>4, <2>2, <2>3
<1>11. more => \/ Cardinality(M) > limit
               \/ \E b \in 1..Batches : /\ InBatch(b) \cap Unsafe # {}
                                        /\ Cardinality(InBatch(b)) > limit
  BY <1>2, <1>10
<1>12. Len(s) > limit => Cardinality(M) > limit
  BY <1>1, <1>4, <1>6, <1>8
<1>13. QED
  BY <1>1, <1>9, <1>11, <1>12 DEF M

\* scope.py:203-218, ADR 0008: for any number of batches and any limit, the hits
\* of an undisturbed search are the best of every batch, in the order of their
\* positions, as if Drive had been asked for everything.
THEOREM TopHitsHold == SearchSpec => []TopHits
<1>1. SearchInv /\ RankInv => TopHits
  BY ShowsTopHits, ListingAssumption, SearchAssumption
<1>2. QED
  BY <1>1, AlwaysRankInv, PTL

\* ADR 0008: for any batches, limits and page cuts, `truncated` is raised when
\* there is more to show than the limit; it is raised otherwise only if a hit the
\* boundary drops is in a batch of more than the limit.
THEOREM TruncatedHolds == SearchSpec => []TruncatedTellsTruth
<1>1. SearchInv /\ RankInv => TruncatedTellsTruth
  BY ShowsTruncated, ListingAssumption, SearchAssumption
<1>2. QED
  BY <1>1, AlwaysRankInv, PTL
=============================================================================
