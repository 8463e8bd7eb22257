------------------------------- MODULE Search -------------------------------
(***************************************************************************)
(* ScopedDrive.search: the folders of the map it got go to Drive in batches *)
(* (of 400; here a folder is known by its batch), each batch is one walk of *)
(* DriveListing for one hit more than the limit, the hits the boundary      *)
(* rejects are dropped, and the batches are merged by rank position.  Items *)
(* move between folders, into view and out of it, while the search runs.    *)
(***************************************************************************)
EXTENDS DriveListing

CONSTANTS
  Unsafe,   \* those _is_safe_search_result drops: two parents, elsewhere
  Batches,  \* batches of folder ids, in the order of the map
  Limits    \* the limits a caller passes

VARIABLES
  limit,    \* the parameter
  where,    \* Drive: the batch of the folder an item is in; 0 outside the map
  ranked,   \* ranked_batches
  partial,  \* incomplete, over all batches
  more,     \* has_more, over all batches
  result,   \* the SearchResult
  ranking,  \* history: what each batch would have ranked, safe or not
  unmoved   \* history: the items that stayed in their folder so far

batching == <<ranked, partial, more, result, ranking>>
searchVars == <<walk, changes, limit, where, batching, unmoved>>

SearchResult == [items : Seq(Items \ Unsafe), truncated : BOOLEAN, incomplete : BOOLEAN]

ASSUME SearchAssumption ==
  /\ Unsafe \subseteq Items /\ Batches \in Nat \ {0} /\ Limits \subseteq Nat \ {0}
  /\ \A n \in Limits : n + 1 \in Wanteds
  /\ None \notin SearchResult /\ Failed \notin SearchResult

---------------------------------------------------------------------------

\* The batch whose walk is under way.
Batch == Len(ranked) + 1

NoMore(n) == n
OneMore(n) == n + 1

InBatch(b) == {i \in Items : where[i] = b}

SearchInit ==
  /\ where \in [Items -> 0..Batches] /\ unmoved = Items /\ changes = 0
  /\ limit \in Limits /\ wanted = OneMore(limit)
  /\ \E order \in Orders(InBatch(1)) :
       rest = order /\ stayed = ToSet(order) /\ ranking = <<order>>
  /\ found = <<>> /\ pages = 0 /\ attempts = 0 /\ incomplete = FALSE /\ answer = None
  /\ ranked = <<>> /\ partial = FALSE /\ more = FALSE /\ result = None

---------------------------------------------------------------------------
Unfiltered(items) == items
SafeHits(items) == Filtered(items, Items \ Unsafe)

LastFlag(all, page) == page
AnyFlag(all, page) == all \/ page

Truncated(candidates, has_more) == Len(candidates) > limit \/ has_more

\* The walk of one batch is over: take its hits in, and ask for the next batch
\* or merge what there is.
NextBatch ==
  /\ result = None /\ answer \notin {None, Failed}
  /\ ranked' = Append(ranked, SafeHits(answer.items))
  /\ partial' = AnyFlag(partial, answer.incomplete)
  /\ more' = AnyFlag(more, answer.has_more)
  /\ UNCHANGED <<changes, limit, where, unmoved>>
  /\ \/ /\ Batch < Batches
        /\ \E order \in Orders(InBatch(Batch + 1)) :
             Ask(OneMore(limit), order) /\ ranking' = Append(ranking, order)
        /\ UNCHANGED result
     \/ /\ Batch = Batches
        /\ LET candidates == InterleaveByRank(ranked') IN
           result' = [items |-> First(candidates, limit),
                      truncated |-> Truncated(candidates, more'), incomplete |-> partial']
        /\ UNCHANGED <<walk, ranking>>

\* An error in any batch is the error of the search.
SearchFails ==
  /\ result = None /\ answer = Failed /\ result' = Failed
  /\ UNCHANGED <<walk, changes, limit, where, ranked, partial, more, ranking, unmoved>>

WalkOn == Run /\ UNCHANGED <<limit, where, batching, unmoved>>

\* Somebody moves an item to a folder of another batch, or out of the map.
Move(i, b) ==
  /\ answer = None /\ changes < MaxChanges /\ changes' = changes + 1
  /\ b # where[i] /\ where' = [where EXCEPT ![i] = b]
  /\ unmoved' = unmoved \ {i}
  /\ \/ where[i] = Batch /\ Leave(i)
     \/ b = Batch /\ Enter(i)
     \/ /\ where[i] # Batch /\ b # Batch
        /\ UNCHANGED walk
  /\ UNCHANGED <<limit, batching>>

SearchNext == NextBatch \/ SearchFails \/ WalkOn \/ \E i \in Items, b \in 0..Batches : Move(i, b)

SearchSpec == SearchInit /\ [][SearchNext]_searchVars

---------------------------------------------------------------------------
(* Properties.                                                             *)

Merged == result \notin {None, Failed}

\* What a search that nothing disturbed has to choose from.
Undisturbed == Merged /\ changes = 0 /\ ~result.incomplete
Matches == {i \in Items \ Unsafe : where[i] # 0}

SearchTypeOK ==
  /\ limit \in Limits /\ where \in [Items -> 0..Batches] /\ unmoved \subseteq Items
  /\ ranked \in Seq(Seq(Items \ Unsafe)) /\ Len(ranked) <= Batches
  /\ partial \in BOOLEAN /\ more \in BOOLEAN
  /\ Merged => Len(result.items) <= limit /\ IsInjective(result.items)

\* scope.py:54-69: "No results" is evidence of absence unless the result says
\* otherwise.  A search that is neither truncated nor incomplete shows every
\* match that stayed in its folder of the map, whichever batch it is in.
SilenceIsEvidence ==
  Merged /\ ~result.truncated /\ ~result.incomplete
    => unmoved \cap Matches \subseteq ToSet(result.items)

\* scope.py:203-218, ADR 0008: one hit more than the limit from every batch
\* is enough.  The hits are those Drive ranked highest in their batches, a
\* batch earlier in the map winning a tie, as if it had been asked for all.
Rank(i) == CHOOSE k \in DOMAIN ranking[where[i]] : ranking[where[i]][k] = i
Ahead(i, j) == Rank(i) < Rank(j) \/ (Rank(i) = Rank(j) /\ where[i] < where[j])
TopHits ==
  Undisturbed /\ (\A i \in Unsafe : where[i] = 0)
    => \A k \in 1..limit, j \in Matches :
         j \notin ToSet(First(result.items, k)) =>
           k <= Len(result.items) /\ Ahead(result.items[k], j)

\* scope.py:62-64, ADR 0008: `truncated` is raised whenever the boundary lets
\* more matches through than the limit, and it is exact where no hit is dropped.  A
\* dropped hit counts among those a batch was asked for: `truncated` may then be
\* raised although all that can be shown is, but only if a batch with such a hit
\* had, for Drive, more matches than the limit.
TruncatedTellsTruth ==
  Undisturbed =>
    /\ Cardinality(Matches) > limit => result.truncated
    /\ result.truncated =>
         \/ Cardinality(Matches) > limit
         \/ \E b \in 1..Batches : InBatch(b) \cap Unsafe # {} /\ Cardinality(InBatch(b)) > limit
=============================================================================
