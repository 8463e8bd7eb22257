---------------------------- MODULE DriveListing ----------------------------
(***************************************************************************)
(* GoogleDriveGateway._list_items: one files.list query walked page by page *)
(* while the items that match it come and go, and _require_complete, which  *)
(* turns the walk of list_folders, list_children and list_descendants into  *)
(* a whole listing or an error.  Every page is one request of _execute_sync, *)
(* which is tried again when Drive or the network loses it.                 *)
(*                                                                         *)
(* Drive's side is external.  A continuation token stands for the matches   *)
(* Drive has still to serve, in its order; a page may be cut anywhere, hold *)
(* an item again, or hold nothing; a token may lead nowhere; and Drive may  *)
(* give up on some matches, which it says with incompleteSearch.  A lost    *)
(* attempt leaves the token as it was: Drive keeps no place in a query.     *)
(***************************************************************************)
EXTENDS HitLists

CONSTANTS
  Items,       \* the items that may match
  PageSize,    \* PAGE_SIZE
  PageBudget,  \* FOLDER_PAGE_BUDGET or SEARCH_PAGE_BUDGET
  Wanteds,     \* the counts asked for; Whole for a query enumerated whole
  Retries,     \* NUM_RETRIES
  MaxChanges,  \* bound on the changes to what matches
  None,        \* no answer yet
  Failed       \* the call raised

Whole == 0     \* `wanted is None`: search_items refuses a limit below 1

SearchPage == [items : Seq(Items), incomplete : BOOLEAN, has_more : BOOLEAN,
               page_budget_exhausted : BOOLEAN]

ASSUME ListingAssumption ==
  /\ IsFiniteSet(Items) /\ PageSize \in Nat \ {0} /\ PageBudget \in Nat \ {0}
  /\ Wanteds \subseteq Nat /\ Retries \in Nat /\ MaxChanges \in Nat
  /\ None \notin SearchPage /\ Failed \notin SearchPage /\ None # Failed

VARIABLES
  rest,        \* Drive: the matches the next token stands for
  changes,     \* Drive: changes made so far
  wanted,      \* the parameter
  found,       \* items_by_id, in the order of its keys
  pages,       \* pages read
  attempts,    \* attempts at the page asked for that came to nothing
  incomplete,  \* incompleteSearch, of any page so far
  answer,      \* the SearchPage returned, or how else the call ended
  stayed       \* history: what has matched ever since the query

walk == <<rest, wanted, found, pages, attempts, incomplete, answer, stayed>>
vars == <<walk, changes>>

Orders(S) == SetToSeqs(S)

---------------------------------------------------------------------------

\* A query for w items begins while the items of `order` match it.
Ask(w, order) ==
  /\ wanted' = w /\ rest' = order /\ stayed' = ToSet(order)
  /\ found' = <<>> /\ pages' = 0 /\ attempts' = 0
  /\ incomplete' = FALSE /\ answer' = None

Init ==
  /\ \E w \in Wanteds, S \in SUBSET Items : \E order \in Orders(S) :
       /\ wanted = w /\ rest = order /\ stayed = ToSet(order)
  /\ found = <<>> /\ pages = 0 /\ attempts = 0
  /\ incomplete = FALSE /\ answer = None /\ changes = 0

PageLimit == IF wanted = Whole \/ wanted > PageSize THEN PageSize ELSE wanted

\* The page Drive serves: n matches, and perhaps one it has served before.
Served(n) == {SubSeq(rest, 1, n)} \cup
             {<<i>> \o SubSeq(rest, 1, n) : i \in IF n < PageLimit THEN ToSet(found) ELSE {}}

Latest(before, page) == page
Sticky(before, page) == before \/ page

MetEarly(token, n) == token /\ wanted # Whole /\ n + 1 >= wanted
Met(token, n) == token /\ wanted # Whole /\ n >= wanted

TurnIfAny(n, page) == IF page = <<>> THEN n ELSE n + 1
Turn(n, page) == n + 1

NeverSpent(n) == FALSE
BudgetSpent(n) == n = PageBudget

Answer(items, partial, more, exhausted) ==
  [items |-> items, incomplete |-> partial, has_more |-> more, page_budget_exhausted |-> exhausted]

Spent(items, partial) == Answer(items, TRUE, TRUE, TRUE)

\* After a page: the listing is over, or enough is in hand, or the budget is
\* spent, or the loop goes round again.
Resume(items, partial, token) ==
  \/ ~token /\ answer' = Answer(items, partial, FALSE, FALSE)
  \/ Met(token, Len(items)) /\ answer' = Answer(items, partial, TRUE, FALSE)
  \/ token /\ ~Met(token, Len(items)) /\ BudgetSpent(pages') /\ answer' = Spent(items, partial)
  \/ token /\ ~Met(token, Len(items)) /\ ~BudgetSpent(pages') /\ UNCHANGED answer

\* One turn of the loop: Drive serves n more matches and gives up on those of
\* `lost`; the code takes them in and returns or goes on.
FetchPage ==
  /\ answer = None
  /\ \E n \in 0..Len(rest), token, flag \in BOOLEAN :
       \E page \in Served(n), lost \in SUBSET ToSet(SubSeq(rest, n + 1, Len(rest))) :
         /\ n <= PageLimit /\ (lost # {} => flag)
         /\ rest' = Filtered(SubSeq(rest, n + 1, Len(rest)), Items \ lost)
         /\ rest' # <<>> => token
         /\ found' = Absorb(found, page)
         /\ incomplete' = Sticky(incomplete, flag)
         /\ pages' = Turn(pages, page) /\ attempts' = 0
         /\ Resume(found', incomplete', token)
  /\ UNCHANGED <<wanted, stayed, changes>>

\* The attempt, or its answer, is lost, comes too late for the timeout, or finds
\* Drive busy: the client asks for the same page again while it may.
Retry ==
  /\ answer = None /\ attempts < Retries /\ attempts' = attempts + 1
  /\ UNCHANGED <<rest, wanted, found, pages, incomplete, answer, stayed, changes>>

\* Drive refuses the page for good, or the last attempt is lost as well: the
\* call raises, and nothing of the walk is returned.
Fail ==
  /\ answer = None /\ answer' = Failed
  /\ UNCHANGED <<rest, wanted, found, pages, attempts, incomplete, stayed, changes>>

\* Somebody trashes, moves or renames an item out of the query's reach.
Leave(i) ==
  /\ rest' = Filtered(rest, Items \ {i}) /\ stayed' = stayed \ {i}
  /\ UNCHANGED <<wanted, found, pages, attempts, incomplete, answer>>

\* An item comes within reach: Drive serves it if its place is still ahead.
Enter(i) ==
  /\ i \notin ToSet(rest)
  /\ \E k \in 1..Len(rest) + 1 : rest' = InsertAt(rest, k, i)
  /\ UNCHANGED <<wanted, found, pages, attempts, incomplete, answer, stayed>>

Change ==
  /\ answer = None /\ changes < MaxChanges /\ changes' = changes + 1
  /\ \E i \in Items : Leave(i) \/ (i \notin stayed /\ Enter(i))

\* What the thread of the request does.
Run == FetchPage \/ Retry \/ Fail

Next == Run \/ Change

Spec == Init /\ [][Next]_vars

\* Each attempt ends, with an answer or at METADATA_TIMEOUT_SECONDS, and the
\* thread then goes on; the people who change the Drive need not.
FairSpec == Spec /\ WF_vars(Run)

---------------------------------------------------------------------------
(* _require_complete.                                                      *)

BudgetOnly(p) == p.page_budget_exhausted
EnumerationBudgetExceeded(p) == p.page_budget_exhausted \/ p.incomplete

---------------------------------------------------------------------------
(* Properties.                                                             *)

Returned == answer \notin {None, Failed}

TypeOK ==
  /\ rest \in Seq(Items) /\ found \in Seq(Items) /\ changes \in 0..MaxChanges
  /\ wanted \in Wanteds /\ pages \in 0..PageBudget /\ attempts \in 0..Retries
  /\ incomplete \in BOOLEAN
  /\ answer \in SearchPage \cup {None, Failed} /\ stayed \in SUBSET Items

\* drive.py:420-440: a folder map, a listing or a census is never built on a
\* part of the items: what matched from the first page to the last is in it,
\* or the call raised.
WholeOrRaised ==
  Returned /\ wanted = Whole /\ ~EnumerationBudgetExceeded(answer)
    => stayed \subseteq ToSet(answer.items)

\* drive.py:82-98, :120, :325-328: what a page says of itself can be relied on.
\* One that claims neither to be incomplete nor to have more behind it holds
\* every item that matched all along; one with fewer distinct items than asked
\* for says that there are no more, or that the view is incomplete.
FlagsAreTrue ==
  Returned /\ ~answer.incomplete =>
    /\ ~answer.has_more => stayed \subseteq ToSet(answer.items)
    /\ answer.has_more /\ wanted # Whole =>
         Len(answer.items) >= wanted /\ IsInjective(answer.items)

\* drive.py:40-46, :276, :367: a listing ends, however many of its requests are
\* lost and however many empty pages with a token Drive serves: the attempts at
\* a page and the pages of a walk are both limited.
WalkEnds == answer = None ~> answer # None
=============================================================================
