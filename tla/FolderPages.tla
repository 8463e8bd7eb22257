----------------------------- MODULE FolderPages -----------------------------
(***************************************************************************)
(* DocumentService.list_folder: a caller pages through a folder, passing    *)
(* back the cursor of the page before, while people put items into the      *)
(* folder, take them out and rename them.  Nothing is kept between pages:   *)
(* every page lists the folder again, and the cursor is a position in it.   *)
(*                                                                         *)
(* The proof that the folder is in the corpus is ScopedDrive's, the walk    *)
(* over Drive's own pages DriveListing's; here the listing is read at one   *)
(* instant, in the order of the items' names.                               *)
(***************************************************************************)
EXTENDS Filtering, SequencesExt

CONSTANTS
  Items,       \* what may be in the folder
  Unsafe,      \* shortcuts, items with two parents or of another location
  Limits,      \* the limits a caller passes
  MaxChanges,  \* bound on the changes to the folder
  MaxPages,    \* bound on the calls of a run
  None         \* no cursor, no listing

ASSUME PagesAssumption ==
  /\ IsFiniteSet(Items) /\ Unsafe \subseteq Items /\ Limits \subseteq Nat \ {0}
  /\ MaxChanges \in Nat /\ MaxPages \in Nat /\ None \notin Nat \cup Seq(Items)

VARIABLES
  children,  \* Drive: the items in the folder, in the order of their names
  changes,
  cursor,    \* the cursor the caller holds: an offset, or None
  limit,     \* the parameter
  items,     \* the locals of the call: what scoped_drive.list_folder returned
  pc,        \* "idle", "listing", "listed"; "over" after the last page, and
             \* "stale" after InvalidCursor
  pages,     \* the pages so far
  stayed,    \* history: what has been in the folder, under its name, since
             \* the first page was read
  left, came \* history: how often an item went from, or came to, its place

vars == <<children, changes, cursor, limit, items, pc, pages, stayed, left, came>>

Init ==
  /\ \E S \in SUBSET Items : children \in SetToSeqs(S)
  /\ changes = 0 /\ cursor = None /\ limit \in Limits /\ items = None /\ pc = "idle"
  /\ pages = <<>> /\ stayed = ToSet(children) /\ left = 0 /\ came = 0

---------------------------------------------------------------------------

\* A call for the next page, with any limit.
Call(l) ==
  /\ pc = "idle" /\ Len(pages) < MaxPages
  /\ limit' = l /\ pc' = "listing"
  /\ UNCHANGED <<children, changes, cursor, items, pages, stayed, left, came>>

\* _is_direct_safe_child.
AllChildren(s) == s
SafeChildren(s) == Filtered(s, Items \ Unsafe)

\* Drive lists the folder.  What it is before the first page does not matter.
ListChildren ==
  /\ pc = "listing" /\ items' = SafeChildren(children) /\ pc' = "listed"
  /\ IF pages = <<>> THEN stayed' = ToSet(children) /\ left' = 0 /\ came' = 0
                     ELSE UNCHANGED <<stayed, left, came>>
  /\ UNCHANGED <<children, changes, cursor, limit, pages>>

\* The folder is refused, or Drive fails: the caller may ask again.
Fail ==
  /\ pc = "listing" /\ pc' = "idle"
  /\ UNCHANGED <<children, changes, cursor, limit, items, pages, stayed, left, came>>

AfterCursor(c) == IF c = None THEN 0 ELSE c + 1
BeforeCursor(c) == IF c = None \/ c = 0 THEN 0 ELSE c - 1
Start(c) == IF c = None THEN 0 ELSE c

Lower(m, n) == IF m < n THEN m ELSE n
End(start) == Lower(start + limit, Len(items))

AtLeastAsMany(start) == start >= Len(items)
Outside(start) == start > Len(items)

NextCursor(end) == IF end < Len(items) THEN end ELSE None

\* The page is cut from the listing.
GivePage ==
  LET start == Start(cursor) IN
  /\ pc = "listed" /\ items' = None
  /\ \/ /\ Outside(start) /\ pc' = "stale" /\ UNCHANGED <<cursor, pages>>
     \/ /\ ~Outside(start)
        /\ pages' = Append(pages, SubSeq(items, start + 1, End(start)))
        /\ cursor' = NextCursor(End(start))
        /\ pc' = IF cursor' = None THEN "over" ELSE "idle"
  /\ UNCHANGED <<children, changes, limit, stayed, left, came>>

---------------------------------------------------------------------------
(* The people who share the folder.                                        *)

Changing == pc \in {"idle", "listing", "listed"} /\ changes < MaxChanges /\ changes' = changes + 1

Leave(i) ==
  /\ Changing /\ i \in ToSet(children)
  /\ children' = Filtered(children, Items \ {i})
  /\ stayed' = stayed \ {i} /\ left' = left + 1
  /\ UNCHANGED <<cursor, limit, items, pc, pages, came>>

Enter(i) ==
  /\ Changing /\ i \notin ToSet(children)
  /\ \E k \in 1..Len(children) + 1 : children' = InsertAt(children, k, i)
  /\ came' = came + 1
  /\ UNCHANGED <<cursor, limit, items, pc, pages, stayed, left>>

Rename(i) ==
  /\ Changing /\ i \in ToSet(children)
  /\ \E k \in 1..Len(children) :
       children' = InsertAt(Filtered(children, Items \ {i}), k, i)
  /\ stayed' = stayed \ {i} /\ left' = left + 1 /\ came' = came + 1
  /\ UNCHANGED <<cursor, limit, items, pc, pages>>

Next ==
  \/ \E l \in Limits : Call(l)
  \/ ListChildren
  \/ Fail
  \/ GivePage
  \/ \E i \in Items : Leave(i) \/ Enter(i) \/ Rename(i)

Spec == Init /\ [][Next]_vars

---------------------------------------------------------------------------
(* Properties.                                                             *)

Given == FlattenSeq(pages)

TypeOK ==
  /\ IsInjective(children) /\ ToSet(children) \subseteq Items
  /\ cursor \in Nat \cup {None} /\ limit \in Limits
  /\ items # None => ToSet(items) \subseteq Items \ Unsafe
  /\ pc \in {"idle", "listing", "listed", "over", "stale"}
  /\ \A n \in DOMAIN pages : ToSet(pages[n]) \subseteq Items \ Unsafe

\* documents.py:119-124: the price of a cursor that is a position in a listing
\* read anew.  What has been in the folder all along is missing from the pages
\* only as often as something before it left: pages over a folder that only
\* grows leave nothing out.
SkippedAtMostLeft ==
  pc = "over" => Cardinality((stayed \ Unsafe) \ ToSet(Given)) <= left

\* ... and an item comes twice only as often as something came in before it.
RepeatedAtMostCame == Len(Given) - Cardinality(ToSet(Given)) <= came

\* documents.py:121-124: a cursor is issued only while there is more, so the
\* caller is told InvalidCursor only if two items left since; losing the rest
\* of the folder ends the listing with an empty page.
StaleMeansTwoLeft == pc = "stale" => left >= 2
=============================================================================
