------------------------------ MODULE HitLists ------------------------------
(***************************************************************************)
(* Lists of hits without state: how pages are taken into one list, and how  *)
(* the lists of several batches become one (_interleave_by_rank).           *)
(***************************************************************************)
EXTENDS Filtering, SequencesExt

\* setdefault: an item seen before changes nothing.
Absorb(items, page) == items \o Filtered(page, ToSet(page) \ ToSet(items))

First(hits, n) == SubSeq(hits, 1, IF Len(hits) < n THEN Len(hits) ELSE n)

\* Every hit in the order of its position, and at one position of its batch.
ByPosition(batches) ==
  FlattenSeq([p \in 1..Max({Len(batches[b]) : b \in DOMAIN batches} \cup {0}) |->
    FlattenSeq([b \in DOMAIN batches |->
      IF p <= Len(batches[b]) THEN <<batches[b][p]>> ELSE <<>>])])

\* The first sighting of an item wins.
Distinct(hits) ==
  LET seen[n \in 0..Len(hits)] == IF n = 0 THEN <<>> ELSE Absorb(seen[n - 1], <<hits[n]>>)
  IN  seen[Len(hits)]

BatchAfterBatch(batches) == Distinct(FlattenSeq(batches))
InterleaveByRank(batches) == Distinct(ByPosition(batches))
=============================================================================
