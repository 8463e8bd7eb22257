------------------------------- MODULE Corpus -------------------------------
(***************************************************************************)
(* take_census and derive_cases: both take the folder map once and walk the *)
(* documents below it, batch of folders after batch, while people move      *)
(* documents.  The census counts what it is given; derive_cases chooses     *)
(* documents by size, verifies each by a search and a read, and             *)
(* evaluate_retrieval and the benchmark later run the cases it kept.       *)
(*                                                                         *)
(* A batch is listed at one instant, whole or with an error, as DriveListing *)
(* shows; a search shows the first matches of the corpus in Drive's order,  *)
(* as Search shows.  Names that Benchmark has as well begin with Corpus.    *)
(***************************************************************************)
EXTENDS Integers, HitLists

CONSTANTS
  Items,        \* the documents
  Type,         \* the MIME type of each
  Supported,    \* the types an extractor claims
  Size,         \* the place of each in the order of _Candidate: size, name, ...
  Keyword,      \* _keyword of each: the longest word of its name, or Nothing
  Unreadable,   \* those whose read is refused: scans, corrupt, too large
  Path,         \* relative_path of each, by the folder it lies in
  Within,       \* <<p, q>>: the path q contains p, the case of the letters aside
  FolderIds,    \* the folders of the map, in its order
  Elsewhere,    \* any folder outside the map
  Rankings,     \* the orders a search may rank the documents in
  Homes,        \* the parents each document may begin with
  Places,       \* the parents documents are given later
  BatchSize,    \* PARENT_BATCH_SIZE
  VerifyLimit,  \* VERIFY_LIMIT
  Wanteds,      \* the numbers of cases asked for, up to MAX_CASES
  MaxMoves,     \* bound on the moves
  Nothing       \* no keyword, no document

VARIABLES
  place,     \* Drive: the parents of each document
  ranking,   \* Drive: the documents in the order a search ranks them
  moved,     \* history: the documents moved, one after another
  op, wanted,  \* the call and its parameter
  stage,     \* what the call does next
  offset,    \* how far the loop over the folders is
  lists,     \* history: how many batches were listed
  counts,    \* mime_counts
  candidates,  \* candidates_by_type, not yet grouped
  todo,      \* the candidates still to try
  trying,    \* the candidate a search has found
  asOf,      \* history: how many moves there were before that search
  skipped,   \* history: documents whose read failed though they read
  derived,   \* the cases, each with the moves before its verification
  outcomes   \* what evaluate_retrieval and _run_case make of them

census == <<offset, lists, counts, candidates>>
drive == <<place, ranking, moved>>
choice == <<todo, trying, asOf, skipped, derived>>
corpusVars == <<drive, op, wanted, stage, census, choice, outcomes>>

Types == {Type[i] : i \in Items}
Folders == ToSet(FolderIds)
Parents == Seq(Folders \cup {Elsewhere}) \ {<<>>}

ASSUME CorpusAssumption ==
  /\ IsFiniteSet(Items) /\ Nothing \notin Items
  /\ IsInjective(FolderIds) /\ FolderIds \in Seq(Folders) /\ Elsewhere \notin Folders
  /\ BatchSize \in Nat \ {0} /\ VerifyLimit \in Nat \ {0} /\ MaxMoves \in Nat
  /\ Wanteds \subseteq Nat \ {0} /\ Size \in [Items -> Nat] /\ IsInjective(Size)
  /\ Rankings \subseteq SetToSeqs({i \in Items : Keyword[i] # Nothing})
  /\ \A i \in Items : DOMAIN Path[i] = Folders
  /\ Places \subseteq Parents /\ \A i \in Items : Homes[i] \subseteq Parents

CorpusInit ==
  /\ place \in {p \in [Items -> UNION {Homes[i] : i \in Items}] : \A i \in Items : p[i] \in Homes[i]}
  /\ ranking \in Rankings
  /\ moved = <<>>
  /\ op \in {"census", "derive"} /\ wanted \in Wanteds /\ stage = "walking"
  /\ offset = 0 /\ lists = 0 /\ counts = [t \in Types |-> 0] /\ candidates = {}
  /\ todo = {} /\ trying = Nothing /\ asOf = 0 /\ skipped = {} /\ derived = <<>> /\ outcomes = <<>>

---------------------------------------------------------------------------
(* Drive and the boundary, at one instant.                                 *)

\* search_batches: folders in batches, rounded up.
SearchBatches == (Len(FolderIds) + BatchSize - 1) \div BatchSize
BatchAt(n) == {FolderIds[k] : k \in {k \in DOMAIN FolderIds : n < k /\ k <= n + BatchSize}}
Batch(b) == BatchAt(BatchSize * (b - 1))

\* list_descendants: no check of the boundary, so that an item with a parent
\* outside the map, or one in each of two batches, is listed all the same.
Listed(folders) == {i \in Items : ToSet(place[i]) \cap folders # {}}

\* What a search shows and a read authorizes: one parent, and in the map.
Safe(i) == Len(place[i]) = 1 /\ place[i][1] \in Folders
Reads(i) == Safe(i) /\ i \notin Unreadable /\ Type[i] \in Supported

\* ScopedDrive.search, as module Search has it: the first of each batch, those
\* that are safe, merged.
Matching(word, folders) == {i \in Listed(folders) : Keyword[i] = word}
BatchHits(word, folders, n) ==
  Filtered(First(Filtered(ranking, Matching(word, folders)), n), {i \in Items : Safe(i)})
Hits(word, limit) ==
  First(InterleaveByRank([b \in 1..SearchBatches |-> BatchHits(word, Batch(b), limit + 1)]), limit)

\* The paths of the results of a search, all in the map, and that of a document
\* in the folder home.  Drive lets two documents of a folder have one name.
PathNow(j) == Path[j][place[j][1]]
SamePath(j, i, home) == PathNow(j) = Path[i][home]
PathContains(j, i, home) == SamePath(j, i, home) \/ <<Path[i][home], PathNow(j)>> \in Within
Alone(i, home) == \A j \in Items \ {i} : Safe(j) => ~PathContains(j, i, home)

---------------------------------------------------------------------------
(* The walk.                                                               *)

Overlapping(n) == n + 1
NextOffset(n) == n + BatchSize

AddUp(listed) ==
  counts' = [t \in Types |-> counts[t] + Cardinality({i \in listed : Type[i] = t})]

\* A candidate has a type that can be read and its first parent in the map.  A
\* document that two batches list is two candidates.
Candidate(i) == Type[i] \in Supported /\ place[i][1] \in Folders
Gather(listed) ==
  candidates' = candidates \cup
    {[item |-> i, home |-> place[i][1], batch |-> lists] : i \in {j \in listed : Candidate(j)}}

ListBatch ==
  /\ stage = "walking" /\ offset < Len(FolderIds)
  /\ offset' = NextOffset(offset) /\ lists' = lists + 1
  /\ \/ op = "census" /\ AddUp(Listed(BatchAt(offset))) /\ UNCHANGED candidates
     \/ op = "derive" /\ Gather(Listed(BatchAt(offset))) /\ UNCHANGED counts
  /\ UNCHANGED <<drive, op, wanted, stage, choice, outcomes>>

\* The walk is over: the census is taken, or the choice begins.
Walked ==
  /\ stage = "walking" /\ offset >= Len(FolderIds)
  /\ \/ op = "census" /\ stage' = "done" /\ UNCHANGED todo
     \/ op = "derive" /\ stage' = "choosing" /\ todo' = candidates
  /\ UNCHANGED <<drive, op, wanted, census, trying, asOf, skipped, derived, outcomes>>

---------------------------------------------------------------------------
(* The choice.                                                             *)

Alike(c, d) == Type[c.item] = Type[d.item]
Smallest(c, d) == Size[c.item] < Size[d.item]
Larger(c, d) == Size[c.item] > Size[d.item]

\* Types in the order of their largest document; within a type, largest first.
TriedBefore(c, d) ==
  IF Alike(c, d) THEN Larger(c, d)
  ELSE \E e \in candidates : Alike(e, c) /\ \A f \in candidates : Alike(f, d) => Larger(e, f)
Foremost == {c \in todo : \A d \in todo : ~TriedBefore(d, c)}

AllTried == todo = {}
Enough == todo = {} \/ Len(derived) = wanted

\* The candidate will not do: the next of its type, or the next type.
Drop(c) == todo' = todo \ {c}

\* _verified_case: its keyword finds its path, and then it is read.
Finds(c) == /\ Keyword[c.item] # Nothing
            /\ \E j \in ToSet(Hits(Keyword[c.item], VerifyLimit)) : SamePath(j, c.item, c.home)

Search ==
  /\ stage = "choosing" /\ ~Enough
  /\ \E c \in Foremost :
       LET found == Finds(c) IN
       \/ /\ found /\ stage' = "reading" /\ trying' = c /\ asOf' = Len(moved)
          /\ UNCHANGED todo
       \/ ~found /\ Drop(c) /\ UNCHANGED <<stage, trying, asOf>>
  /\ UNCHANGED <<drive, op, wanted, census, skipped, derived, outcomes>>

FewerHits == 1
CaseLimit == VerifyLimit

\* A read that fails for any reason is taken for a document that does not read.
Read ==
  /\ stage = "reading" /\ stage' = "choosing" /\ trying' = Nothing
  /\ \/ /\ Reads(trying.item) /\ todo' = {d \in todo : ~Alike(d, trying)} /\ UNCHANGED skipped
        /\ derived' = Append(derived, [item |-> trying.item, home |-> trying.home,
                                 limit |-> CaseLimit, moves |-> asOf])
     \/ /\ Drop(trying) /\ UNCHANGED derived
        /\ skipped' = IF Reads(trying.item) THEN skipped \cup {trying.item} ELSE skipped
  /\ UNCHANGED <<drive, op, wanted, census, asOf, outcomes>>

Chosen ==
  /\ stage = "choosing" /\ Enough /\ stage' = "done"
  /\ UNCHANGED <<drive, op, wanted, census, choice, outcomes>>

\* Drive refuses a listing or a search: the call raises.
Refused ==
  /\ stage \in {"walking", "choosing"} /\ stage' = "failed"
  /\ UNCHANGED <<drive, op, wanted, census, choice, outcomes>>

---------------------------------------------------------------------------
(* The cases are run.                                                      *)

Sources(c) ==
  LET hits == Hits(Keyword[c.item], c.limit)
  IN  Filtered(hits, {j \in ToSet(hits) : PathContains(j, c.item, c.home)})

\* _find_source: the first result whose path contains the expected one.
FindSource(sources) == IF sources = <<>> THEN Nothing ELSE Head(sources)

\* evaluate_retrieval has the case passed if any result matches; _run_case reads
\* the first that does.
Evaluate ==
  /\ stage = "done" /\ Len(outcomes) < Len(derived)
  /\ LET c == derived[Len(outcomes) + 1]
         sources == Sources(c)
         source == FindSource(sources)
     IN  outcomes' = Append(outcomes,
           [passed |-> sources # <<>>, source |-> source, moved |-> Len(moved) # c.moves,
            alone |-> Alone(c.item, c.home), reads |-> source # Nothing /\ Reads(source)])
  /\ UNCHANGED <<drive, op, wanted, stage, census, choice>>

\* Somebody gives a document other parents.
Move(i, parents) ==
  /\ stage # "failed" /\ Len(moved) < MaxMoves /\ parents # place[i]
  /\ place' = [place EXCEPT ![i] = parents] /\ moved' = Append(moved, i)
  /\ UNCHANGED <<ranking, op, wanted, stage, census, choice, outcomes>>

CorpusNext ==
  \/ ListBatch \/ Walked \/ Search \/ Read \/ Chosen \/ Refused \/ Evaluate
  \/ \E i \in Items, parents \in Places : Move(i, parents)

CorpusSpec == CorpusInit /\ [][CorpusNext]_corpusVars

---------------------------------------------------------------------------
(* Properties.                                                             *)

Case == [item : Items, home : Folders, limit : Nat, moves : Nat]
Outcome == [passed : BOOLEAN, source : Items \cup {Nothing}, reads : BOOLEAN,
            moved : BOOLEAN,   \* history: something was moved since the case was verified
            alone : BOOLEAN]   \* history: the path of no other document contains its path

CorpusTypeOK ==
  /\ place \in [Items -> Parents] /\ ranking \in Rankings
  /\ moved \in Seq(Items) /\ Len(moved) <= MaxMoves
  /\ op \in {"census", "derive"} /\ wanted \in Wanteds
  /\ stage \in {"walking", "choosing", "reading", "done", "failed"}
  /\ lists \in 0..SearchBatches /\ offset = lists * BatchSize /\ counts \in [Types -> Nat]
  /\ candidates \subseteq [item : Items, home : Folders, batch : Nat]
  /\ skipped \subseteq Items /\ asOf \in 0..Len(moved)
  /\ todo \subseteq candidates /\ (stage = "reading" => trying \in todo)
  /\ derived \in Seq(Case) /\ Len(derived) <= wanted
  /\ outcomes \in Seq(Outcome) /\ Len(outcomes) <= Len(derived)

\* census.py:46-77: the census lists as many batches as it says a search costs,
\* and counts every document once a batch of its parents.  What moves between
\* two batches can be missed or counted again, but it is never off by more than
\* the moves account for.
Rows(t, n) == {r \in Items \X (1..n) : Type[r[1]] = t /\ r[1] \in Listed(Batch(r[2]))}
Astray(t) == Len(Filtered(moved, {i \in Items : Type[i] = t})) * SearchBatches
CensusIsNear ==
  stage = "done" /\ op = "census" =>
    /\ lists = SearchBatches
    /\ \A t \in Types : LET there == Cardinality(Rows(t, SearchBatches))
                      IN  counts[t] <= there + Astray(t) /\ there <= counts[t] + Astray(t)

\* A document that could be a case from beginning to end, wherever the others
\* were moved: so far ahead in the ranking that every search shows it.
InFront(i) == {j \in Items : Keyword[j] = Keyword[i] /\
                 \E m, n \in DOMAIN ranking : m < n /\ ranking[m] = j /\ ranking[n] = i}
Sure(i) ==
  /\ i \notin ToSet(moved) /\ Reads(i) /\ Keyword[i] # Nothing
  /\ (Cardinality(InFront(i)) + 1) * SearchBatches <= VerifyLimit

\* evaluation.py:73-121, evaluation/README.md:20: one case a type, the largest
\* document that is found and reads; when there are more types than cases are
\* wanted, those with the largest documents.  No document that could have been a
\* case is passed over for a smaller one, unless its read failed.
LargestOfEach ==
  stage = "done" /\ op = "derive" =>
    /\ \A k, l \in DOMAIN derived : Type[derived[k].item] = Type[derived[l].item] => k = l
    /\ \A i \in Items \ skipped : Sure(i) =>
         \/ \E c \in ToSet(derived) : Type[c.item] = Type[i] /\ Size[c.item] >= Size[i]
         \/ /\ Len(derived) = wanted
            /\ \A c \in ToSet(derived) : \E d \in candidates : Alike(d, c) /\ Size[d.item] > Size[i]

\* evaluation.py:27-30, :78-86: a case that was kept passes when it is run over
\* the same corpus.  And unless the path of another document of the corpus, in
\* whatever folder, contains its path, the document the benchmark then reads is
\* the one that was verified.
DerivedCasesPass ==
  \A k \in DOMAIN outcomes :
    ~outcomes[k].moved =>
      /\ outcomes[k].passed
      /\ outcomes[k].alone => outcomes[k].source = derived[k].item /\ outcomes[k].reads
=============================================================================
