# gdrive-scoped in TLA+

gdrive-scoped gives a model or a service read access to one folder of Google
Drive and nothing else. Drive itself cannot express that boundary; the library
enforces it, over a Drive that other people change at any moment, with answers
that are already old when they arrive. This directory holds TLA+ models of that
library, TLC runs that check them on small instances, and proofs, checked by
TLAPS, of nearly every safety property the runs check, for instances of every size.

Paths such as `scope.py:298` are below `src/gdrive_scoped/` of the repository.

## The system

| part | state | operations | what makes it hard | what makes it correct |
|---|---|---|---|---|
| **Scoped Drive** `scope.py`, `location.py` | the measured location; the folder map, its expiry, its generation; the refresh lock | `initialize`, `get_metadata`, `authorize_document`, `folder_paths`, `list_folder`, `search`, `download` | several calls in one event loop, each suspended at every await on Drive; a map other calls share; a lock that is awaited; a clock | an allowed item was inside, within the declared window; a denial is true; enumerations never overlap and never multiply; every call ends |
| **Gateway** `drive.py` | none between calls; within one, the items and flags so far | `get_item`, `list_*`, `search_items`, downloads | pages read at different instants, cut short, repeated, incomplete; a page budget | a listing is whole or an error; a search says what it did not see |
| **Document Service** `documents.py` | the cache of parsed documents | `search_documents`, `list_folder`, `get_metadata`, `read_document` | edits between proof, download and store; cursors that are positions in something that changes; two limits and a preference for the end of a chunk | nothing stale, nothing unproven, nothing skipped |
| **Extractors** `extractors/` | none between calls | one function a format | HTML is a stream of tags: nesting is a counter | all the reader's text, none of the browser's |
| **Benchmark** `bench/benchmark*.py` | the cases file, the reports | `run_benchmark`, `compare_benchmarks` | files from one benchmark decide the next; either can stop midway | a gate that held has compared everything |
| **Evaluation cases** `bench/evaluation.py` | within one call, the candidates and the cases kept | `derive_cases`, `evaluate_retrieval` | a walk, then searches and reads, over documents that move; a source found by a part of its path | the largest of each type; a case kept is a case that passes |
| **Census** `census.py` | within one call, the counts | `take_census` | batch after batch while documents move | every document counted once a batch of its parents, but for the moves |
| **Credentials, settings, errors** | none that changes | built at start | - | - |
| **MCP adapter, scripts** (`examples/`, `scripts/`) | none | one call of the service a tool | - | `initialize` once, before serving |

The census and the derivation of cases take the folder map of Scoped Drive once and
walk its documents; the derivation then searches and reads through the Document Service.
A call of the Document Service calls Scoped Drive for a proof; Scoped Drive calls
the gateway for the item and, when it has no valid map, for the root and for all
folders; the gateway calls Drive in a worker thread. Calls share the folder map
(through `_refresh_lock`), the parsed documents and the location, nothing else.
Everything between two awaits happens in one step of the event loop.

## The modules

| module | models | checked by | proofs |
|---|---|---|---|
| `ScopedDrive` | the boundary: authorization, map, lock, enumeration | `ScopedDrive.cfg`, `ScopedDriveOdd.cfg`, `ScopedDriveDenial.cfg` (`MCScopedDrive`) | `ScopedDriveProofs` |
| `Filtering` | a loop that keeps what belongs to a set: an operator without state | where it is used | `ListFacts` |
| `HitLists` | pages taken into one list, and `_interleave_by_rank`: operators without state | where it is used | `ListFacts` |
| `DriveListing` | `_list_items` with its retries, `_require_complete` | `DriveListing.cfg` | `SearchProofs` |
| `Search` | `ScopedDrive.search`; it extends `DriveListing`, whose walk is that of each batch | `Search.cfg` | `SearchProofs` |
| `DocumentReads` | `read_document`, its cache, and readers who follow the cursors | `DocumentReads.cfg` | `DocumentReadsProofs` |
| `TextStream` | what is promised of the chunks, without cursors, limits or loop: the abstract specification of `ReadChunks` | as a property, by `ReadChunks.cfg` | `ReadChunksProofs` |
| `ReadChunks` | `_read_chunk` and its cursors | `ReadChunks.cfg` | `ReadChunksProofs` |
| `FolderPages` | `DocumentService.list_folder` | `FolderPages.cfg` | `FolderPagesProofs` |
| `HtmlText` | the HTML extractor | `HtmlText.cfg`, `HtmlTextVoid.cfg` | `HtmlTextProofs` |
| `Benchmark` | `run_benchmark`, its files and its gate | `Benchmark.cfg` | `BenchmarkProofs` |
| `Corpus` | `take_census`, `derive_cases`, `evaluate_retrieval` | `Corpus.cfg` | `BenchmarkProofs` |

`ListFacts` has what the proofs need of finite lists and sets and the prover's library does not
say: what filtering, flattening, cutting in two and folding do to a list; and what follows for the
lists of hits that searches merge.

Every `MC` module only gives values and symmetry sets to the constants of the
module it extends. Beside each definition that a run breaks on purpose stands
the form that breaks it (`ExpiryFromNow` beside `ExpiryOf`, ...): a plausible bug
at that line, which the property named in `PROJECT.json` must detect.

### ScopedDrive

A search asks for no item first: it takes the folder map and keeps it (`known` is
`folder_paths`) while its batches run and the map expires or is replaced. The module has
one hit of it, which is all that the age of a hit depends on; batches, ranks and flags are in
`Search`.

A *task* is one call of a host. Its record holds the coroutine's locals: `reply`
is Drive's answer, `parent` is `item.parents[0]`, `retry` is `reused_map`, `seen`
the generation read before the lock, `started` the clock read before the query,
`scan` the pages so far. `pc` names the await it is suspended at:

| `pc` | the await | resumed by |
|---|---|---|
| `item` | `gateway.get_item(item_id)` in `_authorize`, or in `initialize` | `Authorize`, `Initialize` |
| `queued` | `async with self._refresh_lock` | `TakeLock` |
| `root` | `get_item(root)` in `_validated_root` during an enumeration | `CheckRoot` |
| `folders` | `gateway.list_folders()` | `FinishEnumeration` |
| `hits` | `gateway.search_items(...)`, batch after batch, in `search` | `ShowHits` |

Drive answers in a step of its own (`DriveAnswers`, `DriveServesPage`, `DriveFinds`), so anything
can happen between the instant Drive read its state and the instant the
coroutine uses it. The folder query is answered in pages, each an instant of its
own; there is no instant at which a folder map was true as a whole. The lock is
`asyncio.Lock`: first in, first out, taken at once if free with nobody waiting
(`LockFree`), given back however the block is left (`Released`). `UseMap` is what
follows `_folder_map` in each caller, the retry with `refresh=True` included, and is
part of whatever action returned the map. `LookUp` reads the clock twice, as the code does
(`_authorize` asks `_cached_folder_map`, and `_folder_map` asks it again), so the
map can expire between the two. Every await may also raise or be cancelled
(`Fail`, `CancelWaiter`).

People change Drive by `ChangeDrive`: items move, are trashed, leave for another
drive, get a second parent, or answer under another id. `ended` is a history
variable: the last instant an item was in a given folder of a given location.
With it a property can speak of when something was last true. No action's
guard reads it, nor `begun`, `since`, `quiet` or `at` (when a call returned; of a search,
when it was given its map).

Paths are left out: the map is the set of folders it names. That the walk over
`children_by_parent` is a least fixed point is `Reach`, written as an intersection
of closed sets, which proofs can use.

### The other models

*DriveListing* is one query. `rest` is what Drive has still to serve; a page may be
of any size, repeat an item, lose items (then `incompleteSearch` is set) or end in
a token that leads nowhere, while items enter and leave what matches. A request that is lost,
late or refused for a moment is sent again with the same token up to `NUM_RETRIES` times (`Retry`).

*Search* runs one walk a batch of folders, filters, and merges by position. It extends
`DriveListing`: `Run` is the walk of the batch under way, `Ask` begins the next one, and
the names of its own specification begin with `Search`. A folder is known by its batch.

*DocumentReads* has the live read of the item, its place in the folder map, the download and the
parse as separate awaits with edits, moves and folders that leave or come back in between, for several
reads over one `OrderedDict`. The proof is as `_authorize` makes it: the item's parent is of the
instant it was read, the folders above are those of a map up to TTL old (`Place`: a miss, or a map too
old, reads them anew). So a document whose folder has left goes on being served until the
window closes, as ADR 0005 accepts, and one that was moved itself is refused at once. A folder is in `under` or
not: chains, the lock and pages read at different instants are in `ScopedDrive`. A version
stands for the content and for the modification time: edits that leave the
modification time alone are out of the model. Each task is a reader; `reader` is a history
variable that holds the chunks it got by following cursors from the beginning of a
document. Where a chunk ends is any place behind its start, which is what `ReadChunks` shows
of `_read_chunk` (every chunk gets on; the next cursor is where it ended).

*ReadChunks* has documents as blocks of characters of one to four bytes, and one
action a turn of the loop that gives way to the byte ceiling. `TextStream` is what a reader
is promised of it: a text arrives in pieces, none empty, in its order and to its end.
`Stream` is the refinement mapping - the characters of the chunks so far, by their places in the text, and
whether a read came without a cursor - and `StreamsTheText` says that every behaviour of `ReadChunks` is one of
`TextStream`: the turns of the loop are stutters, the end of a read is `Give`.

*FolderPages* pages through a folder that is listed anew for each page.

*HtmlText* feeds `_TextCollector` with tags and text, and keeps beside it what the
page means: the open elements and the lines a reader sees. `Void` and `Slashed` say
which elements are written `<tag>` and `<tag/>`, `Implied` whose end tag may be left out
(`ImpliedEnd`: the element is over, and the collector is told nothing). Any end tag may come anywhere
(`StrayEndTag`), silent ones inside another silent element too; `astray` records that one has.

*Benchmark* runs one benchmark after another over the cases file and two report
paths. A report is reduced to what the gate looks at: the cases, the medians
that exist, whether the source was found, and one option the reports must agree
in (`bound`, standing for all four). `write_text` empties a file before it fills it: a stop in
between leaves it `Torn` (`TearCases`, `TearReport`), and whoever reads it fails.

*Corpus* has the walk over the folder map in batches, the order in which candidates are
tried, the search and the read that verify one, and the cases run later, with moves
of documents between any two of these. `list_descendants` does not check the boundary, so a
document with two parents is listed (once a batch) although nothing would show or read it;
searches are at one instant and show the first matches of a fixed ranking, which is
what `Search` shows of a search that is not incomplete. A name appears only as the word searched for
(`Keyword`), and in the whole path a document has in each folder (`Path`) and which path contains which, the case of
letters aside (`Within`): a source is found by a part of any result's path, so a document of the root can be taken for
one in whatever folder. `Alone` says that no other document's path contains the case's. The candidates are a set: the two sorts of the code
are `TriedBefore`, and `Foremost` what they put first.

## What the runs show

| run | states | what it shows |
|---|---|---|
| `scoped_drive` | 1,910,000 | **TTL 2, two calls or searches at once.** `BoundedStaleness`: an allowed item was in its folder during the call, and each folder above it was in its parent during the call or less than TTL before the answer (before the map was taken, in a search), all in one location. `OneEnumeration`; `MapNeverOlder`: a slow enumeration never replaces a younger map; `EnumeratesForNews`: no query while a valid map answers; `FreshDenialIsTrue`: a denial is no matter of timing, unless an enumeration was already running |
| `scoped_drive_odd` | 725,000 | **TTL 1**, the root as a target, and every odd answer of Drive: the same bound, and `EveryCallReturns`, though calls take each other's maps behind the lock and queue a second time for a retry |
| `drive_listing` | 36,000 | `WholeOrRaised`, `FlagsAreTrue`, `WalkEnds`: whole or an error, flags that mean what they say, and an end however many requests are lost and pages are empty |
| `search` | 642,000 | `SilenceIsEvidence`: neither truncated nor incomplete means nothing that stayed was missed; `TopHits`: limit + 1 a batch suffices for the best hits; `TruncatedTellsTruth`: `truncated` is raised whenever the boundary lets more through than the limit, and without that only if a batch with a hit it drops had more matches than the limit |
| `read_chunks` | 223,000 | `StreamsTheText` (the refinement), `CutIsBest` (the last boundary, else the last character, within both limits), `EveryReadReturns` |
| `document_reads` | 2,602,000 | `NeverStale`; `ServedWithinWindow`: whatever is cached, a document served lay in a folder that was in the corpus during the call or less than TTL before it; `WholeUnlessEdited`: the chunks from the beginning to the end of a document nobody edited are one whole text, though the cache evicted it, another read stored it or attempts failed meanwhile |
| `folder_pages` | 1,241,000 | a caller misses at most as many items as left a place, sees twice at most as many as came, and is told `InvalidCursor` only after two left |
| `html_text` | 172,000 | with end tags for all silent elements: nothing for the reader is lost, blocks stay apart by one blank line at most, and nothing for the browser gets through unless the end tag of a silent element that is not open came first |
| `benchmark` | 1,209,000 | a gate that held compared the same cases under the same bound and found no slower median and no missing source; reports with no removal of the cases file between them have the same cases |
| `corpus` | 403,000 | `CensusIsNear`: counts are off by no more than the moves account for, and the cost of a search is right; `LargestOfEach`: no document that could be a case is passed over for a smaller one; `DerivedCasesPass`: a case kept passes over the same corpus, and is timed on its own document unless the path of another document, in whatever folder, contains its path |

Two runs check what a doc or a comment says, and TLC finds it violated:

* `every_denial`: *a map miss is retried against a fresh map* (ADR 0005). A call that
  had no map and waited for the lock is given the map of the call before. That
  map may have been read before the folder was created, and since `reused_map` was
  false the miss is not retried: a false denial. (`FreshDenialIsTrue` above is
  what remains true.) The denial is on the safe side, and the next call succeeds.
* `html_void`: *HTML to readable text*. `_SILENT` holds `meta` and `link`, which have no
  end tag: `<meta charset="utf-8">` silences the collector and nothing makes it
  speak again, so a page with one in its head has no text.

Disagreements met on the way that need no run to see:

* text for the browser gets through: one counter stands for all of `_SILENT`, and the end tag of any of them lowers
  it (`markup.py:55-57`). In `<noscript></style>hidden</noscript>` or `<head></style>hidden</head>` the text `hidden` is
  taken, though `markup.py:15` has it that this is "not text for a reader". The runs have such pages;
  `BrowserTextIsDropped` is what remains true: only behind such an end tag, and until the page shows again;
* HTML allows a page to leave out `</head>`, and `HTMLParser` does not supply it: such a page has no text, for the reason
  `html_void` shows. With `head` in `Implied`, TLC finds `ReaderTextIsKept` violated in the same way;
* a second `initialize()` keeps the folder map of the first (`scope.py:160-168`), while
  ADR 0011 calls it indistinguishable from a new `ScopedDrive`. With
  `Reinitializes = TRUE` and a root that changes drives, the old map decides for up to TTL;
* `authorize_document` records an allow and then refuses a folder or a file Drive
  will not hand out (`scope.py:256-259`); docs/api.md has one record per allow or refuse;
* a search page that ran out of its budget says `has_more` although the count was
  not met (`drive.py:331-336` against the comment at `drive.py:92-93`);
* where the boundary drops a hit, `truncated` can be raised although everything that may be shown is: `has_more` and
  limit + 1 count it (`scope.py:60-61`, "more items matched than `limit` allowed through"; ADR 0008:56-59 has that
  `truncated` "still tells the truth"). It errs on the safe side, and `TruncatedTellsTruth` says exactly when;
* the second store of one key leaves the entry where it was in the eviction
  order (`documents.py:224`), which `documents.py:187` calls an LRU;
* a chunk ends at the last block boundary inside it although the rest of the
  document would have fitted (`documents.py:273-277`): one read more than needed;
* with one path for output and baseline, the report is written first and then
  compared with itself (`benchmark_cli.py:98-103`): that gate always holds if the
  sources were found. `NothingSlipsBy` and `ExitSaysRegression` except this case;
* the last chunk of a long document is a partial read without the `note` that
  docs/api.md:46 and `documents.py:63-65` have for partial reads (`documents.py:269`);
* ADR 0005:47-48 has a moved item visible for up to the TTL in search results; a search keeps
  the map it was given, so it is the TTL plus the time the search takes. `BoundedStaleness` says so;
* `_execute_sync` promises to map every failure (`drive.py:359`), and `documents.py:219-220`
  rests on it, but only `RefreshError` and `HttpError` are caught: a timeout or a broken
  connection reaches the host unmapped, and `examples/mcp_server.py` translates only `DriveError` and
  `ValueError`. No control flow of the package depends on the kind, so a failure is one step here;
* the size check (`documents.py:204`) is of the version that was proven; a document that
  grows between proof and download is downloaded at any size;
* a verified case can be run on another document: verification compares paths
  for equality (`evaluation.py:78-86`), the benchmark takes the first result whose path
  contains the expected one (`benchmark.py:344-349`), in whatever folder: `notes.md.zip` contains
  `notes.md`, and so does `archive/notes.md`. `DerivedCasesPass` has the condition;
* in `derive_cases` a Drive error in the read that verifies drops the candidate for the next
  smaller one, one in the search ends the derivation (`evaluation.py:131-151`). `LargestOfEach` has the
  exception (`skipped`);
* the census counts documents with two parents, which searches do not show and reads refuse,
  and counts them once a batch of their parents.

### Bounds, and why they are enough

* `ScopedDrive.cfg`: two tasks, three calls, the root and two folders, one document, two
  changes, clock 0..2, TTL 2. Two tasks are enough for one to enumerate while
  the other waits, retries, coalesces or fails; three calls, for a call that uses the map
  another has left. Two folders are the least with a chain (root > a > b) whose
  pages can be read at different instants; two changes let a chain be read torn. With TTL 2
  a map read at 0 is used at 1 on evidence older than the call, and has expired at 2; with
  TTL 1 a valid map would always have been read at the instant of its use.
* `ScopedDriveOdd.cfg`: one folder, one change, four calls, clock 0..1, TTL 1. What is asked there
  is each odd answer and each way a call can end. With four calls a map can be built, looked in in vain, and asked for
  anew behind another call; with TTL 0 no map would ever be valid, nothing would coalesce and nothing be
  retried, so that `EveryCallReturns` would say little. That 0 closes the window (`scope.py:129`) is an instance of the
  theorem `StalenessBound`, which is for every TTL.
* `DriveListing.cfg`: three items, pages of two, three pages, two retries, two changes: a
  repeated item, a short page, an empty one and an exhausted budget all occur.
* `Search.cfg`: three safe items and one that is filtered, two batches, limits 1 and 2, and so
  two or three hits asked of each. `TopHits` is about searches in which nothing is dropped
  (a hit that is dropped can leave a batch with fewer than the limit, ADR 0008:56-59);
  `TruncatedTellsTruth` is about all that nothing disturbs.
* `ReadChunks.cfg`: documents of up to nine characters of width 1 or 4, ceiling 7,
  limits 1, 4 and 8: windows over either limit, over both, under both.
* `DocumentReads.cfg`: a cache of one, so that every second key evicts; two readers, five
  calls, two changes, one folder at TTL 1, so that a map kept can be younger or older than the folder's leaving; a document of one or two characters as it is edited, and one without text,
  too large and ordinary in turn.
* `FolderPages.cfg`: five items, pages of one or two, three changes.
* `HtmlText.cfg`: seven tags or texts, enough for a silent element nested in
  another, with text after both, and for three blocks. The silent elements are one written with
  both tags, one that `HTMLParser` does not look into, and one written `<tag/>`; an inline element has its end tag implied.
* `Benchmark.cfg`: two benchmarks, one removal: the second finds all the first can leave, torn
  files among it. The latencies are two positive ones: a median of zero in the baseline is covered by the theorem, which is for
  any set of numbers.
* `Corpus.cfg`: three folders in batches of two; six documents of three types, among them a
  scan, one without a keyword, one of a type nobody extracts, two of one type that could both be
  cases, and documents whose path contains another's, in the same folder or a different one; one or two cases
  wanted, verified among two hits; two moves, so that a document can leave a batch and come back in another.
  `CensusIsNear` is exact when nothing moves; with moves its bound is loose, one count for each batch a move.

Symmetry is used for tasks, items, cases and paths where only safety is checked and no
constant tells them apart; `ScopedDriveOdd.cfg` and `ReadChunks.cfg`, which check
liveness, use none. Deadlock is not checked: every bound on calls, changes and
time ends in a state where nothing is left to do.

### Fairness

`ScopedDrive`: weak fairness of each task's own progress (`Progress`). The event loop
runs every callback that is ready, and an await on Drive ends because every
request has an HTTP timeout (30 s for metadata) after which it raises. Nothing is
assumed of the people who change Drive, of hosts, of failures or of the clock.
`DriveListing`: weak fairness of the thread that runs the walk (`Run`). Each attempt ends with
an answer or at the same timeout, and then the code goes on; Drive may lose every
request and serve only empty pages with tokens, and the walk still ends at `Retries` and `PageBudget`.
`ReadChunks`: weak fairness of the loop, which is plain sequential code; readers
need not go on. No other liveness is claimed.

## What is proved

`ScopedDriveProofs`, for any sets of tasks, items, folders, locations, starts and moves, any
TTL and any bounds, from `ScopeAssumption` (the constants have the types they
should; folders and shortcuts are items and different; `None` is none of them):

* `TypeCorrect`: `Spec => []TypeOK`.
* `MutualExclusion`: `Spec => []OneEnumeration`. Inductive together with `TypeOK`: it
  says both that an enumerating task holds the lock and that the holder
  enumerates, and each action that enters or leaves the block is looked at.
* `StalenessBound`: `~Reinitializes => (Spec => []BoundedStaleness)`, the promise of ADR 0005.

`BoundedStaleness` speaks of calls that have returned and is far from inductive. The
invariant `IInv` carries the evidence along the way it takes:

1. `HistoryInv`: no `ended` lies in the future.
2. `InitializedOnce`: the location is measured once; with `~Reinitializes` it does not change while a
   map or an enumeration depends on it.
3. `TaskInv`: a call past its live check has seen its item in its folder since it began
   (`ItemHeld`); an enumerating call has, in every row of `scan` it may follow, a pair that
   held since `started`; a returned call's result rests on such evidence (`Rests`).
4. `MapInv`: the folders of the stored map are reachable over pairs that held
   since `expiry - TTL`, the instant its query began.

A map in use is valid, so `now < expiry`, and the pairs it rests on held less than
TTL ago; `FinishEnumeration` turns 3 into 4, and `MapUsed` 4 into 3. Changes
of Drive only make `LastPlaced` grow (`StepHistory`), reachability grows with its edges
(`ReachMonotone`, `HeldMonotone`), so evidence once gathered is never lost
(`TaskInvStable`). The condition `~Reinitializes` is needed: a second `initialize` changes the
location under a stored map, which is the divergence listed above.

Of the map, also in `ScopedDriveProofs`, with no condition on `initialize`:

* `MapOnlyGetsYounger`: `Spec => MapNeverOlder`. The invariant is `AgeInv`: the expiry in store is at
  most TTL after the clock, and at most TTL after the start of an enumeration
  under way. `OneEnumeration` is what makes it inductive: when an
  enumeration stores its map, no other is under way for which that map would be too young.
* `NoIdleEnumeration`: `Spec => EnumeratesForNews`. `NewsInv`: a call that waits has `seen` at most the
  generation, and as long as they are equal - no enumeration was completed since it asked - a valid map in
  store does not name its parent. When it gets the lock, either it takes the map of whoever was
  before it, or that map has expired, or nothing has changed since it asked.

Of denials, for the same constants:

* `DenialsAreTrue`: `~Reinitializes => (Spec => []FreshDenialIsTrue)`. Call a call undisturbed if nobody enumerated
  when it began and Drive has not changed since. `ScansNow`: while one is in flight, every page any
  enumeration has read is Drive as it is now, because every enumeration under way began later than that
  call. `TaskNow`: so a map stored since it asked for the lock (`seen # generation`) is the Authorized Subtree
  (`MapOfNow`), and the parent it read live is its item's parent. A denial comes from such a map only,
  or from the call's own enumeration: a miss in a reused map is asked again (`retry`). The
  invariant needs all of the others: `IInv` for the location, which is measured once and before there is a map;
  `OneEnumeration` for who holds the lock; `NewsInv` for TTL 0, where nothing is stored.

`DocumentReadsProofs`, for any documents, folders, TTL, readers, cursors, texts and cache size, from `ReadsAssumption`
(0 is a cursor; `None` and `Malformed` are no offsets):

* `TypeCorrect`: `Spec => []TypeOK`, with unique keys and at most `CacheSize` entries in the cache.
* `NothingStale`: `Spec => []NeverStale`.
* `ProofBeforeCache`: `Spec => []ServedWithinWindow`.
* `WholeDocument`: `Spec => []WholeUnlessEdited`.

The invariant follows a text to where it is served. `CacheInv`: the version an entry holds is at
least the one in its key, for the download came after the proof, and at most the document's. `TaskInv`: the
proof of a read is at least the version its call began with, what it downloaded at least its proof, and the folder it was proven
by is one the document lay in since the call (`homes`) and one that was in the corpus since then or less than TTL before
(`lately`). The map kept says no more than that: a folder in it that has left did so no longer ago than
the map is old, and it is used only while younger than TTL; a step that moves anything adds to both
sets of the calls under way (`Witness`), and nothing takes from them. `ReaderInv`: the pieces of a reader cover
its document from 0 to where the last ends, each of a version between the reader's first and
Drive's. An unedited document has one version, so all pieces are of one text; the last
chunk gives no cursor only at its end (`AnotherPiece`). The lemmas about `Slot`, `MoveToEnd`, `Store`
and `Evicted` say what each does to the keys.

`BenchmarkProofs`, for any cases, paths, bounds, latencies and percentage, from `BenchmarkAssumption`
(`None` and `Torn` are none of the other values): `TypeCorrect`, `AllCompared` (`NothingSlipsBy`), `ExitIsRight`
(`ExitSaysRegression`) and `ReportsMatch` (`SuccessiveReportsMatch`). `Underway` says
that the baseline in its path is the one that was there at the beginning, until it is compared, unless the report
went to the same path; `Judged` that an exit code 0 with a baseline came of these two reports.
`ExitIsRight` then rests on `AllTimed`: where every sample found the source, nothing that is
timed lacks a median, so that skipping missing medians skips none of the current report's.

Of `Corpus`, also in `BenchmarkProofs`, for any documents, types, sizes, folders, batch size, rankings and moves, from
`CorpusAssumption` (finitely many documents, no two of one place in the order of `_Candidate`; each folder once in the map; a
ranking has each document with a keyword once):

* `CorpusTypeCorrect`: `CorpusSpec => []CorpusTypeOK`.
* `CensusHolds` (`CensusIsNear`). `CountSoFar`: after n batches each count is as near to the rows of the first n
  batches as the moves so far allow. A batch adds its own rows to both (`RowsNext`), and a move changes at most the
  rows of one document, one for each batch (`RowsMoved`). `BatchFacts`: the loop ends after `SearchBatches` turns, the batches
  cover the folders, and share none.
* `LargestHolds` (`LargestOfEach`). `Gathered`: a document that was not moved and can be read is a candidate once its batch
  was walked. `SureFound`: if it is far enough ahead in the ranking, it is found whatever its batch: its place among
  the hits of its batch is at most one more than the documents in front of it (`PlaceOf`), and at rank q of its batch a hit
  is among the first q times the number of batches (`WithinRank`). `ChoiceSoFar`: so a candidate that is no
  longer to be tried has a case of its type at least as large, or its read failed, and every type that has a case
  has a candidate larger than any still to be tried (`ForemostAhead`).
* `DerivedCasesHold` (`DerivedCasesPass`). `CasesHold`: while nothing has moved since its search, a case is found and reads
  (`Verified`). What is found by its whole path is a source for `_find_source`, which asks for less (`VerifiedPasses`). Every
  hit is safe (`HitsFacts`), so if no other safe document has a path that contains the case's (`Alone`), the
  source is the document that was verified. Without that condition it need not be.

`ReadChunksProofs`, for any documents, sizes and byte ceiling, from `ChunkAssumption` and `TextsAssumption` (a
document has text, which `read_document` sees to with `EmptyDocument`):

* `TypeCorrect`: `Spec => []TypeOK`.
* `WholeText`: `Spec => StreamsTheText`, the refinement. `IInv` says that the cursor is where the chunks so far
  end, and that a read in progress begins there and has a character in hand: neither cutting by blocks nor the loop that
  gives way to the byte ceiling can take the last one away (`CutInside`; `GreatestOffset`: the last
  boundary in the window exists). `SInv`: the chunks joined are the places up to where they end. With both,
  the end of a read is a `Give` (`NextStream`) and every other step a stutter.
* `CutsAreBest`: `Spec => []CutIsBest`. While the loop runs, `CInv` says that no end that
  fits both limits is behind the one in hand: no boundary if a boundary fits, else no character at all.
  When the loop ends, its end fits, and so is the best.

`FolderPagesProofs`, for any folder, limits and changes, from `PagesAssumption` (finitely many items; limits are positive): `TypeCorrect`,
`SkippedBounded` (`SkippedAtMostLeft`), `RepeatedBounded` (`RepeatedAtMostCame`) and `StaleExplained` (`StaleMeansTwoLeft`).
The properties look at the last page; what can be counted at any time is each item on the wrong side of the
offset where the next page begins: `Missed`, those before it that were never given, and `Again`, those behind it that
were. `Accounted` bounds the first by `left` and the second, with the repeats so far, by `came`. A change moves
itself and at most one other item over the offset (`ItemOut`, `ItemIn`), a page moves what it gives from
behind to before (`PageAccounted`). Between the listing and the page the folder can change again, so `InHand`
counts the page that will be cut as given already.

`SearchProofs`, for any items, pages, budgets, batches, limits, lost requests and moves, from `ListingAssumption` (finitely many
items) and `SearchAssumption` (positive limits, for each of which limit + 1 can be asked of a walk):

* Of `DriveListing`: `TypeCorrect`, `WholeListing` (`WholeOrRaised`) and `FlagsHold` (`FlagsAreTrue`). `WalkInv`: unless a page
  was incomplete, whatever stayed is in what was found or in what Drive has still to serve.
* Of `Search`: `SearchTypeCorrect`, and `SilenceHolds` (`SilenceIsEvidence`). `SearchInv` is `WalkInv` for the batch under way and, for
  the batches taken in without a flag, that they hold every safe item that never moved; an item that never moved is in
  one batch from beginning to end.
* `TopHitsHold` and `TruncatedHolds` (`TopHits`, `TruncatedTellsTruth`). `RankInv`: while nobody changes anything, what
  is found and what is left to serve are the batch in Drive's order; a batch taken in is the beginning of that order, and cut
  off, if at all, behind more than the limit. What `_interleave_by_rank` does with such lists is a fact about lists: a merged hit
  is at an earlier position than the next, or at the same one of an earlier batch (`InterleavedInOrder`, `MergedEarlier`), and
  whatever was cut off behind more than the limit is behind everything that is shown (`EnoughOfEach`, all in `ListFacts`).
  For `TruncatedHolds` batches without a hit to drop are as long as before the filter (`Sifted`, `SameSifted`).

`HtmlTextProofs`, for any elements and pages, from `PageAssumption` (`MaxTokens` is a number; no element is in both `_SILENT`
and `_BREAKS`; a break has its end tag, for one left out ends where another break does):

* `TypeCorrect` and `BrowserTextDropped` (`Spec => BrowserTextIsDropped`), void elements and missing end tags included. `IInv`:
  unless one is `astray`, `_silent_depth` is at least the number of silent elements open. An element that is never closed makes it more, which
  loses text (the divergences above) but lets none through; the end tag of one that is not open takes one off, and where the
  page shows that cannot be below the number open, which is 0. Elsewhere it can, as in `<head></style>hidden</head>`.
* `ReaderTextKept` (`ReaderTextIsKept`) and `BlocksApart` (`BlocksStayApart`), under the condition
  `(Void \cup Implied) \cap Silent = {}`: every silent element has its end tag, or is written `<tag/>`. The condition is needed -
  `html_void` violates the first without it, and so does a head that is in `Implied` - and it is the one `HtmlText.cfg` has. End tags astray are allowed. With it `KInv`
  can say that the depth is never *more* than the number of silent elements open, so no text that shows is lost, and that the reader's lines and the lines of the parts are `Aligned`: as many words, and where a
  reader's line has ended a line of the parts has. `TextKeeps` then follows what `text()` does to those lines: stripping
  loses no word (`StripKeeps`), neither do the collapse of blank lines (`CollapsedKeeps`) and the final
  strip (`TrimmedKeeps`), and none of them moves or removes the end of a line with words.

Recursion. The models write a loop over a list as a recursive function on its places (`Filtered`,
`Split`, `Count`, `Distinct`, ...). The library's induction and recursive-definition theorems take an operator as a parameter,
which the provers cannot instantiate; what such a loop computes is proved here by sets instead: the
places at which a fact fails would have a least one (`WFMin`, `NatSetInduction`, `SeqSetInduction` in `ListFacts`), and the function
that `CHOOSE` picks is one of the functions that satisfy the recursion, of which there is one (`Folded`, `FoldingIs`). That carries
lists of every length, and is how the facts about filtering, merging and folding above are theorems, not assumptions.

Only model-checked, and why: `EveryCallReturns`, `EveryReadReturns` and `WalkEnds` (liveness is outside the
prover's reach).

## What is not modelled

* Paths and names of items, and so the relative path in an answer and the order of
  a listing; in `Corpus`, a name is the word searched for.
* `_issued`, the set of proofs `download` accepts: the Document Service passes on the proof it was
  just given, and a host that makes up its own is a caller breaking the contract.
* Which error an HTTP status becomes: nothing in the package reacts to the kind.
* Credentials and settings: read once at start.
* `_PerThreadHttp`: what it protects is inside httplib2.
* The Word, spreadsheet, slides and PDF extractors: calls of libraries.
* Percentiles, timings, the depth of the census, and everything printed.
* The MCP adapter and the scripts: a call each, and printing.

## Plan

Done, in this order: `ScopedDrive` and its proofs; `DriveListing` and `Search`; `ReadChunks`,
`DocumentReads`, `FolderPages`; `HtmlText`; `Benchmark`; the search in `ScopedDrive`; readers and
their chunks in `DocumentReads`; `Corpus`; the proofs about `DocumentReads`, `Benchmark`, denials, `ReadChunks`
and `HtmlText`; then `ListFacts`, `FolderPagesProofs`, `SearchProofs`, the refinement of `TextStream`, the text
of `HtmlText`, and `Corpus`. Left:

1. `Authorization`: the abstract boundary - a call is answered in one atomic step, from a
   set of placements each read within the window - and `ScopedDrive` shown to implement
   it, first by TLC (`INSTANCE ... WITH`), then as a theorem from `IInv`.
2. `DocumentReads` over `FolderPages`: a reader who pages through a folder and reads what it lists.
3. `DocumentReads` over `ReadChunks`: `Ends` replaced by the chunks that `_read_chunk` cuts.
