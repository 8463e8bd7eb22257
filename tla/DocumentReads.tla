--------------------------- MODULE DocumentReads ---------------------------
(***************************************************************************)
(* DocumentService.read_document and _extracted: reads of documents that    *)
(* are edited and moved meanwhile, while folders leave the corpus and come  *)
(* back, over one cache of parsed documents that all calls of the process   *)
(* share.                                                                  *)
(*                                                                         *)
(* The proof is ScopedDrive's (authorize_document): the item is read live,  *)
(* the folder it lies in is looked up in the folder map, which may be up to *)
(* a TTL old.  How a map is read, page by page and under a lock, is         *)
(* ScopedDrive's matter: here it is read at an instant, and of the chain    *)
(* above a folder only whether it ends in the root.                         *)
(*                                                                         *)
(* A version stands for a document's content and for the modification time  *)
(* Drive gives it.  The lookup in the cache and the store into it are in    *)
(* different steps: the download and the parser's thread are awaited in     *)
(* between.                                                                *)
(*                                                                         *)
(* Each task is the read of one reader, who follows the cursors through a   *)
(* document.  Where a chunk ends is ReadChunks' matter: here it ends        *)
(* anywhere behind its start.                                               *)
(***************************************************************************)
EXTENDS Naturals, Sequences, SequencesExt

CONSTANTS
  Tasks,       \* reads that can be in flight at once, one a reader
  Docs,        \* the documents
  Folders,     \* the folders they may lie in
  TTL,         \* folder_map_ttl_seconds, in ticks
  Length,      \* the characters of the text of each <<document, version>>
  Oversized,   \* the <<document, version>>s over max_download_bytes
  Offsets,     \* the offsets of the cursors readers pass
  CacheSize,   \* cache_size
  MaxChanges,  \* bound on edits and moves
  MaxCalls,    \* bound on the number of reads
  None,        \* no version, no document, no folder to prove
  Malformed    \* a cursor that does not decode

Texts == Docs \X (0..MaxChanges)

ASSUME ReadsAssumption ==
  /\ CacheSize \in Nat /\ MaxChanges \in Nat /\ MaxCalls \in Nat /\ TTL \in Nat
  /\ Length \in [Texts -> Nat] /\ Oversized \subseteq Texts
  /\ Offsets \subseteq Nat /\ 0 \in Offsets
  /\ None \notin Nat \cup Docs \cup Folders /\ Malformed \notin Nat \cup {None}

VARIABLES
  version,    \* Drive: the version of each document
  parent,     \* Drive: the folder it lies in; None when that proves nothing
  under,      \* Drive: the folders of the Authorized Subtree
  gone,       \* history: how long each folder has been out of it, up to a TTL
  changes, calls,
  folderMap,  \* _folder_paths, and how old it is, up to a TTL
  cache,      \* _cache, the least recently used first
  task,       \* the locals of each read, and what became of it
  reader      \* history: what each reader has of the document it is reading

drive == <<version, parent, under, gone, changes>>
vars == <<drive, calls, folderMap, cache, task, reader>>

Version == 0..MaxChanges
FolderMap == [folders : SUBSET Folders, age : 0..TTL]

Task == [pc      : {"idle", "proving", "placing", "proven", "downloading", "parsing"},
         doc     : Docs \cup {None},
         cursor  : Offsets \cup {Malformed},  \* the cursor passed; 0 is also none
         proof   : Version \cup {None},       \* item.modified_time
         folder  : Folders \cup {None},       \* item.parents[0]
         bytes   : Version \cup {None},       \* the version downloaded
         outcome : {"none", "served", "raised"},
         text    : Version \cup {None},       \* the version served
         begun   : Version,                   \* history: its version when the call began
         homes   : SUBSET Folders,            \* history: where it has lain since
         lately  : SUBSET Folders]            \* history: the folders in the corpus since
                                              \* then, and less than a TTL before

NoTask == [pc |-> "idle", doc |-> None, cursor |-> 0, proof |-> None, folder |-> None,
           bytes |-> None, outcome |-> "none", text |-> None, begun |-> 0,
           homes |-> {}, lately |-> {}]

\* The chunks a reader got by following the cursors from the beginning of a
\* document, and the document's version when the first of these calls began.
\* One that passes another cursor, or turns to another document, has none.
Piece == [text : Version, from : Nat, to : Nat]
Reader == [doc : Docs \cup {None}, since : Version, pieces : Seq(Piece)]
NoReader == [doc |-> None, since |-> 0, pieces |-> <<>>]

Init ==
  /\ version = [d \in Docs |-> 0] /\ parent \in [Docs -> Folders]
  /\ under = Folders /\ gone = [f \in Folders |-> 0]
  /\ changes = 0 /\ calls = 0 /\ cache = <<>> /\ folderMap = [folders |-> {}, age |-> TTL]
  /\ task = [r \in Tasks |-> NoTask] /\ reader = [r \in Tasks |-> NoReader]

---------------------------------------------------------------------------
(* The cache: an OrderedDict.                                              *)

AnyVersion(d, v) == <<d>>
Key(d, v) == <<d, v>>

Cached(k) == \E n \in DOMAIN cache : cache[n].key = k
Slot(k) == CHOOSE n \in DOMAIN cache : cache[n].key = k
Entry(k) == cache[Slot(k)]

MoveToEnd(k) == Append(RemoveAt(cache, Slot(k)), Entry(k))

\* Assigning to a key that is there leaves it where it is.
Store(k, v) ==
  IF Cached(k) THEN [n \in DOMAIN cache |-> IF cache[n].key = k THEN [key |-> k, text |-> v]
                                                                 ELSE cache[n]]
  ELSE Append(cache, [key |-> k, text |-> v])

Newest(entries, n) == IF Len(entries) <= n THEN entries
                      ELSE SubSeq(entries, Len(entries) - n + 1, Len(entries))
OneTooMany(entries) == Newest(entries, CacheSize + 1)
Evicted(entries) == Newest(entries, CacheSize)

---------------------------------------------------------------------------

Raise(r) == task' = [task EXCEPT ![r] = [NoTask EXCEPT !.doc = task[r].doc, !.outcome = "raised"]]

OneFurther(to, length) == IF to + 1 < length THEN to + 1 ELSE None
NextCursor(to, length) == IF to < length THEN to ELSE None

\* The cursor a reader holds: the next one after its last chunk.
Held(r) ==
  LET p == Last(reader[r].pieces) IN
  IF reader[r].pieces = <<>> THEN None
  ELSE NextCursor(p.to, Length[<<reader[r].doc, p.text>>])

\* A chunk begins at the cursor and ends behind it, or at the end of the text.
Ends(from, length) == {to \in from..length : to > from \/ from = length}

\* A document without text and a cursor beyond its end raise once it is kept.
Serve(r, v) ==
  LET d == task[r].doc
      from == task[r].cursor
      length == Length[<<d, v>>]
  IN  \/ (length = 0 \/ from > length) /\ Raise(r) /\ UNCHANGED reader
      \/ /\ length > 0
         /\ task' = [task EXCEPT ![r] = [@ EXCEPT !.pc = "idle", !.outcome = "served", !.text = v,
                                         !.proof = None, !.folder = None, !.bytes = None]]
         /\ \E to \in Ends(from, length) :
              reader' = IF reader[r].doc = None THEN reader
                        ELSE [reader EXCEPT ![r].pieces =
                                Append(@, [text |-> v, from |-> from, to |-> to])]

\* A reader begins a document, goes on with the cursor it holds (or tries again
\* after an error), or passes any other.
Follow(r, d, c) ==
  reader' = [reader EXCEPT ![r] =
    IF c = 0 THEN [doc |-> d, since |-> version[d], pieces |-> <<>>]
    ELSE IF reader[r].doc = d /\ Held(r) = c THEN @
    ELSE NoReader]

---------------------------------------------------------------------------

Lately == under \cup {f \in Folders : gone[f] < TTL}
Home(d) == {parent[d]} \ {None}

\* read_document: authorize_document comes first, cached or not.
Call(r, d, c) ==
  /\ task[r].pc = "idle" /\ calls < MaxCalls /\ calls' = calls + 1
  /\ task' = [task EXCEPT ![r] = [NoTask EXCEPT !.pc = "proving", !.doc = d, !.cursor = c,
                                    !.begun = version[d], !.homes = Home(d), !.lately = Lately]]
  /\ Follow(r, d, c)
  /\ UNCHANGED <<drive, folderMap, cache>>

\* _authorize reads the item live.  In the trash, on another drive or without
\* one parent, it is refused.
ReadItem(r) ==
  LET d == task[r].doc IN
  /\ task[r].pc = "proving"
  /\ \/ parent[d] = None /\ Raise(r)
     \/ /\ parent[d] # None
        /\ task' = [task EXCEPT ![r].pc = "placing", ![r].proof = version[d], ![r].folder = parent[d]]
  /\ UNCHANGED <<drive, calls, folderMap, cache, reader>>

InMapOrCached(r, folders) ==
  task[r].folder \in folders \/ Cached(Key(task[r].doc, task[r].proof))
InMap(r, folders) == task[r].folder \in folders

CachedFolderMap == IF folderMap.age < TTL THEN folderMap.folders ELSE {}

Allow(r) == task' = [task EXCEPT ![r].pc = "proven"]

\* Its folder is in the map kept; or the folders are read anew, since the map is
\* too old or lacks it, and kept for a TTL.
Place(r) ==
  /\ task[r].pc = "placing"
  /\ \/ InMap(r, CachedFolderMap) /\ Allow(r) /\ UNCHANGED folderMap
     \/ /\ ~InMap(r, CachedFolderMap)
        /\ folderMap' = IF TTL > 0 THEN [folders |-> under, age |-> 0] ELSE folderMap
        /\ \/ InMap(r, under) /\ Allow(r)
           \/ ~InMap(r, under) /\ Raise(r)
  /\ UNCHANGED <<drive, calls, cache, reader>>

\* The coroutine goes on with the proof: the cursor does not decode; or the text
\* is in the cache, or the document is too large, or it is downloaded.
LookUp(r) ==
  LET d == task[r].doc
      k == Key(d, task[r].proof)
  IN  /\ task[r].pc = "proven"
      /\ \/ /\ task[r].cursor = Malformed \/ (~Cached(k) /\ k \in Oversized)
            /\ Raise(r) /\ UNCHANGED <<cache, reader>>
         \/ /\ task[r].cursor # Malformed /\ Cached(k)
            /\ cache' = MoveToEnd(k) /\ Serve(r, Entry(k).text)
         \/ /\ task[r].cursor # Malformed /\ ~Cached(k) /\ k \notin Oversized
            /\ task' = [task EXCEPT ![r].pc = "downloading"] /\ UNCHANGED <<cache, reader>>
      /\ UNCHANGED <<drive, calls, folderMap>>

\* Drive serves the bytes it has now.
Download(r) ==
  /\ task[r].pc = "downloading"
  /\ task' = [task EXCEPT ![r].pc = "parsing", ![r].bytes = version[task[r].doc]]
  /\ UNCHANGED <<drive, calls, folderMap, cache, reader>>

\* The parser's thread is done: the text is kept and served.
Extract(r) ==
  LET k == Key(task[r].doc, task[r].proof) IN
  /\ task[r].pc = "parsing"
  /\ cache' = Evicted(Store(k, task[r].bytes))
  /\ Serve(r, task[r].bytes)
  /\ UNCHANGED <<drive, calls, folderMap>>

\* Drive refuses, no extractor takes the type, the parser cannot read the bytes,
\* or the call is cancelled.
Fail(r) ==
  /\ task[r].pc # "idle" /\ Raise(r)
  /\ UNCHANGED <<drive, calls, folderMap, cache, reader>>

\* The calls under way, with where their documents lie and what is in the corpus.
Witness ==
  task' = [r \in Tasks |->
    IF task[r].pc = "idle" THEN task[r]
    ELSE [task[r] EXCEPT !.homes = @ \cup ({parent'[task[r].doc]} \ {None}),
                         !.lately = @ \cup under']]

Change == changes < MaxChanges /\ changes' = changes + 1 /\ UNCHANGED <<calls, folderMap, cache, reader>>

\* Somebody edits a document.
Edit(d) ==
  /\ Change /\ version' = [version EXCEPT ![d] = @ + 1]
  /\ UNCHANGED <<parent, under, gone, task>>

\* Somebody moves it to a folder, or to where nothing can be proven of it.
Move(d, f) ==
  /\ Change /\ f # parent[d] /\ parent' = [parent EXCEPT ![d] = f]
  /\ UNCHANGED <<version, under, gone>> /\ Witness

\* Somebody moves a folder out of the corpus, or into it.
MoveFolder(f) ==
  /\ Change /\ gone' = [gone EXCEPT ![f] = 0]
  /\ under' = IF f \in under THEN under \ {f} ELSE under \cup {f}
  /\ UNCHANGED <<version, parent>> /\ Witness

Older(age) == IF age < TTL THEN age + 1 ELSE age

\* Time passes.
Tick ==
  /\ folderMap' = [folderMap EXCEPT !.age = Older(@)]
  /\ gone' = [f \in Folders |-> IF f \in under THEN 0 ELSE Older(gone[f])]
  /\ UNCHANGED <<version, parent, under, changes, calls, cache, task, reader>>

Next ==
  \/ \E r \in Tasks, d \in Docs, c \in Offsets \cup {Malformed} : Call(r, d, c)
  \/ \E r \in Tasks : ReadItem(r)
  \/ \E r \in Tasks : Place(r)
  \/ \E r \in Tasks : LookUp(r)
  \/ \E r \in Tasks : Download(r)
  \/ \E r \in Tasks : Extract(r)
  \/ \E r \in Tasks : Fail(r)
  \/ \E d \in Docs : Edit(d)
  \/ \E d \in Docs, f \in Folders \cup {None} : Move(d, f)
  \/ \E f \in Folders : MoveFolder(f)
  \/ Tick

Spec == Init /\ [][Next]_vars

---------------------------------------------------------------------------
(* Properties.                                                             *)

\* The cache holds one entry a key and never more than cache_size of them once
\* a step is over, however many reads store at once.
TypeOK ==
  /\ version \in [Docs -> Version] /\ parent \in [Docs -> Folders \cup {None}]
  /\ under \subseteq Folders /\ gone \in [Folders -> 0..TTL] /\ folderMap \in FolderMap
  /\ changes \in 0..MaxChanges /\ calls \in 0..MaxCalls
  /\ task \in [Tasks -> Task] /\ reader \in [Tasks -> Reader]
  /\ Len(cache) <= CacheSize
  /\ \A m, n \in DOMAIN cache : cache[m].key = cache[n].key => m = n

\* documents.py:187-200: the text served is at least as new as the document
\* was when the call began, though an edit may come between the proof, the
\* download and the store, and the next read may find what another stored.
NeverStale ==
  \A r \in Tasks : task[r].outcome = "served" => task[r].text >= task[r].begun

\* documents.py:150-152, docs/adr/0005:46-50: the cache holds bytes and never a
\* decision.  Whatever is in it, a document is served only to a call during
\* which it lay in a folder that was in the corpus at an instant of the call or
\* less than a TTL before it began: what left by itself is refused at once, what
\* left with its folder when the window closes.
ServedWithinWindow ==
  \A r \in Tasks : task[r].outcome = "served" => task[r].homes \cap task[r].lately # {}

\* documents.py:157-164, :264: the cursor says nothing of the version it is an
\* offset into, and chunks may come from the cache, from other calls' downloads
\* and after errors.  All the same, if a document was not edited since the
\* first of them was asked for, the chunks a reader got up to the last one are
\* the whole of one text, the one the document has.
WholeUnlessEdited ==
  \A r \in Tasks :
    LET d == reader[r].doc
        pieces == reader[r].pieces
        read == UNION {p.from..p.to - 1 : p \in ToSet(pieces)}
    IN  pieces # <<>> /\ Held(r) = None /\ version[d] = reader[r].since
          => /\ \A p \in ToSet(pieces) : p.text = version[d]
             /\ read = 0..Length[<<d, version[d]>>] - 1
============================================================================
