------------------------ MODULE DocumentReadsProofs ------------------------
(***************************************************************************)
(* What a read serves, for any documents, folders, reads, changes, TTL and   *)
(* cache: nothing older than the call; nothing that did not lie, during the  *)
(* call, in a folder that was in the corpus then or less than a TTL before;  *)
(* and, to who follows the cursors through a document nobody edits, all of   *)
(* it.                                                                       *)
(***************************************************************************)
EXTENDS DocumentReads, SequenceTheorems, TLAPS

Keys == Docs \X Version
CacheEntry == [key : Keys, text : Version]

\* What is kept under the key of a version is at least that version, and Drive
\* had it: the download follows the proof.
Sound(e) == e.key[2] <= e.text /\ e.text <= version[e.key[1]]

Unique(s) == \A m, n \in DOMAIN s : s[m].key = s[n].key => m = n

CacheInv == /\ cache \in Seq(CacheEntry)
            /\ \A n \in 1..Len(cache) : Sound(cache[n])

\* A folder in the map was in the corpus when the map was read, or later.
MapInv == /\ folderMap \in FolderMap
          /\ \A f \in folderMap.folders : gone[f] <= folderMap.age

\* A document has lain in a folder that was in the corpus.
Member(t) == t.homes \cap t.lately # {}

\* The evidence of a call under way, and of one that has served its text.
TaskInv(t) ==
  /\ t.pc # "idle" => /\ t.doc \in Docs /\ t.outcome = "none" /\ t.begun <= version[t.doc]
                      /\ Home(t.doc) \subseteq t.homes /\ Lately \subseteq t.lately
  /\ t.pc \in {"placing", "proven", "downloading", "parsing"} =>
       t.proof \in Version /\ t.begun <= t.proof /\ t.proof <= version[t.doc]
  /\ t.pc = "placing" => t.folder \in t.homes
  /\ t.pc \in {"proven", "downloading", "parsing"} => Member(t)
  /\ t.pc \in {"downloading", "parsing"} => t.cursor # Malformed
  /\ t.pc = "parsing" => t.bytes \in Version /\ t.proof <= t.bytes /\ t.bytes <= version[t.doc]
  /\ t.outcome = "served" => t.text \in Version /\ t.begun <= t.text /\ Member(t)

\* What was read up to here: the characters of the chunks so far, without a gap.
ReadTo(pieces) == IF pieces = <<>> THEN 0 ELSE Last(pieces).to
Covered(pieces) == UNION {p.from..p.to - 1 : p \in ToSet(pieces)}

PiecesInv(q) ==
  /\ \A n \in 1..Len(q.pieces) : /\ q.since <= q.pieces[n].text
                                 /\ q.pieces[n].text <= version[q.doc]
  /\ Covered(q.pieces) = 0..ReadTo(q.pieces) - 1
  /\ q.pieces # <<>> => Last(q.pieces).to <= Length[<<q.doc, Last(q.pieces).text>>]

ReaderInv(q, t) ==
  /\ q.doc = None => q.pieces = <<>>
  /\ q.doc # None => /\ q.since <= version[q.doc]
                     /\ PiecesInv(q)
                     /\ t.pc # "idle" => /\ t.doc = q.doc /\ q.since <= t.begun
                                         /\ t.cursor = ReadTo(q.pieces)

IInv ==
  /\ TypeOK /\ CacheInv /\ MapInv
  /\ \A f \in under : gone[f] = 0
  /\ \A d \in Docs : version[d] <= changes
  /\ \A r \in Tasks : TaskInv(task[r]) /\ ReaderInv(reader[r], task[r])

---------------------------------------------------------------------------
(* The cache.                                                              *)

\* What is in s was in the cache before, or is the entry e.
From(s, e) == \A n \in 1..Len(s) : s[n] = e \/ \E m \in 1..Len(cache) : s[n] = cache[m]

LEMMA SlotIn ==
  ASSUME CacheInv, NEW k, Cached(k)
  PROVE  Slot(k) \in 1..Len(cache) /\ Entry(k) = cache[Slot(k)] /\ Entry(k).key = k
         /\ Entry(k) \in CacheEntry /\ Sound(Entry(k))
<1>1. DOMAIN cache = 1..Len(cache)
  BY LenProperties DEF CacheInv
<1>2. Slot(k) \in DOMAIN cache /\ cache[Slot(k)].key = k
  BY DEF Cached, Slot
<1>3. cache[Slot(k)] \in CacheEntry
  BY <1>1, <1>2, ElementOfSeq DEF CacheInv
<1>4. QED
  BY <1>1, <1>2, <1>3 DEF Entry, CacheInv

\* Without its i-th entry a sequence has the others, in their order.
LEMMA RemoveAtProperties ==
  ASSUME NEW S, NEW s \in Seq(S), NEW i \in 1..Len(s)
  PROVE  /\ RemoveAt(s, i) \in Seq(S)
         /\ Len(RemoveAt(s, i)) = Len(s) - 1
         /\ \A n \in 1..Len(s) - 1 : RemoveAt(s, i)[n] = IF n < i THEN s[n] ELSE s[n + 1]
<1> DEFINE a == SubSeq(s, 1, i - 1)
           b == SubSeq(s, i + 1, Len(s))
<1>0. Len(s) \in Nat /\ i \in Int
  BY LenProperties
<1>1. /\ a \in Seq(S) /\ Len(a) = i - 1
      /\ \A n \in 1..i - 1 : a[n] = s[n]
  <2>1. \A n \in 1..i - 1 : s[n] \in S
    BY <1>0, ElementOfSeq
  <2>2. /\ a \in Seq(S) /\ Len(a) = IF 1 <= i - 1 THEN i - 1 - 1 + 1 ELSE 0
        /\ \A n \in 1..i - 1 - 1 + 1 : a[n] = s[1 + n - 1]
    BY <1>0, <2>1, SubSeqProperties
  <2> HIDE DEF a
  <2>3. QED
    BY <1>0, <2>2
<1>2. /\ b \in Seq(S) /\ Len(b) = Len(s) - i
      /\ \A n \in 1..Len(s) - i : b[n] = s[n + i]
  <2>1. \A n \in i + 1..Len(s) : s[n] \in S
    BY <1>0, ElementOfSeq
  <2>2. /\ b \in Seq(S)
        /\ Len(b) = IF i + 1 <= Len(s) THEN Len(s) - (i + 1) + 1 ELSE 0
        /\ \A n \in 1..Len(s) - (i + 1) + 1 : b[n] = s[i + 1 + n - 1]
    BY <1>0, <2>1, SubSeqProperties
  <2> HIDE DEF b
  <2>3. QED
    BY <1>0, <2>2
<1>3. RemoveAt(s, i) = a \o b
  BY DEF RemoveAt
<1> HIDE DEF a, b
<1>4. /\ a \o b \in Seq(S) /\ Len(a \o b) = Len(a) + Len(b)
      /\ \A n \in 1..Len(a) + Len(b) : (a \o b)[n] = IF n <= Len(a) THEN a[n] ELSE b[n - Len(a)]
  BY <1>1, <1>2, ConcatProperties
<1> DEFINE c == a \o b
<1>5. c \in Seq(S) /\ Len(c) = Len(s) - 1
      /\ \A n \in 1..Len(s) - 1 : c[n] = IF n <= i - 1 THEN a[n] ELSE b[n - (i - 1)]
  BY <1>0, <1>1, <1>2, <1>4
<1> HIDE DEF c
<1>6. ASSUME NEW n \in 1..Len(s) - 1
      PROVE  c[n] = IF n < i THEN s[n] ELSE s[n + 1]
  <2>1. CASE n < i
    BY <1>0, <1>1, <1>5, <2>1
  <2>2. CASE ~(n < i)
    <3>1. n - (i - 1) \in 1..Len(s) - i /\ n - (i - 1) + i = n + 1
      BY <1>0, <2>2
    <3>2. QED
      BY <1>0, <1>2, <1>5, <2>2, <3>1
  <2>3. QED
    BY <2>1, <2>2
<1>7. QED
  BY <1>3, <1>5, <1>6 DEF c

\* A hit moves its entry to the end.
LEMMA MoveToEndProperties ==
  ASSUME CacheInv, Unique(cache), NEW k, Cached(k)
  PROVE  LET s == MoveToEnd(k) IN
         s \in Seq(CacheEntry) /\ Len(s) = Len(cache) /\ From(s, Entry(k)) /\ Unique(s)
<1> DEFINE i == Slot(k)
           s == MoveToEnd(k)
           w == RemoveAt(cache, i)
<1>0. cache \in Seq(CacheEntry) /\ Len(cache) \in Nat /\ DOMAIN cache = 1..Len(cache)
  BY LenProperties DEF CacheInv
<1>1. i \in 1..Len(cache) /\ Entry(k) = cache[i] /\ Entry(k) \in CacheEntry
  BY SlotIn
<1>2. s = Append(w, Entry(k))
  BY DEF MoveToEnd
<1> HIDE DEF i, s
<1>3. /\ w \in Seq(CacheEntry) /\ Len(w) = Len(cache) - 1
      /\ \A n \in 1..Len(cache) - 1 : w[n] = IF n < i THEN cache[n] ELSE cache[n + 1]
  BY <1>0, <1>1, RemoveAtProperties
<1> HIDE DEF w
<1>4. /\ s \in Seq(CacheEntry) /\ Len(s) = Len(w) + 1
      /\ \A n \in 1..Len(w) : s[n] = w[n]
      /\ s[Len(w) + 1] = Entry(k)
  BY <1>1, <1>2, <1>3, AppendProperties
<1> DEFINE old(n) == IF n = Len(cache) THEN i ELSE IF n < i THEN n ELSE n + 1
<1>i. i \in Int /\ Len(cache) \in Int /\ 1 <= i /\ i <= Len(cache)
  BY <1>0, <1>1
<1>5. ASSUME NEW n \in 1..Len(cache)
      PROVE  old(n) \in 1..Len(cache) /\ s[n] = cache[old(n)]
  <2>1. CASE n = Len(cache)
    BY <1>1, <1>3, <1>4, <1>i, <2>1
  <2>2. CASE n # Len(cache)
    <3>1. n \in 1..Len(cache) - 1 /\ n \in 1..Len(w)
      BY <1>3, <1>i, <2>2
    <3>2. s[n] = IF n < i THEN cache[n] ELSE cache[n + 1]
      BY <1>3, <1>4, <3>1
    <3>3. QED
      BY <1>i, <2>2, <3>1, <3>2
  <2>3. QED
    BY <2>1, <2>2
<1>6. ASSUME NEW m \in 1..Len(cache), NEW n \in 1..Len(cache), old(m) = old(n)
      PROVE  m = n
  BY <1>i, <1>6
<1>7. Len(s) = Len(cache) /\ DOMAIN s = 1..Len(cache)
  BY <1>0, <1>3, <1>4, LenProperties
<1> HIDE DEF old
<1>8. Unique(s)
  <2> SUFFICES ASSUME NEW m \in 1..Len(cache), NEW n \in 1..Len(cache), s[m].key = s[n].key
               PROVE  m = n
    BY <1>7 DEF Unique
  <2>1. cache[old(m)].key = cache[old(n)].key
    BY <1>5
  <2>2. old(m) = old(n)
    BY <1>0, <1>5, <2>1 DEF Unique
  <2>3. QED
    BY <1>6, <2>2
<1>9. QED
  BY <1>4, <1>5, <1>7, <1>8 DEF From, s

\* A store replaces what is under the key, or adds an entry.
LEMMA StoreProperties ==
  ASSUME CacheInv, Unique(cache), NEW k \in Keys, NEW v \in Version
  PROVE  LET s == Store(k, v) IN
         s \in Seq(CacheEntry) /\ From(s, [key |-> k, text |-> v]) /\ Unique(s)
<1> DEFINE e == [key |-> k, text |-> v]
           s == Store(k, v)
<1>0. cache \in Seq(CacheEntry) /\ Len(cache) \in Nat /\ DOMAIN cache = 1..Len(cache)
  BY LenProperties DEF CacheInv
<1>1. e \in CacheEntry /\ e.key = k
  BY DEF CacheEntry
<1>2. CASE Cached(k)
  <2> DEFINE i == Slot(k)
  <2>1. i \in 1..Len(cache) /\ cache[i].key = k
    BY <1>2, SlotIn
  <2>2. \A n \in 1..Len(cache) : cache[n].key = k => n = i
    BY <1>0, <2>1 DEF Unique
  <2>3. s = [n \in 1..Len(cache) |-> IF cache[n].key = k THEN e ELSE cache[n]]
    BY <1>0, <1>2 DEF Store
  <2> HIDE DEF i, e, s
  <2>4. cache \in [1..Len(cache) -> CacheEntry]
    BY <1>0, LenProperties
  <2>5. s = [cache EXCEPT ![i] = e]
    <3>1. [cache EXCEPT ![i] = e] = [n \in 1..Len(cache) |-> IF n = i THEN e ELSE cache[n]]
      BY <2>4
    <3>2. \A n \in 1..Len(cache) : cache[n].key = k <=> n = i
      BY <2>1, <2>2
    <3>3. QED
      BY <2>3, <3>1, <3>2
  <2>6. s \in Seq(CacheEntry) /\ Len(s) = Len(cache)
    BY <1>0, <1>1, <2>1, <2>5, ExceptSeq
  <2>7. DOMAIN s = 1..Len(cache) /\ \A n \in 1..Len(cache) : s[n].key = cache[n].key
    BY <1>1, <2>3
  <2>8. Unique(s)
    BY <1>0, <2>7 DEF Unique
  <2>9. From(s, e)
    BY <2>3, <2>6 DEF From
  <2>10. QED
    BY <2>6, <2>8, <2>9 DEF s, e
<1>3. CASE ~Cached(k)
  <2>1. s = Append(cache, e)
    BY <1>3 DEF Store
  <2> HIDE DEF e, s
  <2>2. /\ s \in Seq(CacheEntry) /\ Len(s) = Len(cache) + 1
        /\ \A n \in 1..Len(cache) : s[n] = cache[n]
        /\ s[Len(cache) + 1] = e
    BY <1>0, <1>1, <2>1, AppendProperties
  <2>3. DOMAIN s = 1..Len(cache) + 1
    BY <2>2, LenProperties
  <2>4. \A n \in 1..Len(cache) : cache[n].key # k
    BY <1>0, <1>3 DEF Cached
  <2>5. \A n \in 1..Len(cache) + 1 : n \in 1..Len(cache) \/ n = Len(cache) + 1
    BY <1>0
  <2>6. Unique(s)
    BY <1>0, <1>1, <2>2, <2>3, <2>4, <2>5 DEF Unique
  <2>7. From(s, e)
    BY <2>2, <2>5 DEF From
  <2>8. QED
    BY <2>2, <2>6, <2>7 DEF s, e
<1>4. QED
  BY <1>2, <1>3

\* Eviction leaves the newest entries, cache_size of them at most.
LEMMA EvictedProperties ==
  ASSUME CacheSize \in Nat, NEW s \in Seq(CacheEntry), NEW e, From(s, e), Unique(s)
  PROVE  LET x == Evicted(s) IN
         x \in Seq(CacheEntry) /\ Len(x) <= CacheSize /\ From(x, e) /\ Unique(x)
<1> DEFINE l == Len(s)
           x == Evicted(s)
<1>0. l \in Nat /\ DOMAIN s = 1..l
  BY LenProperties
<1>1. CASE l <= CacheSize
  BY <1>1 DEF Evicted, Newest
<1>2. CASE ~(l <= CacheSize)
  <2> DEFINE f == l - CacheSize
  <2>1. x = SubSeq(s, f + 1, l)
    BY <1>2 DEF Evicted, Newest
  <2>2. f \in Nat /\ f + 1 \in Int /\ l \in Int
    BY <1>0, <1>2
  <2>3. \A n \in f + 1..l : s[n] \in CacheEntry
    BY <1>0, <2>2, ElementOfSeq
  <2>4. /\ x \in Seq(CacheEntry) /\ Len(x) = IF f + 1 <= l THEN l - (f + 1) + 1 ELSE 0
        /\ \A n \in 1..l - (f + 1) + 1 : x[n] = s[f + 1 + n - 1]
    BY <2>1, <2>2, <2>3, SubSeqProperties
  <2> HIDE DEF x
  <2>5. Len(x) = CacheSize
    BY <1>0, <1>2, <2>4
  <2>6. \A n \in 1..CacheSize : n + f \in 1..l /\ x[n] = s[n + f]
    BY <1>0, <1>2, <2>4
  <2>7. DOMAIN x = 1..CacheSize
    BY <2>4, <2>5, LenProperties
  <2>8. From(x, e)
    BY <2>5, <2>6 DEF From
  <2>9. Unique(x)
    <3> SUFFICES ASSUME NEW m \in 1..CacheSize, NEW n \in 1..CacheSize, x[m].key = x[n].key
                 PROVE  m = n
      BY <2>7 DEF Unique
    <3>1. s[m + f].key = s[n + f].key /\ m + f \in DOMAIN s /\ n + f \in DOMAIN s
      BY <1>0, <2>6
    <3>2. m + f = n + f
      BY <3>1 DEF Unique
    <3>3. QED
      BY <2>2, <3>2
  <2>10. QED
    BY <2>4, <2>5, <2>8, <2>9 DEF x
<1>3. QED
  BY <1>1, <1>2

\* Every entry is an old one, or a sound new one: the cache stays sound.
LEMMA CacheStays ==
  ASSUME CacheInv, NEW s \in Seq(CacheEntry), NEW e, From(s, e), Sound(e),
         cache' = s, UNCHANGED version
  PROVE  CacheInv'
<1>1. \A n \in 1..Len(s) : Sound(s[n])
  BY DEF From, CacheInv
<1>2. QED
  BY <1>1 DEF CacheInv, CacheEntry, Keys, Version, Sound

---------------------------------------------------------------------------
(* The chunks a reader has.                                                *)

\* A chunk that begins where the last one ended makes the covered part longer.
LEMMA AnotherPiece ==
  ASSUME NEW pieces \in Seq(Piece), NEW p \in Piece, p.from = ReadTo(pieces), p.from <= p.to,
         Covered(pieces) = 0..ReadTo(pieces) - 1
  PROVE  LET s == Append(pieces, p) IN
         /\ s \in Seq(Piece) /\ s # <<>> /\ Last(s) = p /\ ReadTo(s) = p.to
         /\ \A n \in 1..Len(s) : s[n] = p \/ \E m \in 1..Len(pieces) : s[n] = pieces[m]
         /\ Covered(s) = 0..p.to - 1
<1> DEFINE s == Append(pieces, p)
           l == Len(pieces)
<1>1. /\ s \in Seq(Piece) /\ s # <<>> /\ Len(s) = l + 1 /\ l \in Nat
      /\ \A n \in 1..l : s[n] = pieces[n]
      /\ s[l + 1] = p
  BY AppendProperties, LenProperties
<1>2. DOMAIN s = 1..l + 1 /\ DOMAIN pieces = 1..l
  BY <1>1, LenProperties
<1> HIDE DEF s, l
<1>3. \A n \in 1..l + 1 : n \in 1..l \/ n = l + 1
  BY <1>1
<1>4. l + 1 \in 1..l + 1 /\ 1..l \subseteq 1..l + 1
  BY <1>1
<1>5. ToSet(s) = ToSet(pieces) \cup {p}
  BY <1>1, <1>2, <1>3, <1>4 DEF ToSet
<1>6. Covered(s) = Covered(pieces) \cup (p.from..p.to - 1)
  BY <1>5 DEF Covered
<1>7. p.from \in Nat /\ p.to \in Nat
  BY DEF Piece
<1>8. Covered(s) = 0..p.to - 1
  <2>1. \A a, b \in Nat : a <= b => (0..a - 1) \cup (a..b - 1) = 0..b - 1
    OBVIOUS
  <2>2. QED
    BY <1>6, <1>7, <2>1
<1>9. Last(s) = p /\ ReadTo(s) = p.to
  BY <1>1 DEF Last, ReadTo
<1>10. QED
  BY <1>1, <1>3, <1>8, <1>9 DEF s, l

\* A reader with no chunk yet.
LEMMA NoPieces == Covered(<<>>) = 0..ReadTo(<<>>) - 1
<1>1. ToSet(<<>>) = {}
  BY DEF ToSet
<1>2. Covered(<<>>) = {} /\ 0..0 - 1 = {}
  BY <1>1 DEF Covered
<1>3. QED
  BY <1>2 DEF ReadTo

---------------------------------------------------------------------------
(* The invariant.                                                          *)

\* Numbers and records the steps below rest on.
LEMMA Typed ==
  ASSUME ReadsAssumption, TypeOK
  PROVE  /\ \A d \in Docs : /\ version[d] \in Nat /\ version[d] \in Version
                           /\ parent[d] \in Folders \cup {None} /\ Home(d) \subseteq Folders
         /\ Lately \subseteq Folders
         /\ \A r \in Tasks : /\ task[r] \in Task /\ task[r].begun \in Nat
                             /\ reader[r] \in Reader /\ reader[r].since \in Nat
                             /\ reader[r].pieces \in Seq(Piece)
         /\ \A d \in Docs, v \in Version : Length[<<d, v>>] \in Nat
         /\ Version \subseteq Nat
<1>1. \A d \in Docs : version[d] \in Version /\ parent[d] \in Folders \cup {None}
  BY DEF TypeOK
<1>2. \A r \in Tasks : task[r] \in Task
  BY DEF TypeOK
<1>3. \A r \in Tasks : reader[r] \in Reader
  BY DEF TypeOK
<1>4. \A d \in Docs, v \in Version : Length[<<d, v>>] \in Nat
  BY DEF ReadsAssumption, Texts, Version
<1>5. Version \subseteq Nat
  BY DEF Version, ReadsAssumption
<1>6. \A d \in Docs : Home(d) \subseteq Folders
  BY <1>1 DEF Home
<1>7. Lately \subseteq Folders
  BY DEF TypeOK, Lately
<1>8. QED
  BY <1>1, <1>2, <1>3, <1>4, <1>5, <1>6, <1>7 DEF Task, Reader

LEMMA InitInv == ReadsAssumption /\ Init => IInv
<1> SUFFICES ASSUME ReadsAssumption, Init PROVE IInv
  OBVIOUS
<1>1. NoTask \in Task /\ NoReader \in Reader /\ 0 \in Version
  BY DEF ReadsAssumption, NoTask, Task, NoReader, Reader, Version
<1>2. cache \in Seq(CacheEntry) /\ Len(cache) = 0 /\ DOMAIN cache = {}
  BY EmptySeq DEF Init
<1>3. TypeOK /\ MapInv /\ \A f \in under : gone[f] = 0
  <2>1. [folders |-> {}, age |-> TTL] \in FolderMap /\ 0 \in 0..TTL
    BY DEF ReadsAssumption, FolderMap
  <2>2. TypeOK
    BY <1>1, <1>2, <2>1 DEF TypeOK, Init, ReadsAssumption
  <2>3. QED
    BY <2>1, <2>2 DEF MapInv, Init
<1>4. CacheInv
  BY <1>2 DEF CacheInv
<1>5. \A r \in Tasks : TaskInv(task[r]) /\ ReaderInv(reader[r], task[r])
  BY DEF Init, NoTask, NoReader, TaskInv, ReaderInv
<1>6. QED
  BY <1>3, <1>4, <1>5 DEF IInv, Init

\* A step of one read, on a Drive that stays as it is.
LEMMA StepOf ==
  ASSUME ReadsAssumption, IInv, NEW r \in Tasks, NEW t \in Task, NEW q \in Reader,
         task' = [task EXCEPT ![r] = t], reader' = [reader EXCEPT ![r] = q],
         TaskInv(t), ReaderInv(q, t), MapInv',
         CacheInv', Len(cache') <= CacheSize, Unique(cache'), calls' \in 0..MaxCalls,
         UNCHANGED drive
  PROVE  IInv'
<1>0. UNCHANGED <<version, parent, under, gone, changes>>
  BY DEF drive
<1>1. /\ task'[r] = t /\ reader'[r] = q
      /\ \A s \in Tasks : s # r => task'[s] = task[s] /\ reader'[s] = reader[s]
  BY DEF IInv, TypeOK
<1>2. task' \in [Tasks -> Task] /\ reader' \in [Tasks -> Reader]
  BY DEF IInv, TypeOK
<1>3. TypeOK'
  BY <1>0, <1>2 DEF IInv, TypeOK, Unique, MapInv
<1>4. \A s \in Tasks : TaskInv(task'[s]) /\ ReaderInv(reader'[s], task'[s])
  BY <1>1 DEF IInv
<1>5. \A s \in Tasks : TaskInv(task[s])' /\ ReaderInv(reader[s], task[s])'
  <2>1. ASSUME NEW s \in Tasks PROVE TaskInv(task[s])'
    BY <1>0, <1>4 DEF TaskInv, Member, Home, Lately
  <2>2. ASSUME NEW s \in Tasks PROVE ReaderInv(reader[s], task[s])'
    BY <1>0, <1>4 DEF ReaderInv, PiecesInv
  <2>3. QED
    BY <2>1, <2>2
<1>6. QED
  BY <1>0, <1>3, <1>5 DEF IInv

\* A read that ends in an error keeps nothing, and its reader what it had.
LEMMA RaiseStep ==
  ASSUME ReadsAssumption, IInv, NEW r \in Tasks, Raise(r), task[r].pc # "idle",
         CacheInv', Len(cache') <= CacheSize, Unique(cache'), MapInv',
         UNCHANGED <<drive, calls, reader>>
  PROVE  IInv'
<1> DEFINE u == [NoTask EXCEPT !.doc = task[r].doc]
           t == [u EXCEPT !.outcome = "raised"]
<1>1. task[r] \in Task /\ reader[r] \in Reader
  BY Typed DEF IInv
<1>2. t \in Task /\ t.pc = "idle" /\ t.outcome = "raised"
  <2>1. NoTask \in Task /\ NoTask.pc = "idle" /\ task[r].doc \in Docs \cup {None}
    BY <1>1 DEF NoTask, Task, ReadsAssumption, Version
  <2>2. u \in Task /\ u.pc = "idle"
    BY <2>1 DEF Task
  <2> HIDE DEF u
  <2>3. QED
    BY <2>2 DEF Task
<1>3. task' = [task EXCEPT ![r] = t]
  BY DEF Raise
<1> HIDE DEF t, u
<1>4. reader' = [reader EXCEPT ![r] = reader[r]]
  BY DEF IInv, TypeOK
<1>5. TaskInv(t)
  BY <1>2 DEF TaskInv
<1>6. ReaderInv(reader[r], t)
  BY <1>2 DEF IInv, ReaderInv
<1>7. calls' \in 0..MaxCalls
  BY DEF IInv, TypeOK
<1>8. QED
  BY <1>1, <1>2, <1>3, <1>4, <1>5, <1>6, <1>7, StepOf

\* A text at least as new as the proof is served, and its chunk is what the
\* reader's chunks lack next.
LEMMA ServeStep ==
  ASSUME ReadsAssumption, IInv, NEW r \in Tasks, NEW v \in Version, Serve(r, v),
         task[r].pc \in {"proven", "parsing"}, task[r].cursor # Malformed,
         task[r].proof <= v, v <= version[task[r].doc],
         CacheInv', Len(cache') <= CacheSize, Unique(cache'), MapInv',
         UNCHANGED <<drive, calls>>
  PROVE  IInv'
<1> DEFINE d == task[r].doc
           from == task[r].cursor
           length == Length[<<d, v>>]
           q == reader[r]
<1>1. task[r] \in Task /\ q \in Reader /\ q.pieces \in Seq(Piece) /\ q.since \in Nat
      /\ task[r].begun \in Nat /\ Version \subseteq Nat
  BY Typed DEF IInv
<1>2. /\ d \in Docs /\ task[r].begun <= task[r].proof /\ task[r].proof \in Version
      /\ Member(task[r])
  BY DEF IInv, TaskInv
<1>3. version[d] \in Nat /\ length \in Nat /\ task[r].begun <= v
  <2>1. version[d] \in Nat
    BY <1>1, <1>2, Typed DEF IInv
  <2>2. length \in Nat
    BY <1>2, Typed DEF IInv
  <2>3. task[r].proof \in Nat /\ v \in Nat
    BY <1>1, <1>2
  <2>4. task[r].begun <= task[r].proof /\ task[r].proof <= v
    BY <1>2
  <2>5. task[r].begun <= v
    BY <1>1, <2>3, <2>4
  <2>6. QED
    BY <2>1, <2>2, <2>5
<1>4. CASE (length = 0 \/ from > length) /\ Raise(r) /\ UNCHANGED reader
  BY <1>4, RaiseStep
<1>5. ASSUME length > 0,
             task' = [task EXCEPT ![r] = [@ EXCEPT !.pc = "idle", !.outcome = "served", !.text = v,
                                          !.proof = None, !.folder = None, !.bytes = None]],
             NEW to \in Ends(from, length),
             reader' = IF q.doc = None THEN reader
                       ELSE [reader EXCEPT ![r].pieces =
                               Append(@, [text |-> v, from |-> from, to |-> to])]
      PROVE  IInv'
  <2> DEFINE t1 == [task[r] EXCEPT !.pc = "idle"]
             t2 == [t1 EXCEPT !.outcome = "served"]
             t3 == [t2 EXCEPT !.text = v]
             t4 == [t3 EXCEPT !.proof = None]
             t5 == [t4 EXCEPT !.folder = None]
             t == [t5 EXCEPT !.bytes = None]
  <2>1. task' = [task EXCEPT ![r] = t]
    <3>1. task \in [Tasks -> Task]
      BY DEF IInv, TypeOK
    <3>2. QED
      BY <1>5, <3>1
  <2>2. /\ t \in Task /\ t.pc = "idle" /\ t.outcome = "served" /\ t.text = v
        /\ t.begun = task[r].begun /\ t.homes = task[r].homes /\ t.lately = task[r].lately
    <3>1. /\ t1 \in Task /\ t1.pc = "idle"
          /\ t1.begun = task[r].begun /\ t1.homes = task[r].homes /\ t1.lately = task[r].lately
      BY <1>1 DEF Task
    <3> HIDE DEF t1
    <3>2. /\ t2 \in Task /\ t2.pc = "idle" /\ t2.outcome = "served"
          /\ t2.begun = task[r].begun /\ t2.homes = task[r].homes /\ t2.lately = task[r].lately
      BY <3>1 DEF Task
    <3> HIDE DEF t2
    <3>3. /\ t3 \in Task /\ t3.pc = "idle" /\ t3.outcome = "served" /\ t3.text = v
          /\ t3.begun = task[r].begun /\ t3.homes = task[r].homes /\ t3.lately = task[r].lately
      BY <3>2 DEF Task
    <3> HIDE DEF t3
    <3>4. /\ t4 \in Task /\ t4.pc = "idle" /\ t4.outcome = "served" /\ t4.text = v
          /\ t4.begun = task[r].begun /\ t4.homes = task[r].homes /\ t4.lately = task[r].lately
      BY <3>3 DEF Task
    <3> HIDE DEF t4
    <3>5. /\ t5 \in Task /\ t5.pc = "idle" /\ t5.outcome = "served" /\ t5.text = v
          /\ t5.begun = task[r].begun /\ t5.homes = task[r].homes /\ t5.lately = task[r].lately
      BY <3>4 DEF Task
    <3> HIDE DEF t5
    <3>6. QED
      BY <3>5 DEF Task
  <2> HIDE DEF t, t1, t2, t3, t4, t5
  <2>3. TaskInv(t)
    BY <1>2, <1>3, <2>2 DEF TaskInv, Member
  <2>4. calls' \in 0..MaxCalls
    BY DEF IInv, TypeOK
  <2>5. CASE q.doc = None
    <3>1. reader' = [reader EXCEPT ![r] = q]
      BY <1>5, <2>5 DEF IInv, TypeOK
    <3>2. ReaderInv(q, t)
      BY <2>5 DEF IInv, ReaderInv
    <3>3. QED
      BY <1>1, <2>1, <2>2, <2>3, <2>4, <3>1, <3>2, StepOf
  <2>6. CASE q.doc # None
    <3> DEFINE p == [text |-> v, from |-> from, to |-> to]
               pieces == Append(q.pieces, p)
               new == [q EXCEPT !.pieces = pieces]
    <3>1. from \in Nat /\ to \in Nat /\ from <= to /\ to <= length
      BY <1>1, <1>3, <1>5 DEF Ends, Task, ReadsAssumption
    <3>2. p \in Piece /\ p.text = v /\ p.from = from /\ p.to = to
      BY <3>1 DEF Piece
    <3>3. /\ q.since <= version[q.doc] /\ PiecesInv(q) /\ q.doc = d
          /\ q.since <= task[r].begun /\ from = ReadTo(q.pieces)
      BY <2>6 DEF IInv, ReaderInv
    <3> HIDE DEF p
    <3>4. /\ pieces \in Seq(Piece) /\ pieces # <<>> /\ Last(pieces) = p
          /\ \A n \in 1..Len(pieces) : pieces[n] = p \/ \E m \in 1..Len(q.pieces) : pieces[n] = q.pieces[m]
          /\ Covered(pieces) = 0..ReadTo(pieces) - 1
      BY <1>1, <3>1, <3>2, <3>3, AnotherPiece DEF PiecesInv
    <3> HIDE DEF pieces
    <3>5. new \in Reader /\ new.doc = d /\ new.since = q.since /\ new.pieces = pieces
      BY <1>1, <3>3, <3>4 DEF Reader
    <3>6. reader' = [reader EXCEPT ![r] = new]
      BY <1>5, <2>6 DEF IInv, TypeOK, p, pieces
    <3> HIDE DEF new
    <3>7. q.since <= v
      BY <1>1, <1>3, <3>3
    <3>8. PiecesInv(new)
      BY <3>1, <3>2, <3>3, <3>4, <3>5, <3>7 DEF PiecesInv
    <3>9. ReaderInv(new, t)
      BY <2>2, <2>6, <3>3, <3>5, <3>8 DEF ReaderInv
    <3>10. QED
      BY <2>1, <2>2, <2>3, <2>4, <3>5, <3>6, <3>9, StepOf
  <2>7. QED
    BY <2>5, <2>6
<1>6. QED
  BY <1>4, <1>5 DEF Serve

\* A call begins: its reader starts over, goes on where it was, or is lost sight of.
LEMMA CallStep ==
  ASSUME ReadsAssumption, IInv, NEW r \in Tasks, NEW d \in Docs,
         NEW c \in Offsets \cup {Malformed}, Call(r, d, c)
  PROVE  IInv'
<1> DEFINE t1 == [NoTask EXCEPT !.pc = "proving"]
           t2 == [t1 EXCEPT !.doc = d]
           t3 == [t2 EXCEPT !.cursor = c]
           t4 == [t3 EXCEPT !.begun = version[d]]
           t5 == [t4 EXCEPT !.homes = Home(d)]
           t == [t5 EXCEPT !.lately = Lately]
           q == reader[r]
<1>1. q \in Reader /\ q.pieces \in Seq(Piece) /\ q.since \in Nat /\ version[d] \in Nat
      /\ version[d] \in Version /\ Version \subseteq Nat
      /\ Home(d) \subseteq Folders /\ Lately \subseteq Folders
  BY Typed DEF IInv
<1>2. task' = [task EXCEPT ![r] = t]
  BY DEF Call
<1>3. /\ t \in Task /\ t.pc = "proving" /\ t.doc = d /\ t.cursor = c /\ t.begun = version[d]
      /\ t.outcome = "none" /\ t.homes = Home(d) /\ t.lately = Lately
  <2>1. NoTask \in Task /\ NoTask.outcome = "none"
    BY DEF NoTask, Task, ReadsAssumption, Version
  <2>2. t1 \in Task /\ t1.pc = "proving" /\ t1.outcome = "none"
    BY <2>1 DEF Task
  <2> HIDE DEF t1
  <2>3. t2 \in Task /\ t2.pc = "proving" /\ t2.outcome = "none" /\ t2.doc = d
    BY <2>2 DEF Task
  <2> HIDE DEF t2
  <2>4. t3 \in Task /\ t3.pc = "proving" /\ t3.outcome = "none" /\ t3.doc = d /\ t3.cursor = c
    BY <2>3 DEF Task
  <2> HIDE DEF t3
  <2>5. t4 \in Task /\ t4.pc = "proving" /\ t4.outcome = "none" /\ t4.doc = d /\ t4.cursor = c
        /\ t4.begun = version[d]
    BY <1>1, <2>4 DEF Task
  <2> HIDE DEF t4
  <2>6. t5 \in Task /\ t5.pc = "proving" /\ t5.outcome = "none" /\ t5.doc = d /\ t5.cursor = c
        /\ t5.begun = version[d] /\ t5.homes = Home(d)
    BY <1>1, <2>5 DEF Task
  <2> HIDE DEF t5
  <2>7. QED
    BY <1>1, <2>6 DEF Task
<1> HIDE DEF t, t1, t2, t3, t4, t5
<1>4. TaskInv(t)
  BY <1>1, <1>3 DEF TaskInv
<1>5. CacheInv' /\ Len(cache') <= CacheSize /\ Unique(cache') /\ calls' \in 0..MaxCalls
      /\ MapInv' /\ UNCHANGED drive
  <2>1. UNCHANGED <<drive, folderMap, cache>> /\ calls < MaxCalls /\ calls' = calls + 1
    BY DEF Call
  <2>2. calls' \in 0..MaxCalls
    BY <2>1 DEF IInv, TypeOK, ReadsAssumption
  <2>3. QED
    BY <2>1, <2>2 DEF IInv, TypeOK, CacheInv, Unique, Sound, MapInv, drive
<1>6. PICK new \in Reader : reader' = [reader EXCEPT ![r] = new] /\ ReaderInv(new, t)
  <2>1. CASE c = 0
    <3> DEFINE new == [doc |-> d, since |-> version[d], pieces |-> <<>>]
    <3>1. new \in Reader /\ new.doc = d /\ new.since = version[d] /\ new.pieces = <<>>
      BY <1>1 DEF Reader
    <3>2. reader' = [reader EXCEPT ![r] = new]
      BY <2>1 DEF Call, Follow
    <3> HIDE DEF new
    <3>3. Len(<<>>) = 0 /\ ReadTo(<<>>) = 0
      BY DEF ReadTo
    <3>4. PiecesInv(new)
      BY <3>1, <3>3, NoPieces DEF PiecesInv
    <3>5. ReaderInv(new, t)
      BY <1>1, <1>3, <2>1, <3>1, <3>3, <3>4 DEF ReaderInv
    <3>6. QED
      BY <3>1, <3>2, <3>5
  <2>2. CASE c # 0 /\ q.doc = d /\ Held(r) = c
    <3>1. reader' = [reader EXCEPT ![r] = q]
      BY <2>2 DEF Call, Follow
    <3>2. c # None /\ d # None
      BY DEF ReadsAssumption
    <3>3. q.pieces # <<>> /\ c = ReadTo(q.pieces)
      BY <2>2, <3>2 DEF Held, NextCursor, ReadTo
    <3>4. q.since <= version[d] /\ PiecesInv(q)
      BY <2>2, <3>2 DEF IInv, ReaderInv
    <3>5. ReaderInv(q, t)
      BY <1>3, <2>2, <3>2, <3>3, <3>4 DEF ReaderInv
    <3>6. QED
      BY <1>1, <3>1, <3>5
  <2>3. CASE c # 0 /\ ~(q.doc = d /\ Held(r) = c)
    <3>1. reader' = [reader EXCEPT ![r] = NoReader]
      BY <2>3 DEF Call, Follow
    <3>2. NoReader \in Reader /\ NoReader.doc = None /\ NoReader.pieces = <<>>
      BY DEF NoReader, Reader, Version, ReadsAssumption
    <3>3. QED
      BY <3>1, <3>2 DEF ReaderInv
  <2>4. QED
    BY <2>1, <2>2, <2>3
<1>7. QED
  BY <1>2, <1>3, <1>4, <1>5, <1>6, StepOf

\* A step that only moves a call on, with what it has learnt.
LEMMA OnwardStep ==
  ASSUME ReadsAssumption, IInv, NEW r \in Tasks, NEW t \in Task,
         task[r].pc # "idle", t.doc = task[r].doc, t.begun = task[r].begun,
         t.cursor = task[r].cursor,
         task' = [task EXCEPT ![r] = t], TaskInv(t), MapInv',
         UNCHANGED <<drive, calls, cache, reader>>
  PROVE  IInv'
<1>1. reader[r] \in Reader /\ reader' = [reader EXCEPT ![r] = reader[r]]
  BY DEF IInv, TypeOK
<1>2. ReaderInv(reader[r], t)
  BY DEF IInv, ReaderInv
<1>3. CacheInv' /\ Len(cache') <= CacheSize /\ Unique(cache') /\ calls' \in 0..MaxCalls
  BY DEF IInv, TypeOK, CacheInv, Unique, Sound, drive
<1>4. QED
  BY <1>1, <1>2, <1>3, StepOf

\* The map is as it was.
LEMMA MapStays == ASSUME MapInv, UNCHANGED <<drive, folderMap>> PROVE MapInv'
  BY DEF MapInv, drive

LEMMA ReadItemStep ==
  ASSUME ReadsAssumption, IInv, NEW r \in Tasks, ReadItem(r)
  PROVE  IInv'
<1> DEFINE d == task[r].doc
           t1 == [task[r] EXCEPT !.pc = "placing"]
           t2 == [t1 EXCEPT !.proof = version[d]]
           t == [t2 EXCEPT !.folder = parent[d]]
<1>0. task[r].pc = "proving" /\ UNCHANGED <<drive, calls, folderMap, cache, reader>>
  BY DEF ReadItem
<1>1. /\ task[r] \in Task /\ d \in Docs /\ task[r].outcome = "none"
      /\ task[r].begun <= version[d] /\ Home(d) \subseteq task[r].homes
      /\ Lately \subseteq task[r].lately
  BY <1>0, Typed DEF IInv, TaskInv
<1>2. version[d] \in Version /\ version[d] \in Nat /\ parent[d] \in Folders \cup {None}
  BY <1>1, Typed DEF IInv
<1>3. MapInv'
  BY <1>0, MapStays DEF IInv
<1>4. CASE Raise(r)
  <2>1. CacheInv' /\ Len(cache') <= CacheSize /\ Unique(cache')
    BY <1>0 DEF IInv, TypeOK, CacheInv, Unique, Sound, drive
  <2>2. QED
    BY <1>0, <1>3, <1>4, <2>1, RaiseStep
<1>5. CASE /\ parent[d] # None
           /\ task' = [task EXCEPT ![r].pc = "placing", ![r].proof = version[d],
                                   ![r].folder = parent[d]]
  <2>1. task' = [task EXCEPT ![r] = t]
    BY <1>5 DEF IInv, TypeOK
  <2>2. /\ t \in Task /\ t.pc = "placing" /\ t.proof = version[d] /\ t.doc = d
        /\ t.begun = task[r].begun /\ t.cursor = task[r].cursor /\ t.folder = parent[d]
        /\ t.homes = task[r].homes /\ t.lately = task[r].lately /\ t.outcome = "none"
    <3>1. /\ t1 \in Task /\ t1.pc = "placing" /\ t1.doc = d /\ t1.outcome = "none"
          /\ t1.begun = task[r].begun /\ t1.cursor = task[r].cursor
          /\ t1.homes = task[r].homes /\ t1.lately = task[r].lately
      BY <1>1 DEF Task
    <3> HIDE DEF t1
    <3>2. /\ t2 \in Task /\ t2.pc = "placing" /\ t2.doc = d /\ t2.outcome = "none"
          /\ t2.begun = task[r].begun /\ t2.cursor = task[r].cursor /\ t2.proof = version[d]
          /\ t2.homes = task[r].homes /\ t2.lately = task[r].lately
      BY <1>2, <3>1 DEF Task
    <3> HIDE DEF t2
    <3>3. QED
      BY <1>2, <3>2 DEF Task
  <2> HIDE DEF t, t1, t2
  <2>3. parent[d] \in task[r].homes
    BY <1>1, <1>5 DEF Home
  <2>4. TaskInv(t)
    BY <1>1, <1>2, <2>2, <2>3 DEF TaskInv
  <2>5. QED
    BY <1>0, <1>3, <2>1, <2>2, <2>4, OnwardStep
<1>6. QED
  BY <1>4, <1>5 DEF ReadItem

\* A call under way has seen every folder that is in the corpus, or in a map
\* that is still good.
LEMMA MapIsRecent ==
  ASSUME ReadsAssumption, IInv
  PROVE  under \subseteq Lately /\ CachedFolderMap \subseteq Lately
<1>1. under \subseteq Lately
  BY DEF Lately
<1>2. ASSUME folderMap.age < TTL, NEW f \in folderMap.folders
      PROVE  f \in Lately
  <2>1. f \in Folders /\ gone[f] \in 0..TTL /\ folderMap.age \in 0..TTL /\ TTL \in Nat
    BY <1>2 DEF IInv, TypeOK, MapInv, FolderMap, ReadsAssumption
  <2>2. gone[f] <= folderMap.age
    BY <1>2 DEF IInv, MapInv
  <2>3. gone[f] < TTL
    BY <1>2, <2>1, <2>2
  <2>4. QED
    BY <2>1, <2>3 DEF Lately
<1>3. QED
  BY <1>1, <1>2 DEF CachedFolderMap

LEMMA PlaceStep ==
  ASSUME ReadsAssumption, IInv, NEW r \in Tasks, Place(r)
  PROVE  IInv'
<1> DEFINE d == task[r].doc
           t == [task[r] EXCEPT !.pc = "proven"]
<1>0. task[r].pc = "placing" /\ UNCHANGED <<drive, calls, cache, reader>>
  BY DEF Place
<1>1. /\ task[r] \in Task /\ d \in Docs /\ task[r].outcome = "none"
      /\ task[r].begun <= version[d] /\ Home(d) \subseteq task[r].homes
      /\ Lately \subseteq task[r].lately /\ task[r].folder \in task[r].homes
      /\ task[r].proof \in Version /\ task[r].begun <= task[r].proof
      /\ task[r].proof <= version[d]
  BY <1>0, Typed DEF IInv, TaskInv
<1>2. MapInv'
  <2>1. CASE UNCHANGED folderMap
    BY <1>0, <2>1, MapStays DEF IInv
  <2>2. CASE TTL > 0 /\ folderMap' = [folders |-> under, age |-> 0]
    <3>1. folderMap' \in FolderMap
      BY <2>2 DEF IInv, TypeOK, FolderMap, ReadsAssumption
    <3>2. \A f \in under : gone'[f] = 0
      BY <1>0 DEF IInv, drive
    <3>3. \A f \in folderMap'.folders : gone'[f] <= folderMap'.age
      BY <2>2, <3>2
    <3>4. QED
      BY <3>1, <3>3 DEF MapInv, FolderMap
  <2>3. QED
    BY <2>1, <2>2 DEF Place
<1>3. CASE Raise(r)
  <2>1. CacheInv' /\ Len(cache') <= CacheSize /\ Unique(cache')
    BY <1>0 DEF IInv, TypeOK, CacheInv, Unique, Sound, drive
  <2>2. QED
    BY <1>0, <1>2, <1>3, <2>1, RaiseStep
<1>4. CASE Allow(r) /\ (InMap(r, CachedFolderMap) \/ InMap(r, under))
  <2>1. task' = [task EXCEPT ![r] = t]
    BY <1>4 DEF Allow, IInv, TypeOK
  <2>2. /\ t \in Task /\ t.pc = "proven" /\ t.proof = task[r].proof /\ t.doc = d
        /\ t.begun = task[r].begun /\ t.cursor = task[r].cursor
        /\ t.homes = task[r].homes /\ t.lately = task[r].lately /\ t.outcome = "none"
    BY <1>1 DEF Task
  <2> HIDE DEF t
  <2>3. task[r].folder \in task[r].lately
    BY <1>1, <1>4, MapIsRecent DEF InMap
  <2>4. Member(task[r])
    BY <1>1, <2>3 DEF Member
  <2>5. TaskInv(t)
    BY <1>1, <2>2, <2>4 DEF TaskInv, Member
  <2>6. QED
    BY <1>0, <1>2, <2>1, <2>2, <2>5, OnwardStep
<1>5. QED
  BY <1>3, <1>4 DEF Place

LEMMA DownloadStep ==
  ASSUME ReadsAssumption, IInv, NEW r \in Tasks, Download(r)
  PROVE  IInv'
<1> DEFINE d == task[r].doc
           t1 == [task[r] EXCEPT !.pc = "parsing"]
           t == [t1 EXCEPT !.bytes = version[d]]
<1>0. task[r].pc = "downloading" /\ UNCHANGED <<drive, calls, folderMap, cache, reader>>
  BY DEF Download
<1>1. /\ task[r] \in Task /\ d \in Docs /\ task[r].outcome = "none" /\ Member(task[r])
      /\ Home(d) \subseteq task[r].homes /\ Lately \subseteq task[r].lately
      /\ task[r].begun <= version[d] /\ task[r].cursor # Malformed
      /\ task[r].proof \in Version /\ task[r].begun <= task[r].proof
      /\ task[r].proof <= version[d]
  BY <1>0, Typed DEF IInv, TaskInv
<1>2. version[d] \in Version /\ version[d] \in Nat
  BY <1>1, Typed DEF IInv
<1>3. task' = [task EXCEPT ![r] = t]
  BY DEF Download, IInv, TypeOK
<1>4. /\ t \in Task /\ t.pc = "parsing" /\ t.bytes = version[d] /\ t.doc = d
      /\ t.begun = task[r].begun /\ t.cursor = task[r].cursor
      /\ t.homes = task[r].homes /\ t.lately = task[r].lately
      /\ t.outcome = "none" /\ t.proof = task[r].proof
  <2>1. /\ t1 \in Task /\ t1.pc = "parsing" /\ t1.doc = d /\ t1.outcome = "none"
        /\ t1.begun = task[r].begun /\ t1.cursor = task[r].cursor
        /\ t1.homes = task[r].homes /\ t1.lately = task[r].lately
        /\ t1.proof = task[r].proof
    BY <1>1 DEF Task
  <2> HIDE DEF t1
  <2>2. QED
    BY <1>2, <2>1 DEF Task
<1> HIDE DEF t, t1
<1>5. TaskInv(t)
  BY <1>1, <1>2, <1>4 DEF TaskInv, Member
<1>6. MapInv'
  BY <1>0, MapStays DEF IInv
<1>7. QED
  BY <1>0, <1>3, <1>4, <1>5, <1>6, OnwardStep

LEMMA LookUpStep ==
  ASSUME ReadsAssumption, IInv, NEW r \in Tasks, LookUp(r)
  PROVE  IInv'
<1> DEFINE d == task[r].doc
           k == Key(d, task[r].proof)
<1>0. task[r].pc = "proven" /\ UNCHANGED <<drive, calls, folderMap>>
  BY DEF LookUp
<1>1. /\ task[r] \in Task /\ d \in Docs /\ task[r].outcome = "none" /\ Member(task[r])
      /\ Home(d) \subseteq task[r].homes /\ Lately \subseteq task[r].lately
      /\ task[r].begun <= version[d]
      /\ task[r].proof \in Version /\ task[r].begun <= task[r].proof
      /\ task[r].proof <= version[d]
  BY <1>0, Typed DEF IInv, TaskInv
<1>2. CacheInv /\ Unique(cache) /\ Len(cache) <= CacheSize
  BY DEF IInv, TypeOK, Unique
<1>m. MapInv'
  BY <1>0, MapStays DEF IInv
<1>v. UNCHANGED version
  BY <1>0 DEF drive
<1>3. CASE Raise(r) /\ UNCHANGED <<cache, reader>>
  BY <1>0, <1>2, <1>3, <1>m, <1>v, RaiseStep DEF CacheInv, Unique, Sound
<1>4. CASE /\ task[r].cursor # Malformed /\ Cached(k)
           /\ cache' = MoveToEnd(k) /\ Serve(r, Entry(k).text)
  <2>1. Entry(k).key = k /\ Entry(k) \in CacheEntry /\ Sound(Entry(k))
    BY <1>2, <1>4, SlotIn
  <2>2. Entry(k).text \in Version /\ task[r].proof <= Entry(k).text /\ Entry(k).text <= version[d]
    BY <2>1 DEF Key, CacheEntry, Sound
  <2>3. /\ MoveToEnd(k) \in Seq(CacheEntry) /\ Len(MoveToEnd(k)) = Len(cache)
        /\ From(MoveToEnd(k), Entry(k)) /\ Unique(MoveToEnd(k))
    BY <1>2, <1>4, MoveToEndProperties
  <2>4. CacheInv'
    BY <1>2, <1>4, <1>v, <2>1, <2>3, CacheStays
  <2>5. Len(cache') <= CacheSize /\ Unique(cache')
    BY <1>2, <1>4, <2>3 DEF Unique
  <2>6. QED
    BY <1>0, <1>4, <1>m, <2>2, <2>4, <2>5, ServeStep
<1>5. CASE /\ task[r].cursor # Malformed
           /\ task' = [task EXCEPT ![r].pc = "downloading"] /\ UNCHANGED <<cache, reader>>
  <2> DEFINE t == [task[r] EXCEPT !.pc = "downloading"]
  <2>1. task' = [task EXCEPT ![r] = t]
    BY <1>5 DEF IInv, TypeOK
  <2>2. /\ t \in Task /\ t.pc = "downloading" /\ t.doc = d /\ t.begun = task[r].begun
        /\ t.cursor = task[r].cursor /\ t.homes = task[r].homes /\ t.lately = task[r].lately
        /\ t.outcome = "none" /\ t.proof = task[r].proof
    BY <1>1 DEF Task
  <2> HIDE DEF t
  <2>3. TaskInv(t)
    BY <1>1, <1>5, <2>2 DEF TaskInv, Member
  <2>4. QED
    BY <1>0, <1>5, <1>m, <2>1, <2>2, <2>3, OnwardStep
<1>6. QED
  BY <1>3, <1>4, <1>5 DEF LookUp

LEMMA ExtractStep ==
  ASSUME ReadsAssumption, IInv, NEW r \in Tasks, Extract(r)
  PROVE  IInv'
<1> DEFINE d == task[r].doc
           k == Key(d, task[r].proof)
           v == task[r].bytes
           e == [key |-> k, text |-> v]
<1>0. /\ task[r].pc = "parsing" /\ UNCHANGED <<drive, calls, folderMap>>
      /\ cache' = Evicted(Store(k, v)) /\ Serve(r, v)
  BY DEF Extract
<1>1. /\ d \in Docs /\ task[r].proof \in Version /\ task[r].cursor # Malformed
      /\ v \in Version /\ task[r].proof <= v /\ v <= version[d]
  BY <1>0 DEF IInv, TaskInv
<1>2. CacheInv /\ Unique(cache) /\ CacheSize \in Nat
  BY DEF IInv, TypeOK, Unique, ReadsAssumption
<1>3. k \in Keys /\ Sound(e)
  BY <1>1 DEF Key, Keys, Sound
<1>4. Store(k, v) \in Seq(CacheEntry) /\ From(Store(k, v), e) /\ Unique(Store(k, v))
  BY <1>1, <1>2, <1>3, StoreProperties
<1> HIDE DEF e
<1>5. /\ Evicted(Store(k, v)) \in Seq(CacheEntry) /\ Len(Evicted(Store(k, v))) <= CacheSize
      /\ From(Evicted(Store(k, v)), e) /\ Unique(Evicted(Store(k, v)))
  BY <1>2, <1>4, EvictedProperties
<1>6. CacheInv'
  BY <1>0, <1>2, <1>3, <1>5, CacheStays DEF drive
<1>7. Len(cache') <= CacheSize /\ Unique(cache')
  BY <1>0, <1>5 DEF Unique
<1>8. MapInv'
  BY <1>0, MapStays DEF IInv
<1>9. QED
  BY <1>0, <1>1, <1>6, <1>7, <1>8, ServeStep

LEMMA FailStep ==
  ASSUME ReadsAssumption, IInv, NEW r \in Tasks, Fail(r)
  PROVE  IInv'
<1>1. task[r].pc # "idle" /\ Raise(r) /\ UNCHANGED <<drive, calls, folderMap, cache, reader>>
  BY DEF Fail
<1>2. CacheInv' /\ Len(cache') <= CacheSize /\ Unique(cache')
  BY <1>1 DEF IInv, TypeOK, CacheInv, Unique, Sound, drive
<1>3. MapInv'
  BY <1>1, MapStays DEF IInv
<1>4. QED
  BY <1>1, <1>2, <1>3, RaiseStep

\* What a step that is no read's own does to a read: it has seen more.
Grown(t, u) ==
  /\ u.pc = t.pc /\ u.doc = t.doc /\ u.cursor = t.cursor /\ u.proof = t.proof
  /\ u.folder = t.folder /\ u.bytes = t.bytes /\ u.outcome = t.outcome
  /\ u.text = t.text /\ u.begun = t.begun
  /\ t.homes \subseteq u.homes /\ t.lately \subseteq u.lately

\* A change of Drive: documents only get newer, and the calls under way have seen
\* where theirs lie and what is in the corpus.
LEMMA DriveStep ==
  ASSUME ReadsAssumption, IInv,
         UNCHANGED <<calls, cache, reader>>,
         version' \in [Docs -> Version], parent' \in [Docs -> Folders \cup {None}],
         under' \subseteq Folders, gone' \in [Folders -> 0..TTL], changes' \in 0..MaxChanges,
         \A c \in Docs : version[c] <= version'[c] /\ version'[c] <= changes',
         \A f \in under' : gone'[f] = 0,
         MapInv',
         task' \in [Tasks -> Task],
         \A s \in Tasks : Grown(task[s], task'[s]),
         \A s \in Tasks : task[s].pc # "idle" =>
            /\ {parent'[task[s].doc]} \ {None} \subseteq task'[s].homes
            /\ under' \cup {f \in Folders : gone'[f] < TTL} \subseteq task'[s].lately
  PROVE  IInv'
<1>1. /\ \A c \in Docs : version[c] \in Nat /\ version'[c] \in Nat
      /\ Version \subseteq Nat
  BY Typed DEF IInv
<1>2. \A c \in Docs, n \in Nat : n <= version[c] => n <= version'[c]
  <2>1. \A a, b, c \in Nat : a <= b /\ b <= c => a <= c
    OBVIOUS
  <2>2. QED
    BY <1>1, <2>1
<1>3. ASSUME NEW s \in Tasks
      PROVE  TaskInv(task[s])' /\ ReaderInv(reader[s], task[s])'
  <2>1. task[s] \in Task /\ task[s].begun \in Nat /\ reader[s] \in Reader
        /\ reader[s].since \in Nat /\ reader[s].pieces \in Seq(Piece)
    BY Typed DEF IInv
  <2> DEFINE t == task[s]
             u == task'[s]
  <2>2. Grown(t, u) /\ TaskInv(t) /\ ReaderInv(reader[s], t)
    BY DEF IInv
  <2>3. /\ u.pc = t.pc /\ u.doc = t.doc /\ u.cursor = t.cursor /\ u.proof = t.proof
        /\ u.folder = t.folder /\ u.bytes = t.bytes /\ u.outcome = t.outcome
        /\ u.text = t.text /\ u.begun = t.begun
        /\ t.homes \subseteq u.homes /\ t.lately \subseteq u.lately
    BY <2>2 DEF Grown
  <2>4. Member(t) => Member(u)
    BY <2>3 DEF Member
  <2>5. u.pc # "idle" => /\ u.doc \in Docs /\ u.outcome = "none" /\ u.begun <= version'[u.doc]
                         /\ {parent'[u.doc]} \ {None} \subseteq u.homes
                         /\ under' \cup {f \in Folders : gone'[f] < TTL} \subseteq u.lately
    BY <1>2, <2>1, <2>2, <2>3 DEF TaskInv
  <2>6. u.pc \in {"placing", "proven", "downloading", "parsing"} =>
          u.proof \in Version /\ u.begun <= u.proof /\ u.proof <= version'[u.doc]
    BY <1>1, <1>2, <2>2, <2>3 DEF TaskInv
  <2>7. u.pc = "parsing" => u.bytes \in Version /\ u.proof <= u.bytes /\ u.bytes <= version'[u.doc]
    BY <1>1, <1>2, <2>2, <2>3 DEF TaskInv
  <2>8. /\ u.pc = "placing" => u.folder \in u.homes
        /\ u.pc \in {"proven", "downloading", "parsing"} => Member(u)
        /\ u.pc \in {"downloading", "parsing"} => u.cursor # Malformed
        /\ u.outcome = "served" => u.text \in Version /\ u.begun <= u.text /\ Member(u)
    BY <2>2, <2>3, <2>4 DEF TaskInv
  <2>9. TaskInv(task[s])'
    BY <2>5, <2>6, <2>7, <2>8 DEF TaskInv, Member, Home, Lately
  <2> HIDE DEF t, u
  <2>10. CASE reader[s].doc = None
    BY <2>2, <2>9, <2>10 DEF ReaderInv
  <2>11. CASE reader[s].doc # None
    <3>1. reader[s].doc \in Docs
      BY <2>1, <2>11 DEF Reader
    <3>2. \A n \in 1..Len(reader[s].pieces) : reader[s].pieces[n].text \in Nat
      <4>1. \A n \in 1..Len(reader[s].pieces) : reader[s].pieces[n] \in Piece
        BY <2>1, ElementOfSeq
      <4>2. QED
        BY <1>1, <4>1 DEF Piece
    <3>3. reader[s].since <= version[reader[s].doc] /\ PiecesInv(reader[s])
      BY <2>2, <2>11 DEF ReaderInv
    <3>4. PiecesInv(reader[s])'
      BY <1>2, <3>1, <3>2, <3>3 DEF PiecesInv
    <3>5. reader[s].since <= version'[reader[s].doc]
      BY <1>2, <2>1, <3>1, <3>3
    <3>6. u.pc # "idle" => /\ u.doc = reader[s].doc /\ reader[s].since <= u.begun
                           /\ u.cursor = ReadTo(reader[s].pieces)
      BY <2>2, <2>3, <2>11 DEF ReaderInv
    <3>7. QED
      BY <2>9, <2>11, <3>4, <3>5, <3>6 DEF ReaderInv, u
  <2>12. QED
    BY <2>9, <2>10, <2>11
<1>4. CacheInv'
  <2>1. cache \in Seq(CacheEntry) /\ \A n \in 1..Len(cache) : Sound(cache[n])
    BY DEF IInv, CacheInv
  <2>2. ASSUME NEW n \in 1..Len(cache) PROVE Sound(cache[n])'
    <3>1. cache[n].key[1] \in Docs /\ cache[n].text \in Nat
      <4>1. cache[n] \in CacheEntry
        BY <2>1, ElementOfSeq
      <4>2. cache[n].key \in Docs \X Version /\ cache[n].text \in Version
        BY <4>1 DEF CacheEntry, Keys
      <4>3. cache[n].key[1] \in Docs
        BY <4>2
      <4>4. QED
        BY <1>1, <4>2, <4>3
    <3>2. QED
      BY <1>2, <2>1, <3>1 DEF Sound
  <2>3. QED
    BY <2>1, <2>2 DEF CacheInv, CacheEntry, Keys, Version
<1>5. TypeOK'
  BY DEF IInv, TypeOK, MapInv
<1>6. QED
  BY <1>3, <1>4, <1>5 DEF IInv

\* The reads that have seen where their documents lie, and what is in the corpus.
LEMMA WitnessGrows ==
  ASSUME ReadsAssumption, IInv, Witness, under' \subseteq Folders,
         parent' \in [Docs -> Folders \cup {None}]
  PROVE  /\ task' \in [Tasks -> Task]
         /\ \A s \in Tasks : Grown(task[s], task'[s])
         /\ \A s \in Tasks : task[s].pc # "idle" =>
              /\ {parent'[task[s].doc]} \ {None} \subseteq task'[s].homes
              /\ under' \subseteq task'[s].lately
<1>1. ASSUME NEW s \in Tasks
      PROVE  /\ task'[s] \in Task /\ Grown(task[s], task'[s])
             /\ task[s].pc # "idle" =>
                  /\ {parent'[task[s].doc]} \ {None} \subseteq task'[s].homes
                  /\ under' \subseteq task'[s].lately
  <2>1. task[s] \in Task
    BY Typed DEF IInv
  <2>2. CASE task[s].pc = "idle"
    <3>1. task'[s] = task[s]
      BY <2>2 DEF Witness
    <3>2. QED
      BY <2>1, <2>2, <3>1 DEF Grown
  <2>3. CASE task[s].pc # "idle"
    <3> DEFINE h == task[s].homes \cup ({parent'[task[s].doc]} \ {None})
               l == task[s].lately \cup under'
               t1 == [task[s] EXCEPT !.homes = h]
               t2 == [t1 EXCEPT !.lately = l]
    <3>1. task'[s] = t2
      BY <2>1, <2>3 DEF Witness, Task
    <3>2. task[s].doc \in Docs
      BY <2>3 DEF IInv, TaskInv
    <3>3. h \in SUBSET Folders /\ l \in SUBSET Folders
      BY <2>1, <3>2 DEF Task
    <3>4. /\ task[s].homes \subseteq h /\ task[s].lately \subseteq l
          /\ {parent'[task[s].doc]} \ {None} \subseteq h /\ under' \subseteq l
      OBVIOUS
    <3> HIDE DEF h, l
    <3>5. /\ t1 \in Task /\ Grown(task[s], t1) /\ t1.homes = h /\ t1.lately = task[s].lately
      BY <2>1, <3>3, <3>4 DEF Task, Grown
    <3> HIDE DEF t1
    <3>6. t2 \in Task /\ t2.homes = h /\ t2.lately = l
      BY <3>3, <3>5 DEF Task
    <3>7. Grown(task[s], t2)
      BY <3>3, <3>4, <3>5 DEF Task, Grown
    <3>8. QED
      BY <3>1, <3>4, <3>6, <3>7
  <2>4. QED
    BY <2>2, <2>3
<1>2. task' \in [Tasks -> Task]
  <2>1. \E f : task' = [s \in Tasks |-> f[s]]
    <3>1. task' = [s \in Tasks |-> task'[s]]
      BY DEF Witness
    <3>2. QED
      BY <3>1
  <2>2. QED
    BY <1>1, <2>1
<1>3. QED
  BY <1>1, <1>2

LEMMA EditStep ==
  ASSUME ReadsAssumption, IInv, NEW d \in Docs, Edit(d)
  PROVE  IInv'
<1>0. /\ changes < MaxChanges /\ changes' = changes + 1
      /\ UNCHANGED <<calls, folderMap, cache, reader>>
      /\ version' = [version EXCEPT ![d] = @ + 1] /\ UNCHANGED <<parent, under, gone, task>>
  BY DEF Edit, Change
<1>1. /\ changes \in Nat /\ changes' \in 0..MaxChanges /\ changes <= changes'
      /\ \A c \in Docs : version[c] \in Nat /\ version[c] <= changes
      /\ version \in [Docs -> Version]
  BY <1>0, Typed DEF IInv, TypeOK, ReadsAssumption
<1>2. version[d] + 1 \in Version
  BY <1>0, <1>1 DEF Version, ReadsAssumption
<1>3. \A c \in Docs : version'[c] = IF c = d THEN version[c] + 1 ELSE version[c]
  BY <1>0, <1>1
<1>4. version' \in [Docs -> Version]
  BY <1>0, <1>1, <1>2
<1>5. \A c \in Docs : version[c] <= version'[c] /\ version'[c] <= changes'
  BY <1>0, <1>1, <1>3
<1>6. MapInv' /\ under' \subseteq Folders /\ gone' \in [Folders -> 0..TTL]
      /\ parent' \in [Docs -> Folders \cup {None}] /\ \A f \in under' : gone'[f] = 0
  BY <1>0 DEF IInv, TypeOK, MapInv
<1>7. task' \in [Tasks -> Task] /\ \A s \in Tasks : Grown(task[s], task'[s])
  BY <1>0 DEF IInv, TypeOK, Grown
<1>8. ASSUME NEW s \in Tasks, task[s].pc # "idle"
      PROVE  /\ {parent'[task[s].doc]} \ {None} \subseteq task'[s].homes
             /\ under' \cup {f \in Folders : gone'[f] < TTL} \subseteq task'[s].lately
  BY <1>0, <1>8 DEF IInv, TaskInv, Home, Lately
<1>9. QED
  BY <1>0, <1>1, <1>4, <1>5, <1>6, <1>7, <1>8, DriveStep

LEMMA MoveStep ==
  ASSUME ReadsAssumption, IInv, NEW d \in Docs, NEW f \in Folders \cup {None}, Move(d, f)
  PROVE  IInv'
<1>0. /\ changes < MaxChanges /\ changes' = changes + 1
      /\ UNCHANGED <<calls, folderMap, cache, reader>>
      /\ parent' = [parent EXCEPT ![d] = f] /\ UNCHANGED <<version, under, gone>> /\ Witness
  BY DEF Move, Change
<1>1. /\ changes \in Nat /\ changes' \in 0..MaxChanges /\ changes <= changes'
      /\ \A c \in Docs : version[c] \in Nat /\ version[c] <= changes
      /\ version' \in [Docs -> Version]
  BY <1>0, Typed DEF IInv, TypeOK, ReadsAssumption
<1>2. \A c \in Docs : version[c] <= version'[c] /\ version'[c] <= changes'
  BY <1>0, <1>1
<1>3. MapInv' /\ under' \subseteq Folders /\ gone' \in [Folders -> 0..TTL]
      /\ parent' \in [Docs -> Folders \cup {None}] /\ \A g \in under' : gone'[g] = 0
  BY <1>0 DEF IInv, TypeOK, MapInv
<1>4. /\ task' \in [Tasks -> Task] /\ \A s \in Tasks : Grown(task[s], task'[s])
      /\ \A s \in Tasks : task[s].pc # "idle" =>
           /\ {parent'[task[s].doc]} \ {None} \subseteq task'[s].homes
           /\ under' \subseteq task'[s].lately
  BY <1>0, <1>3, WitnessGrows
<1>5. ASSUME NEW s \in Tasks, task[s].pc # "idle"
      PROVE  under' \cup {g \in Folders : gone'[g] < TTL} \subseteq task'[s].lately
  BY <1>0, <1>4, <1>5 DEF IInv, TaskInv, Lately, Grown
<1>6. QED
  BY <1>0, <1>1, <1>2, <1>3, <1>4, <1>5, DriveStep

\* A folder that has just left, or is back, has been out of the corpus for no time.
LEMMA MoveFolderStep ==
  ASSUME ReadsAssumption, IInv, NEW f \in Folders, MoveFolder(f)
  PROVE  IInv'
<1>0. /\ changes < MaxChanges /\ changes' = changes + 1
      /\ UNCHANGED <<calls, folderMap, cache, reader>>
      /\ under' = IF f \in under THEN under \ {f} ELSE under \cup {f}
      /\ gone' = [gone EXCEPT ![f] = 0]
      /\ UNCHANGED <<version, parent>> /\ Witness
  BY DEF MoveFolder, Change
<1>1. /\ changes \in Nat /\ changes' \in 0..MaxChanges /\ changes <= changes'
      /\ \A c \in Docs : version[c] \in Nat /\ version[c] <= changes
      /\ version' \in [Docs -> Version]
  BY <1>0, Typed DEF IInv, TypeOK, ReadsAssumption
<1>2. \A c \in Docs : version[c] <= version'[c] /\ version'[c] <= changes'
  BY <1>0, <1>1
<1>3. under' \subseteq Folders /\ gone' \in [Folders -> 0..TTL]
      /\ parent' \in [Docs -> Folders \cup {None}]
      /\ gone'[f] = 0 /\ \A g \in Folders : g # f => gone'[g] = gone[g]
  BY <1>0 DEF IInv, TypeOK, ReadsAssumption
<1>4. \A g \in under' : gone'[g] = 0
  BY <1>0, <1>3 DEF IInv, TypeOK
<1>5. MapInv'
  <2>1. folderMap \in FolderMap /\ folderMap.folders \subseteq Folders /\ folderMap.age \in Nat
        /\ \A g \in folderMap.folders : gone[g] <= folderMap.age
    BY DEF IInv, MapInv, FolderMap, ReadsAssumption
  <2>2. \A g \in folderMap.folders : gone'[g] <= folderMap.age
    BY <1>3, <2>1
  <2>3. QED
    BY <1>0, <2>1, <2>2 DEF MapInv, FolderMap
<1>6. /\ task' \in [Tasks -> Task] /\ \A s \in Tasks : Grown(task[s], task'[s])
      /\ \A s \in Tasks : task[s].pc # "idle" =>
           /\ {parent'[task[s].doc]} \ {None} \subseteq task'[s].homes
           /\ under' \subseteq task'[s].lately
  BY <1>0, <1>3, WitnessGrows
<1>7. ASSUME NEW s \in Tasks, task[s].pc # "idle"
      PROVE  under' \cup {g \in Folders : gone'[g] < TTL} \subseteq task'[s].lately
  <2>1. Lately \subseteq task'[s].lately
    BY <1>6, <1>7 DEF IInv, TaskInv, Grown
  <2>2. f \in Lately \/ f \in under'
    BY <1>0 DEF Lately
  <2>3. \A g \in Folders : g # f /\ gone'[g] < TTL => g \in Lately
    BY <1>3 DEF Lately
  <2>4. QED
    BY <1>6, <1>7, <2>1, <2>2, <2>3
<1>8. QED
  BY <1>0, <1>1, <1>2, <1>3, <1>4, <1>5, <1>6, <1>7, DriveStep

\* The map grows older with the folders that have left.
LEMMA TickStep == ASSUME ReadsAssumption, IInv, Tick PROVE IInv'
<1>0. /\ folderMap' = [folderMap EXCEPT !.age = Older(@)]
      /\ gone' = [f \in Folders |-> IF f \in under THEN 0 ELSE Older(gone[f])]
      /\ UNCHANGED <<version, parent, under, changes, calls, cache, task, reader>>
  BY DEF Tick
<1>1. /\ folderMap \in FolderMap /\ folderMap.folders \subseteq Folders
      /\ folderMap.age \in 0..TTL /\ TTL \in Nat
      /\ \A f \in folderMap.folders : gone[f] <= folderMap.age
      /\ \A f \in Folders : gone[f] \in 0..TTL
      /\ under \subseteq Folders /\ \A f \in under : gone[f] = 0
  BY DEF IInv, TypeOK, MapInv, FolderMap, ReadsAssumption
<1>2. \A a, b \in 0..TTL : /\ Older(a) \in 0..TTL /\ a <= Older(a)
                           /\ a <= b => Older(a) <= Older(b)
  BY <1>1 DEF Older
<1>3. \A f \in Folders : gone'[f] \in 0..TTL /\ gone[f] <= gone'[f]
  BY <1>0, <1>1, <1>2
<1>4. gone' \in [Folders -> 0..TTL] /\ \A f \in under' : gone'[f] = 0
  BY <1>0, <1>1, <1>2
<1>5. MapInv'
  <2>1. folderMap' \in FolderMap /\ folderMap'.folders = folderMap.folders
        /\ folderMap'.age = Older(folderMap.age)
    BY <1>0, <1>1, <1>2 DEF FolderMap
  <2>2. \A f \in folderMap.folders : gone'[f] <= Older(folderMap.age)
    <3>1. \A f \in folderMap.folders : f \in under => gone'[f] = 0
      BY <1>0, <1>1
    <3>2. \A f \in folderMap.folders : f \notin under => gone'[f] = Older(gone[f])
      BY <1>0, <1>1
    <3>3. Older(folderMap.age) \in Nat
      BY <1>1, <1>2
    <3>4. \A f \in folderMap.folders : Older(gone[f]) <= Older(folderMap.age)
      BY <1>1, <1>2
    <3>5. QED
      BY <3>1, <3>2, <3>3, <3>4
  <2>3. QED
    BY <2>1, <2>2 DEF MapInv, FolderMap
<1>6. /\ version' \in [Docs -> Version] /\ parent' \in [Docs -> Folders \cup {None}]
      /\ under' \subseteq Folders /\ changes' \in 0..MaxChanges
      /\ \A c \in Docs : version'[c] \in Nat /\ version[c] = version'[c] /\ version'[c] <= changes'
  BY <1>0, Typed DEF IInv, TypeOK
<1>7. \A c \in Docs : version[c] <= version'[c] /\ version'[c] <= changes'
  BY <1>6
<1>8. task' \in [Tasks -> Task] /\ \A s \in Tasks : Grown(task[s], task'[s])
  BY <1>0 DEF IInv, TypeOK, Grown
<1>9. ASSUME NEW s \in Tasks, task[s].pc # "idle"
      PROVE  /\ {parent'[task[s].doc]} \ {None} \subseteq task'[s].homes
             /\ under' \cup {f \in Folders : gone'[f] < TTL} \subseteq task'[s].lately
  <2>1. Home(task[s].doc) \subseteq task[s].homes /\ Lately \subseteq task[s].lately
    BY <1>9 DEF IInv, TaskInv
  <2>2. \A f \in Folders : gone'[f] < TTL => gone[f] < TTL
    BY <1>1, <1>3
  <2>3. QED
    BY <1>0, <2>1, <2>2 DEF Home, Lately
<1>10. QED
  BY <1>0, <1>4, <1>5, <1>6, <1>7, <1>8, <1>9, DriveStep

LEMMA NextInv == ReadsAssumption /\ IInv /\ [Next]_vars => IInv'
<1> SUFFICES ASSUME ReadsAssumption, IInv, [Next]_vars PROVE IInv'
  OBVIOUS
<1>1. ASSUME NEW r \in Tasks, NEW d \in Docs, NEW c \in Offsets \cup {Malformed}, Call(r, d, c)
      PROVE  IInv'
  BY <1>1, CallStep
<1>2. ASSUME NEW r \in Tasks, ReadItem(r) \/ Place(r) \/ LookUp(r) \/ Download(r)
      PROVE  IInv'
  BY <1>2, ReadItemStep, PlaceStep, LookUpStep, DownloadStep
<1>3. ASSUME NEW r \in Tasks, Extract(r) \/ Fail(r)
      PROVE  IInv'
  BY <1>3, ExtractStep, FailStep
<1>4. ASSUME NEW d \in Docs, Edit(d)
      PROVE  IInv'
  BY <1>4, EditStep
<1>5. ASSUME NEW d \in Docs, NEW f \in Folders \cup {None}, Move(d, f)
      PROVE  IInv'
  BY <1>5, MoveStep
<1>6. ASSUME NEW f \in Folders, MoveFolder(f)
      PROVE  IInv'
  BY <1>6, MoveFolderStep
<1>7. CASE Tick
  BY <1>7, TickStep
<1>8. CASE UNCHANGED vars
  <2>1. UNCHANGED <<version, parent, under, gone, changes, calls, folderMap, cache, task, reader>>
    BY <1>8 DEF vars, drive
  <2>2. TypeOK' /\ CacheInv' /\ MapInv' /\ \A f \in under' : gone'[f] = 0
    BY <2>1 DEF IInv, TypeOK, CacheInv, Sound, MapInv
  <2>3. \A s \in Tasks : TaskInv(task[s])'
    BY <2>1 DEF IInv, TaskInv, Member, Home, Lately
  <2>4. \A s \in Tasks : ReaderInv(reader[s], task[s])'
    BY <2>1 DEF IInv, ReaderInv, PiecesInv
  <2>5. QED
    BY <2>1, <2>2, <2>3, <2>4 DEF IInv
<1>9. QED
  BY <1>1, <1>2, <1>3, <1>4, <1>5, <1>6, <1>7, <1>8 DEF Next

---------------------------------------------------------------------------

LEMMA Invariant == Spec => []IInv
<1>1. ReadsAssumption
  BY ReadsAssumption
<1>2. QED
  BY <1>1, InitInv, NextInv, PTL DEF Spec

\* documents.py:224-226: whatever reads store at once, no key is kept twice and
\* never more than cache_size texts.
THEOREM TypeCorrect == Spec => []TypeOK
<1>1. IInv => TypeOK
  BY DEF IInv
<1>2. QED
  BY <1>1, Invariant, PTL

\* documents.py:187-200: no read serves a text older than its document was when
\* the read began.
THEOREM NothingStale == Spec => []NeverStale
<1>1. ReadsAssumption /\ IInv => NeverStale
  <2> SUFFICES ASSUME ReadsAssumption, IInv, NEW r \in Tasks, task[r].outcome = "served"
               PROVE  task[r].text >= task[r].begun
    BY DEF NeverStale
  <2>1. task[r].text \in Nat /\ task[r].begun \in Nat /\ task[r].begun <= task[r].text
    BY Typed DEF IInv, TaskInv
  <2>2. QED
    BY <2>1
<1>2. ReadsAssumption
  BY ReadsAssumption
<1>3. QED
  BY <1>1, <1>2, Invariant, PTL

\* documents.py:150-152, docs/adr/0005:46-50: the cache decides nothing.  A
\* document is served only to a call during which it lay in a folder that was in
\* the corpus during the call, or less than a TTL before it.
THEOREM ProofBeforeCache == Spec => []ServedWithinWindow
<1>1. IInv => ServedWithinWindow
  BY DEF IInv, TaskInv, Member, ServedWithinWindow
<1>2. QED
  BY <1>1, Invariant, PTL

\* documents.py:157-164, :264: the chunks of a document that nobody edits are
\* the whole of its text, wherever each of them came from.
THEOREM WholeDocument == Spec => []WholeUnlessEdited
<1>1. ReadsAssumption /\ IInv => WholeUnlessEdited
  <2> SUFFICES ASSUME ReadsAssumption, IInv, NEW r \in Tasks, reader[r].pieces # <<>>,
                      Held(r) = None, version[reader[r].doc] = reader[r].since
               PROVE  /\ \A p \in ToSet(reader[r].pieces) : p.text = version[reader[r].doc]
                      /\ Covered(reader[r].pieces) = 0..Length[<<reader[r].doc, version[reader[r].doc]>>] - 1
    BY DEF WholeUnlessEdited, Covered
  <2> DEFINE pieces == reader[r].pieces
             d == reader[r].doc
             last == Last(pieces)
  <2>1. pieces \in Seq(Piece) /\ d \in Docs \cup {None} /\ ReaderInv(reader[r], task[r])
    BY Typed DEF IInv, Reader
  <2>2. d \in Docs /\ PiecesInv(reader[r])
    BY <2>1 DEF ReaderInv
  <2>3. Len(pieces) \in Nat \ {0} /\ DOMAIN pieces = 1..Len(pieces)
    BY <2>1, EmptySeq, LenProperties
  <2>4. version[d] \in Nat /\ Version \subseteq Nat
    BY <2>2, Typed DEF IInv
  <2>5. \A n \in 1..Len(pieces) : pieces[n] \in Piece /\ pieces[n].text = version[d]
    <3>1. \A n \in 1..Len(pieces) : pieces[n] \in Piece
      BY <2>1, ElementOfSeq
    <3>2. \A n \in 1..Len(pieces) : pieces[n].text \in Nat
      BY <2>4, <3>1 DEF Piece
    <3>3. \A a, b \in Nat : a <= b /\ b <= a => a = b
      OBVIOUS
    <3>4. QED
      BY <2>2, <2>4, <3>1, <3>2, <3>3 DEF PiecesInv
  <2>6. last \in Piece /\ last.text = version[d]
    BY <2>3, <2>5 DEF Last
  <2>7. last.to = Length[<<d, version[d]>>]
    <3>1. ~(last.to < Length[<<d, last.text>>])
      <4>1. last.to \in Nat /\ None \notin Nat
        BY <2>6 DEF Piece, ReadsAssumption
      <4>2. QED
        BY <4>1 DEF Held, NextCursor
    <3>2. last.to <= Length[<<d, last.text>>]
      BY <2>2 DEF PiecesInv
    <3>3. last.to \in Nat /\ Length[<<d, last.text>>] \in Nat
      BY <2>2, <2>6, Typed DEF Piece, IInv
    <3>4. QED
      BY <2>6, <3>1, <3>2, <3>3
  <2>8. \A p \in ToSet(pieces) : p.text = version[d]
    BY <2>3, <2>5 DEF ToSet
  <2>9. Covered(pieces) = 0..Length[<<d, version[d]>>] - 1
    BY <2>2, <2>7 DEF PiecesInv, ReadTo
  <2>10. QED
    BY <2>8, <2>9
<1>2. ReadsAssumption
  BY ReadsAssumption
<1>3. QED
  BY <1>1, <1>2, Invariant, PTL
============================================================================
