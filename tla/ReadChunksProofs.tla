-------------------------- MODULE ReadChunksProofs --------------------------
(* Theorems of ReadChunks, for every document, every sizes asked for and     *)
(* every byte ceiling.                                                      *)
EXTENDS ReadChunks, ListFacts

---------------------------------------------------------------------------
(* The text and its bytes.                                                  *)

\* A document is a text, and block boundaries are offsets.
LEMMA Texts ==
  ASSUME ChunkAssumption, TextsAssumption, NEW d \in Documents
  PROVE  /\ TextOf(d) \in Seq(1..4) /\ Len(TextOf(d)) \in Nat /\ Len(TextOf(d)) > 0
         /\ BoundariesOf(d) \subseteq Nat
<1> DEFINE W == 1..4
           V == Seq(W)
           none == <<>>
           joined == [b \in DOMAIN d |-> IF b = 1 THEN d[b] ELSE Separator \o d[b]]
<1>1. d \in Seq(V) /\ Separator \in V /\ none \in V
  BY DEF ChunkAssumption, Separator
<1>2. \A b \in DOMAIN d : d[b] \in V /\ Separator \o d[b] \in V
  <2> TAKE b \in DOMAIN d
  <2>1. d[b] \in V
    BY <1>1
  <2> HIDE DEF W, V
  <2>2. Separator \o d[b] \in V
    BY <1>1, <2>1, ConcatProperties DEF V
  <2>3. QED
    BY <2>1, <2>2
<1>3. joined \in Seq(V)
  <2> DEFINE block(b) == IF b = 1 THEN d[b] ELSE Separator \o d[b]
  <2>1. Len(d) \in Nat /\ DOMAIN d = 1..Len(d)
    BY <1>1
  <2>2. \A b \in 1..Len(d) : block(b) \in V
    BY <1>2, <2>1
  <2> HIDE DEF block, V
  <2>3. [b \in 1..Len(d) |-> block(b)] \in Seq(V)
    BY <2>1, <2>2
  <2>4. QED
    BY <2>1, <2>3 DEF block
<1> HIDE DEF joined, none, W
<1>4. FlattenSeq(joined) \in V
  BY <1>1, <1>3, FlattenAppend
<1>5. TextOf(d) \in V /\ TextOf(d) # <<>>
  BY <1>4 DEF TextOf, joined, TextsAssumption
<1>6. Len(TextOf(d)) \in Nat /\ Len(TextOf(d)) > 0
  BY <1>5
<1>7. ASSUME NEW b \in 2..Len(d) PROVE Offset(d, b) \in Nat
  <2> DEFINE front == SubSeq(d, 1, b - 1)
  <2>1. front \in Seq(V)
    <3> HIDE DEF V
    <3>1. QED
      BY <1>1
  <2> HIDE DEF front
  <2>2. FlattenSeq(front) \in V
    BY <1>1, <2>1, FlattenAppend
  <2>3. Len(FlattenSeq(front)) \in Nat
    BY <2>2
  <2>4. QED
    BY <2>3 DEF Offset, front
<1>8. QED
  BY <1>5, <1>6, <1>7 DEF BoundariesOf, W

\* A count can be kept through N steps.
LEMMA Counting ==
  ASSUME NEW N \in Nat, NEW step \in [1..N -> [Nat -> Nat]]
  PROVE  \E f \in [0..N -> Nat] : f[0] = 0 /\ \A n \in 1..N : f[n] = step[n][f[n - 1]]
<1>1. CanStep(Nat, 0, N, step)
  BY DEF CanStep
<1>2. Taken(Nat, 0, N, step) # {}
  BY <1>1, Steps
<1>3. QED
  BY <1>2 DEF Taken

\* The functions that add the bytes up, character after character.
Sums(d, from, N) ==
  {f \in [0..N -> Nat] : f[0] = 0 /\ \A n \in 1..N : f[n] = f[n - 1] + TextOf(d)[from + n]}

\* BytesOf is one of them.
LEMMA BytesSteps ==
  ASSUME ChunkAssumption, TextsAssumption, NEW d \in Documents,
         NEW from \in Nat, NEW to \in Nat, from <= to, to <= Len(TextOf(d))
  PROVE  \E f \in Sums(d, from, to - from) : BytesOf(d, from, to) = f[to - from]
<1> DEFINE N == to - from
           text == TextOf(d)
           step == [n \in 1..N |-> [x \in Nat |-> x + text[from + n]]]
           Body(f) == [n \in 0..N |-> IF n = 0 THEN 0 ELSE f[n - 1] + text[from + n]]
           bytes == CHOOSE h : h = Body(h)
<1>1. N \in Nat
  OBVIOUS
<1>2. \A n \in 1..N : text[from + n] \in Nat
  <2> TAKE n \in 1..N
  <2>1. from + n \in 1..Len(TextOf(d))
    BY Texts
  <2>2. QED
    BY <2>1, Texts
<1>3. BytesOf(d, from, to) = bytes[N]
  BY DEF BytesOf
<1> HIDE DEF N, text
<1>4. step \in [1..N -> [Nat -> Nat]]
  BY <1>2
<1>5. PICK f \in [0..N -> Nat] : f[0] = 0 /\ \A n \in 1..N : f[n] = step[n][f[n - 1]]
  <2> HIDE DEF step, Body, bytes
  <2>1. QED
    BY <1>1, <1>4, Counting
<1>6. \A n \in 1..N : f[n] = f[n - 1] + text[from + n]
  <2> TAKE n \in 1..N
  <2>1. f[n - 1] \in Nat
    BY <1>1, <1>5
  <2>2. QED
    BY <1>5, <2>1
<1>7. f = Body(f)
  <2>1. ASSUME NEW n \in 0..N PROVE f[n] = Body(f)[n]
    <3>1. CASE n = 0
      BY <1>5, <3>1
    <3>2. CASE n # 0
      <4>1. n \in 1..N
        BY <1>1, <3>2
      <4>2. QED
        BY <1>6, <3>2, <4>1
    <3>3. QED
      BY <3>1, <3>2
  <2>2. QED
    BY <2>1, <1>5
<1>8. bytes = Body(bytes)
  <2> HIDE DEF Body
  <2>1. QED
    BY <1>7, Zenon
<1>9. bytes[0] = 0 /\ \A n \in 1..N : bytes[n] = bytes[n - 1] + text[from + n]
  <2> HIDE DEF bytes
  <2>1. bytes[0] = 0
    BY <1>1, <1>8
  <2>2. ASSUME NEW n \in 1..N PROVE bytes[n] = bytes[n - 1] + text[from + n]
    <3>1. n \in 0..N /\ n # 0
      BY <1>1
    <3>2. QED
      BY <1>8, <3>1
  <2>3. QED
    BY <2>1, <2>2
<1>10. \A n \in 0..N : bytes[n] = f[n]
  <2> DEFINE Same == {n \in Nat : n <= N => bytes[n] = f[n]}
  <2> HIDE DEF bytes
  <2>1. 0 \in Same
    BY <1>5, <1>9
  <2>2. ASSUME NEW n \in Nat, n \in Same PROVE n + 1 \in Same
    <3> SUFFICES ASSUME n + 1 <= N PROVE bytes[n + 1] = f[n + 1]
      OBVIOUS
    <3>1. n + 1 \in 1..N /\ (n + 1) - 1 = n /\ n <= N
      BY <1>1
    <3>2. bytes[n] = f[n]
      BY <2>2, <3>1
    <3>3. QED
      BY <1>6, <1>9, <3>1, <3>2
  <2> HIDE DEF Same
  <2>3. Nat \subseteq Same
    BY <2>1, <2>2, NatSetInduction
  <2>4. QED
    BY <2>3, <1>1 DEF Same
<1>11. BytesOf(d, from, to) = f[N]
  <2> HIDE DEF bytes
  <2>1. QED
    BY <1>1, <1>3, <1>10
<1>12. f \in Sums(d, from, N)
  BY <1>5, <1>6 DEF Sums, text
<1>13. QED
  BY <1>11, <1>12 DEF N

\* A character more has its bytes.
LEMMA BytesGrow ==
  ASSUME ChunkAssumption, TextsAssumption, NEW d \in Documents,
         NEW from \in Nat, NEW to \in Nat, from <= to, to < Len(TextOf(d))
  PROVE  /\ BytesOf(d, from, to) \in Nat /\ BytesOf(d, from, to + 1) \in Nat
         /\ BytesOf(d, from, to) < BytesOf(d, from, to + 1)
         /\ BytesOf(d, from, to + 1) <= BytesOf(d, from, to) + 4
<1> DEFINE N == to - from
<1>1. N \in Nat /\ (to + 1) - from = N + 1 /\ Len(TextOf(d)) \in Nat
  BY Texts
<1>2. PICK f \in Sums(d, from, N) : BytesOf(d, from, to) = f[N]
  <2>1. \E f \in Sums(d, from, to - from) : BytesOf(d, from, to) = f[to - from]
    <3>1. to <= Len(TextOf(d))
      BY <1>1
    <3>2. QED
      BY <3>1, BytesSteps
  <2>2. QED
    BY <2>1
<1>3. PICK g \in Sums(d, from, N + 1) : BytesOf(d, from, to + 1) = g[N + 1]
  <2>1. to + 1 \in Nat /\ from <= to + 1 /\ to + 1 <= Len(TextOf(d))
    BY <1>1
  <2>2. \E g \in Sums(d, from, (to + 1) - from) : BytesOf(d, from, to + 1) = g[(to + 1) - from]
    BY <2>1, BytesSteps
  <2>3. QED
    BY <1>1, <2>2
<1>4. /\ f \in [0..N -> Nat] /\ f[0] = 0
      /\ \A n \in 1..N : f[n] = f[n - 1] + TextOf(d)[from + n]
  BY <1>2 DEF Sums
<1>5. /\ g \in [0..N + 1 -> Nat] /\ g[0] = 0
      /\ \A n \in 1..N + 1 : g[n] = g[n - 1] + TextOf(d)[from + n]
  BY <1>3 DEF Sums
<1>6. TextOf(d)[to + 1] \in 1..4 /\ from + (N + 1) = to + 1
  <2>1. to + 1 \in 1..Len(TextOf(d))
    BY <1>1
  <2>2. TextOf(d)[to + 1] \in 1..4
    BY <2>1, Texts
  <2>3. QED
    BY <2>2
<1> HIDE DEF N
<1>7. \A n \in 0..N : g[n] = f[n]
  <2> DEFINE Same == {n \in Nat : n <= N => g[n] = f[n]}
  <2>1. 0 \in Same
    BY <1>4, <1>5
  <2>2. ASSUME NEW n \in Nat, n \in Same PROVE n + 1 \in Same
    <3> SUFFICES ASSUME n + 1 <= N PROVE g[n + 1] = f[n + 1]
      OBVIOUS
    <3>1. n + 1 \in 1..N /\ n + 1 \in 1..N + 1 /\ (n + 1) - 1 = n /\ n <= N
      BY <1>1
    <3>2. g[n] = f[n]
      BY <2>2, <3>1
    <3>3. QED
      BY <1>4, <1>5, <3>1, <3>2
  <2> HIDE DEF Same
  <2>3. Nat \subseteq Same
    BY <2>1, <2>2, NatSetInduction
  <2>4. QED
    BY <2>3, <1>1 DEF Same
<1>8. N + 1 \in 1..N + 1 /\ (N + 1) - 1 = N /\ N \in 0..N
  BY <1>1
<1>9. g[N + 1] = f[N] + TextOf(d)[to + 1] /\ f[N] \in Nat
  BY <1>4, <1>5, <1>6, <1>7, <1>8
<1>10. QED
  BY <1>2, <1>3, <1>6, <1>9

\* The more characters the more bytes, and four bytes a character at most.
LEMMA BytesBetween ==
  ASSUME ChunkAssumption, TextsAssumption, NEW d \in Documents,
         NEW from \in Nat, NEW a \in Nat, NEW b \in Nat,
         from <= a, a <= b, b <= Len(TextOf(d))
  PROVE  /\ BytesOf(d, from, a) \in Nat /\ BytesOf(d, from, b) \in Nat
         /\ BytesOf(d, from, a) <= BytesOf(d, from, b)
         /\ BytesOf(d, from, b) <= BytesOf(d, from, a) + 4 * (b - a)
<1> DEFINE B(n) == BytesOf(d, from, n)
           S == {k \in Nat : a + k <= Len(TextOf(d)) =>
                   B(a) \in Nat /\ B(a + k) \in Nat /\ B(a) <= B(a + k) /\ B(a + k) <= B(a) + 4 * k}
<1>1. Len(TextOf(d)) \in Nat
  BY Texts
<1>2. B(a) \in Nat
  <2>1. a \in Nat /\ from <= a /\ a <= Len(TextOf(d))
    BY <1>1
  <2>2. PICK f \in Sums(d, from, a - from) : B(a) = f[a - from]
    BY <2>1, BytesSteps
  <2>3. a - from \in 0..a - from
    BY <2>1
  <2>4. QED
    BY <2>2, <2>3 DEF Sums
<1>3. 0 \in S
  <2> HIDE DEF B
  <2>1. a + 0 = a
    OBVIOUS
  <2>2. QED
    BY <1>2, <2>1
<1>4. ASSUME NEW k \in Nat, k \in S PROVE k + 1 \in S
  <2> SUFFICES ASSUME a + (k + 1) <= Len(TextOf(d))
               PROVE  B(a) \in Nat /\ B(a + (k + 1)) \in Nat /\ B(a) <= B(a + (k + 1))
                      /\ B(a + (k + 1)) <= B(a) + 4 * (k + 1)
    OBVIOUS
  <2>1. a + k \in Nat /\ from <= a + k /\ a + k < Len(TextOf(d)) /\ (a + k) + 1 = a + (k + 1)
    BY <1>1
  <2>2. /\ B(a + k) \in Nat /\ B((a + k) + 1) \in Nat
        /\ B(a + k) < B((a + k) + 1) /\ B((a + k) + 1) <= B(a + k) + 4
    BY <2>1, BytesGrow
  <2> HIDE DEF B
  <2>3. B(a) <= B(a + k) /\ B(a + k) <= B(a) + 4 * k
    BY <1>1, <1>4, <2>1
  <2>4. QED
    BY <1>2, <2>1, <2>2, <2>3
<1>5. Nat \subseteq S
  <2> HIDE DEF S
  <2>1. QED
    BY <1>3, <1>4, NatSetInduction
<1>6. b - a \in S /\ a + (b - a) = b
  <2>1. b - a \in Nat
    OBVIOUS
  <2> HIDE DEF S
  <2>2. b - a \in S
    BY <1>5, <2>1
  <2>3. QED
    BY <2>2
<1> HIDE DEF B
<1>7. QED
  BY <1>6 DEF B

---------------------------------------------------------------------------
(* The last boundary.                                                       *)

\* A bounded set of offsets has a greatest.
LEMMA GreatestOffset ==
  ASSUME NEW S \in SUBSET Nat, NEW n \in Nat, \A x \in S : x <= n, S # {}
  PROVE  Max(S) \in S /\ \A x \in S : x <= Max(S)
<1>1. IsFiniteSet(S)
  BY FS_BoundedSetOfNaturals
<1>2. QED
  BY <1>1, GreatestOf

\* A member nothing exceeds is the greatest.
LEMMA GreatestIs ==
  ASSUME NEW S \in SUBSET Nat, NEW e \in S, \A x \in S : x <= e
  PROVE  Max(S) = e
<1>1. S # {} /\ e \in Nat
  OBVIOUS
<1>2. Max(S) \in S /\ \A x \in S : x <= Max(S)
  BY <1>1, GreatestOffset
<1>3. Max(S) \in Nat /\ Max(S) <= e /\ e <= Max(S)
  BY <1>2
<1>4. QED
  BY <1>1, <1>3

\* The boundaries of the document being read.
LEMMA BoundariesNat ==
  ASSUME ChunkAssumption, TextsAssumption, doc \in Documents
  PROVE  Boundaries \subseteq Nat
  BY Texts DEF Boundaries

\* Wherever the cut is, the chunk has a character and stays in its window.
LEMMA CutInside ==
  ASSUME ChunkAssumption, TextsAssumption, doc \in Documents,
         NEW from \in Nat, NEW to \in Nat, from < to
  PROVE  /\ Cut(from, to) \in Nat /\ from < Cut(from, to) /\ Cut(from, to) <= to
         /\ Inside(from, to) # {} => /\ Cut(from, to) \in Inside(from, to)
                                    /\ \A b \in Inside(from, to) : b <= Cut(from, to)
<1>1. Inside(from, to) \in SUBSET Nat
  BY BoundariesNat DEF Inside
<1>2. CASE Inside(from, to) = {}
  BY <1>2 DEF Cut
<1>3. CASE Inside(from, to) # {}
  <2>1. \A b \in Inside(from, to) : from < b /\ b <= to
    BY DEF Inside
  <2>2. /\ Max(Inside(from, to)) \in Inside(from, to)
        /\ \A b \in Inside(from, to) : b <= Max(Inside(from, to))
    BY <1>1, <1>3, <2>1, GreatestOffset
  <2>3. Cut(from, to) = Max(Inside(from, to))
    BY <1>3 DEF Cut
  <2>4. QED
    BY <1>1, <2>1, <2>2, <2>3
<1>4. QED
  BY <1>2, <1>3

---------------------------------------------------------------------------
(* How far the reader has come.                                             *)

Reached(c) == IF c = <<>> THEN 0 ELSE c[Len(c)].to

Chain(c) == \A k \in DOMAIN c : /\ c[k].from < c[k].to
                                /\ c[k].from = IF k = 1 THEN 0 ELSE c[k - 1].to

\* The cursor is where the chunks so far end, and a read in progress begins there.
IInv ==
  /\ TypeOK /\ Chain(chunks) /\ start \in Nat /\ end \in Nat
  /\ pc # "over" => Reached(chunks) = IF cursor = None THEN 0 ELSE cursor
  /\ pc = "cutting" => /\ start < end /\ start = Reached(chunks)
                       /\ max_chars \in MaxChars /\ Len(chunks) < MaxReads
  /\ pc = "over" => chunks # <<>> /\ Reached(chunks) = Len(Text)

LEMMA InitIInv == ChunkAssumption /\ TextsAssumption /\ Init => IInv
<1> SUFFICES ASSUME ChunkAssumption, TextsAssumption, Init PROVE IInv
  OBVIOUS
<1>1. doc \in Documents /\ Len(Text) \in Nat
  BY Texts DEF Init, Text
<1>2. chunks \in Seq(Chunk) /\ Len(chunks) = 0 /\ MaxReads \in Nat
  BY DEF Init, ChunkAssumption
<1>3. QED
  BY <1>1, <1>2 DEF Init, IInv, TypeOK, Chain, Reached

LEMMA NextIInv == ChunkAssumption /\ TextsAssumption /\ IInv /\ [Next]_vars => IInv'
<1> SUFFICES ASSUME ChunkAssumption, TextsAssumption, IInv, [Next]_vars PROVE IInv'
  OBVIOUS
<1>1. /\ doc \in Documents /\ Len(Text) \in Nat /\ Len(Text) > 0
      /\ chunks \in Seq(Chunk) /\ Len(chunks) \in Nat /\ start \in Nat /\ end \in Nat
      /\ MaxChars \subseteq Nat \ {0} /\ None \notin Nat /\ MaxBytes \in Nat /\ MaxReads \in Nat
  <2>1. doc \in Documents
    BY DEF IInv, TypeOK
  <2>2. QED
    BY <2>1, Texts DEF IInv, TypeOK, ChunkAssumption, Text
<1>2. Text' = IF doc' = doc THEN Text ELSE Text'
  BY DEF Text
<1>3. ASSUME NEW m \in MaxChars, Read(m)
      PROVE  IInv'
  <2> DEFINE to == Lower(start' + m, Len(Text))
  <2>1. /\ pc = "idle" /\ Len(chunks) < MaxReads /\ max_chars' = m /\ doc' = doc
        /\ start' = IF cursor = None THEN 0 ELSE cursor
        /\ end' = Cut(start', to) /\ pc' = "cutting" /\ cursor' = cursor /\ chunks' = chunks
    BY <1>3 DEF Read
  <2>2. start' \in Nat /\ start' < Len(Text) /\ start' = Reached(chunks)
    BY <1>1, <2>1 DEF IInv, TypeOK
  <2>3. to \in Nat /\ start' < to /\ to <= Len(Text)
    BY <1>1, <2>2 DEF Lower
  <2> HIDE DEF to
  <2>4. end' \in Nat /\ start' < end' /\ end' <= to
    BY <1>1, <2>1, <2>2, <2>3, CutInside
  <2>5. end' <= Len(Text)
    BY <1>1, <2>3, <2>4
  <2>6. QED
    BY <1>2, <2>1, <2>2, <2>4, <2>5 DEF IInv, TypeOK
<1>4. CASE Shrink
  <2> DEFINE b == Bytes(start, end)
             to == Higher(start + 1, end - Overshoot(b))
  <2>1. /\ pc = "cutting" /\ end > start + 1 /\ b > MaxBytes /\ doc' = doc
        /\ end' = Cut(start, to)
        /\ cursor' = cursor /\ pc' = pc /\ start' = start /\ max_chars' = max_chars
        /\ chunks' = chunks
    BY <1>4 DEF Shrink, Oversized
  <2>2. b \in Nat
    <3>1. start <= end /\ end <= Len(TextOf(doc))
      BY DEF IInv, TypeOK, Text
    <3>2. QED
      BY <1>1, <3>1, BytesBetween DEF Bytes
  <2> HIDE DEF b
  <2>3. Overshoot(b) \in Int /\ Overshoot(b) >= 1
    BY <1>1, <2>1, <2>2 DEF Overshoot, Higher
  <2>4. to \in Nat /\ start < to /\ to <= end
    BY <1>1, <2>1, <2>3 DEF Higher
  <2> HIDE DEF to
  <2>5. end' \in Nat /\ start < end' /\ end' <= to
    BY <1>1, <2>1, <2>4, CutInside
  <2>6. end' <= Len(Text)
    BY <1>1, <2>4, <2>5 DEF IInv, TypeOK
  <2>7. QED
    BY <1>2, <2>1, <2>5, <2>6 DEF IInv, TypeOK
<1>5. CASE Return
  <2> DEFINE c == [from |-> start, to |-> end, max_chars |-> max_chars]
  <2>1. /\ pc = "cutting" /\ cursor' = NextCursor(end) /\ chunks' = Append(chunks, c)
        /\ pc' = (IF cursor' = None THEN "over" ELSE "idle")
        /\ doc' = doc /\ start' = start /\ end' = end /\ max_chars' = max_chars
    BY <1>5 DEF Return
  <2>2. /\ c \in Chunk /\ c.from = Reached(chunks) /\ c.from < c.to /\ c.to = end
        /\ Len(chunks) < MaxReads /\ end <= Len(Text)
    BY <1>1, <2>1 DEF IInv, TypeOK, Chunk
  <2> HIDE DEF c
  <2>3. /\ chunks' \in Seq(Chunk) /\ Len(chunks') = Len(chunks) + 1
        /\ chunks'[Len(chunks) + 1] = c
        /\ \A k \in 1..Len(chunks) : chunks'[k] = chunks[k]
        /\ DOMAIN chunks' = 1..Len(chunks) + 1 /\ DOMAIN chunks = 1..Len(chunks)
    BY <1>1, <2>1, <2>2
  <2>4. Reached(chunks') = end /\ chunks' # <<>>
    BY <1>1, <2>2, <2>3 DEF Reached
  <2>5. Chain(chunks')
    <3> SUFFICES ASSUME NEW k \in 1..Len(chunks) + 1
                 PROVE  /\ chunks'[k].from < chunks'[k].to
                        /\ chunks'[k].from = IF k = 1 THEN 0 ELSE chunks'[k - 1].to
      BY <2>3 DEF Chain
    <3>1. CASE k = Len(chunks) + 1
      <4>1. Len(chunks) # 0 => chunks'[Len(chunks)] = chunks[Len(chunks)] /\ chunks # <<>>
        BY <1>1, <2>3
      <4>2. Len(chunks) = 0 => chunks = <<>>
        BY <1>1
      <4>3. QED
        BY <1>1, <2>2, <2>3, <3>1, <4>1, <4>2 DEF Reached
    <3>2. CASE k # Len(chunks) + 1
      <4>1. k \in 1..Len(chunks) /\ (k # 1 => k - 1 \in 1..Len(chunks))
        <5> DEFINE n == Len(chunks)
        <5>1. n \in Nat /\ k \in 1..n + 1 /\ k # n + 1
          BY <1>1, <3>2
        <5> HIDE DEF n
        <5>2. k \in 1..n /\ (k # 1 => k - 1 \in 1..n)
          BY <5>1
        <5>3. QED
          BY <5>2 DEF n
      <4>2. /\ chunks[k].from < chunks[k].to
            /\ chunks[k].from = IF k = 1 THEN 0 ELSE chunks[k - 1].to
        BY <2>3, <4>1 DEF IInv, Chain
      <4>3. chunks'[k] = chunks[k] /\ (k # 1 => chunks'[k - 1] = chunks[k - 1])
        BY <2>3, <4>1
      <4>4. QED
        BY <4>2, <4>3
    <3>3. QED
      BY <3>1, <3>2
  <2>6. CASE end < Len(Text)
    <3>1. cursor' = end /\ end # None /\ end \in 1..Len(Text) - 1
      BY <1>1, <2>1, <2>2, <2>6 DEF NextCursor, IInv
    <3>2. QED
      BY <1>1, <1>2, <2>1, <2>2, <2>3, <2>4, <2>5, <3>1 DEF IInv, TypeOK
  <2>7. CASE ~(end < Len(Text))
    <3>1. cursor' = None /\ end = Len(Text)
      BY <1>1, <2>1, <2>2, <2>7 DEF NextCursor
    <3>2. QED
      BY <1>1, <1>2, <2>1, <2>2, <2>3, <2>4, <2>5, <3>1 DEF IInv, TypeOK
  <2>8. QED
    BY <2>6, <2>7
<1>6. CASE UNCHANGED vars
  BY <1>6 DEF vars, IInv, TypeOK, Text, Chain, Reached
<1>7. QED
  BY <1>3, <1>4, <1>5, <1>6 DEF Next

LEMMA AlwaysIInv == Spec => []IInv
<1>1. Init => IInv
  BY InitIInv, ChunkAssumption, TextsAssumption
<1>2. IInv /\ [Next]_vars => IInv'
  BY NextIInv, ChunkAssumption, TextsAssumption
<1>3. QED
  BY <1>1, <1>2, PTL DEF Spec

\* documents.py:250-270: a cursor is issued only inside the text, and a cut
\* never ends before its chunk begins or behind the text.
THEOREM TypeCorrect == Spec => []TypeOK
<1>1. IInv => TypeOK
  BY DEF IInv
<1>2. QED
  BY <1>1, AlwaysIInv, PTL

\* The places up to one.
PlacesUpTo(n) == [k \in 1..n |-> k]

\* The chunks joined, one more at the end of them.
LEMMA GivenAppend ==
  ASSUME NEW cs \in Seq(Chunk), NEW c \in Chunk, c.from < c.to,
         FlattenSeq([k \in DOMAIN cs |-> Places(cs[k])]) = PlacesUpTo(c.from)
  PROVE  FlattenSeq([k \in DOMAIN Append(cs, c) |-> Places(Append(cs, c)[k])]) = PlacesUpTo(c.to)
<1> DEFINE V == Seq(Nat)
           ps == [k \in DOMAIN cs |-> Places(cs[k])]
           qs == [k \in DOMAIN Append(cs, c) |-> Places(Append(cs, c)[k])]
           n == Len(cs)
<1>1. \A e \in Chunk : Places(e) \in V
  <2> TAKE e \in Chunk
  <2>1. e.from \in Nat /\ e.to \in Nat
    BY DEF Chunk
  <2>2. CASE e.from <= e.to
    <3>1. e.to - e.from \in Nat
      BY <2>1, <2>2
    <3>2. QED
      BY <2>1, <3>1 DEF Places
  <2>3. CASE ~(e.from <= e.to)
    <3>1. 1..e.to - e.from = 1..0
      BY <2>1, <2>3
    <3>2. QED
      BY <2>1, <3>1 DEF Places
  <2>4. QED
    BY <2>2, <2>3
<1>2. /\ n \in Nat /\ DOMAIN cs = 1..n /\ DOMAIN Append(cs, c) = 1..n + 1
      /\ Append(cs, c)[n + 1] = c /\ \A k \in 1..n : Append(cs, c)[k] = cs[k] /\ cs[k] \in Chunk
  OBVIOUS
<1> HIDE DEF n, V
<1>3. ps \in Seq(V) /\ Len(ps) = n /\ \A k \in 1..n : ps[k] = Places(cs[k])
  BY <1>1, <1>2
<1>4. qs \in Seq(V) /\ Len(qs) = n + 1 /\ \A k \in 1..n + 1 : qs[k] = Places(Append(cs, c)[k])
  <2>1. \A k \in 1..n + 1 : Append(cs, c)[k] \in Chunk
    BY <1>2
  <2>2. QED
    BY <1>1, <1>2, <2>1
<1>5. qs = Append(ps, Places(c))
  <2>1. Append(ps, Places(c)) \in Seq(V) /\ Len(Append(ps, Places(c))) = n + 1
    BY <1>1, <1>2, <1>3
  <2>2. \A k \in 1..n + 1 : Append(ps, Places(c))[k] = qs[k]
    <3> TAKE k \in 1..n + 1
    <3> HIDE DEF ps, qs
    <3>1. CASE k = n + 1
      BY <1>1, <1>2, <1>3, <1>4, <3>1
    <3>2. CASE k # n + 1
      <4>1. k \in 1..n
        BY <1>2, <3>2
      <4>2. QED
        BY <1>1, <1>2, <1>3, <1>4, <4>1
    <3>3. QED
      BY <3>1, <3>2
  <2> HIDE DEF ps, qs
  <2>3. QED
    BY <1>4, <2>1, <2>2, SeqEqual
<1> HIDE DEF ps, qs
<1>6. FlattenSeq(qs) = PlacesUpTo(c.from) \o Places(c)
  <2>1. FlattenSeq(Append(ps, Places(c))) = FlattenSeq(ps) \o Places(c)
    BY <1>1, <1>3, FlattenAppend DEF V
  <2>2. FlattenSeq(ps) = PlacesUpTo(c.from)
    BY DEF ps
  <2>3. QED
    BY <1>5, <2>1, <2>2
<1>7. PlacesUpTo(c.from) \o Places(c) = PlacesUpTo(c.to)
  <2>1. c.from \in Nat /\ c.to \in Nat /\ c.from < c.to
    BY DEF Chunk
  <2> DEFINE a == c.from
             b == c.to
             s == [k \in 1..a |-> k]
             t == [k \in 1..b - a |-> a + k]
             u == [k \in 1..b |-> k]
  <2>2. a \in Nat /\ b \in Nat /\ a < b /\ b - a \in Nat
    BY <2>1
  <2>3. PlacesUpTo(c.from) = s /\ Places(c) = t /\ PlacesUpTo(c.to) = u
    BY DEF PlacesUpTo, Places
  <2> HIDE DEF a, b
  <2>4. /\ s \in Seq(Nat) /\ Len(s) = a /\ t \in Seq(Nat) /\ Len(t) = b - a
        /\ u \in Seq(Nat) /\ Len(u) = b
    BY <2>2
  <2>5. /\ \A k \in 1..a : s[k] = k
        /\ \A k \in 1..b - a : t[k] = a + k
        /\ \A k \in 1..b : u[k] = k
    BY <2>2
  <2> HIDE DEF s, t, u
  <2>6. s \o t \in Seq(Nat) /\ Len(s \o t) = b
    <3>1. s \o t \in Seq(Nat) /\ Len(s \o t) = Len(s) + Len(t)
      BY <2>4, ConcatProperties
    <3>2. a + (b - a) = b
      BY <2>2
    <3>3. QED
      BY <2>4, <3>1, <3>2
  <2>7. \A k \in 1..b : (s \o t)[k] = u[k]
    <3> TAKE k \in 1..b
    <3>1. CASE k <= a
      <4>1. k \in 1..a
        BY <2>2, <3>1
      <4>2. QED
        BY <2>4, <2>5, <4>1
    <3>2. CASE ~(k <= a)
      <4>1. k - a \in 1..b - a /\ a + (k - a) = k
        BY <2>2, <3>2
      <4>2. QED
        BY <2>2, <2>4, <2>5, <3>2, <4>1
    <3>3. QED
      BY <3>1, <3>2
  <2>8. QED
    BY <2>3, <2>4, <2>6, <2>7, SeqEqual
<1>8. QED
  BY <1>6, <1>7 DEF qs

\* The chunks joined are the places up to the last of them.
SInv == Given = PlacesUpTo(Reached(chunks))

\* A step of the reader is a piece of the stream or none.
LEMMA NextStream ==
  ASSUME ChunkAssumption, TextsAssumption, IInv, IInv', SInv, [Next]_vars
  PROVE  SInv' /\ [Stream!Next]_Stream!vars
<1>1. /\ doc \in Documents /\ Len(Text) \in Nat /\ chunks \in Seq(Chunk)
      /\ start \in Nat /\ end \in Nat
  BY Texts DEF IInv, TypeOK, Text
<1>2. ASSUME doc' = doc, chunks' = chunks, Over' = Over PROVE SInv' /\ [Stream!Next]_Stream!vars
  <2>1. Given' = Given /\ Len(Text)' = Len(Text)
    BY <1>2 DEF Given, Places, Text
  <2>2. SInv'
    BY <1>2, <2>1 DEF SInv, Reached
  <2>3. QED
    BY <1>2, <2>1, <2>2 DEF Stream!vars
<1>3. ASSUME NEW m \in MaxChars, Read(m) PROVE SInv' /\ [Stream!Next]_Stream!vars
  <2>1. doc' = doc /\ chunks' = chunks /\ Over' = Over
    BY <1>3 DEF Read, Over
  <2>2. QED
    BY <1>2, <2>1
<1>4. CASE Shrink
  <2>1. doc' = doc /\ chunks' = chunks /\ Over' = Over
    BY <1>4 DEF Shrink, Over
  <2>2. QED
    BY <1>2, <2>1
<1>5. CASE Return
  <2> DEFINE c == [from |-> start, to |-> end, max_chars |-> max_chars]
  <2>1. /\ pc = "cutting" /\ chunks' = Append(chunks, c) /\ doc' = doc
        /\ cursor' = NextCursor(end) /\ pc' = (IF cursor' = None THEN "over" ELSE "idle")
    BY <1>5 DEF Return
  <2>2. /\ c \in Chunk /\ c.from = Reached(chunks) /\ c.from = start /\ c.from < c.to /\ c.to = end
        /\ end <= Len(Text)
    BY <1>1, <2>1 DEF IInv, TypeOK, Chunk
  <2> HIDE DEF c
  <2>3. Given = PlacesUpTo(c.from)
    BY <2>2 DEF SInv
  <2>4. Given' = PlacesUpTo(end)
    <3>1. FlattenSeq([k \in DOMAIN chunks |-> Places(chunks[k])]) = PlacesUpTo(c.from)
      BY <2>3 DEF Given
    <3>2. FlattenSeq([k \in DOMAIN Append(chunks, c) |-> Places(Append(chunks, c)[k])]) = PlacesUpTo(c.to)
      BY <1>1, <2>2, <3>1, GivenAppend
    <3>3. QED
      BY <2>1, <2>2, <3>2 DEF Given, Places
  <2>5. Reached(chunks') = end
    <3>1. /\ chunks' \in Seq(Chunk) /\ Len(chunks') = Len(chunks) + 1 /\ Len(chunks) \in Nat
          /\ chunks'[Len(chunks) + 1] = c
      BY <1>1, <2>1, <2>2
    <3>2. chunks' # <<>>
      BY <3>1
    <3>3. QED
      BY <2>2, <3>1, <3>2 DEF Reached
  <2>6. SInv'
    BY <2>4, <2>5 DEF SInv
  <2>7. Len(Given) = start
    BY <1>1, <2>2, <2>3 DEF PlacesUpTo
  <2>8. end \in Len(Given) + 1..Len(Text)
    BY <1>1, <2>2, <2>7
  <2>9. Given' = Stream!FirstOnes(end)
    BY <2>4 DEF Stream!FirstOnes, PlacesUpTo
  <2>10. ~Over /\ Over' = (end = Len(Text))
    <3>1. ~Over
      BY <2>1 DEF Over
    <3>2. Over' <=> cursor' = None
      BY <2>1 DEF Over
    <3>3. cursor' = None <=> end = Len(Text)
      BY <1>1, <2>1, <2>2 DEF NextCursor, ChunkAssumption
    <3>4. Over \in BOOLEAN /\ Over' \in BOOLEAN
      BY DEF Over
    <3>5. QED
      BY <3>1, <3>2, <3>3, <3>4
  <2>11. Len(Text)' = Len(Text)
    BY <2>1 DEF Text
  <2>12. Stream!Next
    BY <2>8, <2>9, <2>10, <2>11 DEF Stream!Next, Stream!Give
  <2>13. QED
    BY <2>6, <2>12
<1>6. CASE UNCHANGED vars
  <2>1. doc' = doc /\ chunks' = chunks /\ Over' = Over
    BY <1>6 DEF vars, Over
  <2>2. QED
    BY <1>2, <2>1
<1>7. QED
  BY <1>3, <1>4, <1>5, <1>6 DEF Next

\* documents.py:251-270: the chunks a reader gets by following the cursors are
\* the text, as TextStream promises it, for any blocks, sizes and byte ceiling.
THEOREM WholeText == Spec => StreamsTheText
<1>1. Init => SInv /\ Stream!Init
  <2> SUFFICES ASSUME Init PROVE SInv /\ Stream!Init
    OBVIOUS
  <2>1. chunks = <<>> /\ pc = "idle" /\ doc \in Documents
    BY DEF Init
  <2>2. Len(Text) \in Nat \ {0}
    BY <2>1, Texts, ChunkAssumption, TextsAssumption DEF Text
  <2>3. Given = <<>>
    <3>1. [k \in DOMAIN chunks |-> Places(chunks[k])] = <<>>
      BY <2>1
    <3>2. FlattenSeq(<<>>) = <<>>
      BY DEF FlattenSeq
    <3>3. QED
      BY <3>1, <3>2 DEF Given
  <2>4. PlacesUpTo(Reached(chunks)) = <<>>
    BY <2>1 DEF PlacesUpTo, Reached
  <2>5. QED
    BY <2>1, <2>2, <2>3, <2>4 DEF SInv, Over, Stream!Init
<1>2. IInv /\ IInv' /\ SInv /\ [Next]_vars => SInv' /\ [Stream!Next]_Stream!vars
  BY NextStream, ChunkAssumption, TextsAssumption
<1>3. QED
  BY <1>1, <1>2, AlwaysIInv, PTL DEF Spec, StreamsTheText, Stream!Spec

---------------------------------------------------------------------------
(* The best cut.                                                            *)

\* The ends within both limits, from an offset on: CutIsBest's `fitting`.
Fitting(from, m) ==
  {to \in from + 1..Len(Text) : to - from <= m /\ (Bytes(from, to) <= MaxBytes \/ to = from + 1)}

\* What the loop keeps while it gives way: the end is a boundary behind which no
\* boundary fits, or none fits at all and no offset behind it does.
Best ==
  /\ end - start <= max_chars
  /\ \/ /\ end \in Boundaries
        /\ \A to \in Fitting(start, max_chars) \cap Boundaries : to <= end
     \/ /\ Fitting(start, max_chars) \cap Boundaries = {}
        /\ \A to \in Fitting(start, max_chars) : to <= end

CInv == (pc = "cutting" => Best) /\ CutIsBest

\* The chunk that ends at the best of the ends.
BestOf(c) ==
  c.to = Max(IF Fitting(c.from, c.max_chars) \cap Boundaries = {}
             THEN Fitting(c.from, c.max_chars)
             ELSE Fitting(c.from, c.max_chars) \cap Boundaries)

LEMMA CutIsBestAlike == CutIsBest <=> \A k \in DOMAIN chunks : BestOf(chunks[k])
  BY DEF CutIsBest, BestOf, Fitting, Fits

\* The end cut by characters: the last offset in the window and in the text.
LEMMA LowerEnd ==
  ASSUME NEW from \in Nat, NEW m \in Nat, m # 0, NEW n \in Nat, from < n
  PROVE  /\ Lower(from + m, n) \in Nat /\ from < Lower(from + m, n)
         /\ Lower(from + m, n) - from <= m
         /\ \A t \in Nat : t <= n /\ t - from <= m => t <= Lower(from + m, n)
  BY DEF Lower

\* If nothing that fits lies behind an end, cutting there cuts best.
LEMMA CutBest ==
  ASSUME ChunkAssumption, TextsAssumption, doc \in Documents,
         NEW from \in Nat, NEW m \in Nat, NEW to \in Nat, from < to, to - from <= m,
         \A t \in Fitting(from, m) : t <= to
  PROVE  /\ Cut(from, to) - from <= m
         /\ \/ /\ Cut(from, to) \in Boundaries
               /\ \A t \in Fitting(from, m) \cap Boundaries : t <= Cut(from, to)
            \/ /\ Fitting(from, m) \cap Boundaries = {}
               /\ \A t \in Fitting(from, m) : t <= Cut(from, to)
<1>1. Fitting(from, m) \cap Boundaries \subseteq Inside(from, to)
  <2> SUFFICES ASSUME NEW t \in Fitting(from, m), t \in Boundaries
               PROVE  from < t /\ t <= to
    BY DEF Inside
  <2>1. t \in from + 1..Len(Text)
    BY DEF Fitting
  <2>2. QED
    BY <2>1
<1>2. Cut(from, to) \in Nat /\ from < Cut(from, to) /\ Cut(from, to) <= to
  BY CutInside
<1>3. Cut(from, to) - from <= m
  BY <1>2
<1>4. CASE Inside(from, to) = {}
  <2>1. Cut(from, to) = to
    BY <1>4 DEF Cut
  <2>2. Fitting(from, m) \cap Boundaries = {}
    BY <1>1, <1>4
  <2>3. QED
    BY <1>3, <2>1, <2>2
<1>5. CASE Inside(from, to) # {}
  <2>1. /\ Cut(from, to) \in Inside(from, to)
        /\ \A b \in Inside(from, to) : b <= Cut(from, to)
    BY <1>5, CutInside
  <2>2. Cut(from, to) \in Boundaries
    BY <2>1 DEF Inside
  <2>3. QED
    BY <1>1, <1>3, <2>1, <2>2
<1>6. QED
  BY <1>4, <1>5

\* An end that fits and is the best kept is the best there is.
LEMMA ReturnBest ==
  ASSUME ChunkAssumption, TextsAssumption, IInv, Best, pc = "cutting", ~Oversized
  PROVE  BestOf([from |-> start, to |-> end, max_chars |-> max_chars])
<1> DEFINE F == Fitting(start, max_chars)
<1>1. /\ doc \in Documents /\ start \in Nat /\ end \in Nat /\ start < end
      /\ Len(Text) \in Nat /\ end <= Len(Text)
  BY Texts DEF IInv, TypeOK, Text
<1>2. end = start + 1 \/ Bytes(start, end) <= MaxBytes
  <2>1. Bytes(start, end) \in Nat /\ MaxBytes \in Nat
    BY <1>1, BytesBetween DEF Bytes, Text, ChunkAssumption
  <2>2. QED
    BY <1>1, <2>1 DEF Oversized
<1>3. end \in F
  <2>1. end \in start + 1..Len(Text)
    BY <1>1
  <2>2. QED
    BY <1>2, <2>1 DEF Fitting, Best
<1>4. F \subseteq Nat
  <2>1. \A t \in start + 1..Len(Text) : t \in Nat
    BY <1>1
  <2>2. QED
    BY <2>1 DEF Fitting
<1>5. CASE F \cap Boundaries = {}
  <2>1. \A t \in F : t <= end
    BY <1>3, <1>5 DEF Best
  <2> HIDE DEF F
  <2>2. Max(F) = end
    BY <1>3, <1>4, <2>1, GreatestIs
  <2>3. QED
    BY <1>5, <2>2 DEF BestOf, F
<1>6. CASE F \cap Boundaries # {}
  <2> DEFINE G == F \cap Boundaries
  <2>1. end \in G /\ \A t \in G : t <= end
    BY <1>3, <1>6 DEF Best
  <2>2. G \subseteq Nat
    BY <1>4
  <2> HIDE DEF G
  <2>3. Max(G) = end
    BY <2>1, <2>2, GreatestIs
  <2>4. QED
    BY <1>6, <2>3 DEF BestOf, G
<1>7. QED
  BY <1>5, <1>6

\* Characters have four bytes at most: no end that fits lies behind the one an
\* oversized chunk gives way to.
LEMMA ShrinkBest ==
  ASSUME ChunkAssumption, TextsAssumption, IInv, pc = "cutting", Oversized,
         NEW t \in Fitting(start, max_chars)
  PROVE  t <= Higher(start + 1, end - Overshoot(Bytes(start, end)))
<1> DEFINE b == Bytes(start, end)
<1>1. /\ doc \in Documents /\ start \in Nat /\ end \in Nat /\ start + 1 < end
      /\ Len(Text) \in Nat /\ end <= Len(Text) /\ MaxBytes \in Nat
  BY Texts DEF IInv, TypeOK, Text, Oversized, ChunkAssumption
<1>2. /\ t \in Nat /\ start + 1 <= t /\ t <= Len(Text)
      /\ Bytes(start, t) <= MaxBytes \/ t = start + 1
  <2>1. t \in start + 1..Len(Text) /\ (Bytes(start, t) <= MaxBytes \/ t = start + 1)
    BY DEF Fitting
  <2>2. QED
    BY <1>1, <2>1
<1>3. b \in Nat /\ b > MaxBytes
  BY <1>1, BytesBetween DEF Bytes, Text, Oversized
<1>4. CASE t = start + 1
  <2>1. Overshoot(b) \in Int
    BY <1>1, <1>3 DEF Overshoot, Higher
  <2> HIDE DEF b
  <2>2. t <= Higher(start + 1, end - Overshoot(b))
    BY <1>1, <1>4, <2>1 DEF Higher
  <2>3. QED
    BY <2>2 DEF b
<1>5. CASE t # start + 1
  <2>1. Bytes(start, t) <= MaxBytes
    BY <1>2, <1>5
  <2>2. t < end
    <3> SUFFICES ASSUME end <= t PROVE FALSE
      BY <1>1, <1>2
    <3>1. /\ Bytes(start, end) \in Nat /\ Bytes(start, t) \in Nat
          /\ Bytes(start, end) <= Bytes(start, t)
      BY <1>1, <1>2, BytesBetween DEF Bytes, Text
    <3>2. QED
      BY <1>1, <1>3, <2>1, <3>1
  <2>3. Bytes(start, t) \in Nat /\ b <= Bytes(start, t) + 4 * (end - t)
    BY <1>1, <1>2, <2>2, BytesBetween DEF Bytes, Text
  <2> HIDE DEF b
  <2>4. b - MaxBytes <= 4 * (end - t)
    BY <1>1, <1>2, <1>3, <2>1, <2>3
  <2>5. (b - MaxBytes) \div 4 <= end - t /\ (b - MaxBytes) \div 4 \in Int
    BY <1>1, <1>2, <1>3, <2>2, <2>4
  <2>6. Overshoot(b) <= end - t /\ Overshoot(b) \in Int
    BY <1>1, <1>2, <2>2, <2>5 DEF Overshoot, Higher
  <2>7. t <= Higher(start + 1, end - Overshoot(b))
    BY <1>1, <1>2, <2>6 DEF Higher
  <2>8. QED
    BY <2>7 DEF b
<1>6. QED
  BY <1>4, <1>5

LEMMA NextCInv ==
  ASSUME ChunkAssumption, TextsAssumption, IInv, IInv', CInv, [Next]_vars
  PROVE  CInv'
<1>1. /\ doc \in Documents /\ start \in Nat /\ end \in Nat
      /\ Len(Text) \in Nat /\ MaxChars \subseteq Nat \ {0}
  BY Texts DEF IInv, TypeOK, Text, ChunkAssumption
<1>2. ASSUME doc' = doc PROVE Text' = Text /\ Boundaries' = Boundaries
  BY <1>2 DEF Text, Boundaries
<1>3. ASSUME doc' = doc, chunks' = chunks PROVE CutIsBest'
  BY <1>2, <1>3 DEF CInv, CutIsBest, Fits, Bytes
<1>4. ASSUME NEW m \in MaxChars, Read(m)
      PROVE  CInv'
  <2> DEFINE to == Lower(start' + m, Len(Text))
  <2>1. /\ max_chars' = m /\ doc' = doc /\ end' = Cut(start', to) /\ chunks' = chunks
        /\ start' = IF cursor = None THEN 0 ELSE cursor
    BY <1>4 DEF Read
  <2>2. start' \in Nat /\ start' < Len(Text)
    BY <1>1, <2>1, Texts DEF IInv, TypeOK, Text
  <2>3. m \in Nat /\ m # 0
    BY <1>1
  <2>4. to \in Nat /\ start' < to /\ to - start' <= m
    BY <1>1, <2>2, <2>3, LowerEnd
  <2>5. \A t \in Fitting(start', m) : t <= to
    <3> SUFFICES ASSUME NEW t \in Fitting(start', m) PROVE t <= to
      OBVIOUS
    <3>1. t \in start' + 1..Len(Text) /\ t - start' <= m
      BY DEF Fitting
    <3>2. t \in Nat /\ t <= Len(Text)
      <4> DEFINE from == start'
                 n == Len(Text)
      <4>1. from \in Nat /\ n \in Nat /\ t \in from + 1..n
        BY <1>1, <2>2, <3>1
      <4> HIDE DEF from, n
      <4>2. t \in Nat /\ t <= n
        BY <4>1
      <4>3. QED
        BY <4>2 DEF n
    <3>3. QED
      BY <1>1, <2>2, <2>3, <3>1, <3>2, LowerEnd
  <2> HIDE DEF to
  <2>6. /\ end' - start' <= m
        /\ \/ /\ end' \in Boundaries
              /\ \A t \in Fitting(start', m) \cap Boundaries : t <= end'
           \/ /\ Fitting(start', m) \cap Boundaries = {}
              /\ \A t \in Fitting(start', m) : t <= end'
    BY <1>1, <2>1, <2>2, <2>3, <2>4, <2>5, CutBest
  <2>7. Best'
    BY <1>2, <2>1, <2>6 DEF Best, Fitting, Bytes
  <2>8. QED
    BY <1>3, <2>1, <2>7 DEF CInv
<1>5. CASE Shrink
  <2> DEFINE to == Higher(start + 1, end - Overshoot(Bytes(start, end)))
  <2>1. /\ pc = "cutting" /\ Oversized /\ doc' = doc /\ end' = Cut(start, to)
        /\ start' = start /\ max_chars' = max_chars /\ chunks' = chunks
    BY <1>5 DEF Shrink
  <2>2. \A t \in Fitting(start, max_chars) : t <= to
    BY <2>1, ShrinkBest
  <2>3. to \in Nat /\ start < to /\ to <= end
    <3> DEFINE b == Bytes(start, end)
    <3>1. b \in Nat /\ b > MaxBytes /\ MaxBytes \in Nat /\ start + 1 < end
      BY <1>1, <2>1, BytesBetween DEF Bytes, Text, Oversized, IInv, TypeOK, ChunkAssumption
    <3>2. Overshoot(b) \in Int /\ Overshoot(b) >= 1
      BY <3>1 DEF Overshoot, Higher
    <3> HIDE DEF b
    <3>3. Higher(start + 1, end - Overshoot(b)) \in Nat
          /\ start < Higher(start + 1, end - Overshoot(b))
          /\ Higher(start + 1, end - Overshoot(b)) <= end
      BY <1>1, <3>1, <3>2 DEF Higher
    <3>4. QED
      BY <3>3 DEF b
  <2> HIDE DEF to
  <2>4. max_chars \in Nat /\ end - start <= max_chars
    BY <1>1, <2>1 DEF IInv, CInv, Best
  <2>5. to - start <= max_chars
    BY <1>1, <2>3, <2>4
  <2>6. /\ end' - start <= max_chars
        /\ \/ /\ end' \in Boundaries
              /\ \A t \in Fitting(start, max_chars) \cap Boundaries : t <= end'
           \/ /\ Fitting(start, max_chars) \cap Boundaries = {}
              /\ \A t \in Fitting(start, max_chars) : t <= end'
    BY <1>1, <2>1, <2>2, <2>3, <2>4, <2>5, CutBest
  <2>7. Best'
    BY <1>2, <2>1, <2>6 DEF Best, Fitting, Bytes
  <2>8. QED
    BY <1>3, <2>1, <2>7 DEF CInv
<1>6. CASE Return
  <2> DEFINE c == [from |-> start, to |-> end, max_chars |-> max_chars]
  <2>1. /\ pc = "cutting" /\ ~Oversized /\ doc' = doc /\ chunks' = Append(chunks, c)
        /\ pc' = IF cursor' = None THEN "over" ELSE "idle"
    BY <1>6 DEF Return
  <2>2. BestOf(c)
    BY <2>1, ReturnBest DEF CInv
  <2> HIDE DEF c
  <2>3. \A k \in DOMAIN chunks : BestOf(chunks[k])
    BY CutIsBestAlike DEF CInv
  <2>4. \A k \in DOMAIN chunks' : BestOf(chunks'[k])
    <3>1. chunks \in Seq(Chunk)
      BY DEF IInv, TypeOK
    <3>2. DOMAIN chunks' = 1..Len(chunks) + 1 /\ DOMAIN chunks = 1..Len(chunks) /\ Len(chunks) \in Nat
      BY <2>1, <3>1
    <3>3. chunks'[Len(chunks) + 1] = c /\ \A k \in 1..Len(chunks) : chunks'[k] = chunks[k]
      BY <2>1, <3>1
    <3>4. \A k \in 1..Len(chunks) + 1 : k \in 1..Len(chunks) \/ k = Len(chunks) + 1
      BY <3>2
    <3>5. QED
      BY <2>2, <2>3, <3>2, <3>3, <3>4
  <2>5. CutIsBest'
    BY <1>2, <2>1, <2>4 DEF BestOf, Fitting, CutIsBest, Fits, Bytes
  <2>6. QED
    BY <2>1, <2>5 DEF CInv
<1>7. CASE UNCHANGED vars
  BY <1>2, <1>3, <1>7 DEF vars, CInv, Best, Fitting, Bytes
<1>8. QED
  BY <1>4, <1>5, <1>6, <1>7 DEF Next

\* documents.py:256-262, docs/api.md:46-49: for any blocks, sizes and byte
\* ceiling, the loop ends at the last boundary within both limits, or where no
\* boundary is, at the last character within both.
THEOREM CutsAreBest == Spec => []CutIsBest
<1>1. Init => CInv
  <2> SUFFICES ASSUME Init PROVE CInv
    OBVIOUS
  <2>1. DOMAIN chunks = {} /\ pc # "cutting"
    BY DEF Init
  <2>2. QED
    BY <2>1 DEF CInv, CutIsBest
<1>2. IInv /\ IInv' /\ CInv /\ [Next]_vars => CInv'
  BY NextCInv, ChunkAssumption, TextsAssumption
<1>3. CInv => CutIsBest
  BY DEF CInv
<1>4. QED
  BY <1>1, <1>2, <1>3, AlwaysIInv, PTL DEF Spec
=============================================================================
