--------------------------- MODULE HtmlTextProofs ---------------------------
(* Theorems of HtmlText, for every set of elements, void or not, nested in   *)
(* any way, and pages of any length.                                        *)
EXTENDS HtmlText, ListFacts

Tags == Silent \cup Breaks \cup Inline
Pieces == {"shown", "hidden", Blank, Newline}

\* Where the silent elements are among those open.
SilentAt(s) == {n \in DOMAIN s : s[n] \in Silent}

\* The depth is the number of silent elements open, or more: an element that is
\* never closed is counted for good.  It can be less only while the page does not
\* show, after an end tag of a silent element that is not open.
IInv == /\ TypeOK /\ depth <= tokens
        /\ ~astray => Cardinality(SilentAt(open)) <= depth

---------------------------------------------------------------------------
(* The elements open.                                                       *)

LEMMA SilentAtFinite ==
  ASSUME NEW s \in Seq(Tags)
  PROVE  IsFiniteSet(SilentAt(s)) /\ Cardinality(SilentAt(s)) \in Nat
<1>1. IsFiniteSet(1..Len(s))
  BY FS_Interval
<1>2. SilentAt(s) \in SUBSET (1..Len(s))
  BY DEF SilentAt
<1>3. IsFiniteSet(SilentAt(s))
  BY <1>1, <1>2, FS_Subset
<1>4. QED
  BY <1>3, FS_CardinalityType

LEMMA SilentAppended ==
  ASSUME NEW s \in Seq(Tags), NEW tag \in Tags
  PROVE  /\ Append(s, tag) \in Seq(Tags)
         /\ Cardinality(SilentAt(Append(s, tag))) =
              IF tag \in Silent THEN Cardinality(SilentAt(s)) + 1 ELSE Cardinality(SilentAt(s))
<1> DEFINE n == Len(s) + 1
<1>1. /\ SilentAt(Append(s, tag)) =
           IF tag \in Silent THEN SilentAt(s) \cup {n} ELSE SilentAt(s)
      /\ n \notin SilentAt(s)
  <2> DEFINE u == Append(s, tag)
  <2>1. /\ DOMAIN s = 1..Len(s) /\ DOMAIN u = 1..n /\ n \in Nat /\ Len(s) \in Nat
        /\ u[n] = tag /\ \A k \in 1..Len(s) : u[k] = s[k]
    BY DEF Tags
  <2> HIDE DEF u
  <2>2. \A k : k \in 1..n <=> k \in 1..Len(s) \/ k = n
    BY <2>1
  <2>3. n \notin 1..Len(s)
    BY <2>1
  <2>4. QED
    BY <2>1, <2>2, <2>3, Zenon DEF SilentAt, u
<1>2. Append(s, tag) \in Seq(Tags)
  BY AppendProperties
<1>3. Cardinality(SilentAt(s) \cup {n}) = Cardinality(SilentAt(s)) + 1
  <2>1. IsFiniteSet(SilentAt(s)) /\ n \notin SilentAt(s)
    BY <1>1, SilentAtFinite
  <2> HIDE DEF n
  <2>2. QED
    BY <2>1, FS_AddElement
<1>4. QED
  BY <1>1, <1>2, <1>3

LEMMA SilentRemoved ==
  ASSUME NEW s \in Seq(Tags), s # <<>>
  PROVE  /\ Front(s) \in Seq(Tags) /\ Last(s) \in Tags
         /\ Cardinality(SilentAt(Front(s))) =
              IF Last(s) \in Silent THEN Cardinality(SilentAt(s)) - 1
                                    ELSE Cardinality(SilentAt(s))
<1> DEFINE n == Len(s)
<1>1. n \in 1..Len(s) /\ Last(s) = s[n] /\ Front(s) \in Seq(Tags) /\ Last(s) \in Tags
  BY DEF Front, Last
<1>2. SilentAt(Front(s)) = SilentAt(s) \ {n}
  BY DEF SilentAt, Front
<1>3. n \in SilentAt(s) <=> Last(s) \in Silent
  BY <1>1 DEF SilentAt
<1>4. QED
  BY <1>1, <1>2, <1>3, SilentAtFinite, FS_RemoveElement

\* Where a page shows, no silent element is open; where it does not, one is.
LEMMA SilentMeansHidden ==
  ASSUME NEW s \in Seq(Tags)
  PROVE  Cardinality(SilentAt(s)) = 0 <=> ToSet(s) \cap Silent = {}
<1>1. Cardinality(SilentAt(s)) = 0 <=> SilentAt(s) = {}
  BY SilentAtFinite, FS_EmptySet
<1>2. SilentAt(s) = {} <=> ToSet(s) \cap Silent = {}
  BY DEF SilentAt, ToSet
<1>3. QED
  BY <1>1, <1>2

---------------------------------------------------------------------------
(* The parts.                                                               *)

LEMMA BrokenPieces ==
  ASSUME NEW p \in Seq(Pieces), NEW tag
  PROVE  Broken(p, tag) \in Seq(Pieces) /\ Len(Broken(p, tag)) <= Len(p) + 1
<1>1. Newline \in Pieces
  BY DEF Pieces
<1>2. Append(p, Newline) \in Seq(Pieces) /\ Len(Append(p, Newline)) = Len(p) + 1
  BY <1>1
<1>3. Len(p) \in Nat
  OBVIOUS
<1>4. QED
  BY <1>2, <1>3 DEF Broken

---------------------------------------------------------------------------

LEMMA InitIInv == PageAssumption /\ Init => IInv
<1> SUFFICES ASSUME PageAssumption, Init PROVE IInv
  OBVIOUS
<1>1. SilentAt(open) = {}
  BY DEF Init, SilentAt
<1>2. Cardinality(SilentAt(open)) = 0
  BY <1>1, FS_EmptySet
<1>3. TypeOK
  <2>1. Len(<<>>) = 0 /\ <<>> \in Seq(Pieces) /\ <<>> \in Seq(Tags)
    OBVIOUS
  <2>2. 0 \in 0..MaxTokens /\ 0 <= 2 * 0
    BY DEF PageAssumption
  <2>3. /\ open \in Seq(Tags) /\ parts \in Seq(Pieces) /\ Len(parts) <= 2 * tokens
        /\ tokens \in 0..MaxTokens /\ depth \in 0..MaxTokens /\ astray \in BOOLEAN
    BY <2>1, <2>2 DEF Init
  <2>4. QED
    BY <2>3 DEF TypeOK, Pieces, Tags
<1>4. QED
  BY <1>2, <1>3 DEF Init, IInv

\* What is left of a step is arithmetic.
LEMMA StepIInv ==
  ASSUME PageAssumption, IInv, Token, open' \in Seq(Tags), parts' \in Seq(Pieces),
         Len(parts') <= Len(parts) + 2, depth' \in Nat, depth' <= depth + 1,
         astray' \in BOOLEAN, ~astray' => Cardinality(SilentAt(open')) <= depth'
  PROVE  IInv'
<1>1. /\ tokens \in Nat /\ depth \in Nat /\ depth <= tokens /\ tokens' = tokens + 1
      /\ tokens' <= MaxTokens /\ MaxTokens \in Nat /\ Len(parts) <= 2 * tokens
      /\ parts \in Seq(Pieces)
  BY DEF IInv, TypeOK, Token, PageAssumption, Pieces
<1>2. Len(parts') <= 2 * tokens' /\ depth' <= tokens' /\ depth' \in 0..MaxTokens
      /\ tokens' \in 0..MaxTokens
  <2>1. Len(parts) \in Nat /\ Len(parts') \in Nat
    BY <1>1
  <2>2. QED
    BY <1>1, <2>1
<1>3. SilentAt(open)' = SilentAt(open')
  BY DEF SilentAt
<1>4. TypeOK'
  BY <1>2 DEF TypeOK, Tags, Pieces
<1>5. QED
  BY <1>2, <1>3, <1>4 DEF IInv

\* An element that ends takes a silent element less, or the page shows again.
LEMMA CloseKeeps ==
  ASSUME open \in Seq(Tags), astray \in BOOLEAN, Close
  PROVE  /\ open' \in Seq(Tags) /\ Last(open) \in Tags /\ astray' \in BOOLEAN
         /\ Cardinality(SilentAt(open')) \in Nat
         /\ Cardinality(SilentAt(open')) =
              IF Last(open) \in Silent THEN Cardinality(SilentAt(open)) - 1
                                       ELSE Cardinality(SilentAt(open))
         /\ ~astray' => ~astray \/ Cardinality(SilentAt(open')) = 0
<1>1. open # <<>> /\ open' = Front(open) /\ astray' = (astray /\ ~Shows(Front(open)))
  BY DEF Close
<1>2. /\ open' \in Seq(Tags) /\ Last(open) \in Tags
      /\ Cardinality(SilentAt(open')) = IF Last(open) \in Silent THEN Cardinality(SilentAt(open)) - 1
                                                        ELSE Cardinality(SilentAt(open))
  BY <1>1, SilentRemoved
<1>3. Cardinality(SilentAt(open')) \in Nat
  BY <1>2, SilentAtFinite
<1>4. Cardinality(SilentAt(open')) = 0 <=> Shows(open')
  BY <1>2, SilentMeansHidden DEF Shows
<1>5. QED
  BY <1>1, <1>2, <1>3, <1>4

LEMMA NextIInv == PageAssumption /\ IInv /\ [Next]_vars => IInv'
<1> SUFFICES ASSUME PageAssumption, IInv, [Next]_vars PROVE IInv'
  OBVIOUS
<1>1. /\ open \in Seq(Tags) /\ depth \in Nat /\ parts \in Seq(Pieces) /\ Len(parts) \in Nat
      /\ Cardinality(SilentAt(open)) \in Nat /\ astray \in BOOLEAN
      /\ ~astray => Cardinality(SilentAt(open)) <= depth
  <2>1. open \in Seq(Tags) /\ depth \in Nat /\ parts \in Seq(Pieces) /\ astray \in BOOLEAN
    BY DEF IInv, TypeOK, Tags, Pieces
  <2>2. QED
    BY <2>1, SilentAtFinite DEF IInv
<1>2. ASSUME NEW tag
      PROVE  /\ Broken(parts, tag) \in Seq(Pieces) /\ Len(Broken(parts, tag)) <= Len(parts) + 2
             /\ Broken(Broken(parts, tag), tag) \in Seq(Pieces)
             /\ Len(Broken(Broken(parts, tag), tag)) <= Len(parts) + 2
  <2> DEFINE p == Broken(parts, tag)
  <2>1. p \in Seq(Pieces) /\ Len(p) <= Len(parts) + 1
    BY <1>1, BrokenPieces
  <2> HIDE DEF p
  <2>2. Broken(p, tag) \in Seq(Pieces) /\ Len(Broken(p, tag)) <= Len(p) + 1
    BY <2>1, BrokenPieces
  <2>3. Len(p) \in Nat /\ Len(Broken(p, tag)) \in Nat
    BY <2>1, <2>2
  <2>4. QED
    BY <1>1, <2>1, <2>2, <2>3 DEF p
<1>3. ASSUME NEW tag \in Tags, StartTag(tag)
      PROVE  IInv'
  <2>1. open' = Append(open, tag) /\ depth' = Entered(depth, tag) /\ astray' = astray
        /\ parts' = Broken(parts, tag) /\ Token
    BY <1>3 DEF StartTag
  <2>2. /\ open' \in Seq(Tags)
        /\ Cardinality(SilentAt(open')) = IF tag \in Silent THEN Cardinality(SilentAt(open)) + 1
                                                          ELSE Cardinality(SilentAt(open))
    BY <1>1, <2>1, SilentAppended
  <2>3. /\ depth' \in Nat /\ depth' <= depth + 1
        /\ ~astray' => Cardinality(SilentAt(open')) <= depth'
    BY <1>1, <2>1, <2>2 DEF Entered
  <2>4. QED
    BY <1>1, <1>2, <2>1, <2>2, <2>3, StepIInv
<1>4. CASE EndTag
  <2> DEFINE tag == Last(open)
  <2>1. Close /\ depth' = Left(depth, tag) /\ parts' = Broken(parts, tag) /\ Token
    BY <1>4 DEF EndTag
  <2>2. /\ open' \in Seq(Tags) /\ astray' \in BOOLEAN /\ Cardinality(SilentAt(open')) \in Nat
        /\ Cardinality(SilentAt(open')) = IF tag \in Silent THEN Cardinality(SilentAt(open)) - 1
                                                          ELSE Cardinality(SilentAt(open))
        /\ ~astray' => ~astray \/ Cardinality(SilentAt(open')) = 0
    BY <1>1, <2>1, CloseKeeps
  <2>3. depth' \in Nat /\ depth' <= depth + 1
    BY <1>1, <2>1 DEF Left
  <2>4. ASSUME ~astray' PROVE Cardinality(SilentAt(open')) <= depth'
    BY <1>1, <2>1, <2>2, <2>3, <2>4 DEF Left
  <2>5. QED
    BY <1>2, <2>1, <2>2, <2>3, <2>4, StepIInv
<1>5. CASE ImpliedEnd
  <2>1. Close /\ UNCHANGED <<tokens, depth, parts>>
    BY <1>5 DEF ImpliedEnd
  <2>2. /\ open' \in Seq(Tags) /\ astray' \in BOOLEAN /\ Cardinality(SilentAt(open')) \in Nat
        /\ Cardinality(SilentAt(open')) <= Cardinality(SilentAt(open))
        /\ ~astray' => ~astray \/ Cardinality(SilentAt(open')) = 0
    BY <1>1, <2>1, CloseKeeps
  <2>3. ~astray' => Cardinality(SilentAt(open')) <= depth'
    BY <1>1, <2>1, <2>2
  <2>4. SilentAt(open)' = SilentAt(open')
    BY DEF SilentAt
  <2>5. TypeOK' /\ depth' <= tokens'
    BY <2>1, <2>2 DEF IInv, TypeOK, Tags
  <2>6. QED
    BY <2>3, <2>4, <2>5 DEF IInv
\* Where the page shows no silent element is open; elsewhere it is noted.
<1>6. ASSUME NEW tag, StrayEndTag(tag)
      PROVE  IInv'
  <2>1. /\ open' = open /\ depth' = Left(depth, tag) /\ parts' = Broken(parts, tag) /\ Token
        /\ astray' = (astray \/ (tag \in Silent /\ ~Visible))
    BY <1>6 DEF StrayEndTag
  <2>2. Visible => Cardinality(SilentAt(open)) = 0
    BY <1>1, SilentMeansHidden DEF Visible, Shows
  <2>3. depth' \in Nat /\ depth' <= depth + 1 /\ (tag \notin Silent => depth' = depth)
    BY <1>1, <2>1 DEF Left
  <2>4. astray' \in BOOLEAN
    BY <1>1, <2>1
  <2>5. ASSUME ~astray' PROVE Cardinality(SilentAt(open')) <= depth'
    <3>1. ~astray /\ (Visible \/ tag \notin Silent)
      BY <2>1, <2>5, Zenon
    <3>2. Cardinality(SilentAt(open)) <= depth'
      BY <1>1, <2>2, <2>3, <3>1
    <3>3. QED
      BY <2>1, <3>2
  <2>6. QED
    BY <1>1, <1>2, <2>1, <2>3, <2>4, <2>5, StepIInv
<1>7. ASSUME NEW tag, VoidTag(tag)
      PROVE  IInv'
  <2>1. open' = open /\ depth' = Entered(depth, tag) /\ astray' = astray
        /\ parts' = Broken(parts, tag) /\ Token
    BY <1>7 DEF VoidTag
  <2>2. /\ depth' \in Nat /\ depth' <= depth + 1
        /\ ~astray' => Cardinality(SilentAt(open')) <= depth'
    BY <1>1, <2>1 DEF Entered
  <2>3. QED
    BY <1>1, <1>2, <2>1, <2>2, StepIInv
<1>8. ASSUME NEW tag, SlashedTag(tag)
      PROVE  IInv'
  <2>1. /\ open' = open /\ depth' = Left(Entered(depth, tag), tag) /\ astray' = astray
        /\ parts' = Broken(Broken(parts, tag), tag) /\ Token
    BY <1>8 DEF SlashedTag
  <2>2. depth' = depth
    BY <1>1, <2>1 DEF Entered, Left
  <2>3. /\ depth' \in Nat /\ depth' <= depth + 1
        /\ ~astray' => Cardinality(SilentAt(open')) <= depth'
    BY <1>1, <2>1, <2>2
  <2>4. QED
    BY <1>1, <1>2, <2>1, <2>3, StepIInv
<1>9. ASSUME NEW d \in {Word, Blank, Newline}, Data(d)
      PROVE  IInv'
  <2>1. /\ open' = open /\ depth' = depth /\ astray' = astray /\ Token
        /\ parts' = IF depth = 0 THEN Append(parts, d) ELSE parts
    BY <1>9 DEF Data
  <2>2. d \in Pieces
    BY <1>9 DEF Pieces, Word
  <2>3. parts' \in Seq(Pieces) /\ Len(parts') <= Len(parts) + 2
    BY <1>1, <2>1, <2>2
  <2>4. QED
    BY <1>1, <2>1, <2>3, StepIInv
<1>10. CASE UNCHANGED vars
  BY <1>10 DEF vars, IInv, TypeOK, SilentAt
<1>11. QED
  BY <1>3, <1>4, <1>5, <1>6, <1>7, <1>8, <1>9, <1>10 DEF Next, Tags

LEMMA AlwaysIInv == Spec => []IInv
<1>1. Init => IInv
  BY InitIInv, PageAssumption
<1>2. IInv /\ [Next]_vars => IInv'
  BY NextIInv, PageAssumption
<1>3. QED
  BY <1>1, <1>2, PTL DEF Spec

\* markup.py:26-66: the depth is never negative and never more than the tags so
\* far, and a tag adds two breaks at most.
THEOREM TypeCorrect == Spec => []TypeOK
<1>1. IInv => TypeOK
  BY DEF IInv
<1>2. QED
  BY <1>1, AlwaysIInv, PTL

\* A tag adds breaks and nothing else.
LEMMA BrokenAdds ==
  ASSUME NEW p \in Seq(Pieces), NEW tag
  PROVE  /\ New(p, Broken(p, tag)) \subseteq {Newline}
         /\ New(p, Broken(Broken(p, tag), tag)) \subseteq {Newline}
<1> DEFINE q == Append(p, Newline)
           r == Append(q, Newline)
<1>1. Newline \in Pieces /\ Len(p) \in Nat
  BY DEF Pieces
<1>2. /\ q \in Seq(Pieces) /\ Len(q) = Len(p) + 1 /\ q[Len(p) + 1] = Newline
      /\ \A n \in 1..Len(p) : q[n] = p[n]
  BY <1>1, AppendProperties
<1> HIDE DEF q
<1>3. /\ r \in Seq(Pieces) /\ Len(r) = Len(p) + 2 /\ r[Len(p) + 2] = Newline
      /\ r[Len(p) + 1] = Newline
  <2>1. /\ r \in Seq(Pieces) /\ Len(r) = Len(q) + 1 /\ r[Len(q) + 1] = Newline
        /\ \A n \in 1..Len(q) : r[n] = q[n]
    BY <1>1, <1>2, AppendProperties
  <2> HIDE DEF r
  <2>2. QED
    BY <1>1, <1>2, <2>1
<1> HIDE DEF r
<1>4. New(p, p) = {}
  BY <1>1 DEF New
<1>5. New(p, q) \subseteq {Newline} /\ New(p, r) \subseteq {Newline}
  BY <1>1, <1>2, <1>3 DEF New
<1>6. QED
  BY <1>4, <1>5 DEF Broken, q, r

\* markup.py:15-16: nothing that is for the browser reaches a reader, for any
\* elements, void or not, nested in any way, closed or not, unless the end tag of
\* a silent element that is not open has come since the page last showed.
THEOREM BrowserTextDropped == Spec => BrowserTextIsDropped
<1>1. ASSUME IInv, [Next]_vars
      PROVE  [~astray => "hidden" \notin New(parts, parts')]_vars
  <2>1. parts \in Seq(Pieces) /\ open \in Seq(Tags) /\ Len(parts) \in Nat /\ depth \in Nat
    BY <1>1 DEF IInv, TypeOK, Pieces, Tags
  <2>2. New(parts, parts) = {}
    BY <2>1 DEF New
  <2>3. \A tag : /\ "hidden" \notin New(parts, Broken(parts, tag))
                 /\ "hidden" \notin New(parts, Broken(Broken(parts, tag), tag))
    BY <2>1, BrokenAdds DEF Newline
  <2>4. ASSUME NEW tag, StartTag(tag) \/ StrayEndTag(tag) \/ VoidTag(tag) \/ SlashedTag(tag)
        PROVE  "hidden" \notin New(parts, parts')
    BY <2>3, <2>4 DEF StartTag, StrayEndTag, VoidTag, SlashedTag
  <2>5. CASE EndTag \/ ImpliedEnd
    BY <2>2, <2>3, <2>5 DEF EndTag, ImpliedEnd
  \* Such a word comes while a silent element is open, and so while the depth is
  \* not 0.
  <2>6. ASSUME NEW d \in {Word, Blank, Newline}, Data(d), ~astray
        PROVE  "hidden" \notin New(parts, parts')
    <3>1. CASE depth = 0
      <4>1. Visible
        <5>1. Cardinality(SilentAt(open)) = 0
          <6>1. Cardinality(SilentAt(open)) \in Nat
            BY <2>1, SilentAtFinite
          <6>2. QED
            BY <1>1, <2>6, <3>1, <6>1 DEF IInv
        <5>2. QED
          BY <2>1, <5>1, SilentMeansHidden DEF Visible, Shows
      <4>2. d # "hidden" /\ d \in Pieces
        BY <2>6, <4>1 DEF Word, Blank, Newline, Pieces
      <4>3. parts' = Append(parts, d)
        BY <2>6, <3>1 DEF Data
      <4>4. Len(parts') = Len(parts) + 1 /\ parts'[Len(parts) + 1] = d
        BY <2>1, <4>2, <4>3, AppendProperties
      <4>5. QED
        BY <2>1, <4>2, <4>4 DEF New
    <3>2. CASE depth # 0
      BY <2>2, <2>6, <3>2 DEF Data
    <3>3. QED
      BY <3>1, <3>2
  <2>7. CASE UNCHANGED vars
    BY <2>7
  <2>8. QED
    BY <1>1, <2>4, <2>5, <2>6, <2>7 DEF Next
<1>2. QED
  BY <1>1, AlwaysIInv, PTL DEF Spec, BrowserTextIsDropped

---------------------------------------------------------------------------
(* The recursive functions the text is made with, element after element.    *)

Plus == [n \in Nat |-> [m \in Nat |-> n + m]]

LEMMA PlusType == 0 \in Nat /\ Plus \in [Nat -> [Nat -> Nat]]
  BY DEF Plus

\* Count adds up.
LEMMA CountFolds ==
  ASSUME NEW s \in Seq(Nat)
  PROVE  CanFold(Nat, Nat, 0, Plus, s) /\ EndsWith(Nat, 0, Plus, s, Count(s))
<1> DEFINE N == Len(s)
           Body(h) == [n \in 0..N |-> IF n = 0 THEN 0 ELSE h[n - 1] + s[n]]
           chosen == CHOOSE h : h = Body(h)
<1>1. /\ N \in Nat /\ 0 = 0 /\ CanFold(Nat, Nat, 0, Plus, s)
      /\ \A n \in 1..N : s[n] \in Nat
  <2>1. N \in Nat /\ \A n \in 1..N : s[n] \in Nat
    OBVIOUS
  <2>2. CanFold(Nat, Nat, 0, Plus, s)
    BY PlusType DEF CanFold
  <2>3. 0 = 0
    OBVIOUS
  <2>4. QED
    BY <2>1, <2>2, <2>3
<1>2. ASSUME NEW h, NEW n \in 1..N, h[n - 1] \in Nat PROVE Plus[h[n - 1]][s[n]] = h[n - 1] + s[n]
  BY <1>1, <1>2 DEF Plus
<1>3. PICK f \in Foldings(Nat, 0, Plus, s) : TRUE
  <2> HIDE DEF N
  <2>1. QED
    BY <1>1, Folded
<1>4. f = Body(f)
  <2>1. f \in [0..N -> Nat] /\ f[0] = 0 /\ \A n \in 1..N : f[n] = Plus[f[n - 1]][s[n]]
    BY <1>3 DEF Foldings
  <2> HIDE DEF N
  <2>2. ASSUME NEW n \in 0..N PROVE f[n] = IF n = 0 THEN 0 ELSE f[n - 1] + s[n]
    <3>1. CASE n = 0
      BY <1>1, <2>1, <3>1
    <3>2. CASE n # 0
      <4>1. n \in 1..N /\ n - 1 \in 0..N
        BY <1>1, <3>2
      <4>2. f[n - 1] \in Nat
        BY <2>1, <4>1
      <4>3. QED
        BY <1>2, <2>1, <3>2, <4>1, <4>2
    <3>3. QED
      BY <3>1, <3>2
  <2>3. QED
    BY <2>1, <2>2, Zenon
<1>5. chosen = Body(chosen)
  <2> HIDE DEF Body
  <2>1. QED
    BY <1>4, Zenon
<1>6. chosen[0] = 0 /\ \A n \in 1..N : chosen[n] = chosen[n - 1] + s[n]
  <2> HIDE DEF chosen, N
  <2>1. chosen[0] = 0
    BY <1>1, <1>5
  <2>2. ASSUME NEW n \in 1..N PROVE chosen[n] = chosen[n - 1] + s[n]
    <3>1. n \in 0..N /\ n # 0
      BY <1>1
    <3>2. QED
      BY <1>5, <3>1
  <2>3. QED
    BY <2>1, <2>2
<1>7. Count(s) = chosen[N]
  BY DEF Count
<1>8. chosen[0] = 0 /\ \A n \in 1..N : chosen[n - 1] \in Nat => chosen[n] = Plus[chosen[n - 1]][s[n]]
  <2> HIDE DEF chosen, Body, N
  <2>1. QED
    BY <1>1, <1>2, <1>6
<1>9. EndsWith(Nat, 0, Plus, s, chosen[N])
  <2>1. TakesIn(chosen, Nat, 0, Plus, s)
    <3> HIDE DEF chosen, Body
    <3>1. QED
      BY <1>8 DEF TakesIn
  <2> HIDE DEF chosen, Body
  <2>2. QED
    BY <1>1, <2>1, FoldingIs
<1>10. QED
  BY <1>1, <1>7, <1>9

\* ... a number more.
LEMMA CountAppend ==
  ASSUME NEW s \in Seq(Nat), NEW x \in Nat
  PROVE  Count(s) \in Nat /\ Count(Append(s, x)) = Count(s) + x
<1> DEFINE t == Append(s, x)
<1>1. t \in Seq(Nat)
  OBVIOUS
<1> HIDE DEF t
<1>2. CanFold(Nat, Nat, 0, Plus, s) /\ EndsWith(Nat, 0, Plus, s, Count(s))
  BY CountFolds
<1>3. EndsWith(Nat, 0, Plus, t, Count(t))
  BY <1>1, CountFolds
<1>4. Count(s) \in Nat /\ Count(t) = Plus[Count(s)][x]
  BY <1>2, <1>3, FoldedAppend DEF t
<1>5. QED
  BY <1>4 DEF t, Plus

LEMMA CountNothing == Count(<<>>) = 0
<1> DEFINE none == <<>>
<1>1. none \in Seq(Nat) /\ Len(none) = 0
  OBVIOUS
<1>2. EndsWith(Nat, 0, Plus, none, Count(none))
  <2> HIDE DEF none
  <2>1. QED
    BY <1>1, CountFolds
<1> HIDE DEF none
<1> SUFFICES Count(none) = 0
  BY DEF none
<1>3. PICK f \in Foldings(Nat, 0, Plus, none) : Count(none) = f[Len(none)]
  BY <1>2 DEF EndsWith
<1>4. f[0] = 0
  BY DEF Foldings
<1>5. QED
  BY <1>1, <1>3, <1>4

Line == Seq(Pieces)
Lines == Seq(Line)
Page == {ls \in Lines : ls # <<>>}
NoLine == <<>>
OneLine == << <<>> >>

Typing == [ls \in Page |-> [d \in Pieces |-> Typed(ls, d)]]

\* A piece more leaves a page a page.
LEMMA TypingType == OneLine \in Page /\ Typing \in [Page -> [Pieces -> Page]]
<1>1. OneLine \in Page
  BY DEF OneLine, Page, Lines, Line
<1>2. ASSUME NEW ls \in Page, NEW d \in Pieces PROVE Typed(ls, d) \in Page
  <2>1. ls \in Lines /\ ls # <<>> /\ NoLine \in Line
    BY DEF Page, NoLine, Line
  <2>2. CASE d = Newline
    <3>1. Append(ls, NoLine) \in Page
      <4> HIDE DEF Line
      <4>1. QED
        BY <2>1 DEF Lines, Page
    <3>2. QED
      BY <2>2, <3>1 DEF Typed, NoLine
  <2>3. CASE d # Newline
    <3>1. Front(ls) \in Lines /\ Last(ls) \in Line
      <4> HIDE DEF Line
      <4>1. QED
        BY <2>1 DEF Lines, Front, Last
    <3>2. Append(Last(ls), d) \in Line
      BY <3>1 DEF Line
    <3>3. Append(Front(ls), Append(Last(ls), d)) \in Page
      <4> HIDE DEF Line
      <4>1. QED
        BY <3>1, <3>2 DEF Lines, Page
    <3>4. QED
      BY <2>3, <3>3 DEF Typed
  <2>4. QED
    BY <2>2, <2>3
<1>3. QED
  BY <1>1, <1>2 DEF Typing

\* Split takes the parts piece after piece.
LEMMA SplitFolds ==
  ASSUME NEW s \in Seq(Pieces)
  PROVE  CanFold(Page, Pieces, OneLine, Typing, s) /\ EndsWith(Page, OneLine, Typing, s, Split(s))
<1> DEFINE N == Len(s)
           Body(h) == [n \in 0..N |-> IF n = 0 THEN << <<>> >> ELSE Typed(h[n - 1], s[n])]
           chosen == CHOOSE h : h = Body(h)
<1>1. /\ N \in Nat /\ OneLine = << <<>> >> /\ CanFold(Page, Pieces, OneLine, Typing, s)
      /\ \A n \in 1..N : s[n] \in Pieces
  <2>1. N \in Nat /\ \A n \in 1..N : s[n] \in Pieces
    OBVIOUS
  <2>2. CanFold(Page, Pieces, OneLine, Typing, s)
    BY TypingType DEF CanFold
  <2>3. OneLine = << <<>> >>
    BY DEF OneLine
  <2>4. QED
    BY <2>1, <2>2, <2>3
<1>2. ASSUME NEW h, NEW n \in 1..N, h[n - 1] \in Page PROVE Typing[h[n - 1]][s[n]] = Typed(h[n - 1], s[n])
  BY <1>1, <1>2 DEF Typing
<1>3. PICK f \in Foldings(Page, OneLine, Typing, s) : TRUE
  <2> HIDE DEF N
  <2>1. QED
    BY <1>1, Folded
<1>4. f = Body(f)
  <2>1. f \in [0..N -> Page] /\ f[0] = OneLine /\ \A n \in 1..N : f[n] = Typing[f[n - 1]][s[n]]
    BY <1>3 DEF Foldings
  <2> HIDE DEF N
  <2>2. ASSUME NEW n \in 0..N PROVE f[n] = IF n = 0 THEN << <<>> >> ELSE Typed(f[n - 1], s[n])
    <3>1. CASE n = 0
      BY <1>1, <2>1, <3>1
    <3>2. CASE n # 0
      <4>1. n \in 1..N /\ n - 1 \in 0..N
        BY <1>1, <3>2
      <4>2. f[n - 1] \in Page
        BY <2>1, <4>1
      <4>3. QED
        BY <1>2, <2>1, <3>2, <4>1, <4>2
    <3>3. QED
      BY <3>1, <3>2
  <2>3. QED
    BY <2>1, <2>2, Zenon
<1>5. chosen = Body(chosen)
  <2> HIDE DEF Body
  <2>1. QED
    BY <1>4, Zenon
<1>6. chosen[0] = << <<>> >> /\ \A n \in 1..N : chosen[n] = Typed(chosen[n - 1], s[n])
  <2> HIDE DEF chosen, N
  <2>1. chosen[0] = << <<>> >>
    BY <1>1, <1>5
  <2>2. ASSUME NEW n \in 1..N PROVE chosen[n] = Typed(chosen[n - 1], s[n])
    <3>1. n \in 0..N /\ n # 0
      BY <1>1
    <3>2. QED
      BY <1>5, <3>1
  <2>3. QED
    BY <2>1, <2>2
<1>7. Split(s) = chosen[N]
  BY DEF Split
<1>8. chosen[0] = OneLine /\ \A n \in 1..N : chosen[n - 1] \in Page => chosen[n] = Typing[chosen[n - 1]][s[n]]
  <2> HIDE DEF chosen, Body, N
  <2>1. QED
    BY <1>1, <1>2, <1>6
<1>9. EndsWith(Page, OneLine, Typing, s, chosen[N])
  <2>1. TakesIn(chosen, Page, OneLine, Typing, s)
    <3> HIDE DEF chosen, Body
    <3>1. QED
      BY <1>8 DEF TakesIn
  <2> HIDE DEF chosen, Body
  <2>2. QED
    BY <1>1, <2>1, FoldingIs
<1>10. QED
  BY <1>1, <1>7, <1>9

\* ... a piece more.
LEMMA SplitAppend ==
  ASSUME NEW s \in Seq(Pieces), NEW x \in Pieces
  PROVE  Split(s) \in Page /\ Split(Append(s, x)) = Typed(Split(s), x)
<1> DEFINE t == Append(s, x)
<1>1. t \in Seq(Pieces)
  OBVIOUS
<1> HIDE DEF t
<1>2. CanFold(Page, Pieces, OneLine, Typing, s) /\ EndsWith(Page, OneLine, Typing, s, Split(s))
  BY SplitFolds
<1>3. EndsWith(Page, OneLine, Typing, t, Split(t))
  BY <1>1, SplitFolds
<1>4. Split(s) \in Page /\ Split(t) = Typing[Split(s)][x]
  BY <1>2, <1>3, FoldedAppend DEF t
<1>5. QED
  BY <1>4 DEF t, Typing

LEMMA SplitNothing == Split(<<>>) = << <<>> >>
<1> DEFINE none == <<>>
<1>1. none \in Seq(Pieces) /\ Len(none) = 0
  OBVIOUS
<1>2. EndsWith(Page, OneLine, Typing, none, Split(none))
  <2> HIDE DEF none
  <2>1. QED
    BY <1>1, SplitFolds
<1> HIDE DEF none
<1> SUFFICES Split(none) = << <<>> >>
  BY DEF none
<1>3. PICK f \in Foldings(Page, OneLine, Typing, none) : Split(none) = f[Len(none)]
  BY <1>2 DEF EndsWith
<1>4. f[0] = OneLine
  BY DEF Foldings
<1>5. QED
  BY <1>1, <1>3, <1>4 DEF OneLine

Collapsing == [kept \in Lines |-> [line \in Line |-> Collapse(kept, line)]]

LEMMA CollapsingType == NoLine \in Lines /\ Collapsing \in [Lines -> [Line -> Lines]]
<1>1. NoLine \in Lines
  BY DEF NoLine, Lines
<1>2. \A kept \in Lines, line \in Line : Append(kept, line) \in Lines
  BY DEF Lines
<1>3. QED
  BY <1>1, <1>2 DEF Collapsing, Collapse

\* Collapsed takes the lines line after line.
LEMMA CollapseFolds ==
  ASSUME NEW s \in Seq(Line)
  PROVE  CanFold(Lines, Line, NoLine, Collapsing, s) /\ EndsWith(Lines, NoLine, Collapsing, s, Collapsed(s))
<1> DEFINE N == Len(s)
           Body(h) == [n \in 0..N |-> IF n = 0 THEN <<>> ELSE Collapse(h[n - 1], s[n])]
           chosen == CHOOSE h : h = Body(h)
<1>1. /\ N \in Nat /\ NoLine = <<>> /\ CanFold(Lines, Line, NoLine, Collapsing, s)
      /\ \A n \in 1..N : s[n] \in Line
  <2>1. N \in Nat /\ \A n \in 1..N : s[n] \in Line
    OBVIOUS
  <2>2. CanFold(Lines, Line, NoLine, Collapsing, s)
    BY CollapsingType DEF CanFold
  <2>3. NoLine = <<>>
    BY DEF NoLine
  <2>4. QED
    BY <2>1, <2>2, <2>3
<1>2. ASSUME NEW h, NEW n \in 1..N, h[n - 1] \in Lines PROVE Collapsing[h[n - 1]][s[n]] = Collapse(h[n - 1], s[n])
  BY <1>1, <1>2 DEF Collapsing
<1>3. PICK f \in Foldings(Lines, NoLine, Collapsing, s) : TRUE
  <2> HIDE DEF N
  <2>1. QED
    BY <1>1, Folded
<1>4. f = Body(f)
  <2>1. f \in [0..N -> Lines] /\ f[0] = NoLine /\ \A n \in 1..N : f[n] = Collapsing[f[n - 1]][s[n]]
    BY <1>3 DEF Foldings
  <2> HIDE DEF N
  <2>2. ASSUME NEW n \in 0..N PROVE f[n] = IF n = 0 THEN <<>> ELSE Collapse(f[n - 1], s[n])
    <3>1. CASE n = 0
      BY <1>1, <2>1, <3>1
    <3>2. CASE n # 0
      <4>1. n \in 1..N /\ n - 1 \in 0..N
        BY <1>1, <3>2
      <4>2. f[n - 1] \in Lines
        BY <2>1, <4>1
      <4>3. QED
        BY <1>2, <2>1, <3>2, <4>1, <4>2
    <3>3. QED
      BY <3>1, <3>2
  <2>3. QED
    BY <2>1, <2>2, Zenon
<1>5. chosen = Body(chosen)
  <2> HIDE DEF Body
  <2>1. QED
    BY <1>4, Zenon
<1>6. chosen[0] = <<>> /\ \A n \in 1..N : chosen[n] = Collapse(chosen[n - 1], s[n])
  <2> HIDE DEF chosen, N
  <2>1. chosen[0] = <<>>
    BY <1>1, <1>5
  <2>2. ASSUME NEW n \in 1..N PROVE chosen[n] = Collapse(chosen[n - 1], s[n])
    <3>1. n \in 0..N /\ n # 0
      BY <1>1
    <3>2. QED
      BY <1>5, <3>1
  <2>3. QED
    BY <2>1, <2>2
<1>7. Collapsed(s) = chosen[N]
  BY DEF Collapsed
<1>8. chosen[0] = NoLine /\ \A n \in 1..N : chosen[n - 1] \in Lines => chosen[n] = Collapsing[chosen[n - 1]][s[n]]
  <2> HIDE DEF chosen, Body, N
  <2>1. QED
    BY <1>1, <1>2, <1>6
<1>9. EndsWith(Lines, NoLine, Collapsing, s, chosen[N])
  <2>1. TakesIn(chosen, Lines, NoLine, Collapsing, s)
    <3> HIDE DEF chosen, Body
    <3>1. QED
      BY <1>8 DEF TakesIn
  <2> HIDE DEF chosen, Body
  <2>2. QED
    BY <1>1, <2>1, FoldingIs
<1>10. QED
  BY <1>1, <1>7, <1>9

\* ... a line more.
LEMMA CollapseAppend ==
  ASSUME NEW s \in Seq(Line), NEW x \in Line
  PROVE  Collapsed(s) \in Lines /\ Collapsed(Append(s, x)) = Collapse(Collapsed(s), x)
<1> DEFINE t == Append(s, x)
<1>1. t \in Seq(Line)
  OBVIOUS
<1> HIDE DEF t
<1>2. CanFold(Lines, Line, NoLine, Collapsing, s) /\ EndsWith(Lines, NoLine, Collapsing, s, Collapsed(s))
  BY CollapseFolds
<1>3. EndsWith(Lines, NoLine, Collapsing, t, Collapsed(t))
  BY <1>1, CollapseFolds
<1>4. Collapsed(s) \in Lines /\ Collapsed(t) = Collapsing[Collapsed(s)][x]
  BY <1>2, <1>3, FoldedAppend DEF t
<1>5. QED
  BY <1>4 DEF t, Collapsing

LEMMA CollapseNothing == Collapsed(<<>>) = <<>>
<1> DEFINE none == <<>>
<1>1. none \in Seq(Line) /\ Len(none) = 0
  OBVIOUS
<1>2. EndsWith(Lines, NoLine, Collapsing, none, Collapsed(none))
  <2> HIDE DEF none
  <2>1. QED
    BY <1>1, CollapseFolds
<1> HIDE DEF none
<1> SUFFICES Collapsed(none) = <<>>
  BY DEF none
<1>3. PICK f \in Foldings(Lines, NoLine, Collapsing, none) : Collapsed(none) = f[Len(none)]
  BY <1>2 DEF EndsWith
<1>4. f[0] = NoLine
  BY DEF Foldings
<1>5. QED
  BY <1>1, <1>3, <1>4 DEF NoLine

---------------------------------------------------------------------------
(* Lines as numbers of words.                                               *)

\* A list that is not empty is its front and its last.
LEMMA FrontAndLast ==
  ASSUME NEW T, NEW s \in Seq(T), s # <<>>
  PROVE  /\ Front(s) \in Seq(T) /\ Last(s) \in T /\ s = Append(Front(s), Last(s))
         /\ Len(Front(s)) = Len(s) - 1 /\ Len(s) \in Nat \ {0}
         /\ Last(s) = s[Len(s)] /\ \A k \in 1..Len(s) - 1 : Front(s)[k] = s[k]
<1> DEFINE n == Len(s)
           f == Front(s)
<1>1. n \in Nat /\ n # 0 /\ Last(s) = s[n] /\ s[n] \in T
  BY DEF Last
<1>2. f \in Seq(T) /\ Len(f) = n - 1 /\ \A k \in 1..n - 1 : f[k] = s[k]
  <2>1. n - 1 \in 0..Len(s)
    BY <1>1
  <2>2. /\ Before(s, n - 1) \in Seq(T) /\ Len(Before(s, n - 1)) = n - 1
        /\ \A k \in 1..n - 1 : Before(s, n - 1)[k] = s[k]
    <3> DEFINE m == n - 1
    <3>1. m \in 0..Len(s)
      BY <2>1
    <3> HIDE DEF m, n
    <3>2. Before(s, m) \in Seq(T) /\ Len(Before(s, m)) = m /\ \A k \in 1..m : Before(s, m)[k] = s[k]
      BY <3>1, CutInTwo
    <3>3. QED
      BY <3>2 DEF m
  <2>3. QED
    BY <2>2 DEF Front, Before
<1> HIDE DEF f
<1> DEFINE u == Append(f, s[n])
<1>3. u \in Seq(T) /\ Len(u) = n /\ u[n] = s[n] /\ \A k \in 1..n - 1 : u[k] = f[k]
  BY <1>1, <1>2
<1> HIDE DEF u, n
<1>4. \A k \in 1..n : u[k] = s[k]
  BY <1>1, <1>2, <1>3
<1>5. u = s
  BY <1>3, <1>4, SeqEqual DEF n
<1>6. QED
  BY <1>1, <1>2, <1>5 DEF u, f, n

LEMMA FrontAppend ==
  ASSUME NEW T, NEW s \in Seq(T), NEW x \in T
  PROVE  Front(Append(s, x)) = s /\ Last(Append(s, x)) = x /\ Append(s, x) # <<>>
<1> DEFINE t == Append(s, x)
           n == Len(s)
<1>1. /\ n \in Nat /\ t \in Seq(T) /\ Len(t) = n + 1 /\ t[n + 1] = x
      /\ \A k \in 1..n : t[k] = s[k]
  OBVIOUS
<1> HIDE DEF t
<1>2. Front(t) \in Seq(T) /\ Len(Front(t)) = n /\ \A k \in 1..n : Front(t)[k] = s[k]
  BY <1>1 DEF Front
<1>3. Front(t) = s
  BY <1>2, SeqEqual
<1>4. Last(t) = x /\ t # <<>>
  BY <1>1 DEF Last
<1>5. QED
  BY <1>3, <1>4 DEF t

\* The beginnings of a list, one element longer.
LEMMA Beginnings ==
  ASSUME NEW T, NEW s \in Seq(T), NEW x \in T
  PROVE  /\ SubSeq(Append(s, x), 1, Len(s) + 1) = Append(s, x)
         /\ \A n \in 1..Len(s) : SubSeq(Append(s, x), 1, n) = SubSeq(s, 1, n)
<1> DEFINE t == Append(s, x)
           m == Len(s)
<1>1. m \in Nat /\ t \in Seq(T) /\ Len(t) = m + 1 /\ \A k \in 1..m : t[k] = s[k]
  OBVIOUS
<1> HIDE DEF t
<1>2. SubSeq(t, 1, m + 1) = t
  BY <1>1, SubSeqFull
<1>3. ASSUME NEW n \in 1..m PROVE SubSeq(t, 1, n) = SubSeq(s, 1, n)
  <2> DEFINE a == SubSeq(t, 1, n)
             b == SubSeq(s, 1, n)
  <2>1. a \in Seq(T) /\ Len(a) = n /\ b \in Seq(T) /\ Len(b) = n
    BY <1>1
  <2>2. \A k \in 1..n : a[k] = t[k] /\ b[k] = s[k] /\ k \in 1..m
    BY <1>1
  <2> HIDE DEF a, b
  <2>3. a = b
    BY <1>1, <2>1, <2>2, SeqEqual
  <2>4. QED
    BY <2>3 DEF a, b
<1>4. QED
  BY <1>2, <1>3 DEF t

\* A line more ends where all of them end.
LEMMA EndsAppend ==
  ASSUME NEW s \in Seq(Nat), NEW x \in Nat
  PROVE  LineEnds(Append(s, x)) = LineEnds(s) \cup {Count(s) + x}
<1> DEFINE t == Append(s, x)
           m == Len(s)
<1>1. m \in Nat /\ DOMAIN s = 1..m /\ DOMAIN t = 1..m + 1 /\ Count(t) = Count(s) + x
  BY CountAppend
<1>2. SubSeq(t, 1, m + 1) = t /\ \A n \in 1..m : SubSeq(t, 1, n) = SubSeq(s, 1, n)
  BY Beginnings
<1> HIDE DEF t, m
<1>3. \A n : n \in 1..m + 1 <=> n \in 1..m \/ n = m + 1
  BY <1>1
<1>4. LineEnds(t) = {Count(SubSeq(t, 1, n)) : n \in 1..m} \cup {Count(SubSeq(t, 1, m + 1))}
  BY <1>1, <1>3 DEF LineEnds
<1>5. {Count(SubSeq(t, 1, n)) : n \in 1..m} = LineEnds(s)
  BY <1>1, <1>2 DEF LineEnds
<1>6. QED
  BY <1>1, <1>2, <1>4, <1>5 DEF t

\* The last line of a list of lines ends where all of them end.
LEMMA EndsLast ==
  ASSUME NEW s \in Seq(Nat), s # <<>>
  PROVE  /\ LineEnds(s) = LineEnds(Front(s)) \cup {Count(s)}
         /\ Count(Front(s)) \in Nat /\ Count(s) = Count(Front(s)) + Last(s)
<1> DEFINE f == Front(s)
           x == Last(s)
<1>1. f \in Seq(Nat) /\ x \in Nat /\ s = Append(f, x)
  BY FrontAndLast
<1> HIDE DEF f, x
<1>2. LineEnds(Append(f, x)) = LineEnds(f) \cup {Count(f) + x}
  BY <1>1, EndsAppend
<1>3. Count(f) \in Nat /\ Count(Append(f, x)) = Count(f) + x
  BY <1>1, CountAppend
<1>4. QED
  BY <1>1, <1>2, <1>3 DEF f, x

\* The words of a line, and of a page.
LEMMA WordsInLine ==
  ASSUME NEW l \in Line
  PROVE  /\ WordsIn(l) \in Nat
         /\ \A d \in Pieces : WordsIn(Append(l, d)) =
                               IF d \in ReaderWords THEN WordsIn(l) + 1 ELSE WordsIn(l)
<1>1. l \in Seq(Pieces)
  BY DEF Line
<1>2. Filtered(l, ReaderWords) \in Seq(Pieces)
  BY <1>1, FilteredSet
<1>3. ASSUME NEW d \in Pieces
      PROVE  WordsIn(Append(l, d)) = IF d \in ReaderWords THEN WordsIn(l) + 1 ELSE WordsIn(l)
  <2>1. CASE d \in ReaderWords
    <3>1. Filtered(Append(l, d), ReaderWords) = Append(Filtered(l, ReaderWords), d)
      BY <1>1, <2>1, FilteredKeeps
    <3>2. QED
      BY <1>2, <2>1, <3>1 DEF WordsIn
  <2>2. CASE d \notin ReaderWords
    <3>1. Filtered(Append(l, d), ReaderWords) = Filtered(l, ReaderWords)
      BY <1>1, <2>2, FilteredDrops
    <3>2. QED
      BY <2>2, <3>1 DEF WordsIn
  <2>3. QED
    BY <2>1, <2>2
<1>4. QED
  BY <1>2, <1>3 DEF WordsIn

LEMMA WordsAppend ==
  ASSUME NEW ls \in Lines, NEW l \in Line
  PROVE  /\ WordsOf(ls) \in Seq(Nat) /\ Len(WordsOf(ls)) = Len(ls)
         /\ Append(ls, l) \in Lines
         /\ WordsOf(Append(ls, l)) = Append(WordsOf(ls), WordsIn(l))
<1> DEFINE t == Append(ls, l)
           n == Len(ls)
           w == WordsOf(ls)
           u == WordsOf(t)
           v == Append(w, WordsIn(l))
<1>1. /\ n \in Nat /\ DOMAIN ls = 1..n /\ DOMAIN t = 1..n + 1 /\ t[n + 1] = l
      /\ \A k \in 1..n : t[k] = ls[k] /\ ls[k] \in Line
  <2> HIDE DEF Line
  <2>1. QED
    BY DEF Lines
<1>2. t \in Lines
  <2> HIDE DEF Line
  <2>1. QED
    BY DEF Lines
<1>3. \A k \in Line : WordsIn(k) \in Nat
  BY WordsInLine
<1> HIDE DEF t, n
<1>4. w \in Seq(Nat) /\ Len(w) = n /\ \A k \in 1..n : w[k] = WordsIn(ls[k])
  BY <1>1, <1>3 DEF WordsOf
<1>5. u \in Seq(Nat) /\ Len(u) = n + 1 /\ \A k \in 1..n + 1 : u[k] = WordsIn(t[k])
  <2>1. \A k \in 1..n + 1 : t[k] \in Line
    BY <1>1
  <2>2. QED
    BY <1>1, <1>3, <2>1 DEF WordsOf
<1> HIDE DEF w, u
<1>6. v \in Seq(Nat) /\ Len(v) = n + 1 /\ v[n + 1] = WordsIn(l) /\ \A k \in 1..n : v[k] = w[k]
  BY <1>1, <1>3, <1>4
<1> HIDE DEF v
<1>7. \A k \in 1..n + 1 : u[k] = v[k]
  <2> TAKE k \in 1..n + 1
  <2>1. k \in 1..n \/ k = n + 1
    BY <1>1
  <2>2. QED
    BY <1>1, <1>4, <1>5, <1>6, <2>1
<1>8. u = v
  BY <1>5, <1>6, <1>7, SeqEqual
<1>9. QED
  BY <1>2, <1>4, <1>8 DEF u, v, w, t, n

---------------------------------------------------------------------------
(* The lines of a reader and those of the text, while the page is read.     *)

Bump(s) == Append(Front(s), Last(s) + 1)

\* As many words, and where a reader's line has ended a line of the text has.
Aligned(s, w) ==
  /\ s \in Seq(Nat) /\ s # <<>> /\ w \in Seq(Nat) /\ w # <<>>
  /\ Count(s) = Count(w) /\ LineEnds(Front(s)) \subseteq LineEnds(Front(w))

LEMMA AlignedBreak ==
  ASSUME NEW s, NEW w, Aligned(s, w)
  PROVE  Aligned(Append(s, 0), Append(w, 0)) /\ Aligned(s, Append(w, 0))
<1>1. /\ s \in Seq(Nat) /\ s # <<>> /\ w \in Seq(Nat) /\ w # <<>>
      /\ Count(s) = Count(w) /\ LineEnds(Front(s)) \subseteq LineEnds(Front(w))
  BY DEF Aligned
<1>2. /\ Count(s) \in Nat /\ Count(Append(s, 0)) = Count(s) + 0
      /\ Count(w) \in Nat /\ Count(Append(w, 0)) = Count(w) + 0
  BY <1>1, CountAppend
<1>3. /\ Front(Append(s, 0)) = s /\ Front(Append(w, 0)) = w
      /\ Append(s, 0) # <<>> /\ Append(w, 0) # <<>>
  <2>1. 0 \in Nat
    OBVIOUS
  <2>2. Front(Append(s, 0)) = s /\ Append(s, 0) # <<>>
    BY <1>1, <2>1, FrontAppend
  <2>3. Front(Append(w, 0)) = w /\ Append(w, 0) # <<>>
    BY <1>1, <2>1, FrontAppend
  <2>4. QED
    BY <2>2, <2>3
<1>4. LineEnds(s) = LineEnds(Front(s)) \cup {Count(s)} /\ LineEnds(w) = LineEnds(Front(w)) \cup {Count(w)}
  BY <1>1, EndsLast
<1>5. Append(s, 0) \in Seq(Nat) /\ Append(w, 0) \in Seq(Nat)
  BY <1>1
<1>6. Count(Append(s, 0)) = Count(Append(w, 0)) /\ Count(s) = Count(Append(w, 0))
  BY <1>1, <1>2
<1>7. LineEnds(s) \subseteq LineEnds(w) /\ LineEnds(Front(s)) \subseteq LineEnds(w)
  BY <1>1, <1>4
<1>8. QED
  BY <1>1, <1>3, <1>5, <1>6, <1>7 DEF Aligned

LEMMA BumpAdds ==
  ASSUME NEW s \in Seq(Nat), s # <<>>
  PROVE  /\ Bump(s) \in Seq(Nat) /\ Bump(s) # <<>> /\ Front(Bump(s)) = Front(s)
         /\ Count(Bump(s)) = Count(s) + 1
<1> DEFINE f == Front(s)
           x == Last(s)
<1>1. f \in Seq(Nat) /\ x \in Nat /\ x + 1 \in Nat
  <2>1. f \in Seq(Nat) /\ x \in Nat
    BY FrontAndLast
  <2>2. QED
    BY <2>1
<1>2. Count(f) \in Nat /\ Count(s) = Count(f) + x
  BY EndsLast
<1> HIDE DEF f, x
<1>3. Count(Append(f, x + 1)) = Count(f) + (x + 1)
  BY <1>1, CountAppend
<1>4. Front(Append(f, x + 1)) = f /\ Append(f, x + 1) # <<>> /\ Append(f, x + 1) \in Seq(Nat)
  BY <1>1, FrontAppend
<1>5. QED
  BY <1>1, <1>2, <1>3, <1>4 DEF Bump, f, x

LEMMA AlignedWord ==
  ASSUME NEW s, NEW w, Aligned(s, w)
  PROVE  Aligned(Bump(s), Bump(w))
  BY BumpAdds DEF Aligned

\* What a piece more does to the words of the lines.
LEMMA SplitWords ==
  ASSUME NEW p \in Seq(Pieces), NEW d \in Pieces
  PROVE  /\ Split(p) \in Page
         /\ WordsOf(Split(p)) \in Seq(Nat) /\ WordsOf(Split(p)) # <<>>
         /\ WordsOf(Split(Append(p, d))) =
              IF d = Newline THEN Append(WordsOf(Split(p)), 0)
              ELSE IF d \in ReaderWords THEN Bump(WordsOf(Split(p)))
              ELSE WordsOf(Split(p))
<1> DEFINE ls == Split(p)
           w == WordsOf(ls)
<1>1. ls \in Page /\ Split(Append(p, d)) = Typed(ls, d)
  BY SplitAppend
<1>2. ls \in Lines /\ ls # <<>>
  BY <1>1 DEF Page
<1> HIDE DEF ls
<1> DEFINE f == Front(ls)
           l == Last(ls)
<1>3. f \in Lines /\ l \in Line /\ ls = Append(f, l)
  <2> HIDE DEF Line
  <2>1. QED
    BY <1>2, FrontAndLast DEF Lines
<1> HIDE DEF f, l
<1>4. /\ WordsOf(f) \in Seq(Nat) /\ WordsIn(l) \in Nat
      /\ w = Append(WordsOf(f), WordsIn(l))
  BY <1>3, WordsAppend, WordsInLine
<1>5. w \in Seq(Nat) /\ w # <<>> /\ Front(w) = WordsOf(f) /\ Last(w) = WordsIn(l)
  <2>1. Append(WordsOf(f), WordsIn(l)) \in Seq(Nat)
    BY <1>4
  <2>2. QED
    BY <1>4, <2>1, FrontAppend
<1>6. CASE d = Newline
  <2>1. NoLine \in Line /\ WordsIn(NoLine) = 0
    <3>1. NoLine \in Line
      BY DEF NoLine, Line
    <3>2. Filtered(NoLine, ReaderWords) = NoLine
      BY FilteredEmpty DEF NoLine
    <3>3. QED
      BY <3>1, <3>2 DEF WordsIn, NoLine
  <2>2. WordsOf(Append(ls, NoLine)) = Append(w, WordsIn(NoLine))
    BY <1>2, <2>1, WordsAppend
  <2>3. Typed(ls, d) = Append(ls, NoLine)
    BY <1>6 DEF Typed, NoLine
  <2>4. QED
    BY <1>1, <1>5, <1>6, <2>1, <2>2, <2>3 DEF ls
<1>7. CASE d # Newline
  <2> DEFINE k == Append(l, d)
  <2>1. k \in Line
    BY <1>3 DEF Line
  <2>2. WordsIn(k) = IF d \in ReaderWords THEN WordsIn(l) + 1 ELSE WordsIn(l)
    BY <1>3, WordsInLine
  <2>3. Typed(ls, d) = Append(f, k)
    BY <1>7 DEF Typed, f, l
  <2> HIDE DEF k
  <2>4. WordsOf(Append(f, k)) = Append(WordsOf(f), WordsIn(k))
    BY <1>3, <2>1, WordsAppend
  <2>5. CASE d \in ReaderWords
    <3>1. Bump(w) = Append(WordsOf(f), WordsIn(l) + 1)
      BY <1>5 DEF Bump
    <3>2. QED
      BY <1>1, <1>5, <1>7, <2>2, <2>3, <2>4, <2>5, <3>1 DEF ls
  <2>6. CASE d \notin ReaderWords
    BY <1>1, <1>4, <1>5, <1>7, <2>2, <2>3, <2>4, <2>6 DEF ls
  <2>7. QED
    BY <2>5, <2>6
<1>8. QED
  BY <1>6, <1>7

---------------------------------------------------------------------------
(* What text() does with the lines.                                         *)

\* Strip takes no word away.
LEMMA StripKeeps ==
  ASSUME NEW l \in Line
  PROVE  Strip(l) \in Line /\ WordsIn(Strip(l)) = WordsIn(l)
<1> DEFINE N == Len(l)
           W == {n \in DOMAIN l : l[n] \in Words}
<1>1. l \in Seq(Pieces) /\ N \in Nat /\ DOMAIN l = 1..N
  BY DEF Line
<1>2. W \in SUBSET (1..N) /\ \A n \in 1..N : l[n] \in Words <=> n \in W
  BY <1>1
<1>3. CASE W = {}
  <2>1. Strip(l) = <<>>
    BY <1>3 DEF Strip
  <2>2. ToSet(l) \cap ReaderWords = {}
    BY <1>1, <1>2, <1>3 DEF ToSet, ReaderWords, Words
  <2>3. Filtered(l, ReaderWords) = <<>>
    BY <1>1, <2>2, FilteredAll
  <2>4. Filtered(<<>>, ReaderWords) = <<>>
    BY FilteredEmpty
  <2>5. QED
    BY <2>1, <2>3, <2>4 DEF WordsIn, Line
<1>4. CASE W # {}
  <2> DEFINE IsLeast(n) == \A m \in W : n <= m
             IsGreatest(n) == \A m \in W : m <= n
             a == CHOOSE n \in W : IsLeast(n)
             b == CHOOSE n \in W : IsGreatest(n)
             R == {q \in Nat \X Nat : q[1] < q[2]}
  <2>1. Strip(l) = SubSeq(l, a, b)
    BY <1>4 DEF Strip
  <2> HIDE DEF W, N
  <2>2. W \in SUBSET Nat /\ IsFiniteSet(W)
    <3>1. W \in SUBSET Nat /\ \A n \in W : n <= N
      BY <1>1, <1>2
    <3>2. QED
      BY <1>1, <3>1, FS_BoundedSetOfNaturals
  <2>3. \E n \in W : IsGreatest(n)
    BY <1>4, <2>2, GreatestOf
  <2>4. \E n \in W : IsLeast(n)
    <3>1. IsWellFoundedOn(R, Nat)
      BY NatLessThanWellFounded DEF OpToRel
    <3>2. \E m \in W : \A n \in W : <<n, m>> \notin R
      <4> HIDE DEF R
      <4>1. QED
        BY <1>4, <2>2, <3>1, WFMin
    <3>3. PICK m \in W : \A n \in W : <<n, m>> \notin R
      BY <3>2, Zenon
    <3>4. ASSUME NEW n \in W PROVE m <= n
      <4>1. n \in Nat /\ m \in Nat /\ <<n, m>> \notin R
        BY <2>2, <3>3
      <4>2. QED
        BY <4>1
    <3>5. QED
      BY <3>4
  <2>5. a \in W /\ IsLeast(a)
    <3> HIDE DEF IsLeast
    <3>1. QED
      BY <2>4, Zenon
  <2>6. b \in W /\ IsGreatest(b)
    <3> HIDE DEF IsGreatest
    <3>1. QED
      BY <2>3, Zenon
  <2> HIDE DEF a, b
  <2>7. a \in 1..N /\ b \in 1..N /\ a <= b
    BY <1>2, <2>5, <2>6
  <2>8. /\ \A n \in 1..N : n < a => l[n] \notin Words
        /\ \A n \in 1..N : n > b => l[n] \notin Words
    BY <1>2, <2>2, <2>5, <2>6
  <2> DEFINE c == a - 1
             x == Before(l, c)
             y == After(l, b)
             mid == SubSeq(l, a, b)
  <2>9. c \in 0..N /\ b \in 0..N /\ c + 1 = a
    BY <1>1, <2>7
  <2> HIDE DEF c
  <2>10. x \in Seq(Pieces) /\ Len(x) = c /\ \A k \in 1..c : x[k] = l[k]
    <3>1. c \in 0..Len(l)
      BY <2>9 DEF N
    <3>2. QED
      BY <1>1, <3>1, CutInTwo
  <2>11. /\ y \in Seq(Pieces) /\ Len(y) = N - b /\ \A k \in 1..N - b : y[k] = l[b + k]
         /\ l = Before(l, b) \o y /\ Before(l, b) \in Seq(Pieces)
    <3>1. b \in 0..Len(l)
      BY <2>9 DEF N
    <3>2. /\ y \in Seq(Pieces) /\ Len(y) = Len(l) - b
          /\ \A k \in 1..Len(l) - b : y[k] = l[b + k]
          /\ l = Before(l, b) \o y /\ Before(l, b) \in Seq(Pieces)
      <4> HIDE DEF b, N
      <4>1. After(l, b) \in Seq(Pieces) /\ Len(After(l, b)) = Len(l) - b
        <5>1. l \in Seq(Pieces)
          BY <1>1
        <5>2. After(l, b) \in Seq(Pieces)
          BY <3>1, <5>1, CutInTwo, Zenon
        <5>3. Len(After(l, b)) = Len(l) - b
          BY <3>1, <5>1, CutInTwo
        <5>4. QED
          BY <5>2, <5>3
      <4>2. \A k \in 1..Len(l) - b : y[k] = l[b + k]
        BY <1>1, <3>1, CutInTwo
      <4>3. l = Before(l, b) \o y /\ Before(l, b) \in Seq(Pieces)
        BY <1>1, <3>1, CutInTwo
      <4>4. QED
        BY <4>1, <4>2, <4>3
    <3>3. QED
      BY <3>2 DEF N
  <2>12. mid \in Seq(Pieces) /\ Before(l, b) = x \o mid
    <3>1. mid \in Seq(Pieces)
      BY <1>1, <2>7 DEF N
    <3>2. 1 \in 1..Len(l) + 1 /\ c \in 1 - 1..Len(l) /\ b \in c..Len(l)
      BY <1>1, <2>7, <2>9 DEF N
    <3>3. SubSeq(l, 1, c) \o SubSeq(l, c + 1, b) = SubSeq(l, 1, b)
      BY <1>1, <3>2, ConcatAdjacentSubSeq
    <3>4. QED
      BY <2>9, <3>1, <3>3 DEF Before
  <2>13. ToSet(x) \cap ReaderWords = {}
    <3>1. \A k \in 1..c : k \in 1..N /\ k < a
      BY <1>1, <2>7, <2>9
    <3>2. \A k \in 1..c : x[k] \notin Words
      BY <2>8, <2>10, <3>1
    <3>3. QED
      BY <2>10, <3>2 DEF ToSet, ReaderWords, Words
  <2>14. ToSet(y) \cap ReaderWords = {}
    <3>1. \A k \in 1..N - b : b + k \in 1..N /\ b + k > b
      BY <1>1, <2>7
    <3>2. \A k \in 1..N - b : y[k] \notin Words
      BY <2>8, <2>11, <3>1
    <3>3. QED
      BY <2>11, <3>2 DEF ToSet, ReaderWords, Words
  <2> HIDE DEF x, y, mid
  <2>15. Filtered(x, ReaderWords) = <<>> /\ Filtered(y, ReaderWords) = <<>>
    BY <2>10, <2>11, <2>13, <2>14, FilteredAll
  <2>16. Filtered(mid, ReaderWords) \in Seq(Pieces)
    BY <2>12, FilteredSet
  <2>17. Filtered(l, ReaderWords) = Filtered(x \o mid, ReaderWords) \o Filtered(y, ReaderWords)
    <3>1. x \o mid \in Seq(Pieces) /\ l = (x \o mid) \o y
      BY <2>11, <2>12
    <3> DEFINE z == x \o mid
    <3> HIDE DEF z
    <3>2. z \in Seq(Pieces) /\ l = z \o y
      BY <3>1 DEF z
    <3>3. Filtered(z \o y, ReaderWords) = Filtered(z, ReaderWords) \o Filtered(y, ReaderWords)
      BY <2>11, <3>2, FilteredConcat
    <3>4. QED
      BY <3>2, <3>3 DEF z
  <2>18. Filtered(x \o mid, ReaderWords) = Filtered(x, ReaderWords) \o Filtered(mid, ReaderWords)
    BY <2>10, <2>12, FilteredConcat
  <2>19. Filtered(l, ReaderWords) = Filtered(mid, ReaderWords)
    BY <2>15, <2>16, <2>17, <2>18, ConcatEmptySeq
  <2>20. QED
    BY <2>1, <2>12, <2>19 DEF WordsIn, Line, mid
<1>5. QED
  BY <1>3, <1>4

Stripped(ls) == [n \in DOMAIN ls |-> Strip(ls[n])]

LEMMA StrippedKeeps ==
  ASSUME NEW ls \in Lines
  PROVE  Stripped(ls) \in Lines /\ WordsOf(Stripped(ls)) = WordsOf(ls)
<1> DEFINE n == Len(ls)
           t == Stripped(ls)
<1>1. n \in Nat /\ DOMAIN ls = 1..n /\ \A k \in 1..n : ls[k] \in Line
  <2> HIDE DEF Line
  <2>1. QED
    BY DEF Lines
<1>2. \A k \in 1..n : Strip(ls[k]) \in Line /\ WordsIn(Strip(ls[k])) = WordsIn(ls[k])
  BY <1>1, StripKeeps
<1> HIDE DEF n
<1>3. t \in Lines /\ DOMAIN t = 1..n /\ \A k \in 1..n : t[k] = Strip(ls[k])
  <2> HIDE DEF Line
  <2>1. QED
    BY <1>1, <1>2 DEF Stripped, Lines
<1> HIDE DEF t
<1>4. WordsOf(t) = WordsOf(ls)
  BY <1>1, <1>2, <1>3 DEF WordsOf
<1>5. QED
  BY <1>3, <1>4 DEF t

\* No word more or less, and a line ends where one ended, if any word came before.
Keeps(ls, kept) ==
  /\ kept \in Lines /\ Count(WordsOf(kept)) = Count(WordsOf(ls))
  /\ LineEnds(WordsOf(ls)) \subseteq LineEnds(WordsOf(kept)) \cup {0}

LEMMA KeepsMore ==
  ASSUME NEW q, NEW r, NEW t, Keeps(q, r), Keeps(r, t)
  PROVE  Keeps(q, t)
  BY DEF Keeps

\* A line more on both sides.
LEMMA KeepsLine ==
  ASSUME NEW ls \in Lines, NEW kept, Keeps(ls, kept), NEW l \in Line
  PROVE  Keeps(Append(ls, l), Append(kept, l))
<1> DEFINE u == WordsOf(ls)
           v == WordsOf(kept)
           x == WordsIn(l)
<1>1. kept \in Lines /\ x \in Nat
  BY WordsInLine DEF Keeps
<1>2. /\ u \in Seq(Nat) /\ WordsOf(Append(ls, l)) = Append(u, x)
      /\ v \in Seq(Nat) /\ WordsOf(Append(kept, l)) = Append(v, x) /\ Append(kept, l) \in Lines
  BY <1>1, WordsAppend
<1>3. Count(u) = Count(v) /\ LineEnds(u) \subseteq LineEnds(v) \cup {0}
  BY DEF Keeps
<1> HIDE DEF u, v, x
<1>4. Count(Append(u, x)) = Count(u) + x /\ Count(Append(v, x)) = Count(v) + x
  BY <1>1, <1>2, CountAppend
<1>5. LineEnds(Append(u, x)) = LineEnds(u) \cup {Count(u) + x} /\ LineEnds(Append(v, x)) = LineEnds(v) \cup {Count(v) + x}
  BY <1>1, <1>2, EndsAppend
<1>6. LineEnds(Append(u, x)) \subseteq LineEnds(Append(v, x)) \cup {0}
  BY <1>3, <1>5
<1>7. QED
  BY <1>2, <1>3, <1>4, <1>6 DEF Keeps

\* Nothing is lost with a blank line at the end.
LEMMA KeepsBlank ==
  ASSUME NEW kept \in Lines
  PROVE  Keeps(Append(kept, NoLine), kept)
<1> DEFINE v == WordsOf(kept)
           x == WordsIn(NoLine)
<1>1. NoLine \in Line /\ x = 0 /\ 0 \in Nat
  <2>1. NoLine \in Line
    BY DEF NoLine, Line
  <2>2. Filtered(NoLine, ReaderWords) = NoLine
    BY FilteredEmpty DEF NoLine
  <2>3. QED
    BY <2>1, <2>2 DEF WordsIn, NoLine
<1>2. v \in Seq(Nat) /\ WordsOf(Append(kept, NoLine)) = Append(v, x)
  BY <1>1, WordsAppend
<1> HIDE DEF v, x
<1>3. Count(v) \in Nat /\ Count(Append(v, 0)) = Count(v) + 0
  BY <1>1, <1>2, CountAppend
<1>4. LineEnds(Append(v, 0)) = LineEnds(v) \cup {Count(v) + 0}
  BY <1>1, <1>2, EndsAppend
<1>5. Count(v) \in LineEnds(v) \cup {0}
  <2>1. CASE v = <<>>
    BY <2>1, CountNothing
  <2>2. CASE v # <<>>
    BY <1>2, <2>2, EndsLast
  <2>3. QED
    BY <2>1, <2>2
<1>6. Count(Append(v, 0)) = Count(v) /\ LineEnds(Append(v, 0)) \subseteq LineEnds(v) \cup {0}
  BY <1>3, <1>4, <1>5
<1>7. QED
  BY <1>1, <1>2, <1>6 DEF Keeps, v

\* Of two neighbours one has words, and so has the first.
Spaced(kept) ==
  /\ \A n \in 1..Len(kept) - 1 : Filled(kept[n]) \/ Filled(kept[n + 1])
  /\ kept # <<>> => Filled(kept[1])

LEMMA SpacedLine ==
  ASSUME NEW kept \in Lines, NEW l \in Line, Spaced(kept),
         Filled(l) \/ (kept # <<>> /\ Filled(Last(kept)))
  PROVE  Spaced(Append(kept, l))
<1> DEFINE t == Append(kept, l)
           n == Len(kept)
<1>1. n \in Nat /\ Len(t) = n + 1 /\ t[n + 1] = l /\ \A k \in 1..n : t[k] = kept[k]
  <2> HIDE DEF Line
  <2>1. QED
    BY DEF Lines
<1>2. /\ \A k \in 1..n - 1 : Filled(kept[k]) \/ Filled(kept[k + 1])
      /\ n # 0 => Filled(kept[1])
      /\ Filled(l) \/ (n # 0 /\ Filled(kept[n]))
  <2>1. n # 0 <=> kept # <<>>
    <3> HIDE DEF Line
    <3>1. QED
      BY DEF Lines
  <2>2. QED
    BY <2>1 DEF Spaced, Last
<1> HIDE DEF t, n
<1>3. ASSUME NEW k \in 1..n PROVE Filled(t[k]) \/ Filled(t[k + 1])
  <2>1. CASE k = n
    <3>1. t[k + 1] = l /\ t[k] = kept[n]
      BY <1>1, <2>1
    <3>2. QED
      BY <1>2, <3>1
  <2>2. CASE k # n
    <3>1. k \in 1..n - 1 /\ k + 1 \in 1..n
      BY <1>1, <2>2
    <3>2. QED
      BY <1>1, <1>2, <3>1
  <2>3. QED
    BY <2>1, <2>2
<1>4. Filled(t[1])
  <2>1. CASE n = 0
    BY <1>1, <1>2, <2>1
  <2>2. CASE n # 0
    <3>1. 1 \in 1..n
      BY <1>1, <2>2
    <3>2. QED
      BY <1>1, <1>2, <2>2, <3>1
  <2>3. QED
    BY <2>1, <2>2
<1>5. \A k \in 1..Len(t) - 1 : Filled(t[k]) \/ Filled(t[k + 1])
  <2>1. Len(t) - 1 = n
    BY <1>1
  <2>2. QED
    BY <1>3, <2>1
<1>6. QED
  BY <1>4, <1>5 DEF Spaced, t

\* Blank lines that go take nothing with them.
LEMMA CollapsedKeeps ==
  ASSUME NEW ls \in Lines
  PROVE  Keeps(ls, Collapsed(ls)) /\ Spaced(Collapsed(ls))
<1> DEFINE G == {q \in Lines : Keeps(q, Collapsed(q)) /\ Spaced(Collapsed(q))}
<1>1. NoLine \in G
  <2>1. Collapsed(NoLine) = NoLine
    BY CollapseNothing DEF NoLine
  <2>2. NoLine \in Lines
    BY CollapsingType
  <2>3. Keeps(NoLine, NoLine)
    BY <2>2 DEF Keeps
  <2>4. Spaced(NoLine)
    BY DEF Spaced, NoLine
  <2>5. QED
    BY <2>1, <2>2, <2>3, <2>4
<1>2. ASSUME NEW q \in Lines, NEW l \in Line, q \in G PROVE Append(q, l) \in G
  <2> DEFINE kept == Collapsed(q)
  <2>1. kept \in Lines /\ Collapsed(Append(q, l)) = Collapse(kept, l)
    BY CollapseAppend DEF Lines
  <2>2. Keeps(q, kept) /\ Spaced(kept)
    BY <1>2
  <2>3. Append(q, l) \in Lines
    BY WordsAppend
  <2> HIDE DEF kept
  <2>4. CASE Filled(l) \/ (kept # <<>> /\ Filled(Last(kept)))
    <3>1. Collapse(kept, l) = Append(kept, l)
      BY <2>4 DEF Collapse
    <3>2. Keeps(Append(q, l), Append(kept, l))
      BY <2>2, KeepsLine
    <3>3. Spaced(Append(kept, l))
      BY <2>1, <2>2, <2>4, SpacedLine
    <3>4. QED
      BY <2>1, <2>3, <3>1, <3>2, <3>3 DEF kept
  <2>5. CASE ~(Filled(l) \/ (kept # <<>> /\ Filled(Last(kept))))
    <3>1. Collapse(kept, l) = kept /\ l = NoLine
      BY <2>5 DEF Collapse, Filled, NoLine
    <3>2. Keeps(Append(q, l), Append(kept, l))
      BY <2>2, KeepsLine
    <3>3. Keeps(Append(kept, l), kept)
      BY <2>1, <3>1, KeepsBlank
    <3>4. Keeps(Append(q, l), kept)
      BY <3>2, <3>3, KeepsMore
    <3>5. QED
      BY <2>1, <2>2, <2>3, <3>1, <3>4 DEF kept
  <2>6. QED
    BY <2>4, <2>5
<1>3. Seq(Line) \subseteq G
  <2> HIDE DEF G, Line
  <2>1. <<>> \in G
    BY <1>1 DEF NoLine
  <2>2. \A q \in Seq(Line), l \in Line : q \in G => Append(q, l) \in G
    BY <1>2 DEF Lines
  <2>3. QED
    BY <2>1, <2>2, SeqSetInduction
<1>4. QED
  BY <1>3 DEF Lines

\* The blank line that may be left at the end goes as well.
LEMMA TrimmedKeeps ==
  ASSUME NEW kept \in Lines, Spaced(kept)
  PROVE  /\ Keeps(kept, Trimmed(kept)) /\ Spaced(Trimmed(kept))
         /\ Trimmed(kept) # <<>> => Filled(Last(Trimmed(kept)))
<1>1. CASE kept # <<>> /\ ~Filled(Last(kept))
  <2> DEFINE f == Front(kept)
             n == Len(kept)
  <2>1. Trimmed(kept) = f
    BY <1>1 DEF Trimmed
  <2>2. /\ f \in Lines /\ kept = Append(f, Last(kept)) /\ Len(f) = n - 1 /\ n \in Nat \ {0}
        /\ Last(kept) = kept[n] /\ \A k \in 1..n - 1 : f[k] = kept[k]
    <3> HIDE DEF Line
    <3>1. QED
      BY <1>1, FrontAndLast DEF Lines
  <2>3. Last(kept) = NoLine
    BY <1>1 DEF Filled, NoLine
  <2> HIDE DEF f
  <2>4. Keeps(kept, f)
    BY <2>2, <2>3, KeepsBlank
  <2>5. /\ \A k \in 1..n - 1 : Filled(kept[k]) \/ Filled(kept[k + 1])
        /\ Filled(kept[1]) /\ ~Filled(kept[n])
    BY <1>1, <2>2 DEF Spaced
  <2> HIDE DEF n
  <2>6. f # <<>> => n - 1 # 0
    <3> HIDE DEF Line
    <3>1. QED
      BY <2>2 DEF Lines
  <2>7. Spaced(f)
    <3>1. \A k \in 1..(n - 1) - 1 : k \in 1..n - 1 /\ k + 1 \in 1..n - 1
      BY <2>2
    <3>2. \A k \in 1..(n - 1) - 1 : Filled(f[k]) \/ Filled(f[k + 1])
      BY <2>2, <2>5, <3>1
    <3>3. ASSUME f # <<>> PROVE Filled(f[1])
      <4>1. 1 \in 1..n - 1
        BY <2>2, <2>6, <3>3
      <4>2. QED
        BY <2>2, <2>5, <4>1
    <3>4. QED
      BY <2>2, <3>2, <3>3 DEF Spaced
  <2>8. ASSUME f # <<>> PROVE Filled(Last(f))
    <3>1. n - 1 \in 1..n - 1 /\ (n - 1) + 1 = n
      BY <2>2, <2>6, <2>8
    <3>2. Filled(kept[n - 1]) /\ f[n - 1] = kept[n - 1]
      BY <2>2, <2>5, <3>1
    <3>3. Last(f) = f[n - 1]
      BY <2>2 DEF Last
    <3>4. QED
      BY <3>2, <3>3
  <2>9. QED
    BY <2>1, <2>4, <2>7, <2>8
<1>2. CASE ~(kept # <<>> /\ ~Filled(Last(kept)))
  <2>1. Trimmed(kept) = kept
    BY <1>2 DEF Trimmed
  <2>2. Keeps(kept, kept)
    BY DEF Keeps
  <2>3. QED
    BY <1>2, <2>1, <2>2
<1>3. QED
  BY <1>1, <1>2

\* The text has the words of the lines of the parts, and ends a line where they do.
LEMMA TextKeeps ==
  ASSUME NEW p \in Seq(Pieces)
  PROVE  /\ Keeps(Split(p), Text(p)) /\ Spaced(Text(p))
         /\ Text(p) # <<>> => Filled(Last(Text(p)))
<1> DEFINE ls == Split(p)
           t == Stripped(ls)
           kept == Collapsed(t)
<1>1. Text(p) = Trimmed(kept)
  BY DEF Text, Stripped
<1>2. ls \in Lines
  <2>1. Newline \in Pieces
    BY DEF Pieces
  <2>2. QED
    BY <2>1, SplitAppend DEF Page
<1> HIDE DEF ls
<1>3. t \in Lines /\ WordsOf(t) = WordsOf(ls)
  BY <1>2, StrippedKeeps
<1>4. Keeps(ls, t)
  BY <1>3 DEF Keeps
<1> HIDE DEF t
<1>5. Keeps(t, kept) /\ Spaced(kept) /\ kept \in Lines
  BY <1>3, CollapsedKeeps DEF Keeps
<1> HIDE DEF kept
<1>6. /\ Keeps(kept, Trimmed(kept)) /\ Spaced(Trimmed(kept))
      /\ Trimmed(kept) # <<>> => Filled(Last(Trimmed(kept)))
  BY <1>5, TrimmedKeeps
<1>7. Keeps(ls, kept)
  BY <1>4, <1>5, KeepsMore
<1>8. Keeps(ls, Trimmed(kept))
  BY <1>6, <1>7, KeepsMore
<1>9. QED
  BY <1>1, <1>6, <1>8 DEF ls

---------------------------------------------------------------------------
(* The page and its text, where every silent element has its end tag.       *)

InStep(p, s) == Aligned(s, WordsOf(Split(p)))

\* The depth is the number of silent elements open, or less, and the reader's
\* lines are among those of the parts.
KInv == depth <= Cardinality(SilentAt(open)) /\ InStep(parts, seen)

\* A break that a reader does not see is one line end more.
LEMMA BreakInStep ==
  ASSUME NEW p \in Seq(Pieces), NEW s, NEW tag, InStep(p, s)
  PROVE  /\ Broken(p, tag) \in Seq(Pieces) /\ InStep(Broken(p, tag), s)
         /\ tag \in Breaks \ Silent => InStep(Broken(p, tag), Append(s, 0))
<1>1. CASE tag \in Breaks \ Silent
  <2>1. Broken(p, tag) = Append(p, Newline) /\ Newline \in Pieces
    BY <1>1 DEF Broken, Pieces
  <2>2. WordsOf(Split(Append(p, Newline))) = Append(WordsOf(Split(p)), 0)
    BY <2>1, SplitWords
  <2>3. Aligned(Append(s, 0), Append(WordsOf(Split(p)), 0)) /\ Aligned(s, Append(WordsOf(Split(p)), 0))
    BY AlignedBreak DEF InStep
  <2>4. Append(p, Newline) \in Seq(Pieces)
    BY <2>1
  <2>5. QED
    BY <2>1, <2>2, <2>3, <2>4 DEF InStep
<1>2. CASE tag \notin Breaks \ Silent
  BY <1>2 DEF Broken
<1>3. QED
  BY <1>1, <1>2

LEMMA PieceInStep ==
  ASSUME NEW p \in Seq(Pieces), NEW s, InStep(p, s)
  PROVE  /\ InStep(Append(p, Newline), s) /\ InStep(Append(p, Blank), s)
         /\ InStep(Append(p, "shown"), Bump(s)) /\ InStep(Append(p, "hidden"), s)
<1> DEFINE w == WordsOf(Split(p))
<1>1. Newline \in Pieces /\ Blank \in Pieces /\ "shown" \in Pieces /\ "hidden" \in Pieces
  BY DEF Pieces
<1>2. WordsOf(Split(Append(p, Newline))) = Append(w, 0)
  BY <1>1, SplitWords
<1>3. WordsOf(Split(Append(p, Blank))) = w /\ WordsOf(Split(Append(p, "hidden"))) = w
  <2>1. /\ Blank # Newline /\ Blank \notin ReaderWords
        /\ "hidden" # Newline /\ "hidden" \notin ReaderWords
    BY Zenon DEF Blank, Newline, ReaderWords
  <2>2. QED
    BY <1>1, <2>1, SplitWords
<1>4. WordsOf(Split(Append(p, "shown"))) = Bump(w)
  <2>1. "shown" # Newline /\ "shown" \in ReaderWords
    BY Zenon DEF Newline, ReaderWords
  <2>2. QED
    BY <1>1, <2>1, SplitWords
<1>5. Aligned(s, w)
  BY DEF InStep
<1>6. Aligned(s, Append(w, 0)) /\ Aligned(Bump(s), Bump(w))
  BY <1>5, AlignedBreak, AlignedWord
<1>7. QED
  BY <1>2, <1>3, <1>4, <1>5, <1>6 DEF InStep

\* A tag breaks the reader's line only where it breaks the text.
LEMMA TagInStep ==
  ASSUME PageAssumption, parts \in Seq(Pieces), InStep(parts, seen), NEW tag
  PROVE  /\ Broken(parts, tag) \in Seq(Pieces)
         /\ InStep(Broken(parts, tag), BreakLine(seen, tag))
         /\ InStep(Broken(Broken(parts, tag), tag), BreakLine(seen, tag))
<1> DEFINE p == Broken(parts, tag)
           s == BreakLine(seen, tag)
<1>1. tag \in Breaks => tag \in Breaks \ Silent
  BY DEF PageAssumption
<1>2. p \in Seq(Pieces) /\ InStep(p, seen) /\ (tag \in Breaks => InStep(p, Append(seen, 0)))
  BY <1>1, BreakInStep
<1>3. InStep(p, s)
  BY <1>2 DEF BreakLine
<1> HIDE DEF p, s
<1>4. InStep(Broken(p, tag), s)
  BY <1>2, <1>3, BreakInStep
<1>5. QED
  BY <1>2, <1>3, <1>4 DEF p, s

LEMMA InitKInv == Init => KInv
<1> SUFFICES ASSUME Init PROVE KInv
  OBVIOUS
<1>1. open = <<>> /\ depth = 0 /\ parts = <<>> /\ seen = <<0>>
  BY DEF Init
<1>2. Cardinality(SilentAt(open)) = 0
  <2>1. SilentAt(open) = {}
    BY <1>1 DEF SilentAt
  <2>2. QED
    BY <2>1, FS_EmptySet
<1>3. WordsOf(Split(<<>>)) = <<0>>
  <2>1. NoLine \in Lines /\ NoLine \in Line
    BY CollapsingType DEF NoLine, Line
  <2>2. WordsOf(NoLine) = <<>> /\ WordsIn(NoLine) = 0
    <3>1. WordsOf(NoLine) = <<>>
      BY DEF WordsOf, NoLine
    <3>2. Filtered(NoLine, ReaderWords) = NoLine
      BY FilteredEmpty DEF NoLine
    <3>3. QED
      BY <3>1, <3>2 DEF WordsIn, NoLine
  <2>3. WordsOf(Append(NoLine, NoLine)) = Append(<<>>, 0)
    BY <2>1, <2>2, WordsAppend
  <2>4. Append(NoLine, NoLine) = Split(<<>>) /\ Append(<<>>, 0) = <<0>>
    BY SplitNothing DEF NoLine
  <2>5. QED
    BY <2>3, <2>4
<1>4. Aligned(<<0>>, <<0>>)
  BY DEF Aligned
<1>5. QED
  BY <1>1, <1>2, <1>3, <1>4 DEF KInv, InStep

\* What is left of a step is to count the silent elements.
LEMMA StepKInv ==
  ASSUME depth' <= Cardinality(SilentAt(open')), InStep(parts', seen')
  PROVE  KInv'
<1>1. SilentAt(open)' = SilentAt(open')
  BY DEF SilentAt
<1>2. InStep(parts, seen)' = InStep(parts', seen')
  BY DEF InStep, Aligned, WordsOf, Split, LineEnds
<1>3. QED
  BY <1>1, <1>2 DEF KInv

LEMMA NextKInv ==
  PageAssumption /\ (Void \cup Implied) \cap Silent = {} /\ IInv /\ KInv /\ [Next]_vars => KInv'
<1> SUFFICES ASSUME PageAssumption, (Void \cup Implied) \cap Silent = {}, IInv, KInv, [Next]_vars
             PROVE  KInv'
  OBVIOUS
<1>1. /\ open \in Seq(Tags) /\ depth \in Nat /\ parts \in Seq(Pieces) /\ astray \in BOOLEAN
      /\ depth <= Cardinality(SilentAt(open)) /\ InStep(parts, seen)
  BY DEF IInv, KInv, TypeOK, Tags, Pieces
<1>2. Cardinality(SilentAt(open)) \in Nat /\ (Visible => depth = 0)
  <2>1. Cardinality(SilentAt(open)) \in Nat
    BY <1>1, SilentAtFinite
  <2>2. Visible => Cardinality(SilentAt(open)) = 0
    BY <1>1, SilentMeansHidden DEF Visible, Shows
  <2>3. QED
    BY <1>1, <2>1, <2>2
<1>3. ASSUME NEW tag
      PROVE  /\ InStep(Broken(parts, tag), BreakLine(seen, tag))
             /\ InStep(Broken(Broken(parts, tag), tag), BreakLine(seen, tag))
  BY <1>1, TagInStep
<1>4. ASSUME NEW tag \in Tags, StartTag(tag)
      PROVE  KInv'
  <2>1. open' = Append(open, tag) /\ depth' = Entered(depth, tag)
        /\ parts' = Broken(parts, tag) /\ seen' = BreakLine(seen, tag)
    BY <1>4 DEF StartTag
  <2>2. Cardinality(SilentAt(open')) = IF tag \in Silent THEN Cardinality(SilentAt(open)) + 1
                                                        ELSE Cardinality(SilentAt(open))
    BY <1>1, <2>1, SilentAppended
  <2>3. depth' <= Cardinality(SilentAt(open'))
    BY <1>1, <1>2, <2>1, <2>2 DEF Entered
  <2>4. QED
    BY <1>3, <2>1, <2>3, StepKInv
<1>5. CASE EndTag
  <2> DEFINE tag == Last(open)
  <2>1. Close /\ depth' = Left(depth, tag)
        /\ parts' = Broken(parts, tag) /\ seen' = BreakLine(seen, tag)
    BY <1>5 DEF EndTag
  <2>2. /\ Cardinality(SilentAt(open')) \in Nat
        /\ Cardinality(SilentAt(open')) = IF tag \in Silent THEN Cardinality(SilentAt(open)) - 1
                                                          ELSE Cardinality(SilentAt(open))
    BY <1>1, <2>1, CloseKeeps
  <2>3. depth' <= Cardinality(SilentAt(open'))
    BY <1>1, <1>2, <2>1, <2>2 DEF Left
  <2>4. QED
    BY <1>3, <2>1, <2>3, StepKInv
\* An element that ends without an end tag is not silent.
<1>6. CASE ImpliedEnd
  <2>1. Close /\ Last(open) \notin Silent /\ UNCHANGED <<depth, parts, seen>>
    BY <1>6 DEF ImpliedEnd
  <2>2. Cardinality(SilentAt(open')) = Cardinality(SilentAt(open))
    BY <1>1, <2>1, CloseKeeps
  <2>3. depth' <= Cardinality(SilentAt(open')) /\ InStep(parts', seen')
    BY <1>1, <2>1, <2>2
  <2>4. QED
    BY <2>3, StepKInv
<1>7. ASSUME NEW tag, StrayEndTag(tag)
      PROVE  KInv'
  <2>1. open' = open /\ depth' = Left(depth, tag)
        /\ parts' = Broken(parts, tag) /\ seen' = BreakLine(seen, tag)
    BY <1>7 DEF StrayEndTag
  <2>2. depth' <= Cardinality(SilentAt(open'))
    BY <1>1, <1>2, <2>1 DEF Left
  <2>3. QED
    BY <1>3, <2>1, <2>2, StepKInv
\* An element that is never left is not silent.
<1>8. ASSUME NEW tag \in Void, VoidTag(tag)
      PROVE  KInv'
  <2>1. open' = open /\ depth' = Entered(depth, tag)
        /\ parts' = Broken(parts, tag) /\ seen' = BreakLine(seen, tag)
    BY <1>8 DEF VoidTag
  <2>2. depth' <= Cardinality(SilentAt(open'))
    BY <1>1, <1>8, <2>1 DEF Entered
  <2>3. QED
    BY <1>3, <2>1, <2>2, StepKInv
<1>9. ASSUME NEW tag, SlashedTag(tag)
      PROVE  KInv'
  <2>1. /\ open' = open /\ depth' = Left(Entered(depth, tag), tag)
        /\ parts' = Broken(Broken(parts, tag), tag) /\ seen' = BreakLine(seen, tag)
    BY <1>9 DEF SlashedTag
  <2>2. depth' <= Cardinality(SilentAt(open'))
    BY <1>1, <2>1 DEF Entered, Left
  <2>3. QED
    BY <1>3, <2>1, <2>2, StepKInv
\* A word that shows is kept, and one that does not counts on neither side.
<1>10. ASSUME NEW d \in {Word, Blank, Newline}, Data(d)
      PROVE  KInv'
  <2>1. /\ open' = open /\ depth' = depth
        /\ parts' = IF depth = 0 THEN Append(parts, d) ELSE parts
        /\ seen' = IF d = "shown" THEN Bump(seen) ELSE seen
    BY <1>10 DEF Data, Bump
  <2>2. depth' <= Cardinality(SilentAt(open'))
    BY <1>1, <2>1
  <2>3. InStep(parts', seen')
    <3>1. "shown" # "hidden" /\ Blank # "shown" /\ Newline # "shown"
      BY Zenon DEF Blank, Newline
    <3>2. d \in {"shown", "hidden", Blank, Newline} /\ (depth # 0 => d # "shown")
      BY <1>2, <1>10, <3>1 DEF Word
    <3>3. CASE depth = 0
      <4>1. /\ InStep(Append(parts, Newline), seen) /\ InStep(Append(parts, Blank), seen)
            /\ InStep(Append(parts, "shown"), Bump(seen)) /\ InStep(Append(parts, "hidden"), seen)
        BY <1>1, PieceInStep
      <4>2. QED
        BY <2>1, <3>1, <3>2, <3>3, <4>1
    <3>4. CASE depth # 0
      BY <1>1, <2>1, <3>2, <3>4
    <3>5. QED
      BY <3>3, <3>4
  <2>4. QED
    BY <2>2, <2>3, StepKInv
<1>11. CASE UNCHANGED vars
  BY <1>1, <1>11, StepKInv DEF vars
<1>12. QED
  BY <1>4, <1>5, <1>6, <1>7, <1>8, <1>9, <1>10, <1>11 DEF Next, Tags

LEMMA AlwaysKInv ==
  ASSUME (Void \cup Implied) \cap Silent = {}
  PROVE  Spec => [](IInv /\ KInv)
<1>1. Init => IInv /\ KInv
  BY InitIInv, InitKInv, PageAssumption
<1>2. IInv /\ KInv /\ [Next]_vars => (IInv /\ KInv)'
  BY NextIInv, NextKInv, PageAssumption
<1>3. QED
  BY <1>1, <1>2, PTL DEF Spec

\* What the parts say of the text.
LEMMA TextInStep ==
  ASSUME IInv, KInv
  PROVE  /\ Count(WordsOf(Text(parts))) = Count(seen)
         /\ LineEnds(seen) \subseteq LineEnds(WordsOf(Text(parts))) \cup {0}
<1> DEFINE w == WordsOf(Split(parts))
           t == WordsOf(Text(parts))
<1>1. parts \in Seq(Pieces) /\ Aligned(seen, w)
  BY DEF IInv, KInv, TypeOK, Pieces, InStep
<1>2. Count(t) = Count(w) /\ LineEnds(w) \subseteq LineEnds(t) \cup {0}
  BY <1>1, TextKeeps DEF Keeps
<1> HIDE DEF w, t
<1>3. /\ seen \in Seq(Nat) /\ seen # <<>> /\ w \in Seq(Nat) /\ w # <<>>
      /\ Count(seen) = Count(w) /\ LineEnds(Front(seen)) \subseteq LineEnds(Front(w))
  BY <1>1 DEF Aligned
<1>4. /\ LineEnds(seen) = LineEnds(Front(seen)) \cup {Count(seen)}
      /\ LineEnds(w) = LineEnds(Front(w)) \cup {Count(w)}
  BY <1>3, EndsLast
<1>5. LineEnds(seen) \subseteq LineEnds(w)
  BY <1>3, <1>4
<1>6. QED
  BY <1>2, <1>3, <1>5 DEF t

\* markup.py:1: no word a reader sees is lost, for any page on which every silent
\* element has an end tag, wherever further end tags stand.  With a silent element
\* that no end tag closes it fails.
THEOREM ReaderTextKept ==
  ASSUME (Void \cup Implied) \cap Silent = {}
  PROVE  Spec => []ReaderTextIsKept
<1>1. IInv /\ KInv => ReaderTextIsKept
  BY TextInStep DEF ReaderTextIsKept
<1>2. QED
  BY <1>1, AlwaysKInv, PTL

\* markup.py:18 and :66-73: for any page of such elements words of different
\* blocks are on different lines of the text, blocks are one blank line apart at
\* most, and the text begins and ends with a word.
THEOREM BlocksApart ==
  ASSUME (Void \cup Implied) \cap Silent = {}
  PROVE  Spec => []BlocksStayApart
<1>1. ASSUME IInv, KInv PROVE BlocksStayApart
  <2> DEFINE text == Text(parts)
  <2>1. parts \in Seq(Pieces)
    BY <1>1 DEF IInv, TypeOK, Pieces
  <2>2. Spaced(text) /\ (text # <<>> => Filled(Last(text)))
    BY <2>1, TextKeeps
  <2>3. LineEnds(seen) \subseteq LineEnds(WordsOf(text)) \cup {0}
    BY <1>1, TextInStep
  <2> HIDE DEF text
  <2>4. /\ \A n \in 1..Len(text) - 1 : Filled(text[n]) \/ Filled(text[n + 1])
        /\ text # <<>> => Filled(Head(text)) /\ Filled(Last(text))
    BY <2>2 DEF Spaced
  <2>5. QED
    BY <2>3, <2>4 DEF BlocksStayApart, text
<1>2. QED
  BY <1>1, AlwaysKInv, PTL
=============================================================================
