-------------------------- MODULE FolderPagesProofs --------------------------
(***************************************************************************)
(* Theorems of FolderPages, for any folder, any limits and any changes.      *)
(*                                                                         *)
(* What the caller has missed, or got twice, is seen only at the end; what    *)
(* is accounted for at any time is each item on the wrong side of the offset  *)
(* at which the next page begins.  A page moves the offset and the items it   *)
(* gives to the same side; a change moves itself and one other item.         *)
(***************************************************************************)
EXTENDS FolderPages, ListFacts

\* The folder as list_folder sees it.
Listed == SafeChildren(children)

\* The part of a listing before an offset, and the part behind it.
Upto(q, p) == {q[k] : k \in {k \in 1..Len(q) : k <= p}}
Beyond(q, p) == {q[k] : k \in {k \in 1..Len(q) : k > p}}

\* The page about to be given, and all that will have been given with it.
Page == SubSeq(items, Start(cursor) + 1, End(Start(cursor)))
GivenSoon == Given \o Page

Repeats(g) == Len(g) - Cardinality(ToSet(g))

\* How many of the items st that a listing of s has before the offset p are not
\* in G; and how many it has behind p are in G.
Missed(s, p, st, G) == Cardinality((Upto(SafeChildren(s), p) \cap st) \ G)
Again(s, p, G) == Cardinality(Beyond(SafeChildren(s), p) \cap G)

\* With g given and the next page to begin at p, what stands before p without
\* having been given went there because something left, and what stands behind
\* p and has been given because something came.
Accounted(g, p) ==
  /\ Missed(children, p, stayed, ToSet(g)) <= left
  /\ Repeats(g) + Again(children, p, ToSet(g)) <= came

InTime == pc \in {"idle", "listing", "listed"}

Kept ==
  /\ TypeOK /\ children \in Seq(Items) /\ pages \in Seq(Seq(Items \ Unsafe))
  /\ left \in Nat /\ came \in Nat /\ stayed \subseteq ToSet(children)
  /\ InTime => (pages = <<>> <=> cursor = None)
  /\ pc = "listed" => items \in Seq(Items \ Unsafe) /\ IsInjective(items)

\* Between the pages.
Between ==
  pc \in {"idle", "listing"} =>
    /\ Accounted(Given, Start(cursor))
    /\ cursor # None => Len(Listed) + left > cursor

\* With a listing in hand, of a folder that may have changed since: the page
\* that will be cut from it is counted already.
InHand ==
  pc = "listed" =>
    /\ Len(Listed) + left >= Len(items)
    /\ cursor # None => Len(items) + left > cursor
    /\ ~Outside(Start(cursor)) =>
         /\ Accounted(GivenSoon, End(Start(cursor)))
         /\ End(Start(cursor)) = Len(items) =>
              Cardinality((stayed \ Unsafe) \ ToSet(GivenSoon)) <= left

IInv ==
  Kept /\ Between /\ InHand /\ SkippedAtMostLeft /\ RepeatedAtMostCame /\ StaleMeansTwoLeft

---------------------------------------------------------------------------
(* One item more, or one less.                                             *)

\* r is q with i put in somewhere.
Inserted(q, r, i, T) ==
  \E a, b \in Seq(T) : q = a \o b /\ r = (a \o <<i>>) \o b

\* Where the items of both are.
LEMMA InsertedPlaces ==
  ASSUME NEW T, NEW q, NEW r, NEW i \in T, Inserted(q, r, i, T)
  PROVE  /\ q \in Seq(T) /\ r \in Seq(T) /\ Len(q) \in Nat /\ Len(r) = Len(q) + 1
         /\ \E m \in 0..Len(q) : /\ \A k \in 1..m : r[k] = q[k]
                                 /\ r[m + 1] = i
                                 /\ \A k \in m + 1..Len(q) : r[k + 1] = q[k]
<1>1. PICK a \in Seq(T), b \in Seq(T) : q = a \o b /\ r = (a \o <<i>>) \o b
  BY DEF Inserted
<1> DEFINE m == Len(a)
           n == Len(b)
           one == <<i>>
           c == a \o one
<1>2. one \in Seq(T) /\ Len(one) = 1 /\ one[1] = i
  OBVIOUS
<1> HIDE DEF one
<1>3. /\ c \in Seq(T) /\ Len(c) = m + 1 /\ m \in Nat /\ n \in Nat
      /\ c[m + 1] = i /\ \A k \in 1..m : c[k] = a[k]
  <2>1. m \in Nat /\ n \in Nat /\ 1 \in 1..Len(one)
    BY <1>2
  <2> HIDE DEF m, n, c
  <2>2. /\ a \o one \in Seq(T) /\ Len(a \o one) = Len(a) + Len(one)
        /\ \A k \in 1..Len(a) : (a \o one)[k] = a[k]
        /\ \A k \in 1..Len(one) : (a \o one)[Len(a) + k] = one[k]
    <3>1. a \in Seq(T) /\ one \in Seq(T)
      BY <1>2
    <3>2. QED
      BY <3>1, Joined
  <2> HIDE DEF c
  <2>3. (a \o one)[m + 1] = one[1]
    BY <2>1, <2>2 DEF m
  <2>4. QED
    BY <1>2, <2>1, <2>2, <2>3 DEF m, c
<1> HIDE DEF c
<1>4. r = c \o b
  BY <1>1 DEF c, one
<1>5. /\ q \in Seq(T) /\ Len(q) = m + n
      /\ \A k \in 1..m : q[k] = a[k]
      /\ \A k \in 1..n : q[m + k] = b[k]
  BY <1>1
<1>6. /\ r \in Seq(T) /\ Len(r) = (m + 1) + n
      /\ \A k \in 1..m + 1 : r[k] = c[k]
      /\ \A k \in 1..n : r[(m + 1) + k] = b[k]
  <2> HIDE DEF m, n
  <2>1. /\ c \o b \in Seq(T) /\ Len(c \o b) = Len(c) + Len(b)
        /\ \A k \in 1..Len(c) : (c \o b)[k] = c[k]
        /\ \A k \in 1..Len(b) : (c \o b)[Len(c) + k] = b[k]
    <3>1. c \in Seq(T) /\ b \in Seq(T)
      BY <1>3
    <3>2. QED
      BY <3>1, Joined
  <2>2. QED
    BY <1>3, <1>4, <2>1 DEF n
<1> HIDE DEF m, n
<1>7. Len(r) = Len(q) + 1 /\ m \in 0..Len(q)
  BY <1>3, <1>5, <1>6
<1>8. (\A k \in 1..m : r[k] = q[k]) /\ r[m + 1] = i
  BY <1>3, <1>5, <1>6
<1>9. ASSUME NEW k \in m + 1..Len(q) PROVE r[k + 1] = q[k]
  <2>1. k - m \in 1..n /\ m + (k - m) = k /\ (m + 1) + (k - m) = k + 1
    BY <1>3, <1>5
  <2>2. q[k] = b[k - m] /\ r[k + 1] = b[k - m]
    BY <1>5, <1>6, <2>1
  <2>3. QED
    BY <2>2
<1>10. QED
  BY <1>5, <1>6, <1>7, <1>8, <1>9

\* What an insertion moves over an offset: itself, or one other item.
LEMMA InsertedSides ==
  ASSUME NEW T, NEW q, NEW r, NEW i \in T, Inserted(q, r, i, T), NEW p \in Nat
  PROVE  /\ Upto(r, p) \subseteq Upto(q, p) \cup {i}
         /\ \E y : Upto(q, p) \subseteq Upto(r, p) \cup {y}
         /\ Beyond(q, p) \subseteq Beyond(r, p)
         /\ \E y : Beyond(r, p) \subseteq Beyond(q, p) \cup {y}
<1> DEFINE n == Len(q)
<1>1. n \in Nat /\ Len(r) = n + 1
  BY InsertedPlaces
<1>2. PICK m \in 0..n : /\ \A k \in 1..m : r[k] = q[k]
                        /\ r[m + 1] = i
                        /\ \A k \in m + 1..n : r[k + 1] = q[k]
  BY InsertedPlaces
<1> HIDE DEF n
<1>3. \A k \in 1..n + 1 : k \in 1..m \/ k = m + 1 \/ k - 1 \in m + 1..n
  BY <1>1
<1>4. Upto(r, p) \subseteq Upto(q, p) \cup {i}
  <2> SUFFICES ASSUME NEW k \in 1..n + 1, k <= p, r[k] # i PROVE r[k] \in Upto(q, p)
    BY <1>1 DEF Upto
  <2>1. CASE k \in 1..m
    BY <1>1, <1>2, <2>1 DEF Upto, n
  <2>2. CASE k - 1 \in m + 1..n
    <3>1. (k - 1) + 1 = k /\ k - 1 \in 1..n /\ k - 1 <= p
      BY <1>1, <2>2
    <3>2. r[k] = q[k - 1]
      BY <1>2, <2>2, <3>1
    <3>3. QED
      BY <3>1, <3>2 DEF Upto, n
  <2>3. QED
    BY <1>2, <1>3, <2>1, <2>2
<1>5. Upto(q, p) \subseteq Upto(r, p) \cup {r[p + 1]}
  <2> SUFFICES ASSUME NEW k \in 1..n, k <= p PROVE q[k] \in Upto(r, p) \cup {r[p + 1]}
    BY DEF Upto, n
  <2>1. CASE k \in 1..m
    BY <1>1, <1>2, <2>1 DEF Upto
  <2>2. CASE k \notin 1..m
    <3>1. k \in m + 1..n /\ k + 1 \in 1..n + 1 /\ (k + 1 <= p \/ k = p)
      BY <1>1, <2>2
    <3>2. q[k] = r[k + 1]
      BY <1>2, <3>1
    <3>3. QED
      BY <1>1, <3>1, <3>2 DEF Upto
  <2>3. QED
    BY <2>1, <2>2
<1>6. Beyond(q, p) \subseteq Beyond(r, p)
  <2> SUFFICES ASSUME NEW k \in 1..n, k > p PROVE q[k] \in Beyond(r, p)
    BY DEF Beyond, n
  <2>1. CASE k \in 1..m
    BY <1>1, <1>2, <2>1 DEF Beyond
  <2>2. CASE k \notin 1..m
    <3>1. k \in m + 1..n /\ k + 1 \in 1..n + 1 /\ k + 1 > p
      BY <1>1, <2>2
    <3>2. q[k] = r[k + 1]
      BY <1>2, <3>1
    <3>3. QED
      BY <1>1, <3>1, <3>2 DEF Beyond
  <2>3. QED
    BY <2>1, <2>2
<1>7. \E y : Beyond(r, p) \subseteq Beyond(q, p) \cup {y}
  <2> DEFINE y == IF m < p THEN q[p] ELSE i
  <2> SUFFICES ASSUME NEW k \in 1..n + 1, k > p PROVE r[k] \in Beyond(q, p) \cup {y}
    BY <1>1 DEF Beyond
  <2>1. CASE k \in 1..m
    BY <1>1, <1>2, <2>1 DEF Beyond, n
  <2>2. CASE k = m + 1
    BY <1>1, <1>2, <2>2
  <2>3. CASE k - 1 \in m + 1..n
    <3>1. (k - 1) + 1 = k /\ k - 1 \in 1..n /\ (k - 1 > p \/ k - 1 = p) /\ k - 1 > m
      BY <1>1, <2>3
    <3>2. r[k] = q[k - 1]
      BY <1>2, <2>3, <3>1
    <3>3. CASE k - 1 > p
      BY <3>1, <3>2, <3>3 DEF Beyond, n
    <3>4. CASE k - 1 = p
      BY <3>1, <3>2, <3>4
    <3>5. QED
      BY <3>1, <3>3, <3>4
  <2>4. QED
    BY <1>3, <2>1, <2>2, <2>3
<1>8. QED
  BY <1>4, <1>5, <1>6, <1>7

\* Filtering afterwards, the item was put in as well, or nothing was.
LEMMA InsertedFiltered ==
  ASSUME NEW T, NEW q, NEW r, NEW i \in T, Inserted(q, r, i, T), NEW S
  PROVE  /\ i \in S => Inserted(Filtered(q, S), Filtered(r, S), i, T)
         /\ i \notin S => Filtered(q, S) = Filtered(r, S)
<1>1. PICK a \in Seq(T), b \in Seq(T) : q = a \o b /\ r = (a \o <<i>>) \o b
  BY DEF Inserted
<1> DEFINE one == <<i>>
           fa == Filtered(a, S)
           fb == Filtered(b, S)
           none == <<>>
<1>2. one \in Seq(T) /\ ToSet(one) = {i}
  BY DEF ToSet
<1>3. fa \in Seq(T) /\ fb \in Seq(T)
  BY FilteredSet
<1> HIDE DEF one
<1>4. Filtered(q, S) = fa \o fb
  BY <1>1, FilteredConcat
<1>5. a \o one \in Seq(T) /\ r = (a \o one) \o b
  BY <1>1, <1>2 DEF one
<1>6. Filtered(a \o one, S) = fa \o Filtered(one, S)
  BY <1>2, FilteredConcat
<1>7. Filtered(r, S) = (fa \o Filtered(one, S)) \o fb
  <2> HIDE DEF fa, fb
  <2> DEFINE c == a \o one
  <2>1. c \in Seq(T)
    BY <1>5
  <2> HIDE DEF c
  <2>2. Filtered(c \o b, S) = Filtered(c, S) \o Filtered(b, S)
    BY <2>1, FilteredConcat
  <2>3. Filtered((a \o one) \o b, S) = Filtered(a \o one, S) \o Filtered(b, S)
    BY <2>2 DEF c
  <2>4. QED
    BY <1>5, <1>6, <2>3 DEF fb
<1>8. ASSUME i \in S PROVE Inserted(Filtered(q, S), Filtered(r, S), i, T)
  <2>1. Filtered(one, S) = one
    BY <1>2, <1>8, FilteredAll
  <2> HIDE DEF fa, fb
  <2>2. QED
    BY <1>3, <1>4, <1>7, <2>1 DEF Inserted, one
<1>9. ASSUME i \notin S PROVE Filtered(q, S) = Filtered(r, S)
  <2>1. Filtered(one, S) = none
    BY <1>2, <1>9, FilteredAll
  <2>2. fa \o none = fa
    <3> HIDE DEF fa
    <3>1. QED
      BY <1>3
  <2> HIDE DEF fa, fb, none
  <2>3. QED
    BY <1>4, <1>7, <2>1, <2>2
<1>10. QED
  BY <1>8, <1>9

\* InsertAt puts an item in.
LEMMA InsertAtInserts ==
  ASSUME NEW T, NEW s \in Seq(T), NEW i \in T, NEW k \in 1..Len(s) + 1
  PROVE  Inserted(s, InsertAt(s, k, i), i, T)
<1> DEFINE j == k - 1
<1>1. j \in 0..Len(s) /\ j + 1 = k
  OBVIOUS
<1>2. InsertAt(s, k, i) = (Before(s, j) \o <<i>>) \o After(s, j)
  BY <1>1 DEF InsertAt, Before, After
<1> HIDE DEF j
<1>3. Before(s, j) \in Seq(T) /\ After(s, j) \in Seq(T) /\ s = Before(s, j) \o After(s, j)
  BY <1>1, CutInTwo
<1>4. QED
  BY <1>2, <1>3 DEF Inserted

\* ... and an item that was taken out can be put in again at its place.
LEMMA RemovalUndone ==
  ASSUME NEW T, NEW s \in Seq(T), IsInjective(s), NEW i \in ToSet(s)
  PROVE  i \in T /\ Inserted(Filtered(s, T \ {i}), s, i, T)
<1>1. PICK k \in 1..Len(s) : s[k] = i
  BY DEF ToSet
<1>2. i \in T /\ Len(s) \in Nat /\ k \in 0..Len(s) /\ k \in 1..k
  BY <1>1
<1> DEFINE j == k - 1
<1>3. j \in 0..Len(s) /\ k = j + 1
  BY <1>2
<1> HIDE DEF j
<1> DEFINE a == Before(s, j)
           b == After(s, k)
           c == Before(s, k)
           one == <<i>>
           none == <<>>
<1>4. /\ c \in Seq(T) /\ Len(c) = k /\ \A n \in 1..k : c[n] = s[n]
  BY <1>2, CutInTwo
<1>5. b \in Seq(T) /\ s = c \o b /\ ToSet(c) \cap ToSet(b) = {}
  <2> HIDE DEF a, b, c, one, none
  <2>1. k \in 0..Len(s)
    BY <1>2
  <2>2. After(s, k) \in Seq(T) /\ s = Before(s, k) \o After(s, k)
    BY <2>1, CutInTwo
  <2>3. ToSet(Before(s, k)) \cap ToSet(After(s, k)) = {}
    BY <2>1, CutInTwo
  <2>4. QED
    BY <2>2, <2>3 DEF b, c
<1>6. /\ a \in Seq(T) /\ Len(a) = j /\ \A n \in 1..j : a[n] = s[n]
  BY <1>3, CutInTwo
<1> HIDE DEF a, b, c
<1>7. one \in Seq(T) /\ Len(one) = 1 /\ one[1] = i /\ ToSet(one) = {i}
  BY <1>2 DEF ToSet
<1> HIDE DEF one
<1>8. c = a \o one
  <2> DEFINE u == a \o one
  <2>1. /\ u \in Seq(T) /\ Len(u) = Len(a) + Len(one)
        /\ \A n \in 1..Len(a) : u[n] = a[n]
        /\ \A n \in 1..Len(one) : u[Len(a) + n] = one[n]
    <3>1. /\ a \o one \in Seq(T) /\ Len(a \o one) = Len(a) + Len(one)
          /\ \A n \in 1..Len(a) : (a \o one)[n] = a[n]
          /\ \A n \in 1..Len(one) : (a \o one)[Len(a) + n] = one[n]
      <4> HIDE DEF u, none
      <4>1. a \in Seq(T) /\ one \in Seq(T)
        BY <1>6, <1>7
      <4>2. QED
        BY <4>1, Joined
    <3>2. QED
      BY <3>1
  <2> HIDE DEF u
  <2>2. Len(u) = k /\ u[k] = i /\ \A n \in 1..j : u[n] = a[n]
    <3>1. 1 \in 1..Len(one)
      BY <1>7
    <3>2. u[Len(a) + 1] = one[1]
      BY <2>1, <3>1
    <3>3. QED
      BY <1>3, <1>6, <1>7, <2>1, <3>2
  <2>3. \A n \in 1..k : u[n] = c[n]
    <3> TAKE n \in 1..k
    <3>1. n = k \/ n \in 1..j
      BY <1>3
    <3>2. QED
      BY <1>1, <1>2, <1>4, <1>6, <2>2, <3>1
  <2>4. u = c
    BY <1>4, <2>1, <2>2, <2>3, SeqEqual
  <2>5. QED
    BY <2>4 DEF u
<1>9. i \in ToSet(c) /\ i \notin ToSet(b)
  <2>1. c[k] = i /\ k \in 1..Len(c)
    BY <1>1, <1>2, <1>4
  <2>2. i \in ToSet(c)
    BY <1>4, <2>1 DEF ToSet
  <2>3. QED
    BY <1>5, <2>2
<1>10. i \notin ToSet(a)
  <2> SUFFICES ASSUME NEW n \in 1..j, a[n] = i PROVE FALSE
    BY <1>6 DEF ToSet
  <2>1. n \in 1..Len(s) /\ n # k /\ s[n] = i
    BY <1>2, <1>3, <1>6
  <2>2. QED
    BY <1>1, <2>1 DEF IsInjective
<1>11. ToSet(a) \subseteq T \ {i} /\ ToSet(b) \subseteq T \ {i} /\ ToSet(one) \cap (T \ {i}) = {}
  BY <1>5, <1>6, <1>7, <1>9, <1>10 DEF ToSet
<1> DEFINE R == T \ {i}
<1> HIDE DEF R
<1>12. Filtered(a, R) = a /\ Filtered(b, R) = b /\ Filtered(one, R) = none
  BY <1>5, <1>6, <1>7, <1>11, FilteredAll DEF R
<1>13. Filtered(c, R) = a
  <2>1. Filtered(a \o one, R) = Filtered(a, R) \o Filtered(one, R)
    BY <1>6, <1>7, FilteredConcat
  <2>2. Filtered(c, R) = a \o none
    BY <1>8, <1>12, <2>1
  <2>3. QED
    BY <1>6, <2>2
<1>14. Filtered(s, R) = a \o b
  <2>1. Filtered(c \o b, R) = Filtered(c, R) \o Filtered(b, R)
    BY <1>4, <1>5, FilteredConcat
  <2>2. QED
    BY <1>5, <1>12, <1>13, <2>1
<1>15. s = (a \o <<i>>) \o b
  BY <1>5, <1>8 DEF one
<1>16. QED
  BY <1>2, <1>5, <1>6, <1>14, <1>15 DEF Inserted, R

---------------------------------------------------------------------------
(* Counting.                                                               *)

\* A set with one more element has one more element at most.
LEMMA OneMore ==
  ASSUME NEW A, NEW B, IsFiniteSet(B), NEW y, A \subseteq B \cup {y}
  PROVE  IsFiniteSet(A) /\ Cardinality(A) <= Cardinality(B) + 1
<1> DEFINE C == B \cup {y}
<1>1. /\ IsFiniteSet(C) /\ Cardinality(B) \in Nat
      /\ Cardinality(C) = Cardinality(B) \/ Cardinality(C) = Cardinality(B) + 1
  BY FS_AddElement, FS_CardinalityType
<1>2. IsFiniteSet(A) /\ Cardinality(A) <= Cardinality(C) /\ Cardinality(A) \in Nat /\ Cardinality(C) \in Nat
  <2> HIDE DEF C
  <2>1. A \subseteq C
    BY DEF C
  <2>2. QED
    BY <1>1, <2>1, FS_Subset, FS_CardinalityType
<1> HIDE DEF C
<1>3. QED
  BY <1>1, <1>2

\* A part has no more elements than the whole.
LEMMA NoMore ==
  ASSUME NEW A, NEW B, IsFiniteSet(B), A \subseteq B
  PROVE  /\ IsFiniteSet(A) /\ Cardinality(A) \in Nat /\ Cardinality(B) \in Nat
         /\ Cardinality(A) <= Cardinality(B)
  BY FS_Subset, FS_CardinalityType

\* Safe children are a listing of items of the folder.
LEMMA Listing ==
  ASSUME NEW s \in Seq(Items)
  PROVE  /\ SafeChildren(s) \in Seq(Items) /\ SafeChildren(s) \in Seq(Items \ Unsafe)
         /\ ToSet(SafeChildren(s)) = ToSet(s) \ Unsafe
         /\ Len(SafeChildren(s)) \in Nat
<1> DEFINE U == Items \ Unsafe
           f == Filtered(s, U)
<1>1. f \in Seq(Items) /\ ToSet(f) = ToSet(s) \cap U
  BY FilteredSet
<1>2. ToSet(s) \subseteq Items
  BY DEF ToSet
<1> HIDE DEF f
<1>3. ToSet(f) = ToSet(s) \ Unsafe
  BY <1>1, <1>2
<1>4. f \in Seq(U)
  <2>1. \A k \in 1..Len(f) : f[k] \in U
    BY <1>1 DEF ToSet
  <2>2. QED
    BY <1>1, <2>1
<1>5. f = SafeChildren(s)
  BY DEF f, SafeChildren
<1>6. Len(f) \in Nat
  BY <1>1
<1>7. QED
  BY <1>1, <1>3, <1>4, <1>5, <1>6

\* What is counted can be counted.
LEMMA SidesAreItems ==
  ASSUME PagesAssumption, NEW s \in Seq(Items), NEW p, NEW st, NEW G
  PROVE  /\ Upto(SafeChildren(s), p) \subseteq Items /\ Beyond(SafeChildren(s), p) \subseteq Items
         /\ IsFiniteSet((Upto(SafeChildren(s), p) \cap st) \ G)
         /\ IsFiniteSet(Beyond(SafeChildren(s), p) \cap G)
         /\ Missed(s, p, st, G) \in Nat /\ Again(s, p, G) \in Nat
<1> DEFINE q == SafeChildren(s)
<1>1. q \in Seq(Items)
  BY Listing
<1> HIDE DEF q
<1>2. Upto(q, p) \subseteq Items /\ Beyond(q, p) \subseteq Items
  BY <1>1 DEF Upto, Beyond
<1>3. (Upto(q, p) \cap st) \ G \subseteq Items /\ Beyond(q, p) \cap G \subseteq Items
  BY <1>2
<1>4. IsFiniteSet((Upto(q, p) \cap st) \ G) /\ IsFiniteSet(Beyond(q, p) \cap G)
  <2> HIDE DEF Upto, Beyond
  <2>1. QED
    BY <1>3, FS_Subset DEF PagesAssumption
<1>5. QED
  BY <1>2, <1>4, FS_CardinalityType DEF q, Missed, Again

\* One item out: one more may be missed, none comes again.
LEMMA ItemOut ==
  ASSUME PagesAssumption, NEW s \in Seq(Items), IsInjective(s), NEW i \in ToSet(s),
         NEW p \in Nat, NEW st, NEW G
  PROVE  LET t == Filtered(s, Items \ {i}) IN
         /\ Missed(t, p, st \ {i}, G) <= Missed(s, p, st, G) + 1
         /\ Again(t, p, G) <= Again(s, p, G)
         /\ Len(SafeChildren(s)) <= Len(SafeChildren(t)) + 1
<1> DEFINE t == Filtered(s, Items \ {i})
           U == Items \ Unsafe
           q == Filtered(s, U)
           r == Filtered(t, U)
<1>1. i \in Items /\ Inserted(t, s, i, Items)
  BY RemovalUndone
<1>2. t \in Seq(Items)
  BY FilteredSet
<1> HIDE DEF t
<1>3. q \in Seq(Items) /\ r \in Seq(Items) /\ Len(q) \in Nat /\ Len(r) \in Nat
  BY <1>2, Listing DEF SafeChildren
<1> HIDE DEF U
<1>4. i \in U => Inserted(r, q, i, Items)
  BY <1>1, InsertedFiltered
<1>5. i \notin U => r = q
  BY <1>1, InsertedFiltered
<1> HIDE DEF q, r
<1>6. /\ \E y : Upto(r, p) \subseteq Upto(q, p) \cup {y}
      /\ Beyond(r, p) \subseteq Beyond(q, p)
      /\ Len(q) <= Len(r) + 1
  <2>1. CASE i \in U
    <3>1. Inserted(r, q, i, Items)
      BY <1>4, <2>1
    <3>2. \E y : Upto(r, p) \subseteq Upto(q, p) \cup {y}
      BY <1>1, <3>1, InsertedSides
    <3>3. Beyond(r, p) \subseteq Beyond(q, p)
      BY <1>1, <3>1, InsertedSides
    <3>4. Len(q) = Len(r) + 1
      BY <1>1, <3>1, InsertedPlaces
    <3>5. QED
      BY <1>3, <3>2, <3>3, <3>4
  <2>2. CASE i \notin U
    BY <1>3, <1>5, <2>2
  <2>3. QED
    BY <2>1, <2>2
<1>7. q = SafeChildren(s) /\ r = SafeChildren(t)
  BY DEF q, r, U, SafeChildren
<1>8. Missed(t, p, st \ {i}, G) <= Missed(s, p, st, G) + 1
  <2>1. PICK y : Upto(r, p) \subseteq Upto(q, p) \cup {y}
    BY <1>6
  <2>2. (Upto(r, p) \cap (st \ {i})) \ G \subseteq ((Upto(q, p) \cap st) \ G) \cup {y}
    BY <2>1
  <2>3. IsFiniteSet((Upto(q, p) \cap st) \ G)
    BY <1>7, SidesAreItems
  <2>4. QED
    BY <1>7, <2>2, <2>3, OneMore DEF Missed
<1>9. Again(t, p, G) <= Again(s, p, G)
  <2>1. Beyond(r, p) \cap G \subseteq Beyond(q, p) \cap G
    BY <1>6
  <2>2. IsFiniteSet(Beyond(q, p) \cap G)
    BY <1>7, SidesAreItems
  <2>3. QED
    BY <1>7, <2>1, <2>2, NoMore DEF Again
<1>10. QED
  BY <1>6, <1>7, <1>8, <1>9 DEF t

\* One item in: one more may come again, none is missed that was not.
LEMMA ItemIn ==
  ASSUME PagesAssumption, NEW s \in Seq(Items), NEW i \in Items, NEW k \in 1..Len(s) + 1,
         NEW p \in Nat, NEW st, i \notin st, NEW G
  PROVE  LET t == InsertAt(s, k, i) IN
         /\ Missed(t, p, st, G) <= Missed(s, p, st, G)
         /\ Again(t, p, G) <= Again(s, p, G) + 1
         /\ Len(SafeChildren(s)) <= Len(SafeChildren(t))
<1> DEFINE t == InsertAt(s, k, i)
           U == Items \ Unsafe
           q == Filtered(s, U)
           r == Filtered(t, U)
<1>1. Inserted(s, t, i, Items)
  BY InsertAtInserts
<1>2. t \in Seq(Items)
  BY InsertedAnywhere
<1> HIDE DEF t
<1>3. q \in Seq(Items) /\ r \in Seq(Items) /\ Len(q) \in Nat /\ Len(r) \in Nat
  BY <1>2, Listing DEF SafeChildren
<1> HIDE DEF U
<1>4. i \in U => Inserted(q, r, i, Items)
  BY <1>1, InsertedFiltered
<1>5. i \notin U => q = r
  BY <1>1, InsertedFiltered
<1> HIDE DEF q, r
<1>6. /\ Upto(r, p) \subseteq Upto(q, p) \cup {i}
      /\ \E y : Beyond(r, p) \subseteq Beyond(q, p) \cup {y}
      /\ Len(q) <= Len(r)
  <2>1. CASE i \in U
    <3>1. Inserted(q, r, i, Items)
      BY <1>4, <2>1
    <3>2. Upto(r, p) \subseteq Upto(q, p) \cup {i}
      BY <3>1, InsertedSides
    <3>3. \E y : Beyond(r, p) \subseteq Beyond(q, p) \cup {y}
      BY <3>1, InsertedSides
    <3>4. Len(r) = Len(q) + 1
      BY <3>1, InsertedPlaces
    <3>5. QED
      BY <1>3, <3>2, <3>3, <3>4
  <2>2. CASE i \notin U
    BY <1>3, <1>5, <2>2
  <2>3. QED
    BY <2>1, <2>2
<1>7. q = SafeChildren(s) /\ r = SafeChildren(t)
  BY DEF q, r, U, SafeChildren
<1>8. Missed(t, p, st, G) <= Missed(s, p, st, G)
  <2>1. (Upto(r, p) \cap st) \ G \subseteq (Upto(q, p) \cap st) \ G
    BY <1>6
  <2>2. IsFiniteSet((Upto(q, p) \cap st) \ G)
    BY <1>7, SidesAreItems
  <2>3. QED
    BY <1>7, <2>1, <2>2, NoMore DEF Missed
<1>9. Again(t, p, G) <= Again(s, p, G) + 1
  <2>1. PICK y : Beyond(r, p) \subseteq Beyond(q, p) \cup {y}
    BY <1>6
  <2>2. Beyond(r, p) \cap G \subseteq (Beyond(q, p) \cap G) \cup {y}
    BY <2>1
  <2>3. IsFiniteSet(Beyond(q, p) \cap G)
    BY <1>7, SidesAreItems
  <2>4. QED
    BY <1>7, <2>2, <2>3, OneMore DEF Again
<1>10. QED
  BY <1>6, <1>7, <1>8, <1>9 DEF t

---------------------------------------------------------------------------
(* A page.                                                                 *)

\* A page takes what it gives from behind the offset and puts it before.
LEMMA PageAccounted ==
  ASSUME PagesAssumption, NEW s \in Seq(Items), IsInjective(s), NEW g \in Seq(Items),
         NEW p \in Nat, NEW e \in Nat, p <= e, e <= Len(SafeChildren(s)), NEW st
  PROVE  LET h == g \o SubSeq(SafeChildren(s), p + 1, e) IN
         /\ h \in Seq(Items)
         /\ Missed(s, e, st, ToSet(h)) <= Missed(s, p, st, ToSet(g))
         /\ Repeats(h) + Again(s, e, ToSet(h)) = Repeats(g) + Again(s, p, ToSet(g))
<1> DEFINE q == SafeChildren(s)
           n == Len(q)
           page == SubSeq(q, p + 1, e)
           h == g \o page
           P == ToSet(page)
           G == ToSet(g)
<1>1. q \in Seq(Items) /\ n \in Nat /\ e <= n
  BY Listing
<1>2. IsInjective(q)
  <2> DEFINE U == Items \ Unsafe
  <2> HIDE DEF q, n, page, h, U
  <2>1. IsInjective(Filtered(s, U))
    BY FilteredOnce
  <2>2. QED
    BY <2>1 DEF SafeChildren, q, U
<1>3. \A a, b \in 1..n : q[a] = q[b] => a = b
  BY <1>1, <1>2 DEF IsInjective
<1> HIDE DEF q
<1>4. /\ page \in Seq(Items) /\ Len(page) = e - p /\ e - p \in Nat
      /\ \A k \in 1..e - p : page[k] = q[p + k] /\ p + k \in 1..n
  <2>1. \A k \in p + 1..e : q[k] \in Items
    <3>1. \A k \in p + 1..e : k \in 1..n
      <4> HIDE DEF n
      <4>1. QED
        BY <1>1
    <3>2. QED
      BY <1>1, <3>1
  <2>2. page \in Seq(Items) /\ Len(page) = e - p
    BY <1>1, <2>1 DEF n
  <2>3. \A k \in 1..e - p : page[k] = q[p + k]
    BY <1>1 DEF n
  <2> HIDE DEF n
  <2>4. \A k \in 1..e - p : p + k \in 1..n
    BY <1>1
  <2>5. e - p \in Nat
    BY <1>1
  <2> HIDE DEF page
  <2>6. QED
    BY <2>2, <2>3, <2>4, <2>5
<1> HIDE DEF page
<1>5. IsInjective(page)
  <2> SUFFICES ASSUME NEW a \in 1..e - p, NEW b \in 1..e - p, page[a] = page[b] PROVE a = b
    BY <1>4 DEF IsInjective
  <2>1. p + a = p + b
    BY <1>3, <1>4
  <2>2. QED
    BY <2>1
<1>6. P = {q[k] : k \in {k \in 1..n : k > p /\ k <= e}}
  <2>1. ASSUME NEW x \in P PROVE x \in {q[k] : k \in {k \in 1..n : k > p /\ k <= e}}
    <3>1. PICK k \in 1..e - p : x = page[k]
      BY <1>4, <2>1 DEF ToSet
    <3>2. x = q[p + k] /\ p + k \in 1..n /\ p + k > p /\ p + k <= e
      BY <1>4, <3>1
    <3>3. QED
      BY <3>2
  <2>2. ASSUME NEW k \in 1..n, k > p, k <= e PROVE q[k] \in P
    <3>1. k - p \in 1..e - p /\ p + (k - p) = k
      BY <1>1, <2>2
    <3>2. q[k] = page[k - p]
      BY <1>4, <3>1
    <3>3. QED
      BY <1>4, <3>1, <3>2 DEF ToSet
  <2>3. QED
    BY <2>1, <2>2
<1> HIDE DEF P
<1>7. Upto(q, e) = Upto(q, p) \cup P
  BY <1>1, <1>6 DEF Upto, n
<1>8. Beyond(q, p) = Beyond(q, e) \cup P /\ Beyond(q, e) \cap P = {}
  <2>1. Beyond(q, p) = Beyond(q, e) \cup P
    BY <1>1, <1>6 DEF Beyond, n
  <2>2. Beyond(q, e) \cap P = {}
    <3> SUFFICES ASSUME NEW k \in 1..n, k > e, NEW j \in 1..n, j > p, j <= e, q[k] = q[j] PROVE FALSE
      BY <1>6 DEF Beyond, n
    <3>1. QED
      BY <1>3
  <2>3. QED
    BY <2>1, <2>2
<1>9. h \in Seq(Items) /\ Len(h) = Len(g) + (e - p) /\ Len(g) \in Nat
  <2>1. page \in Seq(Items)
    BY <1>4
  <2>2. g \o page \in Seq(Items) /\ Len(g \o page) = Len(g) + Len(page)
    BY <2>1, ConcatProperties
  <2>3. QED
    BY <1>4, <2>2
<1>10. ToSet(h) = G \cup P
  BY <1>4, ToSetConcat DEF P
<1> HIDE DEF h
<1>11. G \subseteq Items /\ P \subseteq Items
  BY <1>4 DEF ToSet, P
<1>12. IsFiniteSet(G) /\ IsFiniteSet(P) /\ IsFiniteSet(Beyond(q, p)) /\ IsFiniteSet(Beyond(q, e))
  BY <1>11, SidesAreItems, FS_Subset DEF PagesAssumption, q
<1>13. Cardinality(P) = e - p
  BY <1>4, <1>5, InjectiveCount DEF P
<1>14. Missed(s, e, st, ToSet(h)) <= Missed(s, p, st, G)
  <2>1. (Upto(q, e) \cap st) \ ToSet(h) \subseteq (Upto(q, p) \cap st) \ G
    BY <1>7, <1>10
  <2>2. IsFiniteSet((Upto(q, p) \cap st) \ G)
    BY SidesAreItems DEF q
  <2>3. QED
    BY <2>1, <2>2, NoMore DEF Missed, q
<1> HIDE DEF G
<1>15. /\ Cardinality(G \cup P) = Cardinality(G) + Cardinality(P) - Cardinality(G \cap P)
       /\ Cardinality(G) \in Nat /\ Cardinality(P) \in Nat /\ Cardinality(G \cap P) \in Nat
  <2>1. IsFiniteSet(G \cap P)
    BY <1>12, FS_Subset
  <2>2. QED
    BY <1>12, <2>1, FS_Union, FS_CardinalityType
<1>16. Cardinality(Beyond(q, p) \cap G) = Cardinality(Beyond(q, e) \cap G) + Cardinality(G \cap P)
  <2> DEFINE A == Beyond(q, e) \cap G
             B == G \cap P
  <2>1. Beyond(q, p) \cap G = A \cup B /\ A \cap B = {}
    BY <1>8
  <2>2. IsFiniteSet(A) /\ IsFiniteSet(B)
    BY <1>12, FS_Subset
  <2> HIDE DEF A, B
  <2>3. Cardinality(A \cup B) = Cardinality(A) + Cardinality(B)
    <3>1. Cardinality(A \cup B) = Cardinality(A) + Cardinality(B) - Cardinality(A \cap B)
      BY <2>2, FS_Union
    <3>2. Cardinality(A \cap B) = 0
      BY <2>1, FS_EmptySet
    <3>3. Cardinality(A) \in Nat /\ Cardinality(B) \in Nat
      BY <2>2, FS_CardinalityType
    <3>4. QED
      BY <3>1, <3>2, <3>3
  <2>4. QED
    BY <2>1, <2>3 DEF A, B
<1>17. Beyond(q, e) \cap ToSet(h) = Beyond(q, e) \cap G
  BY <1>8, <1>10
<1>18. Cardinality(Beyond(q, e) \cap G) \in Nat
  BY SidesAreItems DEF q, Again
<1>19. Repeats(h) + Again(s, e, ToSet(h)) = Repeats(g) + Again(s, p, G)
  <2>1. Repeats(h) = (Len(g) + (e - p)) - Cardinality(G \cup P)
    BY <1>9, <1>10 DEF Repeats
  <2>2. Repeats(g) = Len(g) - Cardinality(G)
    BY DEF Repeats, G
  <2>3. Again(s, e, ToSet(h)) = Cardinality(Beyond(q, e) \cap G)
    BY <1>17 DEF Again, q
  <2>4. Again(s, p, G) = Cardinality(Beyond(q, p) \cap G)
    BY DEF Again, q
  <2>5. QED
    BY <1>4, <1>9, <1>13, <1>15, <1>16, <1>18, <2>1, <2>2, <2>3, <2>4
<1>20. QED
  BY <1>9, <1>14, <1>19 DEF h, G, page, q

---------------------------------------------------------------------------
(* A change to the folder.                                                 *)

\* Whatever page comes next, a change costs no more than it is counted for.
Counted ==
  /\ children' \in Seq(Items) /\ IsInjective(children')
  /\ stayed' \subseteq stayed /\ stayed' \subseteq ToSet(children')
  /\ left' \in Nat /\ came' \in Nat /\ left' >= left /\ came' >= came
  /\ Len(SafeChildren(children)) + left <= Len(SafeChildren(children')) + left'
  /\ \A p \in Nat : \A G :
       /\ Missed(children', p, stayed', G) + left <= Missed(children, p, stayed, G) + left'
       /\ Again(children', p, G) + came <= Again(children, p, G) + came'

\* An item taken out leaves the others, each once.
LEMMA TakenOut ==
  ASSUME NEW s \in Seq(Items), IsInjective(s), NEW i
  PROVE  LET t == Filtered(s, Items \ {i}) IN
         t \in Seq(Items) /\ IsInjective(t) /\ ToSet(t) = ToSet(s) \ {i}
<1> DEFINE R == Items \ {i}
           t == Filtered(s, R)
<1> HIDE DEF R
<1>1. t \in Seq(Items) /\ ToSet(t) = ToSet(s) \cap R
  BY FilteredSet
<1>2. IsInjective(t)
  BY FilteredOnce
<1>3. ToSet(s) \subseteq Items
  BY DEF ToSet
<1>4. QED
  BY <1>1, <1>2, <1>3 DEF R

\* Leave: one item more may be missed, and left counts it.
LEMMA LeaveCounted ==
  ASSUME PagesAssumption, IInv, NEW i \in Items, Leave(i)
  PROVE  Counted
<1> DEFINE t == Filtered(children, Items \ {i})
<1>1. children \in Seq(Items) /\ IsInjective(children) /\ left \in Nat /\ came \in Nat
  BY DEF IInv, Kept, TypeOK
<1>2. i \in ToSet(children) /\ children' = t /\ stayed' = stayed \ {i} /\ left' = left + 1 /\ came' = came
  BY DEF Leave
<1>3. t \in Seq(Items) /\ IsInjective(t) /\ ToSet(t) = ToSet(children) \ {i}
  BY <1>1, TakenOut
<1>4. stayed' \subseteq stayed /\ stayed' \subseteq ToSet(children')
  BY <1>2, <1>3 DEF IInv, Kept
<1>5. Len(SafeChildren(children)) \in Nat /\ Len(SafeChildren(children')) \in Nat
  BY <1>1, <1>2, <1>3, Listing
<1>6. ASSUME NEW p \in Nat, NEW G
      PROVE  /\ Missed(t, p, stayed \ {i}, G) <= Missed(children, p, stayed, G) + 1
             /\ Again(t, p, G) <= Again(children, p, G)
             /\ Len(SafeChildren(children)) <= Len(SafeChildren(t)) + 1
  BY <1>1, <1>2, ItemOut
<1>7. ASSUME NEW p \in Nat, NEW G
      PROVE  /\ Missed(children', p, stayed', G) \in Nat /\ Missed(children, p, stayed, G) \in Nat
             /\ Again(children', p, G) \in Nat /\ Again(children, p, G) \in Nat
  BY <1>1, <1>2, <1>3, SidesAreItems
<1> HIDE DEF t
<1>8. ASSUME NEW p \in Nat, NEW G
      PROVE  /\ Missed(children', p, stayed', G) + left <= Missed(children, p, stayed, G) + left'
             /\ Again(children', p, G) + came <= Again(children, p, G) + came'
  <2>1. Missed(children', p, stayed', G) + left <= Missed(children, p, stayed, G) + left'
    <3>1. Missed(children', p, stayed', G) <= Missed(children, p, stayed, G) + 1
      BY <1>2, <1>6
    <3>2. Missed(children', p, stayed', G) + left <= Missed(children, p, stayed, G) + (left + 1)
      BY <1>1, <1>7, <3>1
    <3>3. QED
      BY <1>2, <3>2
  <2>2. Again(children', p, G) + came <= Again(children, p, G) + came'
    <3>1. Again(children', p, G) <= Again(children, p, G)
      BY <1>2, <1>6
    <3>2. QED
      BY <1>1, <1>2, <1>7, <3>1
  <2>3. QED
    BY <2>1, <2>2
<1>9. Len(SafeChildren(children)) + left <= Len(SafeChildren(children')) + left'
  BY <1>1, <1>2, <1>5, <1>6
<1>10. QED
  <2>1. children' \in Seq(Items) /\ IsInjective(children')
    BY <1>2, <1>3
  <2>2. left' \in Nat /\ came' \in Nat /\ left' >= left /\ came' >= came
    BY <1>1, <1>2
  <2>3. QED
    BY <1>4, <1>8, <1>9, <2>1, <2>2 DEF Counted

\* Enter: one item more may come again, and came counts it.
LEMMA EnterCounted ==
  ASSUME PagesAssumption, IInv, NEW i \in Items, Enter(i)
  PROVE  Counted
<1>1. /\ children \in Seq(Items) /\ IsInjective(children) /\ left \in Nat /\ came \in Nat
      /\ stayed \subseteq ToSet(children)
  BY DEF IInv, Kept, TypeOK
<1>2. /\ i \notin ToSet(children) /\ stayed' = stayed /\ left' = left /\ came' = came + 1
      /\ \E k \in 1..Len(children) + 1 : children' = InsertAt(children, k, i)
  BY DEF Enter
<1>3. PICK k \in 1..Len(children) + 1 : children' = InsertAt(children, k, i)
  BY <1>2
<1> DEFINE t == InsertAt(children, k, i)
<1>4. /\ t \in Seq(Items) /\ ToSet(t) = ToSet(children) \cup {i}
  BY <1>1, InsertedAnywhere
<1>5. IsInjective(t)
  BY <1>1, <1>2, InsertedAnywhere
<1>6. Len(SafeChildren(children)) \in Nat /\ Len(SafeChildren(children')) \in Nat
  BY <1>1, <1>3, <1>4, Listing
<1>7. i \notin stayed
  BY <1>1, <1>2
<1>8. ASSUME NEW p \in Nat, NEW G
      PROVE  /\ Missed(t, p, stayed, G) <= Missed(children, p, stayed, G)
             /\ Again(t, p, G) <= Again(children, p, G) + 1
             /\ Len(SafeChildren(children)) <= Len(SafeChildren(t))
  BY <1>1, <1>7, ItemIn
<1>9. ASSUME NEW p \in Nat, NEW G
      PROVE  /\ Missed(children', p, stayed', G) \in Nat /\ Missed(children, p, stayed, G) \in Nat
             /\ Again(children', p, G) \in Nat /\ Again(children, p, G) \in Nat
  BY <1>1, <1>3, <1>4, SidesAreItems
<1>10. children' = t
  BY <1>3
<1> HIDE DEF t
<1>11. ASSUME NEW p \in Nat, NEW G
      PROVE  /\ Missed(children', p, stayed', G) + left <= Missed(children, p, stayed, G) + left'
             /\ Again(children', p, G) + came <= Again(children, p, G) + came'
  BY <1>1, <1>2, <1>8, <1>9, <1>10
<1>12. Len(SafeChildren(children)) + left <= Len(SafeChildren(children')) + left'
  BY <1>1, <1>2, <1>6, <1>8, <1>10
<1>13. QED
  BY <1>1, <1>2, <1>4, <1>5, <1>10, <1>11, <1>12 DEF Counted

\* Rename: both.
LEMMA RenameCounted ==
  ASSUME PagesAssumption, IInv, NEW i \in Items, Rename(i)
  PROVE  Counted
<1> DEFINE m == Filtered(children, Items \ {i})
           st == stayed \ {i}
<1>1. /\ children \in Seq(Items) /\ IsInjective(children) /\ left \in Nat /\ came \in Nat
      /\ stayed \subseteq ToSet(children)
  BY DEF IInv, Kept, TypeOK
<1>2. /\ i \in ToSet(children) /\ stayed' = st /\ left' = left + 1 /\ came' = came + 1
      /\ \E k \in 1..Len(children) : children' = InsertAt(m, k, i)
  BY DEF Rename
<1>3. m \in Seq(Items) /\ IsInjective(m) /\ ToSet(m) = ToSet(children) \ {i}
  BY <1>1, TakenOut
<1>4. Len(children) = Len(m) + 1
  <2>1. Inserted(m, children, i, Items)
    BY <1>1, <1>2, RemovalUndone
  <2> HIDE DEF m
  <2>2. QED
    BY <2>1, InsertedPlaces
<1>5. ASSUME NEW p \in Nat, NEW G
      PROVE  /\ Missed(m, p, st, G) <= Missed(children, p, stayed, G) + 1
             /\ Again(m, p, G) <= Again(children, p, G)
             /\ Len(SafeChildren(children)) <= Len(SafeChildren(m)) + 1
  BY <1>1, <1>2, ItemOut
<1> HIDE DEF m
<1>6. PICK k \in 1..Len(m) + 1 : children' = InsertAt(m, k, i)
  BY <1>2, <1>4
<1> DEFINE t == InsertAt(m, k, i)
<1>7. t \in Seq(Items) /\ ToSet(t) = ToSet(m) \cup {i}
  BY <1>3, InsertedAnywhere
<1>8. IsInjective(t)
  BY <1>3, InsertedAnywhere
<1>9. ASSUME NEW p \in Nat, NEW G
      PROVE  /\ Missed(t, p, st, G) <= Missed(m, p, st, G)
             /\ Again(t, p, G) <= Again(m, p, G) + 1
             /\ Len(SafeChildren(m)) <= Len(SafeChildren(t))
  <2>1. i \notin st
    OBVIOUS
  <2> HIDE DEF st
  <2>2. QED
    BY <1>3, <2>1, ItemIn
<1>10. children' = t
  BY <1>6
<1> HIDE DEF t
<1>11. ASSUME NEW p \in Nat, NEW G
       PROVE  /\ Missed(t, p, st, G) \in Nat /\ Missed(m, p, st, G) \in Nat
              /\ Missed(children, p, stayed, G) \in Nat
              /\ Again(t, p, G) \in Nat /\ Again(m, p, G) \in Nat /\ Again(children, p, G) \in Nat
  BY <1>1, <1>3, <1>7, SidesAreItems
<1>12. /\ Len(SafeChildren(children)) \in Nat /\ Len(SafeChildren(m)) \in Nat
       /\ Len(SafeChildren(t)) \in Nat
  BY <1>1, <1>3, <1>7, Listing
<1>13. stayed' \subseteq stayed /\ stayed' \subseteq ToSet(children')
  BY <1>1, <1>2, <1>3, <1>7, <1>10
<1> HIDE DEF st
<1>14. ASSUME NEW p \in Nat, NEW G
       PROVE  /\ Missed(children', p, stayed', G) + left <= Missed(children, p, stayed, G) + left'
              /\ Again(children', p, G) + came <= Again(children, p, G) + came'
  <2>1. Missed(children', p, stayed', G) + left <= Missed(children, p, stayed, G) + left'
    <3>1. Missed(t, p, st, G) <= Missed(children, p, stayed, G) + 1
      <4>1. Missed(m, p, st, G) <= Missed(children, p, stayed, G) + 1
        BY <1>5
      <4>2. Missed(t, p, st, G) <= Missed(m, p, st, G)
        BY <1>9
      <4>3. QED
        BY <1>11, <4>1, <4>2
    <3>2. Missed(t, p, st, G) + left <= Missed(children, p, stayed, G) + (left + 1)
      BY <1>1, <1>11, <3>1
    <3>3. QED
      BY <1>2, <1>10, <3>2
  <2>2. Again(children', p, G) + came <= Again(children, p, G) + came'
    <3>1. Again(t, p, G) <= Again(children, p, G) + 1
      <4>1. Again(m, p, G) <= Again(children, p, G)
        BY <1>5
      <4>2. Again(t, p, G) <= Again(m, p, G) + 1
        BY <1>9
      <4>3. QED
        BY <1>11, <4>1, <4>2
    <3>2. Again(t, p, G) + came <= Again(children, p, G) + (came + 1)
      BY <1>1, <1>11, <3>1
    <3>3. QED
      BY <1>2, <1>10, <3>2
  <2>3. QED
    BY <2>1, <2>2
<1>15. Len(SafeChildren(children)) + left <= Len(SafeChildren(children')) + left'
  <2>1. Len(SafeChildren(children)) <= Len(SafeChildren(m)) + 1
    BY <1>5
  <2>2. Len(SafeChildren(m)) <= Len(SafeChildren(t))
    BY <1>9
  <2>3. QED
    BY <1>1, <1>2, <1>10, <1>12, <2>1, <2>2
<1>16. QED
  BY <1>1, <1>2, <1>7, <1>8, <1>10, <1>13, <1>14, <1>15 DEF Counted

---------------------------------------------------------------------------
(* The inductive invariant.                                                *)

\* What has been given.
LEMMA GivenIsSeq ==
  ASSUME Kept
  PROVE  /\ Given \in Seq(Items) /\ Start(cursor) \in Nat
         /\ pages = <<>> => Given = <<>>
<1>1. pages \in Seq(Seq(Items \ Unsafe))
  BY DEF Kept
<1>2. pages \in Seq(Seq(Items))
  BY <1>1
<1>3. Given \in Seq(Items)
  <2> DEFINE none == <<>>
  <2>1. none \in Seq(Items)
    OBVIOUS
  <2> HIDE DEF none
  <2>2. QED
    BY <1>2, <2>1, FlattenAppend DEF Given
<1>4. pages = <<>> => Given = <<>>
  BY DEF Given, FlattenSeq
<1>5. Start(cursor) \in Nat
  BY DEF Kept, TypeOK, Start
<1>6. QED
  BY <1>3, <1>4, <1>5

\* Repeats are a number.
LEMMA RepeatsType ==
  ASSUME PagesAssumption, NEW g \in Seq(Items)
  PROVE  Repeats(g) \in Int
<1>1. ToSet(g) \subseteq Items
  BY DEF ToSet
<1>2. Cardinality(ToSet(g)) \in Nat
  BY <1>1, FS_Subset, FS_CardinalityType DEF PagesAssumption
<1>3. QED
  BY <1>2 DEF Repeats

\* Where the page about to be given is cut.
LEMMA PageType ==
  ASSUME PagesAssumption, NEW g \in Seq(Items), NEW q \in Seq(Items \ Unsafe), NEW p \in Nat,
         p <= Len(q), NEW l \in Nat
  PROVE  LET e == Lower(p + l, Len(q)) IN
         /\ e \in Nat /\ p <= e /\ e <= Len(q)
         /\ SubSeq(q, p + 1, e) \in Seq(Items \ Unsafe)
         /\ g \o SubSeq(q, p + 1, e) \in Seq(Items)
<1> DEFINE n == Len(q)
           e == Lower(p + l, n)
           page == SubSeq(q, p + 1, e)
           U == Items \ Unsafe
<1>1. n \in Nat /\ p <= n /\ \A k \in 1..n : q[k] \in U
  OBVIOUS
<1> HIDE DEF n, U
<1>2. e \in Nat /\ p <= e /\ e <= n
  BY <1>1 DEF Lower
<1> HIDE DEF e
<1>3. \A k \in p + 1..e : q[k] \in U
  <2>1. \A k \in p + 1..e : k \in 1..n
    BY <1>1, <1>2
  <2>2. QED
    BY <1>1, <2>1
<1>4. page \in Seq(U)
  BY <1>2, <1>3
<1> HIDE DEF page
<1>5. page \in Seq(Items)
  BY <1>4 DEF U
<1>6. g \o page \in Seq(Items)
  BY <1>5, ConcatProperties
<1>7. QED
  BY <1>2, <1>4, <1>6 DEF page, e, n, U

\* ... and with a listing in hand.
LEMMA SoonType ==
  ASSUME PagesAssumption, IInv, pc = "listed", ~Outside(Start(cursor))
  PROVE  /\ End(Start(cursor)) \in Nat /\ Start(cursor) <= End(Start(cursor))
         /\ End(Start(cursor)) <= Len(items)
         /\ Page \in Seq(Items \ Unsafe) /\ GivenSoon \in Seq(Items)
<1>1. Given \in Seq(Items) /\ Start(cursor) \in Nat
  BY GivenIsSeq DEF IInv
<1>2. items \in Seq(Items \ Unsafe) /\ limit \in Nat
  BY DEF IInv, Kept, TypeOK, PagesAssumption
<1>3. Start(cursor) <= Len(items)
  BY <1>1, <1>2 DEF Outside
<1> DEFINE p == Start(cursor)
<1>4. p \in Nat /\ p <= Len(items)
  BY <1>1, <1>3
<1> HIDE DEF p
<1>5. LET e == Lower(p + limit, Len(items)) IN
        /\ e \in Nat /\ p <= e /\ e <= Len(items)
        /\ SubSeq(items, p + 1, e) \in Seq(Items \ Unsafe)
        /\ Given \o SubSeq(items, p + 1, e) \in Seq(Items)
  BY <1>1, <1>2, <1>4, PageType
<1>6. QED
  BY <1>5 DEF p, End, Page, GivenSoon

\* A change to the folder.
LEMMA ChangeKeeps ==
  ASSUME PagesAssumption, IInv, NEW i \in Items, Leave(i) \/ Enter(i) \/ Rename(i)
  PROVE  IInv'
<1>1. Counted
  BY LeaveCounted, EnterCounted, RenameCounted
<1>2. InTime /\ UNCHANGED <<cursor, limit, items, pc, pages>>
  BY DEF Leave, Enter, Rename, Changing, InTime
<1>3. Kept'
  <2>1. Kept
    BY DEF IInv
  <2>2. ToSet(children') \subseteq Items
    BY <1>1 DEF Counted, ToSet
  <2>3. TypeOK'
    BY <1>1, <1>2, <2>1, <2>2 DEF Kept, TypeOK, Counted
  <2>4. QED
    BY <1>1, <1>2, <2>1, <2>3 DEF Kept, Counted, InTime
<1>4. Given' = Given /\ Start(cursor)' = Start(cursor) /\ End(Start(cursor))' = End(Start(cursor))
      /\ Outside(Start(cursor))' = Outside(Start(cursor)) /\ GivenSoon' = GivenSoon
  BY <1>2 DEF Given, Start, End, Outside, GivenSoon, Page
<1>5. Listed' = SafeChildren(children') /\ Len(Listed) + left <= Len(Listed') + left'
  BY <1>1 DEF Listed, Counted, SafeChildren
<1>6. left \in Nat /\ came \in Nat /\ left' \in Nat /\ came' \in Nat /\ left <= left' /\ came <= came'
  BY <1>1 DEF Counted, IInv, Kept
<1>7. children \in Seq(Items) /\ children' \in Seq(Items)
  BY <1>1 DEF Counted, IInv, Kept
<1>8. Len(Listed) \in Nat /\ Len(Listed') \in Nat
  BY <1>5, <1>7, Listing DEF Listed
<1>9. ASSUME NEW g, Repeats(g) \in Int, NEW p \in Nat, Accounted(g, p)
      PROVE  Missed(children', p, stayed', ToSet(g)) <= left'
             /\ Repeats(g) + Again(children', p, ToSet(g)) <= came'
  <2> DEFINE G == ToSet(g)
  <2>1. /\ Missed(children', p, stayed', G) + left <= Missed(children, p, stayed, G) + left'
        /\ Again(children', p, G) + came <= Again(children, p, G) + came'
    BY <1>1 DEF Counted
  <2>2. Missed(children, p, stayed, G) <= left /\ Repeats(g) + Again(children, p, G) <= came
    BY <1>9 DEF Accounted
  <2>3. /\ Missed(children, p, stayed, G) \in Nat /\ Missed(children', p, stayed', G) \in Nat
        /\ Again(children, p, G) \in Nat /\ Again(children', p, G) \in Nat
    BY <1>7, SidesAreItems
  <2> HIDE DEF G
  <2>4. Missed(children', p, stayed', G) <= left'
    BY <1>6, <2>1, <2>2, <2>3
  <2>5. Repeats(g) + Again(children', p, G) <= came'
    BY <1>6, <1>9, <2>1, <2>2, <2>3
  <2>6. QED
    BY <2>4, <2>5 DEF G
<1>10. Between'
  <2> SUFFICES ASSUME pc \in {"idle", "listing"}
               PROVE  /\ Accounted(Given, Start(cursor))'
                      /\ cursor # None => Len(Listed') + left' > cursor
    BY <1>2 DEF Between
  <2>1. Accounted(Given, Start(cursor)) /\ (cursor # None => Len(Listed) + left > cursor)
    BY DEF IInv, Between
  <2>2. Given \in Seq(Items) /\ Start(cursor) \in Nat
    BY GivenIsSeq DEF IInv
  <2>3. Accounted(Given, Start(cursor))'
    <3>1. Repeats(Given) \in Int
      BY <2>2, RepeatsType
    <3>2. /\ Missed(children', Start(cursor), stayed', ToSet(Given)) <= left'
          /\ Repeats(Given) + Again(children', Start(cursor), ToSet(Given)) <= came'
      BY <1>9, <2>1, <2>2, <3>1
    <3>3. QED
      BY <1>4, <3>2 DEF Accounted
  <2>4. cursor # None => Len(Listed') + left' > cursor
    <3>1. cursor # None => cursor \in Nat
      BY DEF IInv, Kept, TypeOK
    <3>2. QED
      BY <1>5, <1>6, <1>8, <2>1, <3>1
  <2>5. QED
    BY <2>3, <2>4
<1>11. InHand'
  <2> SUFFICES ASSUME pc = "listed"
               PROVE  InHand'
    BY <1>2 DEF InHand
  <2>1. items' = items /\ cursor' = cursor /\ items \in Seq(Items \ Unsafe)
    BY <1>2 DEF IInv, Kept
  <2>2. Len(Listed') + left' >= Len(items)
    <3>1. Len(Listed) + left >= Len(items) /\ Len(items) \in Nat
      BY <2>1 DEF IInv, InHand
    <3>2. QED
      BY <1>5, <1>6, <1>8, <3>1
  <2>3. cursor # None => Len(items) + left' > cursor
    <3>1. cursor # None => cursor \in Nat /\ Len(items) + left > cursor
      BY DEF IInv, Kept, TypeOK, InHand
    <3>2. Len(items) \in Nat
      BY <2>1
    <3>3. QED
      BY <1>6, <3>1, <3>2
  <2>4. ASSUME ~Outside(Start(cursor))
        PROVE  /\ Accounted(GivenSoon, End(Start(cursor)))'
               /\ End(Start(cursor)) = Len(items) =>
                    Cardinality((stayed' \ Unsafe) \ ToSet(GivenSoon)) <= left'
    <3>1. End(Start(cursor)) \in Nat /\ GivenSoon \in Seq(Items)
      BY <2>4, SoonType
    <3>2. Repeats(GivenSoon) \in Int
      BY <3>1, RepeatsType
    <3>3. Accounted(GivenSoon, End(Start(cursor)))
      BY <2>4 DEF IInv, InHand
    <3>4. /\ Missed(children', End(Start(cursor)), stayed', ToSet(GivenSoon)) <= left'
          /\ Repeats(GivenSoon) + Again(children', End(Start(cursor)), ToSet(GivenSoon)) <= came'
      BY <1>9, <3>1, <3>2, <3>3
    <3>5. Accounted(GivenSoon, End(Start(cursor)))'
      BY <1>4, <3>4 DEF Accounted
    <3>6. ASSUME End(Start(cursor)) = Len(items)
          PROVE  Cardinality((stayed' \ Unsafe) \ ToSet(GivenSoon)) <= left'
      <4> DEFINE A == (stayed' \ Unsafe) \ ToSet(GivenSoon)
                 B == (stayed \ Unsafe) \ ToSet(GivenSoon)
      <4>1. Cardinality(B) <= left
        BY <2>4, <3>6 DEF IInv, InHand
      <4>2. A \subseteq B
        BY <1>1 DEF Counted
      <4>3. IsFiniteSet(B)
        <5>1. B \subseteq Items
          BY DEF IInv, Kept, TypeOK
        <5>2. QED
          BY <5>1, FS_Subset DEF PagesAssumption
      <4> HIDE DEF A, B
      <4>4. Cardinality(A) \in Nat /\ Cardinality(B) \in Nat /\ Cardinality(A) <= Cardinality(B)
        BY <4>2, <4>3, NoMore
      <4>5. Cardinality(A) <= left'
        BY <1>6, <4>1, <4>4
      <4>6. QED
        BY <4>5 DEF A
    <3>7. QED
      BY <3>5, <3>6
  <2>5. QED
    BY <1>4, <2>1, <2>2, <2>3, <2>4 DEF InHand
<1>12. SkippedAtMostLeft' /\ StaleMeansTwoLeft'
  BY <1>2 DEF InTime, SkippedAtMostLeft, StaleMeansTwoLeft
<1>13. RepeatedAtMostCame'
  <2>1. Repeats(Given) <= came
    BY DEF IInv, RepeatedAtMostCame, Repeats
  <2>2. Repeats(Given) \in Int
    BY GivenIsSeq, RepeatsType DEF IInv
  <2>3. Repeats(Given) <= came'
    BY <1>6, <2>1, <2>2
  <2>4. QED
    BY <1>4, <2>3 DEF RepeatedAtMostCame, Repeats
<1>14. QED
  BY <1>3, <1>10, <1>11, <1>12, <1>13 DEF IInv

\* A listing, for a first page or a later one.
LEMMA ListChildrenKeeps ==
  ASSUME PagesAssumption, IInv, ListChildren
  PROVE  IInv'
<1> DEFINE p == Start(cursor)
           e == Lower(p + limit, Len(Listed))
           page == SubSeq(Listed, p + 1, e)
           h == Given \o page
<1>1. /\ pc = "listing" /\ pc' = "listed" /\ items' = Listed
      /\ children' = children /\ cursor' = cursor /\ limit' = limit /\ pages' = pages
  BY DEF ListChildren, Listed
<1>2. /\ pages = <<>> => stayed' = ToSet(children) /\ left' = 0 /\ came' = 0
      /\ pages # <<>> => stayed' = stayed /\ left' = left /\ came' = came
  BY DEF ListChildren
<1>3. /\ children \in Seq(Items) /\ IsInjective(children) /\ left \in Nat /\ came \in Nat
      /\ stayed \subseteq ToSet(children) /\ limit \in Nat /\ Kept
  BY DEF IInv, Kept, TypeOK, PagesAssumption
<1>4. /\ left' \in Nat /\ came' \in Nat /\ stayed' \subseteq ToSet(children)
      /\ ToSet(children) \subseteq Items
  <2>1. CASE pages = <<>>
    BY <1>2, <1>3, <2>1 DEF Kept, TypeOK
  <2>2. CASE pages # <<>>
    BY <1>2, <1>3, <2>2 DEF Kept, TypeOK
  <2>3. QED
    BY <2>1, <2>2
<1>5. /\ Listed \in Seq(Items) /\ Listed \in Seq(Items \ Unsafe) /\ Len(Listed) \in Nat
      /\ ToSet(Listed) = ToSet(children) \ Unsafe
  BY <1>3, Listing DEF Listed
<1>6. IsInjective(Listed)
  <2> DEFINE U == Items \ Unsafe
  <2> HIDE DEF U
  <2>1. IsInjective(Filtered(children, U))
    BY <1>3, FilteredOnce
  <2>2. QED
    BY <2>1 DEF U, Listed, SafeChildren
<1>7. Given \in Seq(Items) /\ p \in Nat /\ (pages = <<>> => Given = <<>>)
  BY <1>3, GivenIsSeq
<1>8. InTime /\ (pages = <<>> <=> cursor = None)
  BY <1>1, <1>3 DEF InTime, Kept
<1>9. Kept'
  <2>1. items' # None => ToSet(items') \subseteq Items \ Unsafe
    BY <1>1, <1>4, <1>5
  <2>2. TypeOK'
    BY <1>1, <1>3, <2>1 DEF Kept, TypeOK
  <2>3. InTime' => (pages' = <<>> <=> cursor' = None)
    BY <1>1, <1>8
  <2>4. QED
    BY <1>1, <1>3, <1>4, <1>5, <1>6, <2>2, <2>3 DEF Kept
\* What has been given so far is accounted for, in the new counts.
<1>10. /\ Missed(children, p, stayed', ToSet(Given)) <= left'
       /\ Repeats(Given) + Again(children, p, ToSet(Given)) <= came'
  <2>1. CASE pages = <<>>
    <3>1. p = 0 /\ Given = <<>> /\ left' = 0 /\ came' = 0
      BY <1>2, <1>7, <1>8, <2>1 DEF Start
    <3>2. ToSet(Given) = {} /\ Len(Given) = 0
      BY <3>1 DEF ToSet
    <3>3. Upto(SafeChildren(children), p) = {}
      BY <1>5, <3>1 DEF Upto, Listed
    <3>4. Missed(children, p, stayed', ToSet(Given)) = 0
      BY <3>3, FS_EmptySet DEF Missed
    <3>5. Again(children, p, ToSet(Given)) = 0
      BY <3>2, FS_EmptySet DEF Again
    <3>6. Repeats(Given) = 0
      BY <3>2, FS_EmptySet DEF Repeats
    <3>7. QED
      BY <3>1, <3>4, <3>5, <3>6
  <2>2. CASE pages # <<>>
    <3>1. Accounted(Given, p)
      BY <1>1 DEF IInv, Between
    <3>2. QED
      BY <1>2, <2>2, <3>1 DEF Accounted
  <2>3. QED
    BY <2>1, <2>2
<1>11. /\ Given' = Given /\ Start(cursor)' = p /\ End(Start(cursor))' = e
       /\ Outside(Start(cursor))' = (p > Len(Listed)) /\ GivenSoon' = h
       /\ Listed' = Listed /\ Len(items') = Len(Listed)
  BY <1>1 DEF Given, Start, End, Outside, GivenSoon, Page, Listed
<1> HIDE DEF p
<1>12. ASSUME p <= Len(Listed)
       PROVE  /\ Accounted(GivenSoon, End(Start(cursor)))'
              /\ e = Len(Listed) => Cardinality((stayed' \ Unsafe) \ ToSet(h)) <= left'
  <2>1. e \in Nat /\ p <= e /\ e <= Len(Listed)
    BY <1>3, <1>5, <1>7, <1>12 DEF Lower
  <2> HIDE DEF e
  <2>2. /\ h \in Seq(Items)
        /\ Missed(children, e, stayed', ToSet(h)) <= Missed(children, p, stayed', ToSet(Given))
        /\ Repeats(h) + Again(children, e, ToSet(h)) = Repeats(Given) + Again(children, p, ToSet(Given))
    <3> DEFINE L == SafeChildren(children)
               st == stayed'
    <3> HIDE DEF L, st
    <3>1. e <= Len(SafeChildren(children))
      BY <2>1 DEF Listed
    <3>2. LET k == Given \o SubSeq(SafeChildren(children), p + 1, e) IN
            /\ k \in Seq(Items)
            /\ Missed(children, e, st, ToSet(k)) <= Missed(children, p, st, ToSet(Given))
            /\ Repeats(k) + Again(children, e, ToSet(k)) = Repeats(Given) + Again(children, p, ToSet(Given))
      BY <1>3, <1>7, <2>1, <3>1, PageAccounted
    <3>3. QED
      BY <3>2 DEF Listed, st
  <2>3. /\ Missed(children, e, stayed', ToSet(h)) \in Nat
        /\ Missed(children, p, stayed', ToSet(Given)) \in Nat
        /\ IsFiniteSet((Upto(Listed, e) \cap stayed') \ ToSet(h))
    BY <1>3, SidesAreItems DEF Listed
  <2> HIDE DEF h
  <2>4. Missed(children, e, stayed', ToSet(h)) <= left'
    BY <1>4, <1>10, <2>2, <2>3
  <2>5. Accounted(GivenSoon, End(Start(cursor)))'
    BY <1>1, <1>10, <1>11, <2>2, <2>4 DEF Accounted
  <2>6. ASSUME e = Len(Listed)
        PROVE  Cardinality((stayed' \ Unsafe) \ ToSet(h)) <= left'
    <3>1. Upto(Listed, e) = ToSet(Listed)
      BY <1>5, <2>6 DEF Upto, ToSet
    <3>2. stayed' \ Unsafe \subseteq Upto(Listed, e) \cap stayed'
      BY <1>4, <1>5, <3>1
    <3>3. (stayed' \ Unsafe) \ ToSet(h) \subseteq (Upto(Listed, e) \cap stayed') \ ToSet(h)
      BY <3>2
    <3>4. /\ Cardinality((stayed' \ Unsafe) \ ToSet(h)) \in Nat
          /\ Cardinality((stayed' \ Unsafe) \ ToSet(h)) <= Cardinality((Upto(Listed, e) \cap stayed') \ ToSet(h))
      BY <2>3, <3>3, NoMore
    <3>5. Cardinality((Upto(Listed, e) \cap stayed') \ ToSet(h)) = Missed(children, e, stayed', ToSet(h))
      BY DEF Missed, Listed
    <3>6. QED
      BY <1>4, <2>3, <2>4, <3>4, <3>5
  <2>7. QED
    BY <2>5, <2>6
<1>13. Between'
  BY <1>1 DEF Between
<1>14. cursor # None => Len(Listed) + left' > cursor
  <2> SUFFICES ASSUME cursor # None PROVE Len(Listed) + left' > cursor
    OBVIOUS
  <2>1. Len(Listed) + left > cursor
    BY <1>1 DEF IInv, Between
  <2>2. left' = left
    BY <1>2, <1>8
  <2>3. QED
    BY <2>1, <2>2
<1>15. Len(Listed) + left' >= Len(Listed)
  BY <1>4, <1>5
<1>16. InHand'
  <2> HIDE DEF e, h
  <2>1. ASSUME ~Outside(Start(cursor))'
        PROVE  /\ Accounted(GivenSoon, End(Start(cursor)))'
               /\ End(Start(cursor))' = Len(items') =>
                    Cardinality((stayed' \ Unsafe) \ ToSet(GivenSoon')) <= left'
    <3>1. p <= Len(Listed)
      <4>1. ~(p > Len(Listed))
        BY <1>11, <2>1, Zenon
      <4>2. QED
        BY <1>5, <1>7, <4>1
    <3>2. QED
      BY <1>11, <1>12, <3>1
  <2>2. Len(Listed') + left' >= Len(items') /\ (cursor' # None => Len(items') + left' > cursor')
    BY <1>1, <1>11, <1>14, <1>15
  <2>3. QED
    BY <2>1, <2>2 DEF InHand
<1>17. SkippedAtMostLeft' /\ StaleMeansTwoLeft'
  BY <1>1 DEF SkippedAtMostLeft, StaleMeansTwoLeft
<1>18. RepeatedAtMostCame'
  <2>1. Again(children, p, ToSet(Given)) \in Nat
    BY <1>3, SidesAreItems
  <2>2. Repeats(Given) \in Int
    BY <1>7, RepeatsType
  <2>3. Repeats(Given) <= came'
    BY <1>4, <1>10, <2>1, <2>2
  <2>4. QED
    BY <1>11, <2>3 DEF RepeatedAtMostCame, Repeats
<1>19. QED
  BY <1>9, <1>13, <1>16, <1>17, <1>18 DEF IInv

\* The page: what was counted in hand has now been given.
LEMMA GivePageKeeps ==
  ASSUME PagesAssumption, IInv, GivePage
  PROVE  IInv'
<1> DEFINE p == Start(cursor)
           e == End(p)
<1>1. /\ pc = "listed" /\ items' = None /\ children' = children /\ limit' = limit
      /\ stayed' = stayed /\ left' = left /\ came' = came
  BY DEF GivePage
<1>2. /\ children \in Seq(Items) /\ left \in Nat /\ came \in Nat
      /\ items \in Seq(Items \ Unsafe) /\ Kept /\ Listed' = Listed
  BY <1>1 DEF IInv, Kept, Listed
<1>3. Len(items) \in Nat /\ Len(Listed) \in Nat /\ p \in Nat /\ Given \in Seq(Items)
  BY <1>2, Listing, GivenIsSeq DEF Listed
<1>4. None \notin Nat
  BY DEF PagesAssumption
<1>5. Len(Listed) + left >= Len(items) /\ (cursor # None => Len(items) + left > cursor)
  BY <1>1 DEF IInv, InHand
<1>6. CASE Outside(p) /\ pc' = "stale" /\ UNCHANGED <<cursor, pages>>
  <2>1. Kept'
    BY <1>1, <1>2, <1>6 DEF Kept, TypeOK, InTime
  <2>2. Between' /\ InHand' /\ SkippedAtMostLeft'
    BY <1>6 DEF Between, InHand, SkippedAtMostLeft
  <2>3. RepeatedAtMostCame'
    BY <1>1, <1>6 DEF IInv, RepeatedAtMostCame, Given
  <2>4. StaleMeansTwoLeft'
    <3>1. p > Len(items)
      BY <1>6 DEF Outside
    <3>2. cursor # None /\ p = cursor
      BY <1>3, <3>1 DEF Start
    <3>3. Len(items) + left > p
      BY <1>5, <3>2
    <3> HIDE DEF p
    <3>4. left >= 2
      BY <1>2, <1>3, <3>1, <3>3
    <3>5. QED
      BY <1>1, <3>4 DEF StaleMeansTwoLeft
  <2>5. QED
    BY <2>1, <2>2, <2>3, <2>4 DEF IInv
<1>7. ASSUME ~Outside(p), pages' = Append(pages, SubSeq(items, p + 1, e)), cursor' = NextCursor(e),
             pc' = IF cursor' = None THEN "over" ELSE "idle"
      PROVE  IInv'
  <2>1. e \in Nat /\ e <= Len(items) /\ Page \in Seq(Items \ Unsafe) /\ GivenSoon \in Seq(Items)
    BY <1>1, <1>7, SoonType
  <2>2. pages \in Seq(Seq(Items \ Unsafe)) /\ pages \in Seq(Seq(Items)) /\ Page \in Seq(Items)
    <3>1. pages \in Seq(Seq(Items \ Unsafe))
      BY <1>2 DEF Kept
    <3>2. QED
      BY <2>1, <3>1
  <2>3. pages' = Append(pages, Page)
    BY <1>7 DEF Page
  <2>4. Given' = GivenSoon
    <3>1. FlattenSeq(Append(pages, Page)) = FlattenSeq(pages) \o Page
      BY <2>2, FlattenAppend
    <3>2. QED
      BY <2>3, <3>1 DEF Given, GivenSoon
  <2>5. pages' \in Seq(Seq(Items \ Unsafe)) /\ pages' # <<>>
    <3> DEFINE V == Seq(Items \ Unsafe)
    <3>1. pages \in Seq(V) /\ Page \in V
      BY <2>1, <2>2
    <3> HIDE DEF V
    <3>2. pages' \in Seq(V) /\ pages' # <<>>
      BY <2>3, <3>1, AppendProperties
    <3>3. QED
      BY <3>2 DEF V
  <2>6. /\ Accounted(GivenSoon, e)
        /\ e = Len(items) => Cardinality((stayed \ Unsafe) \ ToSet(GivenSoon)) <= left
    BY <1>1, <1>7 DEF IInv, InHand
  <2> HIDE DEF e, p
  <2>7. /\ e < Len(items) => cursor' = e /\ cursor' # None /\ pc' = "idle"
        /\ ~(e < Len(items)) => cursor' = None /\ pc' = "over"
    BY <1>4, <1>7, <2>1 DEF NextCursor
  <2>8. Kept'
    <3>1. cursor' \in Nat \cup {None} /\ pc' \in {"idle", "over"}
      BY <2>1, <2>7
    <3>2. \A n \in DOMAIN pages' : ToSet(pages'[n]) \subseteq Items \ Unsafe
      <4> SUFFICES ASSUME NEW n \in DOMAIN pages' PROVE ToSet(pages'[n]) \subseteq Items \ Unsafe
        OBVIOUS
      <4>1. pages'[n] \in Seq(Items \ Unsafe)
        BY <2>5
      <4>2. QED
        BY <4>1 DEF ToSet
    <3>3. TypeOK'
      BY <1>1, <1>2, <3>1, <3>2 DEF Kept, TypeOK
    <3>4. InTime' => (pages' = <<>> <=> cursor' = None)
      BY <2>5, <2>7 DEF InTime
    <3>5. QED
      BY <1>1, <1>2, <2>5, <2>7, <3>1, <3>3, <3>4 DEF Kept
  <2>9. Between'
    <3> SUFFICES ASSUME e < Len(items)
                 PROVE  Accounted(Given, Start(cursor))' /\ Len(Listed) + left > e
      BY <1>1, <1>2, <2>7 DEF Between
    <3>1. Start(cursor)' = e
      BY <2>7 DEF Start
    <3>2. Accounted(Given, Start(cursor))'
      BY <1>1, <2>4, <2>6, <3>1 DEF Accounted
    <3>3. Len(Listed) + left > e
      BY <1>2, <1>3, <1>5, <2>1
    <3>4. QED
      BY <3>2, <3>3
  <2>10. InHand'
    BY <2>7 DEF InHand
  <2>11. SkippedAtMostLeft'
    <3> SUFFICES ASSUME ~(e < Len(items))
                 PROVE  Cardinality((stayed \ Unsafe) \ ToSet(GivenSoon)) <= left
      BY <1>1, <2>4, <2>7 DEF SkippedAtMostLeft
    <3>1. e = Len(items)
      BY <1>3, <2>1
    <3>2. QED
      BY <2>6, <3>1
  <2>12. RepeatedAtMostCame'
    <3>1. Repeats(GivenSoon) + Again(children, e, ToSet(GivenSoon)) <= came
      BY <2>6 DEF Accounted
    <3>2. Again(children, e, ToSet(GivenSoon)) \in Nat
      BY <1>2, SidesAreItems
    <3>3. Repeats(GivenSoon) \in Int
      BY <2>1, RepeatsType
    <3>4. Repeats(GivenSoon) <= came
      BY <1>2, <3>1, <3>2, <3>3
    <3>5. QED
      BY <1>1, <2>4, <3>4 DEF RepeatedAtMostCame, Repeats
  <2>13. StaleMeansTwoLeft'
    BY <2>7 DEF StaleMeansTwoLeft
  <2>14. QED
    BY <2>8, <2>9, <2>10, <2>11, <2>12, <2>13 DEF IInv
<1>8. QED
  BY <1>6, <1>7 DEF GivePage

\* A call or a failure only moves the call.
LEMMA CallKeeps ==
  ASSUME PagesAssumption, IInv, (\E l \in Limits : Call(l)) \/ Fail \/ UNCHANGED vars
  PROVE  IInv'
<1>1. /\ limit' \in Limits
      /\ UNCHANGED <<children, cursor, items, pages, stayed, left, came>>
  BY DEF Call, Fail, vars, IInv, Kept, TypeOK
<1>2. \/ pc \in {"idle", "listing"} /\ pc' \in {"idle", "listing"}
      \/ pc' = pc /\ limit' = limit
  BY DEF Call, Fail, vars
<1>3. /\ Given' = Given /\ Listed' = Listed /\ Start(cursor)' = Start(cursor)
      /\ Len(items') = Len(items) /\ Outside(Start(cursor))' = Outside(Start(cursor))
  BY <1>1 DEF Given, Listed, Start, Outside
<1>4. Kept'
  <2>1. TypeOK'
    BY <1>1, <1>2 DEF IInv, Kept, TypeOK
  <2>2. QED
    BY <1>1, <1>2, <2>1 DEF IInv, Kept, InTime
<1>5. Between'
  BY <1>1, <1>2, <1>3 DEF IInv, Between, Accounted
<1>6. InHand'
  <2> SUFFICES ASSUME pc' = "listed" PROVE InHand'
    BY DEF InHand
  <2>1. pc = "listed" /\ limit' = limit
    BY <1>2
  <2>2. GivenSoon' = GivenSoon /\ End(Start(cursor))' = End(Start(cursor))
    BY <1>1, <2>1 DEF GivenSoon, Page, Given, Start, End
  <2>3. QED
    BY <1>1, <1>3, <2>1, <2>2 DEF IInv, InHand, Accounted
<1>7. SkippedAtMostLeft' /\ RepeatedAtMostCame' /\ StaleMeansTwoLeft'
  BY <1>1, <1>2, <1>3 DEF IInv, SkippedAtMostLeft, RepeatedAtMostCame, StaleMeansTwoLeft
<1>8. QED
  BY <1>4, <1>5, <1>6, <1>7 DEF IInv

\* Every step keeps the invariant.
LEMMA NextKeepsIInv == PagesAssumption /\ IInv /\ [Next]_vars => IInv'
<1> SUFFICES ASSUME PagesAssumption, IInv, [Next]_vars PROVE IInv'
  OBVIOUS
<1>1. CASE ListChildren
  BY <1>1, ListChildrenKeeps
<1>2. CASE GivePage
  BY <1>2, GivePageKeeps
<1>3. CASE \E i \in Items : Leave(i) \/ Enter(i) \/ Rename(i)
  BY <1>3, ChangeKeeps
<1>4. CASE (\E l \in Limits : Call(l)) \/ Fail \/ UNCHANGED vars
  BY <1>4, CallKeeps
<1>5. QED
  BY <1>1, <1>2, <1>3, <1>4 DEF Next

\* Before the first call nothing has been given, missed or repeated.
LEMMA InitIInv == PagesAssumption /\ Init => IInv
<1> SUFFICES ASSUME PagesAssumption, Init PROVE IInv
  OBVIOUS
<1>1. PICK S \in SUBSET Items : children \in SetToSeqs(S)
  BY DEF Init
<1> DEFINE n == Cardinality(S)
<1>2. n \in Nat
  BY FS_Subset, FS_CardinalityType DEF PagesAssumption
<1>3. children \in [1..n -> S] /\ \A a, b \in 1..n : a # b => children[a] # children[b]
  BY <1>1 DEF SetToSeqs
<1> HIDE DEF n
<1>4. children \in Seq(Items) /\ IsInjective(children) /\ ToSet(children) \subseteq Items
  BY <1>2, <1>3 DEF IsInjective, ToSet
<1>5. /\ cursor = None /\ limit \in Limits /\ items = None /\ pc = "idle" /\ pages = <<>>
      /\ stayed = ToSet(children) /\ left = 0 /\ came = 0
  BY DEF Init
<1>6. pages \in Seq(Seq(Items \ Unsafe)) /\ DOMAIN pages = {}
  BY <1>5
<1>7. TypeOK
  BY <1>4, <1>5, <1>6 DEF TypeOK
<1>8. Kept
  BY <1>4, <1>5, <1>6, <1>7 DEF Kept
<1>9. Given = <<>> /\ Start(cursor) = 0
  BY <1>5, <1>8, GivenIsSeq DEF Start
<1>10. ToSet(Given) = {} /\ Len(Given) = 0
  BY <1>9 DEF ToSet
<1>11. Repeats(Given) = 0
  BY <1>10, FS_EmptySet DEF Repeats
<1>12. Missed(children, 0, stayed, ToSet(Given)) = 0 /\ Again(children, 0, ToSet(Given)) = 0
  <2>1. Len(SafeChildren(children)) \in Nat
    BY <1>4, Listing
  <2>2. Upto(SafeChildren(children), 0) = {}
    BY <2>1 DEF Upto
  <2>3. QED
    BY <1>10, <2>2, FS_EmptySet DEF Missed, Again
<1>13. Between
  BY <1>5, <1>9, <1>11, <1>12 DEF Between, Accounted
<1>14. QED
  BY <1>5, <1>8, <1>11, <1>13
     DEF IInv, InHand, SkippedAtMostLeft, RepeatedAtMostCame, StaleMeansTwoLeft, Repeats

---------------------------------------------------------------------------
(* The theorems.                                                           *)

\* The invariant holds of every behaviour.
LEMMA IInvAlways == Spec => []IInv
<1>1. PagesAssumption
  BY PagesAssumption
<1>2. QED
  BY <1>1, InitIInv, NextKeepsIInv, PTL DEF Spec

\* list_folder gives items of the folder, and safe ones only.
THEOREM TypeCorrect == Spec => []TypeOK
<1>1. IInv => TypeOK
  BY DEF IInv, Kept
<1>2. QED
  BY <1>1, IInvAlways, PTL

\* documents.py:119-124: whatever the changes and the limits, a caller who gets
\* to the last page misses no more of what stayed than items left before it.
THEOREM SkippedBounded == Spec => []SkippedAtMostLeft
<1>1. IInv => SkippedAtMostLeft
  BY DEF IInv
<1>2. QED
  BY <1>1, IInvAlways, PTL

\* ... and is given no more items again than came.
THEOREM RepeatedBounded == Spec => []RepeatedAtMostCame
<1>1. IInv => RepeatedAtMostCame
  BY DEF IInv
<1>2. QED
  BY <1>1, IInvAlways, PTL

\* ... and is told InvalidCursor only when two items have left.
THEOREM StaleExplained == Spec => []StaleMeansTwoLeft
<1>1. IInv => StaleMeansTwoLeft
  BY DEF IInv
<1>2. QED
  BY <1>1, IInvAlways, PTL
==============================================================================
