------------------------------ MODULE ListFacts ------------------------------
(***************************************************************************)
(* Facts about lists for the proofs about the modules that list items:      *)
(* filtering, concatenation, cutting, flattening and counting.              *)
(*                                                                         *)
(* They rest on induction.  The library states it with the property as an   *)
(* operator parameter, which cannot be instantiated here; stated with the   *)
(* set of what has the property instead, it follows from the order of the   *)
(* naturals being well-founded.  A function defined by recursion is a CHOOSE *)
(* among those that satisfy its equation: that there is one is Recursion.   *)
(***************************************************************************)
EXTENDS HitLists, SequenceTheorems, FiniteSetTheorems, TLAPS

\* A set of naturals with 0 and the successor of each of its members has all.
LEMMA NatSetInduction ==
  ASSUME NEW S, 0 \in S, \A n \in Nat : n \in S => n + 1 \in S
  PROVE  Nat \subseteq S
<1> DEFINE R == {p \in Nat \X Nat : p[1] < p[2]}
           C == Nat \ S
<1>1. IsWellFoundedOn(R, Nat)
  BY NatLessThanWellFounded DEF OpToRel
<1> SUFFICES ASSUME C # {} PROVE FALSE
  OBVIOUS
<1>2. \E m \in C : \A n \in C : <<n, m>> \notin R
  <2>1. C \subseteq Nat
    OBVIOUS
  <2> HIDE DEF R, C
  <2>2. QED
    BY <1>1, <2>1, WFMin
<1>3. PICK m \in C : \A n \in C : ~(n < m)
  BY <1>2
<1>4. m \in Nat /\ m # 0 /\ m - 1 \in Nat /\ m - 1 < m
  BY <1>3
<1>5. m - 1 \in S
  BY <1>3, <1>4
<1>6. (m - 1) + 1 \in S
  BY <1>4, <1>5
<1>7. (m - 1) + 1 = m
  BY <1>4
<1>8. QED
  BY <1>3, <1>6, <1>7

\* N steps, each from the value of the one before, can be taken.
LEMMA Recursion ==
  ASSUME NEW V, NEW base \in V, NEW N \in Nat, NEW step \in [1..N -> [V -> V]]
  PROVE  \E f \in [0..N -> V] : f[0] = base /\ \A n \in 1..N : f[n] = step[n][f[n - 1]]
<1> DEFINE Good(n, f) == f[0] = base /\ \A k \in 1..n : f[k] = step[k][f[k - 1]]
           S == {n \in Nat : n <= N => \E f \in [0..n -> V] : Good(n, f)}
<1>1. 0 \in S
  <2>1. Good(0, [k \in 0..0 |-> base])
    OBVIOUS
  <2>2. [k \in 0..0 |-> base] \in [0..0 -> V]
    OBVIOUS
  <2>3. QED
    BY <2>1, <2>2
<1>2. ASSUME NEW n \in Nat, n \in S PROVE n + 1 \in S
  <2> SUFFICES ASSUME n + 1 <= N PROVE \E f \in [0..n + 1 -> V] : Good(n + 1, f)
    OBVIOUS
  <2>1. PICK f \in [0..n -> V] : Good(n, f)
    BY <1>2
  <2> DEFINE g == [k \in 0..n + 1 |-> IF k = n + 1 THEN step[n + 1][f[n]] ELSE f[k]]
  <2>2. f[n] \in V /\ step[n + 1] \in [V -> V] /\ step[n + 1][f[n]] \in V
    BY <1>2
  <2>3. g \in [0..n + 1 -> V]
    BY <2>2, <1>2
  <2>4. Good(n + 1, g)
    <3>1. g[0] = base
      BY <2>1, <1>2
    <3>2. ASSUME NEW k \in 1..n + 1 PROVE g[k] = step[k][g[k - 1]]
      <4>1. k - 1 \in 0..n /\ g[k - 1] = f[k - 1]
        BY <1>2
      <4>2. CASE k = n + 1
        BY <4>1, <4>2, <1>2
      <4>3. CASE k # n + 1
        <5>1. k \in 1..n /\ g[k] = f[k]
          BY <4>3, <1>2
        <5>2. QED
          BY <2>1, <4>1, <5>1
      <4>4. QED
        BY <4>2, <4>3
    <3>3. QED
      BY <3>1, <3>2
  <2>5. QED
    BY <2>3, <2>4
<1>3. N \in S
  <2> HIDE DEF S
  <2>1. QED
    BY <1>1, <1>2, NatSetInduction
<1>4. QED
  BY <1>3

\* N steps from a base.
Taken(V, base, N, step) ==
  {f \in [0..N -> V] : f[0] = base /\ \A n \in 1..N : f[n] = step[n][f[n - 1]]}
CanStep(V, base, N, step) == base \in V /\ N \in Nat /\ step \in [1..N -> [V -> V]]

\* Steps that can be taken are taken (Recursion, in the form it is cited in).
LEMMA Steps == \A V, base, N, step : CanStep(V, base, N, step) => Taken(V, base, N, step) # {}
<1> TAKE V, base, N, step
<1> SUFFICES ASSUME CanStep(V, base, N, step) PROVE Taken(V, base, N, step) # {}
  OBVIOUS
<1>1. \E f \in [0..N -> V] : f[0] = base /\ \A n \in 1..N : f[n] = step[n][f[n - 1]]
  BY Recursion DEF CanStep
<1>2. QED
  BY <1>1 DEF Taken

\* The functions that filter s, place after place.
Keepings(s, S, T) ==
  {f \in [0..Len(s) -> Seq(T)] :
     /\ f[0] = <<>>
     /\ \A n \in 1..Len(s) : f[n] = IF s[n] \in S THEN Append(f[n - 1], s[n]) ELSE f[n - 1]}

\* Filtered is one of them.
LEMMA FilteredSteps ==
  ASSUME NEW T, NEW s \in Seq(T), NEW S
  PROVE  \E f \in Keepings(s, S, T) : Filtered(s, S) = f[Len(s)]
<1> DEFINE N == Len(s)
           Step(n, q) == IF s[n] \in S THEN Append(q, s[n]) ELSE q
           step == [n \in 1..N |-> [q \in Seq(T) |-> Step(n, q)]]
           Body(f) == [n \in 0..N |-> IF n = 0 THEN <<>>
                         ELSE IF s[n] \in S THEN Append(f[n - 1], s[n]) ELSE f[n - 1]]
           kept == CHOOSE h : h = Body(h)
<1>1. N \in Nat /\ <<>> \in Seq(T)
  OBVIOUS
<1>2. \A n \in 1..N : \A q \in Seq(T) : Step(n, q) \in Seq(T)
  OBVIOUS
<1>3. step \in [1..N -> [Seq(T) -> Seq(T)]]
  <2> HIDE DEF Step
  <2>1. QED
    BY <1>2
<1>4. PICK f \in [0..N -> Seq(T)] : f[0] = <<>> /\ \A n \in 1..N : f[n] = step[n][f[n - 1]]
  <2> DEFINE V == Seq(T)
             none == <<>>
  <2>1. N \in Nat /\ none \in V /\ step \in [1..N -> [V -> V]]
    BY <1>1, <1>3
  <2> HIDE DEF N, step, V, none
  <2>2. \E f \in [0..N -> V] : f[0] = none /\ \A n \in 1..N : f[n] = step[n][f[n - 1]]
    BY <2>1, Recursion
  <2>3. QED
    BY <2>2 DEF V, none
<1>5. \A n \in 1..N : f[n - 1] \in Seq(T) /\ f[n] = Step(n, f[n - 1])
  <2> TAKE n \in 1..N
  <2>1. f[n - 1] \in Seq(T)
    BY <1>1, <1>4
  <2> HIDE DEF Step
  <2>2. QED
    BY <1>4, <2>1
<1>6. f = Body(f)
  <2> HIDE DEF N
  <2>1. ASSUME NEW n \in 0..N PROVE f[n] = Body(f)[n]
    <3>1. CASE n = 0
      BY <1>4, <3>1
    <3>2. CASE n # 0
      <4>1. n \in 1..N
        BY <1>1, <3>2
      <4>2. f[n] = Step(n, f[n - 1])
        BY <1>5, <4>1
      <4>3. QED
        BY <4>2, <3>2
    <3>3. QED
      BY <3>1, <3>2
  <2>2. QED
    BY <2>1, <1>4
<1>7. kept = Body(kept)
  <2> HIDE DEF Body
  <2>1. QED
    BY <1>6, Zenon
<1>8. Filtered(s, S) = kept[N]
  BY DEF Filtered
<1>9. kept[0] = <<>> /\ \A n \in 1..N : kept[n] = Step(n, kept[n - 1])
  <2> HIDE DEF kept, N
  <2>1. kept[0] = <<>>
    BY <1>7, <1>1
  <2>2. ASSUME NEW n \in 1..N PROVE kept[n] = Step(n, kept[n - 1])
    <3>1. n \in 0..N /\ n # 0
       BY <1>1
    <3>2. QED
      BY <1>7, <3>1
  <2>3. QED
    BY <2>1, <2>2
<1>10. \A n \in 0..N : kept[n] = f[n]
  <2> DEFINE Same == {n \in Nat : n <= N => kept[n] = f[n]}
  <2> HIDE DEF kept, N, Step
  <2>1. 0 \in Same
    BY <1>4, <1>9
  <2>2. ASSUME NEW n \in Nat, n \in Same PROVE n + 1 \in Same
    <3> SUFFICES ASSUME n + 1 <= N PROVE kept[n + 1] = f[n + 1]
      OBVIOUS
    <3>1. n + 1 \in 1..N /\ (n + 1) - 1 = n /\ n <= N
      BY <1>1
    <3>2. kept[n] = f[n]
      BY <2>2, <3>1
    <3>3. QED
      BY <1>5, <1>9, <3>1, <3>2
  <2> HIDE DEF Same
  <2>3. Nat \subseteq Same
    BY <2>1, <2>2, NatSetInduction
  <2>4. QED
    BY <2>3, <1>1 DEF Same
<1>11. QED
  <2> HIDE DEF kept
  <2>1. Filtered(s, S) = f[N]
    BY <1>1, <1>8, <1>10
  <2>2. f \in Keepings(s, S, T)
    BY <1>1, <1>4, <1>5 DEF Keepings
  <2>3. QED
    BY <2>1, <2>2

\* A set of sequences with the empty one and, with a sequence, each that is one
\* element longer has all.
LEMMA SeqSetInduction ==
  ASSUME NEW T, NEW G, <<>> \in G,
         \A s \in Seq(T), x \in T : s \in G => Append(s, x) \in G
  PROVE  Seq(T) \subseteq G
<1> DEFINE S == {n \in Nat : \A s \in Seq(T) : Len(s) = n => s \in G}
<1>1. 0 \in S
  OBVIOUS
<1>2. ASSUME NEW n \in Nat, n \in S PROVE n + 1 \in S
  <2> SUFFICES ASSUME NEW s \in Seq(T), Len(s) = n + 1 PROVE s \in G
    OBVIOUS
  <2> DEFINE front == SubSeq(s, 1, n)
  <2>1. front \in Seq(T) /\ Len(front) = n /\ \A k \in 1..n : front[k] = s[k]
    OBVIOUS
  <2>2. s[n + 1] \in T
    OBVIOUS
  <2> HIDE DEF front
  <2>3. s = Append(front, s[n + 1])
    <3>1. \A k \in 1..n + 1 : Append(front, s[n + 1])[k] = s[k]
      BY <2>1, <2>2
    <3>2. Append(front, s[n + 1]) \in Seq(T) /\ Len(Append(front, s[n + 1])) = n + 1
      BY <2>1, <2>2
    <3>3. QED
      BY <3>1, <3>2, SeqEqual
  <2>4. front \in G
    BY <1>2, <2>1
  <2>5. QED
    BY <2>1, <2>2, <2>3, <2>4
<1>3. Nat \subseteq S
  <2> HIDE DEF S
  <2>1. QED
    BY <1>1, <1>2, NatSetInduction
<1>4. QED
  BY <1>3

---------------------------------------------------------------------------
(* Folding: a list taken in element after element, by a function g.        *)

Foldings(V, base, g, s) ==
  {f \in [0..Len(s) -> V] : f[0] = base /\ \A n \in 1..Len(s) : f[n] = g[f[n - 1]][s[n]]}

\* Any list can be folded.
CanFold(V, T, base, g, s) == base \in V /\ g \in [V -> [T -> V]] /\ s \in Seq(T)

LEMMA Folded == \A V, T, base, g, s : CanFold(V, T, base, g, s) => Foldings(V, base, g, s) # {}
<1> TAKE V, T, base, g, s
<1> SUFFICES ASSUME base \in V, g \in [V -> [T -> V]], s \in Seq(T)
             PROVE  Foldings(V, base, g, s) # {}
  BY DEF CanFold
<1> DEFINE N == Len(s)
           step == [n \in 1..N |-> [v \in V |-> g[v][s[n]]]]
<1>1. N \in Nat /\ \A n \in 1..N : s[n] \in T
  OBVIOUS
<1>2. step \in [1..N -> [V -> V]]
  BY <1>1
<1>3. PICK f \in [0..N -> V] : f[0] = base /\ \A n \in 1..N : f[n] = step[n][f[n - 1]]
  <2> HIDE DEF N, step
  <2>1. CanStep(V, base, N, step)
    BY <1>1, <1>2 DEF CanStep
  <2>2. Taken(V, base, N, step) # {}
    BY <2>1, Steps
  <2>3. QED
    BY <2>2 DEF Taken
<1>4. ASSUME NEW n \in 1..N PROVE f[n] = g[f[n - 1]][s[n]]
  <2> HIDE DEF N
  <2>1. n - 1 \in 0..N
    BY <1>1
  <2>2. f[n - 1] \in V
    BY <1>3, <2>1
  <2>3. QED
    BY <1>3, <2>2
<1>5. QED
  BY <1>3, <1>4 DEF Foldings

\* A function that takes the list in the same way is a folding of it.
TakesIn(h, V, base, g, s) ==
  h[0] = base /\ \A n \in 1..Len(s) : h[n - 1] \in V => h[n] = g[h[n - 1]][s[n]]
EndsWith(V, base, g, s, v) == \E f \in Foldings(V, base, g, s) : v = f[Len(s)]

LEMMA FoldingIs ==
  \A V, T, base, g, s, h :
    CanFold(V, T, base, g, s) /\ TakesIn(h, V, base, g, s) => EndsWith(V, base, g, s, h[Len(s)])
<1> TAKE V, T, base, g, s, h
<1> SUFFICES ASSUME CanFold(V, T, base, g, s), TakesIn(h, V, base, g, s)
             PROVE  EndsWith(V, base, g, s, h[Len(s)])
  OBVIOUS
<1> DEFINE N == Len(s)
<1>1. N \in Nat
  BY DEF CanFold
<1>2. PICK f \in Foldings(V, base, g, s) : TRUE
  BY Folded
<1>3. f \in [0..N -> V] /\ f[0] = base /\ \A n \in 1..N : f[n] = g[f[n - 1]][s[n]]
  BY DEF Foldings
<1>4. h[0] = base /\ \A n \in 1..N : h[n - 1] \in V => h[n] = g[h[n - 1]][s[n]]
  BY DEF TakesIn
<1> DEFINE Same == {n \in Nat : n <= N => h[n] = f[n]}
<1> HIDE DEF N
<1>5. 0 \in Same
  BY <1>3, <1>4
<1>6. ASSUME NEW n \in Nat, n \in Same PROVE n + 1 \in Same
  <2> SUFFICES ASSUME n + 1 <= N PROVE h[n + 1] = f[n + 1]
    OBVIOUS
  <2>1. n + 1 \in 1..N /\ (n + 1) - 1 = n /\ n <= N /\ n \in 0..N
    BY <1>1
  <2>2. h[n] = f[n]
    BY <1>6, <2>1
  <2>3. f[n] \in V
    BY <1>3, <2>1
  <2>4. h[n + 1] = g[h[n]][s[n + 1]]
    BY <1>4, <2>1, <2>2, <2>3
  <2>5. f[n + 1] = g[f[n]][s[n + 1]]
    BY <1>3, <2>1
  <2>6. QED
    BY <2>2, <2>4, <2>5
<1>7. Nat \subseteq Same
  <2> HIDE DEF Same
  <2>1. QED
    BY <1>5, <1>6, NatSetInduction
<1>8. h[N] = f[N]
  BY <1>1, <1>7
<1>9. QED
  BY <1>8 DEF N, EndsWith

\* An element more is taken in last.
LEMMA FoldedAppend ==
  \A V, T, base, g, s, x, v, w :
    CanFold(V, T, base, g, s) /\ x \in T /\ EndsWith(V, base, g, s, v)
      /\ EndsWith(V, base, g, Append(s, x), w)
    => v \in V /\ w = g[v][x]
<1> TAKE V, T, base, g, s, x, v, w
<1> DEFINE N == Len(s)
           t == Append(s, x)
<1> SUFFICES ASSUME s \in Seq(T), x \in T, EndsWith(V, base, g, s, v), EndsWith(V, base, g, t, w)
             PROVE  v \in V /\ w = g[v][x]
  BY DEF CanFold
<1>1. N \in Nat /\ Len(t) = N + 1 /\ t[N + 1] = x /\ \A n \in 1..N : t[n] = s[n]
  OBVIOUS
<1>2. PICK f \in Foldings(V, base, g, s) : v = f[N]
  BY DEF EndsWith
<1>3. f \in [0..N -> V] /\ f[0] = base /\ \A n \in 1..N : f[n] = g[f[n - 1]][s[n]]
  BY DEF Foldings
<1> HIDE DEF t
<1>4. PICK h \in Foldings(V, base, g, t) : w = h[Len(t)]
  BY DEF EndsWith
<1>5. h[0] = base /\ \A n \in 1..Len(t) : h[n] = g[h[n - 1]][t[n]]
  BY DEF Foldings
<1> DEFINE Same == {n \in Nat : n <= N => h[n] = f[n]}
<1> HIDE DEF N
<1>6. 0 \in Same
  BY <1>3, <1>5
<1>7. ASSUME NEW n \in Nat, n \in Same PROVE n + 1 \in Same
  <2> SUFFICES ASSUME n + 1 <= N PROVE h[n + 1] = f[n + 1]
    OBVIOUS
  <2>1. n + 1 \in 1..N /\ n + 1 \in 1..Len(t) /\ (n + 1) - 1 = n /\ n <= N
    BY <1>1
  <2>2. h[n] = f[n] /\ t[n + 1] = s[n + 1]
    BY <1>1, <1>7, <2>1
  <2>3. h[n + 1] = g[h[n]][t[n + 1]]
    BY <1>5, <2>1
  <2>4. f[n + 1] = g[f[n]][s[n + 1]]
    BY <1>3, <2>1
  <2>5. QED
    BY <2>2, <2>3, <2>4
<1>8. Nat \subseteq Same
  <2> HIDE DEF Same
  <2>1. QED
    BY <1>6, <1>7, NatSetInduction
<1>9. h[N] = f[N] /\ f[N] \in V
  BY <1>1, <1>3, <1>8
<1>10. N + 1 \in 1..Len(t) /\ (N + 1) - 1 = N
  BY <1>1
<1>11. h[Len(t)] = g[h[N]][x]
  BY <1>1, <1>5, <1>10
<1>12. QED
  BY <1>2, <1>4, <1>9, <1>11

---------------------------------------------------------------------------
(* Filtered.                                                               *)

\* Nothing is kept of nothing.
LEMMA FilteredEmpty == \A S : Filtered(<<>>, S) = <<>>
<1> TAKE S
<1> DEFINE none == <<>>
<1>1. none \in Seq({}) /\ Len(none) = 0
  OBVIOUS
<1>2. PICK f \in Keepings(none, S, {}) : Filtered(none, S) = f[Len(none)]
  <2> HIDE DEF none
  <2>1. QED
    BY <1>1, FilteredSteps
<1>3. f[0] = <<>>
  BY DEF Keepings
<1>4. QED
  BY <1>1, <1>2, <1>3

\* The element at the end is kept or dropped.
LEMMA FilteredAppend ==
  ASSUME NEW T, NEW s \in Seq(T), NEW x \in T, NEW S
  PROVE  /\ Filtered(s, S) \in Seq(T)
         /\ x \in S => Filtered(Append(s, x), S) = Append(Filtered(s, S), x)
         /\ x \notin S => Filtered(Append(s, x), S) = Filtered(s, S)
<1> DEFINE N == Len(s)
           t == Append(s, x)
<1>1. /\ N \in Nat /\ t \in Seq(T) /\ Len(t) = N + 1 /\ t[N + 1] = x
      /\ \A n \in 1..N : t[n] = s[n]
  OBVIOUS
<1> HIDE DEF t
<1>2. PICK f \in Keepings(s, S, T) : Filtered(s, S) = f[N]
  BY FilteredSteps
<1>3. /\ f \in [0..N -> Seq(T)] /\ f[0] = <<>>
      /\ \A n \in 1..N : f[n] = IF s[n] \in S THEN Append(f[n - 1], s[n]) ELSE f[n - 1]
  BY <1>2 DEF Keepings
<1>4. PICK g \in Keepings(t, S, T) : Filtered(t, S) = g[N + 1]
  BY <1>1, FilteredSteps
<1>5. /\ g \in [0..N + 1 -> Seq(T)] /\ g[0] = <<>>
      /\ \A n \in 1..N + 1 : g[n] = IF t[n] \in S THEN Append(g[n - 1], t[n]) ELSE g[n - 1]
  BY <1>1, <1>4 DEF Keepings
<1> HIDE DEF N
<1>6. \A n \in 0..N : g[n] = f[n]
  <2> DEFINE Same == {n \in Nat : n <= N => g[n] = f[n]}
  <2>1. 0 \in Same
    BY <1>3, <1>5
  <2>2. ASSUME NEW n \in Nat, n \in Same PROVE n + 1 \in Same
    <3> SUFFICES ASSUME n + 1 <= N PROVE g[n + 1] = f[n + 1]
      OBVIOUS
    <3>1. n + 1 \in 1..N /\ n + 1 \in 1..N + 1 /\ (n + 1) - 1 = n /\ n <= N
      BY <1>1
    <3>2. g[n] = f[n] /\ t[n + 1] = s[n + 1]
      BY <1>1, <2>2, <3>1
    <3>3. f[n + 1] = IF s[n + 1] \in S THEN Append(f[n], s[n + 1]) ELSE f[n]
      BY <1>3, <3>1
    <3>4. g[n + 1] = IF t[n + 1] \in S THEN Append(g[n], t[n + 1]) ELSE g[n]
      BY <1>5, <3>1
    <3>5. QED
      BY <3>2, <3>3, <3>4
  <2> HIDE DEF Same
  <2>3. Nat \subseteq Same
    BY <2>1, <2>2, NatSetInduction
  <2>4. QED
    BY <2>3, <1>1 DEF Same
<1>7. N + 1 \in 1..N + 1 /\ (N + 1) - 1 = N /\ N \in 0..N
  BY <1>1
<1>8. g[N + 1] = IF x \in S THEN Append(g[N], x) ELSE g[N]
  BY <1>1, <1>5, <1>7
<1>9. QED
  BY <1>2, <1>4, <1>3, <1>6, <1>7, <1>8 DEF t

\* The first case by itself, for citing.
LEMMA FilteredKeeps ==
  ASSUME NEW T, NEW s \in Seq(T), NEW x \in T, NEW S, x \in S
  PROVE  Filtered(Append(s, x), S) = Append(Filtered(s, S), x)
  BY FilteredAppend

\* ... and the second.
LEMMA FilteredDrops ==
  ASSUME NEW T, NEW s \in Seq(T), NEW x \in T, NEW S, x \notin S
  PROVE  Filtered(Append(s, x), S) = Filtered(s, S)
  BY FilteredAppend

\* ToSet over an append.
LEMMA ToSetAppend ==
  ASSUME NEW T, NEW s \in Seq(T), NEW x \in T
  PROVE  ToSet(Append(s, x)) = ToSet(s) \cup {x} /\ ToSet(s) \subseteq T
<1>1. DOMAIN s = 1..Len(s) /\ Len(s) \in Nat /\ DOMAIN Append(s, x) = 1..Len(s) + 1
  OBVIOUS
<1>2. Append(s, x)[Len(s) + 1] = x /\ \A k \in 1..Len(s) : Append(s, x)[k] = s[k] /\ s[k] \in T
  OBVIOUS
<1>3. QED
  BY <1>1, <1>2 DEF ToSet

\* Nothing but the members of S is kept, and all of them.
LEMMA FilteredSet ==
  ASSUME NEW T, NEW s \in Seq(T), NEW S
  PROVE  /\ Filtered(s, S) \in Seq(T) /\ Len(Filtered(s, S)) <= Len(s)
         /\ ToSet(Filtered(s, S)) = ToSet(s) \cap S
<1> DEFINE G == {q \in Seq(T) : /\ Filtered(q, S) \in Seq(T) /\ Len(Filtered(q, S)) <= Len(q)
                                /\ ToSet(Filtered(q, S)) = ToSet(q) \cap S}
<1>1. <<>> \in G
  <2>1. <<>> \in Seq(T) /\ ToSet(<<>>) = {}
    BY DEF ToSet
  <2> DEFINE none == <<>>
  <2>2. none \in Seq(T) /\ Filtered(none, S) = none /\ ToSet(none) = {} /\ Len(none) <= Len(none)
    BY <2>1, FilteredEmpty
  <2> HIDE DEF none
  <2>3. none \in G
    BY <2>2
  <2>4. QED
    BY <2>3 DEF none
<1>2. ASSUME NEW q \in Seq(T), NEW x \in T, q \in G PROVE Append(q, x) \in G
  <2>1. /\ Filtered(q, S) \in Seq(T) /\ Append(q, x) \in Seq(T) /\ Len(Append(q, x)) = Len(q) + 1
        /\ ToSet(Append(q, x)) = ToSet(q) \cup {x} /\ Len(Filtered(q, S)) <= Len(q)
        /\ ToSet(Filtered(q, S)) = ToSet(q) \cap S
    BY <1>2, ToSetAppend
  <2>2. CASE x \in S
    <3>1. Filtered(Append(q, x), S) = Append(Filtered(q, S), x)
      BY <2>2, FilteredKeeps
    <3>2. ToSet(Append(Filtered(q, S), x)) = ToSet(Filtered(q, S)) \cup {x}
      BY <2>1, ToSetAppend
    <3>3. Append(Filtered(q, S), x) \in Seq(T) /\ Len(Append(Filtered(q, S), x)) <= Len(q) + 1
      BY <2>1
    <3>4. QED
      BY <2>1, <2>2, <3>1, <3>2, <3>3
  <2>3. CASE x \notin S
    <3>1. Filtered(Append(q, x), S) = Filtered(q, S)
      BY <2>3, FilteredKeeps, FilteredDrops
    <3>2. Len(Filtered(q, S)) <= Len(q) + 1
      BY <2>1
    <3>3. QED
      BY <2>1, <2>3, <3>1, <3>2
  <2>4. QED
    BY <2>2, <2>3
<1>3. Seq(T) \subseteq G
  <2> HIDE DEF G
  <2>1. QED
    BY <1>1, <1>2, SeqSetInduction
<1>4. QED
  BY <1>3

\* Elements that are kept once each are kept injectively.
LEMMA FilteredInjective ==
  ASSUME NEW T, NEW s \in Seq(T), NEW S,
         \A a, b \in 1..Len(s) : s[a] = s[b] /\ s[a] \in S => a = b
  PROVE  IsInjective(Filtered(s, S))
<1> DEFINE Once(q) == \A a, b \in 1..Len(q) : q[a] = q[b] /\ q[a] \in S => a = b
           G == {q \in Seq(T) : Once(q) => IsInjective(Filtered(q, S))}
<1>1. <<>> \in G
  <2> DEFINE none == <<>>
  <2>1. none \in Seq(T) /\ IsInjective(none)
    BY DEF IsInjective
  <2>2. Filtered(none, S) = none
    BY FilteredEmpty
  <2> HIDE DEF none, Once
  <2>3. none \in G
    BY <2>1, <2>2
  <2>4. QED
    BY <2>3 DEF none
<1>2. ASSUME NEW q \in Seq(T), NEW x \in T, q \in G PROVE Append(q, x) \in G
  <2> DEFINE n == Len(q)
             t == Append(q, x)
             f == Filtered(q, S)
  <2>1. n \in Nat /\ t \in Seq(T) /\ Len(t) = n + 1 /\ t[n + 1] = x /\ \A k \in 1..n : t[k] = q[k]
    OBVIOUS
  <2> SUFFICES ASSUME Once(t) PROVE IsInjective(Filtered(t, S))
    BY <2>1
  <2>2. Once(q)
    <3> HIDE DEF t
    <3>1. QED
      BY <2>1
  <2>3. IsInjective(f)
    BY <1>2, <2>2
  <2>4. CASE x \in S
    <3>1. x \notin ToSet(q)
      <4> SUFFICES ASSUME NEW k \in 1..n, q[k] = x PROVE FALSE
        BY <2>1 DEF ToSet
      <4> HIDE DEF t
      <4>1. t[k] = t[n + 1] /\ t[k] \in S /\ k \in 1..n + 1 /\ n + 1 \in 1..n + 1 /\ k # n + 1
        BY <2>1, <2>4
      <4>2. QED
        BY <2>1, <4>1
    <3>2. f \in Seq(T) /\ x \notin ToSet(f)
      BY <3>1, FilteredSet
    <3>3. Filtered(t, S) = Append(f, x)
      BY <2>4, FilteredKeeps, FilteredDrops
    <3> HIDE DEF f
    <3>4. IsInjective(Append(f, x))
      <4> DEFINE m == Len(f)
                 g == Append(f, x)
      <4>1. /\ m \in Nat /\ DOMAIN f = 1..m /\ DOMAIN g = 1..m + 1 /\ g[m + 1] = x
            /\ \A k \in 1..m : g[k] = f[k] /\ f[k] # x
        BY <3>2 DEF ToSet
      <4> HIDE DEF m, g
      <4>2. IsInjective(g)
        BY <2>3, <4>1 DEF IsInjective
      <4>3. QED
        BY <4>2 DEF g
    <3>5. QED
      BY <3>3, <3>4
  <2>5. CASE x \notin S
    <3>1. Filtered(t, S) = f
      BY <2>5, FilteredKeeps, FilteredDrops
    <3>2. QED
      BY <2>3, <3>1
  <2>6. QED
    BY <2>4, <2>5
<1>3. Seq(T) \subseteq G
  <2> HIDE DEF G
  <2>1. QED
    BY <1>1, <1>2, SeqSetInduction
<1>4. QED
  BY <1>3

\* A list without repetition stays one.
LEMMA FilteredOnce ==
  ASSUME NEW T, NEW s \in Seq(T), IsInjective(s), NEW S
  PROVE  IsInjective(Filtered(s, S))
<1>1. \A a, b \in 1..Len(s) : s[a] = s[b] /\ s[a] \in S => a = b
  BY DEF IsInjective
<1>2. QED
  BY <1>1, FilteredInjective

\* One list after another.
LEMMA Joined ==
  ASSUME NEW T, NEW s \in Seq(T), NEW t \in Seq(T)
  PROVE  /\ s \o t \in Seq(T) /\ Len(s \o t) = Len(s) + Len(t)
         /\ \A k \in 1..Len(s) : (s \o t)[k] = s[k]
         /\ \A k \in 1..Len(t) : (s \o t)[Len(s) + k] = t[k]
  OBVIOUS

\* The elements of two lists, one after the other.
LEMMA ToSetConcat ==
  ASSUME NEW T, NEW s \in Seq(T), NEW t \in Seq(T)
  PROVE  ToSet(s \o t) = ToSet(s) \cup ToSet(t)
<1> DEFINE m == Len(s)
           n == Len(t)
           u == s \o t
<1>1. /\ m \in Nat /\ n \in Nat /\ DOMAIN s = 1..m /\ DOMAIN t = 1..n /\ DOMAIN u = 1..m + n
      /\ (\A k \in 1..m : u[k] = s[k]) /\ (\A k \in 1..n : u[m + k] = t[k])
  OBVIOUS
<1> HIDE DEF m, n, u
<1>2. ToSet(u) \subseteq ToSet(s) \cup ToSet(t)
  <2> SUFFICES ASSUME NEW k \in 1..m + n PROVE u[k] \in ToSet(s) \cup ToSet(t)
    BY <1>1 DEF ToSet
  <2>1. CASE k \in 1..m
    BY <1>1, <2>1 DEF ToSet
  <2>2. CASE k \notin 1..m
    <3>1. k - m \in 1..n /\ m + (k - m) = k
      BY <1>1, <2>2
    <3>2. u[k] = t[k - m]
      BY <1>1, <3>1
    <3>3. QED
      BY <1>1, <3>1, <3>2 DEF ToSet
  <2>3. QED
    BY <2>1, <2>2
<1>3. ToSet(s) \subseteq ToSet(u)
  <2> SUFFICES ASSUME NEW k \in 1..m PROVE s[k] \in ToSet(u)
    BY <1>1 DEF ToSet
  <2>1. k \in 1..m + n /\ u[k] = s[k]
    BY <1>1
  <2>2. QED
    BY <1>1, <2>1 DEF ToSet
<1>4. ToSet(t) \subseteq ToSet(u)
  <2> SUFFICES ASSUME NEW k \in 1..n PROVE t[k] \in ToSet(u)
    BY <1>1 DEF ToSet
  <2>1. m + k \in 1..m + n /\ u[m + k] = t[k]
    BY <1>1
  <2>2. QED
    BY <1>1, <2>1 DEF ToSet
<1>5. QED
  BY <1>2, <1>3, <1>4 DEF u

\* Two lists that repeat nothing and share nothing, one after the other.
LEMMA InjectiveConcat ==
  ASSUME NEW T, NEW s \in Seq(T), NEW t \in Seq(T),
         IsInjective(s), IsInjective(t), ToSet(s) \cap ToSet(t) = {}
  PROVE  IsInjective(s \o t)
<1> DEFINE m == Len(s)
           n == Len(t)
           u == s \o t
<1>1. /\ m \in Nat /\ n \in Nat /\ DOMAIN s = 1..m /\ DOMAIN t = 1..n /\ DOMAIN u = 1..m + n
      /\ (\A k \in 1..m : u[k] = s[k]) /\ (\A k \in 1..n : u[m + k] = t[k])
  OBVIOUS
<1> HIDE DEF m, n, u
<1>2. \A a \in 1..m, b \in 1..n : s[a] # t[b]
  BY <1>1 DEF ToSet
<1>3. ASSUME NEW a \in 1..m + n, NEW b \in 1..m + n, u[a] = u[b] PROVE a = b
  <2>1. \A k \in 1..m + n : (k \in 1..m /\ u[k] = s[k]) \/ (k - m \in 1..n /\ u[k] = t[k - m])
    <3> TAKE k \in 1..m + n
    <3>1. k \in 1..m \/ (k - m \in 1..n /\ m + (k - m) = k)
      BY <1>1
    <3>2. QED
      BY <1>1, <3>1
  <2>2. CASE a \in 1..m /\ u[a] = s[a]
    <3>1. b \in 1..m /\ u[b] = s[b]
      BY <1>2, <1>3, <2>1, <2>2
    <3>2. QED
      BY <1>1, <1>3, <2>2, <3>1 DEF IsInjective
  <2>3. CASE a - m \in 1..n /\ u[a] = t[a - m]
    <3>1. b - m \in 1..n /\ u[b] = t[b - m]
      BY <1>2, <1>3, <2>1, <2>3
    <3>2. a - m = b - m
      BY <1>1, <1>3, <2>3, <3>1 DEF IsInjective
    <3>3. QED
      BY <1>1, <3>2
  <2>4. QED
    BY <2>1, <2>2, <2>3
<1>4. IsInjective(u)
  BY <1>1, <1>3 DEF IsInjective
<1>5. QED
  BY <1>4 DEF u

\* A list cut in two.
Before(s, n) == SubSeq(s, 1, n)
After(s, n) == SubSeq(s, n + 1, Len(s))

\* A list is what is before a place and what is after it.
LEMMA CutInTwo ==
  ASSUME NEW T, NEW s \in Seq(T), NEW n \in 0..Len(s)
  PROVE  /\ Before(s, n) \in Seq(T) /\ Len(Before(s, n)) = n
         /\ \A k \in 1..n : Before(s, n)[k] = s[k]
         /\ After(s, n) \in Seq(T) /\ Len(After(s, n)) = Len(s) - n
         /\ \A k \in 1..Len(s) - n : After(s, n)[k] = s[n + k]
         /\ s = Before(s, n) \o After(s, n)
         /\ ToSet(s) = ToSet(Before(s, n)) \cup ToSet(After(s, n))
         /\ IsInjective(s) => /\ IsInjective(Before(s, n)) /\ IsInjective(After(s, n))
                              /\ ToSet(Before(s, n)) \cap ToSet(After(s, n)) = {}
<1> DEFINE m == Len(s)
           head == Before(s, n)
           tail == After(s, n)
<1>1. m \in Nat /\ n \in Nat /\ n <= m /\ DOMAIN s = 1..m
  OBVIOUS
<1>2. /\ head \in Seq(T) /\ Len(head) = n /\ DOMAIN head = 1..n
      /\ \A k \in 1..n : head[k] = s[k]
  BY DEF Before
<1>3. /\ tail \in Seq(T) /\ Len(tail) = m - n /\ DOMAIN tail = 1..m - n
      /\ \A k \in 1..m - n : tail[k] = s[n + k]
  <2>1. tail \in Seq(T)
    BY <1>1 DEF After
  <2>2. Len(tail) = m - n
    <3>1. Len(tail) = IF n + 1 <= m THEN m - (n + 1) + 1 ELSE 0
      BY <1>1, SubSeqProperties DEF After
    <3> HIDE DEF tail, m
    <3>2. QED
      BY <1>1, <3>1
  <2>3. \A k \in 1..m - n : tail[k] = s[n + k]
    BY <1>1 DEF After
  <2>4. QED
    BY <2>1, <2>2, <2>3
<1> HIDE DEF m, head, tail
<1>4. s = head \o tail
  <2> DEFINE u == head \o tail
  <2>1. u \in Seq(T) /\ Len(u) = m
    BY <1>1, <1>2, <1>3
  <2>2. ASSUME NEW k \in 1..m PROVE u[k] = s[k]
    <3>1. CASE k \in 1..n
      BY <1>1, <1>2, <1>3, <3>1
    <3>2. CASE k \notin 1..n
      <4>1. k - n \in 1..m - n /\ n + (k - n) = k
        BY <1>1, <3>2
      <4>2. u[k] = tail[k - n]
        BY <1>1, <1>2, <1>3, <3>2
      <4>3. QED
        BY <1>3, <4>1, <4>2
    <3>3. QED
      BY <3>1, <3>2
  <2> HIDE DEF u
  <2>3. s = u
    BY <2>1, <2>2, SeqEqual DEF m
  <2>4. QED
    BY <2>3 DEF u
<1>5. ToSet(s) = ToSet(head) \cup ToSet(tail)
  BY <1>2, <1>3, <1>4, ToSetConcat
<1>6. ASSUME IsInjective(s)
      PROVE  IsInjective(head) /\ IsInjective(tail) /\ ToSet(head) \cap ToSet(tail) = {}
  <2>1. \A a, b \in 1..m : s[a] = s[b] => a = b
    BY <1>1, <1>6 DEF IsInjective
  <2>2. IsInjective(head)
    BY <1>1, <1>2, <2>1 DEF IsInjective
  <2>3. \A k \in 1..m - n : n + k \in 1..m
    BY <1>1
  <2>4. IsInjective(tail)
    <3> SUFFICES ASSUME NEW a \in 1..m - n, NEW b \in 1..m - n, tail[a] = tail[b] PROVE a = b
      BY <1>3 DEF IsInjective
    <3>1. n + a = n + b
      BY <1>3, <2>1, <2>3
    <3>2. QED
      BY <1>1, <3>1
  <2>5. ASSUME NEW a \in 1..n, NEW b \in 1..m - n PROVE head[a] # tail[b]
    <3>1. a \in 1..m /\ a # n + b
      BY <1>1
    <3>2. QED
      BY <1>2, <1>3, <2>1, <2>3, <3>1
  <2>6. ToSet(head) \cap ToSet(tail) = {}
    BY <1>2, <1>3, <2>5 DEF ToSet
  <2>7. QED
    BY <2>2, <2>4, <2>6
<1>7. QED
  BY <1>2, <1>3, <1>4, <1>5, <1>6 DEF m, head, tail

\* A new element put in anywhere.
LEMMA InsertedAnywhere ==
  ASSUME NEW T, NEW s \in Seq(T), NEW k \in 1..Len(s) + 1, NEW x \in T
  PROVE  /\ InsertAt(s, k, x) \in Seq(T) /\ Len(InsertAt(s, k, x)) = Len(s) + 1
         /\ ToSet(InsertAt(s, k, x)) = ToSet(s) \cup {x}
         /\ IsInjective(s) /\ x \notin ToSet(s) => IsInjective(InsertAt(s, k, x))
<1> DEFINE m == Len(s)
           head == SubSeq(s, 1, k - 1)
           tail == SubSeq(s, k, m)
           one == <<x>>
<1>1. m \in Nat /\ k \in Nat /\ k - 1 \in 0..m /\ (k - 1) + 1 = k
  OBVIOUS
<1>2. /\ head \in Seq(T) /\ Len(head) = k - 1 /\ tail \in Seq(T) /\ Len(tail) = m - (k - 1)
      /\ ToSet(s) = ToSet(head) \cup ToSet(tail)
      /\ IsInjective(s) => /\ IsInjective(head) /\ IsInjective(tail)
                           /\ ToSet(head) \cap ToSet(tail) = {}
  <2>1. head = Before(s, k - 1) /\ tail = After(s, k - 1)
    BY <1>1 DEF Before, After
  <2> DEFINE j == k - 1
  <2>2. j \in 0..Len(s)
    BY <1>1
  <2> HIDE DEF head, tail, j
  <2>3. /\ Before(s, j) \in Seq(T) /\ Len(Before(s, j)) = j
        /\ After(s, j) \in Seq(T) /\ Len(After(s, j)) = Len(s) - j
        /\ ToSet(s) = ToSet(Before(s, j)) \cup ToSet(After(s, j))
        /\ IsInjective(s) => /\ IsInjective(Before(s, j)) /\ IsInjective(After(s, j))
                             /\ ToSet(Before(s, j)) \cap ToSet(After(s, j)) = {}
    BY <2>2, CutInTwo
  <2>4. QED
    BY <2>1, <2>3 DEF j
<1>3. one \in Seq(T) /\ Len(one) = 1 /\ ToSet(one) = {x} /\ IsInjective(one)
  BY DEF ToSet, IsInjective
<1>4. InsertAt(s, k, x) = (head \o one) \o tail
  BY DEF InsertAt
<1> HIDE DEF head, tail, one, m
<1> DEFINE left == head \o one
<1>5. left \in Seq(T) /\ Len(left) = k /\ ToSet(left) = ToSet(head) \cup {x}
  <2>1. left \in Seq(T) /\ Len(left) = k
    <3>1. left \in Seq(T) /\ Len(left) = Len(head) + Len(one)
      <4>1. head \in Seq(T) /\ one \in Seq(T)
        BY <1>2, <1>3
      <4>2. QED
        BY <4>1, ConcatProperties
    <3>2. QED
      BY <1>1, <1>2, <1>3, <3>1
  <2>2. ToSet(left) = ToSet(head) \cup ToSet(one)
    BY <1>2, <1>3, ToSetConcat
  <2>3. QED
    BY <1>3, <2>1, <2>2
<1>6. IsInjective(s) /\ x \notin ToSet(s) => IsInjective(left)
  BY <1>2, <1>3, InjectiveConcat
<1> HIDE DEF left
<1>7. /\ left \o tail \in Seq(T) /\ Len(left \o tail) = m + 1
      /\ ToSet(left \o tail) = ToSet(left) \cup ToSet(tail)
  BY <1>1, <1>2, <1>5, ToSetConcat
<1>8. IsInjective(s) /\ x \notin ToSet(s) => IsInjective(left \o tail)
  <2> SUFFICES ASSUME IsInjective(s), x \notin ToSet(s) PROVE IsInjective(left \o tail)
    OBVIOUS
  <2>1. ToSet(left) \cap ToSet(tail) = {}
    BY <1>2, <1>5
  <2>2. QED
    BY <1>2, <1>5, <1>6, <2>1, InjectiveConcat
<1>9. QED
  BY <1>2, <1>4, <1>5, <1>7, <1>8 DEF left, m

---------------------------------------------------------------------------
(* More of Filtered.                                                       *)

\* Filtering goes through concatenation.
LEMMA FilteredConcat ==
  ASSUME NEW T, NEW s \in Seq(T), NEW t \in Seq(T), NEW S
  PROVE  Filtered(s \o t, S) = Filtered(s, S) \o Filtered(t, S)
<1> DEFINE G == {q \in Seq(T) : Filtered(s \o q, S) = Filtered(s, S) \o Filtered(q, S)}
<1>1. <<>> \in G
  <2> DEFINE none == <<>>
             f == Filtered(s, S)
  <2>1. none \in Seq(T) /\ f \in Seq(T)
    BY FilteredSet
  <2>2. s \o none = s /\ f \o none = f
    <3> HIDE DEF f
    <3>1. QED
      BY <2>1
  <2>3. Filtered(none, S) = none
    BY FilteredEmpty
  <2> HIDE DEF none, f
  <2>4. none \in G
    BY <2>1, <2>2, <2>3 DEF f
  <2>5. QED
    BY <2>4 DEF none
<1>2. ASSUME NEW q \in Seq(T), NEW x \in T, q \in G PROVE Append(q, x) \in G
  <2> DEFINE u == s \o q
             f == Filtered(s, S)
             g == Filtered(q, S)
  <2>1. u \in Seq(T) /\ Append(q, x) \in Seq(T) /\ s \o Append(q, x) = Append(u, x)
    OBVIOUS
  <2>2. f \in Seq(T) /\ g \in Seq(T) /\ Filtered(u, S) = f \o g
    BY <1>2, FilteredSet
  <2>3. f \o Append(g, x) = Append(f \o g, x)
    <3> HIDE DEF f, g
    <3>1. QED
      BY <2>2
  <2>4. /\ x \in S => Filtered(Append(q, x), S) = Append(g, x)
        /\ x \notin S => Filtered(Append(q, x), S) = g
    <3>1. x \in S => Filtered(Append(q, x), S) = Append(g, x)
      BY FilteredKeeps
    <3>2. x \notin S => Filtered(Append(q, x), S) = g
      BY FilteredDrops
    <3>3. QED
      BY <3>1, <3>2
  <2> HIDE DEF u, G
  <2>5. /\ x \in S => Filtered(Append(u, x), S) = Append(Filtered(u, S), x)
        /\ x \notin S => Filtered(Append(u, x), S) = Filtered(u, S)
    <3>1. x \in S => Filtered(Append(u, x), S) = Append(Filtered(u, S), x)
      BY <2>1, FilteredKeeps
    <3>2. x \notin S => Filtered(Append(u, x), S) = Filtered(u, S)
      BY <2>1, FilteredDrops
    <3>3. QED
      BY <3>1, <3>2
  <2> HIDE DEF f, g
  <2>6. Filtered(s \o Append(q, x), S) = f \o Filtered(Append(q, x), S)
    BY <2>1, <2>2, <2>3, <2>4, <2>5
  <2>7. QED
    BY <2>1, <2>6 DEF f, G
<1>3. Seq(T) \subseteq G
  <2> HIDE DEF G
  <2>1. QED
    BY <1>1, <1>2, SeqSetInduction
<1>4. QED
  BY <1>3

\* What holds nothing to drop is kept as it is; what holds nothing to keep goes.
LEMMA FilteredAll ==
  ASSUME NEW T, NEW s \in Seq(T), NEW S
  PROVE  /\ ToSet(s) \subseteq S => Filtered(s, S) = s
         /\ ToSet(s) \cap S = {} => Filtered(s, S) = <<>>
<1> DEFINE G == {q \in Seq(T) : /\ ToSet(q) \subseteq S => Filtered(q, S) = q
                                /\ ToSet(q) \cap S = {} => Filtered(q, S) = <<>>}
<1>1. <<>> \in G
  BY FilteredEmpty
<1>2. ASSUME NEW q \in Seq(T), NEW x \in T, q \in G PROVE Append(q, x) \in G
  <2>1. Append(q, x) \in Seq(T) /\ ToSet(Append(q, x)) = ToSet(q) \cup {x}
    BY ToSetAppend
  <2>2. /\ x \in S => Filtered(Append(q, x), S) = Append(Filtered(q, S), x)
        /\ x \notin S => Filtered(Append(q, x), S) = Filtered(q, S)
    <3>1. x \in S => Filtered(Append(q, x), S) = Append(Filtered(q, S), x)
      BY FilteredKeeps
    <3>2. x \notin S => Filtered(Append(q, x), S) = Filtered(q, S)
      BY FilteredDrops
    <3>3. QED
      BY <3>1, <3>2
  <2>3. QED
    BY <1>2, <2>1, <2>2
<1>3. Seq(T) \subseteq G
  <2> HIDE DEF G
  <2>1. QED
    BY <1>1, <1>2, SeqSetInduction
<1>4. QED
  BY <1>3

---------------------------------------------------------------------------
(* Counting.                                                               *)

\* The numbers from 1 to n are n.
LEMMA FirstNumbers == \A n \in Nat : IsFiniteSet(1..n) /\ Cardinality(1..n) = n
<1> SUFFICES ASSUME NEW n \in Nat PROVE IsFiniteSet(1..n) /\ Cardinality(1..n) = n
  OBVIOUS
<1> DEFINE U == 1..n
<1>1. 1 \in Int /\ n \in Int /\ n >= 0
  OBVIOUS
<1>2. IsFiniteSet(U) /\ Cardinality(U) = IF 1 > n THEN 0 ELSE n - 1 + 1
  BY <1>1, FS_Interval
<1> HIDE DEF U
<1>3. IsFiniteSet(U) /\ Cardinality(U) = n
  BY <1>2
<1> USE DEF U
<1>4. QED
  BY <1>3

\* A sequence without repetition has as many elements as places.
LEMMA InjectiveCount ==
  ASSUME NEW T, NEW s \in Seq(T), IsInjective(s)
  PROVE  IsFiniteSet(ToSet(s)) /\ Cardinality(ToSet(s)) = Len(s)
<1> DEFINE G == {q \in Seq(T) : IsInjective(q) =>
                   IsFiniteSet(ToSet(q)) /\ Cardinality(ToSet(q)) = Len(q)}
<1>1. <<>> \in G
  <2> DEFINE none == <<>>
  <2>1. none \in Seq(T) /\ Len(none) = 0 /\ ToSet(none) = {}
    BY DEF ToSet
  <2> HIDE DEF none
  <2>2. none \in G
    BY <2>1, FS_EmptySet
  <2>3. QED
    BY <2>2 DEF none
<1>2. ASSUME NEW q \in Seq(T), NEW x \in T, q \in G PROVE Append(q, x) \in G
  <2> DEFINE n == Len(q)
             a == Append(q, x)
  <2>1. /\ a \in Seq(T) /\ Len(a) = n + 1 /\ n \in Nat
        /\ a[n + 1] = x /\ \A k \in 1..n : a[k] = q[k]
    OBVIOUS
  <2>2. ToSet(a) = ToSet(q) \cup {x}
    BY ToSetAppend
  <2> HIDE DEF a
  <2>3. SUFFICES ASSUME IsInjective(a)
                 PROVE  IsFiniteSet(ToSet(a)) /\ Cardinality(ToSet(a)) = n + 1
    BY <2>1 DEF a
  <2>4. \A j, k \in 1..n + 1 : a[j] = a[k] => j = k
    BY <2>1, <2>3 DEF IsInjective
  <2>5. IsInjective(q)
    <3> SUFFICES ASSUME NEW j \in 1..n, NEW k \in 1..n, q[j] = q[k] PROVE j = k
      BY DEF IsInjective
    <3> HIDE DEF n
    <3>1. j \in 1..n + 1 /\ k \in 1..n + 1 /\ a[j] = a[k]
      BY <2>1
    <3>2. QED
      BY <2>4, <3>1
  <2>6. x \notin ToSet(q)
    <3> SUFFICES ASSUME NEW j \in 1..n, q[j] = x PROVE FALSE
      BY DEF ToSet
    <3>1. j \in 1..n + 1 /\ n + 1 \in 1..n + 1 /\ j # n + 1 /\ a[j] = a[n + 1]
      BY <2>1
    <3>2. QED
      BY <2>4, <3>1
  <2>7. IsFiniteSet(ToSet(q)) /\ Cardinality(ToSet(q)) = n
    BY <1>2, <2>5
  <2> HIDE DEF n, G
  <2>8. IsFiniteSet(ToSet(q) \cup {x}) /\ Cardinality(ToSet(q) \cup {x}) = Cardinality(ToSet(q)) + 1
    BY <2>6, <2>7, FS_AddElement
  <2>9. QED
    BY <2>2, <2>7, <2>8
<1>3. Seq(T) \subseteq G
  <2> HIDE DEF G
  <2>1. QED
    BY <1>1, <1>2, SeqSetInduction
<1>4. QED
  BY <1>3

---------------------------------------------------------------------------
(* FlattenSeq.                                                             *)

\* The functions that join the lists of ss, list after list.
Flattenings(ss, T) ==
  {f \in [0..Len(ss) -> Seq(T)] :
     f[0] = <<>> /\ \A n \in 1..Len(ss) : f[n] = f[n - 1] \o ss[n]}

\* FlattenSeq is one of them.
LEMMA FlattenSteps ==
  ASSUME NEW T, NEW ss \in Seq(Seq(T))
  PROVE  \E f \in Flattenings(ss, T) : FlattenSeq(ss) = f[Len(ss)]
<1> DEFINE N == Len(ss)
           step == [n \in 1..N |-> [q \in Seq(T) |-> q \o ss[n]]]
           Body(f) == [n \in 1..N |-> IF n = 1 THEN ss[n] ELSE f[n - 1] \o ss[n]]
           flatten == CHOOSE h : h = Body(h)
<1>1. N \in Nat /\ <<>> \in Seq(T) /\ \A n \in 1..N : ss[n] \in Seq(T)
  OBVIOUS
<1>2. step \in [1..N -> [Seq(T) -> Seq(T)]]
  BY <1>1
<1>3. PICK f \in [0..N -> Seq(T)] : f[0] = <<>> /\ \A n \in 1..N : f[n] = step[n][f[n - 1]]
  <2> DEFINE V == Seq(T)
             none == <<>>
  <2>1. N \in Nat /\ none \in V /\ step \in [1..N -> [V -> V]]
    BY <1>1, <1>2
  <2> HIDE DEF N, step, V, none
  <2>2. \E f \in [0..N -> V] : f[0] = none /\ \A n \in 1..N : f[n] = step[n][f[n - 1]]
    BY <2>1, Recursion
  <2>3. QED
    BY <2>2 DEF V, none
<1>4. \A n \in 1..N : f[n - 1] \in Seq(T) /\ f[n] = f[n - 1] \o ss[n]
  <2> TAKE n \in 1..N
  <2>1. f[n - 1] \in Seq(T)
    <3> HIDE DEF N, step
    <3>1. n - 1 \in 0..N
      BY <1>1
    <3>2. QED
      BY <1>3, <3>1
  <2>2. QED
    BY <1>3, <2>1
<1>5. 1 <= N => f[1] = ss[1]
  <2> SUFFICES ASSUME 1 <= N PROVE f[1] = ss[1]
    OBVIOUS
  <2>1. 1 \in 1..N /\ 1 - 1 = 0
    BY <1>1
  <2>2. f[1] = <<>> \o ss[1] /\ ss[1] \in Seq(T)
    BY <1>1, <1>3, <1>4, <2>1
  <2>3. QED
    BY <2>2
<1> DEFINE h == [n \in 1..N |-> f[n]]
<1>6. h = Body(h)
  <2> HIDE DEF N, step
  <2>1. ASSUME NEW n \in 1..N PROVE h[n] = Body(h)[n]
    <3>1. CASE n = 1
      BY <1>1, <1>5, <3>1
    <3>2. CASE n # 1
      <4>1. n - 1 \in 1..N
        BY <1>1, <3>2
      <4>2. h[n] = h[n - 1] \o ss[n]
        BY <1>4, <4>1
      <4>3. QED
        BY <4>2, <3>2
    <3>3. QED
      BY <3>1, <3>2
  <2>2. QED
    BY <2>1
<1>7. flatten = Body(flatten)
  <2> HIDE DEF Body, h
  <2>1. QED
    BY <1>6, Zenon
<1>8. \A n \in 1..N : flatten[n] = IF n = 1 THEN ss[n] ELSE flatten[n - 1] \o ss[n]
  <2> HIDE DEF flatten, N
  <2>1. QED
    BY <1>7
<1>9. \A n \in 1..N : flatten[n] = f[n]
  <2> DEFINE Same == {n \in Nat : n \in 1..N => flatten[n] = f[n]}
  <2> HIDE DEF flatten, N, step
  <2>1. 0 \in Same
    OBVIOUS
  <2>2. ASSUME NEW n \in Nat, n \in Same PROVE n + 1 \in Same
    <3> SUFFICES ASSUME n + 1 \in 1..N PROVE flatten[n + 1] = f[n + 1]
      OBVIOUS
    <3>1. CASE n = 0
      BY <1>1, <1>5, <1>8, <3>1
    <3>2. CASE n # 0
      <4>1. n \in 1..N /\ (n + 1) - 1 = n /\ n + 1 # 1
        BY <1>1, <3>2
      <4>2. flatten[n] = f[n]
        BY <2>2, <4>1
      <4>3. flatten[n + 1] = flatten[n] \o ss[n + 1]
        BY <1>8, <4>1
      <4>4. f[n + 1] = f[n] \o ss[n + 1]
        BY <1>4, <4>1
      <4>5. QED
        BY <4>2, <4>3, <4>4
    <3>3. QED
      BY <3>1, <3>2
  <2> HIDE DEF Same
  <2>3. Nat \subseteq Same
    BY <2>1, <2>2, NatSetInduction
  <2>4. QED
    BY <2>3, <1>1 DEF Same
<1>10. FlattenSeq(ss) = IF N = 0 THEN ss ELSE flatten[N]
  BY DEF FlattenSeq
<1>11. FlattenSeq(ss) = f[N]
  <2>1. CASE N = 0
    <3>1. ss = <<>>
      BY <2>1
    <3> HIDE DEF N, flatten
    <3>2. QED
      BY <1>3, <1>10, <2>1, <3>1
  <2>2. CASE N # 0
    <3>1. N \in 1..N
      BY <1>1, <2>2
    <3> HIDE DEF N, flatten
    <3>2. QED
      BY <1>9, <1>10, <2>2, <3>1
  <2>3. QED
    BY <2>1, <2>2
<1>12. f \in Flattenings(ss, T)
  BY <1>3, <1>4 DEF Flattenings
<1>13. QED
  BY <1>11, <1>12

\* A list more at the end is joined to the others.
LEMMA FlattenAppend ==
  ASSUME NEW T, NEW ss \in Seq(Seq(T)), NEW q \in Seq(T)
  PROVE  /\ FlattenSeq(ss) \in Seq(T)
         /\ FlattenSeq(Append(ss, q)) = FlattenSeq(ss) \o q
<1> DEFINE N == Len(ss)
           tt == Append(ss, q)
<1>1. /\ N \in Nat /\ tt \in Seq(Seq(T)) /\ Len(tt) = N + 1 /\ tt[N + 1] = q
      /\ \A n \in 1..N : tt[n] = ss[n]
  OBVIOUS
<1> HIDE DEF tt
<1>2. PICK f \in Flattenings(ss, T) : FlattenSeq(ss) = f[N]
  BY FlattenSteps
<1>3. /\ f \in [0..N -> Seq(T)] /\ f[0] = <<>>
      /\ \A n \in 1..N : f[n] = f[n - 1] \o ss[n]
  BY <1>2 DEF Flattenings
<1>4. PICK g \in Flattenings(tt, T) : FlattenSeq(tt) = g[N + 1]
  BY <1>1, FlattenSteps
<1>5. /\ g \in [0..N + 1 -> Seq(T)] /\ g[0] = <<>>
      /\ \A n \in 1..N + 1 : g[n] = g[n - 1] \o tt[n]
  BY <1>1, <1>4 DEF Flattenings
<1> HIDE DEF N
<1>6. \A n \in 0..N : g[n] = f[n]
  <2> DEFINE Same == {n \in Nat : n <= N => g[n] = f[n]}
  <2>1. 0 \in Same
    BY <1>3, <1>5
  <2>2. ASSUME NEW n \in Nat, n \in Same PROVE n + 1 \in Same
    <3> SUFFICES ASSUME n + 1 <= N PROVE g[n + 1] = f[n + 1]
      OBVIOUS
    <3>1. n + 1 \in 1..N /\ n + 1 \in 1..N + 1 /\ (n + 1) - 1 = n /\ n <= N
      BY <1>1
    <3>2. g[n] = f[n] /\ tt[n + 1] = ss[n + 1]
      BY <1>1, <2>2, <3>1
    <3>3. f[n + 1] = f[n] \o ss[n + 1]
      BY <1>3, <3>1
    <3>4. g[n + 1] = g[n] \o tt[n + 1]
      BY <1>5, <3>1
    <3>5. QED
      BY <3>2, <3>3, <3>4
  <2> HIDE DEF Same
  <2>3. Nat \subseteq Same
    BY <2>1, <2>2, NatSetInduction
  <2>4. QED
    BY <2>3, <1>1 DEF Same
<1>7. N + 1 \in 1..N + 1 /\ (N + 1) - 1 = N /\ N \in 0..N
  BY <1>1
<1>8. g[N + 1] = g[N] \o tt[N + 1]
  BY <1>5, <1>7
<1>9. QED
  BY <1>1, <1>2, <1>3, <1>4, <1>6, <1>7, <1>8 DEF tt

---------------------------------------------------------------------------
(* Order.                                                                  *)

\* The elements of a list in which no element comes twice, one more at its end.
LEMMA InjectiveAppend ==
  ASSUME NEW T, NEW s \in Seq(T), NEW x \in T
  PROVE  IsInjective(Append(s, x)) <=> IsInjective(s) /\ x \notin ToSet(s)
<1> DEFINE u == Append(s, x)
           n == Len(s)
<1>1. n \in Nat /\ DOMAIN u = 1..n + 1 /\ u[n + 1] = x /\ DOMAIN s = 1..n
      /\ \A k \in 1..n : u[k] = s[k]
  OBVIOUS
<1> HIDE DEF u, n
<1>2. ASSUME IsInjective(u) PROVE IsInjective(s) /\ x \notin ToSet(s)
  <2>1. \A a, b \in 1..n + 1 : u[a] = u[b] => a = b
    BY <1>1, <1>2 DEF IsInjective
  <2>2. \A k \in 1..n : k \in 1..n + 1 /\ k # n + 1 /\ n + 1 \in 1..n + 1
    BY <1>1
  <2>3. \A a, b \in 1..n : s[a] = s[b] => a = b
    BY <1>1, <2>1, <2>2
  <2>4. \A k \in 1..n : s[k] # x
    BY <1>1, <2>1, <2>2
  <2>5. QED
    BY <1>1, <2>3, <2>4 DEF IsInjective, ToSet
<1>3. ASSUME IsInjective(s), x \notin ToSet(s) PROVE IsInjective(u)
  <2>1. \A a, b \in 1..n : s[a] = s[b] => a = b
    BY <1>1, <1>3 DEF IsInjective
  <2>2. \A k \in 1..n : s[k] # x
    BY <1>1, <1>3 DEF ToSet
  <2>3. \A k \in 1..n + 1 : k \in 1..n \/ k = n + 1
    BY <1>1
  <2>4. \A a, b \in 1..n + 1 : u[a] = u[b] => a = b
    BY <1>1, <2>1, <2>2, <2>3
  <2>5. QED
    BY <1>1, <2>4 DEF IsInjective
<1>4. QED
  BY <1>2, <1>3 DEF u

\* A finite set of naturals has a greatest: the one above which fewest are.
LEMMA GreatestOf ==
  ASSUME NEW S \in SUBSET Nat, IsFiniteSet(S), S # {}
  PROVE  Max(S) \in S /\ \A x \in S : x <= Max(S)
<1> DEFINE Above(x) == {y \in S : y >= x}
           R == StrictSubsetOrdering(S)
           T == {Above(x) : x \in S}
<1>2. T \subseteq FiniteSubsetsOf(S)
  BY FS_FiniteSubsetsOfFinite
<1>3. IsWellFoundedOn(R, FiniteSubsetsOf(S))
  BY FS_StrictSubsetOrderingWellFounded
<1>4. T # {}
  OBVIOUS
<1>5. \E A \in T : \A B \in T : <<B, A>> \notin R
  <2> HIDE DEF R, T
  <2>1. QED
    BY <1>2, <1>3, <1>4, WFMin
<1>6. PICK x \in S : \A z \in S : <<Above(z), Above(x)>> \notin R
  BY <1>5
<1>7. \A z \in S : x >= z
  <2> SUFFICES ASSUME NEW z \in S, ~(x >= z) PROVE FALSE
    OBVIOUS
  <2>1. Above(z) \subseteq Above(x) /\ x \in Above(x) /\ x \notin Above(z)
    <3>1. x \in Nat /\ z \in Nat /\ z > x /\ \A y \in S : y \in Nat
      OBVIOUS
    <3>2. \A y \in S : y >= z => y >= x
      BY <3>1
    <3>3. x >= x
      BY <3>1
    <3>4. QED
      BY <3>2, <3>3, Zenon
  <2>2. <<Above(z), Above(x)>> \in R
    BY <2>1 DEF StrictSubsetOrdering
  <2>3. QED
    BY <1>6, <2>2
<1>8. Max(S) \in S /\ \A z \in S : Max(S) >= z
  BY <1>7 DEF Max
<1>9. QED
  BY <1>8

\* What is flattened is what the lists have.
LEMMA FlattenedSet ==
  ASSUME NEW T, NEW ss \in Seq(Seq(T))
  PROVE  ToSet(FlattenSeq(ss)) = UNION {ToSet(ss[k]) : k \in 1..Len(ss)}
<1> DEFINE V == Seq(T)
           none == <<>>
           All(q) == UNION {ToSet(q[k]) : k \in 1..Len(q)}
           G == {q \in Seq(V) : ToSet(FlattenSeq(q)) = All(q)}
<1>1. none \in G
  <2>1. none \in Seq(V) /\ Len(none) = 0 /\ ToSet(none) = {}
    BY DEF ToSet
  <2>2. FlattenSeq(none) = none
    BY DEF FlattenSeq
  <2>3. All(none) = {}
    BY <2>1
  <2> HIDE DEF none, All
  <2>4. QED
    BY <2>1, <2>2, <2>3
<1>2. ASSUME NEW q \in Seq(V), NEW x \in V, q \in G PROVE Append(q, x) \in G
  <2> DEFINE u == Append(q, x)
             n == Len(q)
             f == FlattenSeq(q)
  <2>1. n \in Nat /\ Len(u) = n + 1 /\ u[n + 1] = x /\ u \in Seq(V) /\ \A k \in 1..n : u[k] = q[k]
    <3> HIDE DEF V
    <3>1. QED
      OBVIOUS
  <2>2. f \in V /\ FlattenSeq(u) = f \o x
    BY FlattenAppend
  <2>3. ToSet(f \o x) = ToSet(f) \cup ToSet(x)
    <3>1. f \in Seq(T) /\ x \in Seq(T)
      BY <2>2
    <3> HIDE DEF f, V
    <3>2. QED
      BY <3>1, ToSetConcat
  <2>4. ToSet(f) = All(q)
    BY <1>2
  <2> HIDE DEF u, f, n, V
  <2>5. All(u) = All(q) \cup ToSet(x)
    <3>1. All(u) = UNION {ToSet(u[k]) : k \in 1..n + 1} /\ All(q) = UNION {ToSet(q[k]) : k \in 1..n}
      BY <2>1 DEF n
    <3>2. \A k : k \in 1..n + 1 <=> k \in 1..n \/ k = n + 1
      BY <2>1
    <3> HIDE DEF All
    <3>3. QED
      BY <2>1, <3>1, <3>2, Zenon
  <2>6. QED
    BY <2>1, <2>2, <2>3, <2>4, <2>5 DEF u
<1>3. Seq(V) \subseteq G
  <2> HIDE DEF G, V, none
  <2>1. QED
    BY <1>1, <1>2, SeqSetInduction DEF none
<1>4. ss \in G
  BY <1>3
<1>5. QED
  BY <1>4

\* A list in which an element and any behind it are related.
Sorted(s, R) == \A a, b \in 1..Len(s) : a < b => <<s[a], s[b]>> \in R

\* Two sorted lists, the elements of one before those of the other.
LEMMA SortedConcat ==
  ASSUME NEW T, NEW s \in Seq(T), NEW t \in Seq(T), NEW R, Sorted(s, R), Sorted(t, R),
         \A x \in ToSet(s), y \in ToSet(t) : <<x, y>> \in R
  PROVE  Sorted(s \o t, R)
<1> DEFINE m == Len(s)
           n == Len(t)
           u == s \o t
<1>1. m \in Nat /\ n \in Nat /\ Len(u) = m + n
      /\ (\A k \in 1..m : u[k] = s[k]) /\ (\A k \in 1..n : u[m + k] = t[k])
  BY Joined
<1>2. (\A k \in 1..m : s[k] \in ToSet(s)) /\ (\A k \in 1..n : t[k] \in ToSet(t))
  BY DEF ToSet
<1>3. /\ \A a, b \in 1..m : a < b => <<s[a], s[b]>> \in R
      /\ \A a, b \in 1..n : a < b => <<t[a], t[b]>> \in R
  BY DEF Sorted
<1> HIDE DEF m, n, u
<1>4. SUFFICES ASSUME NEW a \in 1..m + n, NEW b \in 1..m + n, a < b PROVE <<u[a], u[b]>> \in R
  BY <1>1 DEF Sorted, u
<1>5. CASE b <= m
  <2>1. a \in 1..m /\ b \in 1..m
    BY <1>1, <1>4, <1>5
  <2>2. u[a] = s[a] /\ u[b] = s[b] /\ <<s[a], s[b]>> \in R
    BY <1>1, <1>3, <1>4, <2>1
  <2>3. QED
    BY <2>2
<1>6. CASE b > m
  <2>1. b - m \in 1..n /\ m + (b - m) = b
    BY <1>1, <1>6
  <2>2. u[b] = t[b - m]
    BY <1>1, <2>1
  <2>3. CASE a <= m
    <3>1. a \in 1..m
      BY <1>1, <2>3
    <3>2. u[a] = s[a] /\ s[a] \in ToSet(s) /\ t[b - m] \in ToSet(t)
      BY <1>1, <1>2, <2>1, <3>1
    <3>3. QED
      BY <2>2, <3>2
  <2>4. CASE a > m
    <3>1. a - m \in 1..n /\ m + (a - m) = a /\ a - m < b - m
      BY <1>1, <1>4, <2>4
    <3>2. u[a] = t[a - m] /\ <<t[a - m], t[b - m]>> \in R
      BY <1>1, <1>3, <2>1, <3>1
    <3>3. QED
      BY <2>2, <3>2
  <2>5. QED
    BY <1>1, <2>3, <2>4
<1>7. QED
  BY <1>1, <1>5, <1>6

\* Sorted lists, each before the next, are sorted when flattened.
LEMMA FlattenSorted ==
  ASSUME NEW T, NEW ss \in Seq(Seq(T)), NEW R,
         \A k \in 1..Len(ss) : Sorted(ss[k], R),
         \A k, l \in 1..Len(ss) : k < l =>
           \A x \in ToSet(ss[k]), y \in ToSet(ss[l]) : <<x, y>> \in R
  PROVE  Sorted(FlattenSeq(ss), R)
<1> DEFINE V == Seq(T)
           none == <<>>
           Each(q) == \A k \in 1..Len(q) : Sorted(q[k], R)
           Across(q) == \A k, l \in 1..Len(q) : k < l =>
                          \A x \in ToSet(q[k]), y \in ToSet(q[l]) : <<x, y>> \in R
           G == {q \in Seq(V) : Each(q) /\ Across(q) => Sorted(FlattenSeq(q), R)}
<1>1. none \in G
  <2>1. none \in Seq(V) /\ Len(none) = 0
    OBVIOUS
  <2>2. FlattenSeq(none) = none
    BY DEF FlattenSeq
  <2>3. Sorted(none, R)
    BY <2>1 DEF Sorted
  <2> HIDE DEF none, Each, Across
  <2>4. QED
    BY <2>1, <2>2, <2>3
<1>2. ASSUME NEW q \in Seq(V), NEW x \in V, q \in G PROVE Append(q, x) \in G
  <2> DEFINE u == Append(q, x)
             n == Len(q)
             f == FlattenSeq(q)
  <2>1. n \in Nat /\ Len(u) = n + 1 /\ u[n + 1] = x /\ u \in Seq(V) /\ \A k \in 1..n : u[k] = q[k]
    <3> HIDE DEF V
    <3>1. QED
      OBVIOUS
  <2>2. f \in V /\ FlattenSeq(u) = f \o x
    BY FlattenAppend
  <2>3. ToSet(f) = UNION {ToSet(q[k]) : k \in 1..n}
    BY FlattenedSet
  <2> HIDE DEF u
  <2>4. ASSUME Each(u), Across(u) PROVE Sorted(f \o x, R)
    <3>1. \A k \in 1..n : k \in 1..n + 1 /\ k < n + 1 /\ n + 1 \in 1..n + 1
      BY <2>1
    <3>2. Each(q) /\ Across(q)
      BY <2>1, <2>4, <3>1
    <3>3. Sorted(f, R)
      BY <1>2, <3>2
    <3>4. Sorted(x, R)
      BY <2>1, <2>4, <3>1
    <3>5. \A k \in 1..n : \A y \in ToSet(q[k]), z \in ToSet(x) : <<y, z>> \in R
      BY <2>1, <2>4, <3>1
    <3>6. \A y \in ToSet(f), z \in ToSet(x) : <<y, z>> \in R
      BY <2>3, <3>5
    <3>7. f \in Seq(T) /\ x \in Seq(T)
      BY <2>2
    <3> HIDE DEF f, V
    <3>8. QED
      BY <3>3, <3>4, <3>6, <3>7, SortedConcat
  <2> HIDE DEF Each, Across, f, V
  <2>5. QED
    BY <2>1, <2>2, <2>4 DEF u
<1>3. Seq(V) \subseteq G
  <2> HIDE DEF G, V, none
  <2>1. QED
    BY <1>1, <1>2, SeqSetInduction DEF none
<1>4. ss \in G
  BY <1>3
<1>5. QED
  BY <1>4

\* An order of a finite set has each of its members once.
LEMMA Ordering ==
  ASSUME NEW T, NEW S \in SUBSET T, IsFiniteSet(S), NEW s \in SetToSeqs(S)
  PROVE  s \in Seq(T) /\ IsInjective(s) /\ ToSet(s) = S
<1> DEFINE n == Cardinality(S)
<1>1. n \in Nat
  BY FS_CardinalityType
<1>2. s \in [1..n -> S] /\ \A a, b \in 1..n : a # b => s[a] # s[b]
  BY DEF SetToSeqs
<1> HIDE DEF n
<1>3. s \in Seq(T) /\ Len(s) = n /\ IsInjective(s) /\ ToSet(s) \in SUBSET S
  BY <1>1, <1>2 DEF IsInjective, ToSet
<1>4. Cardinality(ToSet(s)) = n
  BY <1>3, InjectiveCount
<1> DEFINE U == ToSet(s)
<1>5. U \in SUBSET S /\ Cardinality(U) = Cardinality(S)
  BY <1>3, <1>4 DEF n
<1> HIDE DEF U
<1>6. U = S
  BY <1>5, FS_Subset
<1>7. QED
  BY <1>3, <1>6 DEF U

---------------------------------------------------------------------------
(* Lists of hits.                                                          *)

\* A hit seen before changes nothing, a new one comes last.
LEMMA AbsorbOne ==
  ASSUME NEW T, NEW items \in Seq(T), NEW x \in T
  PROVE  /\ Absorb(items, <<x>>) \in Seq(T)
         /\ x \in ToSet(items) => Absorb(items, <<x>>) = items
         /\ x \notin ToSet(items) => Absorb(items, <<x>>) = Append(items, x)
<1> DEFINE one == <<x>>
           new == ToSet(one) \ ToSet(items)
           none == <<>>
<1>1. one \in Seq(T) /\ ToSet(one) = {x} /\ none \in Seq(T)
  <2>1. Len(one) = 1 /\ one[1] = x /\ one \in Seq(T) /\ DOMAIN one = {1}
    OBVIOUS
  <2>2. QED
    BY <2>1 DEF ToSet
<1>2. items \o one = Append(items, x) /\ items \o none = items
  OBVIOUS
<1>3. Append(items, x) \in Seq(T)
  BY AppendProperties
<1> HIDE DEF one, none
<1>4. CASE x \in ToSet(items)
  <2>1. ToSet(one) \cap new = {}
    BY <1>1, <1>4
  <2> HIDE DEF new
  <2>2. Filtered(one, new) = none
    BY <1>1, <2>1, FilteredAll DEF none
  <2>3. Absorb(items, one) = items
    BY <1>2, <2>2 DEF Absorb, new
  <2>4. QED
    BY <1>4, <2>3 DEF one
<1>5. CASE x \notin ToSet(items)
  <2>1. ToSet(one) \subseteq new
    BY <1>1, <1>5
  <2> HIDE DEF new
  <2>2. Filtered(one, new) = one
    BY <1>1, <2>1, FilteredAll
  <2>3. Absorb(items, one) = Append(items, x)
    BY <1>2, <2>2 DEF Absorb, new
  <2>4. QED
    BY <1>3, <1>5, <2>3 DEF one
<1>6. QED
  BY <1>4, <1>5

\* The functions that take hit after hit in.
Sightings(hits, T) ==
  {f \in [0..Len(hits) -> Seq(T)] :
     f[0] = <<>> /\ \A n \in 1..Len(hits) : f[n] = Absorb(f[n - 1], <<hits[n]>>)}

\* Distinct is one of them.
LEMMA DistinctSteps ==
  ASSUME NEW T, NEW hits \in Seq(T)
  PROVE  \E f \in Sightings(hits, T) : Distinct(hits) = f[Len(hits)]
<1> DEFINE N == Len(hits)
           Step(n, q) == Absorb(q, <<hits[n]>>)
           step == [n \in 1..N |-> [q \in Seq(T) |-> Step(n, q)]]
           Body(f) == [n \in 0..N |-> IF n = 0 THEN <<>> ELSE Absorb(f[n - 1], <<hits[n]>>)]
           seen == CHOOSE h : h = Body(h)
<1>1. N \in Nat /\ <<>> \in Seq(T) /\ \A n \in 1..N : hits[n] \in T
  OBVIOUS
<1>2. \A n \in 1..N : \A q \in Seq(T) : Step(n, q) \in Seq(T)
  BY <1>1, AbsorbOne
<1>3. step \in [1..N -> [Seq(T) -> Seq(T)]]
  <2> HIDE DEF Step
  <2>1. QED
    BY <1>2
<1>4. PICK f \in [0..N -> Seq(T)] : f[0] = <<>> /\ \A n \in 1..N : f[n] = step[n][f[n - 1]]
  <2> DEFINE V == Seq(T)
             none == <<>>
  <2>1. N \in Nat /\ none \in V /\ step \in [1..N -> [V -> V]]
    BY <1>1, <1>3
  <2> HIDE DEF N, step, V, none
  <2>2. \E f \in [0..N -> V] : f[0] = none /\ \A n \in 1..N : f[n] = step[n][f[n - 1]]
    BY <2>1, Recursion
  <2>3. QED
    BY <2>2 DEF V, none
<1>5. \A n \in 1..N : f[n - 1] \in Seq(T) /\ f[n] = Step(n, f[n - 1])
  <2> TAKE n \in 1..N
  <2>1. f[n - 1] \in Seq(T)
    BY <1>1, <1>4
  <2> HIDE DEF Step
  <2>2. QED
    BY <1>4, <2>1
<1>6. f = Body(f)
  <2> HIDE DEF N
  <2>1. ASSUME NEW n \in 0..N PROVE f[n] = Body(f)[n]
    <3>1. CASE n = 0
      BY <1>4, <3>1
    <3>2. CASE n # 0
      <4>1. n \in 1..N
        BY <1>1, <3>2
      <4>2. f[n] = Step(n, f[n - 1])
        BY <1>5, <4>1
      <4>3. QED
        BY <4>2, <3>2
    <3>3. QED
      BY <3>1, <3>2
  <2>2. QED
    BY <2>1, <1>4
<1>7. seen = Body(seen)
  <2> HIDE DEF Body
  <2>1. QED
    BY <1>6, Zenon
<1>8. Distinct(hits) = seen[N]
  BY DEF Distinct
<1>9. seen[0] = <<>> /\ \A n \in 1..N : seen[n] = Step(n, seen[n - 1])
  <2> HIDE DEF seen, N
  <2>1. seen[0] = <<>>
    BY <1>7, <1>1
  <2>2. ASSUME NEW n \in 1..N PROVE seen[n] = Step(n, seen[n - 1])
    <3>1. n \in 0..N /\ n # 0
       BY <1>1
    <3>2. QED
      BY <1>7, <3>1
  <2>3. QED
    BY <2>1, <2>2
<1>10. \A n \in 0..N : seen[n] = f[n]
  <2> DEFINE Same == {n \in Nat : n <= N => seen[n] = f[n]}
  <2> HIDE DEF seen, N, Step
  <2>1. 0 \in Same
    BY <1>4, <1>9
  <2>2. ASSUME NEW n \in Nat, n \in Same PROVE n + 1 \in Same
    <3> SUFFICES ASSUME n + 1 <= N PROVE seen[n + 1] = f[n + 1]
      OBVIOUS
    <3>1. n + 1 \in 1..N /\ (n + 1) - 1 = n /\ n <= N
      BY <1>1
    <3>2. seen[n] = f[n]
      BY <2>2, <3>1
    <3>3. QED
      BY <1>5, <1>9, <3>1, <3>2
  <2> HIDE DEF Same
  <2>3. Nat \subseteq Same
    BY <2>1, <2>2, NatSetInduction
  <2>4. QED
    BY <2>3, <1>1 DEF Same
<1>11. QED
  <2> HIDE DEF seen
  <2>1. Distinct(hits) = f[N]
    BY <1>1, <1>8, <1>10
  <2>2. f \in Sightings(hits, T)
    BY <1>1, <1>4, <1>5 DEF Sightings
  <2>3. QED
    BY <2>1, <2>2

\* Nothing is distinct of nothing, and a hit at the end is absorbed.
LEMMA DistinctAppend ==
  ASSUME NEW T, NEW s \in Seq(T), NEW x \in T
  PROVE  Distinct(s) \in Seq(T) /\ Distinct(Append(s, x)) = Absorb(Distinct(s), <<x>>)
<1> DEFINE N == Len(s)
           t == Append(s, x)
<1>1. /\ N \in Nat /\ t \in Seq(T) /\ Len(t) = N + 1 /\ t[N + 1] = x
      /\ \A n \in 1..N : t[n] = s[n]
  OBVIOUS
<1> HIDE DEF t
<1>2. PICK f \in Sightings(s, T) : Distinct(s) = f[N]
  BY DistinctSteps
<1>3. /\ f \in [0..N -> Seq(T)] /\ f[0] = <<>>
      /\ \A n \in 1..N : f[n] = Absorb(f[n - 1], <<s[n]>>)
  BY <1>2 DEF Sightings
<1>4. PICK g \in Sightings(t, T) : Distinct(t) = g[N + 1]
  BY <1>1, DistinctSteps
<1>5. /\ g \in [0..N + 1 -> Seq(T)] /\ g[0] = <<>>
      /\ \A n \in 1..N + 1 : g[n] = Absorb(g[n - 1], <<t[n]>>)
  BY <1>1, <1>4 DEF Sightings
<1> HIDE DEF N
<1>6. \A n \in 0..N : g[n] = f[n]
  <2> DEFINE Same == {n \in Nat : n <= N => g[n] = f[n]}
  <2>1. 0 \in Same
    BY <1>3, <1>5
  <2>2. ASSUME NEW n \in Nat, n \in Same PROVE n + 1 \in Same
    <3> SUFFICES ASSUME n + 1 <= N PROVE g[n + 1] = f[n + 1]
      OBVIOUS
    <3>1. n + 1 \in 1..N /\ n + 1 \in 1..N + 1 /\ (n + 1) - 1 = n /\ n <= N
      BY <1>1
    <3>2. g[n] = f[n] /\ t[n + 1] = s[n + 1]
      BY <1>1, <2>2, <3>1
    <3>3. f[n + 1] = Absorb(f[n], <<s[n + 1]>>)
      BY <1>3, <3>1
    <3>4. g[n + 1] = Absorb(g[n], <<t[n + 1]>>)
      BY <1>5, <3>1
    <3>5. QED
      BY <3>2, <3>3, <3>4
  <2> HIDE DEF Same
  <2>3. Nat \subseteq Same
    BY <2>1, <2>2, NatSetInduction
  <2>4. QED
    BY <2>3, <1>1 DEF Same
<1>7. N + 1 \in 1..N + 1 /\ (N + 1) - 1 = N /\ N \in 0..N
  BY <1>1
<1>8. g[N + 1] = Absorb(g[N], <<x>>)
  BY <1>1, <1>5, <1>7
<1>9. QED
  BY <1>2, <1>4, <1>3, <1>6, <1>7, <1>8 DEF t

\* Nothing is distinct of nothing.
LEMMA DistinctEmpty == Distinct(<<>>) = <<>>
<1> DEFINE none == <<>>
<1>1. none \in Seq({}) /\ Len(none) = 0
  OBVIOUS
<1>2. PICK f \in Sightings(none, {}) : Distinct(none) = f[Len(none)]
  <2> HIDE DEF none
  <2>1. QED
    BY <1>1, DistinctSteps
<1>3. f[0] = <<>>
  BY DEF Sightings
<1>4. QED
  BY <1>1, <1>2, <1>3

\* Distinct keeps every hit once, and a list of distinct hits as it is.
LEMMA DistinctOnce ==
  ASSUME NEW T, NEW hits \in Seq(T)
  PROVE  /\ Distinct(hits) \in Seq(T) /\ IsInjective(Distinct(hits))
         /\ ToSet(Distinct(hits)) = ToSet(hits)
         /\ IsInjective(hits) => Distinct(hits) = hits
<1> DEFINE none == <<>>
           Good(q) == /\ Distinct(q) \in Seq(T) /\ IsInjective(Distinct(q))
                      /\ ToSet(Distinct(q)) = ToSet(q)
                      /\ IsInjective(q) => Distinct(q) = q
           G == {q \in Seq(T) : Good(q)}
<1>1. none \in G
  <2>1. none \in Seq(T) /\ IsInjective(none)
    BY DEF IsInjective
  <2>2. Distinct(none) = none
    BY DistinctEmpty
  <2> HIDE DEF none
  <2>3. QED
    BY <2>1, <2>2
<1>2. ASSUME NEW q \in Seq(T), NEW x \in T, q \in G PROVE Append(q, x) \in G
  <2> DEFINE d == Distinct(q)
             u == Append(q, x)
  <2>1. d \in Seq(T) /\ IsInjective(d) /\ ToSet(d) = ToSet(q)
    BY <1>2
  <2>8. IsInjective(q) => d = q
    BY <1>2
  <2>2. Distinct(u) = Absorb(d, <<x>>)
    BY DistinctAppend
  <2>3. u \in Seq(T) /\ ToSet(u) = ToSet(q) \cup {x}
    BY ToSetAppend, AppendProperties
  <2>4. IsInjective(u) <=> IsInjective(q) /\ x \notin ToSet(q)
    BY InjectiveAppend
  <2> HIDE DEF d, u
  <2>5. CASE x \in ToSet(d)
    <3>1. Distinct(u) = d
      BY <2>1, <2>2, <2>5, AbsorbOne
    <3>2. QED
      BY <2>1, <2>3, <2>4, <2>5, <3>1 DEF u
  <2>6. CASE x \notin ToSet(d)
    <3>1. Distinct(u) = Append(d, x)
      BY <2>1, <2>2, <2>6, AbsorbOne
    <3>2. /\ Append(d, x) \in Seq(T) /\ ToSet(Append(d, x)) = ToSet(d) \cup {x}
          /\ IsInjective(Append(d, x))
      BY <2>1, <2>6, ToSetAppend, AppendProperties, InjectiveAppend
    <3>3. IsInjective(u) => Distinct(u) = u
      BY <2>8, <2>4, <3>1 DEF u
    <3>4. QED
      BY <2>1, <2>3, <3>1, <3>2, <3>3 DEF u
  <2>7. QED
    BY <2>5, <2>6
<1> HIDE DEF G
<1>3. Seq(T) \subseteq G
  BY <1>1, <1>2, SeqSetInduction
<1>4. hits \in G
  BY <1>3
<1>5. QED
  BY <1>4 DEF G

\* A hit is before another in the order of _interleave_by_rank: at an earlier
\* position, or at the same one of an earlier batch.
Earlier(batches, x, y) ==
  \E b, c \in 1..Len(batches) : \E p \in 1..Len(batches[b]), q \in 1..Len(batches[c]) :
    x = batches[b][p] /\ y = batches[c][q] /\ (p < q \/ (p = q /\ b < c))
InOrder(batches, T) == {r \in T \X T : Earlier(batches, r[1], r[2])}

\* The hits at a position, of every batch that has one there.
Row(batches, p) ==
  [b \in DOMAIN batches |-> IF p <= Len(batches[b]) THEN <<batches[b][p]>> ELSE <<>>]
Reaching(batches, p) == {b \in 1..Len(batches) : p <= Len(batches[b])}

LEMMA RowFacts ==
  ASSUME NEW T, NEW batches \in Seq(Seq(T)), NEW p \in Nat, p > 0
  PROVE  /\ FlattenSeq(Row(batches, p)) \in Seq(T)
         /\ ToSet(FlattenSeq(Row(batches, p))) = {batches[b][p] : b \in Reaching(batches, p)}
         /\ Sorted(FlattenSeq(Row(batches, p)), InOrder(batches, T))
<1> DEFINE V == Seq(T)
           N == Len(batches)
           row == Row(batches, p)
           R == InOrder(batches, T)
           none == <<>>
           cell(b) == IF p <= Len(batches[b]) THEN <<batches[b][p]>> ELSE none
<1>1. N \in Nat /\ DOMAIN batches = 1..N /\ \A b \in 1..N : batches[b] \in V
  OBVIOUS
<1>2. \A b \in 1..N : Len(batches[b]) \in Nat
  BY <1>1
<1>3. \A b \in 1..N : p <= Len(batches[b]) => p \in 1..Len(batches[b]) /\ batches[b][p] \in T
  BY <1>1, <1>2
<1>4. ASSUME NEW b \in 1..N
      PROVE  /\ cell(b) \in V
             /\ p <= Len(batches[b]) => Len(cell(b)) = 1 /\ cell(b)[1] = batches[b][p]
                                        /\ ToSet(cell(b)) = {batches[b][p]}
             /\ ~(p <= Len(batches[b])) => Len(cell(b)) = 0 /\ ToSet(cell(b)) = {}
  <2> DEFINE x == batches[b][p]
             one == <<x>>
  <2>1. CASE p <= Len(batches[b])
    <3>1. x \in T
      BY <1>3, <2>1
    <3>2. cell(b) = one
      BY <2>1
    <3> HIDE DEF x, cell
    <3>3. one \in Seq(T) /\ Len(one) = 1 /\ one[1] = x /\ DOMAIN one = {1}
      BY <3>1
    <3>4. ToSet(one) = {x}
      BY <3>3 DEF ToSet
    <3> HIDE DEF one
    <3>5. QED
      BY <2>1, <3>2, <3>3, <3>4 DEF x
  <2>2. CASE ~(p <= Len(batches[b]))
    <3>1. cell(b) = none
      BY <2>2
    <3>2. none \in Seq(T) /\ Len(none) = 0 /\ ToSet(none) = {}
      BY DEF ToSet
    <3> HIDE DEF none, cell
    <3>3. QED
      BY <2>2, <3>1, <3>2
  <2>3. QED
    BY <2>1, <2>2
<1>5. row = [b \in 1..N |-> cell(b)]
  BY <1>1 DEF Row
<1> HIDE DEF cell, N, row, R
<1>6. row \in Seq(V) /\ Len(row) = N /\ \A b \in 1..N : row[b] = cell(b)
  <2> HIDE DEF V
  <2>1. \A b \in 1..N : cell(b) \in V
    BY <1>4
  <2>2. QED
    BY <1>1, <1>5, <2>1
<1>7. FlattenSeq(row) \in Seq(T)
  BY <1>6, <1>1, FlattenAppend DEF V
<1>8. ToSet(FlattenSeq(row)) = {batches[b][p] : b \in Reaching(batches, p)}
  <2>1. ToSet(FlattenSeq(row)) = UNION {ToSet(row[b]) : b \in 1..N}
    BY <1>6, FlattenedSet
  <2>2. Reaching(batches, p) = {b \in 1..N : p <= Len(batches[b])}
    BY DEF Reaching, N
  <2>3. ASSUME NEW x PROVE x \in UNION {ToSet(row[b]) : b \in 1..N}
                            <=> x \in {batches[b][p] : b \in Reaching(batches, p)}
    <3>1. ASSUME x \in UNION {ToSet(row[b]) : b \in 1..N}
          PROVE  x \in {batches[b][p] : b \in Reaching(batches, p)}
      <4>1. PICK b \in 1..N : x \in ToSet(row[b])
        BY <3>1
      <4>2. x \in ToSet(cell(b))
        BY <1>6, <4>1
      <4>3. p <= Len(batches[b]) /\ x = batches[b][p]
        BY <1>4, <4>2
      <4>4. QED
        BY <2>2, <4>3
    <3>2. ASSUME x \in {batches[b][p] : b \in Reaching(batches, p)}
          PROVE  x \in UNION {ToSet(row[b]) : b \in 1..N}
      <4>1. PICK b \in 1..N : p <= Len(batches[b]) /\ x = batches[b][p]
        BY <2>2, <3>2
      <4>2. x \in ToSet(row[b])
        BY <1>4, <1>6, <4>1
      <4>3. QED
        BY <4>2
    <3>3. QED
      BY <3>1, <3>2
  <2>4. QED
    BY <2>1, <2>3
<1>9. \A b \in 1..N : Sorted(row[b], R)
  <2> TAKE b \in 1..N
  <2>1. Len(row[b]) \in {0, 1}
    BY <1>4, <1>6
  <2>2. QED
    BY <2>1 DEF Sorted
<1>10. ASSUME NEW b \in 1..N, NEW c \in 1..N, b < c, NEW x \in ToSet(row[b]), NEW y \in ToSet(row[c])
       PROVE  <<x, y>> \in R
  <2>1. /\ p <= Len(batches[b]) /\ x = batches[b][p]
        /\ p <= Len(batches[c]) /\ y = batches[c][p]
    BY <1>4, <1>6
  <2>2. p \in 1..Len(batches[b]) /\ p \in 1..Len(batches[c]) /\ x \in T /\ y \in T
    BY <1>3, <2>1
  <2>3. Earlier(batches, x, y)
    BY <1>10, <2>1, <2>2 DEF Earlier, N
  <2>4. QED
    BY <2>2, <2>3 DEF R, InOrder
<1>11. Sorted(FlattenSeq(row), R)
  BY <1>6, <1>9, <1>10, FlattenSorted
<1>12. QED
  BY <1>7, <1>8, <1>11 DEF row, R

\* ByPosition has every hit of every batch, in the order of the positions.
LEMMA Positions ==
  ASSUME NEW T, NEW batches \in Seq(Seq(T))
  PROVE  /\ ByPosition(batches) \in Seq(T)
         /\ ToSet(ByPosition(batches)) = UNION {ToSet(batches[b]) : b \in 1..Len(batches)}
         /\ Sorted(ByPosition(batches), InOrder(batches, T))
<1> DEFINE V == Seq(T)
           N == Len(batches)
           lengths == {Len(batches[b]) : b \in DOMAIN batches} \cup {0}
           M == Max(lengths)
           flat(p) == FlattenSeq(Row(batches, p))
           rows == [p \in 1..M |-> flat(p)]
           R == InOrder(batches, T)
<1>1. N \in Nat /\ DOMAIN batches = 1..N /\ \A b \in 1..N : batches[b] \in V /\ Len(batches[b]) \in Nat
  OBVIOUS
<1>2. M \in Nat /\ \A b \in 1..N : Len(batches[b]) <= M
  <2>1. lengths \in SUBSET Nat /\ lengths # {}
    BY <1>1
  <2>2. IsFiniteSet({Len(batches[b]) : b \in 1..N})
    <3>1. IsFiniteSet(1..N)
      BY <1>1, FirstNumbers
    <3> DEFINE S == 1..N
               I == {Len(batches[b]) : b \in 1..N}
               length == [b \in S |-> Len(batches[b])]
    <3>2. length \in Surjection(S, I)
      BY DEF Surjection
    <3> HIDE DEF S, I, length
    <3>3. IsFiniteSet(I)
      BY <3>1, <3>2, FS_Surjection DEF S
    <3>4. QED
      BY <3>3 DEF I
  <2>3. IsFiniteSet(lengths)
    <3> DEFINE L == {Len(batches[b]) : b \in 1..N}
    <3>1. IsFiniteSet(L)
      BY <2>2
    <3> HIDE DEF L
    <3>2. IsFiniteSet(L \cup {0})
      BY <3>1, FS_AddElement
    <3>3. QED
      BY <1>1, <3>2 DEF L
  <2>4. \A b \in 1..N : Len(batches[b]) \in lengths
    BY <1>1
  <2> HIDE DEF lengths
  <2>5. Max(lengths) \in lengths /\ \A x \in lengths : x <= Max(lengths)
    BY <2>1, <2>3, GreatestOf
  <2>6. QED
    BY <2>1, <2>4, <2>5
<1>3. ByPosition(batches) = FlattenSeq(rows)
  BY DEF ByPosition, Row
<1> HIDE DEF M, N, R, flat
<1>4. \A p \in 1..M : p \in Nat /\ p > 0
  BY <1>2
<1>5. \A p \in 1..M : /\ flat(p) \in V /\ Sorted(flat(p), R)
                      /\ ToSet(flat(p)) = {batches[b][p] : b \in Reaching(batches, p)}
  BY <1>4, RowFacts DEF flat, R
<1>6. rows \in Seq(V) /\ Len(rows) = M /\ \A p \in 1..M : rows[p] = flat(p)
  <2> HIDE DEF V
  <2>1. QED
    BY <1>2, <1>5
<1> HIDE DEF rows
<1>7. FlattenSeq(rows) \in Seq(T)
  <2> DEFINE none == <<>>
  <2>1. none \in Seq(T)
    OBVIOUS
  <2> HIDE DEF none
  <2>2. QED
    BY <1>6, <2>1, FlattenAppend DEF V
<1>8. ToSet(FlattenSeq(rows)) = UNION {ToSet(batches[b]) : b \in 1..N}
  <2>1. ToSet(FlattenSeq(rows)) = UNION {ToSet(rows[p]) : p \in 1..M}
    BY <1>6, FlattenedSet
  <2>2. \A p : Reaching(batches, p) = {b \in 1..N : p <= Len(batches[b])}
    BY DEF Reaching, N
  <2>3. ASSUME NEW x PROVE x \in UNION {ToSet(rows[p]) : p \in 1..M}
                            <=> x \in UNION {ToSet(batches[b]) : b \in 1..N}
    <3>1. ASSUME x \in UNION {ToSet(rows[p]) : p \in 1..M}
          PROVE  x \in UNION {ToSet(batches[b]) : b \in 1..N}
      <4>1. PICK p \in 1..M : x \in ToSet(rows[p])
        BY <3>1
      <4>2. x \in {batches[b][p] : b \in Reaching(batches, p)}
        BY <1>5, <1>6, <4>1
      <4>3. PICK b \in 1..N : p <= Len(batches[b]) /\ x = batches[b][p]
        BY <2>2, <4>2
      <4>4. p \in 1..Len(batches[b]) /\ DOMAIN batches[b] = 1..Len(batches[b])
        BY <1>1, <1>4, <4>3
      <4>5. x \in ToSet(batches[b])
        BY <4>3, <4>4 DEF ToSet
      <4>6. QED
        BY <4>5
    <3>2. ASSUME x \in UNION {ToSet(batches[b]) : b \in 1..N}
          PROVE  x \in UNION {ToSet(rows[p]) : p \in 1..M}
      <4>1. PICK b \in 1..N : x \in ToSet(batches[b])
        BY <3>2
      <4>2. DOMAIN batches[b] = 1..Len(batches[b])
        BY <1>1
      <4>3. PICK p \in 1..Len(batches[b]) : x = batches[b][p]
        BY <4>1, <4>2 DEF ToSet
      <4>4. p \in 1..M /\ p <= Len(batches[b])
        BY <1>1, <1>2
      <4>5. b \in Reaching(batches, p)
        BY <2>2, <4>4
      <4>6. x \in {batches[c][p] : c \in Reaching(batches, p)}
        BY <4>3, <4>5
      <4>7. x \in ToSet(rows[p])
        BY <1>5, <1>6, <4>4, <4>6
      <4>8. QED
        BY <4>4, <4>7
    <3>3. QED
      BY <3>1, <3>2
  <2>4. QED
    BY <2>1, <2>3
<1>9. \A p \in 1..M : Sorted(rows[p], R)
  BY <1>5, <1>6
<1>10. ASSUME NEW p \in 1..M, NEW q \in 1..M, p < q, NEW x \in ToSet(rows[p]), NEW y \in ToSet(rows[q])
       PROVE  <<x, y>> \in R
  <2>1. PICK b \in Reaching(batches, p) : x = batches[b][p]
    BY <1>5, <1>6
  <2>2. PICK c \in Reaching(batches, q) : y = batches[c][q]
    BY <1>5, <1>6
  <2>3. b \in 1..N /\ p \in 1..Len(batches[b]) /\ c \in 1..N /\ q \in 1..Len(batches[c])
    BY <1>1, <1>4 DEF Reaching, N
  <2>4. x \in T /\ y \in T
    BY <1>1, <2>1, <2>2, <2>3
  <2>5. Earlier(batches, x, y)
    BY <1>10, <2>1, <2>2, <2>3 DEF Earlier, N
  <2>6. QED
    BY <2>4, <2>5 DEF R, InOrder
<1>11. Sorted(FlattenSeq(rows), R)
  BY <1>6, <1>9, <1>10, FlattenSorted
<1>12. QED
  BY <1>3, <1>7, <1>8, <1>11 DEF N, R

\* Merging the batches loses no hit and shows none twice.
LEMMA Interleaved ==
  ASSUME NEW T, NEW batches \in Seq(Seq(T))
  PROVE  /\ InterleaveByRank(batches) \in Seq(T) /\ IsInjective(InterleaveByRank(batches))
         /\ ToSet(InterleaveByRank(batches)) = UNION {ToSet(batches[b]) : b \in 1..Len(batches)}
<1> DEFINE hits == ByPosition(batches)
<1>1. hits \in Seq(T) /\ ToSet(hits) = UNION {ToSet(batches[b]) : b \in 1..Len(batches)}
  BY Positions
<1> HIDE DEF hits
<1>2. /\ Distinct(hits) \in Seq(T) /\ IsInjective(Distinct(hits))
      /\ ToSet(Distinct(hits)) = ToSet(hits)
  BY <1>1, DistinctOnce
<1>3. QED
  BY <1>1, <1>2 DEF InterleaveByRank, hits

\* The hits up to the limit.
LEMMA FirstOf ==
  ASSUME NEW T, NEW s \in Seq(T), NEW n \in Nat
  PROVE  /\ First(s, n) \in Seq(T) /\ Len(First(s, n)) <= n
         /\ Len(First(s, n)) = IF Len(s) < n THEN Len(s) ELSE n
         /\ \A k \in 1..Len(First(s, n)) : First(s, n)[k] = s[k]
         /\ IsInjective(s) => IsInjective(First(s, n))
         /\ Len(s) <= n => First(s, n) = s
<1> DEFINE m == IF Len(s) < n THEN Len(s) ELSE n
<1>1. m \in 0..Len(s) /\ m <= n /\ (Len(s) <= n => m = Len(s))
  OBVIOUS
<1>2. First(s, n) = Before(s, m)
  BY DEF First, Before
<1> HIDE DEF m
<1>3. /\ Before(s, m) \in Seq(T) /\ Len(Before(s, m)) = m
      /\ \A k \in 1..m : Before(s, m)[k] = s[k]
      /\ IsInjective(s) => IsInjective(Before(s, m))
  BY <1>1, CutInTwo
<1>4. m = Len(s) => Before(s, m) = s
  BY <1>3, SeqEqual
<1>5. QED
  BY <1>1, <1>2, <1>3, <1>4 DEF m

\* The first of the first.
LEMMA FirstFirst ==
  ASSUME NEW T, NEW s \in Seq(T), NEW n \in Nat, NEW k \in 1..n
  PROVE  First(First(s, n), k) = First(s, k)
<1> DEFINE f == First(s, n)
           g == First(f, k)
           h == First(s, k)
<1>1. k \in Nat /\ Len(s) \in Nat
  OBVIOUS
<1>2. /\ f \in Seq(T) /\ Len(f) = IF Len(s) < n THEN Len(s) ELSE n
      /\ \A i \in 1..Len(f) : f[i] = s[i]
  BY FirstOf
<1> HIDE DEF f
<1>3. /\ g \in Seq(T) /\ Len(g) = IF Len(f) < k THEN Len(f) ELSE k
      /\ \A i \in 1..Len(g) : g[i] = f[i]
  BY <1>1, <1>2, FirstOf
<1>4. /\ h \in Seq(T) /\ Len(h) = IF Len(s) < k THEN Len(s) ELSE k
      /\ \A i \in 1..Len(h) : h[i] = s[i]
  BY <1>1, FirstOf
<1> HIDE DEF g, h
<1>5. Len(g) = Len(h)
  BY <1>1, <1>2, <1>3, <1>4
<1>6. \A i \in 1..Len(g) : g[i] = h[i]
  BY <1>1, <1>2, <1>3, <1>4
<1>7. g = h
  BY <1>3, <1>4, <1>5, <1>6, SeqEqual
<1>8. QED
  BY <1>7 DEF f, g, h

\* The first of two lists begins the second.
Begins(s, t) == Len(s) <= Len(t) /\ \A k \in 1..Len(s) : s[k] = t[k]


\* Batches that share no hit.
Separate(batches) ==
  /\ \A b \in 1..Len(batches) : IsInjective(batches[b])
  /\ \A b, c \in 1..Len(batches) : b # c => ToSet(batches[b]) \cap ToSet(batches[c]) = {}

\* Batch b has x at its p-th place.
At(batches, x, b, p) ==
  b \in 1..Len(batches) /\ p \in 1..Len(batches[b]) /\ batches[b][p] = x

\* A hit is at one place of one of them.
LEMMA OnePlace ==
  ASSUME NEW T, NEW batches \in Seq(Seq(T)), Separate(batches), NEW x,
         NEW b, NEW p, At(batches, x, b, p), NEW c, NEW q, At(batches, x, c, q)
  PROVE  b = c /\ p = q
<1>1. /\ b \in 1..Len(batches) /\ p \in 1..Len(batches[b]) /\ batches[b][p] = x
      /\ c \in 1..Len(batches) /\ q \in 1..Len(batches[c]) /\ batches[c][q] = x
  BY DEF At
<1>2. batches[b] \in Seq(T) /\ batches[c] \in Seq(T)
  BY <1>1
<1>3. DOMAIN batches[b] = 1..Len(batches[b]) /\ DOMAIN batches[c] = 1..Len(batches[c])
  BY <1>2
<1>4. x \in ToSet(batches[b]) \cap ToSet(batches[c])
  BY <1>1, <1>3 DEF ToSet
<1>5. b = c
  BY <1>1, <1>4 DEF Separate
<1>6. IsInjective(batches[b])
  BY <1>1 DEF Separate
<1>7. p = q
  BY <1>1, <1>3, <1>5, <1>6 DEF IsInjective
<1>8. QED
  BY <1>5, <1>7

\* No hit is before itself, so each comes once, and Distinct drops none.
LEMMA InterleavedInOrder ==
  ASSUME NEW T, NEW batches \in Seq(Seq(T)), Separate(batches)
  PROVE  Sorted(InterleaveByRank(batches), InOrder(batches, T))
<1> DEFINE hits == ByPosition(batches)
           R == InOrder(batches, T)
<1>1. hits \in Seq(T) /\ Sorted(hits, R)
  BY Positions
<1> HIDE DEF hits
<1>2. ASSUME NEW x, <<x, x>> \in R PROVE FALSE
  <2>1. Earlier(batches, x, x)
    BY <1>2 DEF R, InOrder
  <2>2. PICK b \in 1..Len(batches), c \in 1..Len(batches) :
          \E p \in 1..Len(batches[b]), q \in 1..Len(batches[c]) :
            x = batches[b][p] /\ x = batches[c][q] /\ (p < q \/ (p = q /\ b < c))
    BY <2>1 DEF Earlier
  <2>3. PICK p \in 1..Len(batches[b]), q \in 1..Len(batches[c]) :
          x = batches[b][p] /\ x = batches[c][q] /\ (p < q \/ (p = q /\ b < c))
    BY <2>2
  <2>4. At(batches, x, b, p) /\ At(batches, x, c, q)
    BY <2>3 DEF At
  <2>5. b = c /\ p = q
    BY <2>4, OnePlace
  <2>6. QED
    BY <2>3, <2>5
<1> HIDE DEF R
<1>3. IsInjective(hits)
  <2> SUFFICES ASSUME NEW k \in 1..Len(hits), NEW m \in 1..Len(hits), hits[k] = hits[m], k # m
               PROVE  FALSE
    BY <1>1 DEF IsInjective
  <2>1. CASE k < m
    BY <1>1, <1>2, <2>1 DEF Sorted
  <2>2. CASE m < k
    BY <1>1, <1>2, <2>2 DEF Sorted
  <2>3. QED
    BY <1>1, <2>1, <2>2
<1>4. Distinct(hits) = hits
  BY <1>1, <1>3, DistinctOnce
<1>5. QED
  BY <1>1, <1>4 DEF InterleaveByRank, hits, R

\* Two merged hits, one before the other: it is at an earlier position of its
\* batch, or at the same one of an earlier batch.
LEMMA MergedEarlier ==
  ASSUME NEW T, NEW batches \in Seq(Seq(T)), Separate(batches),
         NEW k \in 1..Len(InterleaveByRank(batches)), NEW m \in 1..Len(InterleaveByRank(batches)),
         k < m,
         NEW b, NEW p, At(batches, InterleaveByRank(batches)[k], b, p),
         NEW c, NEW q, At(batches, InterleaveByRank(batches)[m], c, q)
  PROVE  p < q \/ (p = q /\ b < c)
<1> DEFINE s == InterleaveByRank(batches)
           x == s[k]
           y == s[m]
<1>1. <<x, y>> \in InOrder(batches, T)
  BY InterleavedInOrder DEF Sorted
<1>2. Earlier(batches, x, y)
  BY <1>1 DEF InOrder
<1> HIDE DEF x, y
<1>3. PICK d \in 1..Len(batches), e \in 1..Len(batches) :
        \E u \in 1..Len(batches[d]), v \in 1..Len(batches[e]) :
          x = batches[d][u] /\ y = batches[e][v] /\ (u < v \/ (u = v /\ d < e))
  BY <1>2 DEF Earlier
<1>4. PICK u \in 1..Len(batches[d]), v \in 1..Len(batches[e]) :
        x = batches[d][u] /\ y = batches[e][v] /\ (u < v \/ (u = v /\ d < e))
  BY <1>3
<1>5. /\ At(batches, x, d, u) /\ At(batches, x, b, p)
      /\ At(batches, y, e, v) /\ At(batches, y, c, q)
  BY <1>4 DEF At, x, y
<1>6. d = b /\ u = p
  BY <1>5, OnePlace
<1>7. e = c /\ v = q
  BY <1>5, OnePlace
<1>8. QED
  BY <1>4, <1>6, <1>7

\* x is at an earlier position than q, or at the same one of an earlier batch than b.
AheadOfPlace(batches, x, b, q) ==
  \E c \in 1..Len(batches) : \E p \in 1..Len(batches[c]) :
    x = batches[c][p] /\ (p < q \/ (p = q /\ c < b))

\* One hit more than are shown is enough of every batch: however much more of
\* the order of a batch there is, what is shown is ahead of it.
LEMMA EnoughOfEach ==
  ASSUME NEW T, NEW whole \in Seq(Seq(T)), NEW cut \in Seq(Seq(T)), NEW n \in Nat,
         Len(cut) = Len(whole), Separate(whole),
         \A b \in 1..Len(cut) : Begins(cut[b], whole[b]) /\ (cut[b] = whole[b] \/ Len(cut[b]) > n),
         NEW k \in 1..n, NEW b \in 1..Len(whole), NEW q \in 1..Len(whole[b]),
         whole[b][q] \notin ToSet(First(InterleaveByRank(cut), k))
  PROVE  /\ k <= Len(InterleaveByRank(cut))
         /\ AheadOfPlace(whole, InterleaveByRank(cut)[k], b, q)
<1> DEFINE s == InterleaveByRank(cut)
           N == Len(cut)
           j == whole[b][q]
<1>1. /\ N \in Nat /\ Len(whole) = N /\ b \in 1..N /\ k \in Nat /\ k > 0 /\ k <= n
      /\ \A c \in 1..N : /\ cut[c] \in Seq(T) /\ Len(cut[c]) \in Nat /\ DOMAIN cut[c] = 1..Len(cut[c])
                         /\ whole[c] \in Seq(T) /\ Len(whole[c]) \in Nat /\ DOMAIN whole[c] = 1..Len(whole[c])
  OBVIOUS
<1>2. \A c \in 1..N : \A p \in 1..Len(cut[c]) : p \in 1..Len(whole[c]) /\ cut[c][p] = whole[c][p]
  <2> TAKE c \in 1..N
  <2>1. Len(cut[c]) <= Len(whole[c]) /\ \A p \in 1..Len(cut[c]) : cut[c][p] = whole[c][p]
    BY DEF Begins
  <2>2. QED
    BY <1>1, <2>1
<1>3. Separate(cut)
  <2>1. ASSUME NEW c \in 1..N PROVE IsInjective(cut[c]) /\ ToSet(cut[c]) \subseteq ToSet(whole[c])
    <3>1. IsInjective(whole[c])
      BY <1>1, <2>1 DEF Separate
    <3>2. \A p \in DOMAIN cut[c] : p \in DOMAIN whole[c] /\ cut[c][p] = whole[c][p]
      BY <1>1, <1>2, <2>1
    <3>3. IsInjective(cut[c])
      BY <3>1, <3>2 DEF IsInjective
    <3>4. ToSet(cut[c]) \subseteq ToSet(whole[c])
      BY <3>2 DEF ToSet
    <3>5. QED
      BY <3>3, <3>4
  <2>2. QED
    BY <1>1, <2>1 DEF Separate
<1>4. /\ s \in Seq(T) /\ IsInjective(s)
      /\ ToSet(s) = UNION {ToSet(cut[c]) : c \in 1..N}
  BY Interleaved
<1> HIDE DEF s
<1>5. DOMAIN s = 1..Len(s) /\ Len(s) \in Nat
  BY <1>4
\* Every hit has its place in a batch, and every place its hit.
<1>6. ASSUME NEW m \in 1..Len(s)
      PROVE  \E c \in 1..N : \E p \in 1..Len(cut[c]) : s[m] = cut[c][p]
  <2>1. s[m] \in ToSet(s)
    BY <1>5 DEF ToSet
  <2>2. PICK c \in 1..N : s[m] \in ToSet(cut[c])
    BY <1>4, <2>1
  <2>3. QED
    BY <1>1, <2>2 DEF ToSet
<1>7. ASSUME NEW c \in 1..N, NEW p \in 1..Len(cut[c])
      PROVE  \E m \in 1..Len(s) : s[m] = cut[c][p]
  <2>1. cut[c][p] \in ToSet(cut[c])
    BY <1>1 DEF ToSet
  <2>2. cut[c][p] \in ToSet(s)
    BY <1>4, <2>1
  <2>3. QED
    BY <1>5, <2>2 DEF ToSet
\* What is at most k places behind is shown.
<1>8. ASSUME NEW m \in 1..Len(s), s[m] = j PROVE m > k
  <2> SUFFICES ASSUME m <= k PROVE FALSE
    BY <1>1, <1>5
  <2> DEFINE f == First(s, k)
  <2>1. /\ f \in Seq(T) /\ Len(f) = IF Len(s) < k THEN Len(s) ELSE k
        /\ \A i \in 1..Len(f) : f[i] = s[i]
    BY <1>1, <1>4, FirstOf
  <2> HIDE DEF f
  <2>2. m \in 1..Len(f) /\ DOMAIN f = 1..Len(f)
    BY <1>1, <1>5, <2>1
  <2>3. f[m] = j
    BY <1>8, <2>1, <2>2
  <2>4. j \in ToSet(f)
    BY <2>2, <2>3 DEF ToSet
  <2>5. QED
    BY <2>4 DEF f, s
<1>9. CASE q <= Len(cut[b])
  <2>0. q \in 1..Len(cut[b])
    BY <1>1, <1>9
  <2>1. cut[b][q] = j
    BY <1>1, <1>2, <2>0
  <2>2. PICK m \in 1..Len(s) : s[m] = j
    BY <1>1, <1>7, <2>0, <2>1
  <2>3. m > k /\ k \in 1..Len(s)
    <3>1. m > k
      BY <1>8, <2>2
    <3>2. QED
      BY <1>1, <1>5, <3>1
  <2>4. PICK c \in 1..N : \E p \in 1..Len(cut[c]) : s[k] = cut[c][p]
    BY <1>6, <2>3
  <2>5. PICK p \in 1..Len(cut[c]) : s[k] = cut[c][p]
    BY <2>4
  <2>6. p < q \/ (p = q /\ c < b)
    <3>1. At(cut, s[k], c, p) /\ At(cut, s[m], b, q)
      BY <1>1, <2>0, <2>1, <2>2, <2>5 DEF At
    <3>2. k < m
      BY <1>1, <1>5, <2>3
    <3>3. QED
      BY <1>3, <2>3, <3>1, <3>2, MergedEarlier DEF s
  <2>7. p \in 1..Len(whole[c]) /\ s[k] = whole[c][p]
    BY <1>2, <2>5
  <2>8. QED
    BY <1>1, <2>3, <2>6, <2>7 DEF s, AheadOfPlace
<1>10. CASE ~(q <= Len(cut[b]))
  <2>1. Len(cut[b]) > n /\ q > n
    <3>1. cut[b] # whole[b]
      BY <1>10
    <3>2. Len(cut[b]) > n
      BY <1>1, <3>1
    <3>3. QED
      BY <1>1, <1>10, <3>2
  <2>2. Len(s) >= Len(cut[b])
    <3> DEFINE A == ToSet(cut[b])
               B == ToSet(s)
    <3>1. cut[b] \in Seq(T) /\ IsInjective(cut[b])
      BY <1>1, <1>3 DEF Separate
    <3>2. IsFiniteSet(A) /\ Cardinality(A) = Len(cut[b])
      BY <3>1, InjectiveCount
    <3>3. IsFiniteSet(B) /\ Cardinality(B) = Len(s)
      BY <1>4, InjectiveCount
    <3>4. A \in SUBSET B
      BY <1>1, <1>4
    <3> HIDE DEF A, B
    <3>5. Cardinality(A) <= Cardinality(B)
      BY <3>3, <3>4, FS_Subset
    <3>6. QED
      BY <1>1, <1>5, <3>2, <3>3, <3>5
  <2>3. k \in 1..Len(s)
    BY <1>1, <1>5, <2>1, <2>2
  <2>4. PICK c \in 1..N : \E p \in 1..Len(cut[c]) : s[k] = cut[c][p]
    BY <1>6, <2>3
  <2>5. PICK p \in 1..Len(cut[c]) : s[k] = cut[c][p]
    BY <2>4
  <2>6. p <= n
    <3> SUFFICES ASSUME p > n PROVE FALSE
      BY <1>1
    \* The first n hits of the batch of j would all be before the k-th.
    <3> DEFINE t == cut[b]
               i == k - 1
               H == First(t, n)
               K == First(s, i)
    <3>1. n < Len(t) /\ i \in Nat /\ i < Len(s) /\ t \in Seq(T) /\ IsInjective(t)
      BY <1>1, <1>3, <1>5, <2>1, <2>3 DEF Separate
    <3> HIDE DEF t, i
    <3>2. Len(H) = n /\ H \in Seq(T) /\ IsInjective(H) /\ \A r \in 1..n : H[r] = cut[b][r]
      <4>1. t \in Seq(T)
        BY <3>1
      <4>2. /\ H \in Seq(T) /\ Len(H) = IF Len(t) < n THEN Len(t) ELSE n
            /\ \A r \in 1..Len(H) : H[r] = t[r]
            /\ IsInjective(t) => IsInjective(H)
        BY <4>1, FirstOf
      <4>3. QED
        BY <1>1, <3>1, <4>2 DEF t
    <3>3. /\ Len(K) = k - 1 /\ K \in Seq(T) /\ IsInjective(K)
          /\ \A r \in 1..k - 1 : K[r] = s[r]
      <4>1. /\ K \in Seq(T) /\ Len(K) = IF Len(s) < i THEN Len(s) ELSE i
            /\ \A r \in 1..Len(K) : K[r] = s[r]
            /\ IsInjective(s) => IsInjective(K)
        BY <1>4, <3>1, FirstOf
      <4>2. QED
        BY <1>4, <1>5, <3>1, <4>1 DEF i
    <3> HIDE DEF H, K
    <3>4. ASSUME NEW r \in 1..n PROVE H[r] \in ToSet(K)
      <4>1. r \in 1..Len(cut[b]) /\ H[r] = cut[b][r] /\ r \in Nat
        BY <1>1, <2>1, <3>2
      <4>2. PICK m \in 1..Len(s) : s[m] = cut[b][r]
        BY <1>1, <1>7, <4>1
      <4>3. m # k
        <5> SUFFICES ASSUME m = k PROVE FALSE
          OBVIOUS
        <5>1. At(cut, s[k], c, p) /\ At(cut, s[k], b, r)
          BY <1>1, <2>5, <4>1, <4>2 DEF At
        <5>2. r = p
          BY <1>3, <5>1, OnePlace
        <5>3. QED
          BY <1>1, <5>2
      <4>4. ~(k < m)
        <5> SUFFICES ASSUME k < m PROVE FALSE
          OBVIOUS
        <5>1. p < r \/ (p = r /\ c < b)
          <6>1. At(cut, s[k], c, p) /\ At(cut, s[m], b, r)
            BY <1>1, <2>5, <4>1, <4>2 DEF At
          <6>2. QED
            BY <1>3, <2>3, <6>1, MergedEarlier DEF s
        <5>2. QED
          BY <1>1, <4>1, <5>1
      <4>5. m \in 1..k - 1 /\ DOMAIN K = 1..k - 1
        BY <1>1, <1>5, <3>3, <4>3, <4>4
      <4>6. K[m] = H[r]
        BY <3>3, <4>1, <4>2, <4>5
      <4>7. QED
        BY <4>5, <4>6 DEF ToSet
    <3> DEFINE A == ToSet(H)
               B == ToSet(K)
    <3>5. A \in SUBSET B
      <4>1. DOMAIN H = 1..n
        BY <1>1, <3>2
      <4>2. QED
        BY <3>4, <4>1 DEF ToSet
    <3>6. IsFiniteSet(B) /\ Cardinality(B) = k - 1 /\ Cardinality(A) = n
      BY <3>2, <3>3, InjectiveCount
    <3> HIDE DEF A, B
    <3>7. Cardinality(A) <= Cardinality(B)
      BY <3>5, <3>6, FS_Subset
    <3>8. QED
      BY <1>1, <3>6, <3>7
  <2>7. p < q /\ p \in 1..Len(whole[c]) /\ s[k] = whole[c][p]
    BY <1>1, <1>2, <2>1, <2>5, <2>6
  <2>8. QED
    BY <1>1, <2>3, <2>7 DEF s, AheadOfPlace
<1>11. QED
  BY <1>9, <1>10

\* Filtering keeps the order.
LEMMA FilteredSorted ==
  ASSUME NEW T, NEW s \in Seq(T), NEW S, NEW R, Sorted(s, R)
  PROVE  Sorted(Filtered(s, S), R)
<1> DEFINE G == {t \in Seq(T) : Sorted(t, R) => Sorted(Filtered(t, S), R)}
           none == <<>>
<1>1. none \in G
  <2>1. none \in Seq(T) /\ Len(none) = 0
    OBVIOUS
  <2>2. Filtered(none, S) = none
    BY FilteredEmpty
  <2>3. Sorted(none, R)
    BY <2>1 DEF Sorted
  <2> HIDE DEF none
  <2>4. QED
    BY <2>1, <2>2, <2>3
<1>2. ASSUME NEW t \in Seq(T), NEW x \in T, t \in G
      PROVE  Append(t, x) \in G
  <2> DEFINE u == Append(t, x)
             f == Filtered(t, S)
  <2>1. /\ u \in Seq(T) /\ Len(u) = Len(t) + 1 /\ u[Len(t) + 1] = x
        /\ \A k \in 1..Len(t) : u[k] = t[k]
    OBVIOUS
  <2>2. f \in Seq(T) /\ ToSet(f) \subseteq ToSet(t) /\ Len(t) \in Nat /\ DOMAIN t = 1..Len(t)
    BY FilteredSet
  <2>3. Filtered(u, S) = Append(f, x) \/ Filtered(u, S) = f
    BY FilteredAppend
  <2> HIDE DEF u, f
  <2>4. SUFFICES ASSUME Sorted(u, R) PROVE Sorted(Filtered(u, S), R)
    BY <2>1 DEF u
  <2>5. Sorted(t, R)
    BY <2>1, <2>2, <2>4 DEF Sorted
  <2>6. Sorted(f, R)
    BY <1>2, <2>5 DEF f
  <2>7. ASSUME NEW y \in ToSet(f) PROVE <<y, x>> \in R
    <3>1. PICK k \in 1..Len(t) : y = t[k]
      BY <2>2 DEF ToSet
    <3>2. k < Len(t) + 1 /\ k \in 1..Len(u) /\ Len(t) + 1 \in 1..Len(u)
      BY <2>1, <2>2
    <3>3. <<u[k], u[Len(t) + 1]>> \in R
      BY <2>4, <3>2 DEF Sorted
    <3>4. QED
      BY <2>1, <3>1, <3>3
  <2>8. Sorted(Append(f, x), R)
    <3> DEFINE g == Append(f, x)
    <3>1. /\ Len(g) = Len(f) + 1 /\ g[Len(f) + 1] = x /\ Len(f) \in Nat
          /\ \A k \in 1..Len(f) : g[k] = f[k]
      BY <2>2
    <3>2. \A k \in 1..Len(f) : f[k] \in ToSet(f)
      BY <2>2 DEF ToSet
    <3> HIDE DEF g
    <3>3. SUFFICES ASSUME NEW a \in 1..Len(g), NEW b \in 1..Len(g), a < b PROVE <<g[a], g[b]>> \in R
      BY DEF g, Sorted
    <3>4. a \in 1..Len(f) /\ (b \in 1..Len(f) \/ b = Len(f) + 1)
      BY <3>1, <3>3
    <3>5. CASE b \in 1..Len(f)
      BY <2>6, <3>1, <3>3, <3>4, <3>5 DEF Sorted
    <3>6. CASE b = Len(f) + 1
      <4>1. g[b] = x /\ g[a] = f[a] /\ f[a] \in ToSet(f)
        BY <3>1, <3>2, <3>4, <3>6
      <4>2. QED
        BY <2>7, <4>1
    <3>7. QED
      BY <3>4, <3>5, <3>6
  <2>9. QED
    BY <2>3, <2>6, <2>8
<1>3. Seq(T) \subseteq G
  <2> HIDE DEF G, none
  <2>1. QED
    BY <1>1, <1>2, SeqSetInduction DEF none
<1>4. s \in G
  BY <1>3
<1>5. QED
  BY <1>4

\* What begins a sorted list is sorted.
LEMMA FirstSorted ==
  ASSUME NEW T, NEW s \in Seq(T), NEW n \in Nat, NEW R, Sorted(s, R)
  PROVE  Sorted(First(s, n), R)
<1> DEFINE f == First(s, n)
<1>1. /\ f \in Seq(T) /\ Len(f) = IF Len(s) < n THEN Len(s) ELSE n
      /\ \A k \in 1..Len(f) : f[k] = s[k]
  BY FirstOf
<1> HIDE DEF f
<1>2. Len(s) \in Nat /\ Len(f) \in Nat /\ Len(f) <= Len(s)
  BY <1>1
<1>3. SUFFICES ASSUME NEW a \in 1..Len(f), NEW b \in 1..Len(f), a < b PROVE <<f[a], f[b]>> \in R
  BY DEF f, Sorted
<1>4. a \in 1..Len(s) /\ b \in 1..Len(s)
  BY <1>2
<1>5. QED
  BY <1>1, <1>3, <1>4 DEF Sorted

\* An element of a list with few before it has a place near the front.
LEMMA PlaceOf ==
  ASSUME NEW T, NEW s \in Seq(T), IsInjective(s), NEW R, Sorted(s, R),
         NEW x \in ToSet(s), NEW A, IsFiniteSet(A),
         \A y \in ToSet(s) : <<y, x>> \in R => y \in A
  PROVE  \E q \in 1..Len(s) : s[q] = x /\ q <= Cardinality(A) + 1
<1>1. Len(s) \in Nat /\ DOMAIN s = 1..Len(s)
  OBVIOUS
<1>2. PICK q \in 1..Len(s) : s[q] = x
  BY <1>1 DEF ToSet
<1> DEFINE n == q - 1
           f == First(s, n)
           B == ToSet(f)
<1>3. n \in Nat /\ n < Len(s)
  BY <1>1, <1>2
<1>4. /\ f \in Seq(T) /\ Len(f) = IF Len(s) < n THEN Len(s) ELSE n
      /\ \A k \in 1..Len(f) : f[k] = s[k]
      /\ IsInjective(s) => IsInjective(f)
  BY <1>3, FirstOf
<1>5. IsFiniteSet(B) /\ Cardinality(B) = n
  BY <1>1, <1>3, <1>4, InjectiveCount
<1>6. \A y \in B : y \in A
  <2> TAKE y \in B
  <2> HIDE DEF n, f
  <2>1. PICK k \in 1..n : y = s[k]
    BY <1>1, <1>3, <1>4 DEF ToSet
  <2>2. k \in 1..Len(s) /\ k < q
    BY <1>1, <1>2, <1>3 DEF n
  <2>3. <<y, x>> \in R /\ y \in ToSet(s)
    BY <1>1, <1>2, <2>1, <2>2 DEF Sorted, ToSet
  <2>4. QED
    BY <2>3
<1> HIDE DEF B, f
<1>7. Cardinality(B) <= Cardinality(A)
  BY <1>6, FS_Subset
<1>8. n <= Cardinality(A) /\ Cardinality(A) \in Nat
  BY <1>5, <1>7, FS_CardinalityType
<1>9. QED
  BY <1>2, <1>8

\* At rank q of its batch, a hit is within q times the number of batches.
LEMMA WithinRank ==
  ASSUME NEW T, NEW batches \in Seq(Seq(T)), Separate(batches), NEW b \in 1..Len(batches),
         NEW q \in 1..Len(batches[b]), NEW k \in Nat, q * Len(batches) <= k
  PROVE  batches[b][q] \in ToSet(First(InterleaveByRank(batches), k))
<1> DEFINE s == InterleaveByRank(batches)
           N == Len(batches)
           x == batches[b][q]
<1>1. /\ N \in Nat /\ b \in 1..N /\ q \in Nat /\ q > 0 /\ q * N <= k
      /\ \A c \in 1..N : batches[c] \in Seq(T) /\ DOMAIN batches[c] = 1..Len(batches[c])
  OBVIOUS
<1>2. /\ s \in Seq(T) /\ IsInjective(s)
      /\ ToSet(s) = UNION {ToSet(batches[c]) : c \in 1..N}
  BY Interleaved
<1> HIDE DEF s
<1>3. Len(s) \in Nat /\ DOMAIN s = 1..Len(s)
  BY <1>2
<1>4. x \in ToSet(s)
  <2>1. x \in ToSet(batches[b])
    BY <1>1 DEF ToSet
  <2>2. QED
    BY <1>1, <1>2, <2>1
<1>5. PICK m \in 1..Len(s) : s[m] = x
  BY <1>3, <1>4 DEF ToSet
<1>6. At(batches, x, b, q)
  BY <1>1 DEF At
<1> DEFINE P == (1..N) \X (1..q)
           Of(r) == {d \in P : At(batches, s[r], d[1], d[2])}
           f == [r \in 1..m |-> CHOOSE d \in P : d \in Of(r)]
<1> HIDE DEF x
<1>7. ASSUME NEW r \in 1..m PROVE \E d \in P : d \in Of(r)
  <2>0. r \in 1..Len(s)
    BY <1>3, <1>5
  <2>1. s[r] \in ToSet(s)
    BY <1>3, <2>0 DEF ToSet
  <2>2. PICK c \in 1..N : s[r] \in ToSet(batches[c])
    BY <1>2, <2>1
  <2>3. PICK p \in 1..Len(batches[c]) : s[r] = batches[c][p]
    BY <1>1, <2>2 DEF ToSet
  <2>4. At(batches, s[r], c, p) /\ p \in Nat /\ p > 0
    BY <1>1, <2>3 DEF At
  <2>5. p <= q
    <3>1. CASE r = m
      <4>1. c = b /\ p = q
        BY <1>5, <1>6, <2>4, <3>1, OnePlace
      <4>2. QED
        BY <1>1, <4>1
    <3>2. CASE r # m
      <4>1. r < m
        BY <1>3, <1>5, <3>2
      <4>2. At(batches, s[m], b, q)
        BY <1>5, <1>6
      <4>3. p < q \/ (p = q /\ c < b)
        BY <1>5, <2>0, <2>4, <4>1, <4>2, MergedEarlier DEF s
      <4>4. QED
        BY <1>1, <2>4, <4>3
    <3>3. QED
      BY <3>1, <3>2
  <2>6. <<c, p>> \in P
    BY <1>1, <2>4, <2>5
  <2>7. <<c, p>> \in Of(r)
    BY <2>4, <2>6
  <2>8. QED
    BY <2>6, <2>7
<1>8. ASSUME NEW r \in 1..m PROVE f[r] \in P /\ At(batches, s[r], f[r][1], f[r][2])
  <2> HIDE DEF P
  <2>1. f[r] = CHOOSE d \in P : d \in Of(r)
    OBVIOUS
  <2> HIDE DEF f, Of
  <2>2. f[r] \in P /\ f[r] \in Of(r)
    BY <1>7, <2>1, Zenon
  <2>3. QED
    BY <2>2 DEF Of
<1>9. f \in Injection(1..m, P)
  <2>1. f \in [1..m -> P]
    <3> HIDE DEF P, Of
    <3>1. f = [r \in 1..m |-> f[r]]
      OBVIOUS
    <3> HIDE DEF f
    <3>2. QED
      BY <1>8, <3>1, Zenon
  <2> HIDE DEF f, P
  <2>2. ASSUME NEW r \in 1..m, NEW t \in 1..m, f[r] = f[t] PROVE r = t
    <3>1. s[r] = s[t]
      BY <1>8, <2>2 DEF At
    <3>2. r \in 1..Len(s) /\ t \in 1..Len(s)
      BY <1>3, <1>5
    <3>3. QED
      BY <1>2, <1>3, <3>1, <3>2 DEF IsInjective
  <2>3. IsInjective(f)
    BY <2>1, <2>2 DEF IsInjective
  <2>4. QED
    BY <2>1, <2>3 DEF Injection
<1> HIDE DEF f, Of
<1>10. m <= q * N
  <2> DEFINE U == 1..N
             V == 1..q
             M == 1..m
  <2>1. /\ IsFiniteSet(U) /\ Cardinality(U) = N /\ IsFiniteSet(V) /\ Cardinality(V) = q
        /\ IsFiniteSet(M) /\ Cardinality(M) = m
    <3>1. N \in Nat /\ q \in Nat /\ m \in Nat
      BY <1>1, <1>3, <1>5
    <3>2. QED
      BY <3>1, FirstNumbers
  <2>2. f \in Injection(M, P) /\ P = U \X V
    BY <1>9
  <2> HIDE DEF U, V, M, P
  <2>3. IsFiniteSet(P) /\ Cardinality(P) = Cardinality(U) * Cardinality(V)
    BY <2>1, <2>2, FS_Product
  <2>4. Cardinality(M) <= Cardinality(P)
    BY <2>2, <2>3, FS_Injection
  <2>5. m <= N * q
    BY <2>1, <2>3, <2>4
  <2>6. QED
    BY <1>1, <2>5
<1>11. m <= k
  BY <1>1, <1>3, <1>5, <1>10
<1> DEFINE g == First(s, k)
<1>12. /\ g \in Seq(T) /\ Len(g) = IF Len(s) < k THEN Len(s) ELSE k
       /\ \A r \in 1..Len(g) : g[r] = s[r]
  BY <1>2, FirstOf
<1> HIDE DEF g, P
<1>13. m \in 1..Len(g) /\ DOMAIN g = 1..Len(g)
  BY <1>3, <1>5, <1>11, <1>12
<1>14. g[m] = x
  BY <1>5, <1>12, <1>13
<1>15. QED
  BY <1>13, <1>14 DEF ToSet, g, s, x
=============================================================================
