------------------------ MODULE SearchClientsProofs ------------------------
(***************************************************************************)
(* The daemon and the tool answer with the best of what their batches      *)
(* find, for every number of children, database, request and order of      *)
(* scores.  The argument has five parts.                                   *)
(*                                                                         *)
(*  - The heap: heap_sift_down restores a heap that is one but for the     *)
(*    element it begins at and that element's parent; heapify, heap_push   *)
(*    and the sort of the answer follow.  SiftDown and Without are         *)
(*    recursive functions: what they are at n is found by counting up to   *)
(*    n (SetInduction), from the fact that such a function exists          *)
(*    (Iterates).                                                          *)
(*  - The results: a batch finds an index no batch before it has found, so *)
(*    all are different, and what is kept can be stated as a set of n      *)
(*    results of which none left out is better (Best).                     *)
(*  - The answer: a ranking of such a set has as many results of each      *)
(*    score and better as IsTop asks for (RankingCounts, RankingIsTop).    *)
(*  - The whole database: as long as no batch fails, none of the vectors   *)
(*    searched is above all results (Covers), hence none above the first.  *)
(*  - The steps: Inv ties each child's heap, and the tool's list, to what  *)
(*    the batches have found so far, and every action keeps it.            *)
(***************************************************************************)
EXTENDS SearchClients, FiniteSetTheorems, TLAPS

(***************************************************************************)
(* Counting up.                                                            *)
(***************************************************************************)
\* A set of numbers that is not empty has a least one.
LEMMA LeastNatural ==
  ASSUME NEW S \in SUBSET Nat, S # {}
  PROVE  \E n \in S : \A m \in S : n <= m
<1>. DEFINE Less == {p \in Nat \X Nat : p[1] < p[2]}
<1>1. IsWellFoundedOn(Less, Nat) BY NatLessThanWellFounded DEF OpToRel
<1>. HIDE DEF Less
<1>2. \E n \in S : \A m \in S : ~(<<m, n>> \in Less)
  BY <1>1, WFMin
<1>3. ASSUME NEW n \in S, NEW m \in S, ~(<<m, n>> \in Less) PROVE n <= m
  BY <1>3 DEF Less
<1>4. QED BY <1>2, <1>3

\* A set with 0, and with the next of each number it has, has them all.
LEMMA SetInduction ==
  ASSUME NEW S, 0 \in S, \A n \in Nat : n \in S => n + 1 \in S
  PROVE  Nat \subseteq S
<1>. SUFFICES ASSUME Nat \ S # {} PROVE FALSE OBVIOUS
<1>1. PICK n \in Nat \ S : \A m \in Nat \ S : n <= m BY LeastNatural
<1>2. n # 0 BY <1>1
<1>3. n - 1 \in Nat BY <1>2
<1>4. n - 1 \in S BY <1>1, <1>3
<1>5. QED BY <1>1, <1>3, <1>4

\* A recursive function of n steps from x0 exists.
StepsIn(X, n) == [(1..n) \X X -> X]

Iterated(f, n, x0, step) == f[0] = x0 /\ \A k \in 1..n : f[k] = step[<<k, f[k-1]>>]

\* It exists: one for m steps is extended by one for m + 1.
LEMMA Iterates ==
  ASSUME NEW X, NEW n \in Nat, NEW x0 \in X, NEW step \in StepsIn(X, n)
  PROVE  \E f \in [0..n -> X] : Iterated(f, n, x0, step)
<1>. USE DEF StepsIn, Iterated
<1>. DEFINE Good(m, f) == f[0] = x0 /\ \A k \in 1..m : f[k] = step[<<k, f[k-1]>>]
            S == {m \in Nat : m <= n => \E f \in [0..m -> X] : Good(m, f)}
<1>1. 0 \in S
  <2>. DEFINE f == [k \in 0..0 |-> x0]
  <2>1. f \in [0..0 -> X] /\ Good(0, f) OBVIOUS
  <2>. QED BY <2>1
<1>2. ASSUME NEW m \in Nat, m \in S PROVE m + 1 \in S
  <2>. SUFFICES ASSUME m + 1 <= n PROVE \E f \in [0..m+1 -> X] : Good(m + 1, f)
    OBVIOUS
  <2>1. PICK g \in [0..m -> X] : Good(m, g) BY <1>2
  <2>. DEFINE f == [k \in 0..m+1 |-> IF k <= m THEN g[k] ELSE step[<<m + 1, g[m]>>]]
  <2>2. m + 1 \in 1..n /\ g[m] \in X OBVIOUS
  <2>3. <<m + 1, g[m]>> \in (1..n) \X X BY <2>2
  <2>4. f \in [0..m+1 -> X] BY <2>3
  <2>5. f[0] = x0 BY <2>1
  <2>6. \A k \in 1..m+1 : f[k] = step[<<k, f[k-1]>>]
    <3>. TAKE k \in 1..m+1
    <3>1. CASE k <= m BY <3>1, <2>1
    <3>2. CASE k = m + 1
      <4>1. f[m] = g[m] /\ f[m+1] = step[<<m + 1, g[m]>>] OBVIOUS
      <4>. HIDE DEF f
      <4>. QED BY <3>2, <4>1
    <3>. QED BY <3>1, <3>2
  <2>. QED BY <2>4, <2>5, <2>6
<1>3. n \in S BY <1>1, <1>2, SetInduction
<1>. QED BY <1>3

\* The ways to hold the results of S in an array of m.
Heaps(m, S) ==
  {h \in [0..m-1 -> S] : /\ \A x, y \in 0..m-1 : h[x] = h[y] => x = y
                         /\ \A s \in S : \E x \in 0..m-1 : h[x] = s}

\* Exchanging two elements loses none and repeats none.
LEMMA SwapHeaps ==
  ASSUME NEW m \in Nat, NEW S, NEW h \in Heaps(m, S), NEW i \in 0..m-1, NEW j \in 0..m-1
  PROVE  /\ Swap(h, i, j) \in Heaps(m, S)
         /\ Swap(h, i, j)[i] = h[j] /\ Swap(h, i, j)[j] = h[i]
         /\ \A x \in (0..m-1) \ {i, j} : Swap(h, i, j)[x] = h[x]
<1>. DEFINE g == Swap(h, i, j)
<1>1. h \in [0..m-1 -> S] BY DEF Heaps
<1>2. /\ g[i] = h[j] /\ g[j] = h[i] /\ g \in [0..m-1 -> S]
      /\ \A x \in (0..m-1) \ {i, j} : g[x] = h[x]
  BY <1>1 DEF Swap
<1>. HIDE DEF g
<1>3. \A x, y \in 0..m-1 : g[x] = g[y] => x = y
  <2>. DEFINE D == 0..m-1
  <2>1. /\ i \in D /\ j \in D /\ \A x, y \in D : h[x] = h[y] => x = y
        /\ \A x \in D \ {i, j} : g[x] = h[x]
    BY <1>2 DEF Heaps
  <2>. HIDE DEF D
  <2>2. \A x, y \in D : g[x] = g[y] => x = y BY <1>2, <2>1
  <2>. QED BY <2>2 DEF D
<1>4. \A s \in S : \E x \in 0..m-1 : g[x] = s
  <2>. TAKE s \in S
  <2>1. PICK x \in 0..m-1 : h[x] = s BY DEF Heaps
  <2>. QED BY <1>2, <2>1
<1>5. g \in Heaps(m, S) BY <1>2, <1>3, <1>4 DEF Heaps
<1>. QED BY <1>2, <1>5 DEF g

Scores(h, m) == \A j \in 0..m-1 : h[j].score \in Int

HeapAt(h, n, p) == \A c \in {2*p + 1, 2*p + 2} : c < n => h[p].score <= h[c].score

HeapFrom(h, n, a) == \A p \in a..n-1 : HeapAt(h, n, p)

\* heap_sift_down's two comparisons find the smallest of a parent and its
\* children.
LEMMA SmallestIs ==
  ASSUME NEW n \in Nat, NEW h, Scores(h, n), NEW p \in 0..n-1
  PROVE  /\ Smallest(h, n, p) \in {p, 2*p + 1, 2*p + 2}
         /\ Smallest(h, n, p) \in p..n-1
         /\ \A c \in {2*p + 1, 2*p + 2} :
              c < n => h[Smallest(h, n, p)].score <= h[c].score
         /\ h[Smallest(h, n, p)].score <= h[p].score
         /\ Smallest(h, n, p) # p => h[Smallest(h, n, p)].score < h[p].score
<1>. DEFINE l == 2*p + 1  r == 2*p + 2  a == Smaller(h, n, p, l)
<1>1. p \in 0..n-1 /\ h[p].score \in Int BY DEF Scores
<1>2. l < n => h[l].score \in Int BY DEF Scores
<1>3. r < n => h[r].score \in Int BY DEF Scores
<1>4. /\ a \in {p, l} /\ a \in p..n-1 /\ h[a].score \in Int
      /\ h[a].score <= h[p].score
      /\ l < n => h[a].score <= h[l].score
      /\ a # p => h[a].score < h[p].score
  BY <1>1, <1>2 DEF Smaller
<1>5. Smallest(h, n, p) = Smaller(h, n, a, r) BY DEF Smallest
<1>. HIDE DEF a
<1>. QED BY <1>1, <1>2, <1>3, <1>4, <1>5 DEF Smaller

\* The loop of heap_sift_down: the heap is one from a on but for position p,
\* whose parent may take the place of p's children.
Sifting(g, p, n, a) ==
  /\ p \in a..n-1
  /\ \A q \in (a..n-1) \ {p} : HeapAt(g, n, q)
  /\ \A q \in a..n-1 : p \in {2*q + 1, 2*q + 2} =>
       \A c \in {2*p + 1, 2*p + 2} : c < n => g[q].score <= g[c].score

\* What the round does where the parent is the smallest.
LEMMA SwapSelf ==
  ASSUME NEW D, NEW S, NEW g \in [D -> S], NEW p \in D
  PROVE  Swap(g, p, p) = g
BY DEF Swap

\* A round moves the position that is out of order down to a child, or finds
\* that none is.
LEMMA RoundSifts ==
  ASSUME NEW n \in Nat, NEW a \in Nat, NEW m \in Nat, n <= m, NEW S,
         NEW g \in Heaps(m, S), Scores(g, n), NEW p, Sifting(g, p, n, a),
         NEW g1, NEW p1, <<g1, p1>> = SiftRound(n, <<g, p>>)
  PROVE  /\ Sifting(g1, p1, n, a)
         /\ g1 \in Heaps(m, S)
         /\ Scores(g1, n)
         /\ \A j \in n..m-1 : g1[j] = g[j]
         /\ HeapAt(g1, n, p1) \/ p1 > p
         /\ HeapAt(g, n, p) => HeapAt(g1, n, p1)
<1>. DEFINE s == Smallest(g, n, p)
<1>1. p \in 0..n-1 /\ p \in 0..m-1 /\ p \in Nat BY DEF Sifting
<1>2. /\ s \in {p, 2*p + 1, 2*p + 2} /\ s \in p..n-1
      /\ \A c \in {2*p + 1, 2*p + 2} : c < n => g[s].score <= g[c].score
      /\ g[s].score <= g[p].score
      /\ s # p => g[s].score < g[p].score
  BY <1>1, SmallestIs
<1>3. g1 = Swap(g, p, s) /\ p1 = s BY DEF SiftRound
<1>. HIDE DEF s
<1>4. s \in 0..m-1 BY <1>1, <1>2
<1>5. /\ g1 \in Heaps(m, S) /\ g1[p] = g[s] /\ g1[s] = g[p]
      /\ \A x \in (0..m-1) \ {p, s} : g1[x] = g[x]
  BY <1>1, <1>3, <1>4, SwapHeaps
<1>6. Scores(g1, n)
  BY <1>1, <1>2, <1>5 DEF Scores
<1>7. \A j \in n..m-1 : g1[j] = g[j]
  BY <1>1, <1>2, <1>5
<1>8. CASE s = p
  <2>1. g \in [0..m-1 -> S] BY DEF Heaps
  <2>2. g1 = g BY <1>1, <1>3, <1>8, <2>1, SwapSelf
  <2>3. HeapAt(g, n, p) BY <1>2, <1>8 DEF HeapAt
  <2>. QED BY <1>3, <1>5, <1>6, <1>7, <1>8, <2>2, <2>3
<1>9. CASE s # p
  <2>1. s \in {2*p + 1, 2*p + 2} /\ g[s].score < g[p].score BY <1>2, <1>9
  <2>2. ~HeapAt(g, n, p)
    <3>1. g[s].score \in Int /\ g[p].score \in Int BY <1>1, <1>2 DEF Scores
    <3>. QED BY <2>1, <1>2, <3>1 DEF HeapAt
  <2>3. p1 > p BY <1>1, <1>2, <1>3, <1>9
  <2>4. ASSUME NEW q \in (a..n-1) \ {s} PROVE HeapAt(g1, n, q)
    <3>. SUFFICES ASSUME NEW c \in {2*q + 1, 2*q + 2}, c < n
                  PROVE  g1[q].score <= g1[c].score
      BY DEF HeapAt
    <3>0. q \in 0..m-1 /\ c \in 0..m-1 /\ q \in 0..n-1 /\ c \in 0..n-1 /\ c # q OBVIOUS
    <3>1. CASE q = p
      <4>1. c = s \/ g1[c] = g[c] BY <1>5, <3>0, <3>1
      <4>2. g[s].score <= g[c].score BY <1>2, <3>1
      <4>. QED BY <1>2, <1>5, <3>1, <4>1, <4>2
    <3>2. CASE q # p /\ c = p
      <4>1. g1[q] = g[q] BY <1>5, <3>0, <3>2
      <4>2. g[q].score <= g[s].score
        BY <2>1, <1>2, <3>2 DEF Sifting
      <4>. QED BY <1>5, <3>2, <4>1, <4>2
    <3>3. CASE q # p /\ c # p
      <4>1. g1[q] = g[q] BY <1>5, <3>0, <3>3
      <4>2. HeapAt(g, n, q) BY <3>3 DEF Sifting
      <4>3. g[q].score <= g[c].score BY <4>2 DEF HeapAt
      <4>4. c # s BY <2>1, <3>0, <3>3, <1>1
      <4>5. g1[c] = g[c] BY <1>5, <3>0, <3>3, <4>4
      <4>. QED BY <4>1, <4>3, <4>5
    <3>. QED BY <3>1, <3>2, <3>3
  <2>5. ASSUME NEW q \in a..n-1, s \in {2*q + 1, 2*q + 2},
               NEW c \in {2*s + 1, 2*s + 2}, c < n
        PROVE  g1[q].score <= g1[c].score
    <3>1. q = p BY <1>1, <2>1, <2>5
    <3>2. s \in (a..n-1) \ {p} BY <1>2, <1>9, <1>1 DEF Sifting
    <3>3. g[s].score <= g[c].score BY <2>5, <3>2 DEF Sifting, HeapAt
    <3>4. c \in (0..m-1) \ {p, s} BY <1>1, <1>2, <2>5, <1>9
    <3>. QED BY <1>5, <3>1, <3>3, <3>4
  <2>6. Sifting(g1, s, n, a)
    <3>1. s \in a..n-1 BY <1>2, <1>1 DEF Sifting
    <3>. QED BY <3>1, <2>4, <2>5 DEF Sifting
  <2>. QED BY <1>3, <1>5, <1>6, <1>7, <2>2, <2>3, <2>6
<1>. QED BY <1>8, <1>9

HaveScores(S) == \A e \in S : e.score \in Int

\* The scores of an array are those of the results it holds.
LEMMA HeapScores ==
  ASSUME NEW m \in Nat, NEW n \in Nat, n <= m, NEW S, HaveScores(S),
         NEW h \in Heaps(m, S)
  PROVE  Scores(h, n)
<1>1. h \in [0..m-1 -> S] BY DEF Heaps
<1>. QED BY <1>1 DEF Scores, HaveScores

\* A round keeps the results, and the position within the heap.
LEMMA RoundHolds ==
  ASSUME NEW m \in Nat, NEW n \in Nat, n <= m, NEW S, HaveScores(S),
         NEW x \in Heaps(m, S) \X (0..n-1)
  PROVE  SiftRound(n, x) \in Heaps(m, S) \X (0..n-1)
<1>1. PICK g \in Heaps(m, S), p \in 0..n-1 : x = <<g, p>> OBVIOUS
<1>. DEFINE s == Smallest(g, n, p)
<1>2. Scores(g, n) BY HeapScores
<1>3. s \in p..n-1 BY <1>2, SmallestIs
<1>4. s \in 0..n-1 BY <1>3
<1>. HIDE DEF s
<1>5. s \in 0..m-1 /\ p \in 0..m-1 BY <1>4
<1>6. Swap(g, p, s) \in Heaps(m, S) BY <1>5, SwapHeaps
<1>. QED BY <1>1, <1>4, <1>6 DEF s, SiftRound

\* The rounds of heap_sift_down.
SiftRounds(down, n, h, i) ==
  down[0] = <<h, i>> /\ \A k \in 1..n : down[k] = SiftRound(n, down[k-1])

\* SiftDown is what n of its rounds lead to, and such rounds exist.
LEMMA SiftDownRounds ==
  ASSUME NEW m \in Nat, NEW n \in Nat, n <= m, NEW S, HaveScores(S),
         NEW h \in Heaps(m, S), NEW i \in 0..n-1
  PROVE  \E down : SiftRounds(down, n, h, i) /\ SiftDown(h, n, i) = down[n][1]
<1>. DEFINE X == Heaps(m, S) \X (0..n-1)
            step == [y \in (1..n) \X X |-> SiftRound(n, y[2])]
            Rounds(f) == f = [k \in 0..n |-> IF k = 0 THEN <<h, i>>
                                                      ELSE SiftRound(n, f[k-1])]
<1>1. \A x \in X : SiftRound(n, x) \in X BY RoundHolds
<1>2. <<h, i>> \in X /\ step \in StepsIn(X, n) BY <1>1 DEF StepsIn
<1>. HIDE DEF X
<1>3. \E f \in [0..n -> X] : Iterated(f, n, <<h, i>>, step)
  <2>. HIDE DEF step
  <2>. QED BY <1>2, Iterates
<1>4. PICK f \in [0..n -> X] : Iterated(f, n, <<h, i>>, step)
  BY <1>3
<1>5. f[0] = <<h, i>> /\ \A k \in 1..n : f[k] = SiftRound(n, f[k-1])
  <2>1. f[0] = <<h, i>> BY <1>4 DEF Iterated
  <2>. SUFFICES ASSUME NEW k \in 1..n PROVE f[k] = SiftRound(n, f[k-1]) BY <2>1
  <2>2. f[k-1] \in X OBVIOUS
  <2>3. step[<<k, f[k-1]>>] = SiftRound(n, f[k-1]) BY <2>2
  <2>. HIDE DEF step
  <2>. QED BY <1>4, <2>3 DEF Iterated
<1>. HIDE DEF step
<1>. DEFINE F(g) == [k \in 0..n |-> IF k = 0 THEN <<h, i>> ELSE SiftRound(n, g[k-1])]
            down == CHOOSE g : g = F(g)
<1>6. ASSUME NEW g PROVE /\ F(g)[0] = <<h, i>>
                         /\ \A k \in 1..n : F(g)[k] = SiftRound(n, g[k-1])
                         /\ F(g) = [k \in 0..n |-> F(g)[k]]
  OBVIOUS
<1>7. f = F(f)
  <2>. HIDE DEF F
  <2>1. f = [k \in 0..n |-> f[k]] OBVIOUS
  <2>2. \A k \in 0..n : k = 0 \/ k \in 1..n OBVIOUS
  <2>3. \A k \in 0..n : f[k] = F(f)[k] BY <1>5, <1>6, <2>2
  <2>. QED BY <1>6, <2>1, <2>3
<1>8. SiftDown(h, n, i) = down[n][1] BY DEF SiftDown
<1>. HIDE DEF F
<1>9. down = F(down) BY <1>7
<1>10. /\ F(down)[0] = <<h, i>>
       /\ \A k \in 1..n : F(down)[k] = SiftRound(n, down[k-1])
  BY <1>6
<1>. HIDE DEF down
<1>. QED BY <1>8, <1>9, <1>10 DEF SiftRounds

\* heap_sift_down, begun at i, restores the heap from i on, and leaves what
\* is not in the heap alone.
LEMMA SiftDownIs ==
  ASSUME NEW m \in Nat, NEW n \in Nat, n <= m, NEW S, HaveScores(S),
         NEW h \in Heaps(m, S), NEW i \in 0..n-1, HeapFrom(h, n, i + 1)
  PROVE  /\ SiftDown(h, n, i) \in Heaps(m, S)
         /\ HeapFrom(SiftDown(h, n, i), n, i)
         /\ \A j \in n..m-1 : SiftDown(h, n, i)[j] = h[j]
<1>1. PICK down : SiftRounds(down, n, h, i) /\ SiftDown(h, n, i) = down[n][1]
  BY SiftDownRounds
<1>. DEFINE Inv(k, g, p) ==
              /\ g \in Heaps(m, S) /\ Sifting(g, p, n, i)
              /\ \A j \in n..m-1 : g[j] = h[j]
              /\ p >= i + k \/ HeapAt(g, n, p)
            K == {k \in Nat : k <= n => \E g, p : down[k] = <<g, p>> /\ Inv(k, g, p)}
<1>2. 0 \in K
  <2>1. Sifting(h, i, n, i)
    <3>1. \A q \in (i..n-1) \ {i} : HeapAt(h, n, q) BY DEF HeapFrom
    <3>2. \A q \in i..n-1 : i \notin {2*q + 1, 2*q + 2} OBVIOUS
    <3>. QED BY <3>1, <3>2 DEF Sifting
  <2>2. Inv(0, h, i) BY <2>1
  <2>. QED BY <1>1, <2>2 DEF SiftRounds
<1>3. ASSUME NEW k \in Nat, k \in K PROVE k + 1 \in K
  <2>. SUFFICES ASSUME k + 1 <= n
                PROVE  \E g, p : down[k+1] = <<g, p>> /\ Inv(k + 1, g, p)
    OBVIOUS
  <2>1. PICK g, p : down[k] = <<g, p>> /\ Inv(k, g, p) BY <1>3
  <2>2. p \in Int /\ p \in i..n-1 BY <2>1 DEF Sifting
  <2>. DEFINE g1 == SiftRound(n, <<g, p>>)[1]  p1 == SiftRound(n, <<g, p>>)[2]
  <2>3. <<g1, p1>> = SiftRound(n, <<g, p>>) BY DEF SiftRound
  <2>4. down[k+1] = <<g1, p1>>
    <3>1. k + 1 \in 1..n /\ (k + 1) - 1 = k OBVIOUS
    <3>. QED BY <1>1, <2>1, <2>3, <3>1 DEF SiftRounds
  <2>. HIDE DEF g1, p1
  <2>5. Scores(g, n) BY <2>1, HeapScores
  <2>6. /\ Sifting(g1, p1, n, i)
        /\ g1 \in Heaps(m, S)
        /\ \A j \in n..m-1 : g1[j] = g[j]
        /\ HeapAt(g1, n, p1) \/ p1 > p
        /\ HeapAt(g, n, p) => HeapAt(g1, n, p1)
    BY <2>1, <2>3, <2>5, RoundSifts
  <2>7. p1 \in Int BY <2>6 DEF Sifting
  <2>8. p1 >= i + (k + 1) \/ HeapAt(g1, n, p1) BY <2>1, <2>2, <2>6, <2>7
  <2>9. Inv(k + 1, g1, p1) BY <2>1, <2>6, <2>8
  <2>. QED BY <2>4, <2>9
<1>4. n \in K BY <1>2, <1>3, SetInduction
<1>5. PICK g, p : down[n] = <<g, p>> /\ Inv(n, g, p) BY <1>4
<1>6. HeapAt(g, n, p) BY <1>5 DEF Sifting
<1>7. HeapFrom(g, n, i) BY <1>5, <1>6 DEF Sifting, HeapFrom
<1>. QED BY <1>1, <1>5, <1>7

\* heap_sift_down keeps the results whether or not they are a heap.
LEMMA SiftDownHolds ==
  ASSUME NEW m \in Nat, NEW n \in Nat, n <= m, NEW S, HaveScores(S),
         NEW h \in Heaps(m, S), NEW i \in 0..n-1
  PROVE  SiftDown(h, n, i) \in Heaps(m, S)
<1>1. PICK down : SiftRounds(down, n, h, i) /\ SiftDown(h, n, i) = down[n][1]
  BY SiftDownRounds
<1>. DEFINE X == Heaps(m, S) \X (0..n-1)
            K == {k \in Nat : k <= n => down[k] \in X}
<1>2. 0 \in K BY <1>1 DEF SiftRounds
<1>3. ASSUME NEW k \in Nat, k \in K PROVE k + 1 \in K
  <2>. SUFFICES ASSUME k + 1 <= n PROVE down[k+1] \in X OBVIOUS
  <2>1. down[k] \in X BY <1>3
  <2>2. k + 1 \in 1..n /\ (k + 1) - 1 = k OBVIOUS
  <2>3. down[k+1] = SiftRound(n, down[k]) BY <1>1, <2>2 DEF SiftRounds
  <2>. QED BY <2>1, <2>3, RoundHolds
<1>4. n \in K BY <1>2, <1>3, SetInduction
<1>. QED BY <1>1, <1>4

\* There is nothing to do in an empty heap.
LEMMA SiftDownNothing ==
  ASSUME NEW h, NEW i
  PROVE  SiftDown(h, 0, i) = h
<1>. DEFINE F(g) == [k \in 0..0 |-> IF k = 0 THEN <<h, i>> ELSE SiftRound(0, g[k-1])]
            down == CHOOSE g : g = F(g)
            f == [k \in 0..0 |-> <<h, i>>]
<1>1. f = F(f) OBVIOUS
<1>2. SiftDown(h, 0, i) = down[0][1] BY DEF SiftDown
<1>3. ASSUME NEW g PROVE F(g)[0] = <<h, i>> OBVIOUS
<1>. HIDE DEF F, f
<1>4. down = F(down) BY <1>1
<1>5. F(down)[0] = <<h, i>> BY <1>3
<1>. HIDE DEF down
<1>. QED BY <1>2, <1>4, <1>5

\* heapify makes a heap of any array.
LEMMA HeapifyIs ==
  ASSUME NEW n \in Nat, NEW S, HaveScores(S), NEW h \in Heaps(n, S)
  PROVE  Heapify(h, n) \in Heaps(n, S) /\ HeapFrom(Heapify(h, n), n, 0)
<1>. DEFINE l == n \div 2
            X == Heaps(n, S)
            step == [y \in (1..l) \X X |-> SiftDown(y[2], n, l - y[1])]
            F(g) == [k \in 0..l |-> IF k = 0 THEN h ELSE SiftDown(g[k-1], n, l - k)]
            up == CHOOSE g : g = F(g)
<1>1. l \in Nat /\ (\A k \in 1..l : l - k \in 0..n-1) OBVIOUS
<1>2. h \in X /\ step \in StepsIn(X, l)
  <2>1. ASSUME NEW y \in (1..l) \X X PROVE SiftDown(y[2], n, l - y[1]) \in X
    <3>1. l - y[1] \in 0..n-1 /\ y[2] \in Heaps(n, S) BY <1>1
    <3>. QED BY <3>1, SiftDownHolds
  <2>. QED BY <2>1 DEF StepsIn
<1>3. Heapify(h, n) = up[l] BY DEF Heapify
<1>4. ASSUME NEW g PROVE /\ F(g)[0] = h
                         /\ \A k \in 1..l : F(g)[k] = SiftDown(g[k-1], n, l - k)
                         /\ F(g) = [k \in 0..l |-> F(g)[k]]
  BY <1>1
<1>. HIDE DEF X, F
<1>5. PICK f \in [0..l -> X] : Iterated(f, l, h, step)
  <2>. HIDE DEF l, step
  <2>. QED BY <1>1, <1>2, Iterates
<1>6. f[0] = h /\ \A k \in 1..l : f[k] = SiftDown(f[k-1], n, l - k)
  <2>1. f[0] = h BY <1>5 DEF Iterated
  <2>. SUFFICES ASSUME NEW k \in 1..l PROVE f[k] = SiftDown(f[k-1], n, l - k)
    BY <2>1
  <2>2. f[k-1] \in X BY <1>1
  <2>3. step[<<k, f[k-1]>>] = SiftDown(f[k-1], n, l - k) BY <2>2
  <2>. HIDE DEF step
  <2>. QED BY <1>5, <2>3 DEF Iterated
<1>. HIDE DEF step
<1>7. f = F(f)
  <2>1. f = [k \in 0..l |-> f[k]] OBVIOUS
  <2>2. \A k \in 0..l : k = 0 \/ k \in 1..l BY <1>1
  <2>3. \A k \in 0..l : f[k] = F(f)[k] BY <1>4, <1>6, <2>2
  <2>. QED BY <1>4, <2>1, <2>3
<1>8. up = F(up) BY <1>7
<1>9. F(up)[0] = h /\ \A k \in 1..l : F(up)[k] = SiftDown(up[k-1], n, l - k)
  BY <1>4
<1>. HIDE DEF up
<1>. DEFINE K == {k \in Nat : k <= l => up[k] \in X /\ HeapFrom(up[k], n, l - k)}
<1>10. 0 \in K
  <2>1. \A p \in l..n-1 : 2*p + 1 >= n OBVIOUS
  <2>2. HeapFrom(h, n, l) BY <2>1, <1>1 DEF HeapFrom, HeapAt
  <2>. HIDE DEF l
  <2>. QED BY <1>1, <1>2, <1>8, <1>9, <2>2
<1>11. ASSUME NEW k \in Nat, k \in K PROVE k + 1 \in K
  <2>. SUFFICES ASSUME k + 1 <= l
                PROVE  up[k+1] \in X /\ HeapFrom(up[k+1], n, l - (k + 1))
    OBVIOUS
  <2>. DEFINE i == l - (k + 1)
  <2>. HIDE DEF l
  <2>1. k + 1 \in 1..l /\ (k + 1) - 1 = k /\ i \in 0..n-1 /\ i + 1 = l - k BY <1>1
  <2>2. up[k] \in Heaps(n, S) /\ HeapFrom(up[k], n, i + 1) BY <1>11, <2>1, <1>1 DEF X
  <2>3. up[k+1] = SiftDown(up[k], n, i) BY <1>8, <1>9, <2>1
  <2>. HIDE DEF i
  <2>4. SiftDown(up[k], n, i) \in Heaps(n, S) /\ HeapFrom(SiftDown(up[k], n, i), n, i)
    BY <2>1, <2>2, SiftDownIs
  <2>. QED BY <2>3, <2>4 DEF X, i
<1>12. l \in K BY <1>1, <1>10, <1>11, SetInduction
<1>13. l - l = 0 /\ l <= l BY <1>1
<1>. HIDE DEF l
<1>. QED BY <1>3, <1>12, <1>13 DEF X

\* The root of a heap holds the smallest score.
LEMMA RootIsMin ==
  ASSUME NEW n \in Nat, NEW h, Scores(h, n), HeapFrom(h, n, 0)
  PROVE  \A p \in 0..n-1 : h[0].score <= h[p].score
<1>. DEFINE Bad == {p \in 0..n-1 : ~(h[0].score <= h[p].score)}
<1>. SUFFICES ASSUME Bad # {} PROVE FALSE OBVIOUS
<1>1. PICK p \in Bad : \A q \in Bad : p <= q
  <2>1. Bad \in SUBSET Nat OBVIOUS
  <2>. HIDE DEF Bad
  <2>. QED BY <2>1, LeastNatural
<1>2. 0 \in 0..n-1 /\ h[0].score \in Int /\ h[p].score \in Int BY DEF Scores
<1>3. p # 0 BY <1>1, <1>2
<1>. DEFINE q == (p - 1) \div 2
<1>4. q \in 0..n-1 /\ q < p /\ p \in {2*q + 1, 2*q + 2} BY <1>3
<1>. HIDE DEF q
<1>5. h[q].score <= h[p].score BY <1>4 DEF HeapFrom, HeapAt
<1>6. h[q].score \in Int /\ h[0].score <= h[q].score BY <1>1, <1>4 DEF Scores
<1>. QED BY <1>1, <1>2, <1>5, <1>6

\* What is in front holds the same results if what is behind is unchanged.
LEMMA FrontKept ==
  ASSUME NEW m \in Nat, NEW n \in Nat, n <= m, NEW S,
         NEW g \in Heaps(m, S), NEW h \in Heaps(m, S), \A j \in n..m-1 : h[j] = g[j]
  PROVE  \A p \in 0..n-1 : \E q \in 0..n-1 : h[p] = g[q]
<1>. TAKE p \in 0..n-1
<1>1. /\ g \in [0..m-1 -> S] /\ h \in [0..m-1 -> S]
      /\ \A x, y \in 0..m-1 : h[x] = h[y] => x = y
      /\ \A s \in S : \E x \in 0..m-1 : g[x] = s
  BY DEF Heaps
<1>2. p \in 0..m-1 /\ h[p] \in S BY <1>1
<1>3. PICK q \in 0..m-1 : g[q] = h[p] BY <1>1, <1>2
<1>4. q \notin n..m-1 BY <1>1, <1>2, <1>3
<1>5. q \in 0..n-1 BY <1>4
<1>. QED BY <1>3, <1>5

\* Taking the smallest out of a heap of n + 1, to the end.
Drained(g, n, m) ==
  /\ HeapFrom(g, n, 0)
  /\ \A i, j \in n..m-1 : i <= j => g[i].score >= g[j].score
  /\ \A p \in 0..n-1 : \A j \in n..m-1 : g[p].score >= g[j].score

\* The root goes behind the rest of the heap, which is made a heap again; what
\* is behind stays ranked.
LEMMA DrainsOne ==
  ASSUME NEW m \in Nat, NEW n \in Nat, n + 1 <= m, NEW S, HaveScores(S),
         NEW g \in Heaps(m, S), Drained(g, n + 1, m)
  PROVE  LET h == SiftDown(Swap(g, 0, n), n, 0)
         IN  h \in Heaps(m, S) /\ Drained(h, n, m)
<1>. DEFINE w == Swap(g, 0, n)  h == SiftDown(w, n, 0)
<1>1. /\ w \in Heaps(m, S) /\ w[0] = g[n] /\ w[n] = g[0]
      /\ \A x \in (0..m-1) \ {0, n} : w[x] = g[x]
  BY SwapHeaps
<1>. HIDE DEF w
<1>2. Scores(g, n + 1) /\ Scores(g, m) /\ Scores(w, m) BY <1>1, HeapScores
<1>3. \A p \in 0..n : g[0].score <= g[p].score
  <2>1. HeapFrom(g, n + 1, 0) BY DEF Drained
  <2>2. \A p \in 0..(n+1)-1 : g[0].score <= g[p].score BY <1>2, <2>1, RootIsMin
  <2>. QED BY <2>2
<1>4. /\ h \in Heaps(m, S) /\ HeapFrom(h, n, 0)
      /\ \A j \in n..m-1 : h[j] = w[j]
  <2>1. CASE n = 0
    <3>1. h = w BY <2>1, SiftDownNothing
    <3>. HIDE DEF h
    <3>. QED BY <1>1, <2>1, <3>1 DEF HeapFrom
  <2>2. CASE n # 0
    <3>1. ASSUME NEW p \in 1..n-1 PROVE HeapAt(w, n, p)
      <4>1. HeapAt(g, n + 1, p) BY DEF Drained, HeapFrom
      <4>2. w[p] = g[p] /\ \A c \in {2*p + 1, 2*p + 2} : c < n => w[c] = g[c]
        BY <1>1
      <4>. QED BY <4>1, <4>2 DEF HeapAt
    <3>2. HeapFrom(w, n, 0 + 1) /\ 0 \in 0..n-1 BY <2>2, <3>1 DEF HeapFrom
    <3>. QED BY <1>1, <3>2, SiftDownIs
  <2>. QED BY <2>1, <2>2
<1>. HIDE DEF h
<1>5. \A j \in n+1..m-1 : h[j] = g[j] BY <1>1, <1>4
<1>6. h[n] = g[0] BY <1>1, <1>4
<1>7. \A p \in 0..n-1 : \E q \in 0..n : h[p] = g[q]
  <2>. TAKE p \in 0..n-1
  <2>1. PICK x \in 0..n-1 : h[p] = w[x]
    <3>1. n <= m /\ w \in Heaps(m, S) /\ h \in Heaps(m, S) BY <1>1, <1>4
    <3>2. \A j \in n..m-1 : h[j] = w[j] BY <1>4
    <3>3. \A y \in 0..n-1 : \E x \in 0..n-1 : h[y] = w[x] BY <3>1, <3>2, FrontKept
    <3>. QED BY <3>3
  <2>. QED BY <1>1, <2>1
<1>8. \A j \in n+1..m-1 : g[0].score >= g[j].score /\ g[j].score \in Int
  BY <1>2 DEF Drained, Scores
<1>9. g[0].score \in Int BY <1>2 DEF Scores
<1>10. \A i, j \in n..m-1 : i <= j => h[i].score >= h[j].score
  <2>. SUFFICES ASSUME NEW i \in n..m-1, NEW j \in n..m-1, i <= j
                PROVE  h[i].score >= h[j].score
    OBVIOUS
  <2>1. CASE i = n /\ j = n BY <1>6, <1>9, <2>1
  <2>2. CASE i = n /\ j # n BY <1>5, <1>6, <1>8, <2>2
  <2>3. CASE i # n BY <1>5, <2>3 DEF Drained
  <2>. QED BY <2>1, <2>2, <2>3
<1>11. \A p \in 0..n-1 : \A j \in n..m-1 : h[p].score >= h[j].score
  <2>. SUFFICES ASSUME NEW p \in 0..n-1, NEW j \in n..m-1
                PROVE  h[p].score >= h[j].score
    OBVIOUS
  <2>1. PICK q \in 0..n : h[p] = g[q] BY <1>7
  <2>2. g[q].score \in Int /\ g[0].score <= g[q].score BY <1>2, <1>3 DEF Scores
  <2>3. CASE j = n BY <1>6, <1>9, <2>1, <2>2, <2>3
  <2>4. CASE j # n BY <1>5, <1>8, <1>9, <2>1, <2>2, <2>4
  <2>. QED BY <2>3, <2>4
<1>. QED BY <1>4, <1>10, <1>11 DEF h, w, Drained

\* The size of a heap is read off its domain.
LEMMA HeapSize ==
  ASSUME NEW n \in Nat, NEW S, NEW h \in Heaps(n, S)
  PROVE  DOMAIN h = 0..n-1 /\ Cardinality(DOMAIN h) = n
<1>1. DOMAIN h = 0..n-1 BY DEF Heaps
<1>2. Cardinality(0..n-1) = n BY FS_Interval
<1>. QED BY <1>1, <1>2

\* Each result of S once, best first.
Ranking(t, n, S) ==
  /\ t \in [1..n -> S]
  /\ \A i, j \in 1..n : t[i] = t[j] => i = j
  /\ \A e \in S : \E i \in 1..n : t[i] = e
  /\ \A i, j \in 1..n : i <= j => t[i].score >= t[j].score

\* The sort of the answer ranks what is in the heap.
LEMMA SortedIs ==
  ASSUME NEW n \in Nat, NEW S, HaveScores(S), NEW h \in Heaps(n, S), HeapFrom(h, n, 0)
  PROVE  Ranking(Sorted(h), n, S)
<1>. DEFINE Drain(g, k) == SiftDown(Swap(g, 0, n - k), n - k, 0)
            X == Heaps(n, S)
            step == [y \in (1..n) \X X |-> Drain(y[2], y[1])]
            F(g) == [k \in 0..n |-> IF k = 0 THEN h ELSE Drain(g[k-1], k)]
            out == CHOOSE g : g = F(g)
<1>0. \A g \in Heaps(n, S) : /\ g \in [0..n-1 -> S]
                             /\ \A x, y \in 0..n-1 : g[x] = g[y] => x = y
                             /\ \A s \in S : \E x \in 0..n-1 : g[x] = s
  BY DEF Heaps
<1>1. ASSUME NEW g \in X, NEW k \in 1..n PROVE Drain(g, k) \in X
  <2>. DEFINE i == n - k
  <2>1. i \in 0..n-1 /\ 0 \in 0..n-1 /\ i \in Nat /\ i <= n OBVIOUS
  <2>. HIDE DEF i
  <2>2. Swap(g, 0, i) \in Heaps(n, S) BY <2>1, SwapHeaps
  <2>3. CASE i = 0 BY <2>2, <2>3, SiftDownNothing DEF i
  <2>4. CASE i # 0
    <3>1. 0 \in 0..i-1 BY <2>1, <2>4
    <3>2. SiftDown(Swap(g, 0, i), i, 0) \in Heaps(n, S)
      BY <2>1, <2>2, <3>1, SiftDownHolds
    <3>. QED BY <3>2 DEF i
  <2>. QED BY <2>3, <2>4
<1>2. h \in X /\ step \in StepsIn(X, n) BY <1>1 DEF StepsIn
<1>3. Sorted(h) = [i \in 1..n |-> out[n][i-1]]
  <2>. DEFINE all(c, g) == [k \in 0..c |-> IF k = 0 THEN h
                           ELSE SiftDown(Swap(g[k-1], 0, c - k), c - k, 0)]
              sorted(c) == [i \in 1..c |-> (CHOOSE g : g = all(c, g))[c][i-1]]
  <2>1. Sorted(h) = sorted(Cardinality(DOMAIN h)) BY DEF Sorted
  <2>2. Cardinality(DOMAIN h) = n BY HeapSize
  <2>3. sorted(n) = [i \in 1..n |-> out[n][i-1]] OBVIOUS
  <2>. HIDE DEF sorted
  <2>. QED BY <2>1, <2>2, <2>3
<1>4. ASSUME NEW g PROVE /\ F(g)[0] = h
                         /\ \A k \in 1..n : F(g)[k] = Drain(g[k-1], k)
                         /\ F(g) = [k \in 0..n |-> F(g)[k]]
  <2>. HIDE DEF Drain
  <2>. QED OBVIOUS
<1>. HIDE DEF X, F, Drain
<1>5. PICK f \in [0..n -> X] : Iterated(f, n, h, step)
  <2>. HIDE DEF step
  <2>. QED BY <1>2, Iterates
<1>6. f[0] = h /\ \A k \in 1..n : f[k] = Drain(f[k-1], k)
  <2>1. f[0] = h BY <1>5 DEF Iterated
  <2>. SUFFICES ASSUME NEW k \in 1..n PROVE f[k] = Drain(f[k-1], k) BY <2>1
  <2>2. f[k-1] \in X OBVIOUS
  <2>3. step[<<k, f[k-1]>>] = Drain(f[k-1], k) BY <2>2
  <2>. HIDE DEF step
  <2>. QED BY <1>5, <2>3 DEF Iterated
<1>. HIDE DEF step
<1>7. f = F(f)
  <2>1. f = [k \in 0..n |-> f[k]] OBVIOUS
  <2>2. \A k \in 0..n : k = 0 \/ k \in 1..n OBVIOUS
  <2>3. \A k \in 0..n : f[k] = F(f)[k] BY <1>4, <1>6, <2>2
  <2>. QED BY <1>4, <2>1, <2>3
<1>8. out = F(out) BY <1>7
<1>9. F(out)[0] = h /\ \A k \in 1..n : F(out)[k] = Drain(out[k-1], k) BY <1>4
<1>. HIDE DEF out
<1>. DEFINE K == {k \in Nat : k <= n => out[k] \in X /\ Drained(out[k], n - k, n)}
<1>10. 0 \in K
  <2>1. Drained(h, n, n) BY DEF Drained
  <2>. QED BY <1>2, <1>8, <1>9, <2>1
<1>11. ASSUME NEW k \in Nat, k \in K PROVE k + 1 \in K
  <2>. SUFFICES ASSUME k + 1 <= n
                PROVE  out[k+1] \in X /\ Drained(out[k+1], n - (k + 1), n)
    OBVIOUS
  <2>. DEFINE i == n - (k + 1)
  <2>1. k + 1 \in 1..n /\ (k + 1) - 1 = k /\ i \in Nat /\ i + 1 <= n /\ i + 1 = n - k
    OBVIOUS
  <2>2. out[k] \in Heaps(n, S) /\ Drained(out[k], i + 1, n) BY <1>11, <2>1 DEF X
  <2>3. out[k+1] = Drain(out[k], k + 1) BY <1>8, <1>9, <2>1
  <2>4. out[k+1] = SiftDown(Swap(out[k], 0, i), i, 0) BY <2>3 DEF Drain
  <2>. HIDE DEF i
  <2>5. out[k+1] \in Heaps(n, S) /\ Drained(out[k+1], i, n)
    BY <2>1, <2>2, <2>4, DrainsOne
  <2>. QED BY <2>5 DEF X, i
<1>12. n \in K BY <1>10, <1>11, SetInduction
<1>13. PICK g \in Heaps(n, S) : g = out[n] /\ Drained(g, 0, n)
  <2>1. n - n = 0 /\ n <= n OBVIOUS
  <2>. QED BY <1>12, <2>1 DEF X
<1>14. /\ g \in [0..n-1 -> S]
       /\ \A x, y \in 0..n-1 : g[x] = g[y] => x = y
       /\ \A s \in S : \E x \in 0..n-1 : g[x] = s
  BY <1>0
<1>. DEFINE t == [i \in 1..n |-> g[i-1]]
<1>15. t \in [1..n -> S] BY <1>14
<1>16. \A i \in 1..n : i - 1 \in 0..n-1 /\ t[i] = g[i-1] OBVIOUS
<1>17. ASSUME NEW e \in S PROVE \E i \in 1..n : t[i] = e
  <2>1. PICK x \in 0..n-1 : g[x] = e BY <1>14
  <2>2. x + 1 \in 1..n /\ (x + 1) - 1 = x OBVIOUS
  <2>. QED BY <1>16, <2>1, <2>2
<1>18. Sorted(h) = t BY <1>3, <1>13
<1>. HIDE DEF t
<1>19. \A i, j \in 1..n : t[i] = t[j] => i = j BY <1>14, <1>16
<1>20. \A i, j \in 1..n : i <= j => t[i].score >= t[j].score
  BY <1>13, <1>16 DEF Drained
<1>. QED BY <1>15, <1>17, <1>18, <1>19, <1>20 DEF Ranking

(***************************************************************************)
(* heap_push: there is room; a better result takes the place of the worst; *)
(* or the heap stays as it is.                                             *)
(***************************************************************************)
\* With room, the result is sifted up from the end.
LEMMA PushAdds ==
  ASSUME NEW n \in Nat, NEW S, NEW e, HaveScores(S \cup {e}), e \notin S,
         NEW h \in Heaps(n, S), NEW k \in Nat, n < k
  PROVE  /\ Push(h, k, e) \in Heaps(n + 1, S \cup {e})
         /\ HeapFrom(Push(h, k, e), n + 1, 0)
<1>. DEFINE g == [j \in 0..n |-> IF j = n THEN e ELSE h[j]]
<1>1. /\ h \in [0..n-1 -> S]
      /\ \A x, y \in 0..n-1 : h[x] = h[y] => x = y
      /\ \A s \in S : \E x \in 0..n-1 : h[x] = s
  BY DEF Heaps
<1>2. g[n] = e /\ (\A j \in 0..n-1 : g[j] = h[j]) /\ 0..(n+1)-1 = 0..n
  OBVIOUS
<1>3. g \in [0..(n+1)-1 -> S \cup {e}] BY <1>1
<1>4. Push(h, k, e) = Heapify(g, n + 1) BY HeapSize DEF Push
<1>. HIDE DEF g
<1>5. \A x, y \in 0..(n+1)-1 : g[x] = g[y] => x = y
  <2>1. \A x \in 0..n : x = n \/ x \in 0..n-1 OBVIOUS
  <2>2. \A x \in 0..n-1 : g[x] # e BY <1>1, <1>2
  <2>3. \A x, y \in 0..n : g[x] = g[y] => x = y BY <1>1, <1>2, <2>1, <2>2
  <2>. QED BY <1>2, <2>3
<1>6. \A s \in S \cup {e} : \E x \in 0..(n+1)-1 : g[x] = s
  <2>1. n \in 0..n /\ \A x \in 0..n-1 : x \in 0..n OBVIOUS
  <2>2. \A s \in S \cup {e} : \E x \in 0..n : g[x] = s BY <1>1, <1>2, <2>1
  <2>. QED BY <1>2, <2>2
<1>7. n + 1 \in Nat OBVIOUS
<1>8. g \in Heaps(n + 1, S \cup {e}) BY <1>3, <1>5, <1>6, <1>7 DEF Heaps
<1>. QED BY <1>4, <1>7, <1>8, HeapifyIs

\* In a full heap a better result takes the root's place and sinks.
LEMMA PushReplaces ==
  ASSUME NEW n \in Nat \ {0}, NEW S, NEW e, HaveScores(S \cup {e}), e \notin S,
         NEW h \in Heaps(n, S), HeapFrom(h, n, 0), NEW k \in Nat, ~(n < k),
         e.score > h[0].score
  PROVE  /\ Push(h, k, e) \in Heaps(n, (S \ {h[0]}) \cup {e})
         /\ HeapFrom(Push(h, k, e), n, 0)
<1>. DEFINE g == [h EXCEPT ![0] = e]
            T == (S \ {h[0]}) \cup {e}
<1>1. /\ h \in [0..n-1 -> S]
      /\ \A x, y \in 0..n-1 : h[x] = h[y] => x = y
      /\ \A s \in S : \E x \in 0..n-1 : h[x] = s
  BY DEF Heaps
<1>2. 0 \in 0..n-1 OBVIOUS
<1>3. g[0] = e /\ \A j \in (0..n-1) \ {0} : g[j] = h[j] BY <1>1, <1>2
<1>4. g \in [0..n-1 -> T]
  <2>1. \A j \in (0..n-1) \ {0} : h[j] \in S \ {h[0]} BY <1>1, <1>2
  <2>. QED BY <1>1, <2>1
<1>5. Push(h, k, e) = SiftDown(g, n, 0) BY HeapSize DEF Push
<1>. HIDE DEF g
<1>6. \A x, y \in 0..n-1 : g[x] = g[y] => x = y
  <2>. DEFINE D == 0..n-1
  <2>1. /\ 0 \in D /\ \A x, y \in D : h[x] = h[y] => x = y
        /\ \A x \in D \ {0} : g[x] = h[x] /\ g[x] # e
    BY <1>1, <1>2, <1>3
  <2>. HIDE DEF D
  <2>2. \A x, y \in D : g[x] = g[y] => x = y BY <1>3, <2>1
  <2>. QED BY <2>2 DEF D
<1>7. \A s \in T : \E x \in 0..n-1 : g[x] = s BY <1>1, <1>2, <1>3
<1>8. g \in Heaps(n, T) BY <1>4, <1>6, <1>7 DEF Heaps
<1>9. HaveScores(T) BY DEF HaveScores
<1>10. HeapFrom(g, n, 0 + 1)
  <2>. SUFFICES ASSUME NEW p \in 1..n-1 PROVE HeapAt(g, n, p) BY DEF HeapFrom
  <2>1. HeapAt(h, n, p) BY DEF HeapFrom
  <2>2. g[p] = h[p] /\ \A c \in {2*p + 1, 2*p + 2} : c < n => g[c] = h[c]
    BY <1>3
  <2>. QED BY <2>1, <2>2 DEF HeapAt
<1>. HIDE DEF T
<1>11. SiftDown(g, n, 0) \in Heaps(n, T) /\ HeapFrom(SiftDown(g, n, 0), n, 0)
  BY <1>2, <1>8, <1>9, <1>10, SiftDownIs
<1>. QED BY <1>5, <1>11 DEF T

\* In a full heap a result no better than the worst is dropped.
LEMMA PushRefuses ==
  ASSUME NEW n \in Nat, NEW S, NEW e, NEW h \in Heaps(n, S), NEW k \in Nat,
         ~(n < k), ~(e.score > h[0].score)
  PROVE  Push(h, k, e) = h
BY HeapSize DEF Push

(***************************************************************************)
(* The best k of what the batches have found.                              *)
(***************************************************************************)
Distinct(s) == \A i, j \in DOMAIN s : s[i] = s[j] => i = j

\* S has n of the results in won, and none that is left out is better.
Best(S, n, won1, k) ==
  /\ n = Least(k, Len(won1))
  /\ S \subseteq Range(won1)
  /\ n < k => S = Range(won1)
  /\ \A w \in Range(won1) \ S : \A e \in S : w.score <= e.score

Found(won1) == won1 \in Results /\ Distinct(won1)

\* Results found are as many as there are of them.
LEMMA FoundFacts ==
  ASSUME NEW s, Found(s)
  PROVE  /\ DOMAIN s = 1..Len(s) /\ Len(s) \in Nat
         /\ \A i \in 1..Len(s) : s[i].score \in Int
         /\ HaveScores(Range(s))
<1>1. s \in Seq([idx : Nat, score : Int]) BY DEF Found, Results
<1>2. DOMAIN s = 1..Len(s) /\ Len(s) \in Nat BY <1>1
<1>3. \A i \in 1..Len(s) : s[i] \in [idx : Nat, score : Int]
  <2>. DEFINE R == [idx : Nat, score : Int]
  <2>1. s \in Seq(R) BY <1>1
  <2>. HIDE DEF R
  <2>2. \A i \in 1..Len(s) : s[i] \in R BY <2>1
  <2>. QED BY <2>2 DEF R
<1>. QED BY <1>2, <1>3 DEF Range, HaveScores

\* A new result makes one more.
LEMMA AppendFound ==
  ASSUME NEW s, Found(s), NEW e
  PROVE  /\ Range(Append(s, e)) = Range(s) \cup {e}
         /\ Len(Append(s, e)) = Len(s) + 1
<1>1. s \in Seq(Range(s) \cup {e}) /\ DOMAIN s = 1..Len(s) /\ Len(s) \in Nat
  BY DEF Found, Results, Range
<1>2. /\ Len(Append(s, e)) = Len(s) + 1
      /\ DOMAIN Append(s, e) = 1..Len(s)+1
      /\ Append(s, e)[Len(s)+1] = e
      /\ \A i \in 1..Len(s) : Append(s, e)[i] = s[i]
  BY <1>1
<1>. QED BY <1>1, <1>2 DEF Range

\* As long as there is room, every result is among the best.
LEMMA BestAdds ==
  ASSUME NEW s, Found(s), NEW e, NEW k \in Nat, NEW n, n < k, NEW S, Best(S, n, s, k)
  PROVE  Best(S \cup {e}, n + 1, Append(s, e), k)
<1>1. Len(s) \in Nat BY FoundFacts
<1>2. n = Len(s) /\ S = Range(s) BY <1>1 DEF Best, Least
<1>3. n + 1 = Least(k, Len(s) + 1) BY <1>1, <1>2 DEF Least
<1>. QED BY <1>2, <1>3, AppendFound DEF Best

\* A better result drives out the worst of the best.
LEMMA BestReplaces ==
  ASSUME NEW s, Found(s), NEW e, e.score \in Int, NEW k \in Nat, NEW n, ~(n < k),
         NEW S, Best(S, n, s, k),
         NEW m \in S, \A d \in S : m.score <= d.score, e.score > m.score
  PROVE  Best((S \ {m}) \cup {e}, n, Append(s, e), k)
<1>1. Len(s) \in Nat /\ HaveScores(Range(s)) BY FoundFacts
<1>2. n = Least(k, Len(s) + 1) /\ S \subseteq Range(s) BY <1>1 DEF Best, Least
<1>3. \A w \in Range(s) : w.score \in Int BY <1>1 DEF HaveScores
<1>. DEFINE T == (S \ {m}) \cup {e}
<1>4. ASSUME NEW w \in (Range(s) \cup {e}) \ T, NEW d \in T PROVE w.score <= d.score
  <2>1. w \in Range(s) /\ (w = m \/ w \notin S) BY <1>4
  <2>2. w.score <= m.score /\ m.score \in Int /\ w.score \in Int
    BY <2>1, <1>2, <1>3 DEF Best
  <2>3. d = e \/ d \in S BY <1>4
  <2>4. m.score <= d.score /\ d.score \in Int BY <2>3, <2>2, <1>2, <1>3
  <2>. QED BY <2>2, <2>4
<1>5. ~(n < k) /\ T \subseteq Range(s) \cup {e} BY <1>2
<1>. QED BY <1>2, <1>4, <1>5, AppendFound DEF Best

\* A result no better than the worst of the best is not one of them.
LEMMA BestRefuses ==
  ASSUME NEW s, Found(s), NEW e, e.score \in Int, NEW k \in Nat, NEW n, ~(n < k),
         NEW S, Best(S, n, s, k),
         NEW m \in S, \A d \in S : m.score <= d.score, ~(e.score > m.score)
  PROVE  Best(S, n, Append(s, e), k)
<1>1. Len(s) \in Nat /\ HaveScores(Range(s)) BY FoundFacts
<1>2. n = Least(k, Len(s) + 1) /\ S \subseteq Range(s) BY <1>1 DEF Best, Least
<1>3. \A w \in Range(s) : w.score \in Int BY <1>1 DEF HaveScores
<1>4. ASSUME NEW w \in (Range(s) \cup {e}) \ S, NEW d \in S PROVE w.score <= d.score
  <2>1. CASE w \in Range(s) BY <2>1, <1>4 DEF Best
  <2>2. CASE w = e
    <3>1. m.score \in Int /\ d.score \in Int /\ m.score <= d.score BY <1>2, <1>3
    <3>. QED BY <2>2, <3>1
  <2>. QED BY <1>4, <2>1, <2>2
<1>. QED BY <1>2, <1>4, AppendFound DEF Best

\* A ranking of n of the results has as many of each score and better as the
\* batches have found, up to n.
LEMMA RankingCounts ==
  ASSUME NEW s, Found(s), NEW k \in Nat, NEW n \in Nat, NEW S, Best(S, n, s, k),
         NEW t, Ranking(t, n, S), NEW x \in Int
  PROVE  AtLeast(t, x) = Least(k, AtLeast(s, x))
<1>. DEFINE A == {i \in DOMAIN t : t[i].score >= x}
            B == {j \in DOMAIN s : s[j].score >= x}
            f == [i \in A |-> CHOOSE j \in DOMAIN s : s[j] = t[i]]
<1>1. DOMAIN s = 1..Len(s) /\ Len(s) \in Nat /\ HaveScores(Range(s)) BY FoundFacts
<1>2. /\ DOMAIN t = 1..n /\ S \subseteq Range(s)
      /\ \A i \in 1..n : t[i] \in S /\ t[i].score \in Int
  BY <1>1 DEF Ranking, Best, HaveScores
<1>3. \A i \in A : f[i] \in B /\ s[f[i]] = t[i]
  <2>. SUFFICES ASSUME NEW i \in A PROVE f[i] \in B /\ s[f[i]] = t[i] OBVIOUS
  <2>1. t[i] \in Range(s) /\ t[i].score >= x BY <1>2
  <2>2. \E j \in DOMAIN s : s[j] = t[i] BY <2>1 DEF Range
  <2>. QED BY <2>1, <2>2
<1>4. \A i, j \in A : t[i] = t[j] => i = j BY <1>2 DEF Ranking
<1>5. f \in Injection(A, B)
  <2>1. f \in [A -> B] BY <1>3
  <2>. HIDE DEF A, B, f
  <2>2. \A i, j \in A : f[i] = f[j] => i = j BY <1>3, <1>4
  <2>. QED BY <2>1, <2>2 DEF Injection, IsInjective
<1>6. IsFiniteSet(B) /\ Cardinality(B) \in Nat
  <2>1. IsFiniteSet(1..Len(s)) BY <1>1, FS_Interval
  <2>2. B \in SUBSET (1..Len(s)) BY <1>1
  <2>. HIDE DEF B
  <2>. QED BY <2>1, <2>2, FS_Subset, FS_CardinalityType
<1>7. IsFiniteSet(1..n) /\ Cardinality(1..n) = n BY FS_Interval
<1>8. A \in SUBSET (1..n) BY <1>2
<1>9. (\A j \in B : s[j] \in S) => f \in Surjection(A, B)
  <2>. SUFFICES ASSUME \A j \in B : s[j] \in S, NEW j \in B
                PROVE  \E i \in A : f[i] = j
    BY <1>5 DEF Injection, Surjection
  <2>1. PICK i \in 1..n : t[i] = s[j] BY DEF Ranking
  <2>2. i \in A BY <1>2, <2>1
  <2>3. s[f[i]] = s[j] /\ f[i] \in DOMAIN s /\ j \in DOMAIN s BY <1>3, <2>1, <2>2
  <2>4. f[i] = j BY <2>3 DEF Found, Distinct
  <2>. QED BY <2>2, <2>4
<1>10. AtLeast(t, x) = Cardinality(A) /\ AtLeast(s, x) = Cardinality(B) BY DEF AtLeast
<1>11. /\ (\A i \in 1..n : t[i].score >= x) => A = 1..n
       /\ n <= k /\ (n < k => S = Range(s))
  BY <1>1, <1>2 DEF Best, Least
<1>12. ASSUME NEW i \in 1..n, ~(t[i].score >= x) PROVE \A j \in B : s[j] \in S
  <2>. SUFFICES ASSUME NEW j \in B, s[j] \notin S PROVE FALSE OBVIOUS
  <2>1. s[j] \in Range(s) /\ s[j].score >= x /\ s[j].score \in Int
    BY <1>1 DEF Range, HaveScores
  <2>2. s[j].score <= t[i].score /\ t[i].score \in Int BY <1>2, <2>1 DEF Best
  <2>. QED BY <1>12, <2>1, <2>2
<1>13. S = Range(s) => \A j \in B : s[j] \in S BY DEF Range
<1>. HIDE DEF A, B, f
<1>14. /\ Cardinality(A) \in Nat /\ Cardinality(A) <= n /\ Cardinality(A) <= Cardinality(B)
       /\ f \in Surjection(A, B) => Cardinality(A) = Cardinality(B)
  <2>1. Cardinality(A) <= n /\ IsFiniteSet(A) BY <1>7, <1>8, FS_Subset
  <2>2. Cardinality(A) \in Nat BY <2>1, FS_CardinalityType
  <2>3. /\ Cardinality(A) <= Cardinality(B)
        /\ Cardinality(A) = Cardinality(B) <=> f \in Surjection(A, B)
    BY <1>5, <1>6, FS_Injection
  <2>. QED BY <2>1, <2>2, <2>3
<1>15. CASE \A j \in B : s[j] \in S
  BY <1>6, <1>9, <1>10, <1>11, <1>14, <1>15 DEF Least
<1>16. CASE ~(\A j \in B : s[j] \in S)
  <2>1. A = 1..n /\ n = k BY <1>11, <1>12, <1>13, <1>16
  <2>. QED BY <1>6, <1>7, <1>10, <1>14, <2>1 DEF Least
<1>. QED BY <1>15, <1>16

\* So a ranking of the best k is what IsTop asks for.
LEMMA RankingIsTop ==
  ASSUME NEW s, Found(s), NEW k \in Nat, NEW n \in Nat, NEW S, Best(S, n, s, k),
         NEW t, Ranking(t, n, S)
  PROVE  IsTop(t, s, k)
<1>1. DOMAIN s = 1..Len(s) /\ \A j \in 1..Len(s) : s[j].score \in Int BY FoundFacts
<1>2. t \in [1..n -> S] /\ DOMAIN t = 1..n /\ Len(t) = n BY DEF Ranking
<1>3. Len(t) = Least(k, Len(s)) BY <1>2 DEF Best
<1>4. \A i \in 1..Len(t)-1 : t[i].score >= t[i+1].score BY <1>2 DEF Ranking
<1>5. \A i \in DOMAIN t : \E j \in DOMAIN s : t[i] = s[j]
  BY <1>2 DEF Best, Range
<1>6. \A i, j \in DOMAIN t : i # j => t[i] # t[j] BY <1>2 DEF Ranking
<1>7. \A j \in DOMAIN s :
        AtLeast(t, s[j].score) = Least(k, AtLeast(s, s[j].score))
  BY <1>1, RankingCounts
<1>. QED BY <1>3, <1>4, <1>5, <1>6, <1>7 DEF IsTop

\* Of a ranking of the best 2k the first k are the best k.
LEMMA PrefixIsBest ==
  ASSUME NEW s, Found(s), NEW k \in Nat \ {0}, NEW n \in Nat, NEW S,
         Best(S, n, s, 2 * k), NEW t, Ranking(t, n, S)
  PROVE  LET p == Least(k, n)
             T == {t[i] : i \in 1..p}
         IN  /\ Best(T, p, s, k)
             /\ Ranking(SubSeq(t, 1, p), p, T)
<1>. DEFINE p == Least(k, n)
            T == {t[i] : i \in 1..p}
<1>1. Len(s) \in Nat /\ HaveScores(Range(s)) BY FoundFacts
<1>2. /\ p = Least(k, Len(s)) /\ p \in Nat /\ p <= n
      /\ p < k => n = p /\ n < 2 * k
  BY <1>1 DEF Best, Least
<1>3. t \in [1..n -> S] /\ Len(t) = n /\ DOMAIN t = 1..n BY DEF Ranking
<1>4. t \in Seq(S) BY <1>3
<1>. HIDE DEF p
<1>5. /\ SubSeq(t, 1, p) = [i \in 1..p |-> t[i]]
  BY <1>2, <1>4
<1>6. Ranking([i \in 1..p |-> t[i]], p, T) BY <1>2, <1>3 DEF Ranking
<1>7. T \subseteq Range(s) BY <1>2, <1>3 DEF Best
<1>8. p < k => T = Range(s)
  <2>. SUFFICES ASSUME p < k PROVE T = Range(s) OBVIOUS
  <2>1. n = p /\ S = Range(s) BY <1>2 DEF Best
  <2>. QED BY <2>1 DEF Ranking
<1>9. ASSUME NEW w \in Range(s) \ T, NEW e \in T PROVE w.score <= e.score
  <2>1. PICK i \in 1..p : e = t[i] BY <1>9
  <2>2. e \in S BY <1>2, <1>3, <2>1
  <2>3. CASE w \notin S BY <2>2, <2>3 DEF Best
  <2>4. CASE w \in S
    <3>1. PICK j \in 1..n : w = t[j] BY <2>4 DEF Ranking
    <3>2. j \notin 1..p BY <3>1, <1>9
    <3>3. i <= j /\ i \in 1..n BY <1>2, <3>2
    <3>4. t[i].score >= t[j].score BY <3>3 DEF Ranking
    <3>5. t[i] \in Range(s) /\ t[j] \in Range(s) BY <1>3, <3>3 DEF Best
    <3>. QED BY <1>1, <2>1, <3>1, <3>4, <3>5 DEF HaveScores
  <2>. QED BY <2>3, <2>4
<1>10. Best(T, p, s, k) BY <1>2, <1>7, <1>8, <1>9 DEF Best
<1>. QED BY <1>5, <1>6, <1>10 DEF p

\* None of the results is better than the first of their ranking.
LEMMA RankingFirst ==
  ASSUME NEW s, Found(s), s # <<>>, NEW k \in Nat \ {0}, NEW n \in Nat,
         NEW S, Best(S, n, s, k), NEW t, Ranking(t, n, S)
  PROVE  t[1].score \in Int /\ \A w \in Range(s) : w.score <= t[1].score
<1>1. HaveScores(Range(s)) /\ S \subseteq Range(s) BY FoundFacts DEF Best
<1>2. Len(s) \in Nat \ {0}
  <2>1. s \in Seq([idx : Nat, score : Int]) BY DEF Found, Results
  <2>. QED BY <2>1
<1>3. 1 \in 1..n BY <1>2 DEF Best, Least
<1>4. t[1] \in S BY <1>3 DEF Ranking
<1>5. ASSUME NEW w \in Range(s) PROVE w.score <= t[1].score
  <2>1. CASE w \in S
    <3>1. PICK i \in 1..n : t[i] = w BY <2>1 DEF Ranking
    <3>2. t[1].score >= t[i].score BY <1>3, <3>1 DEF Ranking
    <3>3. t[1].score \in Int /\ w.score \in Int BY <1>1, <1>4 DEF HaveScores
    <3>. QED BY <3>1, <3>2, <3>3
  <2>2. CASE w \notin S BY <1>4, <2>2 DEF Best
  <2>. QED BY <2>1, <2>2
<1>. QED BY <1>1, <1>4, <1>5 DEF HaveScores

(***************************************************************************)
(* A batch.                                                                *)
(***************************************************************************)
\* Some index is the best of n scores, or none is above Floor.
LEMMA BestExists ==
  ASSUME NEW n \in Nat, NEW s, \A j \in 0..n-1 : s[j] \in Score
  PROVE  \E j \in {NoIndex} \cup 0..n-1 :
           IsBest(s, n, j, IF j = NoIndex THEN Floor ELSE s[j])
<1>. DEFINE best(j) == IF j = NoIndex THEN Floor ELSE s[j]
            K == {m \in Nat : m <= n =>
                    \E j \in {NoIndex} \cup 0..m-1 : IsBest(s, m, j, best(j))}
<1>1. 0 \in K BY DEF IsBest, NoIndex
<1>2. ASSUME NEW m \in Nat, m \in K PROVE m + 1 \in K
  <2>. SUFFICES ASSUME m + 1 <= n
                PROVE  \E j \in {NoIndex} \cup 0..m : IsBest(s, m + 1, j, best(j))
    <3>1. (m + 1) - 1 = m OBVIOUS
    <3>. HIDE DEF best
    <3>. QED BY <3>1
  <2>1. PICK j \in {NoIndex} \cup 0..m-1 : IsBest(s, m, j, best(j)) BY <1>2
  <2>2. s[m] \in Score /\ \A i \in 0..m-1 : s[i] \in Score OBVIOUS
  <2>3. best(j) \in Int /\ best(j) >= Floor
    BY <2>1, ScoreAssumption DEF IsBest, Above, Score, NoIndex
  <2>. DEFINE b == best(j)
  <2>4. CASE Above(s[m], b)
    <3>1. best(m) = s[m] BY DEF NoIndex
    <3>2. s[m] \in Int /\ s[m] > b BY <2>2, <2>4 DEF Above, Score
    <3>3. \A i \in 0..m-1 : s[i] = NaN \/ (s[i] \in Int /\ s[i] <= b)
      <4>. HIDE DEF best
      <4>1. \A i \in 0..m-1 : ~Above(s[i], b) \/ (j = NoIndex /\ b = Floor)
        BY <2>1 DEF IsBest
      <4>2. \A i \in 0..m-1 : ~Above(s[i], b) BY <2>1, <4>1 DEF IsBest
      <4>. QED BY <2>2, <2>3, <4>2, ScoreAssumption DEF Above, Score
    <3>4. /\ Above(s[m], Floor) /\ ~Above(s[m], s[m])
          /\ \A i \in 0..m-1 : ~Above(s[i], s[m]) /\ (Above(s[m], s[i]) \/ s[i] = NaN)
      <4>. HIDE DEF best
      <4>. QED BY <2>3, <3>2, <3>3, ScoreAssumption DEF Above
    <3>5. \A i \in 0..(m+1)-1 : i = m \/ i \in 0..m-1 OBVIOUS
    <3>. HIDE DEF best
    <3>6. IsBest(s, m + 1, m, s[m]) BY <3>4, <3>5 DEF IsBest
    <3>. QED BY <3>1, <3>6
  <2>5. CASE ~Above(s[m], b)
    <3>1. \A i \in 0..(m+1)-1 : i = m \/ i \in 0..m-1 OBVIOUS
    <3>2. j \in 0..m-1 => j \in 0..(m+1)-1 OBVIOUS
    <3>3. IsBest(s, m + 1, j, b)
      <4>. HIDE DEF best
      <4>. QED BY <2>1, <2>5, <3>1, <3>2 DEF IsBest
    <3>. QED BY <3>3
  <2>. QED BY <2>4, <2>5
<1>3. n \in K BY <1>1, <1>2, SetInduction
<1>. QED BY <1>3

\* What both loaders give: as many vectors as an index can name at most.
Loaded(d) ==
  /\ IsDb(d) /\ DOMAIN d.rows = 1..Len(d.rows)
  /\ Len(d.rows) \in Nat /\ Len(d.rows) < IndexRange

\* A result of a batch that begins before next: a vector and its score, or
\* the index before the batch.
Names(w, d, q, low, high) ==
  w.idx \in low..high-1 /\ w.idx < Len(d.rows) /\ w.score > Floor
  /\ w.score = Dot(d.rows[w.idx + 1], q)

Fetched(w, d, q, next) ==
  \/ Names(w, d, q, 0, next)
  \/ w.score = Floor /\ \E b \in 0..next-1 : w.idx = (b - 1) % IndexRange

\* Of the first next vectors none is above all results in s.
Covers(s, d, q, next) ==
  \A i \in 1..next : \E w \in Range(s) : ~Above(Dot(d.rows[i], q), w.score)

\* next is where the k-th batch ends; s has a result of each, unless some
\* failed, and then covers them.
Batched(s, d, q, next) ==
  /\ next <= Len(d.rows)
  /\ \E k \in Nat : /\ next < Len(d.rows) => next = k * MaxVectors
                    /\ (k - 1) * MaxVectors < next
                    /\ Len(s) <= k
                    /\ Len(s) = k => Covers(s, d, q, next)

\* A batch that is begun has a vector, and ends within the database.
LEMMA BatchIs ==
  ASSUME NEW d, Loaded(d), NEW b \in Nat, b < Len(d.rows)
  PROVE  Batch(d, b) \in Nat \ {0} /\ b + Batch(d, b) <= Len(d.rows)
BY DbAssumption DEF Loaded, Batch

\* Only one index, with one score, is the best of n scores.
LEMMA BestIsUnique ==
  ASSUME NEW n \in Nat, NEW s, \A k \in 0..n-1 : s[k] \in Score,
         NEW i, NEW x, IsBest(s, n, i, x), NEW j, NEW y, IsBest(s, n, j, y)
  PROVE  i = j /\ x = y
<1>. DEFINE None(k, z) == k = NoIndex /\ z = Floor
                          /\ \A l \in 0..n-1 : ~Above(s[l], Floor)
            Some(k, z) == /\ k \in 0..n-1 /\ z = s[k] /\ Above(z, Floor)
                          /\ \A l \in 0..n-1 : ~Above(s[l], z)
                          /\ \A l \in 0..k-1 : Above(z, s[l]) \/ s[l] = NaN
<1>1. (None(i, x) \/ Some(i, x)) /\ (None(j, y) \/ Some(j, y)) BY DEF IsBest
<1>2. ~(None(i, x) /\ Some(j, y)) /\ ~(Some(i, x) /\ None(j, y)) OBVIOUS
<1>3. CASE Some(i, x) /\ Some(j, y)
  <2>1. x \in Int /\ y \in Int BY <1>3 DEF Score, Above
  <2>2. x = y BY <1>3, <2>1, ScoreAssumption DEF Above
  <2>3. ~(i < j) /\ ~(j < i)
    <3>1. i \in 0..n-1 /\ j \in 0..n-1 /\ x = s[i] /\ y = s[j] BY <1>3
    <3>2. i < j => i \in 0..j-1 BY <3>1
    <3>3. j < i => j \in 0..i-1 BY <3>1
    <3>. QED BY <1>3, <2>1, <2>2, <3>1, <3>2, <3>3, ScoreAssumption DEF Above
  <2>4. i \in Int /\ j \in Int BY <1>3
  <2>. QED BY <2>2, <2>3, <2>4
<1>. QED BY <1>1, <1>2, <1>3

\* The scores of a batch.
BatchScores(d, q, b) == [j \in 0..Batch(d, b)-1 |-> Dot(d.rows[b + j + 1], q)]

ScoreOf(s, j) == IF j = NoIndex THEN Floor ELSE s[j]

\* What a batch finds is the best of its scores.
LEMMA WinnerIsBest ==
  ASSUME NEW d, Loaded(d), NEW q, Scored(d, {q}), Len(q) = d.dim,
         NEW b \in Nat, b < Len(d.rows)
  PROVE  LET n == Batch(d, b)
             s == BatchScores(d, q, b)
         IN  /\ \A i \in 0..n-1 : s[i] = Dot(d.rows[b + i + 1], q) /\ s[i] \in Score
             /\ \E j \in {NoIndex} \cup 0..n-1 :
                  /\ IsBest(s, n, j, ScoreOf(s, j))
                  /\ Winner(d, q, b) = [idx |-> (b + j) % IndexRange, score |-> ScoreOf(s, j)]
<1>. DEFINE n == Batch(d, b)
            s == BatchScores(d, q, b)
            good(j) == j \in {NoIndex} \cup 0..n-1 /\ IsBest(s, n, j, ScoreOf(s, j))
            j == CHOOSE j \in {NoIndex} \cup 0..n-1 : IsBest(s, n, j, ScoreOf(s, j))
<1>1. n \in Nat \ {0} /\ b + n <= Len(d.rows) BY BatchIs
<1>2. DOMAIN d.rows = 1..Len(d.rows) /\ Len(d.rows) \in Nat BY DEF Loaded
<1>3. Winner(d, q, b) = [idx |-> (b + j) % IndexRange, score |-> ScoreOf(s, j)]
  BY DEF Winner, BatchScores, ScoreOf
<1>4. s = [i \in 0..n-1 |-> Dot(d.rows[b + i + 1], q)] BY DEF BatchScores
<1>. HIDE DEF n, s
<1>5. \A i \in 0..n-1 : s[i] = Dot(d.rows[b + i + 1], q) /\ s[i] \in Score
  <2>. SUFFICES ASSUME NEW i \in 0..n-1 PROVE Dot(d.rows[b + i + 1], q) \in Score
    BY <1>4
  <2>1. b + i + 1 \in DOMAIN d.rows BY <1>1, <1>2
  <2>. QED BY <2>1 DEF Scored
<1>6. \E i : good(i) BY <1>1, <1>5, BestExists DEF ScoreOf
<1>7. good(j) BY <1>6
<1>. HIDE DEF j
<1>. QED BY <1>3, <1>5, <1>7 DEF n, s

\* What a batch finds is of that batch, or the index before it.
LEMMA WinnerIs ==
  ASSUME NEW d, Loaded(d), NEW q, Scored(d, {q}), Len(q) = d.dim,
         NEW b \in Nat, b < Len(d.rows)
  PROVE  /\ Winner(d, q, b) \in [idx : Nat, score : Int]
         /\ \/ Names(Winner(d, q, b), d, q, b, b + Batch(d, b))
            \/ Winner(d, q, b).score = Floor /\ Winner(d, q, b).idx = (b - 1) % IndexRange
<1>. DEFINE n == Batch(d, b)
            dot == BatchScores(d, q, b)
            best(j) == ScoreOf(dot, j)
<1>1. n \in Nat \ {0} /\ b + n <= Len(d.rows) BY BatchIs
<1>2. DOMAIN d.rows = 1..Len(d.rows) /\ Len(d.rows) < IndexRange /\ Len(d.rows) \in Nat
  BY DEF Loaded
<1>3. \A i \in 0..n-1 : dot[i] = Dot(d.rows[b + i + 1], q) /\ dot[i] \in Score
  BY WinnerIsBest
<1>4. PICK j \in {NoIndex} \cup 0..n-1 :
        /\ IsBest(dot, n, j, best(j))
        /\ Winner(d, q, b) = [idx |-> (b + j) % IndexRange, score |-> best(j)]
  BY WinnerIsBest
<1>5. Winner(d, q, b) = [idx |-> (b + j) % IndexRange, score |-> best(j)] BY <1>4
<1>6. (j = NoIndex => best(j) = Floor) /\ (j # NoIndex => best(j) = dot[j]) BY DEF ScoreOf
<1>. HIDE DEF n, dot, best
<1>7. CASE j = NoIndex
  <2>1. (b + j) % IndexRange = (b - 1) % IndexRange BY <1>7 DEF NoIndex
  <2>2. (b - 1) % IndexRange \in Nat BY DbAssumption
  <2>. QED BY <1>5, <1>6, <1>7, <2>1, <2>2, ScoreAssumption
<1>8. CASE j # NoIndex
  <2>1. j \in 0..n-1 /\ Above(dot[j], Floor) BY <1>4, <1>6, <1>8 DEF IsBest
  <2>2. dot[j] \in Int /\ dot[j] > Floor BY <1>3, <2>1, ScoreAssumption DEF Above, Score
  <2>3. b + j \in b..b+n-1 /\ b + j < Len(d.rows) /\ b + j \in Nat
    BY <1>1, <1>2, <2>1
  <2>4. (b + j) % IndexRange = b + j
    <3>1. IndexRange \in Nat /\ b + j < IndexRange
      BY <1>2, <2>3, DbAssumption
    <3>. QED BY <2>3, <3>1
  <2>5. Winner(d, q, b) = [idx |-> b + j, score |-> dot[j]] BY <1>5, <1>6, <1>8, <2>4
  <2>6. dot[j] = Dot(d.rows[b + j + 1], q) BY <1>3, <2>1
  <2>. DEFINE w == Winner(d, q, b)
  <2>7. w.idx = b + j /\ w.score = dot[j] BY <2>5
  <2>8. w \in [idx : Nat, score : Int] BY <2>2, <2>3, <2>5
  <2>. HIDE DEF w
  <2>9. Names(w, d, q, b, b + n)
    <3>1. w.idx \in b..b+n-1 /\ w.idx < Len(d.rows) /\ w.score > Floor
      BY <2>2, <2>3, <2>7
    <3>2. w.score = Dot(d.rows[w.idx + 1], q) BY <2>6, <2>7
    <3>. QED BY <1>1, <3>1, <3>2 DEF Names
  <2>. QED BY <2>8, <2>9 DEF w, n
<1>. QED BY <1>7, <1>8

\* What SppuSession's calls report for a batch, to the only process that
\* uses the device, is what Winner says: the best match of the scores the
\* vectors of the batch have, counted from the batch's first.
THEOREM SessionGivesWinner ==
  ASSUME NEW d, Loaded(d), NEW q, Scored(d, {q}), Len(q) = d.dim,
         NEW b \in Nat, b < Len(d.rows),
         NEW s, \A j \in 0..Batch(d, b)-1 : s[j] = Dot(d.rows[b + j + 1], q),
         NEW idx, NEW score, IsBest(s, Batch(d, b), idx, score)
  PROVE  Winner(d, q, b) = [idx |-> (b + idx) % IndexRange, score |-> score]
<1>. DEFINE n == Batch(d, b)  dot == BatchScores(d, q, b)
<1>1. n \in Nat BY BatchIs
<1>2. \A i \in 0..n-1 : dot[i] = Dot(d.rows[b + i + 1], q) /\ dot[i] \in Score
  BY WinnerIsBest
<1>3. PICK j \in {NoIndex} \cup 0..n-1 :
        /\ IsBest(dot, n, j, ScoreOf(dot, j))
        /\ Winner(d, q, b) = [idx |-> (b + j) % IndexRange, score |-> ScoreOf(dot, j)]
  BY WinnerIsBest
<1>. HIDE DEF n, dot
<1>4. \A i \in 0..n-1 : dot[i] = s[i] BY <1>2 DEF n
<1>5. IsBest(dot, n, idx, score)
  <2>1. idx \in 0..n-1 => \A l \in 0..idx-1 : l \in 0..n-1 BY <1>1
  <2>2. IsBest(s, n, idx, score) BY DEF n
  <2>3. CASE idx = NoIndex BY <1>4, <2>2, <2>3 DEF IsBest, NoIndex
  <2>4. CASE idx \in 0..n-1
    <3>1. idx # NoIndex BY <1>1, <2>4 DEF NoIndex
    <3>. QED BY <1>4, <2>1, <2>2, <2>4, <3>1 DEF IsBest
  <2>. QED BY <2>2, <2>3, <2>4 DEF IsBest
<1>6. idx = j /\ score = ScoreOf(dot, j) BY <1>1, <1>2, <1>3, <1>5, BestIsUnique
<1>. QED BY <1>3, <1>6

\* No vector of a batch is above what the batch finds.
LEMMA WinnerCovers ==
  ASSUME NEW d, Loaded(d), NEW q, Scored(d, {q}), Len(q) = d.dim,
         NEW b \in Nat, b < Len(d.rows), NEW i \in b+1..b+Batch(d, b)
  PROVE  ~Above(Dot(d.rows[i], q), Winner(d, q, b).score)
<1>. DEFINE n == Batch(d, b)  dot == BatchScores(d, q, b)
<1>1. n \in Nat BY BatchIs
<1>2. \A l \in 0..n-1 : dot[l] = Dot(d.rows[b + l + 1], q) BY WinnerIsBest
<1>3. PICK j \in {NoIndex} \cup 0..n-1 :
        /\ IsBest(dot, n, j, ScoreOf(dot, j))
        /\ Winner(d, q, b) = [idx |-> (b + j) % IndexRange, score |-> ScoreOf(dot, j)]
  BY WinnerIsBest
<1>. HIDE DEF n, dot
<1>4. \A l \in 0..n-1 : ~Above(dot[l], ScoreOf(dot, j)) BY <1>3 DEF IsBest
<1>5. i - b - 1 \in 0..n-1 /\ b + (i - b - 1) + 1 = i BY <1>1 DEF n
<1>6. dot[i - b - 1] = Dot(d.rows[i], q) BY <1>2, <1>5
<1>. QED BY <1>3, <1>4, <1>5, <1>6

\* So batches of which none fails cover the vectors they go through.
LEMMA BatchCovers ==
  ASSUME NEW d, Loaded(d), NEW q, Scored(d, {q}), Len(q) = d.dim,
         NEW b \in Nat, b < Len(d.rows), NEW s, Found(s), Covers(s, d, q, b)
  PROVE  Covers(Append(s, Winner(d, q, b)), d, q, b + Batch(d, b))
<1>. DEFINE n == Batch(d, b)  e == Winner(d, q, b)
<1>1. n \in Nat BY BatchIs
<1>2. Range(Append(s, e)) = Range(s) \cup {e} BY AppendFound
<1>3. \A i \in b+1..b+n : ~Above(Dot(d.rows[i], q), e.score) BY WinnerCovers
<1>. HIDE DEF n, e
<1>4. \A i \in 1..b+n : i \in 1..b \/ i \in b+1..b+n BY <1>1
<1>. QED BY <1>2, <1>3, <1>4 DEF Covers, e, n

\* Of two products with the same factor.
LEMMA ProductGrows ==
  ASSUME NEW x \in Int, NEW y \in Int, NEW m \in Nat, x <= y
  PROVE  x * m <= y * m
<1>1. (y - x) * m \in Nat
  <2>1. \A z \in Nat : z * m \in Nat OBVIOUS
  <2>. QED BY <2>1
<1>2. y * m = (y - x) * m + x * m OBVIOUS
<1>. QED BY <1>1, <1>2

\* The next batch, with its result or without.
LEMMA BatchedNext ==
  ASSUME NEW d, Loaded(d), NEW q, Scored(d, {q}), Len(q) = d.dim,
         NEW b \in Nat, b < Len(d.rows), NEW s, Found(s), Batched(s, d, q, b)
  PROVE  /\ Batched(Append(s, Winner(d, q, b)), d, q, b + Batch(d, b))
         /\ Batched(s, d, q, b + Batch(d, b))
<1>. DEFINE n == Batch(d, b)  e == Winner(d, q, b)  M == MaxVectors  next == b + n
<1>1. /\ n \in Nat \ {0} /\ next <= Len(d.rows) /\ M \in Nat \ {0}
      /\ next < Len(d.rows) => n = M
  BY BatchIs, DbAssumption DEF Batch, Loaded
<1>2. PICK k \in Nat : /\ b = k * M /\ Len(s) <= k
                       /\ Len(s) = k => Covers(s, d, q, b)
  BY DEF Batched
<1>3. Len(Append(s, e)) = Len(s) + 1 /\ Len(s) \in Nat BY AppendFound, FoundFacts
<1>4. Len(s) = k => Covers(Append(s, e), d, q, next) BY <1>2, BatchCovers
<1>. HIDE DEF n, e, M, next
<1>5. k + 1 \in Nat /\ (k + 1) - 1 = k BY <1>2
<1>6. next < Len(d.rows) => next = (k + 1) * M
  <2>1. (k + 1) * M = k * M + M BY <1>1, <1>2
  <2>. QED BY <1>1, <1>2, <2>1 DEF next
<1>7. k * M < next BY <1>1, <1>2 DEF next
<1>8. Batched(Append(s, e), d, q, next)
  <2>1. Len(s) + 1 <= k + 1 /\ (Len(s) + 1 = k + 1 => Len(s) = k) BY <1>2, <1>3
  <2>. QED BY <1>1, <1>3, <1>4, <1>5, <1>6, <1>7, <2>1 DEF Batched, M
<1>9. Batched(s, d, q, next)
  <2>1. Len(s) <= k + 1 /\ Len(s) # k + 1 BY <1>2, <1>3
  <2>. QED BY <1>1, <1>5, <1>6, <1>7, <2>1 DEF Batched, M
<1>. QED BY <1>8, <1>9 DEF next, n, e

\* At the end: as many results as batches cover the database.
LEMMA BatchedCovers ==
  ASSUME NEW d, Loaded(d), NEW q, NEW s, Found(s), Batched(s, d, q, Len(d.rows)),
         Len(s) * MaxVectors >= Len(d.rows)
  PROVE  Covers(s, d, q, Len(d.rows))
<1>1. PICK k \in Nat : /\ (k - 1) * MaxVectors < Len(d.rows) /\ Len(s) <= k
                       /\ Len(s) = k => Covers(s, d, q, Len(d.rows))
  BY DEF Batched
<1>2. Len(s) \in Nat /\ MaxVectors \in Nat /\ Len(d.rows) \in Nat
  BY FoundFacts, DbAssumption DEF Loaded
<1>3. ASSUME Len(s) <= k - 1 PROVE FALSE
  <2>1. Len(s) * MaxVectors <= (k - 1) * MaxVectors BY <1>2, <1>3, ProductGrows
  <2>2. Len(s) * MaxVectors \in Int /\ (k - 1) * MaxVectors \in Int BY <1>2
  <2>. QED BY <1>1, <1>2, <2>1, <2>2
<1>. QED BY <1>1, <1>2, <1>3

(***************************************************************************)
(* The loaders.                                                            *)
(***************************************************************************)
CsvLine == [kind : LineKinds, vec : Seq(Score)]

\* The lines of the first i that are not of the kinds to be skipped.
Keeps(kept, kinds, lines) ==
  /\ kept[0] = <<>>
  /\ \A i \in 1..Len(lines) :
       kept[i] = IF lines[i].kind \in kinds THEN kept[i-1]
                                            ELSE Append(kept[i-1], lines[i])

\* Without is what going through the lines one by one gives.
LEMMA WithoutIs ==
  ASSUME NEW kinds, NEW lines \in Seq(CsvLine)
  PROVE  \E kept : Keeps(kept, kinds, lines) /\ Without(kinds, lines) = kept[Len(lines)]
<1>. DEFINE n == Len(lines)
            X == Seq(CsvLine)
            next(x, i) == IF lines[i].kind \in kinds THEN x ELSE Append(x, lines[i])
            step == [y \in (1..n) \X X |-> next(y[2], y[1])]
            F(g) == [i \in 0..n |-> IF i = 0 THEN <<>> ELSE next(g[i-1], i)]
            kept == CHOOSE g : g = F(g)
<1>1. n \in Nat /\ \A i \in 1..n : lines[i] \in CsvLine OBVIOUS
<1>2. <<>> \in X /\ step \in StepsIn(X, n) BY <1>1 DEF StepsIn
<1>3. Without(kinds, lines) = kept[n] BY DEF Without
<1>4. ASSUME NEW g PROVE /\ F(g)[0] = <<>>
                         /\ \A i \in 1..n : F(g)[i] = next(g[i-1], i)
                         /\ F(g) = [i \in 0..n |-> F(g)[i]]
  <2>. HIDE DEF next, n
  <2>. QED BY <1>1
<1>. HIDE DEF X, F, n
<1>5. PICK f \in [0..n -> X] : Iterated(f, n, <<>>, step)
  <2>. HIDE DEF step
  <2>. QED BY <1>1, <1>2, Iterates
<1>6. f[0] = <<>> /\ \A i \in 1..n : f[i] = next(f[i-1], i)
  <2>1. f[0] = <<>> BY <1>5 DEF Iterated
  <2>. SUFFICES ASSUME NEW i \in 1..n PROVE f[i] = next(f[i-1], i) BY <2>1
  <2>2. f[i-1] \in X BY <1>1
  <2>3. step[<<i, f[i-1]>>] = next(f[i-1], i) BY <2>2
  <2>. HIDE DEF step, next
  <2>. QED BY <1>5, <2>3 DEF Iterated
<1>. HIDE DEF step, next
<1>7. f = F(f)
  <2>1. f = [i \in 0..n |-> f[i]] OBVIOUS
  <2>2. \A i \in 0..n : i = 0 \/ i \in 1..n BY <1>1
  <2>3. \A i \in 0..n : f[i] = F(f)[i] BY <1>4, <1>6, <2>2
  <2>. QED BY <1>4, <2>1, <2>3
<1>8. kept = F(kept) BY <1>7
<1>9. F(kept)[0] = <<>> /\ \A i \in 1..n : F(kept)[i] = next(kept[i-1], i) BY <1>4
<1>. HIDE DEF kept
<1>. QED BY <1>3, <1>8, <1>9 DEF Keeps, next, n

\* What is kept are lines, none more than there were.
LEMMA WithoutType ==
  ASSUME NEW kinds, NEW lines \in Seq(CsvLine)
  PROVE  /\ Without(kinds, lines) \in Seq(CsvLine)
         /\ Len(Without(kinds, lines)) <= Len(lines)
<1>1. PICK kept : Keeps(kept, kinds, lines) /\ Without(kinds, lines) = kept[Len(lines)]
  BY WithoutIs
<1>. DEFINE n == Len(lines)
            K == {i \in Nat : i <= n => kept[i] \in Seq(CsvLine) /\ Len(kept[i]) <= i}
<1>2. n \in Nat /\ \A i \in 1..n : lines[i] \in CsvLine OBVIOUS
<1>3. 0 \in K
  <2>1. kept[0] = <<>> BY <1>1 DEF Keeps
  <2>2. <<>> \in Seq(CsvLine) /\ Len(<<>>) = 0 OBVIOUS
  <2>3. kept[0] \in Seq(CsvLine) /\ Len(kept[0]) <= 0 BY <2>1, <2>2
  <2>. QED BY <2>3
<1>4. ASSUME NEW i \in Nat, i \in K PROVE i + 1 \in K
  <2>. SUFFICES ASSUME i + 1 <= n
                PROVE  kept[i+1] \in Seq(CsvLine) /\ Len(kept[i+1]) <= i + 1
    OBVIOUS
  <2>1. kept[i] \in Seq(CsvLine) /\ Len(kept[i]) <= i BY <1>2, <1>4
  <2>2. i + 1 \in 1..n /\ (i + 1) - 1 = i BY <1>2
  <2>3. kept[i+1] = kept[i] \/ kept[i+1] = Append(kept[i], lines[i+1])
    BY <1>1, <2>2 DEF Keeps
  <2>4. lines[i+1] \in CsvLine BY <1>2, <2>2
  <2>5. ASSUME NEW x \in Seq(CsvLine), NEW e \in CsvLine
        PROVE  Append(x, e) \in Seq(CsvLine) /\ Len(Append(x, e)) = Len(x) + 1 /\ Len(x) \in Nat
    OBVIOUS
  <2>6. CASE kept[i+1] = kept[i]
    <3>1. Len(kept[i]) \in Nat BY <2>1
    <3>. QED BY <2>1, <2>6, <3>1
  <2>7. CASE kept[i+1] = Append(kept[i], lines[i+1])
    <3>1. /\ Append(kept[i], lines[i+1]) \in Seq(CsvLine) /\ Len(kept[i]) \in Nat
          /\ Len(Append(kept[i], lines[i+1])) = Len(kept[i]) + 1
      BY <2>1, <2>4, <2>5
    <3>. QED BY <2>1, <2>7, <3>1
  <2>. QED BY <2>3, <2>6, <2>7
<1>5. n \in K BY <1>2, <1>3, <1>4, SetInduction
<1>. QED BY <1>1, <1>2, <1>5

\* Skipping a kind of which there is no line changes nothing.
LEMMA WithoutNone ==
  ASSUME NEW kinds, NEW none, NEW lines \in Seq(CsvLine),
         \A i \in 1..Len(lines) : lines[i].kind # none
  PROVE  Without(kinds \cup {none}, lines) = Without(kinds, lines)
<1>1. PICK all : /\ Keeps(all, kinds \cup {none}, lines)
                 /\ Without(kinds \cup {none}, lines) = all[Len(lines)]
  BY WithoutIs
<1>2. PICK kept : Keeps(kept, kinds, lines) /\ Without(kinds, lines) = kept[Len(lines)]
  BY WithoutIs
<1>. DEFINE n == Len(lines)
            K == {i \in Nat : i <= n => all[i] = kept[i]}
<1>3. n \in Nat OBVIOUS
<1>4. 0 \in K BY <1>1, <1>2 DEF Keeps
<1>5. ASSUME NEW i \in Nat, i \in K PROVE i + 1 \in K
  <2>. SUFFICES ASSUME i + 1 <= n PROVE all[i+1] = kept[i+1] OBVIOUS
  <2>1. all[i] = kept[i] BY <1>3, <1>5
  <2>2. i + 1 \in 1..n /\ (i + 1) - 1 = i BY <1>3
  <2>3. lines[i+1].kind \in kinds \cup {none} <=> lines[i+1].kind \in kinds BY <2>2
  <2>4. all[i+1] = IF lines[i+1].kind \in kinds \cup {none}
                     THEN all[i] ELSE Append(all[i], lines[i+1])
    BY <1>1, <2>2 DEF Keeps
  <2>5. kept[i+1] = IF lines[i+1].kind \in kinds THEN kept[i]
                                                 ELSE Append(kept[i], lines[i+1])
    BY <1>2, <2>2 DEF Keeps
  <2>. QED BY <2>1, <2>3, <2>4, <2>5
<1>6. n \in K BY <1>3, <1>4, <1>5, SetInduction
<1>. QED BY <1>1, <1>2, <1>3, <1>6

\* The dimension is that of some line.
LEMMA ColumnsType ==
  ASSUME NEW lines \in Seq(CsvLine)
  PROVE  Columns(lines) \in Nat
<1>. DEFINE numeric == {i \in DOMAIN lines : lines[i].vec # <<>>}
<1>1. numeric \in SUBSET Nat /\ \A i \in numeric : lines[i] \in CsvLine OBVIOUS
<1>2. Columns(lines) = IF numeric = {} THEN 0 ELSE Len(lines[Min(numeric)].vec)
  BY DEF Columns
<1>. HIDE DEF numeric
<1>3. ASSUME numeric # {} PROVE Min(numeric) \in numeric
  BY <1>1, <1>3, LeastNatural DEF Min
<1>4. \A i \in numeric : Len(lines[i].vec) \in Nat BY <1>1 DEF CsvLine
<1>. QED BY <1>2, <1>3, <1>4

\* The empty database is one that may be loaded.
LEMMA NoDbLoaded == Loaded(NoDb)
BY DbAssumption DEF Loaded, IsDb, NoDb

\* So is what the reader of binary files gives,
LEMMA BinaryLoaded ==
  ASSUME NEW f \in Files, f.format = "bin"
  PROVE  Loaded(LoadBinary(f))
<1>1. /\ f.count \in Nat /\ f.count < IndexRange /\ f.dim \in Nat
      /\ f.rows \in Seq(Seq(Score)) /\ \A i \in DOMAIN f.rows : Len(f.rows[i]) = f.dim
  BY DbAssumption
<1>2. CASE f.count <= Len(f.rows)
  <2>. DEFINE rows == SubSeq(f.rows, 1, f.count)
  <2>1. rows = [i \in 1..f.count |-> f.rows[i]] BY <1>1, <1>2
  <2>2. /\ Len(rows) = f.count /\ DOMAIN rows = 1..f.count
        /\ \A i \in 1..f.count : rows[i] = f.rows[i] /\ i \in DOMAIN f.rows
    BY <1>1, <1>2, <2>1
  <2>3. Loaded(Database(f.dim, rows))
    <3>. HIDE DEF rows
    <3>. QED BY <1>1, <2>2 DEF Loaded, IsDb, Database
  <2>. QED BY <2>3, NoDbLoaded DEF LoadBinary
<1>3. CASE ~(f.count <= Len(f.rows))
  <2>1. Len(f.rows) < f.count BY <1>1, <1>3
  <2>. QED BY <2>1, NoDbLoaded DEF LoadBinary
<1>. QED BY <1>2, <1>3

\* and what both readers of CSV give,
LEMMA CsvLoaded ==
  ASSUME NEW lines \in Seq(CsvLine), Len(lines) < IndexRange
  PROVE  Loaded(DaemonCsv(lines)) /\ Loaded(ToolCsv(lines))
<1>. DEFINE rows == Without({"comment", "blank", "crlf"}, lines)
            n == Len(rows)
            dim == Columns(rows)
<1>1. rows \in Seq(CsvLine) /\ n \in Nat /\ n < IndexRange
  BY WithoutType, DbAssumption
<1>2. dim \in Nat BY <1>1, ColumnsType
<1>3. Loaded(DaemonCsv(lines))
  <2>. DEFINE read == Without({"comment", "blank"}, lines)
              filled == [i \in 1..n |-> Filled(read[i].vec, dim)]
  <2>1. DaemonCsv(lines) = IF dim = 0 THEN NoDb ELSE Database(dim, filled)
    BY DEF DaemonCsv
  <2>. HIDE DEF rows, dim, n, read
  <2>2. \A v : Len(Filled(v, dim)) = dim BY <1>2 DEF Filled
  <2>3. Len(filled) = n BY <1>1
  <2>4. Loaded(Database(dim, filled))
    BY <1>1, <1>2, <2>2, <2>3 DEF Loaded, IsDb, Database
  <2>. QED BY <2>1, <2>4, NoDbLoaded
<1>4. Loaded(ToolCsv(lines))
  <2>. DEFINE short == dim = 0 \/ dim > MaxDim \/ \E i \in DOMAIN rows : Len(rows[i].vec) < dim
              cut == [i \in 1..n |-> SubSeq(rows[i].vec, 1, dim)]
  <2>1. ToolCsv(lines) = IF short THEN NoDb ELSE Database(dim, cut)
    BY DEF ToolCsv
  <2>. HIDE DEF rows, dim
  <2>2. ASSUME ~short, NEW i \in 1..n PROVE Len(SubSeq(rows[i].vec, 1, dim)) = dim
    <3>1. rows[i] \in CsvLine /\ ~(Len(rows[i].vec) < dim) BY <1>1, <2>2
    <3>2. rows[i].vec \in Seq(Score) /\ Len(rows[i].vec) \in Nat BY <3>1 DEF CsvLine
    <3>. QED BY <1>2, <3>1, <3>2
  <2>. HIDE DEF short, n
  <2>3. Len(cut) = n BY <1>1
  <2>4. ~short => Loaded(Database(dim, cut))
    BY <1>1, <1>2, <2>2, <2>3 DEF Loaded, IsDb, Database
  <2>. QED BY <2>1, <2>4, NoDbLoaded
<1>. QED BY <1>3, <1>4

\* and hence what is loaded from any file.
LEMMA FilesLoaded ==
  ASSUME NEW f \in Files
  PROVE  Loaded(DaemonLoad(f)) /\ Loaded(ToolLoad(f))
<1>1. f.format \in {"none", "bin", "csv"} BY DbAssumption
<1>2. CASE f.format = "none" BY <1>2, NoDbLoaded DEF DaemonLoad, ToolLoad
<1>3. CASE f.format = "bin" BY <1>3, BinaryLoaded DEF DaemonLoad, ToolLoad
<1>4. CASE f.format = "csv"
  <2>1. f.lines \in Seq(CsvLine) /\ Len(f.lines) < IndexRange BY <1>4, DbAssumption DEF CsvLine
  <2>2. Loaded(DaemonCsv(f.lines)) /\ Loaded(ToolCsv(f.lines)) BY <2>1, CsvLoaded
  <2>. QED BY <1>4, <2>2 DEF DaemonLoad, ToolLoad
<1>. QED BY <1>1, <1>2, <1>3, <1>4

\* What the tool accepts the daemon loads in the same way, but for CR LF.
LEMMA LoadsAgree ==
  ASSUME NEW f \in Files, ToolLoad(f) # NoDb,
         f.format = "csv" => \A i \in DOMAIN f.lines : f.lines[i].kind # "crlf"
  PROVE  DaemonLoad(f) = ToolLoad(f)
<1>1. f.format \in {"none", "bin", "csv"} BY DbAssumption
<1>2. CASE f.format \in {"none", "bin"} BY <1>2 DEF DaemonLoad, ToolLoad
<1>3. CASE f.format = "csv"
  <2>. DEFINE lines == f.lines
              rows == Without({"comment", "blank", "crlf"}, lines)
              n == Len(rows)
              dim == Columns(rows)
  <2>1. lines \in Seq(CsvLine) BY <1>3, DbAssumption DEF CsvLine
  <2>2. \A i \in 1..Len(lines) : lines[i].kind # "crlf" BY <1>3, <2>1
  <2>. HIDE DEF lines
  <2>3. Without({"comment", "blank"} \cup {"crlf"}, lines) = Without({"comment", "blank"}, lines)
    BY <2>1, <2>2, WithoutNone
  <2>4. {"comment", "blank"} \cup {"crlf"} = {"comment", "blank", "crlf"} OBVIOUS
  <2>5. Without({"comment", "blank"}, lines) = rows BY <2>3, <2>4
  <2>6. rows \in Seq(CsvLine) /\ n \in Nat BY <2>1, WithoutType
  <2>7. dim \in Nat BY <2>6, ColumnsType
  <2>8. ToolCsv(lines) # NoDb BY <1>3 DEF ToolLoad, lines
  <2>9. /\ dim # 0 /\ \A i \in DOMAIN rows : ~(Len(rows[i].vec) < dim)
        /\ ToolCsv(lines) = Database(dim, [i \in 1..n |-> SubSeq(rows[i].vec, 1, dim)])
    BY <2>8 DEF ToolCsv
  <2>10. DaemonCsv(lines) = Database(dim, [i \in 1..n |-> Filled(rows[i].vec, dim)])
    BY <2>5, <2>9 DEF DaemonCsv
  <2>. HIDE DEF rows, dim
  <2>11. ASSUME NEW i \in 1..n PROVE SubSeq(rows[i].vec, 1, dim) = Filled(rows[i].vec, dim)
    <3>1. rows[i] \in CsvLine /\ ~(Len(rows[i].vec) < dim) BY <2>6, <2>9
    <3>2. rows[i].vec \in Seq(Score) /\ dim <= Len(rows[i].vec) BY <2>7, <3>1 DEF CsvLine
    <3>3. SubSeq(rows[i].vec, 1, dim) = [d \in 1..dim |-> rows[i].vec[d]] BY <2>7, <3>2
    <3>. QED BY <2>7, <3>2, <3>3 DEF Filled
  <2>12. ToolCsv(lines) = DaemonCsv(lines) BY <2>9, <2>10, <2>11
  <2>. QED BY <1>3, <2>12 DEF DaemonLoad, ToolLoad, lines
<1>. QED BY <1>1, <1>2, <1>3

(***************************************************************************)
(* The inductive invariant.  Each child's heap holds the best top_k of     *)
(* what its batches have found, and those are as many different results.   *)
(***************************************************************************)
DaemonDbs == {NoDb} \cup {DaemonLoad(f) : f \in Files}
ToolDbs   == {NoDb} \cup {ToolLoad(f) : f \in Files}

HeapInv(h, s, k) ==
  LET n == Cardinality(DOMAIN h)
  IN  /\ n \in Nat /\ h \in Heaps(n, Range(h)) /\ HeapFrom(h, n, 0)
      /\ Best(Range(h), n, s, k)

FoundBefore(s, d, q, next) ==
  Found(s) /\ \A w \in Range(s) : Fetched(w, d, q, next)

ParentInv ==
  /\ main \in {"start", "listen", "stopped"}
  /\ db \in DaemonDbs
  /\ main = "start" => \A c \in Clients : pc[c] = "none"

ChildTypes ==
  /\ pc \in [Clients -> {"none", "read", "search", "replied"}]
  /\ mem \in [Clients -> DaemonDbs]
  /\ query \in [Clients -> Queries \cup {<<>>}]
  /\ top_k \in [Clients -> 1..MaxTopK] /\ first \in [Clients -> Nat]
  /\ DOMAIN heap = Clients
  /\ reply \in [Clients -> [code : Codes, results : Results]]
  /\ won \in [Clients -> Results]

ChildInv(c) ==
  /\ HeapInv(heap[c], won[c], top_k[c])
  /\ FoundBefore(won[c], mem[c], query[c], first[c])
  /\ pc[c] = "search" \/ Searched(c) => Batched(won[c], mem[c], query[c], first[c])
  /\ Searched(c) => first[c] = Len(mem[c].rows)
  /\ pc[c] \in {"none", "read"} => won[c] = <<>>
  /\ pc[c] = "search" \/ Searched(c) =>
       query[c] \in Queries /\ Len(query[c]) = mem[c].dim
  /\ Searched(c) => reply[c].results = Sorted(heap[c])

DaemonInv == ParentInv /\ ChildTypes /\ \A c \in Clients : ChildInv(c)

ListInv(l, s, k) == Found(l) /\ Best(Range(l), Len(l), s, k)

ToolInv ==
  /\ tool \in {"start", "search", "printed", "failed"}
  /\ tool_db \in ToolDbs /\ tool_query \in ToolQueries \cup {<<>>}
  /\ tool_k \in Nat \ {0} /\ tool_first \in Nat /\ printed \in Results
  /\ ListInv(g_results, found, 2 * tool_k)
  /\ FoundBefore(found, tool_db, tool_query, tool_first)
  /\ tool \in {"search", "printed"} =>
       tool_file \in Files /\ tool_db = ToolLoad(tool_file) /\ tool_db # NoDb
  /\ tool \in {"search", "printed"} =>
       /\ tool_query \in ToolQueries /\ Len(tool_query) = tool_db.dim
       /\ tool_first <= Len(tool_db.rows)
       /\ Covers(found, tool_db, tool_query, tool_first)
  /\ tool = "printed" =>
       /\ tool_first = Len(tool_db.rows)
       /\ Ranking(g_results, Len(g_results), Range(g_results))
       /\ printed = SubSeq(g_results, 1, Least(tool_k, Len(g_results)))

LoadTypes == load_done \in BOOLEAN /\ after_load \in [Clients -> BOOLEAN]

Inv == DaemonInv /\ ToolInv /\ LoadTypes

\* A heap of n with the results of S, said without n and S.
LEMMA HeapInvIs ==
  ASSUME NEW n \in Nat, NEW S, NEW h \in Heaps(n, S), HeapFrom(h, n, 0),
         NEW s, NEW k, Best(S, n, s, k)
  PROVE  HeapInv(h, s, k)
<1>1. Cardinality(DOMAIN h) = n /\ DOMAIN h = 0..n-1 BY HeapSize
<1>2. Range(h) = S BY <1>1 DEF Heaps, Range
<1>. QED BY <1>1, <1>2 DEF HeapInv

\* Before the first batch: no result is found,
LEMMA NothingFound ==
  /\ Found(<<>>) /\ Range(<<>>) = {} /\ Len(<<>>) = 0
  /\ \A d, q, next : FoundBefore(<<>>, d, q, next)
<1>1. <<>> \in Results BY DEF Results
<1>2. DOMAIN <<>> = {} /\ Len(<<>>) = 0 OBVIOUS
<1>. QED BY <1>1, <1>2 DEF Found, Distinct, Range, FoundBefore

\* none is the best of none,
LEMMA NothingBest == ASSUME NEW k \in Nat PROVE Best({}, 0, <<>>, k)
BY NothingFound DEF Best, Least

\* and the tool's list
LEMMA EmptyList == ASSUME NEW k \in Nat PROVE ListInv(<<>>, <<>>, 2 * k)
<1>1. 2 * k \in Nat OBVIOUS
<1>. QED BY <1>1, NothingFound, NothingBest DEF ListInv

\* and the daemon's heap have none.
LEMMA EmptyHeapInv ==
  ASSUME NEW k \in Nat
  PROVE  HeapInv(Empty, <<>>, k)
<1>1. Empty \in Heaps(0, {}) BY DEF Empty, Heaps
<1>2. HeapFrom(Empty, 0, 0) BY DEF HeapFrom
<1>. QED BY <1>1, <1>2, NothingBest, HeapInvIs

\* heap_push keeps the best, and the heap a heap.
LEMMA PushKeeps ==
  ASSUME NEW s, Found(s), NEW k \in Nat \ {0}, NEW h, HeapInv(h, s, k),
         NEW e, e.score \in Int, e \notin Range(s)
  PROVE  HeapInv(Push(h, k, e), Append(s, e), k)
<1>. DEFINE n == Cardinality(DOMAIN h)  S == Range(h)
<1>1. n \in Nat /\ h \in Heaps(n, S) /\ HeapFrom(h, n, 0) /\ Best(S, n, s, k)
  BY DEF HeapInv
<1>. HIDE DEF n, S
<1>2. S \subseteq Range(s) /\ e \notin S BY <1>1 DEF Best
<1>3. HaveScores(Range(s)) BY FoundFacts
<1>4. HaveScores(S \cup {e}) /\ HaveScores(S) BY <1>2, <1>3 DEF HaveScores
<1>5. CASE n < k
  <2>1. Push(h, k, e) \in Heaps(n + 1, S \cup {e}) /\ HeapFrom(Push(h, k, e), n + 1, 0)
    BY <1>1, <1>2, <1>4, <1>5, PushAdds
  <2>2. Best(S \cup {e}, n + 1, Append(s, e), k) BY <1>1, <1>5, BestAdds
  <2>3. n + 1 \in Nat BY <1>1
  <2>. QED BY <2>1, <2>2, <2>3, HeapInvIs
<1>6. CASE ~(n < k)
  <2>1. n \in Nat \ {0} /\ 0 \in 0..n-1 BY <1>1, <1>6
  <2>2. Scores(h, n)
    <3>1. n <= n BY <1>1
    <3>. QED BY <1>1, <1>4, <3>1, HeapScores
  <2>3. \A p \in 0..n-1 : h[0].score <= h[p].score BY <1>1, <2>2, RootIsMin
  <2>4. h[0] \in S /\ \A d \in S : \E p \in 0..n-1 : h[p] = d
    BY <1>1, <2>1 DEF Heaps
  <2>5. \A d \in S : h[0].score <= d.score BY <2>3, <2>4
  <2>. DEFINE m == h[0]
  <2>6. m \in S /\ \A d \in S : m.score <= d.score BY <2>4, <2>5
  <2>7. CASE e.score > m.score
    <3>1. /\ Push(h, k, e) \in Heaps(n, (S \ {m}) \cup {e})
          /\ HeapFrom(Push(h, k, e), n, 0)
      BY <1>1, <1>2, <1>4, <1>6, <2>1, <2>7, PushReplaces
    <3>. HIDE DEF m
    <3>2. Best((S \ {m}) \cup {e}, n, Append(s, e), k)
      BY <1>1, <1>6, <2>6, <2>7, BestReplaces
    <3>. QED BY <1>1, <3>1, <3>2, HeapInvIs
  <2>8. CASE ~(e.score > m.score)
    <3>1. Push(h, k, e) = h BY <1>1, <1>6, <2>8, PushRefuses
    <3>. HIDE DEF m
    <3>2. Best(S, n, Append(s, e), k) BY <1>1, <1>6, <2>6, <2>8, BestRefuses
    <3>. QED BY <1>1, <3>1, <3>2, HeapInvIs
  <2>. QED BY <2>7, <2>8
<1>. QED BY <1>5, <1>6

\* The answer made of the heap.
LEMMA AnswerIsTop ==
  ASSUME NEW s, Found(s), NEW k \in Nat, NEW h, HeapInv(h, s, k)
  PROVE  /\ IsTop(Sorted(h), s, k) /\ Sorted(h) \in Results
         /\ \A i \in DOMAIN Sorted(h) : Sorted(h)[i] \in Range(s)
         /\ k # 0 /\ s # <<>> =>
              /\ Sorted(h)[1].score \in Int
              /\ \A w \in Range(s) : w.score <= Sorted(h)[1].score
<1>. DEFINE n == Cardinality(DOMAIN h)  S == Range(h)
<1>1. n \in Nat /\ h \in Heaps(n, S) /\ HeapFrom(h, n, 0) /\ Best(S, n, s, k)
  BY DEF HeapInv
<1>. HIDE DEF n, S
<1>2. HaveScores(Range(s)) /\ S \subseteq Range(s) BY <1>1, FoundFacts DEF Best
<1>3. HaveScores(S) BY <1>2 DEF HaveScores
<1>4. Ranking(Sorted(h), n, S) BY <1>1, <1>3, SortedIs
<1>5. IsTop(Sorted(h), s, k) BY <1>1, <1>4, RankingIsTop
<1>6. Sorted(h) \in [1..n -> S] BY <1>4 DEF Ranking
<1>7. \A i \in DOMAIN Sorted(h) : Sorted(h)[i] \in Range(s) BY <1>2, <1>6
<1>8. Range(s) \subseteq [idx : Nat, score : Int]
  <2>. DEFINE R == [idx : Nat, score : Int]
  <2>1. s \in Seq(R) BY DEF Found, Results
  <2>. HIDE DEF R
  <2>2. Range(s) \subseteq R BY <2>1 DEF Range
  <2>. QED BY <2>2 DEF R
<1>9. Sorted(h) \in Results
  <2>. DEFINE R == [idx : Nat, score : Int]
  <2>1. S \subseteq R BY <1>2, <1>8
  <2>. HIDE DEF R
  <2>2. Sorted(h) \in [1..n -> R] BY <1>6, <2>1
  <2>3. Sorted(h) \in Seq(R) BY <1>1, <2>2
  <2>. QED BY <2>3 DEF R, Results
<1>10. k # 0 /\ s # <<>> =>
         /\ Sorted(h)[1].score \in Int
         /\ \A w \in Range(s) : w.score <= Sorted(h)[1].score
  BY <1>1, <1>4, RankingFirst
<1>. QED BY <1>5, <1>7, <1>9, <1>10

\* A batch finds a result that is not among those of the batches before.
LEMMA BatchFinds ==
  ASSUME NEW d, Loaded(d), NEW q, Scored(d, {q}), Len(q) = d.dim,
         NEW b \in Nat, b < Len(d.rows), NEW s, FoundBefore(s, d, q, b)
  PROVE  LET e == Winner(d, q, b)
         IN  /\ e \in [idx : Nat, score : Int] /\ e \notin Range(s)
             /\ FoundBefore(Append(s, e), d, q, b + Batch(d, b))
             /\ FoundBefore(s, d, q, b + Batch(d, b))
<1>. DEFINE e == Winner(d, q, b)  next == b + Batch(d, b)
<1>1. /\ e \in [idx : Nat, score : Int]
      /\ \/ Names(e, d, q, b, next)
         \/ e.score = Floor /\ e.idx = (b - 1) % IndexRange
  BY WinnerIs
<1>2. Batch(d, b) \in Nat \ {0} BY BatchIs
<1>3. next \in Nat /\ b < next /\ b \in 0..next-1 BY <1>2
<1>4. Len(d.rows) \in Nat /\ Len(d.rows) < IndexRange BY DEF Loaded
<1>. HIDE DEF e, next
<1>5. Floor \in Int BY ScoreAssumption
<1>6. \A w : Fetched(w, d, q, b) => Fetched(w, d, q, next)
  BY <1>3 DEF Fetched, Names
<1>7. Fetched(e, d, q, next)
  <2>1. Names(e, d, q, b, next) => Names(e, d, q, 0, next) BY <1>3 DEF Names
  <2>. QED BY <1>1, <1>3, <2>1 DEF Fetched
<1>8. e \notin Range(s)
  <2>. SUFFICES ASSUME e \in Range(s) PROVE FALSE OBVIOUS
  <2>1. Fetched(e, d, q, b) BY DEF FoundBefore
  <2>2. CASE Names(e, d, q, b, next)
    <3>1. e.idx \in b..next-1 /\ e.score > Floor BY <2>2 DEF Names
    <3>2. ~(e.score = Floor) BY <1>5, <3>1
    <3>3. e.idx \in 0..b-1 BY <2>1, <3>2 DEF Fetched, Names
    <3>. QED BY <1>3, <3>1, <3>3
  <2>3. CASE e.score = Floor /\ e.idx = (b - 1) % IndexRange
    <3>1. ~Names(e, d, q, 0, b) BY <1>5, <2>3 DEF Names
    <3>2. PICK a \in 0..b-1 : e.idx = (a - 1) % IndexRange BY <2>1, <3>1 DEF Fetched
    <3>3. /\ IndexRange \in Nat \ {0} /\ b - 1 \in 0..IndexRange-1
          /\ a - 1 < b - 1 /\ b - 1 < IndexRange - 1
      BY <1>4, <3>2, DbAssumption
    <3>4. (b - 1) % IndexRange = b - 1 BY <3>3
    <3>5. CASE a = 0
      <4>1. (a - 1) % IndexRange = IndexRange - 1 BY <3>3, <3>5
      <4>. QED BY <2>3, <3>2, <3>3, <3>4, <4>1
    <3>6. CASE a # 0
      <4>1. a - 1 \in 0..IndexRange-1 BY <3>3, <3>6
      <4>2. (a - 1) % IndexRange = a - 1 BY <3>3, <4>1
      <4>. QED BY <2>3, <3>2, <3>3, <3>4, <4>2
    <3>. QED BY <3>5, <3>6
  <2>. QED BY <1>1, <2>2, <2>3
<1>9. Found(s) /\ \A w \in Range(s) : Fetched(w, d, q, b) BY DEF FoundBefore
<1>10. FoundBefore(s, d, q, next) BY <1>6, <1>9 DEF FoundBefore
<1>11. Found(Append(s, e))
  <2>. DEFINE R == [idx : Nat, score : Int]
  <2>1. s \in Seq(R) /\ e \in R BY <1>1, <1>9 DEF Found, Results
  <2>. HIDE DEF R
  <2>2. /\ Append(s, e) \in Seq(R) /\ Len(s) \in Nat
        /\ DOMAIN s = 1..Len(s) /\ DOMAIN Append(s, e) = 1..Len(s)+1
        /\ Append(s, e)[Len(s)+1] = e
        /\ \A i \in 1..Len(s) : Append(s, e)[i] = s[i]
    BY <2>1
  <2>3. \A i \in 1..Len(s) : s[i] \in Range(s) BY <2>2 DEF Range
  <2>4. \A i, j \in 1..Len(s) : s[i] = s[j] => i = j BY <1>9, <2>2 DEF Found, Distinct
  <2>5. \A i \in 1..Len(s)+1 : i = Len(s) + 1 \/ i \in 1..Len(s) BY <2>2
  <2>6. Distinct(Append(s, e))
    BY <1>8, <2>2, <2>3, <2>4, <2>5 DEF Distinct
  <2>. QED BY <2>2, <2>6 DEF Found, Results, R
<1>12. FoundBefore(Append(s, e), d, q, next)
  BY <1>6, <1>7, <1>9, <1>11, AppendFound DEF FoundBefore
<1>. QED BY <1>1, <1>8, <1>10, <1>12 DEF e, next

(***************************************************************************)
(* The list of the tool.                                                   *)
(***************************************************************************)
\* From one to the next is from any to any later one.
LEMMA Descends ==
  ASSUME NEW n \in Nat, NEW t, \A i \in 1..n : t[i].score \in Int,
         \A i \in 1..n-1 : t[i].score >= t[i+1].score
  PROVE  \A i, j \in 1..n : i <= j => t[i].score >= t[j].score
<1>. DEFINE Past(k) == \A i \in 1..n : i + k <= n => t[i].score >= t[i+k].score
            K == {k \in Nat : Past(k)}
<1>1. 0 \in K
  <2>1. \A i \in 1..n : i + 0 = i OBVIOUS
  <2>. QED BY <2>1
<1>2. ASSUME NEW k \in Nat, k \in K PROVE k + 1 \in K
  <2>. SUFFICES Past(k + 1)
    <3>. HIDE DEF Past
    <3>. QED OBVIOUS
  <2>. SUFFICES ASSUME NEW i \in 1..n, i + (k + 1) <= n
                PROVE  t[i].score >= t[i+(k+1)].score
    OBVIOUS
  <2>1. t[i].score >= t[i+k].score BY <1>2
  <2>2. i + k \in 1..n-1 /\ i + k \in 1..n /\ (i + k) + 1 = i + (k + 1) /\ (i + k) + 1 \in 1..n
    OBVIOUS
  <2>3. t[i+k].score >= t[(i+k)+1].score BY <2>2
  <2>4. t[i].score \in Int /\ t[i+k].score \in Int /\ t[(i+k)+1].score \in Int BY <2>2
  <2>. QED BY <2>1, <2>2, <2>3, <2>4
<1>3. Nat \subseteq K
  <2>. HIDE DEF K
  <2>. QED BY <1>1, <1>2, SetInduction
<1>. SUFFICES ASSUME NEW i \in 1..n, NEW j \in 1..n, i <= j
              PROVE  t[i].score >= t[j].score
  OBVIOUS
<1>4. j - i \in Nat /\ i + (j - i) = j OBVIOUS
<1>5. j - i \in K BY <1>3, <1>4
<1>. QED BY <1>4, <1>5

\* A sorted list is a ranking of the same results.
LEMMA DescendingIs ==
  ASSUME NEW l, Found(l), NEW t \in Descending(l)
  PROVE  /\ Ranking(t, Len(l), Range(l)) /\ Found(t)
         /\ Len(t) = Len(l) /\ Range(t) = Range(l)
<1>. DEFINE n == Len(l)  R == [idx : Nat, score : Int]
<1>1. l \in Seq(R) BY DEF Found, Results
<1>. HIDE DEF R
<1>2. n \in Nat /\ DOMAIN l = 1..n /\ l \in [1..n -> R] BY <1>1
<1>3. \A i \in 1..n : l[i].score \in Int BY FoundFacts
<1>. HIDE DEF n
<1>4. PICK p \in Bijection(1..n, 1..n) :
        /\ t = [i \in 1..n |-> l[p[i]]]
        /\ \A i \in 1..n-1 : t[i].score >= t[i+1].score
  BY <1>2 DEF Descending, n
<1>. DEFINE D == 1..n
<1>5. /\ p \in [D -> D] /\ \A i, j \in D : p[i] = p[j] => i = j
      /\ \A j \in D : \E i \in D : p[i] = j
  <2>1. p \in Bijection(D, D) OBVIOUS
  <2>. HIDE DEF D
  <2>. QED BY <2>1 DEF Bijection, Injection, Surjection, IsInjective
<1>6. \A i, j \in D : l[i] = l[j] => i = j BY <1>2 DEF Found, Distinct
<1>7. t = [i \in D |-> l[p[i]]] /\ DOMAIN l = D /\ l \in [D -> R] BY <1>2, <1>4
<1>8. t \in Seq(R) /\ Len(t) = n
  <2>1. t \in [1..n -> R] BY <1>5, <1>7
  <2>. QED BY <1>2, <2>1
<1>9. \A i \in 1..n : t[i].score \in Int BY <1>3, <1>5, <1>7
<1>10. \A i, j \in 1..n : i <= j => t[i].score >= t[j].score
  BY <1>2, <1>4, <1>9, Descends
<1>. HIDE DEF D
<1>11. \A i \in D : t[i] = l[p[i]] /\ p[i] \in D BY <1>5, <1>7
<1>12. \A i, j \in D : t[i] = t[j] => i = j BY <1>5, <1>6, <1>11
<1>13. Range(t) = Range(l) BY <1>5, <1>7, <1>11 DEF Range
<1>14. /\ t \in [D -> Range(l)]
       /\ \A e \in Range(l) : \E i \in D : t[i] = e
  BY <1>5, <1>7, <1>11, <1>13 DEF Range
<1>15. Ranking(t, n, Range(l)) BY <1>10, <1>12, <1>14 DEF Ranking, D
<1>16. Found(t) BY <1>7, <1>8, <1>12 DEF Found, Results, Distinct, R
<1>. QED BY <1>8, <1>13, <1>15, <1>16 DEF n

\* What is printed.
LEMMA PrintedIsTop ==
  ASSUME NEW l, NEW s, Found(s), NEW k \in Nat \ {0}, ListInv(l, s, 2 * k),
         Ranking(l, Len(l), Range(l))
  PROVE  LET t == SubSeq(l, 1, Least(k, Len(l)))
         IN  /\ IsTop(t, s, k) /\ t \in Results
             /\ \A i \in DOMAIN t : t[i] \in Range(s)
             /\ s # <<>> => /\ t[1].score \in Int
                           /\ \A w \in Range(s) : w.score <= t[1].score
<1>. DEFINE n == Len(l)  p == Least(k, n)  t == SubSeq(l, 1, p)
            T == {l[i] : i \in 1..p}  R == [idx : Nat, score : Int]
<1>1. Found(l) /\ Best(Range(l), n, s, 2 * k) BY DEF ListInv
<1>2. l \in Seq(R) /\ n \in Nat BY <1>1 DEF Found, Results
<1>3. Best(T, p, s, k) /\ Ranking(t, p, T) BY <1>1, <1>2, PrefixIsBest
<1>4. p \in Nat /\ p <= n BY <1>2 DEF Least
<1>. HIDE DEF n, p, R
<1>5. t \in Seq(R)
  <2>1. t = [i \in 1..p |-> l[i]] BY <1>2, <1>4 DEF n
  <2>2. \A i \in 1..p : l[i] \in R BY <1>2, <1>4 DEF n
  <2>. HIDE DEF t
  <2>3. t \in [1..p -> R] BY <2>1, <2>2
  <2>. QED BY <1>4, <2>3
<1>. HIDE DEF t, T
<1>6. IsTop(t, s, k) BY <1>3, <1>4, RankingIsTop
<1>7. \A i \in DOMAIN t : t[i] \in Range(s) BY <1>3 DEF Ranking, Best
<1>8. t \in Results BY <1>5 DEF R, Results
<1>9. s # <<>> => t[1].score \in Int /\ \A w \in Range(s) : w.score <= t[1].score
  BY <1>3, <1>4, RankingFirst
<1>. QED BY <1>6, <1>7, <1>8, <1>9 DEF t, p, n

\* add_result keeps the best, in any order.
LEMMA AddResultKeeps ==
  ASSUME NEW s, Found(s), tool_k \in Nat \ {0}, ListInv(g_results, s, 2 * tool_k),
         NEW e \in [idx : Nat, score : Int], e \notin Range(s), AddResult(e)
  PROVE  ListInv(g_results', Append(s, e), 2 * tool_k)
<1>. DEFINE n == Len(g_results)  k == 2 * tool_k  S == Range(g_results)
            R == [idx : Nat, score : Int]
<1>1. Found(g_results) /\ Best(S, n, s, k) BY DEF ListInv
<1>2. g_results \in Seq(R) /\ n \in Nat /\ e \in R BY <1>1 DEF Found, Results
<1>3. k \in Nat /\ k # 0 OBVIOUS
<1>4. S \subseteq Range(s) /\ n <= k /\ e \notin S
  <2>1. Len(s) \in Nat BY FoundFacts
  <2>. QED BY <1>1, <1>3, <2>1 DEF Best, Least
<1>5. e.score \in Int OBVIOUS
<1>. HIDE DEF R
<1>6. CASE n < k
  <2>1. g_results' = Append(g_results, e)
    <3>1. ~(n = k) BY <1>2, <1>3, <1>6
    <3>. QED BY <3>1 DEF AddResult
  <2>2. Best(S \cup {e}, n + 1, Append(s, e), k) BY <1>1, <1>3, <1>6, BestAdds
  <2>3. Range(g_results') = S \cup {e} /\ Len(g_results') = n + 1
    BY <1>1, <2>1, AppendFound
  <2>4. Found(g_results')
    <3>1. /\ Append(g_results, e) \in Seq(R)
          /\ DOMAIN g_results = 1..n /\ DOMAIN Append(g_results, e) = 1..n+1
          /\ Append(g_results, e)[n+1] = e
          /\ \A i \in 1..n : Append(g_results, e)[i] = g_results[i]
      BY <1>2
    <3>2. \A i \in 1..n : g_results[i] # e BY <1>4, <3>1 DEF Range
    <3>3. \A i \in 1..n+1 : i = n + 1 \/ i \in 1..n BY <1>2
    <3>4. \A i, j \in 1..n : g_results[i] = g_results[j] => i = j
      BY <1>1, <3>1 DEF Found, Distinct
    <3>5. Distinct(Append(g_results, e)) BY <3>1, <3>2, <3>3, <3>4 DEF Distinct
    <3>. QED BY <2>1, <3>1, <3>5 DEF Found, Results, R
  <2>. QED BY <2>2, <2>3, <2>4 DEF ListInv
<1>7. CASE ~(n < k)
  <2>1. n = k /\ n \in Nat \ {0} BY <1>2, <1>3, <1>4, <1>7
  <2>2. PICK t \in Descending(g_results) :
          g_results' = IF e.score > t[Len(t)].score THEN [t EXCEPT ![Len(t)] = e] ELSE t
    BY <1>7, <2>1 DEF AddResult
  <2>3. Ranking(t, n, S) /\ Found(t) /\ Len(t) = n /\ Range(t) = S
    BY <1>1, DescendingIs
  <2>. HIDE DEF n, k
  <2>. DEFINE m == t[n]
  <2>4. n \in 1..n BY <2>1
  <2>5. m \in S /\ \A d \in S : m.score <= d.score
    <3>1. t[n] \in S BY <2>3, <2>4 DEF Ranking
    <3>2. HaveScores(S) BY <1>1, FoundFacts DEF S
    <3>3. ASSUME NEW d \in S PROVE m.score <= d.score
      <4>1. PICK i \in 1..n : t[i] = d BY <2>3 DEF Ranking
      <4>2. i <= n /\ t[i].score >= t[n].score BY <2>3, <2>4, <4>1 DEF Ranking
      <4>3. t[i].score \in Int /\ t[n].score \in Int BY <3>1, <3>2, <4>1 DEF HaveScores
      <4>. QED BY <4>1, <4>2, <4>3
    <3>. QED BY <3>1, <3>3
  <2>6. CASE e.score > m.score
    <3>. DEFINE u == [t EXCEPT ![n] = e]
    <3>1. g_results' = u BY <2>2, <2>3, <2>6
    <3>2. Best((S \ {m}) \cup {e}, n, Append(s, e), k)
      <4>. HIDE DEF m, S
      <4>. QED BY <1>1, <1>3, <1>5, <1>7, <2>5, <2>6, BestReplaces
    <3>3. t \in Seq(R) /\ DOMAIN t = 1..n /\ \A i, j \in 1..n : t[i] = t[j] => i = j
      <4>1. t \in Seq(R) BY <2>3 DEF Found, Results, R
      <4>. QED BY <2>3, <4>1 DEF Ranking
    <3>4. /\ u \in Seq(R) /\ Len(u) = n /\ DOMAIN u = 1..n /\ u[n] = e
          /\ \A i \in (1..n) \ {n} : u[i] = t[i]
      BY <1>2, <2>1, <2>3, <2>4, <3>3
    <3>. HIDE DEF u
    <3>5. \A i \in 1..n : t[i] \in S /\ t[i] # e BY <1>4, <2>3 DEF Ranking
    <3>6. Distinct(u) BY <3>3, <3>4, <3>5 DEF Distinct
    <3>7. Range(u) = (S \ {m}) \cup {e}
      <4>1. \A i \in (1..n) \ {n} : u[i] \in S \ {m} BY <2>4, <3>3, <3>4, <3>5
      <4>2. Range(u) \subseteq (S \ {m}) \cup {e} BY <3>4, <4>1 DEF Range
      <4>3. ASSUME NEW d \in S \ {m} PROVE d \in Range(u)
        <5>1. PICK i \in 1..n : t[i] = d BY <2>3 DEF Ranking
        <5>. QED BY <3>4, <5>1 DEF Range
      <4>4. e \in Range(u) BY <2>4, <3>4 DEF Range
      <4>. QED BY <4>2, <4>3, <4>4
    <3>8. Found(u) BY <3>4, <3>6 DEF Found, Results, R
    <3>. QED BY <3>1, <3>2, <3>4, <3>7, <3>8 DEF ListInv, k
  <2>7. CASE ~(e.score > m.score)
    <3>1. g_results' = t BY <2>2, <2>3, <2>7
    <3>2. Best(S, n, Append(s, e), k)
      <4>. HIDE DEF m, S
      <4>. QED BY <1>1, <1>3, <1>5, <1>7, <2>5, <2>7, BestRefuses
    <3>. QED BY <2>3, <3>1, <3>2 DEF ListInv, k
  <2>. QED BY <2>6, <2>7
<1>. QED BY <1>6, <1>7

(***************************************************************************)
(* The steps of the daemon.                                                *)
(***************************************************************************)
\* Before the first batch.
LEMMA NothingBatched ==
  ASSUME NEW d, Loaded(d), NEW q
  PROVE  Batched(<<>>, d, q, 0) /\ Covers(<<>>, d, q, 0)
<1>1. Covers(<<>>, d, q, 0) BY DEF Covers
<1>2. /\ MaxVectors \in Nat \ {0} /\ 0 <= Len(d.rows) /\ Len(<<>>) = 0
      /\ 0 * MaxVectors = 0 /\ (0 - 1) * MaxVectors < 0
  BY DbAssumption DEF Loaded
<1>. QED BY <1>1, <1>2 DEF Batched

\* What is assumed of files and queries, for the databases of both.
LEMMA DbFacts ==
  /\ \A d \in DaemonDbs : Loaded(d) /\ \A q \in Queries : Scored(d, {q})
  /\ \A d \in ToolDbs : Loaded(d) /\ \A q \in ToolQueries : Scored(d, {q})
<1>1. \A q : Scored(NoDb, {q}) BY DEF Scored, NoDb
<1>2. \A d : \A q \in Queries : Scored(d, Queries) => Scored(d, {q}) BY DEF Scored
<1>3. \A d : \A q \in ToolQueries : Scored(d, ToolQueries) => Scored(d, {q}) BY DEF Scored
<1>4. \A f \in Files : Scored(DaemonLoad(f), Queries) /\ Scored(ToolLoad(f), ToolQueries)
  BY SearchdAssumption, ToolAssumption
<1>. QED BY <1>1, <1>2, <1>3, <1>4, NoDbLoaded, FilesLoaded DEF DaemonDbs, ToolDbs

LEMMA ResultsHasNone == <<>> \in Results
BY DEF Results

Same(d) ==
  /\ pc'[d] = pc[d] /\ mem'[d] = mem[d] /\ query'[d] = query[d]
  /\ top_k'[d] = top_k[d] /\ first'[d] = first[d] /\ heap'[d] = heap[d]
  /\ reply'[d] = reply[d] /\ won'[d] = won[d]

\* A step of one child is no business of the parent and the others.
LEMMA OneChild ==
  ASSUME DaemonInv, NEW c \in Clients, main # "start", UNCHANGED parent,
         ChildTypes', ChildInv(c)', \A d \in Clients \ {c} : Same(d)
  PROVE  DaemonInv'
<1>1. ParentInv' BY DEF DaemonInv, ParentInv, parent
<1>2. ASSUME NEW d \in Clients \ {c} PROVE ChildInv(d)'
  <2>1. ChildInv(d) /\ Same(d) BY <1>2 DEF DaemonInv
  <2>. QED BY <2>1 DEF ChildInv, Searched, Same
<1>. QED BY <1>1, <1>2 DEF DaemonInv

LEMMA InitInv == Init => Inv
<1>. SUFFICES ASSUME Init PROVE Inv OBVIOUS
<1>1. ParentInv BY DEF Init, DaemonInit, ParentInv, DaemonDbs
<1>2. ChildTypes
  BY ResultsHasNone, SearchdAssumption
     DEF Init, DaemonInit, ChildTypes, DaemonDbs, NoReply, Codes
<1>3. ASSUME NEW c \in Clients PROVE ChildInv(c)
  <2>1. /\ heap[c] = Empty /\ won[c] = <<>> /\ pc[c] = "none" /\ top_k[c] = 1
    BY DEF Init, DaemonInit
  <2>2. HeapInv(Empty, <<>>, 1) BY EmptyHeapInv
  <2>. QED BY <2>1, <2>2, NothingFound DEF ChildInv, Searched
<1>4. ToolInv
  <2>1. tool_k \in Nat BY ToolAssumption DEF Init, ToolInit
  <2>2. ListInv(<<>>, <<>>, 2 * tool_k) BY <2>1, EmptyList
  <2>. QED BY <2>2, NothingFound, ResultsHasNone, ToolAssumption
           DEF Init, ToolInit, ToolInv, ToolDbs
<1>5. LoadTypes BY DEF Init, DaemonInit, LoadTypes
<1>. QED BY <1>1, <1>2, <1>3, <1>4, <1>5 DEF Inv, DaemonInv

LEMMA MainInv == ASSUME DaemonInv, Main PROVE DaemonInv'
<1>1. ParentInv' BY DEF DaemonInv, ParentInv, Main, DaemonDbs, child
<1>2. ChildTypes' BY DEF DaemonInv, ChildTypes, Main, child
<1>3. ASSUME NEW c \in Clients PROVE ChildInv(c)'
  <2>1. pc[c] = "none" /\ ChildInv(c) BY DEF DaemonInv, ParentInv, Main
  <2>2. UNCHANGED child BY DEF Main
  <2>. QED BY <2>1, <2>2 DEF ChildInv, Searched, child
<1>. QED BY <1>1, <1>2, <1>3 DEF DaemonInv

LEMMA StopInv == ASSUME DaemonInv, Stop PROVE DaemonInv'
<1>1. ParentInv' BY DEF DaemonInv, ParentInv, Stop, DaemonDbs
<1>2. ChildTypes' BY DEF DaemonInv, ChildTypes, Stop, child
<1>3. ASSUME NEW c \in Clients PROVE ChildInv(c)'
  BY DEF DaemonInv, Stop, ChildInv, Searched, child
<1>. QED BY <1>1, <1>2, <1>3 DEF DaemonInv

LEMMA ForkInv == ASSUME DaemonInv, NEW c \in Clients, Fork(c) PROVE DaemonInv'
<1>1. /\ main = "listen" /\ db \in DaemonDbs /\ ChildTypes
      /\ UNCHANGED <<parent, query, top_k, first, heap, reply, won>>
  BY DEF DaemonInv, ParentInv, Fork
<1>2. ChildTypes' BY <1>1 DEF Fork, ChildTypes
<1>3. pc'[c] = "read" /\ mem'[c] = db /\ won[c] = <<>>
  BY <1>1 DEF DaemonInv, ChildInv, ChildTypes, Fork
<1>4. ChildInv(c)'
  BY <1>1, <1>3, NothingFound DEF DaemonInv, ChildInv, Searched, parent
<1>5. \A d \in Clients \ {c} : Same(d) BY <1>1 DEF Fork, Same, ChildTypes
<1>6. main # "start" /\ UNCHANGED parent BY <1>1
<1>. QED BY <1>2, <1>4, <1>5, <1>6, OneChild

\* A child that has read its request, and answers at once.
AtOnce(c, code, d) ==
  /\ pc[c] = "read" /\ Respond(c, code, <<>>)
  /\ mem' = [mem EXCEPT ![c] = d]
  /\ UNCHANGED <<parent, query, top_k, first, heap, won>>

\* Every request that is answered without a search.
LEMMA Replies ==
  ASSUME DaemonInv, NEW c \in Clients, NEW code \in Codes, NEW d \in DaemonDbs,
         AtOnce(c, code, d)
  PROVE  DaemonInv'
<1>. USE DEF AtOnce
<1>1. ChildTypes /\ main # "start" BY DEF DaemonInv, ParentInv
<1>2. ChildTypes' BY <1>1, ResultsHasNone DEF Respond, ChildTypes
<1>3. pc'[c] = "replied" /\ mem'[c] = d /\ won[c] = <<>>
  BY <1>1 DEF DaemonInv, ChildInv, ChildTypes, Respond
<1>4. ChildInv(c)'
  BY <1>1, <1>3, NothingFound DEF DaemonInv, ChildInv, Searched
<1>5. \A b \in Clients \ {c} : Same(b) BY <1>1 DEF Respond, Same, ChildTypes
<1>. QED BY <1>1, <1>2, <1>4, <1>5, OneChild

LEMMA SimpleInv == ASSUME DaemonInv, NEW c \in Clients, Simple(c) PROVE DaemonInv'
<1>1. mem[c] \in DaemonDbs /\ [mem EXCEPT ![c] = mem[c]] = mem
  BY DEF DaemonInv, ChildTypes
<1>2. PICK code \in {200, 404} : AtOnce(c, code, mem[c])
  BY <1>1 DEF Simple, AtOnce
<1>3. code \in Codes BY DEF Codes
<1>. QED BY <1>1, <1>2, <1>3, Replies

LEMMA LoadInv == ASSUME DaemonInv, NEW c \in Clients, Load(c) PROVE DaemonInv'
<1>1. mem[c] \in DaemonDbs /\ [mem EXCEPT ![c] = mem[c]] = mem
  BY DEF DaemonInv, ChildTypes
<1>2. \/ \E f \in Files : AtOnce(c, 200, DaemonLoad(f))
      \/ \E code \in {400, 500} : AtOnce(c, code, mem[c])
  BY <1>1 DEF Load, AtOnce
<1>3. 200 \in Codes /\ {400, 500} \subseteq Codes BY DEF Codes
<1>4. \A f \in Files : DaemonLoad(f) \in DaemonDbs BY DEF DaemonDbs
<1>. QED BY <1>1, <1>2, <1>3, <1>4, Replies

LEMMA SearchInv == ASSUME DaemonInv, NEW c \in Clients, Search(c) PROVE DaemonInv'
<1>1. pc[c] = "read" /\ UNCHANGED <<parent, mem>> /\ ChildTypes /\ main # "start"
  BY DEF Search, DaemonInv, ParentInv
<1>2. ASSUME NEW code \in Codes, Respond(c, code, <<>>),
             UNCHANGED <<query, top_k, first, heap, won>>
      PROVE  DaemonInv'
  <2>1. mem[c] \in DaemonDbs /\ AtOnce(c, code, mem[c])
    BY <1>1, <1>2 DEF ChildTypes, AtOnce
  <2>. QED BY <2>1, Replies
<1>3. ASSUME NEW q \in Queries, NEW k \in TopKs, Len(q) = mem[c].dim,
             pc' = [pc EXCEPT ![c] = "search"],
             query' = [query EXCEPT ![c] = q],
             top_k' = [top_k EXCEPT ![c] = Clamped(k)],
             first' = [first EXCEPT ![c] = 0],
             heap' = [heap EXCEPT ![c] = Empty],
             won' = [won EXCEPT ![c] = <<>>], UNCHANGED reply
      PROVE  DaemonInv'
  <2>1. Clamped(k) \in 1..MaxTopK BY SearchdAssumption DEF Clamped
  <2>2. ChildTypes' BY <1>1, <1>3, <2>1, ResultsHasNone DEF ChildTypes
  <2>3. /\ pc'[c] = "search" /\ query'[c] = q /\ top_k'[c] = Clamped(k)
        /\ heap'[c] = Empty /\ won'[c] = <<>> /\ mem'[c] = mem[c]
    BY <1>1, <1>3 DEF ChildTypes
  <2>4. /\ HeapInv(Empty, <<>>, Clamped(k)) /\ first'[c] = 0
        /\ Batched(<<>>, mem[c], q, 0)
    <3>1. mem[c] \in DaemonDbs BY <1>1 DEF ChildTypes
    <3>. QED BY <1>1, <1>3, <2>1, <3>1, DbFacts, NothingBatched, EmptyHeapInv DEF ChildTypes
  <2>5. ChildInv(c)' BY <1>3, <2>3, <2>4, NothingFound DEF ChildInv, Searched
  <2>6. \A d \in Clients \ {c} : Same(d) BY <1>1, <1>3 DEF Same, ChildTypes
  <2>. QED BY <1>1, <2>2, <2>5, <2>6, OneChild
<1>. QED BY <1>2, <1>3 DEF Search, Codes

LEMMA SearchBatchInv ==
  ASSUME DaemonInv, NEW c \in Clients, SearchBatch(c) PROVE DaemonInv'
<1>. DEFINE d == mem[c]  q == query[c]  b == first[c]  e == Winner(d, q, b)
            next == b + Batch(d, b)
<1>1. /\ ChildTypes /\ ChildInv(c) /\ main # "start" /\ pc[c] = "search"
      /\ UNCHANGED <<parent, pc, mem, query, top_k, reply>> /\ b < Len(d.rows)
  BY DEF DaemonInv, ParentInv, SearchBatch, More
<1>2. d \in DaemonDbs /\ b \in Nat /\ q \in Queries /\ Len(q) = d.dim
      /\ top_k[c] \in Nat \ {0}
  BY <1>1, SearchdAssumption DEF ChildTypes, ChildInv
<1>3. Loaded(d) /\ Scored(d, {q}) BY <1>2, DbFacts
<1>4. FoundBefore(won[c], d, q, b) /\ HeapInv(heap[c], won[c], top_k[c])
  BY <1>1 DEF ChildInv
<1>5. /\ e \in [idx : Nat, score : Int] /\ e \notin Range(won[c])
      /\ FoundBefore(Append(won[c], e), d, q, next)
      /\ FoundBefore(won[c], d, q, next)
      /\ Batched(Append(won[c], e), d, q, next) /\ Batched(won[c], d, q, next)
  <2>1. Found(won[c]) /\ Batched(won[c], d, q, b)
    BY <1>1 DEF ChildInv, FoundBefore
  <2>. QED BY <1>1, <1>2, <1>3, <1>4, <2>1, BatchFinds, BatchedNext
<1>6. next \in Nat /\ first' = [first EXCEPT ![c] = next]
  BY <1>1, <1>2, <1>3, BatchIs DEF SearchBatch
<1>7. /\ DOMAIN heap = Clients /\ DOMAIN won = Clients /\ DOMAIN first = Clients
  BY <1>1 DEF ChildTypes
<1>. HIDE DEF d, q, b, e, next
<1>8. CASE /\ heap' = [heap EXCEPT ![c] = Push(heap[c], top_k[c], e)]
           /\ won' = [won EXCEPT ![c] = Append(won[c], e)]
  <2>1. HeapInv(Push(heap[c], top_k[c], e), Append(won[c], e), top_k[c])
    BY <1>2, <1>4, <1>5, PushKeeps DEF FoundBefore
  <2>2. Append(won[c], e) \in Results BY <1>5 DEF FoundBefore, Found
  <2>3. ChildTypes' BY <1>1, <1>6, <1>8, <2>2 DEF ChildTypes
  <2>4. /\ heap'[c] = Push(heap[c], top_k[c], e) /\ won'[c] = Append(won[c], e)
        /\ first'[c] = next
    BY <1>6, <1>7, <1>8
  <2>5. ChildInv(c)'
    BY <1>1, <1>2, <1>4, <1>5, <1>7, <2>1, <2>4 DEF ChildInv, Searched, d, q
  <2>6. \A x \in Clients \ {c} : Same(x) BY <1>1, <1>6, <1>7, <1>8 DEF Same
  <2>. QED BY <1>1, <2>3, <2>5, <2>6, OneChild
<1>9. CASE UNCHANGED <<heap, won>>
  <2>1. ChildTypes' BY <1>1, <1>6, <1>9 DEF ChildTypes
  <2>2. first'[c] = next BY <1>6, <1>7
  <2>3. ChildInv(c)'
    BY <1>1, <1>2, <1>4, <1>5, <1>7, <1>9, <2>2 DEF ChildInv, Searched, d, q
  <2>4. \A x \in Clients \ {c} : Same(x) BY <1>1, <1>6, <1>7, <1>9 DEF Same
  <2>. QED BY <1>1, <2>1, <2>3, <2>4, OneChild
<1>. QED BY <1>8, <1>9 DEF SearchBatch, e, d, q, b

LEMMA AnswerInv == ASSUME DaemonInv, NEW c \in Clients, Answer(c) PROVE DaemonInv'
<1>1. /\ ChildTypes /\ ChildInv(c) /\ main # "start" /\ pc[c] = "search"
      /\ UNCHANGED <<parent, mem, query, top_k, first, heap, won>>
      /\ Respond(c, 200, Sorted(heap[c]))
  BY DEF DaemonInv, ParentInv, Answer
<1>2. Sorted(heap[c]) \in Results
  <2>1. top_k[c] \in Nat BY <1>1 DEF ChildTypes
  <2>. QED BY <1>1, <2>1, AnswerIsTop DEF ChildInv, FoundBefore
<1>3. ChildTypes' BY <1>1, <1>2 DEF ChildTypes, Respond, Codes
<1>4. /\ pc'[c] = "replied" /\ reply'[c].results = Sorted(heap[c])
      /\ first[c] = Len(mem[c].rows)
  <2>1. first[c] <= Len(mem[c].rows) /\ ~(first[c] < Len(mem[c].rows))
    BY <1>1 DEF ChildInv, Batched, Answer, More
  <2>2. first[c] \in Nat /\ Len(mem[c].rows) \in Nat
    BY <1>1, DbFacts DEF ChildTypes, Loaded
  <2>. QED BY <1>1, <2>1, <2>2 DEF ChildTypes, Respond
<1>5. ChildInv(c)' BY <1>1, <1>4 DEF ChildInv, Searched, parent
<1>6. \A d \in Clients \ {c} : Same(d) BY <1>1 DEF Respond, Same, ChildTypes
<1>. QED BY <1>1, <1>3, <1>5, <1>6, OneChild

LEMMA ExitInv == ASSUME DaemonInv, NEW c \in Clients, Exit(c) PROVE DaemonInv'
<1>1. ChildTypes /\ main # "start" /\ UNCHANGED parent
  BY DEF DaemonInv, ParentInv, Exit
<1>2. ChildTypes'
  BY <1>1, ResultsHasNone, SearchdAssumption
     DEF Exit, ChildTypes, DaemonDbs, NoReply, Codes
<1>3. /\ pc'[c] = "none" /\ heap'[c] = Empty /\ won'[c] = <<>> /\ top_k'[c] = 1
  BY <1>1 DEF Exit, ChildTypes
<1>4. HeapInv(Empty, <<>>, 1) BY EmptyHeapInv
<1>5. ChildInv(c)' BY <1>3, <1>4, NothingFound DEF ChildInv, Searched
<1>6. \A d \in Clients \ {c} : Same(d) BY <1>1 DEF Exit, Same, ChildTypes
<1>. QED BY <1>1, <1>2, <1>5, <1>6, OneChild

LEMMA DaemonNextInv == ASSUME DaemonInv, DaemonNext PROVE DaemonInv'
BY MainInv, StopInv, ForkInv, SimpleInv, LoadInv, SearchInv, SearchBatchInv,
   AnswerInv, ExitInv DEF DaemonNext, Serve

LEMMA LoadTypesInv == ASSUME LoadTypes, DaemonNext PROVE LoadTypes'
<1>. USE DEF LoadTypes, loads
<1>1. CASE Main \/ Stop BY <1>1 DEF Main, Stop
<1>2. ASSUME NEW c \in Clients, Serve(c) PROVE LoadTypes'
  <2>1. CASE Fork(c) BY <2>1 DEF Fork
  <2>2. CASE Load(c) BY <2>2 DEF Load
  <2>3. CASE Exit(c) BY <2>3 DEF Exit
  <2>4. CASE Simple(c) \/ Search(c) \/ SearchBatch(c) \/ Answer(c)
    BY <2>4 DEF Simple, Search, SearchBatch, Answer
  <2>. QED BY <1>2, <2>1, <2>2, <2>3, <2>4 DEF Serve
<1>. QED BY <1>1, <1>2 DEF DaemonNext

(***************************************************************************)
(* The steps of the tool.                                                  *)
(***************************************************************************)
LEMMA StartInv == ASSUME ToolInv, Start PROVE ToolInv'
<1>1. /\ tool_file' \in Files /\ tool_db' = ToolLoad(tool_file')
      /\ tool_query' \in ToolQueries
      /\ g_results' = <<>> /\ printed' = <<>> /\ found' = <<>> /\ tool_first' = 0
  BY DEF Start
<1>2. tool_k' \in Nat \ {0} BY ToolAssumption DEF Start
<1>3. tool' \in {"search", "failed"}
      /\ (tool' = "search" => tool_db' # NoDb /\ Len(tool_query') = tool_db'.dim)
  BY DEF Start
<1>4. ListInv(<<>>, <<>>, 2 * tool_k')
  <2>1. \A k \in Nat : ListInv(<<>>, <<>>, 2 * k) BY EmptyList
  <2>2. tool_k' \in Nat BY <1>2
  <2>. QED BY <2>1, <2>2
<1>5. tool_db' \in ToolDbs BY <1>1 DEF ToolDbs
<1>6. 0 <= Len(tool_db'.rows) /\ Covers(<<>>, tool_db', tool_query', 0)
  <2>1. \A d \in ToolDbs : 0 <= Len(d.rows) /\ \A q : Covers(<<>>, d, q, 0)
    BY DbFacts, NothingBatched DEF Loaded
  <2>. QED BY <1>5, <2>1
<1>. QED BY <1>1, <1>2, <1>3, <1>4, <1>5, <1>6, NothingFound, ResultsHasNone DEF ToolInv

LEMMA ToolBatchInv == ASSUME ToolInv, ToolBatch PROVE ToolInv'
<1>. DEFINE d == tool_db  q == tool_query  b == tool_first  e == Winner(d, q, b)
            next == b + Batch(d, b)
<1>1. /\ tool = "search" /\ b < Len(d.rows) /\ AddResult(e) /\ found' = Append(found, e)
      /\ tool_first' = next
      /\ UNCHANGED <<tool, tool_file, tool_db, tool_query, tool_k, printed>>
  BY DEF ToolBatch, ToolMore
<1>2. /\ d \in ToolDbs /\ q \in ToolQueries /\ Len(q) = d.dim /\ b \in Nat
      /\ FoundBefore(found, d, q, b) /\ tool_k \in Nat \ {0}
      /\ ListInv(g_results, found, 2 * tool_k)
  BY <1>1 DEF ToolInv
<1>3. Loaded(d) /\ Scored(d, {q}) BY <1>2, DbFacts
<1>4. /\ e \in [idx : Nat, score : Int] /\ e \notin Range(found)
      /\ FoundBefore(Append(found, e), d, q, next)
      /\ Covers(Append(found, e), d, q, next)
  <2>1. Found(found) /\ Covers(found, d, q, b) BY <1>1 DEF ToolInv, FoundBefore
  <2>. QED BY <1>1, <1>2, <1>3, <2>1, BatchFinds, BatchCovers
<1>5. next \in Nat /\ next <= Len(d.rows) BY <1>1, <1>2, <1>3, BatchIs
<1>6. ListInv(g_results', Append(found, e), 2 * tool_k)
  <2>. HIDE DEF d, q, b, e, next
  <2>. QED BY <1>1, <1>2, <1>4, AddResultKeeps DEF FoundBefore
<1>. HIDE DEF e, next
<1>. QED BY <1>1, <1>2, <1>4, <1>5, <1>6 DEF ToolInv

LEMMA ToolFailsInv == ASSUME ToolInv, ToolFails PROVE ToolInv'
BY DEF ToolInv, ToolFails

LEMMA PrintResultsInv == ASSUME ToolInv, PrintResults PROVE ToolInv'
<1>1. /\ tool = "search" /\ tool' = "printed" /\ g_results' \in Descending(g_results)
      /\ printed' = SubSeq(g_results', 1, Least(tool_k, Len(g_results')))
      /\ UNCHANGED <<tool_file, tool_db, tool_query, tool_k, tool_first, found>>
  BY DEF PrintResults
<1>2. /\ ListInv(g_results, found, 2 * tool_k) /\ tool_k \in Nat \ {0}
      /\ FoundBefore(found, tool_db, tool_query, tool_first)
  BY DEF ToolInv
<1>3. /\ Ranking(g_results', Len(g_results'), Range(g_results'))
      /\ Found(g_results') /\ Len(g_results') = Len(g_results)
      /\ Range(g_results') = Range(g_results)
  <2>1. Found(g_results) BY <1>2 DEF ListInv
  <2>2. \A t \in Descending(g_results) :
          /\ Ranking(t, Len(g_results), Range(g_results))
          /\ Found(t) /\ Len(t) = Len(g_results) /\ Range(t) = Range(g_results)
    BY <2>1, DescendingIs
  <2>. QED BY <1>1, <2>2
<1>4. ListInv(g_results', found, 2 * tool_k) BY <1>2, <1>3 DEF ListInv
<1>5. printed' \in Results
  BY <1>1, <1>2, <1>3, <1>4, PrintedIsTop DEF FoundBefore
<1>6. tool_first = Len(tool_db.rows)
  <2>1. tool_first <= Len(tool_db.rows) /\ ~(tool_first < Len(tool_db.rows))
    BY <1>1 DEF ToolInv, PrintResults, ToolMore
  <2>2. tool_first \in Nat /\ Len(tool_db.rows) \in Nat BY DbFacts DEF ToolInv, Loaded
  <2>. QED BY <2>1, <2>2
<1>. QED BY <1>1, <1>2, <1>3, <1>4, <1>5, <1>6 DEF ToolInv

LEMMA ToolNextInv == ASSUME ToolInv, ToolNext PROVE ToolInv'
BY StartInv, ToolBatchInv, ToolFailsInv, PrintResultsInv DEF ToolNext

\* Neither program has variables of the other.
LEMMA DaemonSame == ASSUME DaemonInv, UNCHANGED daemon PROVE DaemonInv'
<1>1. UNCHANGED <<parent, child>> BY DEF daemon
<1>2. ParentInv' BY <1>1 DEF DaemonInv, ParentInv, parent, child
<1>3. ChildTypes' BY <1>1 DEF DaemonInv, ChildTypes, child
<1>4. ASSUME NEW c \in Clients PROVE ChildInv(c)'
  BY <1>1 DEF DaemonInv, ChildInv, Searched, parent, child
<1>. QED BY <1>2, <1>3, <1>4 DEF DaemonInv

LEMMA ToolSame == ASSUME ToolInv, UNCHANGED toolVars PROVE ToolInv'
BY DEF ToolInv, toolVars

\* Every step of the parent, of a child and of the tool keeps the invariant.
THEOREM SearchClientsInvariant == Spec => []Inv
<1>1. Inv /\ [Next]_vars => Inv'
  <2>1. UNCHANGED daemon => (LoadTypes => LoadTypes') BY DEF daemon, loads, LoadTypes
  <2>. QED BY <2>1, DaemonNextInv, LoadTypesInv, ToolNextInv, DaemonSame, ToolSame
           DEF Inv, Next, vars
<1>. QED BY <1>1, InitInv, PTL DEF Spec

(***************************************************************************)
(* What follows from it.                                                   *)
(***************************************************************************)
\* Results that batches have found name vectors.
LEMMA FetchedNames ==
  ASSUME NEW t, NEW s, NEW d, NEW q, NEW next, FoundBefore(s, d, q, next),
         \A i \in DOMAIN t : t[i] \in Range(s)
  PROVE  NamesVectors(t, d, q)
BY DEF FoundBefore, Fetched, Names, NamesVectors

\* The databases, requests, results and answers of both programs have their
\* types; a heap has at most top_k elements, the tool's list twice as many.
THEOREM TypeCorrect == Spec => []TypeOK
<1>1. Inv => TypeOK
  <2>. SUFFICES ASSUME Inv PROVE TypeOK OBVIOUS
  <2>1. \A d \in DaemonDbs \cup ToolDbs : IsDb(d) BY DbFacts DEF Loaded
  <2>2. ASSUME NEW c \in Clients
        PROVE  /\ IsDb(mem[c]) /\ query[c] \in Queries \cup {<<>>}
               /\ won[c] \in Results
               /\ DOMAIN heap[c] = 0..Cardinality(DOMAIN heap[c])-1
               /\ Cardinality(DOMAIN heap[c]) <= top_k[c]
               /\ reply[c].code \in Codes /\ reply[c].results \in Results
    <3>. DEFINE n == Cardinality(DOMAIN heap[c])
    <3>1. HeapInv(heap[c], won[c], top_k[c]) /\ ChildTypes /\ Found(won[c])
      BY DEF Inv, DaemonInv, ChildInv, FoundBefore
    <3>2. n \in Nat /\ heap[c] \in Heaps(n, Range(heap[c])) /\ n = Least(top_k[c], Len(won[c]))
      BY <3>1 DEF HeapInv, Best
    <3>3. DOMAIN heap[c] = 0..n-1 BY <3>2, HeapSize
    <3>4. top_k[c] \in Int /\ Len(won[c]) \in Nat BY <3>1, FoundFacts DEF ChildTypes
    <3>5. n <= top_k[c] BY <3>2, <3>4 DEF Least
    <3>6. reply[c] \in [code : Codes, results : Results] BY <3>1 DEF ChildTypes
    <3>. QED BY <2>1, <3>1, <3>3, <3>5, <3>6 DEF ChildTypes
  <2>3. Len(g_results) <= 2 * tool_k
    <3>1. /\ Len(g_results) = Least(2 * tool_k, Len(found)) /\ tool_k \in Nat
          /\ Found(found)
      BY DEF Inv, ToolInv, ListInv, Best, FoundBefore
    <3>2. Len(found) \in Nat BY <3>1, FoundFacts
    <3>. QED BY <3>1, <3>2 DEF Least
  <2>4. {g_results, printed, found} \subseteq Results
    BY DEF Inv, ToolInv, ListInv, FoundBefore, Found
  <2>. QED BY <2>1, <2>2, <2>3, <2>4
           DEF Inv, DaemonInv, ParentInv, ChildTypes, ToolInv, LoadTypes, TypeOK
<1>. QED BY <1>1, SearchClientsInvariant, PTL

\* The daemon answers a search with the top_k best of what the batches have
\* found, for every database, request, order of scores and top_k: pushing
\* into the min-heap and sorting it lose and repeat none.
THEOREM DaemonCorrect == Spec => []DaemonAnswersTop
<1>1. Inv => DaemonAnswersTop
  <2>. SUFFICES ASSUME Inv, NEW c \in Clients, Searched(c)
                PROVE  IsTop(reply[c].results, won[c], top_k[c])
    BY DEF DaemonAnswersTop
  <2>1. /\ HeapInv(heap[c], won[c], top_k[c]) /\ Found(won[c])
        /\ reply[c].results = Sorted(heap[c])
    BY DEF Inv, DaemonInv, ChildInv, FoundBefore
  <2>2. top_k[c] \in Nat BY DEF Inv, DaemonInv, ChildTypes
  <2>. QED BY <2>1, <2>2, AnswerIsTop
<1>. QED BY <1>1, SearchClientsInvariant, PTL

\* The tool prints the tool_k best of what the batches have found, from a
\* list cut to twice as many that is sorted whenever it is full.
THEOREM ToolCorrect == Spec => []ToolPrintsTop
<1>1. Inv => ToolPrintsTop
  <2>. SUFFICES ASSUME Inv, tool = "printed" PROVE IsTop(printed, found, tool_k)
    BY DEF ToolPrintsTop
  <2>1. /\ ListInv(g_results, found, 2 * tool_k) /\ Found(found) /\ tool_k \in Nat \ {0}
        /\ Ranking(g_results, Len(g_results), Range(g_results))
        /\ printed = SubSeq(g_results, 1, Least(tool_k, Len(g_results)))
    BY DEF Inv, ToolInv, FoundBefore
  <2>. QED BY <2>1, PrintedIsTop
<1>. QED BY <1>1, SearchClientsInvariant, PTL

\* Every result of either program names the vector that has its score, in
\* the database and not in the batch.
THEOREM NamesCorrect == Spec => []ResultsNameVectors
<1>1. Inv => ResultsNameVectors
  <2>. SUFFICES ASSUME Inv PROVE ResultsNameVectors OBVIOUS
  <2>1. ASSUME NEW c \in Clients, Searched(c)
        PROVE  NamesVectors(reply[c].results, mem[c], query[c])
    <3>1. /\ HeapInv(heap[c], won[c], top_k[c]) /\ Found(won[c])
          /\ FoundBefore(won[c], mem[c], query[c], first[c])
          /\ reply[c].results = Sorted(heap[c])
      BY <2>1 DEF Inv, DaemonInv, ChildInv, FoundBefore
    <3>2. top_k[c] \in Nat BY DEF Inv, DaemonInv, ChildTypes
    <3>3. \A i \in DOMAIN Sorted(heap[c]) : Sorted(heap[c])[i] \in Range(won[c])
      BY <3>1, <3>2, AnswerIsTop
    <3>. QED BY <3>1, <3>3, FetchedNames
  <2>2. ASSUME tool = "printed" PROVE NamesVectors(printed, tool_db, tool_query)
    <3>1. /\ ListInv(g_results, found, 2 * tool_k) /\ Found(found) /\ tool_k \in Nat \ {0}
          /\ FoundBefore(found, tool_db, tool_query, tool_first)
          /\ Ranking(g_results, Len(g_results), Range(g_results))
          /\ printed = SubSeq(g_results, 1, Least(tool_k, Len(g_results)))
      BY <2>2 DEF Inv, ToolInv, FoundBefore
    <3>2. \A i \in DOMAIN printed : printed[i] \in Range(found)
      BY <3>1, PrintedIsTop
    <3>. QED BY <3>1, <3>2, FetchedNames
  <2>. QED BY <2>1, <2>2 DEF ResultsNameVectors
<1>. QED BY <1>1, SearchClientsInvariant, PTL

\* For every file without a line of CR LF alone that the tool accepts, the
\* daemon's two passes load the same vectors as the tool's.
THEOREM LoadersCorrect == Spec => []LoadersAgree
<1>1. Inv => LoadersAgree
  BY LoadsAgree DEF Inv, ToolInv, LoadersAgree
<1>. QED BY <1>1, SearchClientsInvariant, PTL

\* A vector that is not above all results is not above the first.
LEMMA FirstIsAbove ==
  ASSUME NEW d, Loaded(d), NEW q, Scored(d, {q}), Len(q) = d.dim,
         NEW s, Found(s), Covers(s, d, q, Len(d.rows)),
         NEW t, t[1].score \in Int, \A w \in Range(s) : w.score <= t[1].score
  PROVE  NoneAbove(t, d, q)
<1>. SUFFICES ASSUME NEW i \in DOMAIN d.rows PROVE ~Above(Dot(d.rows[i], q), t[1].score)
  BY DEF NoneAbove
<1>1. PICK w \in Range(s) : ~Above(Dot(d.rows[i], q), w.score)
  BY DEF Covers, Loaded
<1>2. w.score \in Int /\ w.score <= t[1].score BY FoundFacts DEF HaveScores
<1>3. Dot(d.rows[i], q) \in Score BY DEF Scored
<1>. QED BY <1>1, <1>2, <1>3, ScoreAssumption DEF Above, Score

\* If no batch fails, the first result of the daemon, and of the tool, is a
\* best match of the whole database: each batch loses its other vectors, and
\* heap and list all but the best results, but never the best of all.
THEOREM BestCorrect == Spec => []BestComesFirst
<1>1. Inv => BestComesFirst
  <2>. SUFFICES ASSUME Inv PROVE BestComesFirst OBVIOUS
  <2>1. ASSUME NEW c \in Clients, Searched(c),
               Len(won[c]) * MaxVectors >= Len(mem[c].rows)
        PROVE  NoneAbove(reply[c].results, mem[c], query[c])
    <3>1. /\ HeapInv(heap[c], won[c], top_k[c]) /\ Found(won[c])
          /\ Batched(won[c], mem[c], query[c], Len(mem[c].rows))
          /\ query[c] \in Queries /\ Len(query[c]) = mem[c].dim
          /\ reply[c].results = Sorted(heap[c]) /\ won[c] # <<>>
      BY <2>1 DEF Inv, DaemonInv, ChildInv, FoundBefore, Searched
    <3>2. top_k[c] \in Nat \ {0} /\ mem[c] \in DaemonDbs
      BY SearchdAssumption DEF Inv, DaemonInv, ChildTypes
    <3>3. Loaded(mem[c]) /\ Scored(mem[c], {query[c]}) BY <3>1, <3>2, DbFacts
    <3>4. Covers(won[c], mem[c], query[c], Len(mem[c].rows))
      BY <2>1, <3>1, <3>3, BatchedCovers
    <3>5. /\ \A w \in Range(won[c]) : w.score <= Sorted(heap[c])[1].score
          /\ Sorted(heap[c])[1].score \in Int
      BY <3>1, <3>2, AnswerIsTop
    <3>. QED BY <3>1, <3>3, <3>4, <3>5, FirstIsAbove
  <2>2. ASSUME tool = "printed" PROVE NoneAbove(printed, tool_db, tool_query)
    <3>1. /\ ListInv(g_results, found, 2 * tool_k) /\ Found(found) /\ tool_k \in Nat \ {0}
          /\ Covers(found, tool_db, tool_query, Len(tool_db.rows))
          /\ tool_query \in ToolQueries /\ Len(tool_query) = tool_db.dim
          /\ Ranking(g_results, Len(g_results), Range(g_results))
          /\ printed = SubSeq(g_results, 1, Least(tool_k, Len(g_results)))
      BY <2>2 DEF Inv, ToolInv, FoundBefore
    <3>2. Loaded(tool_db) /\ Scored(tool_db, {tool_query})
      BY <3>1, DbFacts DEF Inv, ToolInv
    <3>3. CASE found = <<>>
      <4>1. DOMAIN tool_db.rows = {}
        BY <3>1, <3>2, <3>3, NothingFound DEF Covers, Loaded
      <4>. QED BY <4>1 DEF NoneAbove
    <3>4. CASE found # <<>>
      <4>1. /\ \A w \in Range(found) : w.score <= printed[1].score
            /\ printed[1].score \in Int
        BY <3>1, <3>4, PrintedIsTop
      <4>. QED BY <3>1, <3>2, <4>1, FirstIsAbove
    <3>. QED BY <3>3, <3>4
  <2>. QED BY <2>1, <2>2 DEF BestComesFirst
<1>. QED BY <1>1, SearchClientsInvariant, PTL
=============================================================================
