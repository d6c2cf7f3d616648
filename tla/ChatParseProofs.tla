-------------------------- MODULE ChatParseProofs --------------------------
(***************************************************************************)
(* Proofs about the parsers of the chat (module ChatParse), for texts of   *)
(* any length: what they find by searching the whole text again is what a  *)
(* reader files who takes the tokens one by one.                           *)
(*                                                                         *)
(* Both parsers, and the reader, are functions defined by recursion.  That *)
(* such a function exists and has the values of its equation is proved     *)
(* first (RecursionExists); what it computes is then a matter of least     *)
(* counterexamples: the shortest text on which parser and reader differ,   *)
(* the last position from which the matches of a channel are wrong.        *)
(***************************************************************************)
EXTENDS ChatParse, WellFoundedInduction, FiniteSetTheorems, SequenceTheorems, TLAPS

----------------------------------------------------------------------------
(***************************************************************************)
(* Functions defined by recursion.  A function f on D that is given on B,  *)
(* and elsewhere by its value at one other place,                          *)
(*                                                                         *)
(*   f[x] = IF x \in B THEN base[x] ELSE G[x][f[next[x]]],                 *)
(*                                                                         *)
(* exists if a natural number, the rank, falls from x to next[x], and its  *)
(* values are where base and G lead.  The step G is a function, and not an *)
(* operator, so that the lemmas can be used.                               *)
(***************************************************************************)
\* A set of natural numbers that is not empty has a least element.
LEMMA LeastOf ==
  ASSUME NEW T, T \subseteq Nat, T # {}
  PROVE  \E k \in T : \A l \in T : k <= l
<1> DEFINE R == OpToRel(<, Nat)
<1>1. IsWellFoundedOn(R, Nat)
  BY NatLessThanWellFounded
<1>2. \A k, l \in Nat : k < l => <<k, l>> \in R
  BY DEF OpToRel
<1> HIDE DEF R
<1>3. PICK k \in T : \A l \in T : ~(<<l, k>> \in R)
  BY <1>1, WFMin
<1>4. ASSUME NEW l \in T PROVE k <= l
  <2>1. ~(l < k)
    BY <1>2, <1>3
  <2> QED BY <2>1
<1> QED BY <1>4

\* The values of f, of rank r, on the places D, the base B and the steps G to next.
Solves(f, D, B, base, next, G) ==
  f = [x \in D |-> IF x \in B THEN base[x] ELSE G[x][f[next[x]]]]

Descends(D, rank, B, next) ==
  /\ \A x \in D : rank[x] \in Nat
  /\ \A x \in D : x \notin B => next[x] \in D /\ rank[next[x]] < rank[x]

Closed(D, W, B, base, G) ==
  \A x \in D : /\ x \in B => base[x] \in W
               /\ x \notin B => \A w \in W : G[x][w] \in W

\* What the recursion makes of a rank below n, if that exists.
Upto(D, rank, n) == {x \in D : rank[x] < n}

LEMMA SolvedUpto ==
  ASSUME NEW D, NEW rank, NEW W, NEW B, NEW base, NEW next, NEW G,
         Descends(D, rank, B, next), NEW n \in Nat
  PROVE  \E f : Solves(f, Upto(D, rank, n), B, base, next, G)
<1> DEFINE Solved(k) == \E f : Solves(f, Upto(D, rank, k), B, base, next, G)
           T == {k \in Nat : ~Solved(k)}
<1>1. Solved(0)
  <2> DEFINE f == [x \in {} |-> 0]
  <2>1. Upto(D, rank, 0) = {}
    BY DEF Upto, Descends
  <2>2. f = [x \in {} |-> IF x \in B THEN base[x] ELSE G[x][f[next[x]]]]
    OBVIOUS
  <2>3. Solves(f, {}, B, base, next, G)
    BY <2>2 DEF Solves
  <2> QED BY <2>1, <2>3
<1>2. ASSUME NEW k \in Nat, Solved(k) PROVE Solved(k + 1)
  <2>1. PICK f : Solves(f, Upto(D, rank, k), B, base, next, G)
    BY <1>2
  <2> DEFINE U == Upto(D, rank, k + 1)
             V == Upto(D, rank, k)
             g == [x \in U |-> IF x \in B THEN base[x] ELSE G[x][f[next[x]]]]
  <2>2. ASSUME NEW x \in V PROVE f[x] = g[x]
    <3>1. x \in U
      BY DEF Upto, Descends
    <3>2. f[x] = IF x \in B THEN base[x] ELSE G[x][f[next[x]]]
      BY <2>1 DEF Solves
    <3> QED BY <3>1, <3>2
  <2>3. ASSUME NEW x \in U, x \notin B PROVE next[x] \in V
    BY <2>3 DEF Upto, Descends
  <2> HIDE DEF V
  <2>4. g = [x \in U |-> IF x \in B THEN base[x] ELSE G[x][g[next[x]]]]
    <3>1. ASSUME NEW x \in U PROVE g[x] = IF x \in B THEN base[x] ELSE G[x][g[next[x]]]
      <4>1. CASE x \in B
        BY <4>1
      <4>2. CASE x \notin B
        <5>1. f[next[x]] = g[next[x]]
          BY <4>2, <2>2, <2>3
        <5>2. g[x] = G[x][f[next[x]]]
          BY <4>2
        <5> HIDE DEF g
        <5> QED BY <4>2, <5>1, <5>2
      <4> QED BY <4>1, <4>2
    <3>2. g = [x \in U |-> g[x]]
      OBVIOUS
    <3> HIDE DEF g
    <3> QED BY <3>1, <3>2
  <2> HIDE DEF g, U
  <2>5. Solves(g, U, B, base, next, G)
    BY <2>4 DEF Solves
  <2> QED BY <2>5 DEF U
<1> HIDE DEF Solved
<1>3. ASSUME T # {} PROVE FALSE
  <2>1. T \subseteq Nat
    OBVIOUS
  <2>2. PICK k \in T : \A l \in T : k <= l
    BY <2>1, <1>3, LeastOf
  <2>3. k # 0 /\ k \in Nat
    BY <1>1
  <2>4. k - 1 \in Nat /\ k - 1 \notin T
    BY <2>2, <2>3
  <2>5. Solved((k - 1) + 1)
    BY <2>4, <1>2
  <2>6. (k - 1) + 1 = k
    BY <2>3
  <2> QED BY <2>5, <2>6
<1>4. Solved(n)
  BY <1>3
<1> QED BY <1>4 DEF Solved

\* Any two solutions agree where both are defined.
LEMMA SolutionsAgree ==
  ASSUME NEW D, NEW rank, NEW B, NEW base, NEW next, NEW G, Descends(D, rank, B, next),
         NEW m \in Nat, NEW n \in Nat, m <= n, NEW f, NEW g,
         Solves(f, Upto(D, rank, m), B, base, next, G),
         Solves(g, Upto(D, rank, n), B, base, next, G)
  PROVE  \A x \in Upto(D, rank, m) : f[x] = g[x]
<1> DEFINE U == Upto(D, rank, m)
           T == {rank[x] : x \in {y \in U : f[y] # g[y]}}
<1>1. ASSUME T # {} PROVE FALSE
  <2>1. T \subseteq Nat
    BY DEF Upto, Descends
  <2>2. PICK k \in T : \A l \in T : k <= l
    BY <2>1, <1>1, LeastOf
  <2>3. PICK x \in U : f[x] # g[x] /\ k = rank[x]
    BY <2>2
  <2>4. x \in D /\ x \in Upto(D, rank, n) /\ rank[x] \in Nat
    BY DEF Upto, Descends
  <2>5. f[x] = IF x \in B THEN base[x] ELSE G[x][f[next[x]]]
    BY DEF Solves
  <2>6. g[x] = IF x \in B THEN base[x] ELSE G[x][g[next[x]]]
    BY <2>4 DEF Solves
  <2>7. x \notin B
    BY <2>3, <2>5, <2>6
  <2>8. next[x] \in U /\ rank[next[x]] < rank[x] /\ rank[next[x]] \in Nat
    BY <2>4, <2>7 DEF Upto, Descends
  <2>9. rank[next[x]] \notin T
    BY <2>2, <2>3, <2>4, <2>8
  <2>10. f[next[x]] = g[next[x]]
    BY <2>8, <2>9
  <2> QED BY <2>3, <2>5, <2>6, <2>7, <2>10
<1> QED BY <1>1

\* The recursion has a solution ...
LEMMA RecursionExists ==
  ASSUME NEW D, NEW rank, NEW B, NEW base, NEW next, NEW G, Descends(D, rank, B, next)
  PROVE  \E f : Solves(f, D, B, base, next, G)
<1> DEFINE Part(n) == CHOOSE f : Solves(f, Upto(D, rank, n), B, base, next, G)
           Value(x, f) == IF x \in B THEN base[x] ELSE G[x][f[next[x]]]
           h == [x \in D |-> Part(rank[x] + 1)[x]]
<1>1. ASSUME NEW n \in Nat PROVE Solves(Part(n), Upto(D, rank, n), B, base, next, G)
  BY SolvedUpto
<1> HIDE DEF Part
<1>2. ASSUME NEW x \in D, x \notin B PROVE Part(rank[x] + 1)[next[x]] = h[next[x]]
  <2>1. /\ next[x] \in D /\ rank[next[x]] \in Nat /\ rank[x] \in Nat
        /\ rank[next[x]] + 1 \in Nat /\ rank[x] + 1 \in Nat
        /\ rank[next[x]] + 1 <= rank[x] + 1
    BY <1>2 DEF Descends
  <2>2. next[x] \in Upto(D, rank, rank[next[x]] + 1)
    BY <2>1 DEF Upto
  <2>3. \A y \in Upto(D, rank, rank[next[x]] + 1) :
          Part(rank[next[x]] + 1)[y] = Part(rank[x] + 1)[y]
    BY <1>1, <2>1, SolutionsAgree
  <2> QED BY <2>1, <2>2, <2>3
<1>3. ASSUME NEW x \in D PROVE h[x] = IF x \in B THEN base[x] ELSE G[x][h[next[x]]]
  <2>1. rank[x] \in Nat /\ rank[x] + 1 \in Nat /\ x \in Upto(D, rank, rank[x] + 1)
    BY DEF Upto, Descends
  <2> DEFINE p == Part(rank[x] + 1)
  <2>2. p[x] = IF x \in B THEN base[x] ELSE G[x][p[next[x]]]
    BY <2>1, <1>1 DEF Solves
  <2>3. h[x] = p[x]
    OBVIOUS
  <2>4. x \notin B => p[next[x]] = h[next[x]]
    BY <1>2
  <2> HIDE DEF p, h
  <2> QED BY <2>2, <2>3, <2>4
<1>4. h = [x \in D |-> h[x]]
  OBVIOUS
<1> HIDE DEF h
<1>5. Solves(h, D, B, base, next, G)
  BY <1>3, <1>4 DEF Solves
<1> QED BY <1>5

\* ... and every solution has its values where base and steps lead.
LEMMA RecursionClosed ==
  ASSUME NEW D, NEW rank, NEW W, NEW B, NEW base, NEW next, NEW G,
         Descends(D, rank, B, next), Closed(D, W, B, base, G), NEW f,
         Solves(f, D, B, base, next, G)
  PROVE  f \in [D -> W]
<1> DEFINE T == {rank[x] : x \in {y \in D : f[y] \notin W}}
<1>1. ASSUME T # {} PROVE FALSE
  <2>1. T \subseteq Nat
    BY DEF Descends
  <2>2. PICK k \in T : \A l \in T : k <= l
    BY <2>1, <1>1, LeastOf
  <2>3. PICK x \in D : f[x] \notin W /\ k = rank[x]
    BY <2>2
  <2>4. f[x] = IF x \in B THEN base[x] ELSE G[x][f[next[x]]]
    BY DEF Solves
  <2>5. x \notin B
    BY <2>3, <2>4 DEF Closed
  <2>6. next[x] \in D /\ rank[next[x]] < rank[x] /\ rank[next[x]] \in Nat /\ rank[x] \in Nat
    BY <2>5 DEF Descends
  <2>7. rank[next[x]] \notin T
    BY <2>2, <2>3, <2>6
  <2>8. f[next[x]] \in W
    BY <2>6, <2>7
  <2> QED BY <2>3, <2>4, <2>5, <2>8 DEF Closed
<1>2. \A x \in D : f[x] \in W
  BY <1>1
<1>3. f = [x \in D |-> f[x]]
  BY DEF Solves
<1> QED BY <1>2, <1>3

----------------------------------------------------------------------------
(***************************************************************************)
(* Searching a text, and the thinking parser.                              *)
(***************************************************************************)
Texts == Seq(STRING)

\* The first position of a token, and what is not found.
First(b, S, i, p) ==
  \/ /\ p = 0 /\ \A k \in i .. Len(b) : b[k] \notin S
  \/ /\ p \in i .. Len(b) /\ b[p] \in S /\ \A k \in i .. p - 1 : b[k] \notin S

\* What FirstOf finds.
LEMMA FirstFound ==
  ASSUME NEW b \in Texts, NEW S, NEW i \in Nat
  PROVE  First(b, S, i, FirstOf(b, S, i))
<1> DEFINE n == Len(b)
           I == {k \in i .. n : b[k] \in S}
<1>1. n \in Nat
  BY LenProperties DEF Texts
<1>2. FirstOf(b, S, i) = IF I # {} THEN CHOOSE x \in I : \A y \in I : x =< y ELSE 0
  BY DEF FirstOf, SelectInSubSeq, Min
<1>3. CASE I = {}
  BY <1>2, <1>3 DEF First
<1>4. CASE I # {}
  <2>1. I \subseteq Nat
    BY <1>1
  <2> HIDE DEF I
  <2>2. PICK k \in I : \A l \in I : k <= l
    BY <2>1, <1>4, LeastOf
  <2> DEFINE p == CHOOSE x \in I : \A y \in I : x =< y
  <2>3. p \in I /\ \A y \in I : p <= y
    BY <2>2
  <2>4. FirstOf(b, S, i) = p
    BY <1>2, <1>4
  <2> HIDE DEF p, n
  <2>5. p \in i .. n /\ b[p] \in S
    BY <2>3 DEF I
  <2>6. ASSUME NEW l \in i .. p - 1 PROVE b[l] \notin S
    <3>1. l \in i .. n /\ ~(p <= l)
      BY <1>1, <2>5
    <3>2. l \notin I
      BY <2>3, <3>1
    <3> QED BY <3>1, <3>2 DEF I
  <2> QED BY <2>4, <2>5, <2>6 DEF First, n
<1> QED BY <1>3, <1>4

\* Without the text between its place l and its place r.
Without(b, l, r) == SubSeq(b, 1, l - 1) \o SubSeq(b, r + 1, Len(b))

\* A part of a text is a text, token by token.
LEMMA Between ==
  ASSUME NEW b \in Texts, NEW l \in Nat, NEW r \in Nat, l >= 1, r <= Len(b) + 1
  PROVE  LET u == SubSeq(b, l, r - 1)
         IN /\ u \in Texts /\ Len(u) = IF l <= r THEN r - l ELSE 0
            /\ \A k \in 1 .. r - l : u[k] = b[l + k - 1]
<1> DEFINE u == SubSeq(b, l, r - 1)
<1>1. Len(b) \in Nat /\ b \in Seq(STRING)
  BY LenProperties DEF Texts
<1>2. \A k \in l .. r - 1 : b[k] \in STRING
  BY <1>1
<1>3. r - 1 \in Int /\ l \in Int
  OBVIOUS
<1>4. /\ u \in Seq(STRING) /\ Len(u) = (IF l <= r - 1 THEN (r - 1) - l + 1 ELSE 0)
      /\ \A k \in 1 .. (r - 1) - l + 1 : u[k] = b[l + k - 1]
  BY <1>2, <1>3, SubSeqProperties
<1> HIDE DEF u
<1>5. Len(u) = (IF l <= r THEN r - l ELSE 0)
  BY <1>4
<1>6. \A k \in 1 .. r - l : u[k] = b[l + k - 1]
  BY <1>4
<1> QED BY <1>4, <1>5, <1>6 DEF u, Texts

\* A text without the tokens i to j.
LEMMA WithoutIs ==
  ASSUME NEW b \in Texts, NEW l \in 1 .. Len(b), NEW r \in l .. Len(b) + 1
  PROVE  LET v == Without(b, l, r)
         IN /\ v \in Texts /\ Len(v) = (IF r <= Len(b) THEN l - 1 + Len(b) - r ELSE l - 1)
            /\ \A k \in 1 .. l - 1 : v[k] = b[k]
            /\ \A k \in l .. Len(v) : v[k] = b[k + r - l + 1]
<1> DEFINE x == SubSeq(b, 1, l - 1)
           y == SubSeq(b, r + 1, Len(b))
           n == Len(b)
           v == x \o y
<1>1. n \in Nat /\ b \in Seq(STRING) /\ l \in Nat /\ r \in Nat
  BY LenProperties DEF Texts
<1>2. x \in Seq(STRING) /\ Len(x) = l - 1 /\ \A k \in 1 .. l - 1 : x[k] = b[k]
  <2>1. LET u == SubSeq(b, 1, l - 1)
        IN /\ u \in Texts /\ Len(u) = (IF 1 <= l THEN l - 1 ELSE 0)
           /\ \A k \in 1 .. l - 1 : u[k] = b[1 + k - 1]
    BY <1>1, Between
  <2> QED BY <2>1, <1>1 DEF Texts
<1>3. /\ y \in Seq(STRING) /\ Len(y) = (IF r <= n THEN n - r ELSE 0)
      /\ \A k \in 1 .. n - r : y[k] = b[r + k]
  <2>1. r + 1 \in Int /\ n \in Int /\ \A k \in r + 1 .. n : b[k] \in STRING
    BY <1>1
  <2>2. /\ y \in Seq(STRING) /\ Len(y) = (IF r + 1 <= n THEN n - (r + 1) + 1 ELSE 0)
        /\ \A k \in 1 .. n - (r + 1) + 1 : y[k] = b[r + 1 + k - 1]
    BY <2>1, SubSeqProperties
  <2> HIDE DEF y, n
  <2>3. Len(y) = (IF r <= n THEN n - r ELSE 0)
    BY <1>1, <2>2
  <2>4. ASSUME NEW k \in 1 .. n - r PROVE y[k] = b[r + k]
    <3>1. k \in 1 .. n - (r + 1) + 1 /\ r + 1 + k - 1 = r + k
      BY <1>1
    <3> QED BY <2>2, <3>1
  <2> QED BY <2>2, <2>3, <2>4
<1> HIDE DEF x, y, n
<1>4. /\ v \in Seq(STRING) /\ Len(v) = Len(x) + Len(y)
      /\ \A k \in 1 .. Len(x) + Len(y) : v[k] = IF k <= Len(x) THEN x[k] ELSE y[k - Len(x)]
  BY <1>2, <1>3, ConcatProperties
<1> HIDE DEF v
<1>5. Len(v) = (IF r <= n THEN l - 1 + n - r ELSE l - 1)
  BY <1>1, <1>2, <1>3, <1>4
<1>6. ASSUME NEW k \in 1 .. l - 1 PROVE v[k] = b[k]
  <2>1. k \in 1 .. Len(x) + Len(y) /\ k <= Len(x)
    BY <1>1, <1>2, <1>3 DEF n
  <2> QED BY <2>1, <1>2, <1>4
<1>7. ASSUME NEW k \in l .. Len(v) PROVE v[k] = b[k + r - l + 1]
  <2>1. k \in 1 .. Len(x) + Len(y) /\ ~(k <= Len(x)) /\ k - Len(x) \in 1 .. n - r
    BY <1>1, <1>2, <1>3, <1>4, <1>5
  <2>2. v[k] = y[k - Len(x)] /\ y[k - Len(x)] = b[r + (k - Len(x))]
    BY <2>1, <1>3, <1>4
  <2>3. r + (k - Len(x)) = k + r - l + 1
    BY <1>1, <1>2
  <2> QED BY <2>2, <2>3
<1>8. Without(b, l, r) = v
  BY DEF Without, v, x, y, n
<1> QED BY <1>1, <1>4, <1>5, <1>6, <1>7, <1>8 DEF Texts, n

\* The thinking parser: what it cuts out.
Opens(b) == FirstOf(b, {"open"}, 1)
Stops(b) == IF FirstOf(b, {"close"}, 1) > Opens(b) THEN FirstOf(b, {"close"}, 1) ELSE Len(b) + 1
Cuts(b) == SubSeq(b, Opens(b) + 1, Stops(b) - 1)

\* What the thinking parser cuts out is a text that is shorter.
LEMMA CutOut ==
  ASSUME NEW b \in Texts, Opens(b) # 0
  PROVE  /\ Opens(b) \in 1 .. Len(b) /\ Stops(b) \in Opens(b) + 1 .. Len(b) + 1
         /\ Len(b) \in Nat /\ Cuts(b) \in Texts
         /\ Without(b, Opens(b), Stops(b)) \in Texts
         /\ Len(Without(b, Opens(b), Stops(b))) < Len(b)
<1> DEFINE s == Opens(b)
           t == Stops(b)
           c == FirstOf(b, {"close"}, 1)
<1>1. Len(b) \in Nat
  BY LenProperties DEF Texts
<1>2. s \in 1 .. Len(b)
  BY FirstFound DEF First, Opens
<1>3. c = 0 \/ c \in 1 .. Len(b)
  BY FirstFound DEF First
<1>4. t = IF c > s THEN c ELSE Len(b) + 1
  BY DEF Stops
<1> HIDE DEF s, t, c
<1>5. t \in s + 1 .. Len(b) + 1
  BY <1>1, <1>2, <1>3, <1>4
<1>6. Cuts(b) \in Texts
  <2>1. s + 1 \in Nat /\ t \in Nat /\ s + 1 >= 1 /\ t <= Len(b) + 1
    BY <1>1, <1>2, <1>5
  <2> QED BY <2>1, Between DEF Cuts, s, t
<1>7. t \in s .. Len(b) + 1
  BY <1>1, <1>2, <1>5
<1>8. /\ Without(b, s, t) \in Texts
      /\ Len(Without(b, s, t)) = (IF t <= Len(b) THEN s - 1 + Len(b) - t ELSE s - 1)
  BY <1>2, <1>7, WithoutIs
<1>9. Len(Without(b, s, t)) < Len(b)
  BY <1>1, <1>2, <1>5, <1>8
<1> QED BY <1>1, <1>2, <1>5, <1>6, <1>8, <1>9 DEF s, t

Shown == [thinking : Texts, content : Texts]

\* The equation of the thinking parser, and its type.
LEMMA QwenIs ==
  /\ Qwen \in [Texts -> Shown]
  /\ \A b \in Texts :
       Qwen[b] = IF Opens(b) = 0 THEN Parts(<<>>, b)
                 ELSE LET rest == Qwen[Without(b, Opens(b), Stops(b))]
                      IN Parts(Cuts(b) \o rest.thinking, rest.content)
<1> DEFINE rank == [b \in Texts |-> Len(b)]
           B == {b \in Texts : Opens(b) = 0}
           base == [b \in Texts |-> Parts(<<>>, b)]
           next == [b \in Texts |-> Without(b, Opens(b), Stops(b))]
           G == [b \in Texts |-> [w \in Shown |-> Parts(Cuts(b) \o w.thinking, w.content)]]
           Eq(q) == q = [b \in Texts |->
                      IF Opens(b) = 0 THEN Parts(<<>>, b)
                      ELSE LET rest == q[Without(b, Opens(b), Stops(b))]
                           IN Parts(Cuts(b) \o rest.thinking, rest.content)]
<1>1. Descends(Texts, rank, B, next)
  <2>1. \A b \in Texts : rank[b] \in Nat
    BY LenProperties DEF Texts
  <2>2. ASSUME NEW b \in Texts, b \notin B PROVE next[b] \in Texts /\ rank[next[b]] < rank[b]
    BY <2>2, CutOut
  <2> QED BY <2>1, <2>2 DEF Descends
<1>2. Closed(Texts, Shown, B, base, G)
  <2>1. ASSUME NEW b \in Texts PROVE base[b] \in Shown
    BY EmptySeq DEF Shown, Parts, Texts
  <2>2. ASSUME NEW b \in Texts, b \notin B, NEW w \in Shown PROVE G[b][w] \in Shown
    <3>1. Cuts(b) \in Texts
      BY <2>2, CutOut
    <3>2. Cuts(b) \o w.thinking \in Texts
      BY <3>1, ConcatProperties DEF Texts, Shown
    <3> QED BY <3>2 DEF Shown, Parts
  <2> QED BY <2>1, <2>2 DEF Closed
<1>3. PICK f : Solves(f, Texts, B, base, next, G)
  BY <1>1, RecursionExists
<1>4. f \in [Texts -> Shown]
  BY <1>1, <1>2, <1>3, RecursionClosed
<1>5. ASSUME NEW b \in Texts
      PROVE  f[b] = IF Opens(b) = 0 THEN Parts(<<>>, b)
                    ELSE LET rest == f[Without(b, Opens(b), Stops(b))]
                         IN Parts(Cuts(b) \o rest.thinking, rest.content)
  <2>1. f[b] = IF b \in B THEN base[b] ELSE G[b][f[next[b]]]
    BY <1>3 DEF Solves
  <2>2. CASE Opens(b) = 0
    BY <2>1, <2>2
  <2>3. CASE Opens(b) # 0
    <3>1. next[b] \in Texts /\ next[b] = Without(b, Opens(b), Stops(b))
      BY <2>3, CutOut
    <3>2. f[next[b]] \in Shown
      BY <3>1, <1>4
    <3> HIDE DEF next
    <3>3. f[b] = Parts(Cuts(b) \o f[next[b]].thinking, f[next[b]].content)
      BY <2>1, <2>3, <3>2
    <3> QED BY <2>3, <3>1, <3>3
  <2> QED BY <2>2, <2>3
<1>6. Eq(f)
  BY <1>4, <1>5
<1>7. Qwen = CHOOSE q : Eq(q)
  BY Zenon DEF Qwen, Texts, Opens, Stops, Cuts, Without
<1> HIDE DEF Eq
<1>8. Eq(Qwen)
  BY <1>6, <1>7
<1>9. ASSUME NEW b \in Texts
      PROVE  Qwen[b] = IF Opens(b) = 0 THEN Parts(<<>>, b)
                       ELSE LET rest == Qwen[Without(b, Opens(b), Stops(b))]
                            IN Parts(Cuts(b) \o rest.thinking, rest.content)
  BY <1>8 DEF Eq
<1> DEFINE T == {Len(b) : b \in {a \in Texts : Qwen[a] \notin Shown}}
<1>10. ASSUME T # {} PROVE FALSE
  <2>1. T \subseteq Nat
    BY LenProperties DEF Texts
  <2>2. PICK k \in T : \A l \in T : k <= l
    BY <2>1, <1>10, LeastOf
  <2>3. PICK b \in Texts : Qwen[b] \notin Shown /\ k = Len(b)
    BY <2>2
  <2> DEFINE v == Without(b, Opens(b), Stops(b))
  <2>4. Opens(b) # 0
    <3>1. Parts(<<>>, b) \in Shown
      BY EmptySeq DEF Shown, Parts, Texts
    <3> QED BY <1>9, <2>3, <3>1
  <2>5. v \in Texts /\ Len(v) < Len(b) /\ Cuts(b) \in Texts /\ Len(v) \in Nat /\ Len(b) \in Nat
    BY <2>4, CutOut, LenProperties DEF Texts
  <2>6. Qwen[b] = Parts(Cuts(b) \o Qwen[v].thinking, Qwen[v].content)
    BY <1>9, <2>4
  <2> HIDE DEF v
  <2>7. Len(v) \notin T
    BY <2>2, <2>3, <2>5
  <2>8. Qwen[v] \in Shown
    BY <2>5, <2>7
  <2>9. Cuts(b) \o Qwen[v].thinking \in Texts
    BY <2>5, <2>8, ConcatProperties DEF Texts, Shown
  <2>10. Qwen[b] \in Shown
    BY <2>6, <2>8, <2>9 DEF Shown, Parts
  <2> QED BY <2>3, <2>10
<1>11. \A b \in Texts : Qwen[b] \in Shown
  BY <1>10
<1>12. Qwen = [b \in Texts |-> Qwen[b]]
  BY <1>8 DEF Eq
<1>13. Qwen \in [Texts -> Shown]
  BY <1>11, <1>12
<1> QED BY <1>9, <1>13

----------------------------------------------------------------------------
(***************************************************************************)
(* The channel parser.                                                     *)
(***************************************************************************)
\* The channel parser: the header found from position i on, and the end of its channel.
Header(b, i) == FirstOf(b, Channels, i)
Ending(b, i) == FirstOf(b, {"end"}, Header(b, i) + 1)
Match(b, i) ==
  [channel |-> b[Header(b, i)],
   text |-> SubSeq(b, Header(b, i) + 1, IF Ending(b, i) = 0 THEN Len(b) ELSE Ending(b, i) - 1)]
NoMatch(b, i) == i > Len(b) \/ Header(b, i) = 0

Found == [channel : STRING, text : Texts]

\* What a match is, and where the search goes on.
LEMMA MatchIs ==
  ASSUME NEW b \in Texts, NEW i \in Nat, ~NoMatch(b, i)
  PROVE  /\ Len(b) \in Nat /\ Header(b, i) \in 1 .. Len(b) /\ i <= Header(b, i)
         /\ Match(b, i) \in Found
         /\ Ending(b, i) = 0 \/ Ending(b, i) \in Header(b, i) + 1 .. Len(b)
<1> DEFINE h == Header(b, i)
           e == Ending(b, i)
           l == IF e = 0 THEN Len(b) ELSE e - 1
<1>1. Len(b) \in Nat
  BY LenProperties DEF Texts
<1>2. First(b, Channels, i, h)
  BY FirstFound DEF Header
<1>3. h \in i .. Len(b) /\ h # 0
  BY <1>2 DEF First, NoMatch
<1> HIDE DEF h, e
<1>4. h \in 1 .. Len(b) /\ i <= h /\ h + 1 \in Nat
  BY <1>1, <1>3
<1>5. First(b, {"end"}, h + 1, e)
  BY <1>4, FirstFound DEF Ending, e, h
<1>6. e = 0 \/ e \in h + 1 .. Len(b)
  BY <1>5 DEF First
<1>7. b[h] \in STRING
  BY <1>4, LenProperties DEF Texts
<1>8. SubSeq(b, h + 1, l) \in Texts
  <2>1. l + 1 \in Nat /\ l + 1 <= Len(b) + 1 /\ (l + 1) - 1 = l /\ h + 1 >= 1
    BY <1>1, <1>4, <1>6
  <2> HIDE DEF l
  <2>2. SubSeq(b, h + 1, (l + 1) - 1) \in Texts
    BY <1>4, <2>1, Between
  <2> QED BY <2>1, <2>2
<1>9. Match(b, i) = [channel |-> b[h], text |-> SubSeq(b, h + 1, l)]
  BY DEF Match, h, e
<1> HIDE DEF l
<1>10. Match(b, i) \in Found
  BY <1>7, <1>8, <1>9 DEF Found
<1> QED BY <1>1, <1>4, <1>6, <1>10 DEF h, e

\* The equation of the channel parser, and its type.
Rest(b) ==
  CHOOSE from : from =
    [i \in Nat |-> IF NoMatch(b, i) THEN <<>>
                   ELSE <<Match(b, i)>>
                          \o (IF Ending(b, i) = 0 THEN <<>> ELSE from[Ending(b, i) + 1])]

\* The equation of the channel parser.
LEMMA GptIs ==
  ASSUME NEW b \in Texts
  PROVE  /\ GptMatches(b) = Rest(b)[1]
         /\ \A i \in Nat :
              /\ Rest(b)[i] \in Seq(Found)
              /\ Rest(b)[i] =
                   IF NoMatch(b, i) THEN <<>>
                   ELSE <<Match(b, i)>>
                          \o (IF Ending(b, i) = 0 THEN <<>> ELSE Rest(b)[Ending(b, i) + 1])
<1> DEFINE rank == [i \in Nat |-> IF i <= Len(b) THEN Len(b) + 1 - i ELSE 0]
           B == {i \in Nat : NoMatch(b, i) \/ Ending(b, i) = 0}
           base == [i \in Nat |-> IF NoMatch(b, i) THEN <<>> ELSE <<Match(b, i)>>]
           next == [i \in Nat |-> Ending(b, i) + 1]
           W == Seq(Found)
           G == [i \in Nat |-> [w \in W |-> <<Match(b, i)>> \o w]]
           Val(q, i) ==
             IF NoMatch(b, i) THEN <<>>
             ELSE <<Match(b, i)>>
                    \o (IF Ending(b, i) = 0 THEN <<>> ELSE q[Ending(b, i) + 1])
           Eq(q) == q = [i \in Nat |-> Val(q, i)]
<1>0. ASSUME NEW i \in Nat, ~NoMatch(b, i), Ending(b, i) # 0
      PROVE  /\ Ending(b, i) + 1 \in Nat
             /\ (IF Ending(b, i) + 1 <= Len(b) THEN Len(b) + 1 - (Ending(b, i) + 1) ELSE 0)
                  < (IF i <= Len(b) THEN Len(b) + 1 - i ELSE 0)
  <2>1. /\ Len(b) \in Nat /\ Header(b, i) \in 1 .. Len(b) /\ i <= Header(b, i)
        /\ Ending(b, i) \in Header(b, i) + 1 .. Len(b)
    BY <1>0, MatchIs
  <2> QED BY <2>1
<1>1. Descends(Nat, rank, B, next)
  <2>1. ASSUME NEW i \in Nat PROVE rank[i] \in Nat
    BY LenProperties DEF Texts
  <2>2. ASSUME NEW i \in Nat, i \notin B PROVE next[i] \in Nat /\ rank[next[i]] < rank[i]
    BY <2>2, <1>0
  <2> QED BY <2>1, <2>2 DEF Descends
<1>2. ASSUME NEW i \in Nat, ~NoMatch(b, i)
      PROVE  Match(b, i) \in Found /\ <<Match(b, i)>> \in Seq(Found)
  BY <1>2, MatchIs
<1>3. PICK f : Solves(f, Nat, B, base, next, G)
  BY <1>1, RecursionExists
<1>4. Closed(Nat, W, B, base, G)
  <2>1. ASSUME NEW i \in Nat, i \in B PROVE base[i] \in W
    BY <1>2, EmptySeq
  <2>2. ASSUME NEW i \in Nat, i \notin B, NEW w \in W PROVE G[i][w] \in W
    <3>1. <<Match(b, i)>> \in Seq(Found)
      BY <2>2, <1>2
    <3>2. G[i][w] = <<Match(b, i)>> \o w
      OBVIOUS
    <3> QED BY <3>1, <3>2, ConcatProperties
  <2> QED BY <2>1, <2>2 DEF Closed
<1>5. f \in [Nat -> W]
  BY <1>1, <1>3, <1>4, RecursionClosed
<1>6. ASSUME NEW i \in Nat PROVE f[i] = Val(f, i)
  <2>1. f[i] = IF i \in B THEN base[i] ELSE G[i][f[next[i]]]
    BY <1>3 DEF Solves
  <2>2. CASE NoMatch(b, i)
    BY <2>1, <2>2
  <2>3. CASE ~NoMatch(b, i) /\ Ending(b, i) = 0
    <3>1. f[i] = <<Match(b, i)>>
      BY <2>1, <2>3
    <3>2. <<Match(b, i)>> \o <<>> = <<Match(b, i)>>
      BY <1>2, <2>3, ConcatEmptySeq
    <3> QED BY <2>3, <3>1, <3>2
  <2>4. CASE ~NoMatch(b, i) /\ Ending(b, i) # 0
    <3>1. next[i] \in Nat /\ next[i] = Ending(b, i) + 1
      BY <1>0, <2>4
    <3>2. f[next[i]] \in W
      BY <3>1, <1>5
    <3> HIDE DEF next
    <3>3. f[i] = <<Match(b, i)>> \o f[next[i]]
      BY <2>1, <2>4, <3>2
    <3> QED BY <2>4, <3>1, <3>3
  <2> QED BY <2>2, <2>3, <2>4
<1>7. Eq(f)
  <2>1. f = [i \in Nat |-> f[i]]
    BY <1>5
  <2> HIDE DEF Val
  <2> QED BY <1>6, <2>1
<1>8. Rest(b) = CHOOSE q : Eq(q)
  BY Zenon DEF Rest
<1>9. GptMatches(b) = Rest(b)[1]
  BY Zenon DEF GptMatches, Rest, Header, Ending, Match, NoMatch
<1> HIDE DEF Eq
<1>10. Eq(Rest(b))
  BY <1>7, <1>8
<1> DEFINE q == Rest(b)
<1>11. ASSUME NEW i \in Nat PROVE q[i] = Val(q, i)
  <2> HIDE DEF Val
  <2> QED BY <1>10 DEF Eq
<1> HIDE DEF q
<1>12. ASSUME NEW i \in Nat PROVE q[i] = IF i \in B THEN base[i] ELSE <<Match(b, i)>> \o q[next[i]]
  <2>1. CASE NoMatch(b, i)
    BY <1>11, <2>1
  <2>2. CASE ~NoMatch(b, i) /\ Ending(b, i) = 0
    <3>1. <<Match(b, i)>> \o <<>> = <<Match(b, i)>>
      BY <1>2, <2>2, ConcatEmptySeq
    <3> QED BY <1>11, <2>2, <3>1
  <2>3. CASE ~NoMatch(b, i) /\ Ending(b, i) # 0
    BY <1>11, <2>3
  <2> QED BY <2>1, <2>2, <2>3
<1> DEFINE T == {rank[i] : i \in {k \in Nat : q[k] \notin W}}
<1> HIDE DEF rank, B, base, next, G, Val, W
<1>13. ASSUME T # {} PROVE FALSE
  <2>1. T \subseteq Nat
    BY <1>1 DEF Descends
  <2>2. PICK k \in T : \A l \in T : k <= l
    BY <2>1, <1>13, LeastOf
  <2>3. PICK i \in Nat : q[i] \notin W /\ k = rank[i]
    BY <2>2
  <2>4. i \notin B
    BY <1>4, <1>12, <2>3 DEF Closed
  <2>5. next[i] \in Nat /\ rank[next[i]] < rank[i] /\ rank[next[i]] \in Nat /\ rank[i] \in Nat
    BY <1>1, <2>4 DEF Descends
  <2>6. rank[next[i]] \notin T
    BY <2>2, <2>3, <2>5
  <2>7. q[next[i]] \in W
    BY <2>5, <2>6
  <2>8. <<Match(b, i)>> \in Seq(Found)
    BY <1>2, <2>4 DEF B
  <2>9. q[i] \in W
    BY <1>12, <2>4, <2>7, <2>8, ConcatProperties DEF W
  <2> QED BY <2>3, <2>9
<1>14. \A i \in Nat : q[i] \in W
  BY <1>13
<1>15. \A i \in Nat : q[i] = IF NoMatch(b, i) THEN <<>>
                             ELSE <<Match(b, i)>>
                                   \o (IF Ending(b, i) = 0 THEN <<>> ELSE q[Ending(b, i) + 1])
  BY <1>11 DEF Val
<1> QED BY <1>9, <1>14, <1>15 DEF q, W

----------------------------------------------------------------------------
(***************************************************************************)
(* Reading a text token by token: thinking blocks ...                      *)
(***************************************************************************)
\* The greatest position of a set.
LEMMA GreatestIn ==
  ASSUME NEW n \in Nat, NEW s, s \subseteq 1 .. n, s # {}
  PROVE  Max(s) \in s /\ \A k \in s : k <= Max(s)
<1> DEFINE T == {n - k : k \in s}
<1>1. T \subseteq Nat /\ T # {}
  <2>1. \A k \in s : n - k \in Nat
    OBVIOUS
  <2> QED BY <2>1
<1>2. PICK d \in T : \A e \in T : d <= e
  BY <1>1, LeastOf
<1>3. PICK m \in s : d = n - m
  OBVIOUS
<1>4. ASSUME NEW k \in s PROVE m >= k
  <2>1. n - m <= n - k
    BY <1>2, <1>3
  <2>2. m \in Nat /\ k \in Nat
    OBVIOUS
  <2> QED BY <2>1, <2>2
<1>5. Max(s) \in s /\ \A k \in s : Max(s) >= k
  BY <1>4 DEF Max
<1>6. \A k \in s : k \in Nat
  OBVIOUS
<1> QED BY <1>5, <1>6

\* Reading a text of n tokens in steps, over the sets of its positions.
Reads(it, n, b, r, step) ==
  it = [s \in SUBSET (1 .. n) |->
         IF s = {} THEN r ELSE step[it[s \ {Max(s)}]][b[Max(s)]]]

\* Reading is a function of the text and the position.
LEMMA ReadingExists ==
  ASSUME NEW n \in Nat, NEW b \in [1 .. n -> STRING], NEW R, NEW r \in R,
         NEW step \in [R -> [STRING -> R]]
  PROVE  \E it : Reads(it, n, b, r, step) /\ it \in [SUBSET (1 .. n) -> R]
<1> DEFINE D == SUBSET (1 .. n)
           rank == [s \in D |-> Cardinality(s)]
           B == {{}}
           base == [s \in D |-> r]
           next == [s \in D |-> s \ {Max(s)}]
           G == [s \in D |-> [x \in R |-> step[x][b[Max(s)]]]]
<1>1. ASSUME NEW s \in D PROVE IsFiniteSet(s) /\ Cardinality(s) \in Nat
  <2>1. IsFiniteSet(1 .. n)
    BY FS_Interval
  <2> QED BY <2>1, FS_Subset, FS_CardinalityType
<1>2. ASSUME NEW s \in D, s # {} PROVE Max(s) \in s /\ b[Max(s)] \in STRING
  BY <1>2, GreatestIn
<1>3. Descends(D, rank, B, next)
  <2>1. ASSUME NEW s \in D, s \notin B PROVE next[s] \in D /\ rank[next[s]] < rank[s]
    <3>1. s # {} /\ Max(s) \in s
      BY <2>1, <1>2
    <3>2. next[s] \in D /\ next[s] = s \ {Max(s)}
      OBVIOUS
    <3>3. Cardinality(s \ {Max(s)}) = Cardinality(s) - 1 /\ Cardinality(s) \in Nat
      BY <1>1, <3>1, FS_RemoveElement
    <3> HIDE DEF next
    <3>4. rank[next[s]] = Cardinality(s \ {Max(s)}) /\ rank[s] = Cardinality(s)
      BY <3>2
    <3> QED BY <3>2, <3>3, <3>4
  <2> QED BY <1>1, <2>1 DEF Descends
<1>4. Closed(D, R, B, base, G)
  <2>1. ASSUME NEW s \in D, s \notin B, NEW x \in R PROVE G[s][x] \in R
    BY <2>1, <1>2
  <2> QED BY <2>1 DEF Closed
<1>5. PICK it : Solves(it, D, B, base, next, G)
  BY <1>3, RecursionExists
<1>6. it \in [D -> R]
  <2> HIDE DEF D, rank, B, base, next, G
  <2> QED BY <1>3, <1>4, <1>5, RecursionClosed
<1>7. ASSUME NEW s \in D
      PROVE  it[s] = IF s = {} THEN r ELSE step[it[s \ {Max(s)}]][b[Max(s)]]
  <2>1. it[s] = IF s \in B THEN base[s] ELSE G[s][it[next[s]]]
    BY <1>5 DEF Solves
  <2>2. next[s] = s \ {Max(s)} /\ next[s] \in D
    OBVIOUS
  <2>3. it[next[s]] \in R
    BY <1>6, <2>2
  <2> HIDE DEF next
  <2> QED BY <2>1, <2>2, <2>3
<1>8. Reads(it, n, b, r, step)
  <2>1. it = [s \in D |-> it[s]]
    BY <1>6
  <2> QED BY <1>7, <2>1 DEF Reads
<1> QED BY <1>6, <1>8

\* The reading, token by token.
LEMMA ReadingSteps ==
  ASSUME NEW n \in Nat, NEW k \in 1 .. n
  PROVE  /\ 1 .. k \in SUBSET (1 .. n) /\ 1 .. k # {}
         /\ Max(1 .. k) = k /\ (1 .. k) \ {Max(1 .. k)} = 1 .. k - 1
<1>1. Max(1 .. k) \in 1 .. k /\ \A l \in 1 .. k : l <= Max(1 .. k)
  <2>1. 1 .. k \subseteq 1 .. n /\ 1 .. k # {}
    OBVIOUS
  <2> QED BY <2>1, GreatestIn
<1> DEFINE m == Max(1 .. k)
<1> HIDE DEF m
<1>2. m \in 1 .. k /\ k <= m
  BY <1>1 DEF m
<1>3. m = k
  BY <1>2
<1>4. (1 .. k) \ {k} = 1 .. k - 1
  OBVIOUS
<1> QED BY <1>3, <1>4 DEF m

----------------------------------------------------------------------------
(* The reader of a text with tags. *)
TagReader == [in : {"", "think"}, thinking : Texts, content : Texts]

\* The reader of blocks stays one.
LEMMA TaggedReader ==
  ASSUME NEW r \in TagReader, NEW t \in STRING
  PROVE  ReadTagged(r, t) \in TagReader
<1>1. Append(r.thinking, t) \in Texts /\ Append(r.content, t) \in Texts
  BY AppendProperties DEF TagReader, Texts
<1> QED BY <1>1 DEF ReadTagged, TagReader

\* What the reader of a text has filed after k tokens.
TaggedIter(b) ==
  CHOOSE it : it = [s \in SUBSET DOMAIN b |->
    IF s = {} THEN Reader ELSE ReadTagged(it[s \ {Max(s)}], b[Max(s)])]
Tagged(b, k) == TaggedIter(b)[1 .. k]

\* The equation of the reader of blocks.
LEMMA TaggedIs ==
  ASSUME NEW b \in Texts
  PROVE  /\ ReadAll(ReadTagged, b) = Parts(Tagged(b, Len(b)).thinking, Tagged(b, Len(b)).content)
         /\ Tagged(b, 0) = Reader
         /\ \A k \in 1 .. Len(b) : Tagged(b, k) = ReadTagged(Tagged(b, k - 1), b[k])
         /\ \A k \in 0 .. Len(b) : Tagged(b, k) \in TagReader
<1> DEFINE n == Len(b)
           Eq(q) == q = [s \in SUBSET DOMAIN b |->
                      IF s = {} THEN Reader ELSE ReadTagged(q[s \ {Max(s)}], b[Max(s)])]
           step == [r \in TagReader |-> [t \in STRING |-> ReadTagged(r, t)]]
<1>1. n \in Nat /\ b \in [1 .. n -> STRING] /\ DOMAIN b = 1 .. n
  BY LenProperties DEF Texts
<1>2. Reader \in TagReader
  BY EmptySeq DEF Reader, TagReader, Texts
<1>3. step \in [TagReader -> [STRING -> TagReader]]
  BY TaggedReader
<1>4. PICK it : Reads(it, n, b, Reader, step) /\ it \in [SUBSET (1 .. n) -> TagReader]
  BY <1>1, <1>2, <1>3, ReadingExists
<1>5. ASSUME NEW s \in SUBSET (1 .. n)
      PROVE  it[s] = IF s = {} THEN Reader ELSE ReadTagged(it[s \ {Max(s)}], b[Max(s)])
  <2>1. it[s] = IF s = {} THEN Reader ELSE step[it[s \ {Max(s)}]][b[Max(s)]]
    BY <1>4 DEF Reads
  <2>2. ASSUME s # {} PROVE it[s \ {Max(s)}] \in TagReader /\ b[Max(s)] \in STRING
    <3>1. Max(s) \in s
      BY <1>1, <2>2, GreatestIn
    <3>2. s \ {Max(s)} \in SUBSET (1 .. n)
      OBVIOUS
    <3> HIDE DEF n
    <3> QED BY <1>1, <1>4, <3>1, <3>2
  <2> QED BY <2>1, <2>2
<1>6. Eq(it)
  <2>1. it = [s \in SUBSET (1 .. n) |-> it[s]]
    BY <1>4
  <2> QED BY <1>1, <1>5, <2>1
<1>7. TaggedIter(b) = CHOOSE q : Eq(q)
  BY Zenon DEF TaggedIter
<1>8. ReadAll(ReadTagged, b) = Parts(Tagged(b, n).thinking, Tagged(b, n).content)
  <2>1. FoldLeft(ReadTagged, Reader, b) = TaggedIter(b)[DOMAIN b]
    BY Zenon DEF FoldLeft, MapThenFoldSet, TaggedIter
  <2> QED BY <1>1, <2>1 DEF ReadAll, Tagged
<1> HIDE DEF Eq
<1>9. Eq(TaggedIter(b))
  BY <1>6, <1>7
<1> DEFINE q == TaggedIter(b)
<1>10. \A s \in SUBSET (1 .. n) :
         q[s] = IF s = {} THEN Reader ELSE ReadTagged(q[s \ {Max(s)}], b[Max(s)])
  BY <1>1, <1>9 DEF Eq
<1> HIDE DEF q, n, step
<1>11. Tagged(b, 0) = Reader
  <2>1. 1 .. 0 = {} /\ {} \in SUBSET (1 .. n)
    OBVIOUS
  <2> QED BY <1>10, <2>1 DEF Tagged, q
<1>12. ASSUME NEW k \in 1 .. n PROVE Tagged(b, k) = ReadTagged(Tagged(b, k - 1), b[k])
  <2>1. /\ 1 .. k \in SUBSET (1 .. n) /\ 1 .. k # {}
        /\ Max(1 .. k) = k /\ (1 .. k) \ {Max(1 .. k)} = 1 .. k - 1
    BY <1>1, ReadingSteps
  <2>2. q[1 .. k] = ReadTagged(q[(1 .. k) \ {Max(1 .. k)}], b[Max(1 .. k)])
    BY <1>10, <2>1
  <2> QED BY <2>1, <2>2 DEF Tagged, q
<1> DEFINE T == {k \in 0 .. n : Tagged(b, k) \notin TagReader}
<1>13. ASSUME T # {} PROVE FALSE
  <2>1. T \subseteq Nat
    BY <1>1
  <2>2. PICK k \in T : \A l \in T : k <= l
    BY <2>1, <1>13, LeastOf
  <2>3. k # 0 /\ k \in 1 .. n
    BY <1>1, <1>2, <1>11
  <2>4. k - 1 \in 0 .. n /\ ~(k <= k - 1)
    BY <1>1, <2>3
  <2>5. k - 1 \notin T
    BY <2>2, <2>4
  <2>6. Tagged(b, k - 1) \in TagReader /\ b[k] \in STRING
    BY <1>1, <2>3, <2>4, <2>5
  <2>7. Tagged(b, k) \in TagReader
    BY <1>12, <2>3, <2>6, TaggedReader
  <2> QED BY <2>7
<1> QED BY <1>8, <1>11, <1>12, <1>13 DEF n

----------------------------------------------------------------------------
(***************************************************************************)
(* ... and channels.                                                       *)
(***************************************************************************)
(* The reader of a text with channels. *)
ChanReader == [in : {"", "analysis", "final"}, thinking : Texts, content : Texts]

\* The reader of channels stays one.
LEMMA ChannelReader ==
  ASSUME NEW r \in ChanReader, NEW t \in STRING
  PROVE  ReadChannel(r, t) \in ChanReader
<1>1. Append(r.thinking, t) \in Texts /\ Append(r.content, t) \in Texts /\ <<>> \in Texts
  BY AppendProperties, EmptySeq DEF ChanReader, Texts
<1> QED BY <1>1 DEF ReadChannel, ChanReader

\* What the reader of a text with channels has filed after k tokens.
FiledIter(b) ==
  CHOOSE it : it = [s \in SUBSET DOMAIN b |->
    IF s = {} THEN Reader ELSE ReadChannel(it[s \ {Max(s)}], b[Max(s)])]
Filed(b, k) == FiledIter(b)[1 .. k]

\* The equation of the reader of channels.
LEMMA FiledIs ==
  ASSUME NEW b \in Texts
  PROVE  /\ ReadAll(ReadChannel, b) = Parts(Filed(b, Len(b)).thinking, Filed(b, Len(b)).content)
         /\ Filed(b, 0) = Reader
         /\ \A k \in 1 .. Len(b) : Filed(b, k) = ReadChannel(Filed(b, k - 1), b[k])
         /\ \A k \in 0 .. Len(b) : Filed(b, k) \in ChanReader
<1> DEFINE n == Len(b)
           Eq(q) == q = [s \in SUBSET DOMAIN b |->
                      IF s = {} THEN Reader ELSE ReadChannel(q[s \ {Max(s)}], b[Max(s)])]
           step == [r \in ChanReader |-> [t \in STRING |-> ReadChannel(r, t)]]
<1>1. n \in Nat /\ b \in [1 .. n -> STRING] /\ DOMAIN b = 1 .. n
  BY LenProperties DEF Texts
<1>2. Reader \in ChanReader
  BY EmptySeq DEF Reader, ChanReader, Texts
<1>3. step \in [ChanReader -> [STRING -> ChanReader]]
  BY ChannelReader
<1>4. PICK it : Reads(it, n, b, Reader, step) /\ it \in [SUBSET (1 .. n) -> ChanReader]
  BY <1>1, <1>2, <1>3, ReadingExists
<1>5. ASSUME NEW s \in SUBSET (1 .. n)
      PROVE  it[s] = IF s = {} THEN Reader ELSE ReadChannel(it[s \ {Max(s)}], b[Max(s)])
  <2>1. it[s] = IF s = {} THEN Reader ELSE step[it[s \ {Max(s)}]][b[Max(s)]]
    BY <1>4 DEF Reads
  <2>2. ASSUME s # {} PROVE it[s \ {Max(s)}] \in ChanReader /\ b[Max(s)] \in STRING
    <3>1. Max(s) \in s
      BY <1>1, <2>2, GreatestIn
    <3>2. s \ {Max(s)} \in SUBSET (1 .. n)
      OBVIOUS
    <3> HIDE DEF n
    <3> QED BY <1>1, <1>4, <3>1, <3>2
  <2> QED BY <2>1, <2>2
<1>6. Eq(it)
  <2>1. it = [s \in SUBSET (1 .. n) |-> it[s]]
    BY <1>4
  <2> QED BY <1>1, <1>5, <2>1
<1>7. FiledIter(b) = CHOOSE q : Eq(q)
  BY Zenon DEF FiledIter
<1>8. ReadAll(ReadChannel, b) = Parts(Filed(b, n).thinking, Filed(b, n).content)
  <2>1. FoldLeft(ReadChannel, Reader, b) = FiledIter(b)[DOMAIN b]
    BY Zenon DEF FoldLeft, MapThenFoldSet, FiledIter
  <2> QED BY <1>1, <2>1 DEF ReadAll, Filed
<1> HIDE DEF Eq
<1>9. Eq(FiledIter(b))
  BY <1>6, <1>7
<1> DEFINE q == FiledIter(b)
<1>10. \A s \in SUBSET (1 .. n) :
         q[s] = IF s = {} THEN Reader ELSE ReadChannel(q[s \ {Max(s)}], b[Max(s)])
  BY <1>1, <1>9 DEF Eq
<1> HIDE DEF q, n, step
<1>11. Filed(b, 0) = Reader
  <2>1. 1 .. 0 = {} /\ {} \in SUBSET (1 .. n)
    OBVIOUS
  <2> QED BY <1>10, <2>1 DEF Filed, q
<1>12. ASSUME NEW k \in 1 .. n PROVE Filed(b, k) = ReadChannel(Filed(b, k - 1), b[k])
  <2>1. /\ 1 .. k \in SUBSET (1 .. n) /\ 1 .. k # {}
        /\ Max(1 .. k) = k /\ (1 .. k) \ {Max(1 .. k)} = 1 .. k - 1
    BY <1>1, ReadingSteps
  <2>2. q[1 .. k] = ReadChannel(q[(1 .. k) \ {Max(1 .. k)}], b[Max(1 .. k)])
    BY <1>10, <2>1
  <2> QED BY <2>1, <2>2 DEF Filed, q
<1> DEFINE T == {k \in 0 .. n : Filed(b, k) \notin ChanReader}
<1>13. ASSUME T # {} PROVE FALSE
  <2>1. T \subseteq Nat
    BY <1>1
  <2>2. PICK k \in T : \A l \in T : k <= l
    BY <2>1, <1>13, LeastOf
  <2>3. k # 0 /\ k \in 1 .. n
    BY <1>1, <1>2, <1>11
  <2>4. k - 1 \in 0 .. n /\ ~(k <= k - 1)
    BY <1>1, <2>3
  <2>5. k - 1 \notin T
    BY <2>2, <2>4
  <2>6. Filed(b, k - 1) \in ChanReader /\ b[k] \in STRING
    BY <1>1, <2>3, <2>4, <2>5
  <2>7. Filed(b, k) \in ChanReader
    BY <1>12, <2>3, <2>6, ChannelReader
  <2> QED BY <2>7
<1> QED BY <1>8, <1>11, <1>12, <1>13 DEF n

----------------------------------------------------------------------------
(***************************************************************************)
(* The last match of a channel.                                            *)
(***************************************************************************)
\* What holds at i and is kept by each step holds up to j.
LEMMA Climb ==
  ASSUME NEW i \in Nat, NEW j \in Nat, NEW S, i \in S,
         \A k \in i .. j - 1 : k \in S => k + 1 \in S
  PROVE  \A k \in i .. j : k \in S
<1> DEFINE T == (i .. j) \ S
<1>1. ASSUME T # {} PROVE FALSE
  <2>1. T \subseteq Nat
    OBVIOUS
  <2>2. PICK k \in T : \A l \in T : k <= l
    BY <2>1, <1>1, LeastOf
  <2>3. k # i /\ k \in Nat /\ i <= k /\ k <= j
    OBVIOUS
  <2>4. k - 1 \in i .. j - 1 /\ k - 1 \in i .. j /\ ~(k <= k - 1) /\ (k - 1) + 1 = k
    BY <2>3
  <2>5. k - 1 \in S
    BY <2>2, <2>4
  <2> QED BY <2>4, <2>5
<1> QED BY <1>1

\* The last match of a channel.
LastIs(ms, c, p) ==
  \/ p = 0 /\ \A k \in 1 .. Len(ms) : ms[k].channel # c
  \/ /\ p \in 1 .. Len(ms) /\ ms[p].channel = c
     /\ \A k \in 1 .. Len(ms) : ms[k].channel = c => k <= p

LastAt(ms, c) == SelectLastInSeq(ms, LAMBDA m : m.channel = c)

LEMMA LastFound ==
  ASSUME NEW ms \in Seq(Found), NEW c
  PROVE  LastIs(ms, c, LastAt(ms, c))
<1> DEFINE I == {i \in 1 .. Len(ms) : ms[i].channel = c}
<1>1. LastAt(ms, c) = IF I # {} THEN Max(I) ELSE 0
  BY Zenon DEF LastAt, SelectLastInSeq
<1>2. Len(ms) \in Nat
  BY LenProperties
<1>3. CASE I = {}
  BY <1>1, <1>3 DEF LastIs
<1>4. CASE I # {}
  <2>1. I \subseteq 1 .. Len(ms)
    OBVIOUS
  <2>2. Max(I) \in I /\ \A k \in I : k <= Max(I)
    BY <1>2, <1>4, <2>1, GreatestIn
  <2>3. LastAt(ms, c) = Max(I)
    BY <1>1, <1>4
  <2> DEFINE p == Max(I)
  <2> HIDE DEF p
  <2>4. p \in I /\ \A k \in I : k <= p
    BY <2>2 DEF p
  <2>5. LastIs(ms, c, p)
    BY <2>4 DEF LastIs
  <2> QED BY <2>3, <2>5 DEF p
<1> QED BY <1>3, <1>4

LEMMA LastUnique ==
  ASSUME NEW ms \in Seq(Found), NEW c, NEW p, NEW q, LastIs(ms, c, p), LastIs(ms, c, q)
  PROVE  p = q
<1>1. Len(ms) \in Nat
  BY LenProperties
<1>2. CASE p = 0
  BY <1>1, <1>2 DEF LastIs
<1>3. CASE q = 0
  BY <1>1, <1>3 DEF LastIs
<1>4. CASE p # 0 /\ q # 0
  <2>1. p \in 1 .. Len(ms) /\ q \in 1 .. Len(ms) /\ p <= q /\ q <= p
    BY <1>4 DEF LastIs
  <2> QED BY <1>1, <2>1
<1> QED BY <1>2, <1>3, <1>4

\* The text of a channel after the matches ms, when it was d before.
After(ms, c, d) == IF LastAt(ms, c) = 0 THEN d ELSE ms[LastAt(ms, c)].text

LEMMA AfterNone == \A c, d : After(<<>>, c, d) = d
<1> SUFFICES ASSUME NEW c, NEW d PROVE After(<<>>, c, d) = d
  OBVIOUS
<1>1. <<>> \in Seq(Found) /\ Len(<<>>) = 0
  BY EmptySeq
<1>2. LastIs(<<>>, c, LastAt(<<>>, c))
  BY <1>1, LastFound
<1>3. LastAt(<<>>, c) = 0
  BY <1>1, <1>2 DEF LastIs
<1> QED BY <1>3 DEF After

LEMMA AfterMatch ==
  ASSUME NEW ms \in Seq(Found), NEW m \in Found, NEW c, NEW d
  PROVE  After(<<m>> \o ms, c, d) = After(ms, c, IF m.channel = c THEN m.text ELSE d)
<1> DEFINE ns == <<m>> \o ms
           p == LastAt(ms, c)
           n == Len(ms)
<1>1. n \in Nat
  BY LenProperties
<1>2. /\ ns \in Seq(Found) /\ Len(ns) = n + 1 /\ ns[1] = m
      /\ \A k \in 1 .. n : ns[k + 1] = ms[k]
  <2>1. <<m>> \in Seq(Found) /\ Len(<<m>>) = 1 /\ <<m>>[1] = m
    OBVIOUS
  <2>2. /\ ns \in Seq(Found) /\ Len(ns) = 1 + n
        /\ \A k \in 1 .. 1 + n : ns[k] = IF k <= 1 THEN <<m>>[k] ELSE ms[k - 1]
    BY <2>1, ConcatProperties
  <2> HIDE DEF ns, n
  <2>3. ASSUME NEW k \in 1 .. n PROVE ns[k + 1] = ms[k]
    <3>1. k + 1 \in 1 .. 1 + n /\ ~(k + 1 <= 1) /\ (k + 1) - 1 = k
      BY <1>1
    <3> QED BY <2>2, <3>1
  <2>4. ns[1] = m
    BY <1>1, <2>1, <2>2
  <2> QED BY <1>1, <2>2, <2>3, <2>4
<1>3. LastIs(ms, c, p)
  BY LastFound
<1>4. LastIs(ns, c, LastAt(ns, c))
  BY <1>2, LastFound
<1> HIDE DEF ns, p, n
<1>5. \A k \in 1 .. n + 1 : k = 1 \/ (k - 1 \in 1 .. n /\ ns[k] = ms[k - 1])
  <2> SUFFICES ASSUME NEW k \in 1 .. n + 1, k # 1
               PROVE  k - 1 \in 1 .. n /\ ns[k] = ms[k - 1]
    OBVIOUS
  <2>1. k - 1 \in 1 .. n /\ (k - 1) + 1 = k
    BY <1>1
  <2> QED BY <1>2, <2>1
<1>6. CASE p # 0
  <2>1. /\ p \in 1 .. n /\ ms[p].channel = c
        /\ \A k \in 1 .. n : ms[k].channel = c => k <= p
    BY <1>3, <1>6 DEF LastIs, n
  <2>2. p + 1 \in 1 .. n + 1 /\ ns[p + 1] = ms[p]
    BY <1>1, <1>2, <2>1
  <2>3. ASSUME NEW k \in 1 .. n + 1, ns[k].channel = c PROVE k <= p + 1
    <3>1. CASE k = 1
      BY <1>1, <2>1, <3>1
    <3>2. CASE k # 1
      <4>1. k - 1 \in 1 .. n /\ k - 1 <= p
        BY <1>5, <2>1, <2>3, <3>2
      <4> QED BY <1>1, <2>1, <4>1
    <3> QED BY <3>1, <3>2
  <2>4. LastIs(ns, c, p + 1)
    BY <1>2, <2>1, <2>2, <2>3 DEF LastIs
  <2>5. LastAt(ns, c) = p + 1
    BY <1>2, <1>4, <2>4, LastUnique
  <2>6. p + 1 # 0
    BY <1>1, <2>1
  <2> QED BY <1>6, <2>2, <2>5, <2>6 DEF After, p, ns
<1>7. CASE p = 0
  <2>1. \A k \in 1 .. n : ms[k].channel # c
    BY <1>1, <1>3, <1>7 DEF LastIs, n
  <2>2. CASE m.channel = c
    <3>1. \A k \in 1 .. n + 1 : ns[k].channel = c => k <= 1
      BY <1>1, <1>5, <2>1
    <3>2. LastIs(ns, c, 1)
      BY <1>1, <1>2, <2>2, <3>1 DEF LastIs
    <3>3. LastAt(ns, c) = 1
      BY <1>2, <1>4, <3>2, LastUnique
    <3> QED BY <1>2, <1>7, <2>2, <3>3 DEF After, p, ns
  <2>3. CASE m.channel # c
    <3>1. \A k \in 1 .. n + 1 : ns[k].channel # c
      BY <1>1, <1>2, <1>5, <2>1, <2>3
    <3>2. LastIs(ns, c, 0)
      BY <1>2, <3>1 DEF LastIs
    <3>3. LastAt(ns, c) = 0
      BY <1>2, <1>4, <3>2, LastUnique
    <3> QED BY <1>7, <2>3, <3>3 DEF After, p, ns
  <2> QED BY <2>2, <2>3
<1> QED BY <1>6, <1>7

----------------------------------------------------------------------------
(***************************************************************************)
(* The reader of channels along a match.                                   *)
(***************************************************************************)
\* What a reader has filed as channel c.
Under(r, c) == IF c = "analysis" THEN r.thinking ELSE r.content

Out(r) == r.in = ""
At(r, c) == r.in = c

\* What a token is to a reader outside of a channel, and inside of one.
LEMMA ReadOutside ==
  ASSUME NEW r \in ChanReader, Out(r), NEW t
  PROVE  /\ t \notin Channels => ReadChannel(r, t) = r
         /\ t \in Channels => /\ At(ReadChannel(r, t), t)
                              /\ Under(ReadChannel(r, t), t) = <<>>
                              /\ \A d \in Channels : d # t =>
                                   Under(ReadChannel(r, t), d) = Under(r, d)
<1>1. ASSUME t \notin Channels PROVE ReadChannel(r, t) = r
  <2>1. [r EXCEPT !.in = ""] = r
    BY DEF ChanReader, At, Out
  <2>2. t # "analysis" /\ t # "final"
    BY <1>1 DEF Channels
  <2> QED BY <2>1, <2>2 DEF ReadChannel, At, Out
<1>2. CASE t = "analysis"
  <2>1. ReadChannel(r, t) = [r EXCEPT !.in = t, !.thinking = <<>>]
    BY <1>2 DEF ReadChannel, At, Out
  <2> QED BY <1>2, <2>1 DEF At, Out, Under, Channels, ChanReader
<1>3. CASE t = "final"
  <2>1. ReadChannel(r, t) = [r EXCEPT !.in = t, !.content = <<>>]
    BY <1>3 DEF ReadChannel, At, Out
  <2> QED BY <1>3, <2>1 DEF At, Out, Under, Channels, ChanReader
<1> QED BY <1>1, <1>2, <1>3 DEF Channels

LEMMA ReadInside ==
  ASSUME NEW r \in ChanReader, NEW c \in Channels, At(r, c), NEW t
  PROVE  /\ t = "end" => /\ Out(ReadChannel(r, t))
                         /\ \A d \in Channels : Under(ReadChannel(r, t), d) = Under(r, d)
         /\ t # "end" => /\ At(ReadChannel(r, t), c)
                         /\ Under(ReadChannel(r, t), c) = Append(Under(r, c), t)
                         /\ \A d \in Channels : d # c =>
                              Under(ReadChannel(r, t), d) = Under(r, d)
<1>1. CASE t = "end"
  <2>1. ReadChannel(r, t) = [r EXCEPT !.in = ""]
    BY <1>1 DEF ReadChannel, At, Out
  <2> QED BY <1>1, <2>1 DEF At, Out, Under, ChanReader
<1>2. CASE t # "end" /\ c = "analysis"
  <2>1. ReadChannel(r, t) = [r EXCEPT !.thinking = Append(@, t)]
    BY <1>2 DEF ReadChannel, At, Out
  <2> QED BY <1>2, <2>1 DEF At, Out, Under, Channels, ChanReader
<1>3. CASE t # "end" /\ c = "final"
  <2>1. ReadChannel(r, t) = [r EXCEPT !.content = Append(@, t)]
    BY <1>3 DEF ReadChannel, At, Out
  <2> QED BY <1>3, <2>1 DEF At, Out, Under, Channels, ChanReader
<1> QED BY <1>1, <1>2, <1>3 DEF Channels

\* One more token of a part of a text.
LEMMA OneMore ==
  ASSUME NEW b \in Texts, NEW l \in Nat, NEW k \in Nat, 1 <= l, l <= k + 1, k + 1 <= Len(b)
  PROVE  SubSeq(b, l, k + 1) = Append(SubSeq(b, l, k), b[k + 1])
<1>1. Len(b) \in Nat /\ b \in Seq(STRING) /\ b[k + 1] \in STRING
  BY LenProperties DEF Texts
<1>2. l \in 1 .. Len(b) /\ k + 1 \in l .. Len(b) /\ (k + 1) - 1 = k
  BY <1>1
<1>3. SubSeq(b, l, k + 1) = SubSeq(b, l, (k + 1) - 1) \o <<b[k + 1]>>
  BY <1>1, <1>2, SubSeqRecursiveSecond
<1>4. SubSeq(b, l, k) \in Seq(STRING)
  <2>1. k + 1 \in Nat /\ k + 1 <= Len(b) + 1 /\ (k + 1) - 1 = k
    BY <1>1
  <2>2. SubSeq(b, l, (k + 1) - 1) \in Texts
    BY <2>1, Between
  <2> QED BY <2>1, <2>2 DEF Texts
<1>5. Append(SubSeq(b, l, k), b[k + 1]) = SubSeq(b, l, k) \o <<b[k + 1]>>
  BY <1>1, <1>4, AppendIsConcat
<1> QED BY <1>2, <1>3, <1>5

\* Outside of a channel nothing is filed up to the next header.
LEMMA NothingFiled ==
  ASSUME NEW b \in Texts, NEW i \in Nat, NEW j \in Nat, i <= j, j <= Len(b), Out(Filed(b, i)),
         \A k \in i + 1 .. j : b[k] \notin Channels
  PROVE  Filed(b, j) = Filed(b, i)
<1> DEFINE S == {k \in Nat : Filed(b, k) = Filed(b, i)}
<1>1. Len(b) \in Nat
  BY LenProperties DEF Texts
<1>2. ASSUME NEW k \in i .. j - 1, k \in S PROVE k + 1 \in S
  <2>1. k \in Nat /\ k + 1 \in 1 .. Len(b) /\ k + 1 \in i + 1 .. j /\ (k + 1) - 1 = k /\ k \in 0 .. Len(b)
    BY <1>1
  <2>2. Filed(b, k + 1) = ReadChannel(Filed(b, (k + 1) - 1), b[k + 1])
    BY <2>1, FiledIs
  <2>3. Filed(b, k) \in ChanReader /\ Out(Filed(b, k))
    BY <1>2, <2>1, FiledIs
  <2>4. ReadChannel(Filed(b, k), b[k + 1]) = Filed(b, k)
    BY <2>1, <2>3, ReadOutside
  <2> QED BY <1>2, <2>1, <2>2, <2>4
<1>3. i \in S
  OBVIOUS
<1> HIDE DEF S
<1>4. \A k \in i .. j : k \in S
  BY <1>2, <1>3, Climb
<1>5. j \in i .. j
  OBVIOUS
<1> QED BY <1>4, <1>5 DEF S

\* Inside of a channel its text is filed, and nothing else.
LEMMA ChannelFiled ==
  ASSUME NEW b \in Texts, NEW h \in 1 .. Len(b), b[h] \in Channels, Out(Filed(b, h - 1)),
         NEW j \in h .. Len(b), \A k \in h + 1 .. j : b[k] # "end"
  PROVE  /\ At(Filed(b, j), b[h])
         /\ Under(Filed(b, j), b[h]) = SubSeq(b, h + 1, j)
         /\ \A d \in Channels : d # b[h] => Under(Filed(b, j), d) = Under(Filed(b, h - 1), d)
<1> DEFINE c == b[h]
           Inside(k) == /\ At(Filed(b, k), c)
                        /\ Under(Filed(b, k), c) = SubSeq(b, h + 1, k)
                        /\ \A d \in Channels : d # c =>
                             Under(Filed(b, k), d) = Under(Filed(b, h - 1), d)
           S == {k \in Nat : Inside(k)}
<1>1. Len(b) \in Nat /\ h \in Nat /\ j \in Nat
  BY LenProperties DEF Texts
<1>2. h \in S
  <2>1. h - 1 \in 0 .. Len(b)
    BY <1>1
  <2>2. Filed(b, h) = ReadChannel(Filed(b, h - 1), c) /\ Filed(b, h - 1) \in ChanReader
    BY <2>1, FiledIs
  <2>3. SubSeq(b, h + 1, h) = <<>>
    <3>1. h + 1 \in Int /\ h \in Int /\ h < h + 1
      BY <1>1
    <3> QED BY <3>1, SubSeqEmpty
  <2>4. /\ At(ReadChannel(Filed(b, h - 1), c), c)
        /\ Under(ReadChannel(Filed(b, h - 1), c), c) = <<>>
        /\ \A d \in Channels : d # c =>
             Under(ReadChannel(Filed(b, h - 1), c), d) = Under(Filed(b, h - 1), d)
    <3> DEFINE r == Filed(b, h - 1)
    <3>1. c \in Channels /\ Out(r) /\ r \in ChanReader
      BY <2>2
    <3> HIDE DEF r, c, Inside
    <3> QED BY <3>1, ReadOutside DEF r
  <2>5. Inside(h)
    BY <2>2, <2>3, <2>4
  <2> QED BY <1>1, <2>5
<1>3. ASSUME NEW k \in h .. j - 1, k \in S PROVE k + 1 \in S
  <2>1. k \in Nat /\ k + 1 \in 1 .. Len(b) /\ k + 1 \in h + 1 .. j /\ (k + 1) - 1 = k /\ k \in 0 .. Len(b)
        /\ k + 1 \in Nat
    BY <1>1
  <2>2. Filed(b, k + 1) = ReadChannel(Filed(b, k), b[k + 1]) /\ Filed(b, k) \in ChanReader
    <3>1. Filed(b, k + 1) = ReadChannel(Filed(b, (k + 1) - 1), b[k + 1])
      BY <2>1, FiledIs
    <3> QED BY <2>1, <3>1, FiledIs
  <2>3. Inside(k) /\ b[k + 1] # "end"
    BY <1>3, <2>1
  <2>4. SubSeq(b, h + 1, k + 1) = Append(SubSeq(b, h + 1, k), b[k + 1])
    <3>1. h + 1 \in Nat /\ 1 <= h + 1 /\ h + 1 <= k + 1 /\ k + 1 <= Len(b)
      BY <1>1, <2>1
    <3> QED BY <2>1, <3>1, OneMore
  <2> HIDE DEF c
  <2>5. /\ At(ReadChannel(Filed(b, k), b[k + 1]), c)
        /\ Under(ReadChannel(Filed(b, k), b[k + 1]), c) = Append(Under(Filed(b, k), c), b[k + 1])
        /\ \A d \in Channels : d # c =>
             Under(ReadChannel(Filed(b, k), b[k + 1]), d) = Under(Filed(b, k), d)
    <3> DEFINE r == Filed(b, k)
               t == b[k + 1]
    <3>1. c \in Channels /\ At(r, c) /\ r \in ChanReader /\ t # "end"
      BY <2>2, <2>3 DEF c
    <3> HIDE DEF r, t, Inside
    <3>2. /\ At(ReadChannel(r, t), c)
          /\ Under(ReadChannel(r, t), c) = Append(Under(r, c), t)
          /\ \A d \in Channels : d # c => Under(ReadChannel(r, t), d) = Under(r, d)
      BY <3>1, ReadInside
    <3> QED BY <3>2 DEF r, t
  <2>6. Inside(k + 1)
    BY <2>2, <2>3, <2>4, <2>5
  <2> QED BY <2>1, <2>6
<1> HIDE DEF S, c, Inside
<1>4. \A k \in h .. j : k \in S
  BY <1>1, <1>2, <1>3, Climb
<1>5. j \in h .. j
  BY <1>1
<1>6. Inside(j)
  BY <1>4, <1>5 DEF S
<1> QED BY <1>6 DEF Inside, c

----------------------------------------------------------------------------
(***************************************************************************)
(* The channel parser agrees with its reader.                              *)
(***************************************************************************)
\* The end of a channel that is closed: its text is filed, the reader is outside.
LEMMA ChannelClosed ==
  ASSUME NEW b \in Texts, NEW h \in 1 .. Len(b), b[h] \in Channels, Out(Filed(b, h - 1)),
         NEW e \in h + 1 .. Len(b), b[e] = "end", \A k \in h + 1 .. e - 1 : b[k] # "end"
  PROVE  /\ Out(Filed(b, e))
         /\ Under(Filed(b, e), b[h]) = SubSeq(b, h + 1, e - 1)
         /\ \A d \in Channels : d # b[h] => Under(Filed(b, e), d) = Under(Filed(b, h - 1), d)
<1>1. /\ Len(b) \in Nat /\ e \in 1 .. Len(b) /\ e - 1 \in h .. Len(b) /\ e - 1 \in 0 .. Len(b)
  BY LenProperties DEF Texts
<1> DEFINE r == Filed(b, e - 1)
           c == b[h]
           q == Filed(b, e)
<1>2. /\ At(r, c) /\ Under(r, c) = SubSeq(b, h + 1, e - 1)
      /\ \A d \in Channels : d # c => Under(r, d) = Under(Filed(b, h - 1), d)
  BY <1>1, ChannelFiled
<1>3. q = ReadChannel(r, "end") /\ r \in ChanReader
  BY <1>1, FiledIs
<1> HIDE DEF r, c, q
<1>4. c \in Channels
  BY DEF c
<1>5. Out(q) /\ \A d \in Channels : Under(q, d) = Under(r, d)
  BY <1>2, <1>3, <1>4, ReadInside
<1> QED BY <1>2, <1>4, <1>5 DEF r, c, q

\* From where the reader is outside of a channel, the matches that follow make up what
\* has been filed in the end.
Makes(b, i) ==
  \A c \in Channels :
    Under(Filed(b, Len(b)), c) = After(Rest(b)[i], c, Under(Filed(b, i - 1), c))

LEMMA NoneMakes ==
  ASSUME NEW b \in Texts, NEW i \in 1 .. Len(b) + 1, Out(Filed(b, i - 1)), NoMatch(b, i)
  PROVE  Makes(b, i)
<1>1. Len(b) \in Nat /\ i \in Nat /\ i - 1 \in Nat /\ i - 1 <= Len(b) /\ (i - 1) + 1 = i
  BY LenProperties DEF Texts
<1>2. \A k \in i .. Len(b) : b[k] \notin Channels
  <2>1. First(b, Channels, i, Header(b, i))
    BY <1>1, FirstFound DEF Header
  <2> QED BY <1>1, <2>1 DEF First, NoMatch
<1>3. Filed(b, Len(b)) = Filed(b, i - 1)
  BY <1>1, <1>2, NothingFiled
<1>4. Rest(b)[i] = <<>>
  BY <1>1, GptIs
<1> QED BY <1>3, <1>4, AfterNone DEF Makes

LEMMA MatchMakes ==
  ASSUME NEW b \in Texts, NEW i \in 1 .. Len(b) + 1, Out(Filed(b, i - 1)), ~NoMatch(b, i),
         Ending(b, i) # 0 /\ Out(Filed(b, Ending(b, i))) => Makes(b, Ending(b, i) + 1)
  PROVE  Makes(b, i)
<1> DEFINE n == Len(b)
           h == Header(b, i)
           e == Ending(b, i)
           m == Match(b, i)
<1>1. n \in Nat /\ i \in Nat /\ i - 1 \in Nat /\ (i - 1) + 1 = i
  BY LenProperties DEF Texts
<1>2. h \in 1 .. n /\ i <= h /\ m \in Found /\ (e = 0 \/ e \in h + 1 .. n)
  BY <1>1, MatchIs
<1>3. First(b, Channels, i, h)
  BY <1>1, FirstFound DEF Header
<1>4. First(b, {"end"}, h + 1, e)
  <2>1. h + 1 \in Nat
    BY <1>2
  <2> QED BY <2>1, FirstFound DEF Ending
<1>5. Rest(b)[i] = <<m>> \o (IF e = 0 THEN <<>> ELSE Rest(b)[e + 1])
  BY <1>1, GptIs
<1>6. m = [channel |-> b[h], text |-> SubSeq(b, h + 1, IF e = 0 THEN n ELSE e - 1)]
  BY DEF Match
<1> HIDE DEF n, h, e, m
<1>7. h \in i .. n /\ b[h] \in Channels /\ \A k \in i .. h - 1 : b[k] \notin Channels
  BY <1>2, <1>3 DEF First, n
<1>8. Filed(b, h - 1) = Filed(b, i - 1)
  <2>1. h - 1 \in Nat /\ i - 1 <= h - 1 /\ h - 1 <= Len(b)
    BY <1>1, <1>2 DEF n
  <2> QED BY <1>1, <1>7, <2>1, NothingFiled
<1> DEFINE D(c) == Under(Filed(b, i - 1), c)
<1>9. CASE e = 0
  <2>1. \A k \in h + 1 .. n : b[k] # "end"
    BY <1>2, <1>4, <1>9 DEF First, n
  <2>2. /\ Under(Filed(b, n), b[h]) = SubSeq(b, h + 1, n)
        /\ \A d \in Channels : d # b[h] => Under(Filed(b, n), d) = D(d)
    <3>1. n \in h .. n
      BY <1>1, <1>2
    <3> QED BY <1>2, <1>7, <1>8, <2>1, <3>1, ChannelFiled DEF n
  <2>3. \A c \in Channels : Under(Filed(b, n), c) = IF m.channel = c THEN m.text ELSE D(c)
    BY <1>6, <1>9, <2>2
  <2>4. \A c, d : After(Rest(b)[i], c, d) = IF m.channel = c THEN m.text ELSE d
    <3> SUFFICES ASSUME NEW c, NEW d
                 PROVE  After(Rest(b)[i], c, d) = IF m.channel = c THEN m.text ELSE d
      OBVIOUS
    <3>1. Rest(b)[i] = <<m>> \o <<>>
      BY <1>5, <1>9
    <3>2. <<>> \in Seq(Found)
      BY EmptySeq
    <3> DEFINE ns == <<>>
    <3>3. ns \in Seq(Found)
      BY <3>2
    <3> HIDE DEF ns
    <3>4. After(<<m>> \o ns, c, d) = After(ns, c, IF m.channel = c THEN m.text ELSE d)
      BY <1>2, <3>3, AfterMatch
    <3> USE DEF ns
    <3> QED BY <3>1, <3>4, AfterNone
  <2> HIDE DEF D
  <2>5. \A c \in Channels : Under(Filed(b, n), c) = After(Rest(b)[i], c, D(c))
    BY <2>3, <2>4
  <2> QED BY <2>5 DEF Makes, D, n
<1>10. CASE e # 0
  <2>1. e \in h + 1 .. n /\ b[e] = "end" /\ \A k \in h + 1 .. e - 1 : b[k] # "end"
    BY <1>2, <1>4, <1>10 DEF First, n
  <2>2. /\ Out(Filed(b, e)) /\ Under(Filed(b, e), b[h]) = SubSeq(b, h + 1, e - 1)
        /\ \A d \in Channels : d # b[h] => Under(Filed(b, e), d) = D(d)
    BY <1>2, <1>7, <1>8, <2>1, ChannelClosed DEF n
  <2>3. \A c \in Channels : Under(Filed(b, e), c) = IF m.channel = c THEN m.text ELSE D(c)
    BY <1>6, <1>10, <2>2
  <2>4. Makes(b, e + 1)
    BY <1>10, <2>2 DEF e
  <2>5. \A c \in Channels :
          Under(Filed(b, n), c) = After(Rest(b)[e + 1], c, Under(Filed(b, e), c))
    <3>1. (e + 1) - 1 = e
      BY <1>1, <1>2, <1>10
    <3>2. \A c \in Channels :
            Under(Filed(b, n), c) = After(Rest(b)[e + 1], c, Under(Filed(b, (e + 1) - 1), c))
      BY <2>4, Zenon DEF Makes, n
    <3> QED BY <3>1, <3>2
  <2>6. \A c, d : After(Rest(b)[i], c, d)
                    = After(Rest(b)[e + 1], c, IF m.channel = c THEN m.text ELSE d)
    <3> SUFFICES ASSUME NEW c, NEW d
                 PROVE  After(Rest(b)[i], c, d)
                          = After(Rest(b)[e + 1], c, IF m.channel = c THEN m.text ELSE d)
      OBVIOUS
    <3>1. Rest(b)[i] = <<m>> \o Rest(b)[e + 1]
      BY <1>5, <1>10
    <3>2. e + 1 \in Nat
      BY <1>1, <1>2, <1>10
    <3>3. Rest(b)[e + 1] \in Seq(Found)
      BY <3>2, GptIs
    <3> QED BY <1>2, <3>1, <3>3, AfterMatch
  <2> HIDE DEF D
  <2>7. \A c \in Channels : Under(Filed(b, n), c) = After(Rest(b)[i], c, D(c))
    BY <2>3, <2>5, <2>6
  <2> QED BY <2>7 DEF Makes, D, n
<1> QED BY <1>9, <1>10

LEMMA AllMakes ==
  ASSUME NEW b \in Texts, NEW i \in 1 .. Len(b) + 1, Out(Filed(b, i - 1))
  PROVE  Makes(b, i)
<1> DEFINE n == Len(b)
           Bad == {k \in 1 .. n + 1 : Out(Filed(b, k - 1)) /\ ~Makes(b, k)}
           T == {n + 1 - k : k \in Bad}
<1>1. n \in Nat
  BY LenProperties DEF Texts
<1>2. ASSUME T # {} PROVE FALSE
  <2>1. T \subseteq Nat
    <3>1. \A k \in Bad : n + 1 - k \in Nat
      BY <1>1
    <3> QED BY <3>1
  <2>2. PICK d \in T : \A l \in T : d <= l
    BY <2>1, <1>2, LeastOf
  <2>3. PICK k \in Bad : d = n + 1 - k
    BY <2>2
  <2>4. k \in 1 .. Len(b) + 1 /\ Out(Filed(b, k - 1)) /\ ~Makes(b, k) /\ k \in Nat
    BY <1>1, <2>3
  <2>5. ~NoMatch(b, k)
    BY <2>4, NoneMakes
  <2> DEFINE e == Ending(b, k)
  <2>6. e # 0 /\ Out(Filed(b, e)) /\ ~Makes(b, e + 1)
    BY <2>4, <2>5, MatchMakes
  <2>7. Header(b, k) \in 1 .. n /\ k <= Header(b, k) /\ e \in Header(b, k) + 1 .. n
    BY <2>4, <2>5, <2>6, MatchIs
  <2> HIDE DEF e, n, Bad
  <2>8. e \in Nat /\ e + 1 \in 1 .. n + 1 /\ (e + 1) - 1 = e /\ n + 1 - (e + 1) < n + 1 - k
        /\ n + 1 - (e + 1) \in Int /\ n + 1 - k \in Int
    BY <1>1, <2>4, <2>7
  <2>9. e + 1 \in Bad
    BY <2>6, <2>8 DEF Bad
  <2>10. n + 1 - k <= n + 1 - (e + 1)
    BY <2>2, <2>3, <2>9
  <2> QED BY <2>8, <2>10
<1>3. Bad = {}
  BY <1>2
<1> QED BY <1>3

\* The channel parser shows what the reader files, of every text.
LEMMA GptAgrees ==
  ASSUME NEW b \in Texts
  PROVE  Gpt(b) = ReadAll(ReadChannel, b) /\ Gpt(b) \in Shown
<1> DEFINE n == Len(b)
           ms == Rest(b)[1]
<1>1. n \in Nat /\ 1 \in 1 .. n + 1 /\ 1 - 1 = 0 /\ n \in 0 .. n
  BY LenProperties DEF Texts
<1>2. Filed(b, 0) = Reader
  BY FiledIs
<1>3. Out(Reader) /\ \A c : Under(Reader, c) = <<>>
  BY DEF Out, Under, Reader
<1>4. Makes(b, 1)
  BY <1>1, <1>2, <1>3, AllMakes
<1>5. \A c \in Channels : Under(Filed(b, n), c) = After(ms, c, <<>>)
  BY <1>1, <1>2, <1>3, <1>4 DEF Makes
<1>6. GptMatches(b) = ms
  BY GptIs
<1>7. \A c : LastOf(ms, c) = After(ms, c, <<>>)
  BY Zenon DEF LastOf, After, LastAt
<1>8. Gpt(b) = Parts(After(ms, "analysis", <<>>), After(ms, "final", <<>>))
  BY <1>6, <1>7 DEF Gpt
<1> HIDE DEF n, ms
<1>9. Under(Filed(b, n), "analysis") = Filed(b, n).thinking
      /\ Under(Filed(b, n), "final") = Filed(b, n).content
  BY DEF Under
<1>10. Gpt(b) = Parts(Filed(b, n).thinking, Filed(b, n).content)
  BY <1>5, <1>8, <1>9 DEF Channels
<1>11. ReadAll(ReadChannel, b) = Parts(Filed(b, n).thinking, Filed(b, n).content)
  BY FiledIs DEF n
<1>12. Filed(b, n) \in ChanReader
  BY <1>1, FiledIs DEF n
<1>13. Parts(Filed(b, n).thinking, Filed(b, n).content) \in Shown
  BY <1>12 DEF ChanReader, Shown, Parts
<1> QED BY <1>10, <1>11, <1>13

----------------------------------------------------------------------------
(***************************************************************************)
(* The reader of blocks along a text.                                      *)
(***************************************************************************)
\* What a token is to a reader outside of a block, and inside of one.
LEMMA TagOutside ==
  ASSUME NEW r \in TagReader, Out(r), NEW t
  PROVE  LET q == ReadTagged(r, t)
         IN /\ q.thinking = r.thinking
            /\ t = "open" => ~Out(q) /\ q.content = r.content
            /\ t # "open" => Out(q) /\ q.content = Append(r.content, t)
<1>1. CASE t = "open"
  <2>1. ReadTagged(r, t) = [r EXCEPT !.in = "think"]
    BY <1>1 DEF ReadTagged, Out
  <2> QED BY <1>1, <2>1 DEF TagReader, Out
<1>2. CASE t # "open"
  <2>1. ReadTagged(r, t) = [r EXCEPT !.content = Append(@, t)]
    BY <1>2 DEF ReadTagged, Out
  <2> QED BY <1>2, <2>1 DEF TagReader, Out
<1> QED BY <1>1, <1>2

LEMMA TagInside ==
  ASSUME NEW r \in TagReader, ~Out(r), NEW t
  PROVE  LET q == ReadTagged(r, t)
         IN /\ q.content = r.content
            /\ t = "close" => Out(q) /\ q.thinking = r.thinking
            /\ t # "close" => ~Out(q) /\ q.thinking = Append(r.thinking, t)
<1>1. CASE t = "close"
  <2>1. ReadTagged(r, t) = [r EXCEPT !.in = ""]
    BY <1>1 DEF ReadTagged, Out
  <2> QED BY <1>1, <2>1 DEF TagReader, Out
<1>2. CASE t # "close"
  <2>1. ReadTagged(r, t) = [r EXCEPT !.thinking = Append(@, t)]
    BY <1>2 DEF ReadTagged, Out
  <2> QED BY <1>2, <2>1 DEF TagReader, Out
<1> QED BY <1>1, <1>2

\* A text up to the first opening tag is content.
LEMMA PlainRead ==
  ASSUME NEW b \in Texts, NEW j \in 0 .. Len(b), \A k \in 1 .. j : b[k] # "open"
  PROVE  /\ Out(Tagged(b, j)) /\ Tagged(b, j).thinking = <<>>
         /\ Tagged(b, j).content = SubSeq(b, 1, j)
<1> DEFINE Plain(k) == /\ Out(Tagged(b, k)) /\ Tagged(b, k).thinking = <<>>
                       /\ Tagged(b, k).content = SubSeq(b, 1, k)
           S == {k \in Nat : Plain(k)}
<1>1. Len(b) \in Nat /\ j \in Nat /\ 0 \in Nat
  BY LenProperties DEF Texts
<1>2. 0 \in S
  <2>1. Tagged(b, 0) = Reader
    BY TaggedIs
  <2>2. Out(Reader) /\ Reader.thinking = <<>> /\ Reader.content = <<>>
    BY DEF Out, Reader
  <2>3. SubSeq(b, 1, 0) = <<>>
    BY SubSeqEmpty
  <2> QED BY <2>1, <2>2, <2>3
<1>3. ASSUME NEW k \in 0 .. j - 1, k \in S PROVE k + 1 \in S
  <2> DEFINE r == Tagged(b, k)
             q == Tagged(b, k + 1)
             t == b[k + 1]
  <2>1. k \in Nat /\ k \in 0 .. Len(b) /\ k + 1 \in Nat /\ k + 1 \in 1 .. Len(b)
        /\ k + 1 \in 1 .. j /\ (k + 1) - 1 = k
    BY <1>1
  <2>2. q = ReadTagged(r, t) /\ r \in TagReader
    <3>1. q = ReadTagged(Tagged(b, (k + 1) - 1), t)
      BY <2>1, TaggedIs
    <3> QED BY <2>1, <3>1, TaggedIs
  <2>3. Out(r) /\ r.thinking = <<>> /\ r.content = SubSeq(b, 1, k) /\ t # "open"
    BY <1>3, <2>1
  <2> HIDE DEF r, q, t
  <2>4. q.thinking = <<>> /\ Out(q) /\ q.content = Append(SubSeq(b, 1, k), t)
    BY <2>2, <2>3, TagOutside
  <2>5. SubSeq(b, 1, k + 1) = Append(SubSeq(b, 1, k), t)
    <3>1. 1 \in Nat /\ 1 <= 1 /\ 1 <= k + 1 /\ k + 1 <= Len(b)
      BY <1>1, <2>1
    <3> QED BY <2>1, <3>1, OneMore DEF t
  <2>6. Plain(k + 1)
    BY <2>4, <2>5 DEF q
  <2> QED BY <2>1, <2>6
<1> HIDE DEF S, Plain
<1>4. \A k \in 0 .. j : k \in S
  BY <1>1, <1>2, <1>3, Climb
<1>5. Plain(j)
  BY <1>1, <1>4 DEF S
<1> QED BY <1>5 DEF Plain

\* A block is thinking up to its closing tag.
LEMMA BlockRead ==
  ASSUME NEW b \in Texts, NEW h \in 1 .. Len(b), b[h] = "open", Out(Tagged(b, h - 1)),
         Tagged(b, h - 1).thinking = <<>>,
         NEW j \in h .. Len(b), \A k \in h + 1 .. j : b[k] # "close"
  PROVE  /\ ~Out(Tagged(b, j)) /\ Tagged(b, j).thinking = SubSeq(b, h + 1, j)
         /\ Tagged(b, j).content = Tagged(b, h - 1).content
<1> DEFINE y == Tagged(b, h - 1).content
           Block(k) == /\ ~Out(Tagged(b, k)) /\ Tagged(b, k).thinking = SubSeq(b, h + 1, k)
                       /\ Tagged(b, k).content = y
           S == {k \in Nat : Block(k)}
<1>1. Len(b) \in Nat /\ h \in Nat /\ j \in Nat
  BY LenProperties DEF Texts
<1>2. h \in S
  <2> DEFINE r == Tagged(b, h - 1)
             q == Tagged(b, h)
  <2>1. h - 1 \in 0 .. Len(b)
    BY <1>1
  <2>2. q = ReadTagged(r, "open") /\ r \in TagReader /\ Out(r) /\ r.thinking = <<>>
    BY <2>1, TaggedIs
  <2> HIDE DEF q, r
  <2>3. ~Out(q) /\ q.thinking = <<>> /\ q.content = r.content
    BY <2>2, TagOutside
  <2>4. SubSeq(b, h + 1, h) = <<>>
    <3>1. h + 1 \in Int /\ h \in Int /\ h < h + 1
      BY <1>1
    <3> QED BY <3>1, SubSeqEmpty
  <2>5. Block(h)
    BY <2>3, <2>4 DEF q, r
  <2> QED BY <1>1, <2>5
<1> HIDE DEF y
<1>3. ASSUME NEW k \in h .. j - 1, k \in S PROVE k + 1 \in S
  <2> DEFINE r == Tagged(b, k)
             q == Tagged(b, k + 1)
             t == b[k + 1]
  <2>1. k \in Nat /\ k \in 0 .. Len(b) /\ k + 1 \in Nat /\ k + 1 \in 1 .. Len(b)
        /\ k + 1 \in h + 1 .. j /\ (k + 1) - 1 = k
    BY <1>1
  <2>2. q = ReadTagged(r, t) /\ r \in TagReader
    <3>1. q = ReadTagged(Tagged(b, (k + 1) - 1), t)
      BY <2>1, TaggedIs
    <3> QED BY <2>1, <3>1, TaggedIs
  <2>3. ~Out(r) /\ r.thinking = SubSeq(b, h + 1, k) /\ r.content = y /\ t # "close"
    BY <1>3, <2>1
  <2> HIDE DEF r, q, t
  <2>4. q.content = y /\ ~Out(q) /\ q.thinking = Append(SubSeq(b, h + 1, k), t)
    BY <2>2, <2>3, TagInside
  <2>5. SubSeq(b, h + 1, k + 1) = Append(SubSeq(b, h + 1, k), t)
    <3>1. h + 1 \in Nat /\ 1 <= h + 1 /\ h + 1 <= k + 1 /\ k + 1 <= Len(b)
      BY <1>1, <2>1
    <3> QED BY <2>1, <3>1, OneMore DEF t
  <2>6. Block(k + 1)
    BY <2>4, <2>5 DEF q
  <2> QED BY <2>1, <2>6
<1> HIDE DEF S, Block
<1>4. \A k \in h .. j : k \in S
  BY <1>1, <1>2, <1>3, Climb
<1>5. j \in h .. j
  BY <1>1
<1>6. Block(j)
  BY <1>4, <1>5 DEF S
<1> QED BY <1>6 DEF Block, y

\* What has been filed as content stays.
Closes(r) == \E i \in 1 .. Len(r.content) : r.content[i] = "close"

LEMMA ContentStays ==
  ASSUME NEW b \in Texts, NEW j \in 0 .. Len(b), Closes(Tagged(b, j))
  PROVE  Closes(Tagged(b, Len(b)))
<1> DEFINE n == Len(b)
           S == {k \in Nat : Closes(Tagged(b, k))}
<1>1. n \in Nat /\ j \in Nat
  BY LenProperties DEF Texts
<1>2. ASSUME NEW k \in j .. n - 1, k \in S PROVE k + 1 \in S
  <2> DEFINE r == Tagged(b, k)
             q == Tagged(b, k + 1)
             t == b[k + 1]
  <2>1. k \in Nat /\ k \in 0 .. n /\ k + 1 \in Nat /\ k + 1 \in 1 .. n /\ (k + 1) - 1 = k
    BY <1>1
  <2>2. q = ReadTagged(r, t) /\ r \in TagReader /\ t \in STRING
    <3>1. q = ReadTagged(Tagged(b, (k + 1) - 1), t)
      BY <2>1, TaggedIs
    <3> QED BY <2>1, <3>1, TaggedIs, LenProperties DEF Texts
  <2>3. Closes(r)
    BY <1>2
  <2> HIDE DEF r, q, t
  <2>4. q.content = r.content \/ q.content = Append(r.content, t)
    BY <2>2, TagOutside, TagInside
  <2>5. r.content \in Seq(STRING)
    BY <2>2 DEF TagReader, Texts
  <2>6. Closes(q)
    <3>1. CASE q.content = r.content
      BY <2>3, <3>1 DEF Closes
    <3>2. CASE q.content = Append(r.content, t)
      <4> DEFINE x == r.content
      <4>1. PICK i \in 1 .. Len(x) : x[i] = "close"
        BY <2>3 DEF Closes
      <4>2. /\ Len(Append(x, t)) = Len(x) + 1 /\ Len(x) \in Nat
            /\ \A l \in 1 .. Len(x) : Append(x, t)[l] = x[l]
        BY <2>2, <2>5, AppendProperties, LenProperties
      <4>3. i \in 1 .. Len(Append(x, t)) /\ Append(x, t)[i] = "close"
        BY <4>1, <4>2
      <4> QED BY <3>2, <4>3 DEF Closes
    <3> QED BY <2>4, <3>1, <3>2
  <2> QED BY <2>1, <2>6 DEF q
<1>3. j \in S
  BY <1>1
<1> HIDE DEF S
<1>4. \A k \in j .. n : k \in S
  BY <1>1, <1>2, <1>3, Climb
<1>5. n \in j .. n
  BY <1>1
<1> QED BY <1>4, <1>5 DEF S

\* Two readers who read the same from some place on, the first of whom has thought x before.
Ahead(r, q, x) ==
  (Out(r) <=> Out(q)) /\ r.thinking = x \o q.thinking /\ r.content = q.content

LEMMA StaysAhead ==
  ASSUME NEW r \in TagReader, NEW q \in TagReader, NEW x \in Texts, NEW t \in STRING,
         Ahead(r, q, x)
  PROVE  Ahead(ReadTagged(r, t), ReadTagged(q, t), x)
<1>1. Append(x \o q.thinking, t) = x \o Append(q.thinking, t)
  <2> DEFINE y == q.thinking
  <2>1. x \in Seq(STRING) /\ y \in Seq(STRING)
    BY DEF TagReader, Texts
  <2> HIDE DEF y
  <2>2. <<t>> \in Seq(STRING) /\ x \o y \in Seq(STRING)
    BY <2>1, ConcatProperties
  <2>3. Append(x \o y, t) = (x \o y) \o <<t>> /\ Append(y, t) = y \o <<t>>
    BY <2>1, <2>2, AppendIsConcat
  <2>4. (x \o y) \o <<t>> = x \o (y \o <<t>>)
    BY <2>1, <2>2, ConcatAssociative
  <2> QED BY <2>3, <2>4 DEF y
<1> DEFINE u == ReadTagged(r, t)
           v == ReadTagged(q, t)
<1>2. CASE Out(r)
  <2>1. Out(q)
    BY <1>2 DEF Ahead
  <2>2. /\ u.thinking = r.thinking
        /\ t = "open" => ~Out(u) /\ u.content = r.content
        /\ t # "open" => Out(u) /\ u.content = Append(r.content, t)
    BY <1>2, TagOutside
  <2>3. /\ v.thinking = q.thinking
        /\ t = "open" => ~Out(v) /\ v.content = q.content
        /\ t # "open" => Out(v) /\ v.content = Append(q.content, t)
    BY <2>1, TagOutside
  <2> HIDE DEF u, v
  <2>4. Ahead(u, v, x)
    BY <2>2, <2>3 DEF Ahead
  <2> QED BY <2>4 DEF u, v
<1>3. CASE ~Out(r)
  <2>1. ~Out(q)
    BY <1>3 DEF Ahead
  <2>2. /\ u.content = r.content
        /\ t = "close" => Out(u) /\ u.thinking = r.thinking
        /\ t # "close" => ~Out(u) /\ u.thinking = Append(r.thinking, t)
    BY <1>3, TagInside
  <2>3. /\ v.content = q.content
        /\ t = "close" => Out(v) /\ v.thinking = q.thinking
        /\ t # "close" => ~Out(v) /\ v.thinking = Append(q.thinking, t)
    BY <2>1, TagInside
  <2> HIDE DEF u, v
  <2>4. Ahead(u, v, x)
    BY <1>1, <2>2, <2>3 DEF Ahead
  <2> QED BY <2>4 DEF u, v
<1> QED BY <1>2, <1>3

LEMMA AheadToTheEnd ==
  ASSUME NEW b \in Texts, NEW v \in Texts, NEW x \in Texts, NEW p \in 0 .. Len(v), NEW d \in Nat,
         Len(b) = Len(v) + d, \A k \in p + 1 .. Len(v) : v[k] = b[k + d],
         Ahead(Tagged(b, p + d), Tagged(v, p), x)
  PROVE  Ahead(Tagged(b, Len(b)), Tagged(v, Len(v)), x)
<1> DEFINE n == Len(v)
           S == {k \in Nat : Ahead(Tagged(b, k + d), Tagged(v, k), x)}
<1>1. n \in Nat /\ p \in Nat /\ Len(b) \in Nat
  BY LenProperties DEF Texts
<1>2. ASSUME NEW k \in p .. n - 1, k \in S PROVE k + 1 \in S
  <2> DEFINE t == v[k + 1]
             q == Tagged(v, k)
             r == Tagged(b, k + d)
  <2>1. /\ k \in Nat /\ k \in 0 .. n /\ k + 1 \in Nat /\ k + 1 \in 1 .. n /\ (k + 1) - 1 = k
        /\ k + 1 \in p + 1 .. n /\ (k + 1) + d \in 1 .. Len(b) /\ k + d \in 0 .. Len(b)
        /\ ((k + 1) + d) - 1 = k + d
    BY <1>1
  <2>2. Tagged(v, k + 1) = ReadTagged(q, t) /\ q \in TagReader /\ t \in STRING
    <3>1. Tagged(v, k + 1) = ReadTagged(Tagged(v, (k + 1) - 1), t)
      BY <2>1, TaggedIs
    <3> QED BY <2>1, <3>1, TaggedIs, LenProperties DEF Texts
  <2>3. Tagged(b, (k + 1) + d) = ReadTagged(r, t) /\ r \in TagReader
    <3>1. Tagged(b, (k + 1) + d) = ReadTagged(Tagged(b, ((k + 1) + d) - 1), b[(k + 1) + d])
      BY <2>1, TaggedIs
    <3>2. b[(k + 1) + d] = t
      BY <2>1
    <3> QED BY <2>1, <3>1, <3>2, TaggedIs
  <2>4. Ahead(r, q, x)
    BY <1>2
  <2> HIDE DEF r, q, t
  <2>5. Ahead(ReadTagged(r, t), ReadTagged(q, t), x)
    BY <2>2, <2>3, <2>4, StaysAhead
  <2> QED BY <2>1, <2>2, <2>3, <2>5
<1>3. p \in S
  BY <1>1
<1> HIDE DEF S
<1>4. \A k \in p .. n : k \in S
  BY <1>1, <1>2, <1>3, Climb
<1>5. n \in p .. n
  BY <1>1
<1> QED BY <1>4, <1>5 DEF S

----------------------------------------------------------------------------
(***************************************************************************)
(* The thinking parser agrees with its reader.                             *)
(***************************************************************************)
\* Two texts with the same tokens.
LEMMA SameText ==
  ASSUME NEW u \in Texts, NEW v \in Texts, Len(u) = Len(v), \A k \in 1 .. Len(u) : u[k] = v[k]
  PROVE  u = v
BY SeqEqual DEF Texts

\* No closing tag is filed as content.
LEMMA WellTaggedIs ==
  ASSUME NEW b \in Texts
  PROVE  WellTagged(b) <=> ~Closes(Tagged(b, Len(b)))
<1> DEFINE r == Tagged(b, Len(b))
<1>0. ReadAll(ReadTagged, b) = Parts(r.thinking, r.content)
  BY TaggedIs
<1>9. Parts(r.thinking, r.content).content = r.content
  BY DEF Parts
<1>1. ReadAll(ReadTagged, b).content = r.content
  BY <1>0, <1>9, Zenon
<1>2. WellTagged(b) <=> ~Contains(Tagged(b, Len(b)).content, "close")
  BY <1>1, Zenon DEF WellTagged
<1> QED BY <1>2 DEF Contains, Closes

TagsAgree(b) ==
  Qwen[b] = Parts(Tagged(b, Len(b)).thinking, Tagged(b, Len(b)).content)

LEMMA NoTags ==
  ASSUME NEW b \in Texts, Opens(b) = 0
  PROVE  TagsAgree(b)
<1>1. Len(b) \in Nat /\ Len(b) \in 0 .. Len(b)
  BY LenProperties DEF Texts
<1>2. \A k \in 1 .. Len(b) : b[k] # "open"
  <2>1. First(b, {"open"}, 1, 0)
    BY FirstFound DEF Opens
  <2> QED BY <2>1, <1>1 DEF First
<1>3. Tagged(b, Len(b)).thinking = <<>> /\ Tagged(b, Len(b)).content = SubSeq(b, 1, Len(b))
  BY <1>1, <1>2, PlainRead
<1>4. SubSeq(b, 1, Len(b)) = b
  BY SubSeqFull DEF Texts
<1> QED BY <1>3, <1>4, QwenIs DEF TagsAgree

\* Before the first opening tag: no closing one, in a text that is well tagged.
LEMMA BeforeTag ==
  ASSUME NEW b \in Texts, Opens(b) # 0, ~Closes(Tagged(b, Len(b)))
  PROVE  /\ Opens(b) \in 1 .. Len(b) /\ b[Opens(b)] = "open"
         /\ \A k \in 1 .. Opens(b) - 1 : b[k] # "open" /\ b[k] # "close"
         /\ Out(Tagged(b, Opens(b) - 1)) /\ Tagged(b, Opens(b) - 1).thinking = <<>>
         /\ Tagged(b, Opens(b) - 1).content = SubSeq(b, 1, Opens(b) - 1)
<1> DEFINE s == Opens(b)
<1>1. Len(b) \in Nat
  BY LenProperties DEF Texts
<1>2. First(b, {"open"}, 1, s)
  BY FirstFound DEF Opens
<1> HIDE DEF s
<1>3. s \in 1 .. Len(b) /\ b[s] = "open" /\ \A k \in 1 .. s - 1 : b[k] # "open"
  BY <1>2 DEF First, s
<1>4. s - 1 \in 0 .. Len(b) /\ s \in Nat
  BY <1>1, <1>3
<1>5. /\ Out(Tagged(b, s - 1)) /\ Tagged(b, s - 1).thinking = <<>>
      /\ Tagged(b, s - 1).content = SubSeq(b, 1, s - 1)
  BY <1>3, <1>4, PlainRead
<1>6. ~Closes(Tagged(b, s - 1))
  BY <1>4, ContentStays
<1>7. Len(SubSeq(b, 1, s - 1)) = s - 1 /\ \A k \in 1 .. s - 1 : SubSeq(b, 1, s - 1)[k] = b[k]
  <2>1. 1 \in Nat /\ 1 >= 1 /\ s <= Len(b) + 1 /\ 1 <= s
    BY <1>1, <1>3
  <2>2. /\ Len(SubSeq(b, 1, s - 1)) = IF 1 <= s THEN s - 1 ELSE 0
        /\ \A k \in 1 .. s - 1 : SubSeq(b, 1, s - 1)[k] = b[1 + k - 1]
    BY <1>4, <2>1, Between
  <2>3. \A k \in 1 .. s - 1 : 1 + k - 1 = k
    OBVIOUS
  <2> QED BY <2>1, <2>2, <2>3
<1>8. \A k \in 1 .. s - 1 : b[k] # "close"
  BY <1>5, <1>6, <1>7 DEF Closes
<1> QED BY <1>3, <1>5, <1>8 DEF s

LEMMA BlockOpen ==
  ASSUME NEW b \in Texts, Opens(b) # 0, ~Closes(Tagged(b, Len(b))), Stops(b) = Len(b) + 1,
         FirstOf(b, {"close"}, 1) = 0
  PROVE  TagsAgree(b)
<1> DEFINE s == Opens(b)
           n == Len(b)
           v == Without(b, s, Stops(b))
<1>1. n \in Nat /\ s \in 1 .. n /\ b[s] = "open"
  BY BeforeTag, LenProperties DEF Texts
<1>2. /\ Out(Tagged(b, s - 1)) /\ Tagged(b, s - 1).thinking = <<>>
      /\ Tagged(b, s - 1).content = SubSeq(b, 1, s - 1)
      /\ \A k \in 1 .. s - 1 : b[k] # "open"
  BY BeforeTag
<1>3. \A k \in 1 .. n : b[k] # "close"
  <2>1. First(b, {"close"}, 1, 0)
    BY FirstFound
  <2> QED BY <2>1, <1>1 DEF First
<1> HIDE DEF s, n
<1>4. Tagged(b, n).thinking = SubSeq(b, s + 1, n) /\ Tagged(b, n).content = SubSeq(b, 1, s - 1)
  <2>1. n \in s .. Len(b) /\ \A k \in s + 1 .. n : b[k] # "close"
    BY <1>1, <1>3 DEF n
  <2>2. s \in 1 .. Len(b)
    BY <1>1 DEF n
  <2> QED BY <1>1, <1>2, <2>1, <2>2, BlockRead
<1>5. /\ v \in Texts /\ Len(v) = s - 1 /\ \A k \in 1 .. s - 1 : v[k] = b[k]
  <2>1. Stops(b) \in s .. Len(b) + 1 /\ ~(Stops(b) <= Len(b)) /\ s \in 1 .. Len(b)
    BY <1>1 DEF n
  <2> QED BY <2>1, WithoutIs
<1>6. v = SubSeq(b, 1, s - 1)
  <2> DEFINE u == SubSeq(b, 1, s - 1)
  <2>1. s \in Nat /\ 1 \in Nat /\ 1 >= 1 /\ s <= Len(b) + 1 /\ 1 <= s
    BY <1>1 DEF n
  <2>2. /\ u \in Texts /\ Len(u) = IF 1 <= s THEN s - 1 ELSE 0
        /\ \A k \in 1 .. s - 1 : u[k] = b[1 + k - 1]
    BY <2>1, Between
  <2> HIDE DEF u, v
  <2>3. \A k \in 1 .. s - 1 : 1 + k - 1 = k
    OBVIOUS
  <2>4. Len(u) = Len(v) /\ \A k \in 1 .. Len(u) : u[k] = v[k]
    BY <1>5, <2>1, <2>2, <2>3
  <2>5. u = v
    BY <1>5, <2>2, <2>4, SameText
  <2> QED BY <2>5 DEF u
<1> HIDE DEF v
<1>7. Opens(v) = 0
  <2>1. First(v, {"open"}, 1, Opens(v))
    BY <1>5, FirstFound DEF Opens
  <2>2. s - 1 \in Nat
    BY <1>1
  <2> QED BY <1>2, <1>5, <2>1, <2>2 DEF First
<1>8. Qwen[v] = Parts(<<>>, v)
  BY <1>5, <1>7, QwenIs
<1>9. Qwen[b] = Parts(Cuts(b) \o <<>>, v)
  <2>1. Qwen[b] = Parts(Cuts(b) \o Qwen[v].thinking, Qwen[v].content)
    BY QwenIs DEF v, s
  <2> QED BY <1>8, <2>1 DEF Parts
<1>10. Cuts(b) = SubSeq(b, s + 1, n)
  <2>1. Stops(b) - 1 = n
    BY <1>1 DEF n
  <2> QED BY <2>1 DEF Cuts, s
<1>11. Cuts(b) \o <<>> = Cuts(b)
  BY CutOut, ConcatEmptySeq DEF Texts
<1> QED BY <1>4, <1>6, <1>9, <1>10, <1>11 DEF TagsAgree, n

LEMMA BlockClosed ==
  ASSUME NEW b \in Texts, Opens(b) # 0, ~Closes(Tagged(b, Len(b))), Stops(b) <= Len(b),
         Stops(b) = FirstOf(b, {"close"}, 1),
         NEW v, v = Without(b, Opens(b), Stops(b)),
         ~Closes(Tagged(v, Len(v))) => TagsAgree(v)
  PROVE  TagsAgree(b)
<1> DEFINE s == Opens(b)
           t == Stops(b)
           n == Len(b)
           x == Cuts(b)
           d == t - s + 1
<1>1. n \in Nat /\ s \in 1 .. n /\ b[s] = "open"
  BY BeforeTag, LenProperties DEF Texts
<1>2. /\ Out(Tagged(b, s - 1)) /\ Tagged(b, s - 1).thinking = <<>>
      /\ Tagged(b, s - 1).content = SubSeq(b, 1, s - 1)
      /\ \A k \in 1 .. s - 1 : b[k] # "open"
  BY BeforeTag
<1>3. t \in s + 1 .. n /\ x \in Texts /\ v \in Texts
  BY CutOut
<1>4. b[t] = "close" /\ \A k \in 1 .. t - 1 : b[k] # "close"
  <2>1. First(b, {"close"}, 1, t)
    BY FirstFound
  <2> HIDE DEF t
  <2> QED BY <2>1, <1>1, <1>3 DEF First
<1> HIDE DEF s, t, n
<1>5. /\ ~Out(Tagged(b, t - 1)) /\ Tagged(b, t - 1).thinking = SubSeq(b, s + 1, t - 1)
      /\ Tagged(b, t - 1).content = Tagged(b, s - 1).content
  <2>1. t - 1 \in s .. Len(b) /\ \A k \in s + 1 .. t - 1 : b[k] # "close"
    BY <1>1, <1>3, <1>4 DEF n
  <2>2. s \in 1 .. Len(b)
    BY <1>1 DEF n
  <2> QED BY <1>1, <1>2, <2>1, <2>2, BlockRead
<1>6. x = SubSeq(b, s + 1, t - 1)
  BY DEF Cuts, s, t
<1> HIDE DEF x
<1>7. /\ Out(Tagged(b, t)) /\ Tagged(b, t).thinking = x
      /\ Tagged(b, t).content = Tagged(b, s - 1).content
  <2> DEFINE r == Tagged(b, t - 1)
             q == Tagged(b, t)
  <2>1. t \in 1 .. Len(b) /\ t - 1 \in 0 .. Len(b)
    BY <1>1, <1>3 DEF n
  <2>2. q = ReadTagged(r, "close") /\ r \in TagReader
    BY <1>4, <2>1, TaggedIs
  <2>3. ~Out(r) /\ r.thinking = x /\ r.content = Tagged(b, s - 1).content
    BY <1>5, <1>6
  <2> HIDE DEF r, q
  <2>4. Out(q) /\ q.content = r.content /\ q.thinking = r.thinking
    BY <2>2, <2>3, TagInside
  <2> QED BY <2>3, <2>4 DEF q
<1>8. /\ Len(v) = s - 1 + n - t /\ \A k \in 1 .. s - 1 : v[k] = b[k]
      /\ \A k \in s .. Len(v) : v[k] = b[k + t - s + 1]
  <2>1. s \in 1 .. Len(b) /\ t \in s .. Len(b) + 1 /\ t <= Len(b)
    BY <1>1, <1>3 DEF n
  <2>2. v = Without(b, s, t)
    BY DEF s, t
  <2> DEFINE w == Without(b, s, t)
  <2>3. /\ w \in Texts /\ Len(w) = (IF t <= Len(b) THEN s - 1 + Len(b) - t ELSE s - 1)
        /\ \A k \in 1 .. s - 1 : w[k] = b[k]
        /\ \A k \in s .. Len(w) : w[k] = b[k + t - s + 1]
    BY <2>1, WithoutIs
  <2> HIDE DEF w
  <2>4. v = w
    BY <2>2 DEF w
  <2> QED BY <2>1, <2>3, <2>4 DEF n
<1>9. s - 1 \in 0 .. Len(v) /\ d \in Nat /\ n = Len(v) + d /\ Len(v) \in Nat /\ (s - 1) + 1 = s
      /\ (s - 1) + d = t
  BY <1>1, <1>3, <1>8
<1>10. \A k \in (s - 1) + 1 .. Len(v) : v[k] = b[k + d]
  <2>1. ASSUME NEW k \in s .. Len(v) PROVE k + t - s + 1 = k + d
    BY <1>1, <1>3
  <2> HIDE DEF d
  <2> QED BY <1>8, <1>9, <2>1
<1> HIDE DEF d
<1>11. /\ Out(Tagged(v, s - 1)) /\ Tagged(v, s - 1).thinking = <<>>
       /\ Tagged(v, s - 1).content = SubSeq(v, 1, s - 1)
  <2>1. \A k \in 1 .. s - 1 : v[k] # "open"
    BY <1>2, <1>8
  <2> QED BY <1>3, <1>9, <2>1, PlainRead
<1>12. SubSeq(v, 1, s - 1) = SubSeq(b, 1, s - 1)
  <2> DEFINE u == SubSeq(b, 1, s - 1)
             w == SubSeq(v, 1, s - 1)
  <2>1. s \in Nat /\ 1 \in Nat /\ 1 >= 1 /\ s <= Len(b) + 1 /\ 1 <= s /\ s <= Len(v) + 1
    BY <1>1, <1>9 DEF n
  <2>2. /\ u \in Texts /\ Len(u) = IF 1 <= s THEN s - 1 ELSE 0
        /\ \A k \in 1 .. s - 1 : u[k] = b[1 + k - 1]
    BY <2>1, Between
  <2>3. /\ w \in Texts /\ Len(w) = IF 1 <= s THEN s - 1 ELSE 0
        /\ \A k \in 1 .. s - 1 : w[k] = v[1 + k - 1]
    BY <1>3, <2>1, Between
  <2> HIDE DEF u, w
  <2>4. \A k \in 1 .. s - 1 : 1 + k - 1 = k
    OBVIOUS
  <2>5. Len(u) = Len(w) /\ \A k \in 1 .. Len(u) : u[k] = w[k]
    BY <1>8, <2>1, <2>2, <2>3, <2>4
  <2>6. u = w
    BY <2>2, <2>3, <2>5, SameText
  <2> QED BY <2>6 DEF u, w
<1>13. x \o <<>> = x
  BY <1>3, ConcatEmptySeq DEF Texts
<1>14. Ahead(Tagged(b, (s - 1) + d), Tagged(v, s - 1), x)
  BY <1>2, <1>7, <1>9, <1>11, <1>12, <1>13 DEF Ahead
<1>15. Ahead(Tagged(b, n), Tagged(v, Len(v)), x)
  BY <1>3, <1>9, <1>10, <1>14, AheadToTheEnd DEF n
<1>16. ~Closes(Tagged(v, Len(v)))
  BY <1>15 DEF Ahead, Closes, n
<1>17. Qwen[v] = Parts(Tagged(v, Len(v)).thinking, Tagged(v, Len(v)).content)
  BY <1>16 DEF TagsAgree
<1>18. Qwen[b] = Parts(x \o Qwen[v].thinking, Qwen[v].content)
  BY QwenIs DEF x
<1>19. Qwen[b] = Parts(x \o Tagged(v, Len(v)).thinking, Tagged(v, Len(v)).content)
  BY <1>17, <1>18 DEF Parts
<1> QED BY <1>15, <1>19 DEF Ahead, TagsAgree, n

\* The thinking parser shows what the reader files, of every text that is well tagged.
LEMMA QwenAgrees ==
  ASSUME NEW b \in Texts, WellTagged(b)
  PROVE  Qwen[b] = ReadAll(ReadTagged, b)
<1> DEFINE Bad == {a \in Texts : ~Closes(Tagged(a, Len(a))) /\ ~TagsAgree(a)}
           T == {Len(a) : a \in Bad}
<1>1. ASSUME T # {} PROVE FALSE
  <2>1. T \subseteq Nat
    BY LenProperties DEF Texts
  <2>2. PICK k \in T : \A l \in T : k <= l
    BY <2>1, <1>1, LeastOf
  <2>3. PICK a \in Bad : k = Len(a)
    BY <2>2
  <2>4. a \in Texts /\ ~Closes(Tagged(a, Len(a))) /\ ~TagsAgree(a)
    OBVIOUS
  <2>5. Opens(a) # 0
    BY <2>4, NoTags
  <2> DEFINE v == Without(a, Opens(a), Stops(a))
             c == FirstOf(a, {"close"}, 1)
  <2>6. v \in Texts /\ Len(v) < Len(a) /\ Len(v) \in Nat /\ Len(a) \in Nat
    BY <2>4, <2>5, CutOut, LenProperties DEF Texts
  <2>7. First(a, {"close"}, 1, c)
    BY <2>4, FirstFound
  <2>8. Stops(a) = IF c > Opens(a) THEN c ELSE Len(a) + 1
    BY DEF Stops
  <2>9. /\ Opens(a) \in 1 .. Len(a) /\ a[Opens(a)] = "open"
        /\ \A l \in 1 .. Opens(a) - 1 : a[l] # "close"
    BY <2>4, <2>5, BeforeTag
  <2> HIDE DEF v, c, Bad
  <2>10. c = 0 \/ c > Opens(a)
    <3>1. c = 0 \/ (c \in 1 .. Len(a) /\ a[c] = "close")
      BY <2>7 DEF First
    <3> QED BY <2>6, <2>9, <3>1
  <2>11. ~Closes(Tagged(v, Len(v))) => TagsAgree(v)
    <3>1. v \notin Bad
      BY <2>2, <2>3, <2>6
    <3> QED BY <2>6, <3>1 DEF Bad
  <2>12. CASE c = 0
    <3>1. Stops(a) = Len(a) + 1
      BY <2>8, <2>9, <2>12
    <3> QED BY <2>4, <2>5, <2>12, <3>1, BlockOpen DEF c
  <2>13. CASE c # 0
    <3>1. Stops(a) = c /\ c \in 1 .. Len(a)
      BY <2>7, <2>8, <2>10, <2>13 DEF First
    <3>2. Stops(a) <= Len(a)
      BY <2>6, <3>1
    <3> QED BY <2>4, <2>5, <2>11, <3>1, <3>2, BlockClosed DEF c, v
  <2> QED BY <2>12, <2>13
<1>2. TagsAgree(b)
  BY <1>1, WellTaggedIs
<1> QED BY <1>2, TaggedIs DEF TagsAgree

----------------------------------------------------------------------------
\* Both parsers of chat-helper.tsx file every text, cut off anywhere, as the reader does:
\* the channel parser any text, the thinking parser those in which no closing tag
\* stands outside of a block.
THEOREM ParsersAlwaysAgree == ParsersAgree(Texts)
BY GptAgrees, QwenAgrees DEF ParsersAgree
=============================================================================
