-------------------------- MODULE BlockCacheProofs --------------------------
(***************************************************************************)
(* Proofs about the cache of module BlockCache: its four invariants hold   *)
(* for every number of blocks and slots, every block size, every set of    *)
(* requests and prompts, with and without the prefix cache.                *)
(*                                                                         *)
(* The inductive invariant CacheInv says who owns each block.  Eviction    *)
(* and displacement leave nodes behind that a request still holds and      *)
(* whose blocks may be free again or another's, so the tree does not own   *)
(* the blocks of all its nodes: there is a set L of live nodes, closed     *)
(* upwards and downwards along the links, whose blocks are theirs alone    *)
(* and hold the keys and values of the prefix the node stands for.  A      *)
(* request owns the positions of its table that are not the blocks of the  *)
(* path it holds, and nobody owns a free block.                            *)
(*                                                                         *)
(* A call is a loop over the blocks of a path, a table or a batch.  Two    *)
(* lemmas stand for the induction over the rounds: LoopRuns, that the      *)
(* recursive function of operator After exists, and LoopKeeps, that what   *)
(* each round keeps holds at the end.                                      *)
(***************************************************************************)
EXTENDS BlockCache, FiniteSetTheorems, SequenceTheorems, WellFoundedInduction, TLAPS

----------------------------------------------------------------------------
(* Loops *)
\* The rounds of a loop that starts with x: F[i] is what the i-th makes of a state, W[i] a
\* set the states after it are in.
IsLoop(g, F, n, W, x) ==
  /\ g = [i \in 0 .. n |-> g[i]] /\ g[0] = x
  /\ \A i \in 1 .. n : g[i - 1] \in W[i - 1] /\ g[i] = F[i][g[i - 1]]
\* What the rounds of a loop make of x exists.
LEMMA LoopRuns ==
  ASSUME NEW n, n \in Nat, NEW W, NEW x, x \in W[0], NEW F,
         \A i \in 1 .. n : \A s \in W[i - 1] : F[i][s] \in W[i]
  PROVE  \E g : IsLoop(g, F, n, W, x)
<1> DEFINE R == {p \in Nat \X Nat : p[1] < p[2]}
           Runs(k) == \E g : IsLoop(g, F, k, W, x) /\ g[k] \in W[k]
           T == {k \in 0 .. n : ~Runs(k)}
<1>1. ASSUME T # {} PROVE FALSE
  <2>1. IsWellFoundedOn(R, Nat)
    BY NatLessThanWellFounded DEF OpToRel
  <2>2. PICK k \in T : \A l \in T : ~(<<l, k>> \in R)
    <3> HIDE DEF R, Runs
    <3>1. T \subseteq Nat
      OBVIOUS
    <3> QED BY <3>1, <1>1, <2>1, WFMin
  <2>3. k # 0
    <3>1. ASSUME k = 0 PROVE FALSE
      <4> DEFINE g == [i \in 0 .. 0 |-> x]
      <4>1. g = [i \in 0 .. 0 |-> g[i]] /\ g[0] = x
        OBVIOUS
      <4> HIDE DEF g
      <4>2. IsLoop(g, F, 0, W, x) /\ g[0] \in W[0]
        BY <4>1 DEF IsLoop
      <4> QED BY <4>2, <3>1, <2>2
    <3> QED BY <3>1
  <2>4. k \in 1 .. n /\ k - 1 \in 0 .. n /\ k - 1 < k
    BY <2>2, <2>3
  <2>5. Runs(k - 1)
    <3>1. <<k - 1, k>> \in R
      BY <2>4
    <3> HIDE DEF R, Runs
    <3> QED BY <3>1, <2>2, <2>4
  <2>6. PICK g : IsLoop(g, F, k - 1, W, x) /\ g[k - 1] \in W[k - 1]
    BY <2>5
  <2> DEFINE f == [i \in 0 .. k |-> IF i = k THEN F[k][g[k - 1]] ELSE g[i]]
  <2>7. f = [i \in 0 .. k |-> f[i]] /\ f[0] = x
    BY <2>4, <2>6 DEF IsLoop
  <2>8. f[k] = F[k][g[k - 1]] /\ \A i \in 0 .. (k - 1) : f[i] = g[i]
    BY <2>4
  <2> HIDE DEF f
  <2>9. f[k] \in W[k]
    BY <2>4, <2>6, <2>8
  <2>10. ASSUME NEW i \in 1 .. k PROVE f[i - 1] \in W[i - 1] /\ f[i] = F[i][f[i - 1]]
    <3>1. f[i - 1] = g[i - 1]
      BY <2>4, <2>8
    <3>2. CASE i = k
      BY <3>1, <3>2, <2>6, <2>8
    <3>3. CASE i # k
      <4>1. i \in 1 .. (k - 1) /\ f[i] = g[i]
        BY <3>3, <2>4, <2>8
      <4> QED BY <4>1, <3>1, <2>6 DEF IsLoop
    <3> QED BY <3>2, <3>3
  <2>11. IsLoop(f, F, k, W, x)
    BY <2>7, <2>10 DEF IsLoop
  <2> QED BY <2>9, <2>11, <2>2
<1>2. Runs(n)
  BY <1>1
<1> QED BY <1>2

\* What holds at the start of a loop and is kept by each round holds at its end.
LEMMA LoopKeeps ==
  ASSUME NEW n \in Nat, NEW g, NEW S, g[0] \in S[0],
         \A i \in 1 .. n : g[i - 1] \in S[i - 1] => g[i] \in S[i]
  PROVE  g[n] \in S[n]
<1> DEFINE R == {p \in Nat \X Nat : p[1] < p[2]}
           T == {k \in 0 .. n : g[k] \notin S[k]}
<1>1. ASSUME T # {} PROVE FALSE
  <2>1. IsWellFoundedOn(R, Nat)
    BY NatLessThanWellFounded DEF OpToRel
  <2>2. PICK k \in T : \A l \in T : ~(<<l, k>> \in R)
    <3> HIDE DEF R
    <3>1. T \subseteq Nat
      OBVIOUS
    <3> QED BY <3>1, <1>1, <2>1, WFMin
  <2>3. k \in 1 .. n /\ k - 1 \in 0 .. n /\ k - 1 < k
    BY <2>2
  <2>4. <<k - 1, k>> \in R
    BY <2>3
  <2> HIDE DEF R
  <2>5. k - 1 \notin T
    BY <2>2, <2>4
  <2> QED BY <2>2, <2>3, <2>5
<1>2. n \in 0 .. n
  OBVIOUS
<1> QED BY <1>1, <1>2

\* A block that is given back joins the stack.
LEMMA GivesBack ==
  ASSUME NEW g \in Seq(Blocks), IsInjective(g), NEW b \in Blocks
  PROVE  /\ GiveBack(g, b) \in Seq(Blocks) /\ IsInjective(GiveBack(g, b))
         /\ ToSet(GiveBack(g, b)) = ToSet(g) \cup {b}
<1>1. CASE Contains(g, b)
  BY <1>1 DEF GiveBack, ToSet, Contains
<1>2. CASE ~Contains(g, b)
  <2> DEFINE h == Append(g, b)
  <2>1. /\ h \in Seq(Blocks) /\ Len(h) = Len(g) + 1 /\ DOMAIN h = 1 .. Len(h)
        /\ h[Len(g) + 1] = b /\ \A i \in 1 .. Len(g) : h[i] = g[i]
        /\ Len(g) \in Nat /\ DOMAIN g = 1 .. Len(g)
    OBVIOUS
  <2> HIDE DEF h
  <2>2. \A i \in 1 .. Len(g) : g[i] # b
    BY <1>2 DEF Contains
  <2>3. IsInjective(h)
    BY <2>1, <2>2 DEF IsInjective
  <2>4. ToSet(h) = ToSet(g) \cup {b}
    BY <2>1 DEF ToSet
  <2> QED BY <2>1, <2>3, <2>4, <1>2 DEF GiveBack, h
<1> QED BY <1>1, <1>2

\* The blocks that are given back join the stack, the others do not.
LEMMA FreedBlocks ==
  ASSUME NEW f \in Seq(Blocks), IsInjective(f), NEW bs \in Seq(Blocks), NEW K
  PROVE  /\ Freed(f, bs, K) \in Seq(Blocks) /\ IsInjective(Freed(f, bs, K))
         /\ ToSet(Freed(f, bs, K)) = ToSet(f) \cup (ToSet(bs) \ K)
<1> DEFINE Round(g, i) == IF bs[i] \in K THEN g ELSE GiveBack(g, bs[i])
           n == Len(bs)
           S == {g \in Seq(Blocks) : IsInjective(g)}
           W == [i \in 0 .. n |->
                  {g \in S : ToSet(g) = ToSet(f) \cup ({bs[j] : j \in 1 .. i} \ K)}]
           F == [i \in 1 .. n |-> [g \in W[i - 1] |-> Round(g, i)]]
           after == CHOOSE g : g = [i \in 0 .. n |-> IF i = 0 THEN f ELSE Round(g[i - 1], i)]
<1>1. n \in Nat /\ DOMAIN bs = 1 .. n /\ 0 \in 0 .. n /\ n \in 0 .. n
      /\ \A i \in 1 .. n : i \in 0 .. n /\ i # 0 /\ i - 1 \in 0 .. n
  OBVIOUS
<1>2. f \in W[0]
  <2>1. {bs[j] : j \in 1 .. 0} = {}
    OBVIOUS
  <2> HIDE DEF n
  <2> QED BY <1>1, <2>1
<1>3. ASSUME NEW i \in 1 .. n, NEW g \in W[i - 1] PROVE Round(g, i) \in W[i]
  <2> HIDE DEF n
  <2>0. bs[i] \in Blocks
    BY <1>1 DEF n
  <2>1. W[i] = {h \in S : ToSet(h) = ToSet(f) \cup ({bs[j] : j \in 1 .. i} \ K)}
    BY <1>1
  <2>2. g \in S /\ ToSet(g) = ToSet(f) \cup ({bs[j] : j \in 1 .. (i - 1)} \ K)
    BY <1>1
  <2>3. {bs[j] : j \in 1 .. i} = {bs[j] : j \in 1 .. (i - 1)} \cup {bs[i]}
    BY <1>1
  <2>4. Round(g, i) \in S /\ ToSet(Round(g, i)) = ToSet(g) \cup ({bs[i]} \ K)
    <3>1. CASE bs[i] \in K
      BY <3>1, <2>2
    <3>2. CASE bs[i] \notin K
      <4>1. Round(g, i) = GiveBack(g, bs[i])
        BY <3>2
      <4>2. g \in Seq(Blocks) /\ IsInjective(g)
        BY <2>2
      <4>3. GiveBack(g, bs[i]) \in S /\ ToSet(GiveBack(g, bs[i])) = ToSet(g) \cup {bs[i]}
        BY <4>2, <2>0, GivesBack
      <4>4. {bs[i]} \ K = {bs[i]}
        BY <3>2
      <4> HIDE DEF Round, S
      <4> QED BY <4>1, <4>3, <4>4
    <3> QED BY <3>1, <3>2
  <2> HIDE DEF W, S, Round, n
  <2>5. ToSet(Round(g, i)) = ToSet(f) \cup ({bs[j] : j \in 1 .. i} \ K)
    BY <2>2, <2>3, <2>4
  <2> QED BY <2>1, <2>4, <2>5
<1>4. Freed(f, bs, K) = after[n]
  BY DEF Freed, After
<1> HIDE DEF n, Round
<1>5. \A i \in 1 .. n : \A g \in W[i - 1] : F[i][g] = Round(g, i)
  OBVIOUS
<1> HIDE DEF F, W
<1>6. PICK run : IsLoop(run, F, n, W, f)
  BY <1>1, <1>2, <1>3, <1>5, LoopRuns
<1>7. run = [i \in 0 .. n |-> IF i = 0 THEN f ELSE Round(run[i - 1], i)]
  <2>1. ASSUME NEW i \in 0 .. n PROVE run[i] = IF i = 0 THEN f ELSE Round(run[i - 1], i)
    <3>1. i = 0 \/ i \in 1 .. n
      BY <1>1
    <3> QED BY <3>1, <1>1, <1>5, <1>6 DEF IsLoop
  <2> QED BY <2>1, <1>6 DEF IsLoop
<1>8. after = [i \in 0 .. n |-> IF i = 0 THEN f ELSE Round(after[i - 1], i)]
  BY <1>7, Zenon
<1> HIDE DEF after
<1>9. after[0] = f /\ \A i \in 1 .. n : after[i] = Round(after[i - 1], i)
  BY <1>1, <1>8
<1>10. after[n] \in W[n]
  <2>1. after[0] \in W[0] /\ \A i \in 1 .. n : after[i - 1] \in W[i - 1] => after[i] \in W[i]
    BY <1>2, <1>3, <1>9
  <2> QED BY <1>1, <2>1, LoopKeeps
<1>11. W[n] = {g \in S : ToSet(g) = ToSet(f) \cup (ToSet(bs) \ K)}
  <2>1. ToSet(bs) = {bs[j] : j \in 1 .. n}
    BY <1>1 DEF ToSet
  <2> QED BY <2>1, <1>1 DEF W
<1> QED BY <1>4, <1>10, <1>11

----------------------------------------------------------------------------
(* The invariant, of a tree t, a free stack f, the paths h that are held, the nodes L
   whose blocks the tree owns, the tables tb, the contents ct and the written requests
   w. *)
Token == UNION {ToSet(Prompt[r]) : r \in Requests}
Key == {s \in Seq(Token) : Len(s) = BlockSize}
Node == [tokens : Key, block : Blocks, parent : Nat, lock : Nat, linked : BOOLEAN,
         age : Nat]

Tree(t) ==
  /\ t \in [DOMAIN t -> Node] /\ IsFiniteSet(DOMAIN t) /\ DOMAIN t \subseteq Nat \ {Root}
  /\ \A n \in DOMAIN t : t[n].parent \in DOMAIN t \cup {Root}
  /\ \A m, n \in DOMAIN t : t[m].age = t[n].age => m = n

Path(h, r) == IF r \in DOMAIN h THEN h[r] ELSE <<>>

\* Live nodes: the blocks are theirs alone, and hold what the path to the node spells.
Live(t, f, L, ct) ==
  /\ L \subseteq DOMAIN t
  /\ \A n \in DOMAIN t : t[n].linked => (n \in L <=> t[n].parent \in L \cup {Root})
  /\ \A m, n \in L : t[m].block = t[n].block => m = n
  /\ \A n \in L : /\ t[n].block \notin ToSet(f)
                  /\ ct[t[n].block] \in Seq(Token) /\ Len(ct[t[n].block]) <= MaxLength
                  /\ t[n].linked =>
                       ct[t[n].block] = (IF t[n].parent = Root THEN <<>>
                                         ELSE ct[t[t[n].parent].block]) \o t[n].tokens

\* A path spells the prompt of r, and its live nodes hold its keys and values.
Spells(t, p, r, L, ct) ==
  /\ p \in Seq(DOMAIN t) /\ Len(p) <= Full(r)
  /\ \A i \in DOMAIN p :
       /\ t[p[i]].tokens = Tokens(r, i)
       /\ t[p[i]].parent = IF i = 1 THEN Root ELSE p[i - 1]
       /\ p[i] \in L => ct[t[p[i]].block] = KV(r, i)
Paths(t, h, L, ct) ==
  DOMAIN h \subseteq Requests /\ \A r \in DOMAIN h : Spells(t, h[r], r, L, ct)

\* The positions of a table whose blocks are not those of the held path: r's own.
Own(t, h, tb, r) ==
  {i \in DOMAIN tb[r] : i <= Len(Path(h, r)) => tb[r][i] # t[Path(h, r)[i]].block}
Owned(t, f, h, L, tb, ct, w) ==
  /\ DOMAIN tb \subseteq Requests
  /\ \A r \in DOMAIN tb : tb[r] \in Seq(Blocks) /\ Full(r) <= Len(tb[r])
  /\ \A r \in DOMAIN tb : \A i \in Own(t, h, tb, r) :
       /\ tb[r][i] \notin ToSet(f) /\ \A n \in L : t[n].block # tb[r][i]
       /\ \A q \in DOMAIN tb : \A j \in Own(t, h, tb, q) : tb[q][j] = tb[r][i] => q = r /\ j = i
       /\ r \in w => ct[tb[r][i]] = KV(r, i)
  /\ \A r \in DOMAIN tb \ w : \A i \in DOMAIN Path(h, r) : tb[r][i] = t[Path(h, r)[i]].block

\* As long as nothing was evicted or displaced.
Intact(t, f, L, tb) ==
  /\ L = DOMAIN t /\ \A n \in L : t[n].linked
  /\ \A b \in Blocks : \/ b \in ToSet(f) \/ \E n \in L : t[n].block = b
                       \/ \E r \in DOMAIN tb : b \in ToSet(tb[r])

Sound(t, f, h, L, tb, ct, w, wh) ==
  /\ Tree(t) /\ Live(t, f, L, ct) /\ Paths(t, h, L, ct) /\ Owned(t, f, h, L, tb, ct, w)
  /\ wh => Intact(t, f, L, tb)

\* Each request has the blocks that its context needs.
Tables(tb, c) ==
  /\ DOMAIN tb = DOMAIN c /\ DOMAIN tb \subseteq Requests
  /\ \A r \in DOMAIN tb :
       /\ tb[r] \in Seq(Blocks) /\ c[r] \in Len(Prompt[r]) .. MaxLength
       /\ Len(tb[r]) = BlocksFor(c[r])

Counts ==
  /\ free \in Seq(Blocks) /\ IsInjective(free)
  /\ slotted \subseteq Requests /\ IsFiniteSet(slotted) /\ Cardinality(slotted) <= NumSlots
  /\ cached \in Nat /\ up \in BOOLEAN /\ whole \in BOOLEAN
  /\ holds = [r \in DOMAIN holds |-> holds[r]]
  /\ DOMAIN content = Blocks /\ written \subseteq DOMAIN table
  /\ up => DOMAIN holds \subseteq DOMAIN table

CacheInv ==
  /\ Counts /\ Tables(table, context)
  /\ \E L \in SUBSET DOMAIN tree : Sound(tree, free, holds, L, table, content, written, whole)

----------------------------------------------------------------------------
(* Prompts and blocks *)
LEMMA Division ==
  ASSUME NEW a \in Nat, NEW b \in Nat \ {0}
  PROVE  /\ a \div b \in Nat /\ a % b \in 0 .. (b - 1) /\ a = b * (a \div b) + (a % b)
         /\ \A q \in Nat : b * q <= a => q <= a \div b
         /\ \A q \in Nat : a < b * (q + 1) => a \div b <= q
<1>1. a \div b \in Nat /\ a % b \in 0 .. (b - 1) /\ a = b * (a \div b) + (a % b)
  BY SMT
<1>2. ASSUME NEW q \in Nat, NEW p \in Nat, q < p
      PROVE  b * (q + 1) <= b * p
  <2>1. PICK d \in Nat : p = q + 1 + d
    <3>1. p - (q + 1) \in Nat /\ p = q + 1 + (p - (q + 1))
      BY <1>2
    <3> QED BY <3>1
  <2>2. b * p = b * (q + 1) + b * d /\ b * d \in Nat
    BY <2>1
  <2> QED BY <2>2
<1>3. ASSUME NEW q \in Nat, b * q <= a PROVE q <= a \div b
  <2>1. ASSUME a \div b < q PROVE FALSE
    <3>1. b * ((a \div b) + 1) <= b * q
      BY <1>1, <1>2, <2>1
    <3>2. b * ((a \div b) + 1) = b * (a \div b) + b
      BY <1>1
    <3> QED BY <1>1, <1>3, <3>1, <3>2
  <2> QED BY <2>1, <1>1
<1>4. ASSUME NEW q \in Nat, a < b * (q + 1) PROVE a \div b <= q
  <2>1. ASSUME q < a \div b PROVE FALSE
    <3>1. b * (q + 1) <= b * (a \div b)
      BY <1>1, <1>2, <2>1
    <3> QED BY <1>1, <1>4, <3>1
  <2> QED BY <2>1, <1>1
<1> QED BY <1>1, <1>3, <1>4

\* The full blocks of a prompt are some of those it needs; a token appended to a request
\* whose context is c goes to block c \div BlockSize + 1, behind them.
LEMMA BlockCounts ==
  ASSUME NEW r \in Requests
  PROVE  /\ Prompt[r] \in Seq(Token) /\ Len(Prompt[r]) \in 1 .. MaxLength
         /\ Full(r) \in Nat /\ Full(r) * BlockSize <= Len(Prompt[r])
         /\ Full(r) <= BlocksFor(Len(Prompt[r])) /\ BlocksFor(Len(Prompt[r])) \in Nat
         /\ \A c \in Nat : c >= Len(Prompt[r]) =>
              /\ BlocksFor(c) \in Nat /\ BlocksFor(c + 1) > Full(r)
              /\ BlocksFor(c + 1) = IF c % BlockSize = 0 THEN BlocksFor(c) + 1 ELSE BlocksFor(c)
<1>1. Prompt[r] \in Seq(Token) /\ Len(Prompt[r]) \in 1 .. MaxLength
  <2>1. Prompt[r] \in Seq(ToSet(Prompt[r])) /\ Len(Prompt[r]) \in 1 .. MaxLength
    BY BCAssumption
  <2>2. ToSet(Prompt[r]) \subseteq Token
    BY DEF Token
  <2> HIDE DEF Token
  <2> QED BY <2>1, <2>2, SeqMonotonic
<1>2. BlockSize \in Nat \ {0} /\ MaxLength \in Nat
  BY BCAssumption
<1>3. ASSUME NEW c \in Nat
      PROVE  /\ BlocksFor(c + 1) = c \div BlockSize + 1
             /\ BlocksFor(c) = IF c % BlockSize = 0 THEN c \div BlockSize ELSE c \div BlockSize + 1
  <2> DEFINE q == c \div BlockSize
             m == c % BlockSize
             B == BlockSize
  <2>1. q \in Nat /\ m \in 0 .. (B - 1) /\ c = B * q + m
    BY <1>2, Division
  <2>2. \A a, p \in Nat : B * p <= a /\ a < B * (p + 1) => a \div B = p
    <3>1. ASSUME NEW a \in Nat, NEW p \in Nat, B * p <= a, a < B * (p + 1) PROVE a \div B = p
      <4>1. a \div B \in Nat /\ p <= a \div B /\ a \div B <= p
        BY <3>1, <1>2, Division
      <4> QED BY <4>1
    <3> QED BY <3>1
  <2>3. c + 1 + B - 1 = c + B /\ c + B \in Nat /\ c + B - 1 \in Nat
    BY <1>2
  <2>4. B * (q + 1) = B * q + B /\ B * (q + 1 + 1) = B * q + B + B /\ B * q \in Nat
    BY <2>1, <1>2
  <2> HIDE DEF q, m, B
  <2>5. (c + B) \div B = q + 1
    <3>1. B \in Nat /\ B * (q + 1) <= c + B /\ c + B < B * ((q + 1) + 1) /\ q + 1 \in Nat
      BY <1>2, <2>1, <2>4 DEF B
    <3> QED BY <3>1, <2>2, <2>3
  <2>6. CASE m = 0
    <3>1. B \in Nat \ {0} /\ B * q <= c + B - 1 /\ c + B - 1 < B * (q + 1)
      BY <1>2, <2>1, <2>4, <2>6 DEF B
    <3>2. (c + B - 1) \div B = q
      BY <3>1, <2>1, <2>2, <2>3
    <3> QED BY <3>2, <2>3, <2>5, <2>6 DEF BlocksFor, q, m, B
  <2>7. CASE m # 0
    <3>1. B \in Nat \ {0} /\ B * (q + 1) <= c + B - 1 /\ c + B - 1 < B * ((q + 1) + 1) /\ q + 1 \in Nat
      BY <1>2, <2>1, <2>4, <2>7 DEF B
    <3>2. (c + B - 1) \div B = q + 1
      BY <3>1, <2>1, <2>2, <2>3
    <3> QED BY <3>2, <2>3, <2>5, <2>7 DEF BlocksFor, q, m, B
  <2> QED BY <2>6, <2>7
<1>4. Full(r) \in Nat /\ Full(r) * BlockSize <= Len(Prompt[r])
  <2>1. PICK a \in Nat : a = Len(Prompt[r])
    BY <1>1
  <2>2. a \div BlockSize \in Nat /\ a % BlockSize \in 0 .. (BlockSize - 1)
        /\ a = BlockSize * (a \div BlockSize) + (a % BlockSize)
    BY <1>2, Division
  <2>3. PICK q \in Nat : q = a \div BlockSize
    BY <2>2
  <2>4. PICK m \in Nat : m = a % BlockSize
    BY <1>2, <2>2
  <2>5. a = BlockSize * q + m
    BY <2>2, <2>3, <2>4
  <2>6. q * BlockSize <= a
    BY <2>5, <1>2
  <2> QED BY <2>1, <2>3, <2>6 DEF Full
<1>5. ASSUME NEW c \in Nat, c >= Len(Prompt[r])
      PROVE  c \div BlockSize \in Nat /\ Full(r) <= c \div BlockSize
  <2>1. BlockSize * Full(r) <= c
    BY <1>1, <1>2, <1>4, <1>5
  <2> QED BY <2>1, <1>2, <1>4, Division
<1>6. ASSUME NEW c \in Nat, c >= Len(Prompt[r])
      PROVE  /\ BlocksFor(c) \in Nat /\ Full(r) <= BlocksFor(c) /\ BlocksFor(c + 1) > Full(r)
             /\ BlocksFor(c + 1) = IF c % BlockSize = 0 THEN BlocksFor(c) + 1 ELSE BlocksFor(c)
  <2>1. PICK q \in Nat : q = c \div BlockSize
    BY <1>5, <1>6
  <2>2. BlocksFor(c + 1) = q + 1 /\ BlocksFor(c) = (IF c % BlockSize = 0 THEN q ELSE q + 1)
        /\ Full(r) <= q
    BY <1>3, <1>5, <1>6, <2>1
  <2> HIDE DEF BlocksFor, Full
  <2>3. CASE c % BlockSize = 0
    BY <2>2, <2>3, <1>4
  <2>4. CASE ~(c % BlockSize = 0)
    BY <2>2, <2>4, <1>4
  <2> QED BY <2>3, <2>4
<1>7. Full(r) <= BlocksFor(Len(Prompt[r])) /\ BlocksFor(Len(Prompt[r])) \in Nat
  <2>1. PICK a \in Nat : a = Len(Prompt[r])
    BY <1>1
  <2>2. a >= Len(Prompt[r])
    BY <2>1
  <2> HIDE DEF BlocksFor, Full
  <2>3. BlocksFor(a) \in Nat /\ Full(r) <= BlocksFor(a)
    BY <2>2, <1>6
  <2> QED BY <2>1, <2>3
<1> QED BY <1>1, <1>4, <1>6, <1>7

\* The keys and values up to a full block are those up to the one before and its own.
LEMMA KVGrows ==
  ASSUME NEW r \in Requests, NEW i \in 1 .. Full(r)
  PROVE  /\ Tokens(r, i) \in Key /\ KV(r, i) \in Seq(Token)
         /\ Len(KV(r, i)) = i * BlockSize /\ Len(KV(r, i)) <= MaxLength
         /\ i = 1 => KV(r, i) = <<>> \o Tokens(r, i)
         /\ i # 1 => KV(r, i) = KV(r, i - 1) \o Tokens(r, i)
<1> DEFINE P == Prompt[r]
           B == BlockSize
<1>1. P \in Seq(Token) /\ Len(P) \in 1 .. MaxLength /\ Full(r) \in Nat /\ Full(r) * B <= Len(P)
      /\ B \in Nat \ {0} /\ MaxLength \in Nat
  BY BlockCounts, BCAssumption
<1> HIDE DEF P, B
<1>2. /\ i * B \in Nat /\ (i - 1) * B \in Nat /\ i * B = (i - 1) * B + B /\ i * B <= Len(P)
      /\ i = 1 => (i - 1) * B = 0
      /\ i \in Nat /\ i - 1 \in Nat
  <2>1. PICK d \in Nat : Full(r) = i + d
    <3>1. Full(r) - i \in Nat /\ Full(r) = i + (Full(r) - i)
      BY <1>1
    <3> QED BY <3>1
  <2>2. Full(r) * B = i * B + d * B /\ d * B \in Nat /\ i * B \in Nat
    BY <1>1, <2>1
  <2>3. (i - 1) * B = i * B - B /\ i * B >= B
    BY <1>1
  <2> QED BY <1>1, <2>2, <2>3
<1>3. /\ Tokens(r, i) = SubSeq(P, (i - 1) * B + 1, i * B)
      /\ KV(r, i) = SubSeq(P, 1, i * B)
      /\ i # 1 => KV(r, i - 1) = SubSeq(P, 1, (i - 1) * B)
  BY <1>1 DEF Tokens, KV, P, B
<1>4. PICK a \in Nat, c \in Nat : a = (i - 1) * B /\ c = i * B
  BY <1>2
<1>5. c = a + B /\ c <= Len(P) /\ (i = 1 => a = 0)
  BY <1>2, <1>4
<1>6. SubSeq(P, a + 1, c) \in Seq(Token) /\ Len(SubSeq(P, a + 1, c)) = B
      /\ SubSeq(P, 1, c) \in Seq(Token) /\ Len(SubSeq(P, 1, c)) = c
  BY <1>1, <1>4, <1>5
<1>7. SubSeq(P, 1, c) = SubSeq(P, 1, a) \o SubSeq(P, a + 1, c)
  BY <1>1, <1>4, <1>5, ConcatAdjacentSubSeq
<1>8. a = 0 => SubSeq(P, 1, a) = <<>>
  BY <1>4, SubSeqEmpty
<1>9. Tokens(r, i) = SubSeq(P, a + 1, c) /\ KV(r, i) = SubSeq(P, 1, c)
      /\ (i # 1 => KV(r, i - 1) = SubSeq(P, 1, a))
  BY <1>3, <1>4
<1> HIDE DEF Key
<1>10. Tokens(r, i) \in Key
  BY <1>6, <1>9 DEF Key, B
<1>11. KV(r, i) \in Seq(Token) /\ Len(KV(r, i)) = i * BlockSize /\ Len(KV(r, i)) <= MaxLength
  BY <1>1, <1>4, <1>5, <1>6, <1>9 DEF B
<1> QED BY <1>5, <1>7, <1>8, <1>9, <1>10, <1>11

----------------------------------------------------------------------------
(* The nodes that are reached *)
\* One round of Reach; a set that has all linked children of its members.
Grown(t, R) == R \cup {n \in DOMAIN t : t[n].linked /\ t[n].parent \in R}
Closed(t, M) == \A n \in DOMAIN t : t[n].linked /\ t[n].parent \in M => n \in M
\* The nodes have ranks that grow from each parent to its children.
Ranked(t, X, D) ==
  \A n \in DOMAIN t :
    /\ t[n].linked /\ D[n] \in 1 .. MaxLength
    /\ t[n].parent \in X \/ (t[n].parent \in DOMAIN t /\ D[t[n].parent] < D[n])
\* What i rounds of Reach find.
Found(t, X, R, i) ==
  /\ X \subseteq R
  /\ \A n \in R : n \in X \/ (n \in DOMAIN t /\ t[n].linked /\ t[n].parent \in R)
  /\ \A M : X \subseteq M /\ Closed(t, M) => R \subseteq M
  /\ \A D : Ranked(t, X, D) => \A n \in DOMAIN t : D[n] <= i => n \in R

\* One more round of Reach finds the children of what was found.
LEMMA FoundGrows ==
  ASSUME NEW t, NEW X, NEW i \in Nat \ {0}, NEW R, Found(t, X, R, i - 1)
  PROVE  Found(t, X, Grown(t, R), i)
<1>1. X \subseteq Grown(t, R) /\ R \subseteq Grown(t, R)
  BY DEF Found, Grown
<1>2. \A n \in Grown(t, R) : n \in X \/ (n \in DOMAIN t /\ t[n].linked /\ t[n].parent \in Grown(t, R))
  BY DEF Found, Grown
<1>3. ASSUME NEW M, X \subseteq M, Closed(t, M) PROVE Grown(t, R) \subseteq M
  BY <1>3 DEF Found, Grown, Closed
<1>4. ASSUME NEW D, Ranked(t, X, D), NEW n \in DOMAIN t, D[n] <= i PROVE n \in Grown(t, R)
  <2>1. t[n].linked /\ D[n] \in 1 .. MaxLength
    BY <1>4 DEF Ranked
  <2>2. CASE t[n].parent \in X
    BY <2>1, <2>2 DEF Found, Grown
  <2>3. CASE t[n].parent \in DOMAIN t /\ D[t[n].parent] < D[n]
    <3>1. D[t[n].parent] \in 1 .. MaxLength
      BY <2>3, <1>4 DEF Ranked
    <3>2. D[t[n].parent] <= i - 1
      BY <3>1, <2>1, <2>3, <1>4, BCAssumption
    <3>3. t[n].parent \in R
      BY <3>2, <2>3, <1>4 DEF Found
    <3> QED BY <3>3, <2>1 DEF Grown
  <2> QED BY <2>2, <2>3, <1>4 DEF Ranked
<1> QED BY <1>1, <1>2, <1>3, <1>4 DEF Found

\* Reach finds its start and what is linked below it, nothing more, and all nodes of a
\* ranked tree: MaxLength rounds are enough.
LEMMA Reached ==
  ASSUME NEW t, NEW X
  PROVE  Found(t, X, Reach(t, X), MaxLength)
<1> DEFINE Round(R, i) == Grown(t, R)
           n == MaxLength
           W == [i \in 0 .. n |-> {R \in SUBSET (X \cup DOMAIN t) : Found(t, X, R, i)}]
           F == [i \in 1 .. n |-> [R \in W[i - 1] |-> Round(R, i)]]
           after == CHOOSE g : g = [i \in 0 .. n |-> IF i = 0 THEN X ELSE Round(g[i - 1], i)]
<1>1. n \in Nat /\ 0 \in 0 .. n /\ n \in 0 .. n
      /\ \A i \in 1 .. n : i \in Nat \ {0} /\ i \in 0 .. n /\ i # 0 /\ i - 1 \in 0 .. n
  BY BCAssumption
<1>2. X \in W[0]
  <2>1. \A D : Ranked(t, X, D) => \A m \in DOMAIN t : D[m] <= 0 => m \in X
    BY <1>1 DEF Ranked
  <2> HIDE DEF n
  <2>2. Found(t, X, X, 0)
    <3>1. \A M : X \subseteq M /\ Closed(t, M) => X \subseteq M
      OBVIOUS
    <3>2. X \subseteq X
      OBVIOUS
    <3>3. \A m \in X : m \in X \/ (m \in DOMAIN t /\ t[m].linked /\ t[m].parent \in X)
      OBVIOUS
    <3>4. \A D : Ranked(t, X, D) => \A m \in DOMAIN t : D[m] <= 0 => m \in X
      BY <2>1
    <3> QED BY <3>1, <3>2, <3>3, <3>4 DEF Found
  <2> QED BY <1>1, <2>2
<1>3. ASSUME NEW i \in 1 .. n, NEW R \in W[i - 1] PROVE Round(R, i) \in W[i]
  <2> HIDE DEF n
  <2>1. R \in SUBSET (X \cup DOMAIN t) /\ Found(t, X, R, i - 1)
    BY <1>1
  <2>2. Found(t, X, Grown(t, R), i)
    BY <1>1, <2>1, FoundGrows
  <2>3. Grown(t, R) \in SUBSET (X \cup DOMAIN t)
    BY <2>1 DEF Grown
  <2> QED BY <1>1, <2>2, <2>3
<1>4. Reach(t, X) = after[n]
  BY DEF Reach, After, Grown
<1> HIDE DEF n, Round
<1>5. \A i \in 1 .. n : \A R \in W[i - 1] : F[i][R] = Round(R, i)
  OBVIOUS
<1> HIDE DEF F, W
<1>6. PICK run : IsLoop(run, F, n, W, X)
  BY <1>1, <1>2, <1>3, <1>5, LoopRuns
<1>7. run = [i \in 0 .. n |-> IF i = 0 THEN X ELSE Round(run[i - 1], i)]
  <2>1. ASSUME NEW i \in 0 .. n PROVE run[i] = IF i = 0 THEN X ELSE Round(run[i - 1], i)
    <3>1. i = 0 \/ i \in 1 .. n
      BY <1>1
    <3> QED BY <3>1, <1>1, <1>5, <1>6 DEF IsLoop
  <2> QED BY <2>1, <1>6 DEF IsLoop
<1>8. after = [i \in 0 .. n |-> IF i = 0 THEN X ELSE Round(after[i - 1], i)]
  BY <1>7, Zenon
<1> HIDE DEF after
<1>9. after[0] = X /\ \A i \in 1 .. n : after[i] = Round(after[i - 1], i)
  BY <1>1, <1>8
<1>10. after[n] \in W[n]
  <2>1. after[0] \in W[0] /\ \A i \in 1 .. n : after[i - 1] \in W[i - 1] => after[i] \in W[i]
    BY <1>2, <1>3, <1>9
  <2> QED BY <1>1, <2>1, LoopKeeps
<1>11. Found(t, X, after[n], n)
  BY <1>1, <1>10 DEF W
<1> QED BY <1>4, <1>11 DEF n

----------------------------------------------------------------------------
(* Changes of the tree that leave the nodes what they stand for *)
\* Nodes are dropped, aged or locked, no more.
Within(u, t) ==
  /\ DOMAIN u \subseteq DOMAIN t
  /\ \A n \in DOMAIN u : /\ u[n].tokens = t[n].tokens /\ u[n].block = t[n].block
                         /\ u[n].parent = t[n].parent /\ u[n].linked = t[n].linked

\* Live nodes stay live when nodes are dropped.
LEMMA LiveWithin ==
  ASSUME NEW t, NEW u, NEW f, NEW L, NEW ct, Live(t, f, L, ct), Tree(u), Within(u, t)
  PROVE  Live(u, f, L \cap DOMAIN u, ct)
<1> DEFINE M == L \cap DOMAIN u
<1>1. M \subseteq DOMAIN u /\ M \subseteq L /\ DOMAIN u \subseteq DOMAIN t
  BY DEF Within
<1>2. ASSUME NEW n \in DOMAIN u, u[n].linked PROVE n \in M <=> u[n].parent \in M \cup {Root}
  <2>1. u[n].parent = t[n].parent /\ t[n].linked /\ n \in DOMAIN t /\ u[n].parent \in DOMAIN u \cup {Root}
    BY <1>2 DEF Within, Tree
  <2> QED BY <2>1 DEF Live
<1>3. \A m, n \in M : u[m].block = u[n].block => m = n
  BY <1>1 DEF Within, Live
<1>4. ASSUME NEW n \in M
      PROVE  /\ u[n].block \notin ToSet(f)
             /\ ct[u[n].block] \in Seq(Token) /\ Len(ct[u[n].block]) <= MaxLength
             /\ u[n].linked =>
                  ct[u[n].block] = (IF u[n].parent = Root THEN <<>>
                                    ELSE ct[u[u[n].parent].block]) \o u[n].tokens
  <2>1. u[n].block = t[n].block /\ u[n].parent = t[n].parent /\ u[n].linked = t[n].linked
        /\ u[n].tokens = t[n].tokens /\ n \in L
    BY <1>1 DEF Within
  <2>2. /\ t[n].block \notin ToSet(f)
        /\ ct[t[n].block] \in Seq(Token) /\ Len(ct[t[n].block]) <= MaxLength
        /\ t[n].linked =>
             ct[t[n].block] = (IF t[n].parent = Root THEN <<>>
                               ELSE ct[t[t[n].parent].block]) \o t[n].tokens
    BY <2>1 DEF Live
  <2>3. u[n].parent # Root => t[t[n].parent].block = u[u[n].parent].block
    BY <1>1, <2>1 DEF Tree, Within
  <2>4. u[n].linked =>
          ct[u[n].block] = (IF u[n].parent = Root THEN <<>>
                            ELSE ct[u[u[n].parent].block]) \o u[n].tokens
    BY <2>1, <2>2, <2>3
  <2> QED BY <2>1, <2>2, <2>4
<1> HIDE DEF M
<1>5. Live(u, f, M, ct)
  BY <1>1, <1>2, <1>3, <1>4 DEF Live
<1> QED BY <1>5 DEF M

\* The invariant survives when nodes that no path needs are dropped.
LEMMA SoundWithin ==
  ASSUME NEW t, NEW u, NEW f, NEW h, NEW L, NEW tb, NEW ct, NEW w, NEW wh \in BOOLEAN,
         Sound(t, f, h, L, tb, ct, w, wh), Tree(u), Within(u, t),
         \A r \in DOMAIN h : \A i \in DOMAIN h[r] : h[r][i] \in DOMAIN u,
         wh => DOMAIN u = DOMAIN t
  PROVE  Sound(u, f, h, L \cap DOMAIN u, tb, ct, w, wh)
<1> DEFINE M == L \cap DOMAIN u
<1>1. Live(u, f, M, ct)
  BY LiveWithin DEF Sound
<1>2. Paths(u, h, M, ct)
  <2>1. DOMAIN h \subseteq Requests
    BY DEF Sound, Paths, Spells
  <2>2. ASSUME NEW r \in DOMAIN h PROVE h[r] \in Seq(DOMAIN u) /\ Len(h[r]) <= Full(r)
    <3>1. h[r] \in Seq(DOMAIN t) /\ Len(h[r]) <= Full(r)
      BY DEF Sound, Paths, Spells
    <3>2. \A i \in 1 .. Len(h[r]) : h[r][i] \in DOMAIN u
      BY <3>1
    <3> QED BY <3>1, <3>2
  <2>3. ASSUME NEW r \in DOMAIN h, NEW i \in DOMAIN h[r]
        PROVE  /\ u[h[r][i]].tokens = Tokens(r, i)
               /\ u[h[r][i]].parent = IF i = 1 THEN Root ELSE h[r][i - 1]
               /\ h[r][i] \in M => ct[u[h[r][i]].block] = KV(r, i)
    BY DEF Sound, Paths, Spells, Within
  <2> HIDE DEF M
  <2> QED BY <2>1, <2>2, <2>3 DEF Paths, Spells
<1>3. Owned(u, f, h, M, tb, ct, w)
  <2>1. ASSUME NEW r \in DOMAIN tb, NEW i \in DOMAIN tb[r], i <= Len(Path(h, r))
        PROVE  /\ i \in DOMAIN Path(h, r) /\ Path(h, r)[i] \in DOMAIN u
               /\ u[Path(h, r)[i]].block = t[Path(h, r)[i]].block
    <3>1. i \in 1 .. Len(tb[r]) /\ Len(tb[r]) \in Nat
      BY DEF Sound, Owned
    <3>2. r \in DOMAIN h /\ Path(h, r) = h[r]
      BY <2>1, <3>1 DEF Path
    <3>3. h[r] \in Seq(DOMAIN t)
      BY <3>2 DEF Sound, Paths, Spells
    <3>4. i \in DOMAIN h[r]
      BY <2>1, <3>1, <3>2, <3>3
    <3> QED BY <3>2, <3>4 DEF Within
  <2>2. \A r \in DOMAIN tb : Own(u, h, tb, r) = Own(t, h, tb, r)
    BY <2>1 DEF Own
  <2>3. ASSUME NEW r \in DOMAIN tb, NEW i \in Own(u, h, tb, r)
        PROVE  /\ tb[r][i] \notin ToSet(f) /\ \A n \in M : u[n].block # tb[r][i]
               /\ \A q \in DOMAIN tb : \A j \in Own(u, h, tb, q) : tb[q][j] = tb[r][i] => q = r /\ j = i
               /\ r \in w => ct[tb[r][i]] = KV(r, i)
    <3>1. i \in Own(t, h, tb, r)
      BY <2>2
    <3>2. /\ tb[r][i] \notin ToSet(f) /\ \A n \in L : t[n].block # tb[r][i]
          /\ \A q \in DOMAIN tb : \A j \in Own(t, h, tb, q) : tb[q][j] = tb[r][i] => q = r /\ j = i
          /\ r \in w => ct[tb[r][i]] = KV(r, i)
      BY <3>1 DEF Sound, Owned
    <3>3. \A n \in M : n \in L /\ u[n].block = t[n].block
      BY DEF Within
    <3> QED BY <2>2, <3>2, <3>3
  <2>4. ASSUME NEW r \in DOMAIN tb \ w, NEW i \in DOMAIN Path(h, r)
        PROVE  tb[r][i] = u[Path(h, r)[i]].block
    <3>1. tb[r][i] = t[Path(h, r)[i]].block
      BY DEF Sound, Owned
    <3>2. r \in DOMAIN h /\ Path(h, r) = h[r]
      BY DEF Path
    <3> QED BY <3>1, <3>2 DEF Within
  <2> HIDE DEF M
  <2>5. DOMAIN tb \subseteq Requests /\ \A r \in DOMAIN tb : tb[r] \in Seq(Blocks) /\ Full(r) <= Len(tb[r])
    BY DEF Sound, Owned
  <2> QED BY <2>3, <2>4, <2>5 DEF Owned
<1>4. wh => Intact(u, f, M, tb)
  <2> SUFFICES ASSUME wh PROVE Intact(u, f, M, tb)
    OBVIOUS
  <2>1. L = DOMAIN t /\ DOMAIN u = DOMAIN t /\ \A n \in DOMAIN u : u[n].linked = t[n].linked /\ u[n].block = t[n].block
    BY DEF Sound, Intact, Within
  <2>2. Intact(t, f, L, tb)
    BY DEF Sound
  <2>3. M = DOMAIN u
    BY <2>1
  <2> HIDE DEF M
  <2> QED BY <2>1, <2>2, <2>3 DEF Intact
<1> HIDE DEF M
<1>5. Sound(u, f, h, M, tb, ct, w, wh)
  BY <1>1, <1>2, <1>3, <1>4 DEF Sound
<1> QED BY <1>5 DEF M

\* An access and a change of the lock counts leave the nodes what they stand for.
LEMMA Touched ==
  ASSUME NEW t, Tree(t), NEW path, path \in Seq(DOMAIN t)
  PROVE  /\ Tree(Touch(t, path)) /\ Within(Touch(t, path), t)
         /\ DOMAIN Touch(t, path) = DOMAIN t
<1> DEFINE u == Touch(t, path)
           age(n) == IF Contains(path, n) THEN Len(path) - Position(path, n) ELSE t[n].age + Len(path)
<1>1. DOMAIN u = DOMAIN t /\ \A n \in DOMAIN t : u[n] = [t[n] EXCEPT !.age = age(n)]
  BY DEF Touch
<1>2. t \in [DOMAIN t -> Node] /\ Len(path) \in Nat /\ DOMAIN path = 1 .. Len(path)
  BY DEF Tree
<1>3. ASSUME NEW n \in DOMAIN t, Contains(path, n)
      PROVE  Position(path, n) \in 1 .. Len(path) /\ path[Position(path, n)] = n
  <2>1. \E i \in DOMAIN path : path[i] = n
    BY <1>2, <1>3 DEF Contains
  <2> QED BY <2>1, <1>2 DEF Position
<1>4. ASSUME NEW n \in DOMAIN t
      PROVE  /\ age(n) \in Nat
             /\ Contains(path, n) => age(n) < Len(path)
             /\ ~Contains(path, n) => age(n) = t[n].age + Len(path)
  <2>1. t[n].age \in Nat
    BY <1>2 DEF Node
  <2>2. CASE Contains(path, n)
    BY <1>2, <1>3, <2>2
  <2>3. CASE ~Contains(path, n)
    BY <1>2, <2>1, <2>3
  <2> QED BY <2>2, <2>3
<1>5. ASSUME NEW m \in DOMAIN t, NEW n \in DOMAIN t, age(m) = age(n) PROVE m = n
  <2>1. t[m].age \in Nat /\ t[n].age \in Nat
    BY <1>2 DEF Node
  <2>2. CASE Contains(path, m) /\ Contains(path, n)
    <3>1. Position(path, m) = Position(path, n)
      <4>1. Len(path) - Position(path, m) = Len(path) - Position(path, n)
        BY <1>5, <2>2
      <4> QED BY <4>1, <1>2, <1>3, <2>2
    <3> QED BY <3>1, <1>3, <2>2
  <2>3. CASE ~Contains(path, m) /\ ~Contains(path, n)
    <3>1. t[m].age = t[n].age
      <4> HIDE DEF age
      <4> QED BY <1>2, <1>4, <1>5, <2>1, <2>3
    <3> QED BY <3>1 DEF Tree
  <2>4. CASE Contains(path, m) /\ ~Contains(path, n)
    <3> HIDE DEF age
    <3> QED BY <1>2, <1>4, <1>5, <2>1, <2>4
  <2>5. CASE ~Contains(path, m) /\ Contains(path, n)
    <3> HIDE DEF age
    <3> QED BY <1>2, <1>4, <1>5, <2>1, <2>5
  <2> QED BY <2>2, <2>3, <2>4, <2>5
<1>6. u = [n \in DOMAIN t |-> u[n]]
  BY DEF Touch
<1> HIDE DEF u, age
<1>7. ASSUME NEW n \in DOMAIN t
      PROVE  /\ u[n] \in Node /\ u[n].age = age(n)
             /\ u[n].tokens = t[n].tokens /\ u[n].block = t[n].block
             /\ u[n].parent = t[n].parent /\ u[n].linked = t[n].linked
  <2>1. t[n] \in Node /\ u[n] = [t[n] EXCEPT !.age = age(n)]
    BY <1>1, <1>2
  <2>2. PICK a \in Nat : a = age(n)
    BY <1>4
  <2> QED BY <2>1, <2>2 DEF Node
<1>8. Tree(u)
  <2>1. u \in [DOMAIN u -> Node]
    BY <1>1, <1>6, <1>7
  <2> QED BY <2>1, <1>1, <1>5, <1>7 DEF Tree
<1>9. Within(u, t)
  BY <1>1, <1>7 DEF Within
<1> QED BY <1>1, <1>8, <1>9 DEF u

\* Lock counts stay natural numbers, whatever is added to them.
LEMMA Relocked ==
  ASSUME NEW t, Tree(t), NEW path, NEW d \in Int
  PROVE  /\ Tree(Relock(t, path, d)) /\ Within(Relock(t, path, d), t)
         /\ DOMAIN Relock(t, path, d) = DOMAIN t
<1> DEFINE u == Relock(t, path, d)
<1>1. DOMAIN u = DOMAIN t /\ u = [n \in DOMAIN t |-> u[n]]
  BY DEF Relock
<1>2. ASSUME NEW n \in DOMAIN t
      PROVE  /\ u[n] \in Node /\ u[n].age = t[n].age
             /\ u[n].tokens = t[n].tokens /\ u[n].block = t[n].block
             /\ u[n].parent = t[n].parent /\ u[n].linked = t[n].linked
  <2>1. t[n] \in Node
    BY DEF Tree
  <2>2. PICK k \in Nat : k = IF t[n].lock + d < 0 THEN 0 ELSE t[n].lock + d
    BY <2>1 DEF Node
  <2>3. u[n] = t[n] \/ u[n] = [t[n] EXCEPT !.lock = k]
    BY <2>2 DEF Relock
  <2> QED BY <2>1, <2>3 DEF Node
<1> HIDE DEF u
<1>3. Tree(u)
  <2>1. u \in [DOMAIN u -> Node]
    BY <1>1, <1>2
  <2> QED BY <2>1, <1>1, <1>2 DEF Tree
<1>4. Within(u, t)
  BY <1>1, <1>2 DEF Within
<1> QED BY <1>1, <1>3, <1>4 DEF u

\* What is reached from the root is live.
LEMMA TreeIsLive ==
  ASSUME NEW t, NEW f, NEW L, NEW ct, Tree(t), Live(t, f, L, ct)
  PROVE  InTree(t) \subseteq L
<1>1. {Root} \subseteq L \cup {Root} /\ Closed(t, L \cup {Root})
  BY DEF Live, Closed
<1>2. Reach(t, {Root}) \subseteq L \cup {Root}
  BY <1>1, Reached DEF Found
<1> QED BY <1>2 DEF InTree

\* A tree that has lost nothing is reached as a whole: the prefixes the nodes stand for
\* grow from parent to child and are no longer than MaxLength.
LEMMA AllReached ==
  ASSUME NEW t, NEW f, NEW ct, Tree(t), Live(t, f, DOMAIN t, ct), \A n \in DOMAIN t : t[n].linked,
         NEW X, Root \in X
  PROVE  DOMAIN t \subseteq Reach(t, X)
<1> DEFINE D == [n \in DOMAIN t |-> Len(ct[t[n].block])]
<1>1. MaxLength \in Nat /\ BlockSize \in Nat \ {0}
  BY BCAssumption
<1>2. ASSUME NEW n \in DOMAIN t
      PROVE  /\ t[n].tokens \in Seq(Token) /\ Len(t[n].tokens) = BlockSize
             /\ ct[t[n].block] \in Seq(Token) /\ Len(ct[t[n].block]) <= MaxLength
             /\ t[n].parent \in DOMAIN t \cup {Root}
             /\ ct[t[n].block] = (IF t[n].parent = Root THEN <<>>
                                  ELSE ct[t[t[n].parent].block]) \o t[n].tokens
  BY DEF Live, Tree, Node, Key
<1>3. ASSUME NEW n \in DOMAIN t
      PROVE  /\ D[n] \in 1 .. MaxLength
             /\ t[n].parent # Root => D[t[n].parent] < D[n]
  <2>1. <<>> \in Seq(Token) /\ Len(<<>>) = 0
    BY EmptySeq
  <2>2. CASE t[n].parent = Root
    <3>1. ct[t[n].block] = <<>> \o t[n].tokens
      BY <1>2, <2>2
    <3>2. D[n] = BlockSize
      BY <1>2, <2>1, <3>1, ConcatEmptySeq
    <3> HIDE DEF D
    <3>3. D[n] <= MaxLength
      BY <1>2 DEF D
    <3> QED BY <1>1, <2>2, <3>2, <3>3
  <2>3. CASE t[n].parent # Root
    <3>1. PICK c \in Seq(Token) : c = ct[t[t[n].parent].block]
      BY <1>2, <2>3
    <3>2. PICK k \in Seq(Token) : k = t[n].tokens /\ Len(k) = BlockSize
      BY <1>2
    <3>3. ct[t[n].block] = c \o k
      BY <1>2, <2>3, <3>1, <3>2
    <3>4. Len(c \o k) = Len(c) + Len(k) /\ Len(c) \in Nat
      BY ConcatProperties
    <3>5. D[t[n].parent] = Len(c)
      BY <1>2, <2>3, <3>1
    <3>6. D[n] = Len(c) + BlockSize /\ D[n] <= MaxLength
      BY <1>2, <3>2, <3>3, <3>4
    <3> HIDE DEF D
    <3> QED BY <1>1, <2>3, <3>4, <3>5, <3>6
  <2> QED BY <2>2, <2>3
<1> HIDE DEF D
<1>4. Ranked(t, X, D)
  BY <1>2, <1>3 DEF Ranked
<1>5. ASSUME NEW n \in DOMAIN t PROVE n \in Reach(t, X)
  <2>1. D[n] <= MaxLength
    BY <1>1, <1>3
  <2> QED BY <2>1, <1>4, Reached DEF Found
<1> QED BY <1>5

\* The nodes that Python drops are none that the invariant speaks of.
LEMMA CollectedSound ==
  ASSUME NEW t, NEW f, NEW h, NEW L, NEW tb, NEW ct, NEW w, NEW wh \in BOOLEAN,
         Sound(t, f, h, L, tb, ct, w, wh)
  PROVE  \E M \in SUBSET DOMAIN Collected(t, h) : Sound(Collected(t, h), f, h, M, tb, ct, w, wh)
<1> DEFINE X == {Root} \cup UNION {ToSet(h[r]) : r \in DOMAIN h}
           alive == Alive(t, h)
           older(n) == {m \in alive : t[m].age < t[n].age}
           u == Collected(t, h)
<1>1. /\ Tree(t) /\ Live(t, f, L, ct) /\ Paths(t, h, L, ct)
      /\ wh => Intact(t, f, L, tb)
  BY DEF Sound
<1>2. alive = Reach(t, X) \ {Root} /\ Found(t, X, Reach(t, X), MaxLength)
  BY Reached DEF Alive
<1> HIDE DEF X, alive
<1>3. ASSUME NEW r \in DOMAIN h, NEW i \in DOMAIN h[r]
      PROVE  /\ h[r][i] \in X /\ h[r][i] \in DOMAIN t /\ h[r][i] \in Nat \ {Root}
             /\ t[h[r][i]].parent = IF i = 1 THEN Root ELSE h[r][i - 1]
             /\ i # 1 => i - 1 \in DOMAIN h[r]
  <2>1. h[r] \in Seq(DOMAIN t) /\ t[h[r][i]].parent = (IF i = 1 THEN Root ELSE h[r][i - 1])
    BY <1>1 DEF Paths, Spells
  <2>2. h[r][i] \in ToSet(h[r])
    BY DEF ToSet
  <2>3. h[r][i] \in DOMAIN t /\ (i # 1 => i - 1 \in DOMAIN h[r])
    BY <2>1
  <2> QED BY <2>1, <2>2, <2>3, <1>1 DEF X, Tree
<1>4. ASSUME NEW n \in X PROVE n = Root \/ \E r \in DOMAIN h : \E i \in DOMAIN h[r] : n = h[r][i]
  BY DEF X, ToSet
<1>5. ASSUME NEW n \in alive
      PROVE  n \in DOMAIN t /\ n # Root /\ t[n].parent \in alive \cup {Root}
  <2>1. CASE n \in X
    <3>1. PICK r \in DOMAIN h : \E i \in DOMAIN h[r] : n = h[r][i]
      BY <1>2, <1>4, <2>1
    <3>2. PICK i \in DOMAIN h[r] : n = h[r][i]
      BY <3>1
    <3>3. t[n].parent \in X
      <4>1. CASE i = 1
        BY <4>1, <3>2, <1>3 DEF X
      <4>2. CASE i # 1
        BY <4>2, <3>2, <1>3
      <4> QED BY <4>1, <4>2
    <3> QED BY <3>2, <3>3, <1>2, <1>3 DEF Found
  <2>2. CASE n \notin X
    BY <2>2, <1>2 DEF Found
  <2> QED BY <2>1, <2>2
<1>6. DOMAIN u = alive /\ \A n \in alive : u[n] = [t[n] EXCEPT !.age = Cardinality(older(n))]
  BY DEF Collected, alive
<1>7. u = [n \in DOMAIN u |-> u[n]]
  BY DEF Collected
<1>8. IsFiniteSet(alive) /\ alive \subseteq DOMAIN t
  <2>1. alive \subseteq DOMAIN t
    BY <1>5
  <2> QED BY <2>1, <1>1, FS_Subset DEF Tree
<1>9. ASSUME NEW n \in alive
      PROVE  older(n) \in SUBSET alive /\ IsFiniteSet(older(n)) /\ Cardinality(older(n)) \in Nat
  <2>1. older(n) \in SUBSET alive
    OBVIOUS
  <2> HIDE DEF older
  <2> QED BY <2>1, <1>8, FS_Subset, FS_CardinalityType
<1>10. ASSUME NEW m \in alive, NEW n \in alive, t[m].age < t[n].age
       PROVE  Cardinality(older(m)) < Cardinality(older(n))
  <2>1. \A k \in alive : t[k].age \in Nat
    BY <1>1, <1>8 DEF Tree, Node
  <2>2. older(m) \in SUBSET older(n) /\ m \in older(n) /\ m \notin older(m)
    BY <2>1, <1>10
  <2> HIDE DEF older
  <2>3. Cardinality(older(m)) <= Cardinality(older(n))
        /\ (Cardinality(older(n)) = Cardinality(older(m)) => older(n) = older(m))
    BY <2>2, <1>9, FS_Subset
  <2> QED BY <2>2, <2>3, <1>9
<1> HIDE DEF u, older
<1>11. ASSUME NEW n \in alive
       PROVE  /\ u[n] \in Node /\ u[n].age = Cardinality(older(n))
              /\ u[n].tokens = t[n].tokens /\ u[n].block = t[n].block
              /\ u[n].parent = t[n].parent /\ u[n].linked = t[n].linked
  <2>1. t[n] \in Node /\ u[n] = [t[n] EXCEPT !.age = Cardinality(older(n))]
    BY <1>1, <1>6, <1>8 DEF Tree
  <2>2. PICK a \in Nat : a = Cardinality(older(n))
    BY <1>9
  <2> QED BY <2>1, <2>2 DEF Node
<1>12. ASSUME NEW m \in alive, NEW n \in alive, u[m].age = u[n].age PROVE m = n
  <2>1. t[m].age \in Nat /\ t[n].age \in Nat /\ t[m] \in Node /\ t[n] \in Node
    BY <1>1, <1>8 DEF Tree, Node
  <2>2. Cardinality(older(m)) = Cardinality(older(n))
    BY <1>11, <1>12
  <2>3. ~(t[m].age < t[n].age) /\ ~(t[n].age < t[m].age)
    BY <2>2, <1>9, <1>10
  <2>4. t[m].age = t[n].age
    BY <2>1, <2>3
  <2> QED BY <2>4, <1>1, <1>8 DEF Tree
<1>13. Tree(u)
  <2>1. u \in [DOMAIN u -> Node]
    BY <1>6, <1>7, <1>11
  <2>2. DOMAIN u \subseteq Nat \ {Root}
    BY <1>1, <1>6, <1>8 DEF Tree
  <2>3. \A n \in DOMAIN u : u[n].parent \in DOMAIN u \cup {Root}
    BY <1>5, <1>6, <1>11
  <2> QED BY <2>1, <2>2, <2>3, <1>6, <1>8, <1>12 DEF Tree
<1>14. Within(u, t)
  BY <1>6, <1>8, <1>11 DEF Within
<1>15. \A r \in DOMAIN h : \A i \in DOMAIN h[r] : h[r][i] \in DOMAIN u
  BY <1>2, <1>3, <1>6 DEF Found
<1>16. wh => DOMAIN u = DOMAIN t
  <2> SUFFICES ASSUME wh PROVE DOMAIN u = DOMAIN t
    OBVIOUS
  <2>1. L = DOMAIN t /\ \A n \in DOMAIN t : t[n].linked
    BY <1>1 DEF Intact
  <2>2. DOMAIN t \subseteq Reach(t, X)
    BY <2>1, <1>1, AllReached DEF X
  <2>3. DOMAIN t \subseteq alive
    BY <2>2, <1>1, <1>2 DEF Tree
  <2> QED BY <2>3, <1>6, <1>8
<1>17. Sound(u, f, h, L \cap DOMAIN u, tb, ct, w, wh)
  BY <1>13, <1>14, <1>15, <1>16, SoundWithin
<1> QED BY <1>17 DEF u

----------------------------------------------------------------------------
(* The path of a prompt *)
LEMMA Tips ==
  ASSUME NEW S, NEW p \in Seq(S)
  PROVE  /\ Len(p) \in Nat /\ DOMAIN p = 1 .. Len(p)
         /\ p = <<>> <=> Len(p) = 0
         /\ Tip(p) = IF Len(p) = 0 THEN Root ELSE p[Len(p)]
         /\ \A i \in 1 .. Len(p) : p[i] \in S
BY EmptySeq DEF Tip, Last

\* A child of the last node that has the tokens of the next block makes the path longer.
LEMMA SpellsOn ==
  ASSUME NEW t, NEW f, NEW L, NEW ct, Tree(t), Live(t, f, L, ct), NEW r \in Requests,
         NEW p, Spells(t, p, r, L, ct), Len(p) < Full(r),
         NEW n \in DOMAIN t, t[n].linked, t[n].parent = Tip(p), t[n].tokens = Tokens(r, Len(p) + 1)
  PROVE  /\ Spells(t, Append(p, n), r, L, ct)
         /\ ToSet(p) \subseteq L => ToSet(Append(p, n)) \subseteq L
<1> DEFINE k == Len(p) + 1
           q == Append(p, n)
<1>1. p \in Seq(DOMAIN t) /\ Len(p) \in Nat /\ DOMAIN p = 1 .. Len(p) /\ Full(r) \in Nat
  BY BlockCounts DEF Spells
<1>2. /\ q \in Seq(DOMAIN t) /\ Len(q) = k /\ DOMAIN q = 1 .. k /\ q[k] = n
      /\ \A i \in 1 .. Len(p) : q[i] = p[i]
  BY <1>1
<1>3. k \in 1 .. Full(r) /\ k - 1 = Len(p)
  BY <1>1
<1>4. Tip(p) = IF k = 1 THEN Root ELSE p[k - 1]
  BY <1>1, Tips
<1> HIDE DEF q
<1>5. ASSUME n \in L PROVE ct[t[n].block] = KV(r, k)
  <2>1. Tip(p) \in L \cup {Root} /\ Root \notin L
    BY <1>5 DEF Live, Tree
  <2>2. ct[t[n].block] = (IF Tip(p) = Root THEN <<>> ELSE ct[t[Tip(p)].block]) \o Tokens(r, k)
    BY <1>5 DEF Live
  <2>3. CASE k = 1
    BY <2>2, <2>3, <1>3, <1>4, KVGrows
  <2>4. CASE k # 1
    <3>1. k - 1 \in DOMAIN p /\ p[k - 1] \in DOMAIN t /\ Tip(p) = p[k - 1]
      BY <2>4, <1>1, <1>3, <1>4
    <3>2. p[k - 1] \in L /\ p[k - 1] # Root
      BY <3>1, <2>1 DEF Tree
    <3>3. ct[t[p[k - 1]].block] = KV(r, k - 1)
      BY <3>1, <3>2 DEF Spells
    <3>4. ct[t[n].block] = KV(r, k - 1) \o Tokens(r, k)
      BY <3>1, <3>2, <3>3, <2>2
    <3> QED BY <3>4, <2>4, <1>3, KVGrows
  <2> HIDE DEF k
  <2> QED BY <2>3, <2>4
<1>6. ASSUME NEW i \in DOMAIN q
      PROVE  /\ t[q[i]].tokens = Tokens(r, i)
             /\ t[q[i]].parent = IF i = 1 THEN Root ELSE q[i - 1]
             /\ q[i] \in L => ct[t[q[i]].block] = KV(r, i)
  <2>1. i \in 1 .. Len(p) \/ i = k
    BY <1>1, <1>2
  <2>2. CASE i \in 1 .. Len(p)
    <3>1. i \in DOMAIN p /\ q[i] = p[i] /\ (i # 1 => q[i - 1] = p[i - 1])
      BY <2>2, <1>1, <1>2
    <3> QED BY <3>1 DEF Spells
  <2>3. CASE i = k
    <3>1. i # 1 => q[i - 1] = p[i - 1]
      BY <2>3, <1>1, <1>2, <1>3
    <3> QED BY <3>1, <2>3, <1>2, <1>4, <1>5
  <2> QED BY <2>1, <2>2, <2>3
<1>7. Spells(t, q, r, L, ct)
  BY <1>2, <1>3, <1>6 DEF Spells
<1>8. ASSUME ToSet(p) \subseteq L PROVE ToSet(q) \subseteq L
  <2>1. Tip(p) \in L \cup {Root}
    BY <1>1, <1>3, <1>4, <1>8 DEF ToSet
  <2>2. n \in L
    BY <2>1 DEF Live
  <2>3. \A i \in 1 .. Len(p) : p[i] \in L
    BY <1>1, <1>8 DEF ToSet
  <2>4. ASSUME NEW i \in DOMAIN q PROVE q[i] \in L
    BY <2>2, <2>3, <1>1, <1>2
  <2> QED BY <2>4 DEF ToSet
<1> QED BY <1>7, <1>8 DEF q

\* match_prefix finds live nodes that spell the prompt: the blocks hold its keys and values.
LEMMA Matching ==
  ASSUME NEW f, NEW L, NEW ct, Tree(tree), Live(tree, f, L, ct), NEW r \in Requests
  PROVE  Spells(tree, MatchPrefix(r), r, L, ct) /\ ToSet(MatchPrefix(r)) \subseteq L
<1> DEFINE Round(p, i) == IF Len(p) = i - 1 /\ Hits(r, i, Tip(p)) # {}
                          THEN Append(p, CHOOSE n \in Hits(r, i, Tip(p)) : TRUE) ELSE p
           n == Full(r)
           W == [i \in 0 .. n |->
                  {p \in Seq(DOMAIN tree) : Spells(tree, p, r, L, ct) /\ ToSet(p) \subseteq L}]
           F == [i \in 1 .. n |-> [p \in W[i - 1] |-> Round(p, i)]]
           after == CHOOSE g : g = [i \in 0 .. n |-> IF i = 0 THEN <<>> ELSE Round(g[i - 1], i)]
<1>1. n \in Nat /\ 0 \in 0 .. n /\ n \in 0 .. n
      /\ \A i \in 1 .. n : i \in 0 .. n /\ i # 0 /\ i - 1 \in 0 .. n
  <2>1. n \in Nat
    BY BlockCounts
  <2> HIDE DEF n
  <2> QED BY <2>1
<1>2. <<>> \in W[0]
  <2>1. <<>> \in Seq(DOMAIN tree) /\ Len(<<>>) = 0 /\ DOMAIN <<>> = {} /\ ToSet(<<>>) = {}
    BY EmptySeq DEF ToSet
  <2>2. Spells(tree, <<>>, r, L, ct)
    BY <2>1, <1>1 DEF Spells
  <2> HIDE DEF n
  <2> QED BY <1>1, <2>1, <2>2
<1>3. ASSUME NEW i \in 1 .. n, NEW p \in W[i - 1] PROVE Round(p, i) \in W[i]
  <2> HIDE DEF n
  <2>1. p \in Seq(DOMAIN tree) /\ Spells(tree, p, r, L, ct) /\ ToSet(p) \subseteq L
    BY <1>1
  <2>2. CASE Len(p) = i - 1 /\ Hits(r, i, Tip(p)) # {}
    <3>1. PICK m \in Hits(r, i, Tip(p)) : Round(p, i) = Append(p, m)
      BY <2>2
    <3>2. m \in DOMAIN tree /\ tree[m].linked /\ tree[m].parent = Tip(p) /\ tree[m].tokens = Tokens(r, i)
      BY DEF Hits, Children
    <3>3. Len(p) < Full(r) /\ i = Len(p) + 1
      BY <2>2, <1>1 DEF n
    <3>4. Append(p, m) \in Seq(DOMAIN tree) /\ Spells(tree, Append(p, m), r, L, ct)
          /\ ToSet(Append(p, m)) \subseteq L
      BY <3>2, <3>3, <2>1, SpellsOn
    <3> HIDE DEF Round
    <3> QED BY <1>1, <3>1, <3>4
  <2>3. CASE ~(Len(p) = i - 1 /\ Hits(r, i, Tip(p)) # {})
    <3>1. Round(p, i) = p
      BY <2>3
    <3> HIDE DEF Round
    <3> QED BY <1>1, <2>1, <3>1
  <2> QED BY <2>2, <2>3
<1>4. MatchPrefix(r) = after[n]
  BY DEF MatchPrefix, After
<1> HIDE DEF n, Round
<1>5. \A i \in 1 .. n : \A p \in W[i - 1] : F[i][p] = Round(p, i)
  OBVIOUS
<1> HIDE DEF F, W
<1>6. PICK run : IsLoop(run, F, n, W, <<>>)
  BY <1>1, <1>2, <1>3, <1>5, LoopRuns
<1>7. run = [i \in 0 .. n |-> IF i = 0 THEN <<>> ELSE Round(run[i - 1], i)]
  <2>1. ASSUME NEW i \in 0 .. n PROVE run[i] = IF i = 0 THEN <<>> ELSE Round(run[i - 1], i)
    <3>1. i = 0 \/ i \in 1 .. n
      BY <1>1
    <3> QED BY <3>1, <1>1, <1>5, <1>6 DEF IsLoop
  <2> QED BY <2>1, <1>6 DEF IsLoop
<1>8. after = [i \in 0 .. n |-> IF i = 0 THEN <<>> ELSE Round(after[i - 1], i)]
  BY <1>7, Zenon
<1> HIDE DEF after
<1>9. after[0] = <<>> /\ \A i \in 1 .. n : after[i] = Round(after[i - 1], i)
  BY <1>1, <1>8
<1>10. after[n] \in W[n]
  <2>1. after[0] \in W[0] /\ \A i \in 1 .. n : after[i - 1] \in W[i - 1] => after[i] \in W[i]
    BY <1>2, <1>3, <1>9
  <2> QED BY <1>1, <2>1, LoopKeeps
<1>11. Spells(tree, after[n], r, L, ct) /\ ToSet(after[n]) \subseteq L
  BY <1>1, <1>10 DEF W
<1> QED BY <1>4, <1>11

----------------------------------------------------------------------------
(* Insertion and eviction.  The states of a prefill, and what holds in them when h says
   which paths are held. *)
Trees == {t \in UNION {[D -> Node] : D \in SUBSET Nat} : Tree(t)}
State == [tree : Trees, cached : Nat, free : Seq(Blocks), whole : BOOLEAN, path : Seq(Nat),
          holds : UNION {[D -> Seq(Nat)] : D \in SUBSET Requests}]
Good(s, h, tb, ct, w) ==
  /\ IsInjective(s.free)
  /\ \E L \in SUBSET DOMAIN s.tree : Sound(s.tree, s.free, h, L, tb, ct, w, s.whole)

\* Trees are the functions on ids that are trees.
LEMMA TreesTyped ==
  ASSUME NEW t
  PROVE  t \in Trees <=> Tree(t)
<1>1. ASSUME Tree(t) PROVE t \in Trees
  <2>1. t \in [DOMAIN t -> Node] /\ DOMAIN t \in SUBSET Nat
    BY <1>1 DEF Tree
  <2> QED BY <2>1, <1>1 DEF Trees
<1> QED BY <1>1 DEF Trees

\* A tree u that has the nodes of t, linked or not, with their tokens, blocks and parents.
Extends(u, t) ==
  /\ DOMAIN t \subseteq DOMAIN u
  /\ \A n \in DOMAIN t : /\ u[n].tokens = t[n].tokens /\ u[n].block = t[n].block
                         /\ u[n].parent = t[n].parent

\* A path spells what it spelled when the tree grows.
LEMMA SpellsKept ==
  ASSUME NEW t, NEW u, NEW p, NEW r, NEW L, NEW M, NEW ct, Extends(u, t), Spells(t, p, r, L, ct),
         M \cap DOMAIN t \subseteq L
  PROVE  Spells(u, p, r, M, ct)
<1>1. p \in Seq(DOMAIN t) /\ DOMAIN t \subseteq DOMAIN u /\ Len(p) <= Full(r)
  BY DEF Spells, Extends
<1>2. p \in Seq(DOMAIN u)
  BY <1>1, SeqMonotonic
<1>3. \A i \in DOMAIN p : p[i] \in DOMAIN t
  BY <1>1
<1>4. ASSUME NEW i \in DOMAIN p
      PROVE  /\ u[p[i]].tokens = Tokens(r, i)
             /\ u[p[i]].parent = IF i = 1 THEN Root ELSE p[i - 1]
             /\ p[i] \in M => ct[u[p[i]].block] = KV(r, i)
  BY <1>3 DEF Spells, Extends
<1> QED BY <1>1, <1>2, <1>4 DEF Spells

\* The positions of a held path are positions of the table, at nodes of the tree.
LEMMA PathsInTable ==
  ASSUME NEW t, NEW f, NEW h, NEW L, NEW tb, NEW ct, NEW w, Paths(t, h, L, ct),
         Owned(t, f, h, L, tb, ct, w), NEW r \in DOMAIN tb
  PROVE  /\ Path(h, r) \in Seq(DOMAIN t) /\ Len(Path(h, r)) \in Nat
         /\ Len(Path(h, r)) <= Full(r) /\ Full(r) <= Len(tb[r]) /\ Full(r) \in Nat
         /\ DOMAIN Path(h, r) = 1 .. Len(Path(h, r))
         /\ DOMAIN tb[r] = 1 .. Len(tb[r]) /\ Len(tb[r]) \in Nat /\ tb[r] \in Seq(Blocks)
         /\ \A i \in 1 .. Len(Path(h, r)) : Path(h, r)[i] \in DOMAIN t
         /\ Spells(t, Path(h, r), r, L, ct)
<1>1. r \in Requests /\ tb[r] \in Seq(Blocks) /\ Full(r) <= Len(tb[r])
  BY DEF Owned
<1>2. Full(r) \in Nat
  BY <1>1, BlockCounts
<1>3. Spells(t, Path(h, r), r, L, ct)
  <2>1. CASE r \in DOMAIN h
    BY <2>1 DEF Path, Paths
  <2>2. CASE r \notin DOMAIN h
    <3>1. <<>> \in Seq(DOMAIN t) /\ Len(<<>>) = 0 /\ DOMAIN <<>> = {}
      BY EmptySeq
    <3> QED BY <3>1, <2>2, <1>2 DEF Path, Spells
  <2> QED BY <2>1, <2>2
<1>4. Path(h, r) \in Seq(DOMAIN t) /\ Len(Path(h, r)) <= Full(r)
  BY <1>3 DEF Spells
<1> QED BY <1>1, <1>2, <1>3, <1>4

\* A request owns the positions it owned when the tree grows.
LEMMA OwnKept ==
  ASSUME NEW t, NEW u, NEW f, NEW h, NEW L, NEW tb, NEW ct, NEW w, Paths(t, h, L, ct),
         Owned(t, f, h, L, tb, ct, w), Extends(u, t), NEW r \in DOMAIN tb
  PROVE  /\ Own(u, h, tb, r) = Own(t, h, tb, r)
         /\ \A i \in DOMAIN Path(h, r) : u[Path(h, r)[i]].block = t[Path(h, r)[i]].block
<1>1. \A i \in DOMAIN Path(h, r) : u[Path(h, r)[i]].block = t[Path(h, r)[i]].block
  BY PathsInTable DEF Extends
<1>2. \A i \in DOMAIN tb[r] : i <= Len(Path(h, r)) => i \in DOMAIN Path(h, r)
  BY PathsInTable
<1> QED BY <1>1, <1>2 DEF Own

\* A finite set of nodes has an oldest one.
LEMMA Oldest ==
  ASSUME NEW t, Tree(t), NEW S \in SUBSET DOMAIN t, S # {}
  PROVE  \E n \in S : \A m \in S : t[m].age <= t[n].age
<1> DEFINE older(n) == {m \in S : t[m].age > t[n].age}
           C == {Cardinality(older(n)) : n \in S}
           R == {p \in Nat \X Nat : p[1] < p[2]}
<1>1. IsFiniteSet(S) /\ \A n \in S : t[n].age \in Nat
  BY FS_Subset DEF Tree, Node
<1>2. ASSUME NEW n \in S
      PROVE  older(n) \in SUBSET S /\ IsFiniteSet(older(n)) /\ Cardinality(older(n)) \in Nat
  <2>1. older(n) \in SUBSET S
    OBVIOUS
  <2> HIDE DEF older
  <2> QED BY <2>1, <1>1, FS_Subset, FS_CardinalityType
<1>3. ASSUME NEW n \in S, NEW m \in S, ~(t[m].age <= t[n].age)
      PROVE  Cardinality(older(m)) < Cardinality(older(n))
  <2>1. older(m) \in SUBSET older(n) /\ m \in older(n) /\ m \notin older(m)
    BY <1>1, <1>3
  <2> HIDE DEF older
  <2>2. Cardinality(older(m)) <= Cardinality(older(n))
        /\ (Cardinality(older(n)) = Cardinality(older(m)) => older(n) = older(m))
    BY <2>1, <1>2, FS_Subset
  <2> QED BY <2>1, <2>2, <1>2
<1> HIDE DEF older
<1>4. C \subseteq Nat /\ C # {}
  BY <1>2
<1>5. IsWellFoundedOn(R, Nat)
  BY NatLessThanWellFounded DEF OpToRel
<1>6. PICK c \in C : \A d \in C : ~(<<d, c>> \in R)
  <2> HIDE DEF C, R
  <2> QED BY <1>4, <1>5, WFMin
<1>7. PICK n \in S : c = Cardinality(older(n))
  BY <1>6
<1>8. ASSUME NEW m \in S, ~(t[m].age <= t[n].age) PROVE FALSE
  <2>1. Cardinality(older(m)) < Cardinality(older(n))
    BY <1>3, <1>8
  <2>2. <<Cardinality(older(m)), c>> \in R
    BY <2>1, <1>2, <1>7
  <2>3. Cardinality(older(m)) \in C
    OBVIOUS
  <2> HIDE DEF C, R
  <2> QED BY <2>2, <2>3, <1>6
<1> QED BY <1>8

\* A node without children leaves the tree and its block becomes free.
LEMMA SoundWithout ==
  ASSUME NEW t, NEW f, NEW h, NEW L, NEW tb, NEW ct, NEW w, NEW wh,
         Sound(t, f, h, L, tb, ct, w, wh), NEW v \in L, Children(t, v) = {},
         NEW u, Tree(u), DOMAIN u = DOMAIN t, Extends(u, t),
         \A n \in DOMAIN t : u[n].linked = (t[n].linked /\ n # v),
         NEW g, ToSet(g) = ToSet(f) \cup {t[v].block}
  PROVE  Sound(u, g, h, L \ {v}, tb, ct, w, FALSE)
<1> DEFINE M == L \ {v}
<1>1. Tree(t) /\ Live(t, f, L, ct) /\ Paths(t, h, L, ct) /\ Owned(t, f, h, L, tb, ct, w)
  BY DEF Sound
<1>2. M \subseteq DOMAIN u /\ M \subseteq L /\ L \subseteq DOMAIN t
  BY <1>1 DEF Live
<1>3. Live(u, g, M, ct)
  <2>1. ASSUME NEW n \in DOMAIN u, u[n].linked PROVE n \in M <=> u[n].parent \in M \cup {Root}
    <3>1. n \in DOMAIN t /\ t[n].linked /\ n # v /\ u[n].parent = t[n].parent
      BY <2>1 DEF Extends
    <3>2. t[n].parent # v
      BY <3>1 DEF Children
    <3> QED BY <3>1, <3>2, <1>1 DEF Live
  <2>2. \A m, n \in M : u[m].block = u[n].block => m = n
    BY <1>1, <1>2 DEF Live, Extends
  <2>3. ASSUME NEW n \in M
        PROVE  /\ u[n].block \notin ToSet(g)
               /\ ct[u[n].block] \in Seq(Token) /\ Len(ct[u[n].block]) <= MaxLength
               /\ u[n].linked =>
                    ct[u[n].block] = (IF u[n].parent = Root THEN <<>>
                                      ELSE ct[u[u[n].parent].block]) \o u[n].tokens
    <3>1. n \in L /\ n # v /\ n \in DOMAIN t /\ u[n].block = t[n].block
          /\ u[n].parent = t[n].parent /\ u[n].tokens = t[n].tokens /\ (u[n].linked => t[n].linked)
      BY <1>2 DEF Extends
    <3>2. /\ t[n].block \notin ToSet(f)
          /\ ct[t[n].block] \in Seq(Token) /\ Len(ct[t[n].block]) <= MaxLength
          /\ t[n].linked =>
               ct[t[n].block] = (IF t[n].parent = Root THEN <<>>
                                 ELSE ct[t[t[n].parent].block]) \o t[n].tokens
      BY <3>1, <1>1 DEF Live
    <3>3. t[n].block # t[v].block
      BY <3>1, <1>1 DEF Live
    <3>4. t[n].parent # Root => u[t[n].parent].block = t[t[n].parent].block
      BY <3>1, <1>1 DEF Tree, Extends
    <3>5. u[n].linked => ct[u[n].block] = (IF u[n].parent = Root THEN <<>>
                                           ELSE ct[u[u[n].parent].block]) \o u[n].tokens
      BY <3>1, <3>2, <3>4
    <3> QED BY <3>1, <3>2, <3>3, <3>5
  <2> HIDE DEF M
  <2> QED BY <1>2, <2>1, <2>2, <2>3 DEF Live
<1>4. Paths(u, h, M, ct)
  <2>1. M \cap DOMAIN t \subseteq L
    BY <1>2
  <2> HIDE DEF M
  <2> QED BY <2>1, <1>1, SpellsKept DEF Paths
<1>5. Owned(u, g, h, M, tb, ct, w)
  <2>1. \A r \in DOMAIN tb : Own(u, h, tb, r) = Own(t, h, tb, r)
    BY <1>1, OwnKept
  <2>2. ASSUME NEW r \in DOMAIN tb, NEW i \in Own(u, h, tb, r)
        PROVE  /\ tb[r][i] \notin ToSet(g) /\ \A n \in M : u[n].block # tb[r][i]
               /\ \A q \in DOMAIN tb : \A j \in Own(u, h, tb, q) : tb[q][j] = tb[r][i] => q = r /\ j = i
               /\ r \in w => ct[tb[r][i]] = KV(r, i)
    <3>1. i \in Own(t, h, tb, r)
      BY <2>1
    <3>2. /\ tb[r][i] \notin ToSet(f) /\ \A n \in L : t[n].block # tb[r][i]
          /\ \A q \in DOMAIN tb : \A j \in Own(t, h, tb, q) : tb[q][j] = tb[r][i] => q = r /\ j = i
          /\ r \in w => ct[tb[r][i]] = KV(r, i)
      BY <3>1, <1>1 DEF Owned
    <3>3. \A n \in M : n \in L /\ u[n].block = t[n].block
      BY <1>2 DEF Extends
    <3>4. tb[r][i] \notin ToSet(g)
      BY <3>2
    <3> HIDE DEF M
    <3> QED BY <2>1, <3>2, <3>3, <3>4
  <2>3. ASSUME NEW r \in DOMAIN tb \ w, NEW i \in DOMAIN Path(h, r)
        PROVE  tb[r][i] = u[Path(h, r)[i]].block
    <3>1. tb[r][i] = t[Path(h, r)[i]].block
      BY <1>1 DEF Owned
    <3>2. u[Path(h, r)[i]].block = t[Path(h, r)[i]].block
      BY <1>1, OwnKept
    <3> QED BY <3>1, <3>2
  <2>4. DOMAIN tb \subseteq Requests /\ \A r \in DOMAIN tb : tb[r] \in Seq(Blocks) /\ Full(r) <= Len(tb[r])
    BY <1>1 DEF Owned
  <2> HIDE DEF M
  <2> QED BY <2>2, <2>3, <2>4 DEF Owned
<1> HIDE DEF M
<1>6. Sound(u, g, h, M, tb, ct, w, FALSE)
  BY <1>3, <1>4, <1>5 DEF Sound
<1> QED BY <1>6 DEF M

\* One eviction takes the block of one node, which nothing else owns.
LEMMA Evicted ==
  ASSUME NEW s \in State, NEW h, NEW tb, NEW ct, NEW w, Good(s, h, tb, ct, w), s.cached >= 1
  PROVE  /\ Evict(s) \in State /\ Good(Evict(s), h, tb, ct, w)
         /\ Evict(s).cached >= s.cached - 1 /\ Evict(s).holds = s.holds /\ Evict(s).path = s.path
<1> DEFINE t == s.tree
           leaves == {n \in InTree(t) : t[n].lock = 0 /\ Children(t, n) = {}}
           v == CHOOSE n \in leaves : \A m \in leaves : t[m].age <= t[n].age
           u == [t EXCEPT ![v].linked = FALSE]
           g == GiveBack(s.free, t[v].block)
           e == [s EXCEPT !.tree = u, !.free = g, !.cached = @ - 1, !.whole = FALSE]
<1>1. PICK L \in SUBSET DOMAIN t : Sound(t, s.free, h, L, tb, ct, w, s.whole)
  BY DEF Good
<1>2. Tree(t) /\ Live(t, s.free, L, ct)
  BY <1>1 DEF Sound
<1>3. s.cached \in Nat /\ s.free \in Seq(Blocks) /\ IsInjective(s.free)
  BY DEF State, Good
<1>4. CASE leaves = {}
  <2>1. Evict(s) = s
    BY <1>4 DEF Evict
  <2> QED BY <2>1, <1>3
<1>5. CASE leaves # {}
  <2>1. Evict(s) = e
    BY <1>5 DEF Evict
  <2>2. v \in leaves
    <3>1. leaves \in SUBSET DOMAIN t
      BY <1>2, TreeIsLive
    <3> HIDE DEF leaves, t
    <3>2. \E n \in leaves : \A m \in leaves : t[m].age <= t[n].age
      BY <3>1, <1>2, <1>5, Oldest
    <3> QED BY <3>2
  <2>3. v \in L /\ v \in DOMAIN t /\ Children(t, v) = {}
    <3>1. v \in InTree(t) /\ Children(t, v) = {}
      <4> HIDE DEF v
      <4> QED BY <2>2
    <3> HIDE DEF v
    <3> QED BY <3>1, <1>2, TreeIsLive
  <2> HIDE DEF v, t
  <2>4. t \in [DOMAIN t -> Node] /\ t[v] \in Node /\ t[v].block \in Blocks
    BY <1>2, <2>3 DEF Tree, Node
  <2>5. DOMAIN u = DOMAIN t /\ u = [n \in DOMAIN t |-> u[n]]
    OBVIOUS
  <2>6. ASSUME NEW n \in DOMAIN t
        PROVE  /\ u[n] \in Node /\ u[n].age = t[n].age
               /\ u[n].tokens = t[n].tokens /\ u[n].block = t[n].block
               /\ u[n].parent = t[n].parent /\ u[n].linked = (t[n].linked /\ n # v)
    <3>1. t[n] \in Node
      BY <2>4
    <3>2. CASE n = v
      <4>1. u[n] = [t[n] EXCEPT !.linked = FALSE]
        BY <2>3, <3>2
      <4> QED BY <4>1, <3>1, <3>2 DEF Node
    <3>3. CASE n # v
      <4>1. u[n] = t[n]
        BY <3>3
      <4> QED BY <4>1, <3>1, <3>3 DEF Node
    <3> QED BY <3>2, <3>3
  <2> HIDE DEF u
  <2>7. Tree(u)
    <3>1. u \in [DOMAIN u -> Node]
      BY <2>5, <2>6
    <3> QED BY <3>1, <2>5, <2>6, <1>2 DEF Tree
  <2>8. Extends(u, t)
    BY <2>5, <2>6 DEF Extends
  <2>9. g \in Seq(Blocks) /\ IsInjective(g) /\ ToSet(g) = ToSet(s.free) \cup {t[v].block}
    BY <1>3, <2>4, GivesBack
  <2> HIDE DEF g
  <2>10. Sound(u, g, h, L \ {v}, tb, ct, w, FALSE)
    <3>1. Sound(t, s.free, h, L, tb, ct, w, s.whole)
      BY <1>1 DEF t
    <3>2. \A n \in DOMAIN t : u[n].linked = (t[n].linked /\ n # v)
      BY <2>6
    <3>3. DOMAIN u = DOMAIN t /\ v \in L /\ Children(t, v) = {}
      BY <2>3, <2>5
    <3>4. ToSet(g) = ToSet(s.free) \cup {t[v].block}
      BY <2>9
    <3> QED BY <3>1, <3>2, <3>3, <3>4, <2>7, <2>8, SoundWithout
  <2>11. /\ e.tree = u /\ e.free = g /\ e.cached = s.cached - 1 /\ e.whole = FALSE
         /\ e.path = s.path /\ e.holds = s.holds /\ e \in State
    <3>1. u \in Trees
      BY <2>7, TreesTyped
    <3>2. s.cached - 1 \in Nat
      BY <1>3
    <3> QED BY <3>1, <3>2, <2>9 DEF State
  <2> HIDE DEF e
  <2>12. L \ {v} \in SUBSET DOMAIN u
    BY <1>1, <2>5 DEF t
  <2>13. Good(e, h, tb, ct, w)
    BY <2>9, <2>10, <2>11, <2>12 DEF Good
  <2> QED BY <2>1, <2>11, <2>13, <1>3
<1> QED BY <1>4, <1>5

\* _evict_lru_blocks: eviction after eviction.
LEMMA EvictedLRU ==
  ASSUME NEW s \in State, NEW h, NEW tb, NEW ct, NEW w, Good(s, h, tb, ct, w)
  PROVE  /\ EvictLRU(s) \in State /\ Good(EvictLRU(s), h, tb, ct, w)
         /\ EvictLRU(s).holds = s.holds /\ EvictLRU(s).path = s.path
<1>1. CASE s.cached <= MaxCached
  BY <1>1 DEF EvictLRU
<1>2. CASE ~(s.cached <= MaxCached)
  <2> DEFINE Round(u, i) == Evict(u)
             n == s.cached - MaxCached
             W == [i \in 0 .. n |->
                    {u \in State : /\ Good(u, h, tb, ct, w) /\ u.cached >= s.cached - i
                                   /\ u.holds = s.holds /\ u.path = s.path}]
             F == [i \in 1 .. n |-> [u \in W[i - 1] |-> Round(u, i)]]
             after == CHOOSE g : g = [i \in 0 .. n |-> IF i = 0 THEN s ELSE Round(g[i - 1], i)]
  <2>1. s.cached \in Nat /\ MaxCached \in Nat
    BY BCAssumption DEF State
  <2>2. n \in Nat /\ 0 \in 0 .. n /\ n \in 0 .. n /\ n <= s.cached
        /\ \A i \in 1 .. n : i \in Nat /\ i \in 0 .. n /\ i # 0 /\ i - 1 \in 0 .. n
    BY <2>1, <1>2
  <2>3. EvictLRU(s) = after[n]
    BY <1>2 DEF EvictLRU, After
  <2> HIDE DEF n
  <2>4. s \in W[0]
    <3>1. s.cached >= s.cached - 0
      BY <2>1
    <3> QED BY <3>1, <2>2
  <2>5. ASSUME NEW i \in 1 .. n, NEW u \in W[i - 1] PROVE Round(u, i) \in W[i]
    <3>1. u \in State /\ Good(u, h, tb, ct, w) /\ u.cached >= s.cached - (i - 1)
          /\ u.holds = s.holds /\ u.path = s.path
      BY <2>2
    <3>2. u.cached \in Nat /\ u.cached >= 1
      <4>1. u.cached \in Nat
        BY <3>1 DEF State
      <4> QED BY <4>1, <3>1, <2>1, <2>2
    <3>3. /\ Evict(u) \in State /\ Good(Evict(u), h, tb, ct, w)
          /\ Evict(u).cached >= u.cached - 1 /\ Evict(u).holds = u.holds /\ Evict(u).path = u.path
      BY <3>1, <3>2, Evicted
    <3>4. Evict(u).cached >= s.cached - i
      <4>1. Evict(u).cached \in Nat
        BY <3>3 DEF State
      <4> QED BY <4>1, <3>1, <3>2, <3>3, <2>1, <2>2
    <3> QED BY <3>1, <3>3, <3>4, <2>2
  <2> HIDE DEF Round
  <2>6. \A i \in 1 .. n : \A u \in W[i - 1] : F[i][u] = Round(u, i)
    OBVIOUS
  <2> HIDE DEF F, W
  <2>7. PICK run : IsLoop(run, F, n, W, s)
    BY <2>2, <2>4, <2>5, <2>6, LoopRuns
  <2>8. run = [i \in 0 .. n |-> IF i = 0 THEN s ELSE Round(run[i - 1], i)]
    <3>1. ASSUME NEW i \in 0 .. n PROVE run[i] = IF i = 0 THEN s ELSE Round(run[i - 1], i)
      <4>1. i = 0 \/ i \in 1 .. n
        BY <2>2
      <4> QED BY <4>1, <2>2, <2>6, <2>7 DEF IsLoop
    <3> QED BY <3>1, <2>7 DEF IsLoop
  <2>9. after = [i \in 0 .. n |-> IF i = 0 THEN s ELSE Round(after[i - 1], i)]
    BY <2>8, Zenon
  <2> HIDE DEF after
  <2>10. after[0] = s /\ \A i \in 1 .. n : after[i] = Round(after[i - 1], i)
    BY <2>2, <2>9
  <2>11. after[n] \in W[n]
    <3>1. after[0] \in W[0] /\ \A i \in 1 .. n : after[i - 1] \in W[i - 1] => after[i] \in W[i]
      BY <2>4, <2>5, <2>10
    <3> QED BY <2>2, <3>1, LoopKeeps
  <2>12. /\ after[n] \in State /\ Good(after[n], h, tb, ct, w)
         /\ after[n].holds = s.holds /\ after[n].path = s.path
    BY <2>2, <2>11 DEF W
  <2> QED BY <2>3, <2>12
<1> QED BY <1>1, <1>2

\* The held paths that r's own becomes q, longer by one node n: a node whose block is the
\* one of the table, or not live.
LEMMA OwnedOn ==
  ASSUME NEW t, NEW u, NEW f, NEW h, NEW L, NEW M, NEW tb, NEW ct, NEW w,
         Paths(t, h, L, ct), Owned(t, f, h, L, tb, ct, w), Extends(u, t),
         NEW r \in DOMAIN tb, r \in w, NEW n \in DOMAIN u, Len(Path(h, r)) < Full(r),
         NEW k, k = Len(Path(h, r)) + 1,
         \A m \in M : (m \in L /\ m \in DOMAIN t) \/ (m = n /\ u[n].block = tb[r][k])
  PROVE  Owned(u, f, Put(h, r, Append(Path(h, r), n)), M, tb, ct, w)
<1> DEFINE p == Path(h, r)
           q == Append(p, n)
           g == Put(h, r, q)
<1>1. /\ p \in Seq(DOMAIN t) /\ Len(p) \in Nat /\ DOMAIN t \subseteq DOMAIN u
      /\ DOMAIN tb[r] = 1 .. Len(tb[r]) /\ Len(tb[r]) \in Nat /\ Full(r) \in Nat
      /\ Full(r) <= Len(tb[r])
  BY PathsInTable DEF Extends
<1>2. /\ Len(q) = k /\ q[k] = n
      /\ \A i \in 1 .. Len(p) : q[i] = p[i] /\ u[p[i]].block = t[p[i]].block
  BY <1>1 DEF Extends
<1>3. Path(g, r) = q /\ \A x : x # r => Path(g, x) = Path(h, x)
  BY DEF Path, Put
<1> HIDE DEF p, q, g
<1>4. k \in DOMAIN tb[r] /\ k \in Own(t, h, tb, r)
  BY <1>1 DEF Own, p
<1>5. \A i \in Own(u, g, tb, r) : i \in Own(t, h, tb, r) /\ (u[n].block = tb[r][k] => i # k)
  <2> SUFFICES ASSUME NEW i \in Own(u, g, tb, r)
               PROVE  i \in Own(t, h, tb, r) /\ (u[n].block = tb[r][k] => i # k)
    OBVIOUS
  <2>1. i \in DOMAIN tb[r] /\ (i <= k => tb[r][i] # u[q[i]].block)
    BY <1>2, <1>3 DEF Own
  <2>2. i <= Len(p) => tb[r][i] # t[p[i]].block
    BY <2>1, <1>1, <1>2 DEF p
  <2>3. u[n].block = tb[r][k] => i # k
    BY <2>1, <1>1, <1>2 DEF p
  <2> QED BY <2>1, <2>2, <2>3 DEF Own, p
<1>6. \A x \in DOMAIN tb : Own(u, g, tb, x) \subseteq Own(t, h, tb, x)
  <2> SUFFICES ASSUME NEW x \in DOMAIN tb, x # r PROVE Own(u, g, tb, x) \subseteq Own(t, h, tb, x)
    BY <1>5
  <2>1. Own(u, g, tb, x) = Own(u, h, tb, x)
    BY <1>3 DEF Own
  <2> QED BY <2>1, OwnKept
<1>7. ASSUME NEW x \in DOMAIN tb, NEW i \in Own(u, g, tb, x)
      PROVE  /\ tb[x][i] \notin ToSet(f) /\ \A m \in M : u[m].block # tb[x][i]
             /\ \A y \in DOMAIN tb : \A j \in Own(u, g, tb, y) : tb[y][j] = tb[x][i] => y = x /\ j = i
             /\ x \in w => ct[tb[x][i]] = KV(x, i)
  <2>1. i \in Own(t, h, tb, x)
    BY <1>6
  <2>2. /\ tb[x][i] \notin ToSet(f) /\ \A m \in L : t[m].block # tb[x][i]
        /\ \A y \in DOMAIN tb : \A j \in Own(t, h, tb, y) : tb[y][j] = tb[x][i] => y = x /\ j = i
        /\ x \in w => ct[tb[x][i]] = KV(x, i)
    BY <2>1 DEF Owned
  <2>3. ASSUME NEW m \in M PROVE u[m].block # tb[x][i]
    <3>1. CASE m \in L /\ m \in DOMAIN t
      BY <3>1, <2>2 DEF Extends
    <3>2. CASE m = n /\ u[n].block = tb[r][k]
      <4>1. ASSUME tb[r][k] = tb[x][i] PROVE FALSE
        <5>1. r = x /\ k = i
          BY <4>1, <2>2, <1>4
        <5> QED BY <5>1, <3>2, <1>5
      <4> QED BY <4>1, <3>2
    <3> QED BY <3>1, <3>2
  <2> QED BY <2>2, <2>3, <1>6
<1>8. ASSUME NEW x \in DOMAIN tb \ w, NEW i \in DOMAIN Path(g, x)
      PROVE  tb[x][i] = u[Path(g, x)[i]].block
  <2>1. x # r /\ Path(g, x) = Path(h, x)
    BY <1>3
  <2>2. tb[x][i] = t[Path(h, x)[i]].block
    BY <2>1 DEF Owned
  <2> QED BY <2>1, <2>2, OwnKept
<1>9. DOMAIN tb \subseteq Requests /\ \A x \in DOMAIN tb : tb[x] \in Seq(Blocks) /\ Full(x) <= Len(tb[x])
  BY DEF Owned
<1>10. Owned(u, f, g, M, tb, ct, w)
  BY <1>7, <1>8, <1>9 DEF Owned
<1> QED BY <1>10 DEF g, q, p

\* Another path is held.
LEMMA PathsOn ==
  ASSUME NEW t, NEW u, NEW h, NEW L, NEW M, NEW ct, Paths(t, h, L, ct), Extends(u, t),
         M \cap DOMAIN t \subseteq L, NEW r \in Requests, NEW q, Spells(u, q, r, M, ct)
  PROVE  Paths(u, Put(h, r, q), M, ct)
<1>1. DOMAIN Put(h, r, q) = DOMAIN h \cup {r} /\ DOMAIN h \subseteq Requests
  BY DEF Put, Paths
<1>2. ASSUME NEW x \in DOMAIN h \cup {r} PROVE Spells(u, Put(h, r, q)[x], x, M, ct)
  <2>1. CASE x = r
    <3>1. Put(h, r, q)[x] = q
      BY <2>1 DEF Put
    <3> QED BY <3>1, <2>1
  <2>2. CASE x # r
    <3>1. Put(h, r, q)[x] = h[x] /\ x \in DOMAIN h
      BY <2>2 DEF Put
    <3>2. Spells(t, h[x], x, L, ct)
      BY <3>1 DEF Paths
    <3> QED BY <3>1, <3>2, SpellsKept
  <2> QED BY <2>1, <2>2
<1> QED BY <1>1, <1>2 DEF Paths

\* A block that is in the tree already: the path of r goes on with its node.
LEMMA SoundWithSame ==
  ASSUME NEW t, NEW f, NEW h, NEW L, NEW tb, NEW ct, NEW w, NEW wh,
         Sound(t, f, h, L, tb, ct, w, wh), NEW r \in DOMAIN tb, r \in w,
         Len(Path(h, r)) < Full(r), NEW n \in Children(t, Tip(Path(h, r))),
         t[n].tokens = Tokens(r, Len(Path(h, r)) + 1)
  PROVE  Sound(t, f, Put(h, r, Append(Path(h, r), n)), L, tb, ct, w, wh)
<1>1. Tree(t) /\ Live(t, f, L, ct) /\ Paths(t, h, L, ct) /\ Owned(t, f, h, L, tb, ct, w)
  BY DEF Sound
<1>2. r \in Requests /\ L \subseteq DOMAIN t /\ Extends(t, t)
  BY <1>1 DEF Owned, Live, Extends
<1>3. n \in DOMAIN t /\ t[n].linked /\ t[n].parent = Tip(Path(h, r))
  BY DEF Children
<1>4. Spells(t, Path(h, r), r, L, ct)
  BY <1>1, PathsInTable
<1>5. Spells(t, Append(Path(h, r), n), r, L, ct)
  BY <1>1, <1>2, <1>3, <1>4, SpellsOn
<1>6. Paths(t, Put(h, r, Append(Path(h, r), n)), L, ct)
  BY <1>1, <1>2, <1>5, PathsOn
<1>7. Owned(t, f, Put(h, r, Append(Path(h, r), n)), L, tb, ct, w)
  <2>1. PICK k : k = Len(Path(h, r)) + 1
    OBVIOUS
  <2>2. \A m \in L : (m \in L /\ m \in DOMAIN t) \/ (m = n /\ t[n].block = tb[r][k])
    BY <1>2
  <2> QED BY <1>1, <1>2, <1>3, <2>1, <2>2, OwnedOn
<1> QED BY <1>1, <1>6, <1>7 DEF Sound

Joins(u, n, t, p, tokens, block) ==
  /\ n \notin DOMAIN t /\ DOMAIN u = DOMAIN t \cup {n} /\ Extends(u, t)
  /\ \A m \in DOMAIN t : u[m].linked => t[m].linked
  /\ u[n].tokens = tokens /\ u[n].block = block /\ u[n].parent = Tip(p) /\ u[n].linked

\* A block that is new in the tree: the path of r goes on with a node n of its own, and
\* others may be displaced.
LEMMA SoundWithNew ==
  ASSUME NEW t, NEW f, NEW h, NEW L, NEW tb, NEW ct, NEW w, NEW wh,
         Sound(t, f, h, L, tb, ct, w, wh), NEW r \in DOMAIN tb, r \in w,
         Len(Path(h, r)) < Full(r), NEW k, k = Len(Path(h, r)) + 1,
         NEW u, NEW n, Joins(u, n, t, Path(h, r), Tokens(r, k), tb[r][k]), Tree(u),
         NEW v, v => wh /\ \A m \in DOMAIN t : u[m].linked = t[m].linked
  PROVE  \E M \in SUBSET DOMAIN u :
           Sound(u, f, Put(h, r, Append(Path(h, r), n)), M, tb, ct, w, v)
<1> DEFINE p == Path(h, r)
           M == IF Tip(p) \in L \cup {Root} THEN L \cup {n} ELSE L
<1>0. /\ n \notin DOMAIN t /\ DOMAIN u = DOMAIN t \cup {n} /\ Extends(u, t)
      /\ \A m \in DOMAIN t : u[m].linked => t[m].linked
      /\ u[n].tokens = Tokens(r, k) /\ u[n].block = tb[r][k] /\ u[n].parent = Tip(p) /\ u[n].linked
  BY DEF Joins
<1>1. /\ Tree(t) /\ Live(t, f, L, ct) /\ Paths(t, h, L, ct) /\ Owned(t, f, h, L, tb, ct, w)
      /\ wh => Intact(t, f, L, tb)
  BY DEF Sound
<1>2. r \in Requests /\ L \subseteq DOMAIN t /\ M \subseteq DOMAIN u /\ n # Root /\ n \notin L
      /\ Root \notin DOMAIN t
  BY <1>0, <1>1 DEF Owned, Live, Tree
<1>3. /\ p \in Seq(DOMAIN t) /\ Len(p) \in Nat /\ DOMAIN p = 1 .. Len(p) /\ Full(r) \in Nat
      /\ Spells(t, p, r, L, ct) /\ DOMAIN tb[r] = 1 .. Len(tb[r]) /\ Len(tb[r]) \in Nat
      /\ Full(r) <= Len(tb[r]) /\ k \in 1 .. Full(r) /\ k - 1 = Len(p)
  BY <1>1, PathsInTable
<1>4. Tip(p) = (IF k = 1 THEN Root ELSE p[k - 1]) /\ Tip(p) \in DOMAIN t \cup {Root} /\ Tip(p) # n
      /\ (k # 1 => k - 1 \in DOMAIN p /\ p[k - 1] \in DOMAIN t /\ p[k - 1] # Root)
  BY <1>0, <1>2, <1>3, Tips
<1>5. /\ tb[r][k] \notin ToSet(f) /\ ct[tb[r][k]] = KV(r, k)
      /\ \A m \in L : t[m].block # tb[r][k]
  <2>1. k \in Own(t, h, tb, r)
    BY <1>3 DEF Own
  <2> QED BY <2>1, <1>1 DEF Owned
<1>6. ASSUME NEW m \in M PROVE (m \in L /\ m \in DOMAIN t) \/ (m = n /\ u[n].block = tb[r][k])
  BY <1>0, <1>2
<1>7. ASSUME n \in M
      PROVE  ct[u[n].block] = (IF u[n].parent = Root THEN <<>> ELSE ct[u[u[n].parent].block])
                              \o u[n].tokens
  <2>1. Tip(p) \in L \cup {Root}
    BY <1>7, <1>2
  <2>2. CASE k = 1
    BY <1>0, <2>2, <1>2, <1>3, <1>4, <1>5, KVGrows
  <2>3. CASE k # 1
    <3>1. p[k - 1] \in L /\ Tip(p) = p[k - 1] /\ p[k - 1] # Root
      BY <2>1, <2>3, <1>4
    <3>2. ct[t[p[k - 1]].block] = KV(r, k - 1) /\ u[p[k - 1]].block = t[p[k - 1]].block
      BY <1>0, <3>1, <2>3, <1>3, <1>4 DEF Spells, Extends
    <3>3. KV(r, k) = KV(r, k - 1) \o Tokens(r, k)
      BY <2>3, <1>2, <1>3, KVGrows
    <3> QED BY <1>0, <3>1, <3>2, <3>3, <1>5
  <2> QED BY <2>2, <2>3
<1> HIDE DEF p
<1>8. Live(u, f, M, ct)
  <2>1. ASSUME NEW m \in DOMAIN u, u[m].linked PROVE m \in M <=> u[m].parent \in M \cup {Root}
    <3>1. CASE m = n
      BY <1>0, <3>1, <1>2, <1>4 DEF p
    <3>2. CASE m # n
      <4>1. m \in DOMAIN t /\ t[m].linked /\ u[m].parent = t[m].parent
        BY <1>0, <3>2, <2>1 DEF Extends
      <4>2. t[m].parent # n /\ (m \in L <=> t[m].parent \in L \cup {Root})
        BY <1>0, <4>1, <1>1, <1>2 DEF Live, Tree
      <4> QED BY <4>1, <4>2, <3>2
    <3> QED BY <3>1, <3>2
  <2>2. ASSUME NEW x \in M, NEW m \in M, u[x].block = u[m].block PROVE x = m
    <3> HIDE DEF M
    <3>1. CASE x \in L /\ m \in L
      BY <1>0, <3>1, <2>2, <1>1, <1>2 DEF Live, Extends
    <3>2. CASE x = n /\ m \in L
      BY <1>0, <3>2, <2>2, <1>2, <1>5 DEF Extends
    <3>3. CASE m = n /\ x \in L
      BY <1>0, <3>3, <2>2, <1>2, <1>5 DEF Extends
    <3> QED BY <3>1, <3>2, <3>3, <1>6
  <2>3. ASSUME NEW m \in M
        PROVE  /\ u[m].block \notin ToSet(f)
               /\ ct[u[m].block] \in Seq(Token) /\ Len(ct[u[m].block]) <= MaxLength
               /\ u[m].linked =>
                    ct[u[m].block] = (IF u[m].parent = Root THEN <<>>
                                      ELSE ct[u[u[m].parent].block]) \o u[m].tokens
    <3>1. CASE m = n
      <4>1. KV(r, k) \in Seq(Token) /\ Len(KV(r, k)) <= MaxLength
        BY <1>2, <1>3, KVGrows
      <4> HIDE DEF M
      <4> QED BY <1>0, <4>1, <3>1, <2>3, <1>5, <1>7
    <3>2. CASE m # n
      <4>1. m \in L /\ m \in DOMAIN t /\ u[m].block = t[m].block
            /\ u[m].parent = t[m].parent /\ u[m].tokens = t[m].tokens /\ (u[m].linked => t[m].linked)
        BY <1>0, <3>2, <1>6 DEF Extends
      <4>2. /\ t[m].block \notin ToSet(f)
            /\ ct[t[m].block] \in Seq(Token) /\ Len(ct[t[m].block]) <= MaxLength
            /\ t[m].linked =>
                 ct[t[m].block] = (IF t[m].parent = Root THEN <<>>
                                   ELSE ct[t[t[m].parent].block]) \o t[m].tokens
        BY <4>1, <1>1 DEF Live
      <4>3. t[m].parent # Root => u[t[m].parent].block = t[t[m].parent].block
        BY <1>0, <4>1, <1>1 DEF Tree, Extends
      <4>4. u[m].linked => ct[u[m].block] = (IF u[m].parent = Root THEN <<>>
                                             ELSE ct[u[u[m].parent].block]) \o u[m].tokens
        BY <4>1, <4>2, <4>3
      <4> QED BY <4>1, <4>2, <4>4
    <3> QED BY <3>1, <3>2
  <2> HIDE DEF M
  <2> QED BY <1>2, <2>1, <2>2, <2>3 DEF Live
<1>9. M \cap DOMAIN t \subseteq L
  BY <1>0, <1>6
<1>10. Intact(t, f, L, tb) /\ (\A m \in DOMAIN t : u[m].linked = t[m].linked) => Intact(u, f, M, tb)
  <2> SUFFICES ASSUME Intact(t, f, L, tb), \A m \in DOMAIN t : u[m].linked = t[m].linked
               PROVE  Intact(u, f, M, tb)
    OBVIOUS
  <2>1. M = DOMAIN u
    BY <1>0, <1>4 DEF Intact, p
  <2>2. \A m \in DOMAIN u : u[m].linked
    BY <1>0 DEF Intact
  <2> HIDE DEF M
  <2>3. ASSUME NEW b \in Blocks
        PROVE  \/ b \in ToSet(f) \/ \E m \in M : u[m].block = b
               \/ \E x \in DOMAIN tb : b \in ToSet(tb[x])
    BY <1>0, <2>1 DEF Intact, Extends
  <2> QED BY <2>1, <2>2, <2>3 DEF Intact
<1> HIDE DEF M
<1>11. Spells(u, p, r, M, ct)
  BY <1>0, <1>3, <1>9, SpellsKept
<1>12. Spells(u, Append(p, n), r, M, ct)
  BY <1>0, <1>2, <1>3, <1>8, <1>11, SpellsOn DEF p
<1>13. Paths(u, Put(h, r, Append(p, n)), M, ct)
  BY <1>0, <1>1, <1>2, <1>9, <1>12, PathsOn
<1>14. Owned(u, f, Put(h, r, Append(p, n)), M, tb, ct, w)
  BY <1>0, <1>1, <1>6, OwnedOn DEF p
<1>15. Sound(u, f, Put(h, r, Append(p, n)), M, tb, ct, w, v)
  BY <1>1, <1>8, <1>10, <1>13, <1>14 DEF Sound
<1> QED BY <1>2, <1>15 DEF p

\* There is an id that no node has.
LEMMA NewIds ==
  ASSUME NEW t, Tree(t)
  PROVE  NewId(t) \in Nat \ {Root} /\ NewId(t) \notin DOMAIN t
<1> DEFINE c == Cardinality(DOMAIN t)
<1>1. IsFiniteSet(DOMAIN t) /\ c \in Nat
  BY FS_CardinalityType DEF Tree
<1> HIDE DEF c
<1>2. IsFiniteSet(1 .. (c + 1)) /\ Cardinality(1 .. (c + 1)) = c + 1
  <2>1. c + 1 \in Int /\ ~(1 > c + 1) /\ (c + 1) - 1 + 1 = c + 1
    BY <1>1
  <2> QED BY <2>1, FS_Interval
<1>3. ASSUME 1 .. (c + 1) \subseteq DOMAIN t PROVE FALSE
  <2>1. c + 1 <= c
    BY <1>1, <1>2, <1>3, FS_Subset DEF c
  <2> QED BY <2>1, <1>1
<1>4. \E n \in 1 .. (c + 1) : n \notin DOMAIN t
  BY <1>3
<1>5. NewId(t) \in 1 .. (c + 1) /\ NewId(t) \notin DOMAIN t
  BY <1>4 DEF NewId, c
<1> QED BY <1>1, <1>5 DEF Root

\* insert_block makes the path of r longer by one node.
LEMMA Inserting ==
  ASSUME NEW s \in State, NEW h, NEW tb, NEW ct, NEW w, Good(s, h, tb, ct, w),
         NEW r \in DOMAIN tb, r \in w, Path(h, r) = s.path, Len(s.path) < Full(r),
         NEW k, k = Len(s.path) + 1, NEW e, e = InsertBlock(s, Tokens(r, k), tb[r][k])
  PROVE  /\ e \in State /\ e.holds = s.holds /\ Len(e.path) = k
         /\ Good(e, Put(h, r, e.path), tb, ct, w)
<1> DEFINE t == s.tree
           p == s.path
           children == Children(t, Tip(p))
           same == {n \in children : t[n].tokens = Tokens(r, k)}
           displaced == {n \in children : t[n].tokens[1] = Tokens(r, k)[1]}
           new == NewId(t)
           node == [tokens |-> Tokens(r, k), block |-> tb[r][k], parent |-> Tip(p),
                    lock |-> 0, linked |-> TRUE, age |-> 0]
           kept == [n \in DOMAIN t |->
                      [t[n] EXCEPT !.linked = @ /\ n \notin displaced, !.age = @ + 1]]
           u == Put(kept, new, node)
           whole1 == s.whole /\ displaced = {}
           s1 == [s EXCEPT !.tree = u, !.cached = @ + 1, !.path = Append(@, new), !.whole = whole1]
<1>1. PICK L \in SUBSET DOMAIN t : Sound(t, s.free, h, L, tb, ct, w, s.whole)
  BY DEF Good
<1>2. Tree(t) /\ Live(t, s.free, L, ct) /\ Paths(t, h, L, ct) /\ Owned(t, s.free, h, L, tb, ct, w)
  BY <1>1 DEF Sound
<1>3. /\ r \in Requests /\ p \in Seq(DOMAIN t) /\ Len(p) \in Nat /\ Full(r) \in Nat
      /\ k \in 1 .. Full(r) /\ tb[r][k] \in Blocks /\ DOMAIN p = 1 .. Len(p)
  <2>1. r \in Requests
    BY <1>2 DEF Owned
  <2>2. /\ Path(h, r) \in Seq(DOMAIN t) /\ Len(Path(h, r)) \in Nat
        /\ Len(Path(h, r)) <= Full(r) /\ Full(r) <= Len(tb[r]) /\ Full(r) \in Nat
        /\ DOMAIN Path(h, r) = 1 .. Len(Path(h, r))
        /\ Len(tb[r]) \in Nat /\ tb[r] \in Seq(Blocks)
    BY <1>2, PathsInTable
  <2>3. k \in 1 .. Full(r) /\ k \in 1 .. Len(tb[r])
    BY <2>2
  <2>4. tb[r][k] \in Blocks
    BY <2>2, <2>3
  <2> QED BY <2>1, <2>2, <2>3, <2>4
<1>4. s.cached \in Nat /\ s.free \in Seq(Blocks) /\ IsInjective(s.free) /\ s.path \in Seq(Nat)
      /\ s.whole \in BOOLEAN
  BY DEF State, Good
<1>5. ASSUME NEW n \in DOMAIN t \cup Nat
      PROVE  Len(Append(p, n)) = k /\ (n \in Nat => Append(p, n) \in Seq(Nat))
  BY <1>3, <1>4
<1>6. CASE same # {}
  <2>1. PICK n \in same : e = [s EXCEPT !.path = Append(p, n)]
    BY <1>6 DEF InsertBlock
  <2>2. n \in Children(t, Tip(p)) /\ t[n].tokens = Tokens(r, Len(p) + 1) /\ n \in DOMAIN t /\ n \in Nat
    BY <1>2 DEF Children, Tree
  <2> HIDE DEF p, t
  <2>3. /\ e.path = Append(p, n) /\ e.tree = s.tree /\ e.free = s.free /\ e.whole = s.whole
        /\ e.holds = s.holds /\ e \in State
    <3>1. Append(p, n) \in Seq(Nat)
      BY <1>5, <2>2
    <3> QED BY <2>1, <3>1 DEF State
  <2>4. Sound(t, s.free, Put(h, r, Append(p, n)), L, tb, ct, w, s.whole)
    BY <1>1, <2>2, SoundWithSame DEF p, t
  <2>5. Good(e, Put(h, r, e.path), tb, ct, w)
    BY <2>3, <2>4, <1>1, <1>4 DEF Good, t
  <2> QED BY <2>2, <2>3, <2>5, <1>5
<1>7. CASE same = {}
  <2>1. e = EvictLRU(s1)
    BY <1>7 DEF InsertBlock
  <2>2. new \in Nat \ {Root} /\ new \notin DOMAIN t
    BY <1>2, NewIds
  <2> HIDE DEF new, displaced, same, children
  <2>3. node \in Node /\ node.tokens = Tokens(r, k) /\ node.block = tb[r][k]
        /\ node.parent = Tip(p) /\ node.linked = TRUE /\ node.age = 0
        /\ Tip(p) \in DOMAIN t \cup {Root}
    <3>1. Tip(p) \in DOMAIN t \cup {Root}
      BY <1>3, Tips
    <3>2. Tip(p) \in Nat
      BY <3>1, <1>2 DEF Tree, Root
    <3>3. Tokens(r, k) \in Key
      BY <1>3, KVGrows
    <3> QED BY <3>1, <3>2, <3>3, <1>3 DEF Node
  <2>4. ASSUME NEW n \in DOMAIN t
        PROVE  /\ kept[n] \in Node /\ kept[n].age = t[n].age + 1 /\ t[n].age \in Nat
               /\ kept[n].tokens = t[n].tokens /\ kept[n].block = t[n].block
               /\ kept[n].parent = t[n].parent
               /\ kept[n].linked = (t[n].linked /\ n \notin displaced)
    <3>1. t[n] \in Node
      BY <1>2 DEF Tree
    <3>2. PICK a \in Nat : a = t[n].age + 1
      BY <3>1 DEF Node
    <3>3. PICK l \in BOOLEAN : l = (t[n].linked /\ n \notin displaced)
      BY Zenon
    <3>4. kept[n] = [t[n] EXCEPT !.linked = l, !.age = a]
      BY <3>2, <3>3
    <3> HIDE DEF kept
    <3> QED BY <3>1, <3>2, <3>3, <3>4 DEF Node
  <2> HIDE DEF node
  <2>5. /\ DOMAIN u = DOMAIN t \cup {new} /\ u = [n \in DOMAIN u |-> u[n]] /\ u[new] = node
        /\ \A n \in DOMAIN t : u[n] = kept[n]
    BY <2>2 DEF Put
  <2> HIDE DEF kept, u, t
  <2>6. Tree(u)
    <3>1. u \in [DOMAIN u -> Node]
      BY <2>3, <2>4, <2>5
    <3>2. IsFiniteSet(DOMAIN u) /\ DOMAIN u \subseteq Nat \ {Root}
      BY <2>2, <2>5, <1>2, FS_AddElement DEF Tree
    <3>3. ASSUME NEW n \in DOMAIN u PROVE u[n].parent \in DOMAIN u \cup {Root}
      BY <2>3, <2>4, <2>5, <1>2 DEF Tree
    <3>4. ASSUME NEW m \in DOMAIN u, NEW n \in DOMAIN u, u[m].age = u[n].age PROVE m = n
      <4>1. CASE m \in DOMAIN t /\ n \in DOMAIN t
        <5>1. t[m].age + 1 = t[n].age + 1 /\ t[m].age \in Nat /\ t[n].age \in Nat
          BY <4>1, <3>4, <2>4, <2>5
        <5>2. t[m].age = t[n].age
          BY <5>1
        <5> QED BY <5>2, <4>1, <1>2 DEF Tree
      <4>2. CASE m \in DOMAIN t /\ n = new
        <5>1. t[m].age + 1 = 0 /\ t[m].age \in Nat
          BY <4>2, <3>4, <2>3, <2>4, <2>5
        <5> QED BY <5>1
      <4>3. CASE m = new /\ n \in DOMAIN t
        <5>1. t[n].age + 1 = 0 /\ t[n].age \in Nat
          BY <4>3, <3>4, <2>3, <2>4, <2>5
        <5> QED BY <5>1
      <4> QED BY <4>1, <4>2, <4>3, <2>5
    <3> QED BY <3>1, <3>2, <3>3, <3>4 DEF Tree
  <2>7. Extends(u, t)
    BY <2>4, <2>5 DEF Extends
  <2>8. (\A m \in DOMAIN t : u[m].linked => t[m].linked)
        /\ (whole1 => s.whole /\ \A m \in DOMAIN t : u[m].linked = t[m].linked)
    <3>1. \A m \in DOMAIN t : u[m].linked = (t[m].linked /\ m \notin displaced)
      BY <2>4, <2>5
    <3>2. \A m \in DOMAIN t : t[m].linked \in BOOLEAN
      BY <1>2 DEF Tree, Node
    <3> QED BY <3>1, <3>2, Zenon
  <2>9. whole1 \in BOOLEAN
    BY <1>4
  <2> HIDE DEF whole1, p
  <2>10. PICK M \in SUBSET DOMAIN u :
           Sound(u, s.free, Put(h, r, Append(p, new)), M, tb, ct, w, whole1)
    <3>1. Path(h, r) = p /\ k = Len(p) + 1 /\ Len(p) < Full(r)
      BY DEF p
    <3>2. Sound(t, s.free, h, L, tb, ct, w, s.whole)
      BY <1>1 DEF t
    <3>3. /\ u[new].tokens = Tokens(r, k) /\ u[new].block = tb[r][k] /\ u[new].parent = Tip(Path(h, r))
          /\ u[new].linked /\ DOMAIN u = DOMAIN t \cup {new} /\ new \notin DOMAIN t
      BY <3>1, <2>2, <2>3, <2>5
    <3>4. Len(Path(h, r)) < Full(r) /\ k = Len(Path(h, r)) + 1
      BY <3>1
    <3>5. Joins(u, new, t, Path(h, r), Tokens(r, k), tb[r][k])
      BY <3>3, <2>7, <2>8 DEF Joins
    <3>6. whole1 => s.whole /\ \A m \in DOMAIN t : u[m].linked = t[m].linked
      BY <2>8
    <3>7. \E M \in SUBSET DOMAIN u :
            Sound(u, s.free, Put(h, r, Append(Path(h, r), new)), M, tb, ct, w, whole1)
      BY <3>2, <3>4, <3>5, <3>6, <2>6, SoundWithNew
    <3> QED BY <3>1, <3>7
  <2>11. /\ s1.tree = u /\ s1.free = s.free /\ s1.whole = whole1
         /\ s1.path = Append(p, new) /\ s1.holds = s.holds /\ s1 \in State
    <3>1. u \in Trees
      BY <2>6, TreesTyped
    <3>2. s.cached + 1 \in Nat /\ Append(p, new) \in Seq(Nat)
      BY <1>4, <1>5, <2>2
    <3> QED BY <3>1, <3>2, <2>9 DEF State, p
  <2> HIDE DEF s1
  <2>12. Good(s1, Put(h, r, Append(p, new)), tb, ct, w)
    BY <2>10, <2>11, <1>4 DEF Good
  <2>13. /\ e \in State /\ Good(e, Put(h, r, Append(p, new)), tb, ct, w)
         /\ e.holds = s1.holds /\ e.path = s1.path
    BY <2>1, <2>11, <2>12, EvictedLRU
  <2> QED BY <2>2, <2>11, <2>13, <1>5
<1> QED BY <1>6, <1>7

\* The path of r is the one it was given.
LEMMA HoldPath ==
  ASSUME NEW h, NEW r, NEW p, p = <<>> => Path(h, r) = <<>>
  PROVE  Path(Hold(h, r, p), r) = p
<1>1. CASE p = <<>>
  BY <1>1 DEF Hold
<1>2. CASE p # <<>>
  BY <1>2 DEF Hold, Put, Path
<1> QED BY <1>1, <1>2

\* The paths of the others are not touched.
LEMMA HoldFacts ==
  ASSUME NEW h, NEW r, NEW p, NEW q
  PROVE  /\ h = [x \in DOMAIN h |-> h[x]] => Hold(h, r, Path(h, r)) = h
         /\ q # <<>> => Put(Hold(h, r, p), r, q) = Hold(h, r, q)
         /\ DOMAIN Hold(h, r, p) \subseteq DOMAIN h \cup {r}
         /\ DOMAIN h \subseteq DOMAIN Hold(h, r, p)
         /\ \A x : x # r => Path(Hold(h, r, p), x) = Path(h, x)
<1>1. ASSUME h = [x \in DOMAIN h |-> h[x]] PROVE Hold(h, r, Path(h, r)) = h
  <2>1. CASE Path(h, r) = <<>>
    BY <2>1 DEF Hold
  <2>2. CASE Path(h, r) # <<>>
    <3>1. r \in DOMAIN h /\ Path(h, r) = h[r]
      BY <2>2 DEF Path
    <3>2. Hold(h, r, Path(h, r)) = [x \in DOMAIN h |-> h[x]]
      BY <2>2, <3>1 DEF Hold, Put
    <3> QED BY <3>2, <1>1
  <2> QED BY <2>1, <2>2
<1>2. ASSUME q # <<>> PROVE Put(Hold(h, r, p), r, q) = Hold(h, r, q)
  <2>1. DOMAIN Hold(h, r, p) \cup {r} = DOMAIN h \cup {r}
    BY DEF Hold, Put
  <2>2. \A x \in DOMAIN h : x # r => Hold(h, r, p)[x] = h[x]
    BY DEF Hold, Put
  <2> QED BY <2>1, <2>2, <1>2 DEF Hold, Put
<1>3. DOMAIN Hold(h, r, p) \subseteq DOMAIN h \cup {r} /\ DOMAIN h \subseteq DOMAIN Hold(h, r, p)
  BY DEF Hold, Put
<1>4. \A x : x # r => Path(Hold(h, r, p), x) = Path(h, x)
  BY DEF Hold, Put, Path
<1> QED BY <1>1, <1>2, <1>3, <1>4

\* The full blocks of a request go into the tree one after the other.
LEMMA InsertingBlocks ==
  ASSUME NEW s \in State, NEW ct, NEW w, Good(s, s.holds, table, ct, w),
         NEW r \in DOMAIN table, r \in w
  PROVE  LET u == InsertBlocks(s, r) IN
         /\ u \in State /\ u.holds = s.holds
         /\ Good(u, Hold(s.holds, r, u.path), table, ct, w)
         /\ u.path = <<>> => Path(s.holds, r) = <<>>
<1> DEFINE held == Path(s.holds, r)
           h == s.holds
           s0 == [s EXCEPT !.path = held]
           Round(u, i) == InsertBlock(u, Tokens(r, Len(held) + i), table[r][Len(held) + i])
           n == Full(r) - Len(held)
           W == [i \in 0 .. n |->
                  {u \in State : /\ u.holds = s.holds /\ Len(u.path) = Len(held) + i
                                 /\ Good(u, Hold(s.holds, r, u.path), table, ct, w)}]
           F == [i \in 1 .. n |-> [u \in W[i - 1] |-> Round(u, i)]]
           after == CHOOSE g : g = [i \in 0 .. n |-> IF i = 0 THEN s0 ELSE Round(g[i - 1], i)]
<1>1. /\ held \in Seq(Nat) /\ Len(held) \in Nat /\ Len(held) <= Full(r) /\ Full(r) \in Nat
      /\ h = [x \in DOMAIN h |-> h[x]]
  <2>1. PICK L \in SUBSET DOMAIN s.tree : Sound(s.tree, s.free, h, L, table, ct, w, s.whole)
    BY DEF Good
  <2>2. /\ Path(h, r) \in Seq(DOMAIN s.tree) /\ Len(Path(h, r)) \in Nat
        /\ Len(Path(h, r)) <= Full(r) /\ Full(r) \in Nat
    BY <2>1, PathsInTable DEF Sound
  <2>3. DOMAIN s.tree \subseteq Nat
    BY <2>1 DEF Sound, Tree
  <2>4. Path(h, r) \in Seq(Nat)
    BY <2>2, <2>3, SeqMonotonic
  <2>5. h = [x \in DOMAIN h |-> h[x]]
    BY DEF State
  <2> QED BY <2>2, <2>4, <2>5
<1>2. n \in Nat /\ 0 \in 0 .. n /\ n \in 0 .. n
      /\ \A i \in 1 .. n : i \in Nat /\ i \in 0 .. n /\ i # 0 /\ i - 1 \in 0 .. n
                           /\ Len(held) + (i - 1) < Full(r)
  BY <1>1
<1>3. InsertBlocks(s, r) = after[n]
  BY DEF InsertBlocks, After, Path
<1> HIDE DEF n, held
<1>4. s0 \in W[0]
  <2>1. s0 \in State /\ s0.holds = s.holds /\ s0.path = held /\ s0.tree = s.tree /\ s0.free = s.free
        /\ s0.whole = s.whole
    BY <1>1 DEF State
  <2> HIDE DEF s0
  <2>2. Hold(s.holds, r, s0.path) = s.holds
    <3>1. Hold(h, r, Path(h, r)) = h
      BY <1>1, HoldFacts
    <3> QED BY <3>1, <2>1 DEF held
  <2>3. Good(s0, Hold(s.holds, r, s0.path), table, ct, w)
    BY <2>1, <2>2 DEF Good
  <2>4. Len(s0.path) = Len(held) + 0
    BY <2>1, <1>1
  <2> QED BY <2>1, <2>3, <2>4, <1>2
<1>5. ASSUME NEW i \in 1 .. n, NEW u \in W[i - 1] PROVE Round(u, i) \in W[i]
  <2> DEFINE g == Hold(s.holds, r, u.path)
             k == Len(held) + i
             e == Round(u, i)
  <2>1. u \in State /\ u.holds = s.holds /\ Len(u.path) = Len(held) + (i - 1)
        /\ Good(u, g, table, ct, w)
    BY <1>2
  <2> HIDE DEF g, k, W
  <2>2. Path(g, r) = u.path
    <3>1. ASSUME u.path = <<>> PROVE held = <<>>
      <4>1. Len(u.path) = 0
        BY <3>1, EmptySeq
      <4>2. Len(held) = 0
        BY <4>1, <2>1, <1>1, <1>2
      <4> QED BY <4>2, <1>1, EmptySeq
    <3>2. u.path = <<>> => Path(s.holds, r) = <<>>
      BY <3>1 DEF held
    <3>3. Path(Hold(s.holds, r, u.path), r) = u.path
      BY <3>2, HoldPath
    <3> QED BY <3>3 DEF g
  <2>3. Len(u.path) < Full(r) /\ k = Len(u.path) + 1 /\ k \in Nat \ {0}
    <3>1. k = Len(held) + i
      BY DEF k
    <3>2. i \in Nat /\ i # 0 /\ Len(held) \in Nat
          /\ Len(held) + (i - 1) < Full(r) /\ Len(u.path) = Len(held) + (i - 1)
      BY <2>1, <1>1, <1>2
    <3> QED BY <3>1, <3>2
  <2>4. e = InsertBlock(u, Tokens(r, k), table[r][k])
    BY DEF k
  <2> HIDE DEF e
  <2>5. /\ e \in State /\ e.holds = u.holds /\ Len(e.path) = k
        /\ Good(e, Put(g, r, e.path), table, ct, w)
    BY <2>1, <2>2, <2>3, <2>4, Inserting
  <2>6. e.path # <<>>
    <3>1. ASSUME e.path = <<>> PROVE FALSE
      <4>1. Len(e.path) = 0
        BY <3>1, EmptySeq
      <4> QED BY <4>1, <2>3, <2>5
    <3> QED BY <3>1
  <2>7. Put(g, r, e.path) = Hold(s.holds, r, e.path)
    BY <2>6, HoldFacts DEF g
  <2>8. e \in W[i]
    BY <2>1, <2>5, <2>7, <1>2 DEF k, W
  <2> QED BY <2>8 DEF e
<1> HIDE DEF Round, s0
<1>6. \A i \in 1 .. n : \A u \in W[i - 1] : F[i][u] = Round(u, i)
  OBVIOUS
<1> HIDE DEF F, W
<1>7. PICK run : IsLoop(run, F, n, W, s0)
  BY <1>2, <1>4, <1>5, <1>6, LoopRuns
<1>8. run = [i \in 0 .. n |-> IF i = 0 THEN s0 ELSE Round(run[i - 1], i)]
  <2>1. ASSUME NEW i \in 0 .. n PROVE run[i] = IF i = 0 THEN s0 ELSE Round(run[i - 1], i)
    <3>1. i = 0 \/ i \in 1 .. n
      BY <1>2
    <3> QED BY <3>1, <1>2, <1>6, <1>7 DEF IsLoop
  <2> QED BY <2>1, <1>7 DEF IsLoop
<1>9. after = [i \in 0 .. n |-> IF i = 0 THEN s0 ELSE Round(after[i - 1], i)]
  BY <1>8, Zenon
<1> HIDE DEF after
<1>10. after[0] = s0 /\ \A i \in 1 .. n : after[i] = Round(after[i - 1], i)
  BY <1>2, <1>9
<1>11. after[n] \in W[n]
  <2>1. after[0] \in W[0] /\ \A i \in 1 .. n : after[i - 1] \in W[i - 1] => after[i] \in W[i]
    BY <1>4, <1>5, <1>10
  <2> QED BY <1>2, <2>1, LoopKeeps
<1>12. /\ after[n] \in State /\ after[n].holds = s.holds /\ Len(after[n].path) = Len(held) + n
       /\ Good(after[n], Hold(s.holds, r, after[n].path), table, ct, w)
  BY <1>2, <1>11 DEF W
<1>13. ASSUME after[n].path = <<>> PROVE held = <<>>
  <2>1. Len(after[n].path) = 0
    BY <1>13, EmptySeq
  <2>2. Len(held) = 0
    BY <2>1, <1>1, <1>2, <1>12
  <2> QED BY <2>2, <1>1, EmptySeq
<1> QED BY <1>3, <1>12, <1>13 DEF held

\* The same tree up to accesses and locks.
LEMMA SoundSame ==
  ASSUME NEW t, NEW f, NEW h, NEW L, NEW tb, NEW ct, NEW w, NEW wh \in BOOLEAN,
         Sound(t, f, h, L, tb, ct, w, wh), NEW u, Tree(u), Within(u, t), DOMAIN u = DOMAIN t
  PROVE  Sound(u, f, h, L, tb, ct, w, wh)
<1>1. L \cap DOMAIN u = L
  BY DEF Sound, Live
<1>2. \A r \in DOMAIN h : \A i \in DOMAIN h[r] : h[r][i] \in DOMAIN u
  BY DEF Sound, Paths, Spells
<1> QED BY <1>1, <1>2, SoundWithin

\* The accesses and locks of a request's path: what any of the calls does to the tree.
LEMMA TouchRelock ==
  ASSUME NEW t, Tree(t), NEW path, path \in Seq(DOMAIN t)
  PROVE  LET u == Relock(Touch(t, path), path, 1)
             v == Relock(Touch(Relock(t, path, -1), path), path, 1)
         IN  /\ Tree(u) /\ Within(u, t) /\ DOMAIN u = DOMAIN t
             /\ Tree(v) /\ Within(v, t) /\ DOMAIN v = DOMAIN t
<1> DEFINE a == Touch(t, path)
           u == Relock(a, path, 1)
           b == Relock(t, path, -1)
           c == Touch(b, path)
           v == Relock(c, path, 1)
<1>1. Tree(a) /\ Within(a, t) /\ DOMAIN a = DOMAIN t
  BY Touched
<1>2. Tree(b) /\ Within(b, t) /\ DOMAIN b = DOMAIN t
  BY Relocked
<1> HIDE DEF a, b
<1>3. Tree(u) /\ Within(u, a) /\ DOMAIN u = DOMAIN a
  BY <1>1, Relocked
<1>4. Tree(c) /\ Within(c, b) /\ DOMAIN c = DOMAIN b
  <2>1. path \in Seq(DOMAIN b)
    BY <1>2
  <2> QED BY <1>2, <2>1, Touched
<1> HIDE DEF c
<1>5. Tree(v) /\ Within(v, c) /\ DOMAIN v = DOMAIN c
  BY <1>4, Relocked
<1> HIDE DEF u, v
<1>6. Within(u, t)
  BY <1>1, <1>3 DEF Within
<1>7. Within(v, t)
  BY <1>2, <1>4, <1>5 DEF Within
<1> QED BY <1>1, <1>2, <1>3, <1>4, <1>5, <1>6, <1>7 DEF u, v, a, b, c

\* insert_full_blocks_to_cache keeps the invariant and leaves r with its longer path.
LEMMA InsertingFullBlocks ==
  ASSUME NEW s \in State, NEW ct, NEW w, Good(s, s.holds, table, ct, w),
         NEW r \in DOMAIN table, r \in w
  PROVE  LET e == InsertFullBlocks(s, r) IN
         /\ e \in State /\ Good(e, e.holds, table, ct, w)
         /\ DOMAIN e.holds \subseteq DOMAIN s.holds \cup {r}
<1> DEFINE held == IF r \in DOMAIN s.holds THEN s.holds[r] ELSE <<>>
           t == InsertBlocks(s, r)
           unlocked == IF held = <<>> THEN t.tree ELSE Relock(t.tree, t.path, -1)
           v == Relock(Touch(unlocked, t.path), t.path, 1)
           h == Hold(s.holds, r, t.path)
           e == [t EXCEPT !.tree = v, !.holds = h]
<1>1. /\ t \in State /\ t.holds = s.holds /\ Good(t, h, table, ct, w)
      /\ t.path = <<>> => Path(s.holds, r) = <<>>
  BY InsertingBlocks
<1> HIDE DEF t
<1>2. InsertFullBlocks(s, r) = e
  BY <1>1 DEF InsertFullBlocks, t
<1>3. PICK L \in SUBSET DOMAIN t.tree : Sound(t.tree, t.free, h, L, table, ct, w, t.whole)
  BY <1>1 DEF Good
<1>4. Tree(t.tree) /\ t.path \in Seq(DOMAIN t.tree) /\ r \in Requests /\ t.whole \in BOOLEAN
      /\ t.path \in Seq(Nat) /\ IsInjective(t.free)
  <2>1. Path(h, r) = t.path
    BY <1>1, HoldPath
  <2>2. Path(h, r) \in Seq(DOMAIN t.tree) /\ r \in Requests
    <3> HIDE DEF h
    <3>1. Paths(t.tree, h, L, ct) /\ Owned(t.tree, t.free, h, L, table, ct, w)
      BY <1>3 DEF Sound
    <3>2. r \in Requests
      BY <3>1 DEF Owned
    <3> QED BY <3>1, <3>2, PathsInTable
  <2> QED BY <2>1, <2>2, <1>1, <1>3 DEF Sound, State, Good
<1>5. Tree(v) /\ Within(v, t.tree) /\ DOMAIN v = DOMAIN t.tree
  BY <1>4, TouchRelock
<1> HIDE DEF v
<1>6. Sound(v, t.free, h, L, table, ct, w, t.whole)
  BY <1>3, <1>4, <1>5, SoundSame
<1>7. h \in UNION {[D -> Seq(Nat)] : D \in SUBSET Requests}
      /\ DOMAIN h \subseteq DOMAIN s.holds \cup {r}
  <2>1. s.holds \in UNION {[D -> Seq(Nat)] : D \in SUBSET Requests}
    BY DEF State
  <2>2. PICK D \in SUBSET Requests : s.holds \in [D -> Seq(Nat)]
    BY <2>1
  <2>3. DOMAIN s.holds = D
    BY <2>2
  <2>4. CASE t.path = <<>>
    BY <2>1, <2>4 DEF Hold
  <2>5. CASE t.path # <<>>
    <3>1. h \in [D \cup {r} -> Seq(Nat)] /\ D \cup {r} \in SUBSET Requests
      BY <2>2, <2>3, <2>5, <1>4 DEF Hold, Put
    <3> HIDE DEF h
    <3>2. DOMAIN h = D \cup {r}
      BY <3>1
    <3> QED BY <3>1, <3>2, <2>3
  <2> QED BY <2>4, <2>5
<1> HIDE DEF h
<1>8. /\ e.tree = v /\ e.free = t.free /\ e.whole = t.whole /\ e.holds = h /\ e \in State
  <2>1. v \in Trees
    BY <1>5, TreesTyped
  <2> QED BY <2>1, <1>1, <1>7 DEF State
<1> HIDE DEF e
<1>9. Good(e, e.holds, table, ct, w)
  BY <1>4, <1>5, <1>6, <1>8 DEF Good
<1> QED BY <1>2, <1>7, <1>8, <1>9

\* So does a whole batch.
LEMMA InsertedBatch ==
  ASSUME NEW s \in State, NEW ct, NEW w, Good(s, s.holds, table, ct, w),
         DOMAIN s.holds \subseteq DOMAIN table,
         s = [tree |-> tree, cached |-> cached, free |-> free, holds |-> holds, whole |-> whole,
              path |-> <<>>],
         NEW batch, NEW n \in Nat, n = Len(batch),
         \A i \in 1 .. n : batch[i] \in DOMAIN table /\ batch[i] \in w
  PROVE  LET e == Inserted(batch) IN
         /\ e \in State /\ Good(e, e.holds, table, ct, w) /\ DOMAIN e.holds \subseteq DOMAIN table
<1>1. CASE ~PrefixCache
  BY <1>1 DEF Inserted
<1>2. CASE PrefixCache
  <2> DEFINE Round(u, i) == InsertFullBlocks(u, batch[i])
             W == [i \in 0 .. n |->
                    {u \in State : Good(u, u.holds, table, ct, w) /\ DOMAIN u.holds \subseteq DOMAIN table}]
             F == [i \in 1 .. n |-> [u \in W[i - 1] |-> Round(u, i)]]
             after == CHOOSE g : g = [i \in 0 .. n |-> IF i = 0 THEN s ELSE Round(g[i - 1], i)]
  <2>1. 0 \in 0 .. n /\ n \in 0 .. n
        /\ \A i \in 1 .. n : i \in 0 .. n /\ i # 0 /\ i - 1 \in 0 .. n
    OBVIOUS
  <2>2. Inserted(batch) = after[n]
    BY <1>2 DEF Inserted, After
  <2>3. s \in W[0]
    BY <2>1
  <2>4. ASSUME NEW i \in 1 .. n, NEW u \in W[i - 1] PROVE Round(u, i) \in W[i]
    <3> DEFINE e == Round(u, i)
    <3>1. u \in State /\ Good(u, u.holds, table, ct, w) /\ DOMAIN u.holds \subseteq DOMAIN table
      BY <2>1
    <3>2. batch[i] \in DOMAIN table /\ batch[i] \in w
      OBVIOUS
    <3>3. e = InsertFullBlocks(u, batch[i])
      OBVIOUS
    <3> HIDE DEF e, W
    <3>4. /\ e \in State /\ Good(e, e.holds, table, ct, w)
          /\ DOMAIN e.holds \subseteq DOMAIN u.holds \cup {batch[i]}
      BY <3>1, <3>2, <3>3, InsertingFullBlocks
    <3>5. DOMAIN e.holds \subseteq DOMAIN table
      BY <3>1, <3>2, <3>4
    <3>6. e \in W[i]
      BY <3>4, <3>5, <2>1 DEF W
    <3> QED BY <3>6 DEF e
  <2> HIDE DEF Round
  <2>5. \A i \in 1 .. n : \A u \in W[i - 1] : F[i][u] = Round(u, i)
    OBVIOUS
  <2> HIDE DEF F, W
  <2>6. PICK run : IsLoop(run, F, n, W, s)
    BY <2>1, <2>3, <2>4, <2>5, LoopRuns
  <2>7. run = [i \in 0 .. n |-> IF i = 0 THEN s ELSE Round(run[i - 1], i)]
    <3>1. ASSUME NEW i \in 0 .. n PROVE run[i] = IF i = 0 THEN s ELSE Round(run[i - 1], i)
      <4>1. i = 0 \/ i \in 1 .. n
        BY <2>1
      <4> QED BY <4>1, <2>1, <2>5, <2>6 DEF IsLoop
    <3> QED BY <3>1, <2>6 DEF IsLoop
  <2>8. after = [i \in 0 .. n |-> IF i = 0 THEN s ELSE Round(after[i - 1], i)]
    BY <2>7, Zenon
  <2> HIDE DEF after
  <2>9. after[0] = s /\ \A i \in 1 .. n : after[i] = Round(after[i - 1], i)
    BY <2>1, <2>8
  <2>10. after[n] \in W[n]
    <3>1. after[0] \in W[0] /\ \A i \in 1 .. n : after[i - 1] \in W[i - 1] => after[i] \in W[i]
      BY <2>3, <2>4, <2>9
    <3> QED BY <2>1, <3>1, LoopKeeps
  <2>11. /\ after[n] \in State /\ Good(after[n], after[n].holds, table, ct, w)
         /\ DOMAIN after[n].holds \subseteq DOMAIN table
    BY <2>1, <2>10 DEF W
  <2> QED BY <2>2, <2>11
<1> QED BY <1>1, <1>2

----------------------------------------------------------------------------
(* The calls *)
\* The last blocks of the free stack go behind the ones of the prefix.
Takes(f, left, a, g, c) ==
  /\ g \in Seq(Blocks) /\ IsInjective(g) /\ ToSet(g) \subseteq ToSet(f)
  /\ c \in Seq(Blocks) /\ Len(c) = Len(a) + (Len(f) - left) /\ Len(a) \in Nat
  /\ \A i \in 1 .. Len(a) : c[i] = a[i]
  /\ \A i \in Len(a) + 1 .. Len(c) : c[i] \in ToSet(f) /\ c[i] \notin ToSet(g)
  /\ \A i, j \in Len(a) + 1 .. Len(c) : c[i] = c[j] => i = j
  /\ ToSet(f) \subseteq ToSet(g) \cup ToSet(c)
\* So Allocate takes them: they are free no more, and none is taken twice.
LEMMA Taken ==
  ASSUME NEW f \in Seq(Blocks), IsInjective(f), NEW left \in 0 .. Len(f), NEW a \in Seq(Blocks),
         NEW g, g = SubSeq(f, 1, left), NEW c, c = a \o SubSeq(f, left + 1, Len(f))
  PROVE  Takes(f, left, a, g, c)
<1> DEFINE d == SubSeq(f, left + 1, Len(f))
<1>1. Len(f) \in Nat /\ Len(a) \in Nat /\ left \in Nat /\ left <= Len(f)
      /\ DOMAIN f = 1 .. Len(f) /\ DOMAIN a = 1 .. Len(a)
  OBVIOUS
<1>2. /\ g \in Seq(Blocks) /\ Len(g) = left /\ DOMAIN g = 1 .. left
      /\ \A i \in 1 .. left : g[i] = f[i]
  BY <1>1
<1>3. /\ d \in Seq(Blocks) /\ Len(d) = Len(f) - left
      /\ \A i \in 1 .. (Len(f) - left) : d[i] = f[left + i]
  <2>1. \A i \in (left + 1) .. Len(f) : f[i] \in Blocks
    BY <1>1
  <2>2. left + 1 \in Int /\ Len(f) \in Int /\ Len(f) - (left + 1) + 1 = Len(f) - left
        /\ \A i \in 1 .. (Len(f) - left) : (left + 1) + i - 1 = left + i
    BY <1>1
  <2>3. /\ d \in Seq(Blocks)
        /\ Len(d) = IF left + 1 <= Len(f) THEN Len(f) - (left + 1) + 1 ELSE 0
        /\ \A i \in 1 .. (Len(f) - (left + 1) + 1) : d[i] = f[(left + 1) + i - 1]
    BY <2>1, <2>2, SubSeqProperties
  <2> HIDE DEF d
  <2>4. Len(d) = Len(f) - left
    <3>1. CASE left + 1 <= Len(f)
      BY <3>1, <2>2, <2>3
    <3>2. CASE ~(left + 1 <= Len(f))
      <4>1. left = Len(f)
        <5>1. \A m, n \in Nat : m <= n /\ ~(m + 1 <= n) => m = n
          OBVIOUS
        <5> QED BY <3>2, <5>1, <1>1
      <4>2. Len(d) = 0
        BY <3>2, <2>3, Zenon
      <4> QED BY <4>1, <4>2, <1>1
    <3> QED BY <3>1, <3>2
  <2> QED BY <2>2, <2>3, <2>4
<1> HIDE DEF d
<1>4. /\ c \in Seq(Blocks) /\ Len(c) = Len(a) + (Len(f) - left) /\ DOMAIN c = 1 .. Len(c)
      /\ \A i \in 1 .. Len(a) : c[i] = a[i]
      /\ \A i \in Len(a) + 1 .. Len(c) : c[i] = d[i - Len(a)]
  <2>1. c = a \o d
    BY DEF d
  <2>2. /\ c \in Seq(Blocks) /\ Len(c) = Len(a) + Len(d)
        /\ \A i \in 1 .. Len(a) + Len(d) : c[i] = IF i <= Len(a) THEN a[i] ELSE d[i - Len(a)]
    <3>1. /\ a \o d \in Seq(Blocks) /\ Len(a \o d) = Len(a) + Len(d)
          /\ \A i \in 1 .. Len(a) + Len(d) :
               (a \o d)[i] = IF i <= Len(a) THEN a[i] ELSE d[i - Len(a)]
      BY <1>3, ConcatProperties
    <3> QED BY <3>1, <2>1
  <2>3. Len(c) = Len(a) + (Len(f) - left) /\ Len(c) \in Nat /\ Len(d) \in Nat
    BY <2>2, <1>1, <1>3
  <2>4. DOMAIN c = 1 .. Len(c)
    BY <2>2
  <2>5. \A i \in 1 .. Len(a) : c[i] = a[i]
    BY <2>2, <2>3, <1>1
  <2>6. ASSUME NEW i \in Len(a) + 1 .. Len(c) PROVE c[i] = d[i - Len(a)]
    <3>1. i \in 1 .. Len(a) + Len(d) /\ ~(i <= Len(a))
      BY <2>2, <2>3, <1>1
    <3> QED BY <3>1, <2>2
  <2> QED BY <2>2, <2>3, <2>4, <2>5, <2>6
<1>5. \A i \in Len(a) + 1 .. Len(c) : /\ c[i] = f[left + (i - Len(a))]
                                      /\ left + (i - Len(a)) \in left + 1 .. Len(f)
  BY <1>1, <1>3, <1>4
<1>6. \A i, j \in 1 .. Len(f) : f[i] = f[j] => i = j
  BY <1>1 DEF IsInjective
<1>7. IsInjective(g)
  BY <1>1, <1>2, <1>6 DEF IsInjective
<1>8. ToSet(g) \subseteq ToSet(f)
  BY <1>1, <1>2 DEF ToSet
<1>9. ASSUME NEW i \in Len(a) + 1 .. Len(c) PROVE c[i] \in ToSet(f) /\ c[i] \notin ToSet(g)
  <2>1. PICK k \in left + 1 .. Len(f) : c[i] = f[k]
    BY <1>5
  <2>2. k \in 1 .. Len(f) /\ \A j \in 1 .. left : j \in 1 .. Len(f) /\ k # j
    BY <1>1
  <2>3. c[i] \in ToSet(f)
    BY <2>1, <2>2, <1>1 DEF ToSet
  <2>4. ASSUME NEW j \in 1 .. left PROVE c[i] # g[j]
    BY <2>1, <2>2, <1>2, <1>6
  <2> QED BY <2>3, <2>4, <1>2 DEF ToSet
<1>10. ASSUME NEW i \in Len(a) + 1 .. Len(c), NEW j \in Len(a) + 1 .. Len(c), c[i] = c[j]
       PROVE  i = j
  <2>1. left + (i - Len(a)) = left + (j - Len(a))
    <3>1. left + (i - Len(a)) \in 1 .. Len(f) /\ left + (j - Len(a)) \in 1 .. Len(f)
      BY <1>1, <1>5
    <3> QED BY <3>1, <1>5, <1>6, <1>10
  <2> QED BY <2>1, <1>1
<1>11. ASSUME NEW b \in ToSet(f) PROVE b \in ToSet(g) \cup ToSet(c)
  <2>1. PICK k \in 1 .. Len(f) : b = f[k]
    BY <1>1 DEF ToSet
  <2>2. CASE k <= left
    <3>1. k \in 1 .. left /\ k \in DOMAIN g /\ g[k] = b
      BY <2>1, <2>2, <1>1, <1>2
    <3> QED BY <3>1 DEF ToSet
  <2>3. CASE k > left
    <3>1. /\ Len(a) + (k - left) \in Len(a) + 1 .. Len(c)
          /\ left + ((Len(a) + (k - left)) - Len(a)) = k
      BY <2>3, <1>1, <1>4
    <3>2. PICK i \in Len(a) + 1 .. Len(c) : left + (i - Len(a)) = k
      BY <3>1
    <3>3. i \in DOMAIN c
      <4>1. Len(c) \in Nat
        BY <1>1, <1>4
      <4> QED BY <4>1, <1>1, <1>4
    <3>4. c[i] = f[k]
      BY <3>2, <1>5
    <3> QED BY <3>3, <3>4, <2>1 DEF ToSet
  <2> QED BY <2>2, <2>3, <1>1
<1> QED BY <1>1, <1>2, <1>4, <1>7, <1>8, <1>9, <1>10, <1>11 DEF Takes

\* A request gets a table that begins with the blocks of its path and goes on with blocks
\* that were free.
LEMMA SoundAdmitted ==
  ASSUME NEW t, NEW f, NEW h, NEW L, NEW tb, NEW ct, NEW w, NEW wh,
         Sound(t, f, h, L, tb, ct, w, wh),
         NEW r \in Requests, r \notin DOMAIN tb, r \notin DOMAIN h, r \notin w,
         NEW p, Spells(t, p, r, L, ct),
         NEW c, c \in Seq(Blocks), Full(r) <= Len(c),
         \A i \in 1 .. Len(p) : c[i] = t[p[i]].block,
         NEW g, ToSet(g) \subseteq ToSet(f), ToSet(f) \subseteq ToSet(g) \cup ToSet(c),
         \A i \in Len(p) + 1 .. Len(c) : c[i] \in ToSet(f) /\ c[i] \notin ToSet(g),
         \A i, j \in Len(p) + 1 .. Len(c) : c[i] = c[j] => i = j
  PROVE  Sound(t, g, Hold(h, r, p), L, Put(tb, r, c), ct, w, wh)
<1> DEFINE k == Hold(h, r, p)
           b == Put(tb, r, c)
<1>1. /\ Tree(t) /\ Live(t, f, L, ct) /\ Paths(t, h, L, ct) /\ Owned(t, f, h, L, tb, ct, w)
      /\ wh => Intact(t, f, L, tb)
  BY DEF Sound
<1>2. /\ DOMAIN b = DOMAIN tb \cup {r} /\ b[r] = c /\ \A q \in DOMAIN tb : b[q] = tb[q] /\ q # r
  BY DEF Put
<1>3. /\ p \in Seq(DOMAIN t) /\ Len(p) \in Nat /\ DOMAIN p = 1 .. Len(p) /\ Len(p) <= Full(r)
      /\ Full(r) \in Nat /\ DOMAIN c = 1 .. Len(c) /\ Len(c) \in Nat
  BY BlockCounts DEF Spells
<1>4. Path(k, r) = p /\ \A q : q # r => Path(k, q) = Path(h, q)
  <2>1. Path(h, r) = <<>>
    BY DEF Path
  <2>2. Path(k, r) = p
    BY <2>1, HoldPath
  <2>3. \A q : q # r => Path(k, q) = Path(h, q)
    BY HoldFacts
  <2> QED BY <2>2, <2>3
<1>5. Paths(t, k, L, ct)
  <2>1. CASE p = <<>>
    BY <2>1, <1>1 DEF Hold
  <2>2. CASE p # <<>>
    <3>1. k = Put(h, r, p) /\ Extends(t, t) /\ L \cap DOMAIN t \subseteq L
      BY <2>2 DEF Hold, Extends
    <3> QED BY <3>1, <1>1, PathsOn
  <2> QED BY <2>1, <2>2
<1> HIDE DEF k, b
<1>6. Live(t, g, L, ct)
  BY <1>1 DEF Live
<1>7. /\ \A q \in DOMAIN tb : Own(t, k, b, q) = Own(t, h, tb, q)
      /\ \A i \in Own(t, k, b, r) : i \in Len(p) + 1 .. Len(c)
  <2>1. ASSUME NEW q \in DOMAIN tb PROVE Own(t, k, b, q) = Own(t, h, tb, q)
    BY <1>2, <1>4 DEF Own
  <2>2. ASSUME NEW i \in Own(t, k, b, r) PROVE i \in Len(p) + 1 .. Len(c)
    <3>1. i \in 1 .. Len(c) /\ (i <= Len(p) => c[i] # t[p[i]].block)
      BY <1>2, <1>3, <1>4 DEF Own
    <3> QED BY <3>1, <1>3
  <2> QED BY <2>1, <2>2
<1>8. ASSUME NEW q \in DOMAIN b, NEW i \in Own(t, k, b, q)
      PROVE  /\ b[q][i] \notin ToSet(g) /\ \A n \in L : t[n].block # b[q][i]
             /\ \A x \in DOMAIN b : \A j \in Own(t, k, b, x) : b[x][j] = b[q][i] => x = q /\ j = i
             /\ q \in w => ct[b[q][i]] = KV(q, i)
  <2>1. CASE q = r
    <3>1. b[q][i] = c[i] /\ c[i] \in ToSet(f) /\ c[i] \notin ToSet(g) /\ i \in Len(p) + 1 .. Len(c)
      BY <2>1, <1>2, <1>7
    <3>2. \A n \in L : t[n].block # c[i]
      BY <3>1, <1>1 DEF Live
    <3>3. ASSUME NEW x \in DOMAIN b, NEW j \in Own(t, k, b, x), b[x][j] = b[q][i]
          PROVE  x = q /\ j = i
      <4>1. CASE x = r
        BY <4>1, <3>1, <3>3, <2>1, <1>2, <1>7
      <4>2. CASE x # r
        <5>1. x \in DOMAIN tb /\ j \in Own(t, h, tb, x) /\ b[x][j] = tb[x][j]
          BY <4>2, <1>2, <1>7
        <5>2. tb[x][j] \notin ToSet(f)
          BY <5>1, <1>1 DEF Owned
        <5> QED BY <5>1, <5>2, <3>1, <3>3
      <4> QED BY <4>1, <4>2
    <3> QED BY <3>1, <3>2, <3>3, <2>1
  <2>2. CASE q # r
    <3>1. q \in DOMAIN tb /\ b[q][i] = tb[q][i] /\ i \in Own(t, h, tb, q)
      BY <2>2, <1>2, <1>7
    <3>2. /\ tb[q][i] \notin ToSet(f) /\ \A n \in L : t[n].block # tb[q][i]
          /\ \A x \in DOMAIN tb : \A j \in Own(t, h, tb, x) : tb[x][j] = tb[q][i] => x = q /\ j = i
          /\ q \in w => ct[tb[q][i]] = KV(q, i)
      BY <3>1, <1>1 DEF Owned
    <3>3. ASSUME NEW x \in DOMAIN b, NEW j \in Own(t, k, b, x), b[x][j] = b[q][i]
          PROVE  x = q /\ j = i
      <4>1. CASE x = r
        <5>1. b[x][j] \in ToSet(f)
          BY <4>1, <1>2, <1>7
        <5> QED BY <5>1, <3>1, <3>2, <3>3
      <4>2. CASE x # r
        <5>1. x \in DOMAIN tb /\ j \in Own(t, h, tb, x) /\ b[x][j] = tb[x][j]
          BY <4>2, <1>2, <1>7
        <5> QED BY <5>1, <3>1, <3>2, <3>3
      <4> QED BY <4>1, <4>2
    <3> QED BY <3>1, <3>2, <3>3
  <2> QED BY <2>1, <2>2
<1>9. ASSUME NEW q \in DOMAIN b \ w, NEW i \in DOMAIN Path(k, q)
      PROVE  b[q][i] = t[Path(k, q)[i]].block
  <2>1. CASE q = r
    BY <2>1, <1>2, <1>3, <1>4
  <2>2. CASE q # r
    <3>1. q \in DOMAIN tb \ w /\ b[q] = tb[q] /\ Path(k, q) = Path(h, q)
      BY <2>2, <1>2, <1>4
    <3> QED BY <3>1, <1>1 DEF Owned
  <2> QED BY <2>1, <2>2
<1>10. DOMAIN b \subseteq Requests /\ \A q \in DOMAIN b : b[q] \in Seq(Blocks) /\ Full(q) <= Len(b[q])
  BY <1>1, <1>2 DEF Owned
<1>11. Owned(t, g, k, L, b, ct, w)
  BY <1>8, <1>9, <1>10 DEF Owned
<1>12. ASSUME Intact(t, f, L, tb) PROVE Intact(t, g, L, b)
  <2>1. ASSUME NEW x \in Blocks
        PROVE  \/ x \in ToSet(g) \/ \E n \in L : t[n].block = x
               \/ \E q \in DOMAIN b : x \in ToSet(b[q])
    <3>1. CASE x \in ToSet(f)
      BY <3>1, <1>2
    <3>2. CASE \E n \in L : t[n].block = x
      BY <3>2
    <3>3. CASE \E q \in DOMAIN tb : x \in ToSet(tb[q])
      BY <3>3, <1>2
    <3> QED BY <3>1, <3>2, <3>3, <1>12 DEF Intact
  <2> QED BY <2>1, <1>12 DEF Intact
<1>13. Sound(t, g, k, L, b, ct, w, wh)
  BY <1>1, <1>5, <1>6, <1>11, <1>12 DEF Sound
<1> QED BY <1>13 DEF k, b

\* What is written to blocks that are not those of live nodes is nothing to the tree.
LEMMA OtherContent ==
  ASSUME NEW t, NEW f, NEW h, NEW L, NEW ct, NEW d, Tree(t), Live(t, f, L, ct),
         Paths(t, h, L, ct), \A n \in L : d[t[n].block] = ct[t[n].block]
  PROVE  Live(t, f, L, d) /\ Paths(t, h, L, d)
<1>1. ASSUME NEW n \in L, t[n].linked
      PROVE  d[t[n].block] = (IF t[n].parent = Root THEN <<>> ELSE d[t[t[n].parent].block])
                             \o t[n].tokens
  <2>1. n \in DOMAIN t /\ (t[n].parent = Root \/ t[n].parent \in L)
    BY <1>1 DEF Live
  <2>2. ct[t[n].block] = (IF t[n].parent = Root THEN <<>> ELSE ct[t[t[n].parent].block])
                         \o t[n].tokens
    BY <1>1 DEF Live
  <2> QED BY <2>1, <2>2
<1>2. Live(t, f, L, d)
  BY <1>1 DEF Live
<1>3. ASSUME NEW r \in DOMAIN h PROVE Spells(t, h[r], r, L, d)
  <2>1. Spells(t, h[r], r, L, ct)
    BY DEF Paths
  <2> QED BY <2>1 DEF Spells
<1> QED BY <1>2, <1>3 DEF Paths

\* A batch writes the keys and values of its requests to the blocks behind their paths.
LEMMA SoundWritten ==
  ASSUME NEW t, NEW f, NEW h, NEW L, NEW tb, NEW ct, NEW w, NEW wh,
         Sound(t, f, h, L, tb, ct, w, wh), NEW S \in SUBSET (DOMAIN tb \ w), NEW d,
         \A q \in S : \A i \in DOMAIN tb[q] : Len(Path(h, q)) < i => d[tb[q][i]] = KV(q, i),
         \A b \in Blocks :
           (\A q \in S : \A i \in DOMAIN tb[q] : Len(Path(h, q)) < i => tb[q][i] # b) => d[b] = ct[b]
  PROVE  Sound(t, f, h, L, tb, d, w \cup S, wh)
<1>1. /\ Tree(t) /\ Live(t, f, L, ct) /\ Paths(t, h, L, ct) /\ Owned(t, f, h, L, tb, ct, w)
      /\ wh => Intact(t, f, L, tb)
  BY DEF Sound
<1>2. ASSUME NEW q \in S, NEW i \in DOMAIN tb[q], Len(Path(h, q)) < i
      PROVE  i \in Own(t, h, tb, q)
  <2>1. i \in Nat /\ Len(Path(h, q)) \in Nat
    BY <1>1, PathsInTable
  <2>2. ~(i <= Len(Path(h, q)))
    BY <2>1, <1>2
  <2> QED BY <2>2 DEF Own
<1>3. ASSUME NEW q \in S, NEW i \in Own(t, h, tb, q) PROVE i \in DOMAIN tb[q] /\ Len(Path(h, q)) < i
  <2>1. i \in DOMAIN tb[q] /\ q \in DOMAIN tb \ w
        /\ (i <= Len(Path(h, q)) => tb[q][i] # t[Path(h, q)[i]].block)
    BY DEF Own
  <2>2. i \in Nat /\ 1 <= i /\ Len(Path(h, q)) \in Nat /\ DOMAIN Path(h, q) = 1 .. Len(Path(h, q))
    BY <2>1, <1>1, PathsInTable
  <2>3. ASSUME i <= Len(Path(h, q)) PROVE FALSE
    <3>1. i \in DOMAIN Path(h, q)
      BY <2>2, <2>3
    <3>2. tb[q][i] = t[Path(h, q)[i]].block
      BY <3>1, <2>1, <1>1 DEF Owned
    <3> QED BY <3>2, <2>1, <2>3
  <2> QED BY <2>1, <2>2, <2>3
<1>4. ASSUME NEW n \in L PROVE d[t[n].block] = ct[t[n].block]
  <2>1. t[n].block \in Blocks
    BY <1>1 DEF Tree, Node, Live
  <2>2. ASSUME NEW q \in S, NEW i \in DOMAIN tb[q], Len(Path(h, q)) < i PROVE tb[q][i] # t[n].block
    <3>1. i \in Own(t, h, tb, q) /\ q \in DOMAIN tb
      BY <1>2, <2>2
    <3> QED BY <3>1, <1>1 DEF Owned
  <2> QED BY <2>1, <2>2
<1>5. Live(t, f, L, d) /\ Paths(t, h, L, d)
  BY <1>1, <1>4, OtherContent
<1>6. ASSUME NEW q \in DOMAIN tb, NEW i \in Own(t, h, tb, q), q \in w \cup S
      PROVE  d[tb[q][i]] = KV(q, i)
  <2>1. CASE q \in S
    BY <2>1, <1>3
  <2>2. CASE q \notin S
    <3>1. q \in w /\ ct[tb[q][i]] = KV(q, i)
      BY <2>2, <1>1, <1>6 DEF Owned
    <3>2. tb[q][i] \in Blocks
      <4>1. tb[q] \in Seq(Blocks) /\ i \in DOMAIN tb[q]
        BY <1>1 DEF Owned, Own
      <4> QED BY <4>1
    <3>3. ASSUME NEW x \in S, NEW j \in DOMAIN tb[x], Len(Path(h, x)) < j PROVE tb[x][j] # tb[q][i]
      <4>1. j \in Own(t, h, tb, x) /\ x \in DOMAIN tb /\ x # q
        BY <1>2, <3>3, <2>2
      <4> QED BY <4>1, <1>1 DEF Owned
    <3> QED BY <3>1, <3>2, <3>3
  <2> QED BY <2>1, <2>2
<1>7. Owned(t, f, h, L, tb, d, w \cup S)
  <2>1. ASSUME NEW r \in DOMAIN tb, NEW i \in Own(t, h, tb, r)
        PROVE  /\ tb[r][i] \notin ToSet(f) /\ \A n \in L : t[n].block # tb[r][i]
               /\ \A q \in DOMAIN tb : \A j \in Own(t, h, tb, q) : tb[q][j] = tb[r][i] => q = r /\ j = i
    BY <1>1 DEF Owned
  <2>2. /\ DOMAIN tb \subseteq Requests
        /\ \A r \in DOMAIN tb : tb[r] \in Seq(Blocks) /\ Full(r) <= Len(tb[r])
    BY <1>1 DEF Owned
  <2>3. \A r \in DOMAIN tb \ (w \cup S) : \A i \in DOMAIN Path(h, r) :
          tb[r][i] = t[Path(h, r)[i]].block
    BY <1>1 DEF Owned
  <2> QED BY <2>1, <2>2, <2>3, <1>6 DEF Owned
<1> QED BY <1>1, <1>5, <1>7 DEF Sound

\* A request writes its next token to the last block x of its table c, which is its own or
\* was free.
Appends(f, g, tb, b, ct, d, r, c, x) ==
  /\ c \in Seq(Blocks) /\ Len(c) \in {Len(tb[r]), Len(tb[r]) + 1} /\ Full(r) < Len(c)
  /\ \A i \in DOMAIN tb[r] : c[i] = tb[r][i]
  /\ x = c[Len(c)] /\ ToSet(g) \subseteq ToSet(f) /\ ToSet(f) \subseteq ToSet(g) \cup {x}
  /\ c = tb[r] \/ (x \in ToSet(f) /\ x \notin ToSet(g))
  /\ DOMAIN b = DOMAIN tb /\ b[r] = c /\ \A q \in DOMAIN tb : q # r => b[q] = tb[q]
  /\ \A y \in Blocks : d[y] = IF y = x THEN <<r>> ELSE ct[y]
\* Nothing else owns x, so nothing else is overwritten.
LEMMA SoundAppended ==
  ASSUME NEW t, NEW f, NEW h, NEW L, NEW tb, NEW ct, NEW w, NEW wh,
         Sound(t, f, h, L, tb, ct, w, wh), NEW r \in DOMAIN tb,
         NEW c, NEW x, NEW g, NEW b, NEW d, Appends(f, g, tb, b, ct, d, r, c, x)
  PROVE  Sound(t, g, h, L, b, d, w, wh)
<1> USE DEF Appends
<1> DEFINE k == Len(c)
<1>1. /\ Tree(t) /\ Live(t, f, L, ct) /\ Paths(t, h, L, ct) /\ Owned(t, f, h, L, tb, ct, w)
      /\ wh => Intact(t, f, L, tb)
  BY DEF Sound
<1>2. /\ k \in Nat /\ DOMAIN c = 1 .. k /\ DOMAIN tb[r] = 1 .. Len(tb[r]) /\ Len(tb[r]) \in Nat
      /\ Full(r) \in Nat /\ Len(Path(h, r)) \in Nat /\ Len(Path(h, r)) <= Full(r)
      /\ Full(r) <= Len(tb[r]) /\ DOMAIN Path(h, r) = 1 .. Len(Path(h, r))
  BY <1>1, PathsInTable
<1> DEFINE l == Len(tb[r])
           m == Full(r)
           o == Len(Path(h, r))
<1>3. /\ k \in Nat /\ l \in Nat /\ m \in Nat /\ o \in Nat /\ o <= m /\ m <= l /\ m < k
      /\ k = l \/ k = l + 1
      /\ DOMAIN c = 1 .. k /\ DOMAIN tb[r] = 1 .. l /\ DOMAIN Path(h, r) = 1 .. o
      /\ x = c[k]
  BY <1>2
<1> HIDE DEF k, l, m, o
<1>15. k \in DOMAIN c /\ ~(k <= o) /\ ~(k <= m)
  BY <1>3
<1>16. x \in Blocks
  BY <1>3, <1>15
<1>4. \A i \in DOMAIN c : i = k \/ i \in DOMAIN tb[r]
  BY <1>3
<1>5. DOMAIN tb[r] \subseteq DOMAIN c /\ DOMAIN Path(h, r) \subseteq DOMAIN tb[r]
  BY <1>3
<1>6. c = tb[r] => k \in Own(t, h, tb, r)
  <2>1. ~(k <= Len(Path(h, r)))
    BY <1>15 DEF o
  <2> QED BY <2>1, <1>15 DEF Own
<1>7. /\ x \notin ToSet(g) /\ \A n \in L : t[n].block # x
      /\ \A q \in DOMAIN tb : \A j \in Own(t, h, tb, q) : tb[q][j] = x => q = r /\ j = k
  <2>1. CASE c = tb[r]
    <3>1. k \in Own(t, h, tb, r) /\ x = tb[r][k]
      BY <2>1, <1>3, <1>6
    <3>2. x \notin ToSet(f) /\ \A n \in L : t[n].block # x
      BY <3>1, <1>1 DEF Owned
    <3>3. \A q \in DOMAIN tb : \A j \in Own(t, h, tb, q) : tb[q][j] = x => q = r /\ j = k
      BY <3>1, <1>1 DEF Owned
    <3> QED BY <3>2, <3>3
  <2>2. CASE c # tb[r]
    <3>1. x \in ToSet(f) /\ x \notin ToSet(g)
      BY <2>2
    <3>2. \A n \in L : t[n].block # x
      BY <3>1, <1>1 DEF Live
    <3>3. \A q \in DOMAIN tb : \A j \in Own(t, h, tb, q) : tb[q][j] # x
      BY <3>1, <1>1 DEF Owned
    <3> QED BY <3>1, <3>2, <3>3
  <2> QED BY <2>1, <2>2
<1>8. Live(t, g, L, d) /\ Paths(t, h, L, d)
  <2>1. \A n \in L : d[t[n].block] = ct[t[n].block]
    <3>1. \A n \in L : t[n].block \in Blocks
      BY <1>1 DEF Tree, Node, Live
    <3> QED BY <3>1, <1>7
  <2>2. Live(t, f, L, d) /\ Paths(t, h, L, d)
    BY <2>1, <1>1, OtherContent
  <2> QED BY <2>2 DEF Live
<1>9. ASSUME NEW q \in DOMAIN b, NEW i \in Own(t, h, b, q)
      PROVE  \/ q = r /\ i = k /\ b[q][i] = x
             \/ i \in Own(t, h, tb, q) /\ b[q][i] = tb[q][i]
  <2>1. CASE q = r
    <3>1. CASE i = k
      BY <2>1, <3>1, <1>3
    <3>2. CASE i # k
      BY <2>1, <3>2, <1>4 DEF Own
    <3> QED BY <3>1, <3>2
  <2>2. CASE q # r
    BY <2>2 DEF Own
  <2> QED BY <2>1, <2>2
<1>10. ASSUME NEW q \in DOMAIN b, NEW i \in Own(t, h, b, q)
       PROVE  /\ b[q][i] \notin ToSet(g) /\ \A n \in L : t[n].block # b[q][i]
              /\ \A y \in DOMAIN b : \A j \in Own(t, h, b, y) : b[y][j] = b[q][i] => y = q /\ j = i
              /\ q \in w => d[b[q][i]] = KV(q, i)
  <2>1. CASE q = r /\ i = k /\ b[q][i] = x
    <3>1. KV(q, i) = <<r>>
      BY <2>1, <1>15 DEF KV, m
    <3>2. ASSUME NEW y \in DOMAIN b, NEW j \in Own(t, h, b, y), b[y][j] = b[q][i]
          PROVE  y = q /\ j = i
      BY <2>1, <3>2, <1>7, <1>9
    <3> QED BY <3>1, <3>2, <2>1, <1>16, <1>7
  <2>2. CASE i \in Own(t, h, tb, q) /\ b[q][i] = tb[q][i] /\ ~(q = r /\ i = k)
    <3>1. /\ tb[q][i] \notin ToSet(f) /\ \A n \in L : t[n].block # tb[q][i]
          /\ \A y \in DOMAIN tb : \A j \in Own(t, h, tb, y) : tb[y][j] = tb[q][i] => y = q /\ j = i
          /\ q \in w => ct[tb[q][i]] = KV(q, i)
      BY <2>2, <1>1 DEF Owned
    <3>2. tb[q][i] # x
      BY <2>2, <1>7
    <3>3. ASSUME NEW y \in DOMAIN b, NEW j \in Own(t, h, b, y), b[y][j] = b[q][i]
          PROVE  y = q /\ j = i
      BY <2>2, <3>1, <3>2, <3>3, <1>9
    <3>4. tb[q][i] \in Blocks
      <4>1. tb[q] \in Seq(Blocks) /\ i \in DOMAIN tb[q]
        BY <2>2, <1>1 DEF Owned, Own
      <4> QED BY <4>1
    <3>5. d[tb[q][i]] = ct[tb[q][i]]
      BY <3>2, <3>4
    <3>6. b[q][i] \notin ToSet(g) /\ \A n \in L : t[n].block # b[q][i]
      BY <3>1, <2>2
    <3>7. q \in w => d[b[q][i]] = KV(q, i)
      BY <3>1, <3>5, <2>2
    <3> QED BY <3>3, <3>6, <3>7
  <2>3. q = r /\ i = k => b[q][i] = x
    BY <1>3
  <2> QED BY <2>1, <2>2, <2>3, <1>9
<1>11. ASSUME NEW q \in DOMAIN b \ w, NEW i \in DOMAIN Path(h, q)
       PROVE  b[q][i] = t[Path(h, q)[i]].block
  <2>1. tb[q][i] = t[Path(h, q)[i]].block
    BY <1>1 DEF Owned
  <2>2. CASE q = r
    <3>1. i \in DOMAIN tb[r]
      BY <2>2, <1>5
    <3> QED BY <3>1, <2>1, <2>2
  <2> QED BY <2>1, <2>2
<1>12. DOMAIN b \subseteq Requests /\ \A q \in DOMAIN b : b[q] \in Seq(Blocks) /\ Full(q) <= Len(b[q])
  <2>0. m <= k
    BY <1>3
  <2>1. Full(r) <= Len(c)
    BY <2>0 DEF k, m
  <2> QED BY <2>1, <1>1 DEF Owned
<1>13. Owned(t, g, h, L, b, d, w)
  BY <1>10, <1>11, <1>12 DEF Owned
<1>14. ASSUME Intact(t, f, L, tb) PROVE Intact(t, g, L, b)
  <2>1. ASSUME NEW y \in Blocks
        PROVE  \/ y \in ToSet(g) \/ \E n \in L : t[n].block = y
               \/ \E q \in DOMAIN b : y \in ToSet(b[q])
    <3>1. ASSUME NEW q \in DOMAIN tb, y \in ToSet(tb[q]) PROVE y \in ToSet(b[q])
      <4>1. CASE q = r
        BY <3>1, <4>1, <1>5 DEF ToSet
      <4> QED BY <3>1, <4>1
    <3>2. x \in ToSet(b[r])
      BY <1>3, <1>15 DEF ToSet
    <3> QED BY <3>1, <3>2, <1>14 DEF Intact
  <2> QED BY <2>1, <1>14 DEF Intact
<1> QED BY <1>1, <1>8, <1>13, <1>14 DEF Sound

\* A request gives back its own blocks; those of its path stay with the tree.
LEMMA SoundReleased ==
  ASSUME NEW t, NEW f, NEW h, NEW L, NEW tb, NEW ct, NEW w, NEW wh,
         Sound(t, f, h, L, tb, ct, w, wh), NEW r \in DOMAIN tb,
         NEW K, K = {t[n].block : n \in ToSet(Path(h, r))},
         NEW g, ToSet(g) = ToSet(f) \cup (ToSet(tb[r]) \ K)
  PROVE  Sound(t, g, Drop(h, r), L, Drop(tb, r), ct, w \ {r}, wh)
<1> DEFINE k == Drop(h, r)
           b == Drop(tb, r)
<1>1. /\ Tree(t) /\ Live(t, f, L, ct) /\ Paths(t, h, L, ct) /\ Owned(t, f, h, L, tb, ct, w)
      /\ wh => Intact(t, f, L, tb)
  BY DEF Sound
<1>2. /\ DOMAIN b = DOMAIN tb \ {r} /\ \A q \in DOMAIN b : b[q] = tb[q] /\ q # r /\ q \in DOMAIN tb
      /\ DOMAIN k = DOMAIN h \ {r} /\ \A q \in DOMAIN k : k[q] = h[q]
  BY DEF Drop
<1> HIDE DEF k, b
<1>3. \A q : q # r => Path(k, q) = Path(h, q)
  BY <1>2 DEF Path
<1>4. ASSUME NEW q \in DOMAIN b
      PROVE  Own(t, k, b, q) = Own(t, h, tb, q) /\ Path(k, q) = Path(h, q)
  BY <1>2, <1>3 DEF Own
<1>5. ASSUME NEW x \in ToSet(tb[r]) \ K PROVE \E i \in Own(t, h, tb, r) : tb[r][i] = x
  <2>1. PICK i \in DOMAIN tb[r] : tb[r][i] = x
    BY DEF ToSet
  <2>2. ASSUME i <= Len(Path(h, r)), tb[r][i] = t[Path(h, r)[i]].block PROVE FALSE
    <3>1. i \in DOMAIN Path(h, r)
      <4>1. /\ DOMAIN Path(h, r) = 1 .. Len(Path(h, r)) /\ Len(Path(h, r)) \in Nat
            /\ DOMAIN tb[r] = 1 .. Len(tb[r]) /\ Len(tb[r]) \in Nat
        BY <1>1, PathsInTable
      <4> QED BY <4>1, <2>1, <2>2
    <3>2. Path(h, r)[i] \in ToSet(Path(h, r))
      BY <3>1 DEF ToSet
    <3> QED BY <3>2, <2>1, <2>2
  <2> QED BY <2>1, <2>2 DEF Own
<1>6. Live(t, g, L, ct)
  <2>1. ASSUME NEW n \in L PROVE t[n].block \notin ToSet(g)
    <3>1. t[n].block \notin ToSet(f)
      BY <1>1 DEF Live
    <3>2. \A i \in Own(t, h, tb, r) : tb[r][i] # t[n].block
      BY <1>1 DEF Owned
    <3> QED BY <3>1, <3>2, <1>5
  <2> QED BY <2>1, <1>1 DEF Live
<1>7. Paths(t, k, L, ct)
  BY <1>1, <1>2 DEF Paths
<1>8. ASSUME NEW q \in DOMAIN b, NEW i \in Own(t, k, b, q)
      PROVE  /\ b[q][i] \notin ToSet(g) /\ \A n \in L : t[n].block # b[q][i]
             /\ \A x \in DOMAIN b : \A j \in Own(t, k, b, x) : b[x][j] = b[q][i] => x = q /\ j = i
             /\ q \in w \ {r} => ct[b[q][i]] = KV(q, i)
  <2>1. q \in DOMAIN tb /\ q # r /\ b[q][i] = tb[q][i] /\ i \in Own(t, h, tb, q)
    BY <1>2, <1>4
  <2>2. /\ tb[q][i] \notin ToSet(f) /\ \A n \in L : t[n].block # tb[q][i]
        /\ \A x \in DOMAIN tb : \A j \in Own(t, h, tb, x) : tb[x][j] = tb[q][i] => x = q /\ j = i
        /\ q \in w => ct[tb[q][i]] = KV(q, i)
    BY <2>1, <1>1 DEF Owned
  <2>3. tb[q][i] \notin ToSet(g)
    BY <2>1, <2>2, <1>5
  <2>4. ASSUME NEW x \in DOMAIN b, NEW j \in Own(t, k, b, x), b[x][j] = b[q][i]
        PROVE  x = q /\ j = i
    <3>1. x \in DOMAIN tb /\ b[x][j] = tb[x][j] /\ j \in Own(t, h, tb, x)
      BY <1>2, <1>4
    <3> QED BY <3>1, <2>1, <2>2, <2>4
  <2> QED BY <2>1, <2>2, <2>3, <2>4
<1>9. ASSUME NEW q \in DOMAIN b \ (w \ {r}), NEW i \in DOMAIN Path(k, q)
      PROVE  b[q][i] = t[Path(k, q)[i]].block
  <2>1. q \in DOMAIN tb \ w /\ b[q] = tb[q] /\ Path(k, q) = Path(h, q)
    BY <1>2, <1>4
  <2> QED BY <2>1, <1>1 DEF Owned
<1>10. DOMAIN b \subseteq Requests /\ \A q \in DOMAIN b : b[q] \in Seq(Blocks) /\ Full(q) <= Len(b[q])
  BY <1>1, <1>2 DEF Owned
<1>11. Owned(t, g, k, L, b, ct, w \ {r})
  BY <1>8, <1>9, <1>10 DEF Owned
<1>12. ASSUME Intact(t, f, L, tb) PROVE Intact(t, g, L, b)
  <2>1. \A n \in ToSet(Path(h, r)) : n \in L
    <3>1. Path(h, r) \in Seq(DOMAIN t)
      BY <1>1, PathsInTable
    <3> QED BY <3>1, <1>12 DEF Intact, ToSet
  <2>2. ASSUME NEW x \in Blocks
        PROVE  \/ x \in ToSet(g) \/ \E n \in L : t[n].block = x
               \/ \E q \in DOMAIN b : x \in ToSet(b[q])
    <3>1. CASE x \in ToSet(tb[r])
      <4>1. CASE x \in K
        BY <4>1, <2>1
      <4> QED BY <4>1, <3>1
    <3>2. ASSUME NEW q \in DOMAIN tb, x \in ToSet(tb[q]), x \notin ToSet(tb[r])
          PROVE  q \in DOMAIN b /\ x \in ToSet(b[q])
      <4>1. q \in DOMAIN b
        BY <3>2, <1>2
      <4> QED BY <4>1, <3>2, <1>2
    <3>3. x \in ToSet(f) \/ (\E n \in L : t[n].block = x) \/ \E q \in DOMAIN tb : x \in ToSet(tb[q])
      BY <1>12 DEF Intact
    <3> QED BY <3>1, <3>2, <3>3
  <2> QED BY <2>2, <1>12 DEF Intact
<1>13. Sound(t, g, k, L, b, ct, w \ {r}, wh)
  BY <1>1, <1>6, <1>7, <1>11, <1>12 DEF Sound
<1> QED BY <1>13 DEF k, b

\* The step from the invariant's parts, whatever the live nodes are.
LEMMA Assembled ==
  ASSUME Counts', Tables(table', context'),
         \E M \in SUBSET DOMAIN tree' :
           Sound(tree', free', holds', M, table', content', written', whole')
  PROVE  CacheInv'
BY DEF CacheInv

\* The held paths stay a function of the requests.
LEMMA HoldIsFunction ==
  ASSUME NEW h, h = [x \in DOMAIN h |-> h[x]], NEW r, NEW p
  PROVE  LET k == Hold(h, r, p)
             d == Drop(h, r)
         IN  k = [x \in DOMAIN k |-> k[x]] /\ d = [x \in DOMAIN d |-> d[x]]
<1> DEFINE k == Hold(h, r, p)
<1>1. CASE p = <<>>
  BY <1>1 DEF Hold, Drop
<1>2. CASE p # <<>>
  BY <1>2 DEF Hold, Put, Drop
<1> QED BY <1>1, <1>2

\* The matched prefix, in either configuration.
LEMMA MatchedSpells ==
  ASSUME NEW f, NEW L, NEW ct, Tree(tree), Live(tree, f, L, ct), NEW r \in Requests
  PROVE  Spells(tree, Matched(r), r, L, ct) /\ ToSet(Matched(r)) \subseteq L
<1>1. CASE PrefixCache
  <2>1. Matched(r) = MatchPrefix(r)
    BY <1>1 DEF Matched
  <2> QED BY <2>1, Matching
<1>2. CASE ~PrefixCache
  <2>1. Matched(r) = <<>>
    BY <1>2 DEF Matched
  <2>2. Spells(tree, <<>>, r, L, ct)
    BY BlockCounts DEF Spells
  <2>3. ToSet(<<>>) \subseteq L
    BY DEF ToSet
  <2> QED BY <2>1, <2>2, <2>3
<1> QED BY <1>1, <1>2

\* A slot is taken only while one is left.
LEMMA Slots ==
  ASSUME slotted \subseteq Requests, IsFiniteSet(slotted), Cardinality(slotted) <= NumSlots,
         ~SlotsOut, NEW r \in Requests,
         NEW s, s = IF Hybrid THEN slotted \cup {r} ELSE slotted
  PROVE  s \subseteq Requests /\ IsFiniteSet(s) /\ Cardinality(s) <= NumSlots
<1>1. CASE Hybrid
  <2>1. /\ Cardinality(slotted) \in Nat /\ NumSlots \in Nat
        /\ Cardinality(slotted) # NumSlots
    BY <1>1, FS_CardinalityType, BCAssumption DEF SlotsOut
  <2>2. IsFiniteSet(slotted \cup {r})
        /\ Cardinality(slotted \cup {r}) \in {Cardinality(slotted), Cardinality(slotted) + 1}
    BY FS_AddElement
  <2>3. s = slotted \cup {r}
    BY <1>1
  <2>4. Cardinality(s) <= NumSlots
    BY <2>1, <2>2, <2>3
  <2> QED BY <2>2, <2>3, <2>4
<1>2. CASE ~Hybrid
  BY <1>2
<1> QED BY <1>1, <1>2

\* An admission: matched blocks are shared, the others were free.
LEMMA AllocateKeeps ==
  ASSUME CacheInv, NEW r \in Requests, Allocate(r)
  PROVE  CacheInv'
<1> DEFINE path == Matched(r)
           left == Len(free) - Needed(r)
           a == [i \in DOMAIN path |-> tree[path[i]].block]
           c == a \o SubSeq(free, left + 1, Len(free))
           u == Relock(Touch(tree, path), path, 1)
<1>1. /\ up = TRUE /\ r \notin DOMAIN table /\ ~SlotsOut /\ left >= 0
      /\ free' = SubSeq(free, 1, left) /\ table' = Put(table, r, c)
      /\ context' = Put(context, r, Len(Prompt[r]))
      /\ slotted' = IF Hybrid THEN slotted \cup {r} ELSE slotted
      /\ holds' = Hold(holds, r, path) /\ tree' = Collected(u, holds')
      /\ UNCHANGED <<cached, written, content, up, whole>>
  BY DEF Allocate, CacheInv, Counts
<1>2. PICK L \in SUBSET DOMAIN tree :
        Sound(tree, free, holds, L, table, content, written, whole)
  BY DEF CacheInv
<1>3. /\ Tree(tree) /\ Live(tree, free, L, content)
  BY <1>2 DEF Sound
<1>4. Spells(tree, path, r, L, content)
  BY <1>3, MatchedSpells
<1>5. Counts /\ Tables(table, context)
  BY DEF CacheInv
<1>6. Len(free) \in Nat /\ free \in Seq(Blocks) /\ IsInjective(free) /\ whole \in BOOLEAN
      /\ r \notin DOMAIN holds /\ r \notin written /\ DOMAIN content = Blocks
  BY <1>1, <1>5 DEF Counts
<1> DEFINE n == BlocksFor(Len(Prompt[r]))
           m == Full(r)
           l == Len(path)
<1>7. Needed(r) = n - l
  BY DEF Needed
<1>8. n \in Nat /\ m \in Nat /\ m <= n /\ Len(Prompt[r]) \in 1 .. MaxLength
  BY BlockCounts
<1>9. path \in Seq(DOMAIN tree) /\ l <= m /\ DOMAIN path = 1 .. l /\ l \in Nat
  BY <1>4 DEF Spells
<1> HIDE DEF path
<1>10. a \in Seq(Blocks) /\ Len(a) = l /\ \A i \in 1 .. l : a[i] = tree[path[i]].block
  <2>1. \A i \in 1 .. l : tree[path[i]].block \in Blocks
    BY <1>3, <1>9 DEF Tree, Node
  <2>2. a = [i \in 1 .. l |-> tree[path[i]].block]
    BY <1>9
  <2> QED BY <2>1, <2>2, <1>9
<1> HIDE DEF n, m, l
<1>11. left \in 0 .. Len(free) /\ l + (Len(free) - left) = n
  <2>1. Needed(r) \in Nat
    BY <1>7, <1>8, <1>9
  <2> QED BY <2>1, <1>1, <1>6, <1>7, <1>8, <1>9
<1> HIDE DEF left, a
<1>20. c = a \o SubSeq(free, left + 1, Len(free)) /\ free' = SubSeq(free, 1, left)
  BY <1>1
<1> HIDE DEF c
<1>12. /\ free' \in Seq(Blocks) /\ IsInjective(free') /\ ToSet(free') \subseteq ToSet(free)
       /\ c \in Seq(Blocks) /\ Len(c) = Len(a) + (Len(free) - left)
       /\ \A i \in 1 .. Len(a) : c[i] = a[i]
       /\ \A i \in Len(a) + 1 .. Len(c) : c[i] \in ToSet(free) /\ c[i] \notin ToSet(free')
       /\ \A i, j \in Len(a) + 1 .. Len(c) : c[i] = c[j] => i = j
       /\ ToSet(free) \subseteq ToSet(free') \cup ToSet(c)
  <2>1. PICK g : g = free'
    OBVIOUS
  <2>2. Takes(free, left, a, g, c)
    BY <2>1, <1>6, <1>10, <1>11, <1>20, Taken
  <2> QED BY <2>1, <2>2 DEF Takes
<1>13. Len(c) = n
  BY <1>10, <1>11, <1>12
<1>14. Sound(tree, free', holds', L, table', content, written, whole)
  <2>1. Full(r) <= Len(c)
    BY <1>8, <1>13 DEF m
  <2>2. \A i \in 1 .. Len(path) : c[i] = tree[path[i]].block
    BY <1>10, <1>12 DEF l
  <2>3. /\ \A i \in Len(path) + 1 .. Len(c) : c[i] \in ToSet(free) /\ c[i] \notin ToSet(free')
        /\ \A i, j \in Len(path) + 1 .. Len(c) : c[i] = c[j] => i = j
    BY <1>10, <1>12 DEF l
  <2> QED BY <2>1, <2>2, <2>3, <1>1, <1>2, <1>4, <1>6, <1>12, SoundAdmitted
<1>15. Tree(u) /\ Within(u, tree) /\ DOMAIN u = DOMAIN tree
  BY <1>3, <1>9, TouchRelock
<1> HIDE DEF u
<1>16. Sound(u, free', holds', L, table', content, written, whole)
  BY <1>6, <1>14, <1>15, SoundSame
<1>17. \E M \in SUBSET DOMAIN tree' :
         Sound(tree', free', holds', M, table', content', written', whole')
  <2>1. \E M \in SUBSET DOMAIN Collected(u, holds') :
          Sound(Collected(u, holds'), free', holds', M, table', content, written, whole)
    BY <1>6, <1>16, CollectedSound
  <2> QED BY <2>1, <1>1
<1>18. Tables(table', context')
  <2>1. Len(table'[r]) = BlocksFor(context'[r]) /\ context'[r] = Len(Prompt[r]) /\ table'[r] = c
    BY <1>1, <1>13 DEF Put, n
  <2>2. context'[r] \in Len(Prompt[r]) .. MaxLength
    BY <2>1, <1>8
  <2>3. /\ DOMAIN table' = DOMAIN table \cup {r} /\ DOMAIN context' = DOMAIN context \cup {r}
        /\ \A q \in DOMAIN table : table'[q] = table[q]
        /\ \A q \in DOMAIN context : q # r => context'[q] = context[q]
    BY <1>1 DEF Put
  <2> QED BY <2>1, <2>2, <2>3, <1>1, <1>5, <1>12 DEF Tables
<1>19. Counts'
  <2>1. slotted' \subseteq Requests /\ IsFiniteSet(slotted') /\ Cardinality(slotted') <= NumSlots
    BY <1>1, <1>5, Slots DEF Counts
  <2>2. holds' = [x \in DOMAIN holds' |-> holds'[x]]
    BY <1>1, <1>5, HoldIsFunction DEF Counts
  <2>3. DOMAIN holds' \subseteq DOMAIN table' /\ written' \subseteq DOMAIN table'
    <3>1. DOMAIN holds \subseteq DOMAIN table /\ written \subseteq DOMAIN table
      BY <1>1, <1>5 DEF Counts
    <3>2. DOMAIN holds' \subseteq DOMAIN holds \cup {r}
      BY <1>1, HoldFacts
    <3>3. DOMAIN table' = DOMAIN table \cup {r}
      BY <1>1 DEF Put
    <3> QED BY <3>1, <3>2, <3>3, <1>1
  <2> QED BY <2>1, <2>2, <2>3, <1>1, <1>5, <1>12 DEF Counts
<1> QED BY <1>17, <1>18, <1>19, Assembled

\* An admission that fails for want of blocks leaves nothing behind but accesses.
LEMMA AllocateNoBlocksKeeps ==
  ASSUME CacheInv, NEW r \in Requests, AllocateNoBlocks(r)
  PROVE  CacheInv'
<1> DEFINE u == Touch(tree, Matched(r))
<1>1. /\ tree' = Collected(u, holds)
      /\ UNCHANGED <<free, table, context, slotted, cached, holds, written, content, up, whole>>
  BY DEF AllocateNoBlocks
<1>2. PICK L \in SUBSET DOMAIN tree :
        Sound(tree, free, holds, L, table, content, written, whole)
  BY DEF CacheInv
<1>3. Tree(tree) /\ Live(tree, free, L, content)
  BY <1>2 DEF Sound
<1>4. Matched(r) \in Seq(DOMAIN tree)
  BY <1>3, MatchedSpells DEF Spells
<1>5. Tree(u) /\ Within(u, tree) /\ DOMAIN u = DOMAIN tree
  BY <1>3, <1>4, Touched
<1>6. Counts /\ Tables(table, context) /\ whole \in BOOLEAN
  BY DEF CacheInv, Counts
<1> HIDE DEF u
<1>7. Sound(u, free, holds, L, table, content, written, whole)
  BY <1>2, <1>5, <1>6, SoundSame
<1>8. \E M \in SUBSET DOMAIN tree' :
        Sound(tree', free', holds', M, table', content', written', whole')
  <2>1. \E M \in SUBSET DOMAIN Collected(u, holds) :
          Sound(Collected(u, holds), free, holds, M, table, content, written, whole)
    BY <1>6, <1>7, CollectedSound
  <2> QED BY <2>1, <1>1
<1>9. Counts'
  BY <1>1, <1>6 DEF Counts
<1>10. Tables(table', context')
  BY <1>1, <1>6
<1> QED BY <1>8, <1>9, <1>10, Assembled

\* A path that is held for a request without a table.
LEMMA SoundHeld ==
  ASSUME NEW t, NEW f, NEW h, NEW L, NEW tb, NEW ct, NEW w, NEW wh,
         Sound(t, f, h, L, tb, ct, w, wh), NEW r \in Requests, r \notin DOMAIN tb,
         NEW p, Spells(t, p, r, L, ct)
  PROVE  Sound(t, f, Hold(h, r, p), L, tb, ct, w, wh)
<1> DEFINE k == Hold(h, r, p)
<1>1. /\ Tree(t) /\ Live(t, f, L, ct) /\ Paths(t, h, L, ct) /\ Owned(t, f, h, L, tb, ct, w)
      /\ wh => Intact(t, f, L, tb)
  BY DEF Sound
<1>2. Paths(t, k, L, ct)
  <2>1. CASE p = <<>>
    BY <2>1, <1>1 DEF Hold
  <2>2. CASE p # <<>>
    <3>1. k = Put(h, r, p) /\ Extends(t, t) /\ L \cap DOMAIN t \subseteq L
      BY <2>2 DEF Hold, Extends
    <3> QED BY <3>1, <1>1, PathsOn
  <2> QED BY <2>1, <2>2
<1>3. \A q \in DOMAIN tb : Path(k, q) = Path(h, q)
  <2>1. \A q : q # r => Path(k, q) = Path(h, q)
    BY HoldFacts
  <2> QED BY <2>1
<1> HIDE DEF k
<1>4. \A q \in DOMAIN tb : Own(t, k, tb, q) = Own(t, h, tb, q)
  BY <1>3 DEF Own
<1>5. Owned(t, f, k, L, tb, ct, w)
  <2>1. ASSUME NEW q \in DOMAIN tb, NEW i \in Own(t, k, tb, q)
        PROVE  /\ tb[q][i] \notin ToSet(f) /\ \A n \in L : t[n].block # tb[q][i]
               /\ \A x \in DOMAIN tb : \A j \in Own(t, k, tb, x) : tb[x][j] = tb[q][i] => x = q /\ j = i
               /\ q \in w => ct[tb[q][i]] = KV(q, i)
    <3>1. i \in Own(t, h, tb, q)
      BY <1>4
    <3>2. /\ tb[q][i] \notin ToSet(f) /\ \A n \in L : t[n].block # tb[q][i]
          /\ \A x \in DOMAIN tb : \A j \in Own(t, h, tb, x) : tb[x][j] = tb[q][i] => x = q /\ j = i
          /\ q \in w => ct[tb[q][i]] = KV(q, i)
      BY <3>1, <1>1 DEF Owned
    <3> QED BY <3>2, <1>4
  <2>2. \A q \in DOMAIN tb \ w : \A i \in DOMAIN Path(k, q) : tb[q][i] = t[Path(k, q)[i]].block
    BY <1>1, <1>3 DEF Owned
  <2> QED BY <2>1, <2>2, <1>1 DEF Owned
<1>6. Sound(t, f, k, L, tb, ct, w, wh)
  BY <1>1, <1>2, <1>5 DEF Sound
<1> QED BY <1>6 DEF k

\* One that fails for want of a slot leaves a path held without a table.
LEMMA AllocateNoSlotKeeps ==
  ASSUME CacheInv, NEW r \in Requests, AllocateNoSlot(r)
  PROVE  CacheInv'
<1> DEFINE path == Matched(r)
           u == Relock(Touch(tree, path), path, 1)
<1>1. /\ r \notin DOMAIN table /\ holds' = Hold(holds, r, path)
      /\ tree' = Collected(u, holds') /\ up' = FALSE
      /\ UNCHANGED <<free, table, context, slotted, cached, written, content, whole>>
  BY DEF AllocateNoSlot
<1>2. PICK L \in SUBSET DOMAIN tree :
        Sound(tree, free, holds, L, table, content, written, whole)
  BY DEF CacheInv
<1>3. Tree(tree) /\ Live(tree, free, L, content)
  BY <1>2 DEF Sound
<1>4. Spells(tree, path, r, L, content) /\ path \in Seq(DOMAIN tree)
  BY <1>3, MatchedSpells DEF Spells
<1> HIDE DEF path
<1>5. Tree(u) /\ Within(u, tree) /\ DOMAIN u = DOMAIN tree
  BY <1>3, <1>4, TouchRelock
<1>6. Counts /\ Tables(table, context) /\ whole \in BOOLEAN
  BY DEF CacheInv, Counts
<1> HIDE DEF u
<1>7. Sound(tree, free, holds', L, table, content, written, whole)
  BY <1>1, <1>2, <1>4, SoundHeld
<1>8. Sound(u, free, holds', L, table, content, written, whole)
  BY <1>5, <1>6, <1>7, SoundSame
<1>9. \E M \in SUBSET DOMAIN tree' :
        Sound(tree', free', holds', M, table', content', written', whole')
  <2>1. \E M \in SUBSET DOMAIN Collected(u, holds') :
          Sound(Collected(u, holds'), free, holds', M, table, content, written, whole)
    BY <1>6, <1>8, CollectedSound
  <2> QED BY <2>1, <1>1
<1>10. Counts'
  <2>1. holds' = [x \in DOMAIN holds' |-> holds'[x]]
    BY <1>1, <1>6, HoldIsFunction DEF Counts
  <2> QED BY <2>1, <1>1, <1>6 DEF Counts
<1>11. Tables(table', context')
  BY <1>1, <1>6
<1> QED BY <1>9, <1>10, <1>11, Assembled

\* The last block of the free stack is taken.
LEMMA TakesLast ==
  ASSUME NEW f \in Seq(Blocks), IsInjective(f), f # <<>>
  PROVE  /\ Front(f) \in Seq(Blocks) /\ IsInjective(Front(f)) /\ Last(f) \in Blocks
         /\ ToSet(Front(f)) \subseteq ToSet(f) /\ ToSet(f) \subseteq ToSet(Front(f)) \cup {Last(f)}
         /\ Last(f) \in ToSet(f) /\ Last(f) \notin ToSet(Front(f))
<1> DEFINE n == Len(f)
           g == Front(f)
<1>1. n \in Nat /\ n # 0 /\ DOMAIN f = 1 .. n /\ Last(f) = f[n] /\ g = SubSeq(f, 1, n - 1)
  BY EmptySeq DEF Front, Last
<1>2. /\ g \in Seq(Blocks) /\ Len(g) = n - 1 /\ DOMAIN g = 1 .. (n - 1)
      /\ \A i \in 1 .. (n - 1) : g[i] = f[i]
  BY <1>1
<1> HIDE DEF g, n
<1>3. /\ n \in DOMAIN f /\ DOMAIN f = DOMAIN g \cup {n} /\ n \notin DOMAIN g
      /\ \A i \in DOMAIN g : g[i] = f[i]
  BY <1>1, <1>2
<1>4. \A i, j \in DOMAIN f : f[i] = f[j] => i = j
  BY DEF IsInjective
<1>5. IsInjective(g)
  BY <1>3, <1>4 DEF IsInjective
<1>6. ToSet(g) \subseteq ToSet(f) /\ ToSet(f) \subseteq ToSet(g) \cup {f[n]} /\ f[n] \in ToSet(f)
  BY <1>3 DEF ToSet
<1>7. f[n] \notin ToSet(g)
  BY <1>3, <1>4 DEF ToSet
<1>8. f[n] \in Blocks
  BY <1>3
<1> QED BY <1>1, <1>2, <1>5, <1>6, <1>7, <1>8 DEF g

\* A decode step writes behind the full blocks of the prompt, never to a shared block.
LEMMA AppendSlotKeeps ==
  ASSUME CacheInv, NEW r \in Requests, AppendSlot(r)
  PROVE  CacheInv'
<1> DEFINE m == context[r] % BlockSize
           x == Last(table'[r])
           c == table'[r]
           k == context[r]
<1>1. /\ r \in written /\ k < MaxLength
      /\ m = 0 => free # <<>>
      /\ context' = [context EXCEPT ![r] = @ + 1]
      /\ table' = IF m = 0 THEN [table EXCEPT ![r] = Append(@, Last(free))] ELSE table
      /\ free' = IF m = 0 THEN Front(free) ELSE free
      /\ content' = [content EXCEPT ![x] = <<r>>]
      /\ UNCHANGED <<slotted, tree, cached, holds, written, up, whole>>
  BY DEF AppendSlot
<1>2. PICK L \in SUBSET DOMAIN tree :
        Sound(tree, free, holds, L, table, content, written, whole)
  BY DEF CacheInv
<1>3. Counts /\ Tables(table, context)
  BY DEF CacheInv
<1>4. /\ r \in DOMAIN table /\ free \in Seq(Blocks) /\ IsInjective(free) /\ DOMAIN content = Blocks
      /\ table[r] \in Seq(Blocks) /\ Len(table[r]) = BlocksFor(k) /\ DOMAIN context = DOMAIN table
      /\ k \in Len(Prompt[r]) .. MaxLength
  <2>1. /\ r \in DOMAIN table /\ free \in Seq(Blocks) /\ IsInjective(free)
        /\ DOMAIN content = Blocks
    BY <1>1, <1>3 DEF Counts
  <2>2. /\ table[r] \in Seq(Blocks) /\ Len(table[r]) = BlocksFor(context[r])
        /\ DOMAIN context = DOMAIN table /\ context[r] \in Len(Prompt[r]) .. MaxLength
    BY <2>1, <1>3 DEF Tables
  <2> QED BY <2>1, <2>2
<1>15. r \in Requests /\ r \in DOMAIN context
  BY <1>4
<1> HIDE DEF k
<1>5. /\ k \in Nat /\ Len(Prompt[r]) \in Nat /\ Len(Prompt[r]) <= k
      /\ k + 1 \in Len(Prompt[r]) .. MaxLength
  <2>1. Len(Prompt[r]) \in 1 .. MaxLength /\ MaxLength \in Nat
    BY BlockCounts, BCAssumption
  <2>2. Len(Prompt[r]) \in Nat /\ Len(Prompt[r]) <= k /\ k \in Int
    BY <2>1, <1>4
  <2>3. k \in Nat
    BY <2>2
  <2>4. k + 1 \in Len(Prompt[r]) .. MaxLength
    <3>1. k < MaxLength /\ MaxLength \in Nat
      BY <2>1, <1>1
    <3> QED BY <3>1, <2>2
  <2> QED BY <2>2, <2>3, <2>4
<1>6. /\ BlocksFor(k) \in Nat /\ Full(r) < BlocksFor(k + 1) /\ Full(r) \in Nat
      /\ BlocksFor(k + 1) = IF m = 0 THEN BlocksFor(k) + 1 ELSE BlocksFor(k)
  BY <1>5, BlockCounts DEF k
<1> HIDE DEF m
<1>7. /\ c \in Seq(Blocks) /\ Len(c) = BlocksFor(k + 1)
      /\ Len(c) \in {Len(table[r]), Len(table[r]) + 1} /\ \A i \in DOMAIN table[r] : c[i] = table[r][i]
      /\ m = 0 => c[Len(c)] = Last(free)
      /\ m # 0 => c = table[r]
      /\ DOMAIN table' = DOMAIN table /\ \A q \in DOMAIN table : q # r => table'[q] = table[q]
  <2>1. CASE m = 0
    <3>0. table' = [table EXCEPT ![r] = Append(@, Last(free))]
      BY <2>1, <1>1
    <3>1. c = Append(table[r], Last(free)) /\ Last(free) \in Blocks
      <4>1. Last(free) \in Blocks
        BY <2>1, <1>1, <1>4, TakesLast
      <4> QED BY <3>0, <4>1, <1>4
    <3>2. DOMAIN table' = DOMAIN table /\ \A q \in DOMAIN table : q # r => table'[q] = table[q]
      BY <3>0
    <3> HIDE DEF c
    <3> QED BY <3>1, <3>2, <2>1, <1>4, <1>6
  <2>2. CASE m # 0
    BY <2>2, <1>1, <1>4, <1>6
  <2> QED BY <2>1, <2>2
<1> HIDE DEF c
<1>8. x = c[Len(c)] /\ Full(r) < Len(c) /\ x \in Blocks
  <2>1. x = c[Len(c)]
    BY DEF Last, c
  <2>2. Full(r) < Len(c) /\ Len(c) \in 1 .. Len(c)
    BY <1>6, <1>7
  <2> QED BY <2>1, <2>2, <1>7
<1> HIDE DEF x
<1>9. /\ free' \in Seq(Blocks) /\ IsInjective(free') /\ ToSet(free') \subseteq ToSet(free)
      /\ ToSet(free) \subseteq ToSet(free') \cup {x}
      /\ c = table[r] \/ (x \in ToSet(free) /\ x \notin ToSet(free'))
  <2>1. CASE m = 0
    <3>1. x = Last(free)
      BY <2>1, <1>7, <1>8
    <3>2. free' = Front(free)
      BY <2>1, <1>1
    <3>3. free # <<>>
      BY <2>1, <1>1
    <3> QED BY <3>1, <3>2, <3>3, <1>4, TakesLast
  <2>2. CASE m # 0
    BY <2>2, <1>1, <1>4, <1>7
  <2> QED BY <2>1, <2>2
<1>10. \A y \in Blocks : content'[y] = IF y = x THEN <<r>> ELSE content[y]
  BY <1>1, <1>4
<1>11. Sound(tree, free', holds, L, table', content', written, whole)
  <2>1. table'[r] = c
    BY DEF c
  <2>2. PICK g, b, d : g = free' /\ b = table' /\ d = content'
    OBVIOUS
  <2>3. \A y \in Blocks : d[y] = IF y = x THEN <<r>> ELSE content[y]
    BY <2>2, <1>10
  <2>4. /\ ToSet(g) \subseteq ToSet(free) /\ ToSet(free) \subseteq ToSet(g) \cup {x}
        /\ c = table[r] \/ (x \in ToSet(free) /\ x \notin ToSet(g))
    BY <2>2, <1>9
  <2>5. DOMAIN b = DOMAIN table /\ b[r] = c /\ \A q \in DOMAIN table : q # r => b[q] = table[q]
    BY <2>1, <2>2, <1>7
  <2>6. Appends(free, g, table, b, content, d, r, c, x)
    BY <2>3, <2>4, <2>5, <1>7, <1>8 DEF Appends
  <2>7. Sound(tree, g, holds, L, b, d, written, whole)
    BY <2>6, <1>2, <1>4, SoundAppended
  <2> QED BY <2>2, <2>7
<1>12. \E M \in SUBSET DOMAIN tree' :
         Sound(tree', free', holds', M, table', content', written', whole')
  BY <1>1, <1>11
<1>13. Tables(table', context')
  <2>1. context'[r] = k + 1 /\ table'[r] = c /\ DOMAIN context' = DOMAIN table
        /\ \A q \in DOMAIN table : q # r => context'[q] = context[q]
    BY <1>1, <1>4, <1>15 DEF c, k
  <2> QED BY <2>1, <1>3, <1>5, <1>7 DEF Tables
<1>14. Counts'
  <2>1. DOMAIN content' = Blocks
    BY <1>1, <1>4
  <2> QED BY <2>1, <1>1, <1>3, <1>7, <1>9 DEF Counts
<1> QED BY <1>12, <1>13, <1>14, Assembled

\* A release gives back exactly the blocks that nothing else owns.
LEMMA FreeRequestKeeps ==
  ASSUME CacheInv, NEW r \in Requests, FreeRequest(r)
  PROVE  CacheInv'
<1> DEFINE K == Kept(r)
           u == Relock(tree, Held(r), -1)
<1>1. /\ r \in DOMAIN table /\ holds' = Drop(holds, r) /\ tree' = Collected(u, holds')
      /\ free' = Freed(free, table[r], K)
      /\ table' = Drop(table, r) /\ context' = Drop(context, r)
      /\ slotted' = slotted \ {r} /\ written' = written \ {r}
      /\ UNCHANGED <<cached, content, up, whole>>
  BY DEF FreeRequest
<1>2. PICK L \in SUBSET DOMAIN tree :
        Sound(tree, free, holds, L, table, content, written, whole)
  BY DEF CacheInv
<1>3. Counts /\ Tables(table, context)
  BY DEF CacheInv
<1>4. /\ free \in Seq(Blocks) /\ IsInjective(free) /\ table[r] \in Seq(Blocks)
      /\ whole \in BOOLEAN /\ Tree(tree)
  BY <1>1, <1>2, <1>3 DEF Counts, Tables, Sound
<1>5. K = {tree[n].block : n \in ToSet(Path(holds, r))}
  BY DEF Kept, Held, Path
<1> HIDE DEF K
<1>6. /\ free' \in Seq(Blocks) /\ IsInjective(free')
      /\ ToSet(free') = ToSet(free) \cup (ToSet(table[r]) \ K)
  BY <1>1, <1>4, FreedBlocks
<1>7. Sound(tree, free', holds', L, table', content, written', whole)
  BY <1>1, <1>2, <1>5, <1>6, SoundReleased
<1>8. Tree(u) /\ Within(u, tree) /\ DOMAIN u = DOMAIN tree
  BY <1>4, Relocked
<1> HIDE DEF u
<1>9. Sound(u, free', holds', L, table', content, written', whole)
  BY <1>4, <1>7, <1>8, SoundSame
<1>10. \E M \in SUBSET DOMAIN tree' :
         Sound(tree', free', holds', M, table', content', written', whole')
  <2>1. \E M \in SUBSET DOMAIN Collected(u, holds') :
          Sound(Collected(u, holds'), free', holds', M, table', content, written', whole)
    BY <1>4, <1>9, CollectedSound
  <2> QED BY <2>1, <1>1
<1>11. Tables(table', context')
  BY <1>1, <1>3 DEF Tables, Drop
<1>12. Counts'
  <2>1. slotted' \subseteq Requests /\ IsFiniteSet(slotted') /\ Cardinality(slotted') <= NumSlots
    <3>1. slotted \subseteq Requests /\ IsFiniteSet(slotted) /\ Cardinality(slotted) <= NumSlots
          /\ NumSlots \in Nat
      BY <1>3, BCAssumption DEF Counts
    <3>2. IsFiniteSet(slotted \ {r}) /\ Cardinality(slotted \ {r}) <= Cardinality(slotted)
          /\ Cardinality(slotted) \in Nat /\ Cardinality(slotted \ {r}) \in Nat
      BY <3>1, FS_Subset, FS_CardinalityType
    <3> QED BY <3>1, <3>2, <1>1
  <2>2. holds' = [x \in DOMAIN holds' |-> holds'[x]]
    BY <1>1, <1>3, HoldIsFunction DEF Counts
  <2>3. /\ DOMAIN table' = DOMAIN table \ {r} /\ DOMAIN holds' = DOMAIN holds \ {r}
        /\ written' = written \ {r}
    BY <1>1 DEF Drop
  <2> QED BY <2>1, <2>2, <2>3, <1>1, <1>3, <1>6 DEF Counts
<1> QED BY <1>10, <1>11, <1>12, Assembled

\* A position behind the path of a request is its own.
LEMMA OwnBehind ==
  ASSUME NEW t, NEW f, NEW h, NEW L, NEW tb, NEW ct, NEW w, NEW wh,
         Sound(t, f, h, L, tb, ct, w, wh), NEW q \in DOMAIN tb, NEW i \in DOMAIN tb[q],
         Len(Path(h, q)) < i
  PROVE  i \in Own(t, h, tb, q) /\ tb[q][i] \in Blocks
<1>1. Paths(t, h, L, ct) /\ Owned(t, f, h, L, tb, ct, w)
  BY DEF Sound
<1>2. i \in Nat /\ Len(Path(h, q)) \in Nat /\ tb[q] \in Seq(Blocks)
  BY <1>1, PathsInTable
<1>3. ~(i <= Len(Path(h, q)))
  BY <1>2
<1> QED BY <1>2, <1>3 DEF Own

\* What a batch writes is written where the requests of the batch read it.
LEMMA BatchWrites ==
  ASSUME NEW L, Sound(tree, free, holds, L, table, content, written, whole), NEW batch,
         ToSet(batch) \subseteq DOMAIN table \ written, NEW d,
         d = [b \in Blocks |-> IF Writes(b, batch) = {} THEN content[b]
                               ELSE CHOOSE v \in Writes(b, batch) : TRUE]
  PROVE  Sound(tree, free, holds, L, table, d, written \cup ToSet(batch), whole)
<1> DEFINE S == ToSet(batch)
<1>0. \A q : Held(q) = Path(holds, q)
  BY DEF Held, Path
<1>1. \A b, v : v \in Writes(b, batch) <=>
        \E q \in S : \E i \in DOMAIN table[q] :
          Len(Path(holds, q)) < i /\ table[q][i] = b /\ v = KV(q, i)
  BY <1>0 DEF Writes
<1> HIDE DEF S
<1>2. S \in SUBSET (DOMAIN table \ written)
  BY DEF S
<1>3. ASSUME NEW q \in S, NEW i \in DOMAIN table[q], Len(Path(holds, q)) < i
      PROVE  d[table[q][i]] = KV(q, i)
  <2> DEFINE b == table[q][i]
  <2>1. q \in DOMAIN table /\ i \in Own(tree, holds, table, q) /\ b \in Blocks
    BY <1>2, <1>3, OwnBehind
  <2>2. KV(q, i) \in Writes(b, batch)
    BY <1>1, <1>3
  <2>3. ASSUME NEW v \in Writes(b, batch) PROVE v = KV(q, i)
    <3>1. PICK x \in S : \E j \in DOMAIN table[x] :
                           Len(Path(holds, x)) < j /\ table[x][j] = b /\ v = KV(x, j)
      BY <1>1
    <3>2. PICK j \in DOMAIN table[x] :
                 Len(Path(holds, x)) < j /\ table[x][j] = b /\ v = KV(x, j)
      BY <3>1
    <3>3. x \in DOMAIN table /\ j \in Own(tree, holds, table, x)
      BY <1>2, <3>2, OwnBehind
    <3>4. x = q /\ j = i
      BY <2>1, <3>2, <3>3 DEF Sound, Owned
    <3> QED BY <3>2, <3>4
  <2>4. (CHOOSE v \in Writes(b, batch) : TRUE) = KV(q, i)
    <3>1. (CHOOSE v \in Writes(b, batch) : TRUE) \in Writes(b, batch)
      BY <2>2
    <3> QED BY <2>3, <3>1
  <2>5. Writes(b, batch) # {}
    BY <2>2
  <2> HIDE DEF b
  <2>6. d[b] = KV(q, i)
    BY <2>1, <2>4, <2>5
  <2> QED BY <2>6 DEF b
<1>4. ASSUME NEW b \in Blocks,
             \A q \in S : \A i \in DOMAIN table[q] : Len(Path(holds, q)) < i => table[q][i] # b
      PROVE  d[b] = content[b]
  <2>1. Writes(b, batch) = {}
    BY <1>1, <1>4
  <2> QED BY <2>1
<1>5. Sound(tree, free, holds, L, table, d, written \cup S, whole)
  BY <1>2, <1>3, <1>4, SoundWritten
<1> QED BY <1>5 DEF S

\* A prefill writes, then inserts.
LEMMA PrefillKeeps ==
  ASSUME CacheInv, NEW batch, NEW n \in Nat, n = Len(batch), DOMAIN batch = 1 .. n, Prefill(batch)
  PROVE  CacheInv'
<1> DEFINE s == [tree |-> tree, cached |-> cached, free |-> free, holds |-> holds, whole |-> whole,
                 path |-> <<>>]
           e == Inserted(batch)
           w == written \cup ToSet(batch)
<1>1. /\ up /\ ToSet(batch) \subseteq DOMAIN table \ written /\ written' = w
      /\ content' = [b \in Blocks |-> IF Writes(b, batch) = {} THEN content[b]
                                      ELSE CHOOSE v \in Writes(b, batch) : TRUE]
      /\ free' = e.free /\ cached' = e.cached /\ holds' = e.holds /\ whole' = e.whole
      /\ tree' = Collected(e.tree, e.holds)
      /\ UNCHANGED <<table, context, slotted, up>>
  BY DEF Prefill
<1>2. PICK L \in SUBSET DOMAIN tree :
        Sound(tree, free, holds, L, table, content, written, whole)
  BY DEF CacheInv
<1>3. Counts /\ Tables(table, context)
  BY DEF CacheInv
<1> DEFINE d == content'
<1>4. Sound(tree, free, holds, L, table, d, w, whole)
  <2>1. PICK x : x = content'
    OBVIOUS
  <2>2. Sound(tree, free, holds, L, table, x, w, whole)
    BY <2>1, <1>1, <1>2, BatchWrites
  <2> QED BY <2>1, <2>2
<1>5. \A i \in 1 .. n : batch[i] \in DOMAIN table /\ batch[i] \in w
  BY <1>1 DEF ToSet
<1> HIDE DEF e, w
<1>6. s \in State
  <2>1. holds \in [DOMAIN holds -> Seq(Nat)] /\ DOMAIN holds \in SUBSET Requests
    <3>1. /\ DOMAIN holds \subseteq Requests /\ DOMAIN tree \subseteq Nat
          /\ \A r \in DOMAIN holds : holds[r] \in Seq(DOMAIN tree)
      BY <1>2 DEF Sound, Paths, Spells, Tree
    <3>2. \A r \in DOMAIN holds : holds[r] \in Seq(Nat)
      BY <3>1, SeqMonotonic
    <3>3. holds = [r \in DOMAIN holds |-> holds[r]]
      BY <1>3 DEF Counts
    <3> QED BY <3>1, <3>2, <3>3
  <2>2. tree \in Trees
    BY <1>2, TreesTyped DEF Sound
  <2> QED BY <2>1, <2>2, <1>3 DEF State, Counts
<1>7. Good(s, s.holds, table, d, w)
  <2>1. /\ s.tree = tree /\ s.free = free /\ s.holds = holds /\ s.whole = whole
    OBVIOUS
  <2> HIDE DEF s, d
  <2> QED BY <2>1, <1>3, <1>4 DEF Good, Counts
<1>8. DOMAIN s.holds \subseteq DOMAIN table
  BY <1>1, <1>3 DEF Counts
<1>9. s = [tree |-> tree, cached |-> cached, free |-> free, holds |-> holds, whole |-> whole,
           path |-> <<>>]
  OBVIOUS
<1> HIDE DEF s, d
<1>10. e \in State /\ Good(e, e.holds, table, d, w) /\ DOMAIN e.holds \subseteq DOMAIN table
  <2>1. LET o == Inserted(batch) IN
        /\ o \in State /\ Good(o, o.holds, table, d, w) /\ DOMAIN o.holds \subseteq DOMAIN table
    BY <1>5, <1>6, <1>7, <1>8, <1>9, InsertedBatch
  <2> QED BY <2>1 DEF e
<1>11. /\ e.whole \in BOOLEAN /\ e.free \in Seq(Blocks) /\ e.cached \in Nat /\ IsInjective(e.free)
       /\ e.holds = [r \in DOMAIN e.holds |-> e.holds[r]]
  <2>1. e.holds \in UNION {[D -> Seq(Nat)] : D \in SUBSET Requests}
    BY <1>10 DEF State
  <2> QED BY <2>1, <1>10 DEF State, Good
<1>12. PICK M \in SUBSET DOMAIN e.tree : Sound(e.tree, e.free, e.holds, M, table, d, w, e.whole)
  BY <1>10 DEF Good
<1>13. \E N \in SUBSET DOMAIN tree' :
         Sound(tree', free', holds', N, table', content', written', whole')
  <2>1. \E N \in SUBSET DOMAIN Collected(e.tree, e.holds) :
          Sound(Collected(e.tree, e.holds), e.free, e.holds, N, table, d, w, e.whole)
    BY <1>11, <1>12, CollectedSound
  <2> QED BY <2>1, <1>1 DEF d
<1>14. Tables(table', context')
  BY <1>1, <1>3
<1>15. Counts'
  <2>1. DOMAIN content' = Blocks
    BY <1>1
  <2>2. written' \subseteq DOMAIN table' /\ DOMAIN holds' \subseteq DOMAIN table'
    BY <1>1, <1>3, <1>10 DEF Counts, w
  <2> QED BY <2>1, <2>2, <1>1, <1>3, <1>11 DEF Counts
<1> QED BY <1>13, <1>14, <1>15, Assembled

\* At first every block is free.
LEMMA Initially ==
  ASSUME BCInit
  PROVE  CacheInv
<1>1. /\ free = [b \in Blocks |-> b] /\ table = <<>> /\ context = <<>> /\ holds = <<>>
      /\ slotted = {} /\ written = {} /\ tree = <<>> /\ cached = 0
      /\ content = [b \in Blocks |-> <<>>] /\ up = TRUE /\ whole = TRUE
  BY DEF BCInit
<1>2. /\ DOMAIN table = {} /\ DOMAIN context = {} /\ DOMAIN holds = {} /\ DOMAIN tree = {}
      /\ holds = [r \in DOMAIN holds |-> holds[r]]
  BY <1>1
<1>3. NumBlocks \in Nat /\ NumSlots \in Nat
  BY BCAssumption
<1>4. /\ free \in Seq(Blocks) /\ IsInjective(free) /\ ToSet(free) = Blocks
  BY <1>1, <1>3 DEF Blocks, IsInjective, ToSet
<1>5. Counts
  <2>1. IsFiniteSet(slotted) /\ Cardinality(slotted) <= NumSlots
    BY <1>1, <1>3, FS_EmptySet
  <2> QED BY <2>1, <1>1, <1>2, <1>4 DEF Counts
<1>6. Tables(table, context)
  BY <1>2 DEF Tables
<1>7. Tree(tree)
  <2>1. tree \in [DOMAIN tree -> Node] /\ IsFiniteSet(DOMAIN tree)
    BY <1>1, <1>2, FS_EmptySet
  <2> QED BY <2>1, <1>2 DEF Tree
<1>8. Sound(tree, free, holds, {}, table, content, written, whole)
  <2>1. Live(tree, free, {}, content) /\ Paths(tree, holds, {}, content)
    BY <1>2 DEF Live, Paths
  <2>2. Owned(tree, free, holds, {}, table, content, written)
    BY <1>2 DEF Owned
  <2>3. Intact(tree, free, {}, table)
    BY <1>2, <1>4 DEF Intact
  <2> QED BY <2>1, <2>2, <2>3, <1>7 DEF Sound
<1> QED BY <1>2, <1>5, <1>6, <1>8 DEF CacheInv

----------------------------------------------------------------------------
(* What the invariant is for *)
LEMMA InvInductive == CacheInv /\ [BCNext]_bcvars => CacheInv'
<1> SUFFICES ASSUME CacheInv, [BCNext]_bcvars PROVE CacheInv'
  OBVIOUS
<1>1. ASSUME NEW r \in Requests, Allocate(r) PROVE CacheInv'
  BY <1>1, AllocateKeeps
<1>2. ASSUME NEW r \in Requests, AllocateNoBlocks(r) PROVE CacheInv'
  BY <1>2, AllocateNoBlocksKeeps
<1>3. ASSUME NEW r \in Requests, AllocateNoSlot(r) PROVE CacheInv'
  BY <1>3, AllocateNoSlotKeeps
<1>4. ASSUME NEW r \in Requests, AppendSlot(r) PROVE CacheInv'
  BY <1>4, AppendSlotKeeps
<1>5. ASSUME NEW r \in Requests, FreeRequest(r) PROVE CacheInv'
  BY <1>5, FreeRequestKeeps
<1>6. ASSUME NEW batch \in BoundedSeq(Requests, MaxBatch), Prefill(batch) PROVE CacheInv'
  <2>1. PICK n \in Nat : batch \in [1 .. n -> Requests]
    <3>1. MaxBatch \in Nat
      BY BCAssumption
    <3> QED BY <3>1 DEF BoundedSeq, SeqOf
  <2>2. n = Len(batch) /\ DOMAIN batch = 1 .. n
    BY <2>1
  <2> QED BY <1>6, <2>2, PrefillKeeps
<1>7. CASE UNCHANGED bcvars
  <2>1. /\ free' = free /\ table' = table /\ context' = context /\ slotted' = slotted
        /\ tree' = tree /\ cached' = cached /\ holds' = holds /\ written' = written
        /\ content' = content /\ up' = up /\ whole' = whole
    BY <1>7 DEF bcvars
  <2>2. Counts' /\ Tables(table', context')
    BY <2>1 DEF CacheInv, Counts
  <2>3. \E M \in SUBSET DOMAIN tree' :
          Sound(tree', free', holds', M, table', content', written', whole')
    BY <2>1 DEF CacheInv
  <2> QED BY <2>2, <2>3, Assembled
<1> QED BY <1>1, <1>2, <1>3, <1>4, <1>5, <1>6, <1>7 DEF BCNext

\* What the invariant says of the types.
LEMMA InvTypes == CacheInv => BCTypeOK
<1> SUFFICES ASSUME CacheInv PROVE BCTypeOK
  OBVIOUS
<1>1. PICK L \in SUBSET DOMAIN tree :
        Sound(tree, free, holds, L, table, content, written, whole)
  BY DEF CacheInv
<1>2. Counts /\ Tables(table, context)
  BY DEF CacheInv
<1>3. \A n \in DOMAIN tree : tree[n].lock \in Nat /\ tree[n].block \in Blocks
  BY <1>1 DEF Sound, Tree, Node
<1>4. \A m, n \in DOMAIN tree : tree[m].age = tree[n].age => m = n
  BY <1>1 DEF Sound, Tree
<1>5. ASSUME NEW r \in DOMAIN holds PROVE ToSet(holds[r]) \subseteq DOMAIN tree
  <2>1. holds[r] \in Seq(DOMAIN tree)
    BY <1>1 DEF Sound, Paths, Spells
  <2> QED BY <2>1 DEF ToSet
<1>6. DOMAIN table = DOMAIN context /\ \A r \in DOMAIN table : table[r] \in Seq(Blocks)
  BY <1>2 DEF Tables
<1> QED BY <1>2, <1>3, <1>4, <1>5, <1>6 DEF BCTypeOK, Counts

\* What a match finds is live, and live blocks hold what their path spells.
LEMMA InvHits == CacheInv => HitsAreOwnPrefix
<1> SUFFICES ASSUME CacheInv, NEW r \in Requests, NEW i \in DOMAIN MatchPrefix(r)
             PROVE  content[tree[MatchPrefix(r)[i]].block] = KV(r, i)
  BY DEF HitsAreOwnPrefix
<1>1. PICK L \in SUBSET DOMAIN tree :
        Sound(tree, free, holds, L, table, content, written, whole)
  BY DEF CacheInv
<1>2. Tree(tree) /\ Live(tree, free, L, content)
  BY <1>1 DEF Sound
<1>3. Spells(tree, MatchPrefix(r), r, L, content) /\ ToSet(MatchPrefix(r)) \subseteq L
  BY <1>2, Matching
<1>4. MatchPrefix(r)[i] \in L
  BY <1>3 DEF ToSet
<1> QED BY <1>3, <1>4 DEF Spells

\* A block is r's own, or that of a node of its path.
LEMMA InvReads == CacheInv => ReadsOwnKV
<1> SUFFICES ASSUME CacheInv, whole, NEW r \in written, NEW i \in DOMAIN table[r]
             PROVE  content[table[r][i]] = KV(r, i)
  BY DEF ReadsOwnKV
<1>1. PICK L \in SUBSET DOMAIN tree :
        Sound(tree, free, holds, L, table, content, written, whole)
  BY DEF CacheInv
<1>2. /\ Paths(tree, holds, L, content) /\ L = DOMAIN tree /\ r \in DOMAIN table
      /\ Owned(tree, free, holds, L, table, content, written)
  BY <1>1 DEF Sound, Intact, CacheInv, Counts
<1>3. CASE i \in Own(tree, holds, table, r)
  BY <1>2, <1>3 DEF Owned
<1>4. CASE i \notin Own(tree, holds, table, r)
  <2> DEFINE p == Path(holds, r)
  <2>1. i <= Len(p) /\ table[r][i] = tree[p[i]].block
    BY <1>4 DEF Own
  <2>2. /\ p \in Seq(DOMAIN tree) /\ Spells(tree, p, r, L, content) /\ DOMAIN p = 1 .. Len(p)
        /\ DOMAIN table[r] = 1 .. Len(table[r]) /\ Len(table[r]) \in Nat /\ Len(p) \in Nat
    BY <1>2, PathsInTable
  <2> HIDE DEF p
  <2>3. i \in DOMAIN p
    BY <2>1, <2>2
  <2>4. p[i] \in L
    BY <2>2, <2>3, <1>2
  <2> QED BY <2>1, <2>2, <2>3, <2>4 DEF Spells
<1> QED BY <1>3, <1>4

\* While nothing was lost the tree is reached as a whole.
LEMMA InvLeaks == CacheInv => NothingLeaks
<1> SUFFICES ASSUME CacheInv, whole, NEW b \in Blocks
             PROVE  b \in ToSet(free) \cup InUse \cup {tree[n].block : n \in InTree(tree)}
  BY DEF NothingLeaks
<1>1. PICK L \in SUBSET DOMAIN tree :
        Sound(tree, free, holds, L, table, content, written, whole)
  BY DEF CacheInv
<1>2. /\ Tree(tree) /\ Live(tree, free, DOMAIN tree, content) /\ L = DOMAIN tree
      /\ Intact(tree, free, L, table)
  BY <1>1 DEF Sound, Intact
<1>3. DOMAIN tree \subseteq InTree(tree)
  <2>1. \A n \in DOMAIN tree : tree[n].linked
    BY <1>2 DEF Intact
  <2>2. DOMAIN tree \subseteq Reach(tree, {Root})
    BY <2>1, <1>2, AllReached
  <2>3. Root \notin DOMAIN tree
    BY <1>2 DEF Tree
  <2> QED BY <2>2, <2>3 DEF InTree
<1>4. \/ b \in ToSet(free) \/ \E n \in L : tree[n].block = b
      \/ \E r \in DOMAIN table : b \in ToSet(table[r])
  BY <1>2 DEF Intact
<1> QED BY <1>2, <1>3, <1>4 DEF InUse

\* The invariant holds of every behaviour of the cache.
THEOREM CacheSound == BCSpec => []CacheInv
<1>1. BCInit => CacheInv
  BY Initially
<1> QED BY <1>1, InvInductive, PTL DEF BCSpec

\* No block is twice in the free stack, locks and counts do not fall below zero, slots are
\* not handed out beyond their number: for every pool, prompt and order of calls.
THEOREM CacheTypes == BCSpec => []BCTypeOK
BY CacheSound, InvTypes, PTL

\* A prefix hit is a hit: the blocks match_prefix returns hold the keys and values of the
\* request's own prefix, whatever was evicted, displaced or reused before.
THEOREM CacheHits == BCSpec => []HitsAreOwnPrefix
BY CacheSound, InvHits, PTL

\* A prefilled request reads its own keys and values from every block of its table, as long
\* as the tree has lost nothing.
THEOREM CacheReads == BCSpec => []ReadsOwnKV
BY CacheSound, InvReads, PTL

\* No block is lost by admissions, failures and releases, as long as the tree has lost
\* nothing.
THEOREM CacheKeepsBlocks == BCSpec => []NothingLeaks
BY CacheSound, InvLeaks, PTL
=============================================================================
