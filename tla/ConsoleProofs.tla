--------------------------- MODULE ConsoleProofs ---------------------------
(***************************************************************************)
(* Theorems about the console (Console, ClusterView), for any list of      *)
(* models, any nodes, any reports and any number of clicks, changes and    *)
(* errors.  Every step is a commit, which renders states and runs the      *)
(* effects, or a quiet one, which shows nothing new (CommitOrQuiet); the   *)
(* invariants are proved for the two kinds rather than for each handler:   *)
(* the types, the click that each init spends (Spendable), the timers      *)
(* (TimersInv), and what the view keeps of the last report (NodesInv).     *)
(***************************************************************************)
EXTENDS Console, FiniteSetTheorems, SequenceTheorems, WellFoundedInduction, TLAPS

\* The names a model select can show.
LEMMA NamesOfModels ==
  /\ NoModel \in ModelNames /\ ToSet(Models) \subseteq ModelNames
  /\ Models # <<>> => Models[1] \in ToSet(Models)
<1>0. Models \in Seq(STRING)
  BY ViewAssumption
<1>1. Models # <<>> => 1 \in DOMAIN Models
  BY <1>0, EmptySeq
<1> QED BY <1>1 DEF ModelNames, ToSet

\* The first name of three is one of them, or none.
LEMMA FirstOfNames ==
  ASSUME NEW a \in ModelNames, NEW b \in ModelNames, NEW c \in ModelNames
  PROVE  FirstOf(<<a, b, c>>) \in ModelNames
<1> DEFINE names == <<a, b, c>>
           I     == {i \in 1 .. Len(names) : names[i] # NoModel}
           i     == IF I # {} THEN Min(I) ELSE 0
<1>1. ASSUME I # {} PROVE Min(I) \in I
  <2>1. \E x \in I : \A y \in I : x =< y
    BY <1>1
  <2> QED BY <2>1 DEF Min
<1>2. i = 0 \/ names[i] \in ModelNames
  BY <1>1
<1>3. FirstOf(names) = IF i = 0 THEN NoModel ELSE names[i]
  BY DEF FirstOf, SelectInSeq
<1> QED BY <1>2, <1>3, NamesOfModels

\* The effect on the list and the info sets a name of a model, or none.
LEMMA SelectedNames == ASSUME NEW u \in States PROVE SelectedModel(u) \in ModelNames
<1>1. u.info.model \in ModelNames /\ u.model \in ModelNames
  BY DEF States, Info
<1>2. (IF u.listed /\ Models # <<>> THEN Models[1] ELSE NoModel) \in ModelNames
  BY NamesOfModels
<1> QED BY <1>1, <1>2, FirstOfNames DEF SelectedModel

----------------------------------------------------------------------------
\* An enumeration of positions in order.
Ordered(I, f) == /\ f \in [1 .. Cardinality(I) -> I]
                 /\ \A i, j \in 1 .. Cardinality(I) : i < j => f[i] < f[j]

\* Every set of positions has one: else there is a least length that lacks one, which
\* cannot be, with or without its last position.
LEMMA PositionsHaveAnOrder ==
  ASSUME NEW n \in Nat, NEW I \in SUBSET (1 .. n)
  PROVE  \E f : Ordered(I, f)
<1> DEFINE R    == {p \in Nat \X Nat : p[1] < p[2]}
           Lacks(k) == \E J \in SUBSET (1 .. k) : \A f : ~Ordered(J, f)
           T    == {k \in Nat : Lacks(k)}
<1>1. SUFFICES T = {}
  BY <1>1
<1>2. ASSUME T # {} PROVE FALSE
  <2>1. IsWellFoundedOn(R, Nat)
    BY NatLessThanWellFounded DEF OpToRel
  <2>2. PICK k \in T : \A l \in T : ~(<<l, k>> \in R)
    <3> HIDE DEF R, Lacks
    <3> QED BY <1>2, <2>1, WFMin
  <2>3. PICK J \in SUBSET (1 .. k) : \A f : ~Ordered(J, f)
    BY <2>2
  <2>4. ASSUME NEW l \in Nat, l < k, NEW K \in SUBSET (1 .. l) PROVE \E f : Ordered(K, f)
    BY <2>2, <2>4
  <2>5. IsFiniteSet(J) /\ Cardinality(J) \in Nat
    <3>1. k \in Nat
      BY <2>2
    <3>2. IsFiniteSet(1 .. k)
      BY <3>1, FS_Interval
    <3> QED BY <3>2, FS_Subset, FS_CardinalityType
  <2>6. k # 0
    <3>1. ASSUME k = 0 PROVE FALSE
      <4>0. J = {}
        BY <3>1
      <4>1. J = {} /\ Cardinality(J) = 0
        BY <4>0, FS_EmptySet, Zenon
      <4>2. Ordered(J, [i \in 1 .. 0 |-> 0])
        BY <4>1 DEF Ordered
      <4> QED BY <4>2, <2>3
    <3> QED BY <3>1
  <2>7. CASE k \notin J
    <3>1. J \in SUBSET (1 .. (k - 1)) /\ k - 1 \in Nat /\ k - 1 < k
      BY <2>6, <2>7, <2>2
    <3> QED BY <3>1, <2>3, <2>4
  <2>8. CASE k \in J
    <3> DEFINE K == J \ {k}
               c == Cardinality(K)
    <3>1. K \in SUBSET (1 .. (k - 1)) /\ k - 1 \in Nat /\ k - 1 < k
      BY <2>6, <2>2
    <3>2. PICK g : Ordered(K, g)
      BY <3>1, <2>4
    <3>3. c \in Nat /\ Cardinality(J) = c + 1
      BY <2>5, <2>8, FS_RemoveElement, FS_Subset, FS_CardinalityType
    <3> DEFINE f == [i \in 1 .. (c + 1) |-> IF i = c + 1 THEN k ELSE g[i]]
    <3>4. ASSUME NEW i \in 1 .. c PROVE g[i] \in K
      BY <3>2 DEF Ordered
    <3>5. f \in [1 .. (c + 1) -> J]
      <4> HIDE DEF c
      <4> QED BY <3>3, <3>4, <2>8
    <3>6. ASSUME NEW i \in 1 .. (c + 1), NEW j \in 1 .. (c + 1), i < j PROVE f[i] < f[j]
      <4>1. i \in 1 .. c /\ f[i] = g[i] /\ g[i] \in K
        <5> HIDE DEF c, K
        <5> QED BY <3>3, <3>4, <3>6
      <4>2. CASE j = c + 1
        <5>0. g[i] \in 1 .. (k - 1) /\ k \in Nat
          <6> HIDE DEF K
          <6> QED BY <4>1, <3>1, <2>2
        <5>1. g[i] < k
          BY <5>0
        <5> QED BY <5>1, <4>1, <4>2
      <4>3. CASE j # c + 1
        <5>1. j \in 1 .. c /\ f[j] = g[j]
          <6> HIDE DEF c, K
          <6> QED BY <4>3, <3>3
        <5>2. g[i] < g[j]
          BY <5>1, <4>1, <3>2, <3>6 DEF Ordered
        <5> QED BY <5>1, <5>2, <4>1
      <4> QED BY <4>2, <4>3
    <3>7. Ordered(J, f)
      <4> HIDE DEF f, c
      <4> QED BY <3>3, <3>5, <3>6 DEF Ordered
    <3> QED BY <3>7, <2>3
  <2> QED BY <2>7, <2>8
<1> QED BY <1>2

\* Array.filter takes each position once, and nothing else.
LEMMA AtPositions ==
  ASSUME NEW S, NEW s \in Seq(S), NEW I \in SUBSET DOMAIN s
  PROVE  /\ Cardinality(I) \in Nat
         /\ \E f : Ordered(I, f) /\ At(s, I) = [k \in 1 .. Cardinality(I) |-> s[f[k]]]
<1>1. IsFiniteSet(I) /\ Cardinality(I) \in Nat
  <2>1. Len(s) \in Nat /\ I \subseteq 1 .. Len(s)
    OBVIOUS
  <2>2. IsFiniteSet(1 .. Len(s))
    BY <2>1, FS_Interval
  <2> QED BY <2>1, <2>2, FS_Subset, FS_CardinalityType
<1>2. \E f : Ordered(I, f)
  <2>1. Len(s) \in Nat /\ I \in SUBSET (1 .. Len(s))
    OBVIOUS
  <2> QED BY <2>1, PositionsHaveAnOrder
<1> DEFINE order == CHOOSE f \in [1 .. Cardinality(I) -> I] :
                      \A i, j \in 1 .. Cardinality(I) : i < j => f[i] < f[j]
<1>3. Ordered(I, order)
  BY <1>2 DEF Ordered
<1>4. At(s, I) = [k \in 1 .. Cardinality(I) |-> s[order[k]]]
  BY DEF At
<1> HIDE DEF order
<1> QED BY <1>1, <1>3, <1>4

\* A list that repeats no node.
Distinct(ns) == \A i, j \in DOMAIN ns : ns[i].id = ns[j].id => i = j

\* What is kept of the earlier nodes: failed ones that the new list does not name.
Offline(prev, next) == At(prev, DOMAIN prev \ {i \in DOMAIN prev : Has(next, prev[i].id)})
Failed(off) == [i \in DOMAIN off |-> [off[i] EXCEPT !.status = "failed"]]

\* The nodes kept of the earlier list are failed, are not named by the new one, and are as
\* distinct as they were.
LEMMA FailedNodes ==
  ASSUME NEW prev \in Seq(NodeInfo), NEW next \in Seq(NodeInfo),
         NEW failed, failed = Failed(Offline(prev, next))
  PROVE  /\ failed \in Seq(NodeInfo)
         /\ \A i \in DOMAIN failed : failed[i].status = "failed" /\ ~Has(next, failed[i].id)
         /\ Distinct(prev) => Distinct(failed)
<1> DEFINE I == DOMAIN prev \ {i \in DOMAIN prev : Has(next, prev[i].id)}
           c == Cardinality(I)
           off == Offline(prev, next)
<1>0. I \in SUBSET DOMAIN prev /\ off = At(prev, I)
  BY DEF Offline
<1>1. PICK f : Ordered(I, f) /\ off = [k \in 1 .. c |-> prev[f[k]]]
  <2> HIDE DEF I
  <2>1. \E f : Ordered(I, f) /\ At(prev, I) = [k \in 1 .. Cardinality(I) |-> prev[f[k]]]
    BY <1>0, AtPositions, Zenon
  <2> QED BY <1>0, <2>1, Zenon
<1>2. c \in Nat
  <2> HIDE DEF I
  <2> QED BY <1>0, AtPositions
<1>3. ASSUME NEW k \in 1 .. c PROVE /\ f[k] \in DOMAIN prev /\ ~Has(next, prev[f[k]].id)
                                    /\ off[k] = prev[f[k]]
  BY <1>1 DEF Ordered
<1>4. \A n \in NodeInfo : /\ [n EXCEPT !.status = "failed"] \in NodeInfo
                          /\ [n EXCEPT !.status = "failed"].id = n.id
                          /\ [n EXCEPT !.status = "failed"].status = "failed"
  BY DEF NodeInfo
<1> HIDE DEF off
<1>5. /\ DOMAIN off = 1 .. c /\ DOMAIN failed = 1 .. c
      /\ \A k \in 1 .. c : failed[k] = [off[k] EXCEPT !.status = "failed"]
  BY <1>1 DEF Failed, off
<1>6. ASSUME NEW k \in 1 .. c
      PROVE  /\ failed[k] \in NodeInfo /\ failed[k].id = prev[f[k]].id
             /\ failed[k].status = "failed"
  <2>1. prev[f[k]] \in NodeInfo
    BY <1>3
  <2>2. failed[k] = [prev[f[k]] EXCEPT !.status = "failed"]
    BY <1>3, <1>5
  <2> QED BY <2>1, <2>2, <1>4
<1>7. failed \in Seq(NodeInfo)
  <2> HIDE DEF c
  <2>0. failed = [k \in 1 .. c |-> failed[k]]
    BY <1>1 DEF Failed, off
  <2>1. failed \in [1 .. c -> NodeInfo]
    BY <2>0, <1>6, Zenon
  <2> QED BY <2>1, <1>2, SeqDef, Zenon
<1>8. ASSUME Distinct(prev), NEW i \in 1 .. c, NEW j \in 1 .. c, failed[i].id = failed[j].id
      PROVE  i = j
  <2>0. /\ f[i] \in DOMAIN prev /\ f[j] \in DOMAIN prev
        /\ prev[f[i]].id = prev[f[j]].id
    BY <1>3, <1>6, <1>8
  <2>1. f[i] = f[j]
    BY <2>0, <1>8 DEF Distinct
  <2>2. f[i] \in Nat /\ f[j] \in Nat /\ i \in Nat /\ j \in Nat
    <3>1. DOMAIN prev \subseteq Nat
      OBVIOUS
    <3> HIDE DEF c
    <3> QED BY <3>1, <2>0, <1>2
  <2>3. ~(i < j) /\ ~(j < i)
    BY <2>1, <2>2, <1>1 DEF Ordered
  <2> QED BY <2>2, <2>3
<1>9. \A i \in 1 .. c : failed[i].status = "failed" /\ ~Has(next, failed[i].id)
  BY <1>3, <1>6
<1> QED
  <2> HIDE DEF c
  <2> QED BY <1>5, <1>7, <1>8, <1>9 DEF Distinct

\* The merged list: the new one, and after it nodes that have vanished.
Extends(m, next) ==
  /\ m \in Seq(NodeInfo) /\ Len(next) =< Len(m)
  /\ \A i \in DOMAIN next : m[i] = next[i]
  /\ \A i \in DOMAIN m \ DOMAIN next : m[i].status = "failed" /\ ~Has(next, m[i].id)

\* setNodeInfoList: the merged list begins with the new list, goes on with vanished nodes only,
\* and repeats no node.
LEMMA MergedNodes ==
  ASSUME NEW prev \in Seq(NodeInfo), NEW next \in NodeLists
  PROVE  /\ Extends(Merge(prev, next), next)
         /\ Distinct(prev) => Distinct(Merge(prev, next))
<1>0. PICK failed : failed = Failed(Offline(prev, next))
  OBVIOUS
<1> DEFINE m == next \o failed
<1>1. next \in Seq(NodeInfo) /\ Distinct(next)
  BY DEF NodeLists, Distinct
<1>2. /\ failed \in Seq(NodeInfo)
      /\ \A i \in DOMAIN failed : failed[i].status = "failed" /\ ~Has(next, failed[i].id)
      /\ Distinct(prev) => Distinct(failed)
  BY <1>0, <1>1, FailedNodes
<1>3. Merge(prev, next) \in {next, m}
  BY <1>0 DEF Merge, Failed, Offline
<1>4. Extends(next, next)
  BY <1>1 DEF Extends
<1>5. m \in Seq(NodeInfo) /\ Len(m) = Len(next) + Len(failed)
  BY <1>1, <1>2
<1>6. ASSUME NEW i \in DOMAIN m
      PROVE  \/ i \in DOMAIN next /\ m[i] = next[i]
             \/ /\ i \notin DOMAIN next /\ i - Len(next) \in DOMAIN failed
                /\ m[i] = failed[i - Len(next)]
  BY <1>1, <1>2, <1>5
<1>7. DOMAIN next \subseteq DOMAIN m
  BY <1>1, <1>2, <1>5
<1> HIDE DEF m
<1>8. Extends(m, next)
  <2>1. Len(next) =< Len(m)
    BY <1>1, <1>2, <1>5
  <2> QED BY <2>1, <1>2, <1>5, <1>6, <1>7 DEF Extends
<1>9. ASSUME Distinct(prev), NEW i \in DOMAIN m, NEW j \in DOMAIN m, m[i].id = m[j].id
      PROVE  i = j
  <2>1. CASE i \in DOMAIN next /\ j \in DOMAIN next
    BY <2>1, <1>1, <1>6, <1>9 DEF Distinct
  <2>2. CASE i \notin DOMAIN next /\ j \notin DOMAIN next
    <3>1. i - Len(next) = j - Len(next)
      BY <2>2, <1>2, <1>6, <1>9 DEF Distinct
    <3> QED BY <3>1, <1>1, <1>5
  <2>3. ~(i \in DOMAIN next /\ j \notin DOMAIN next)
    BY <1>2, <1>6, <1>9 DEF Has
  <2>4. ~(j \in DOMAIN next /\ i \notin DOMAIN next)
    BY <1>2, <1>6, <1>9 DEF Has
  <2> QED BY <2>1, <2>2, <2>3, <2>4
<1> QED BY <1>1, <1>3, <1>4, <1>8, <1>9 DEF Distinct

----------------------------------------------------------------------------
(* What the callbacks and the clicks make of the states are states. *)
\* The setters of the service and of the pages, which change some fields each.
LEMMA FieldTypes ==
  ASSUME NEW u \in States
  PROVE  /\ \A x \in Info, b \in BOOLEAN : [u EXCEPT !.info = x, !.fresh = b] \in States
         /\ \A ns \in Seq(NodeInfo) : [u EXCEPT !.nodes = ns] \in States
         /\ \A x \in Info, ns \in Seq(NodeInfo) :
              [u EXCEPT !.info = x, !.nodes = ns, !.fresh = TRUE] \in States
         /\ \A m \in ModelNames, b \in BOOLEAN :
              /\ [u EXCEPT !.can = b, !.model = m] \in States
              /\ [u EXCEPT !.model = m, !.can = b] \in States
         /\ \A p \in Paths : [u EXCEPT !.path = p] \in States
         /\ \A n \in 1 .. MaxInit : [u EXCEPT !.init = n] \in States
         /\ \A n \in Networks : [u EXCEPT !.net = n] \in States
         /\ \A b \in BOOLEAN : [u EXCEPT !.wide = b] \in States
         /\ [u EXCEPT !.listed = TRUE, !.fresh = TRUE] \in States
         /\ \A b, c \in BOOLEAN :
              [u EXCEPT !.fresh = FALSE, !.can = b, !.wide = c] \in States
  BY DEF States

\* INITIAL_CLUSTER_INFO is information on a cluster.
LEMMA UnknownType == Unknown \in Info
  BY NamesOfModels DEF Unknown, Info

\* The states of a page that is opened.
LEMMA StartTypes == ASSUME NEW path \in Paths PROVE Start(path) \in States
<1>1. <<>> \in Seq(NodeInfo) /\ 1 \in 1 .. MaxInit
  BY ConsoleAssumption
<1>2. \A x \in Info, m \in ModelNames, ns \in Seq(NodeInfo) :
        [info |-> x, nodes |-> ns, listed |-> FALSE, model |-> m, init |-> 1,
         net |-> "local", path |-> path, can |-> FALSE, wide |-> TRUE, fresh |-> TRUE] \in States
  BY <1>1 DEF States, Networks
<1> QED BY <1>1, <1>2, UnknownType, NamesOfModels DEF Start

\* setClusterInfo.
LEMMA InfoTypes == ASSUME NEW u \in States, NEW x \in Info PROVE WithInfo(u, x) \in States
<1>1. (u.fresh \/ x # u.info) \in BOOLEAN
  OBVIOUS
<1> QED BY <1>1, FieldTypes, Zenon DEF WithInfo

\* What a report says of the cluster.
Told(s) == [status |-> IF s.model = NoModel THEN "idle" ELSE s.status, model |-> s.model,
            init |-> s.init, command |-> s.command, more |-> s.more, known |-> FALSE]

\* onMessage makes information on a cluster of every report.
LEMMA ToldType == ASSUME NEW s \in Report PROVE Told(s) \in Info
  BY DEF Told, Report, Info

\* onMessage leaves states of the service, whatever was merged before.
LEMMA StatusTypes ==
  ASSUME NEW u \in States, NEW s \in Report PROVE WithStatus(u, s) \in States
<1>1. WithInfo(u, Told(s)) \in States
  BY ToldType, InfoTypes
<1>2. Merge(u.nodes, s.nodes) \in Seq(NodeInfo)
  <2>1. u.nodes \in Seq(NodeInfo) /\ s.nodes \in NodeLists
    BY DEF States, Report
  <2> QED BY <2>1, MergedNodes DEF Extends
<1> QED BY <1>1, <1>2, FieldTypes, Zenon DEF WithStatus, Told

\* onError leaves states of the service.
LEMMA ResetTypes == ASSUME NEW u \in States PROVE Reset(u) \in States
<1>1. WithInfo(u, Unknown) \in States /\ <<>> \in Seq(NodeInfo)
  BY UnknownType, InfoTypes
<1> QED BY <1>1, FieldTypes, Zenon DEF Reset

\* So does an init that was answered.
LEMMA InitedTypes ==
  ASSUME NEW u \in States, NEW m \in ToSet(Models), NEW n \in 1 .. MaxInit
  PROVE  Inited(u, m, n) \in States
<1>1. (u.listed /\ m \in ToSet(Models)) \in BOOLEAN
  OBVIOUS
<1>2. m \in ModelNames /\ n \in Nat /\ u.info \in Info
  BY NamesOfModels, ConsoleAssumption DEF States
<1>3. \A x \in Info, k \in BOOLEAN :
        [x EXCEPT !.status = "waiting", !.model = m, !.init = n, !.more = FALSE,
                  !.known = k] \in Info
  BY <1>2 DEF Info
<1>4. [u.info EXCEPT !.status = "waiting", !.model = m, !.init = n, !.more = FALSE,
                     !.known = u.listed /\ m \in ToSet(Models)] \in Info
  BY <1>1, <1>2, <1>3, Zenon
<1>5. <<>> \in Seq(NodeInfo)
  OBVIOUS
<1> QED BY <1>4, <1>5, FieldTypes, Zenon DEF Inited

\* What a commit keeps of the chat page's own states.
LEMMA PageTypes == ASSUME NEW u \in States PROVE OfPage(u) \in States
<1>1. (u.can /\ OnChat(u)) \in BOOLEAN /\ (u.wide \/ ~OnChat(u)) \in BOOLEAN
  OBVIOUS
<1> QED BY <1>1, FieldTypes, Zenon DEF OfPage

----------------------------------------------------------------------------
(* The calls of init under way. *)
\* A call of init is made for a chosen model and at least one node.
LEMMA CallTypes ==
  ASSUME NEW ps \in Seq(Post), NEW u \in States, NEW from \in {Setup, Chat}
  PROVE  /\ Calls(ps, u, from) \in Seq(Post)
         /\ MayInit(u) => Call(u, from) \in Post /\ ~Call(u, from).done
<1>1. ASSUME MayInit(u) PROVE Call(u, from) \in Post /\ ~Call(u, from).done
  <2>1. u.model \in ToSet(Models) /\ u.init \in 1 .. MaxInit /\ u.net \in Networks
    BY <1>1 DEF MayInit, States, ModelNames
  <2> QED BY <2>1 DEF Call, Post
<1> QED BY <1>1 DEF Calls

\* A page that is left forgets its calls, the server does not.
LEMMA LeftTypes ==
  ASSUME NEW ps \in Seq(Post)
  PROVE  /\ Left(ps) \in Seq(Post) /\ DOMAIN Left(ps) = DOMAIN ps
         /\ \A i \in DOMAIN ps : Left(ps)[i].done = ps[i].done
<1>1. \A p \in Post : [p EXCEPT !.here = FALSE] \in Post /\ [p EXCEPT !.here = FALSE].done = p.done
  BY DEF Post
<1>2. \A i \in DOMAIN ps : ps[i] \in Post
  OBVIOUS
<1>3. Left(ps) \in [1 .. Len(ps) -> Post]
  BY <1>1, <1>2 DEF Left
<1>4. Left(ps) \in Seq(Post)
  <2>1. Len(ps) \in Nat
    OBVIOUS
  <2> QED BY <2>1, <1>3
<1>5. ASSUME NEW i \in DOMAIN ps PROVE Left(ps)[i].done = ps[i].done
  <2>1. Left(ps)[i] = [ps[i] EXCEPT !.here = FALSE]
    BY DEF Left
  <2> QED BY <2>1, <1>1, <1>2
<1>6. DOMAIN Left(ps) = DOMAIN ps
  BY DEF Left
<1> QED BY <1>4, <1>5, <1>6

\* A call that leaves the list: the others move up.
LEMMA RemovedCall ==
  ASSUME NEW ps \in Seq(Post), NEW i \in DOMAIN ps
  PROVE  /\ RemoveAt(ps, i) \in Seq(Post) /\ Len(RemoveAt(ps, i)) = Len(ps) - 1
         /\ \A j \in 1 .. (Len(ps) - 1) :
              RemoveAt(ps, i)[j] = ps[IF j < i THEN j ELSE j + 1]
<1>1. i \in 1 .. Len(ps) /\ Len(ps) \in Nat
  OBVIOUS
<1> DEFINE a == SubSeq(ps, 1, i - 1)
           b == SubSeq(ps, i + 1, Len(ps))
<1>2. a \in Seq(Post) /\ b \in Seq(Post)
  BY <1>1
<1>3. /\ Len(a) = i - 1 /\ Len(b) = Len(ps) - i
      /\ \A j \in 1 .. (i - 1) : a[j] = ps[j]
      /\ \A j \in 1 .. (Len(ps) - i) : b[j] = ps[i + j]
  BY <1>1
<1>4. RemoveAt(ps, i) = a \o b
  BY DEF RemoveAt
<1> HIDE DEF a, b
<1>5. /\ a \o b \in Seq(Post) /\ Len(a \o b) = Len(a) + Len(b)
      /\ \A j \in 1 .. (Len(a) + Len(b)) :
           (a \o b)[j] = IF j <= Len(a) THEN a[j] ELSE b[j - Len(a)]
  BY <1>2, ConcatProperties
<1>6. ASSUME NEW j \in 1 .. (Len(ps) - 1)
      PROVE  (a \o b)[j] = ps[IF j < i THEN j ELSE j + 1]
  <2>1. CASE j < i
    <3>1. j \in 1 .. (i - 1) /\ j \in 1 .. (Len(a) + Len(b)) /\ j <= Len(a)
      BY <1>1, <1>3, <2>1
    <3> QED BY <3>1, <2>1, <1>3, <1>5
  <2>2. CASE ~(j < i)
    <3>1. /\ j - Len(a) \in 1 .. (Len(ps) - i) /\ j \in 1 .. (Len(a) + Len(b))
          /\ ~(j <= Len(a)) /\ i + (j - Len(a)) = j + 1
      BY <1>1, <1>3, <2>2
    <3> QED BY <3>1, <2>2, <1>3, <1>5
  <2> QED BY <2>1, <2>2
<1>7. Len(a) + Len(b) = Len(ps) - 1
  BY <1>1, <1>3
<1>8. RemoveAt(ps, i) \in Seq(Post) /\ Len(RemoveAt(ps, i)) = Len(ps) - 1
  BY <1>4, <1>5, <1>7
<1> QED BY <1>4, <1>6, <1>8, Zenon

\* The positions of the calls that the server has not acted on.
Waiting(ps) == {i \in DOMAIN ps : ~ps[i].done}

\* The calls not acted on are counted by a set of positions.
LEMMA UnservedCount ==
  ASSUME NEW ps \in Seq(Post)
  PROVE  Unserved(ps) \in Nat /\ IsFiniteSet(Waiting(ps)) /\ Unserved(ps) = Cardinality(Waiting(ps))
<1>1. Len(ps) \in Nat /\ Waiting(ps) \subseteq 1 .. Len(ps)
  BY DEF Waiting
<1>2. IsFiniteSet(Waiting(ps))
  <2>1. IsFiniteSet(1 .. Len(ps))
    BY <1>1, FS_Interval
  <2> QED BY <1>1, <2>1, FS_Subset
<1> QED BY <1>2, FS_CardinalityType DEF Unserved, Waiting

\* Leaving the page changes nothing of that count.
LEMMA UnservedLeft == ASSUME NEW ps \in Seq(Post) PROVE Unserved(Left(ps)) = Unserved(ps)
<1>1. Waiting(Left(ps)) = Waiting(ps)
  BY LeftTypes DEF Waiting
<1> QED BY <1>1, LeftTypes, UnservedCount

\* A call that is made adds one, one that init refuses none.
LEMMA UnservedCalls ==
  ASSUME NEW ps \in Seq(Post), NEW u \in States, NEW from \in {Setup, Chat}
  PROVE  Unserved(Calls(ps, u, from)) = Unserved(ps) + (IF MayInit(u) THEN 1 ELSE 0)
<1>1. CASE MayInit(u)
  <2> DEFINE c == Call(u, from)
             q == Append(ps, c)
  <2>1. c \in Post /\ ~c.done
    BY <1>1, CallTypes
  <2> HIDE DEF c
  <2>2. q \in Seq(Post) /\ Len(q) = Len(ps) + 1 /\ Len(ps) + 1 \notin DOMAIN ps
    BY <2>1
  <2>3. /\ q[Len(ps) + 1] = c /\ \A j \in DOMAIN ps : q[j] = ps[j]
        /\ DOMAIN q = DOMAIN ps \cup {Len(ps) + 1}
    BY <2>1
  <2> HIDE DEF q
  <2>4. Waiting(q) = Waiting(ps) \cup {Len(ps) + 1} /\ Len(ps) + 1 \notin Waiting(ps)
    BY <2>1, <2>2, <2>3 DEF Waiting
  <2>5. Cardinality(Waiting(q)) = Cardinality(Waiting(ps)) + 1
    BY <2>4, UnservedCount, FS_AddElement
  <2>6. Calls(ps, u, from) = q
    BY <1>1 DEF Calls, q, c
  <2> QED BY <2>2, <2>5, <2>6, <1>1, UnservedCount
<1>2. CASE ~MayInit(u)
  BY <1>2, UnservedCount DEF Calls
<1> QED BY <1>1, <1>2

\* An answered call was acted on before: its end does not change the count.
LEMMA UnservedRemove ==
  ASSUME NEW ps \in Seq(Post), NEW i \in DOMAIN ps, ps[i].done
  PROVE  Unserved(RemoveAt(ps, i)) = Unserved(ps)
<1> DEFINE q == RemoveAt(ps, i)
           move == [j \in Waiting(ps) |-> IF j < i THEN j ELSE j - 1]
<1>1. q \in Seq(Post) /\ Len(q) = Len(ps) - 1 /\ Len(ps) \in Nat /\ i \in 1 .. Len(ps)
  BY RemovedCall
<1>2. \A j \in 1 .. (Len(ps) - 1) : q[j] = ps[IF j < i THEN j ELSE j + 1]
  BY RemovedCall
<1> HIDE DEF q
<1>3. ASSUME NEW j \in Waiting(ps)
      PROVE  /\ j \in 1 .. Len(ps) /\ j # i /\ move[j] \in Waiting(q)
             /\ move[j] = IF j < i THEN j ELSE j - 1
  <2>1. j \in 1 .. Len(ps) /\ j # i /\ ~ps[j].done
    BY DEF Waiting
  <2>2. move[j] = IF j < i THEN j ELSE j - 1
    OBVIOUS
  <2> HIDE DEF move
  <2>3. move[j] \in 1 .. (Len(ps) - 1) /\ (IF move[j] < i THEN move[j] ELSE move[j] + 1) = j
    BY <2>1, <2>2, <1>1
  <2>4. q[move[j]] = ps[j]
    BY <2>3, <1>2
  <2> QED BY <2>1, <2>2, <2>3, <2>4, <1>1 DEF Waiting
<1>4. move \in [Waiting(ps) -> Waiting(q)]
  BY <1>3
<1>5. ASSUME NEW j \in Waiting(ps), NEW k \in Waiting(ps), move[j] = move[k] PROVE j = k
  <2> HIDE DEF move
  <2> QED BY <1>1, <1>3, <1>5
<1>6. ASSUME NEW k \in Waiting(q) PROVE \E j \in Waiting(ps) : move[j] = k
  <2> DEFINE j == IF k < i THEN k ELSE k + 1
  <2>1. k \in 1 .. (Len(ps) - 1) /\ ~q[k].done
    BY <1>1 DEF Waiting
  <2>2. j \in 1 .. Len(ps) /\ (IF j < i THEN j ELSE j - 1) = k
    BY <2>1, <1>1
  <2>3. ps[j] = q[k]
    BY <2>1, <1>2
  <2> HIDE DEF j
  <2>4. j \in Waiting(ps)
    BY <2>1, <2>2, <2>3 DEF Waiting
  <2> QED BY <2>2, <2>4
<1> HIDE DEF move
<1>7. move \in Bijection(Waiting(ps), Waiting(q))
  BY <1>4, <1>5, <1>6 DEF Bijection, Injection, Surjection, IsInjective
<1>8. ExistsBijection(Waiting(ps), Waiting(q))
  BY <1>7 DEF ExistsBijection
<1>9. Cardinality(Waiting(q)) = Cardinality(Waiting(ps))
  BY <1>8, UnservedCount, FS_Bijection
<1> QED BY <1>1, <1>9, UnservedCount DEF q

----------------------------------------------------------------------------
(* A commit: a call of its own only if the model select still may commit. *)
\* A flag as a count, and whether a commit mounts the chat page.
Flag(b) == IF b THEN 1 ELSE 0
Mounts(u) == OnChat(u) /\ ~OnChat(shown)

\* A commit makes one call of init at most beyond those of the handler that led to it.
LEMMA CommitCalls ==
  ASSUME posts \in Seq(Post), sent \in Nat,
         NEW u \in States, NEW ps \in Seq(Post), Unserved(ps) >= Unserved(posts),
         CommitOf(u, ps)
  PROVE  /\ posts' \in Seq(Post) /\ sent' \in Nat
         /\ sent' = sent + (Unserved(ps) - Unserved(posts))
                      + Flag(AutoCommits(u, Mounts(u)) /\ MayInit(u))
<1> DEFINE auto == AutoCommits(u, Mounts(u))
           qs == IF u.path # shown.path THEN Left(ps) ELSE ps
<1>1. qs \in Seq(Post) /\ Unserved(qs) = Unserved(ps)
  BY LeftTypes, UnservedLeft
<1> HIDE DEF qs
<1>2. posts' = IF auto THEN Calls(qs, u, Chat) ELSE qs
  BY DEF CommitOf, Mounts, qs
<1>3. sent' = (sent + Unserved(posts')) - Unserved(posts)
  BY DEF CommitOf
<1> HIDE DEF auto
<1>4. posts' \in Seq(Post) /\ Unserved(posts') = Unserved(ps) + Flag(auto /\ MayInit(u))
  <2>1. CASE auto
    BY <2>1, <1>1, <1>2, CallTypes, UnservedCalls DEF Flag
  <2>2. CASE ~auto
    BY <2>2, <1>1, <1>2, UnservedCount DEF Flag
  <2> QED BY <2>1, <2>2
<1>5. Unserved(ps) \in Nat /\ Unserved(posts) \in Nat /\ Flag(auto /\ MayInit(u)) \in Nat
  BY UnservedCount DEF Flag
<1> QED BY <1>3, <1>4, <1>5 DEF auto

\* The router leads to a page, or nowhere.
LEMMA TargetTypes == ASSUME NEW u \in States PROVE Target(u) \in Paths \cup {""}
BY DEF Target, MainTarget, ChatTarget, Paths, Setup, Chat

\* A commit leaves states of the views, a page to go to, and dialogs.
LEMMA CommitTypes ==
  ASSUME TypeOK, NEW u \in States, NEW ps \in Seq(Post), CommitOf(u, ps)
  PROVE  /\ ui' \in States /\ shown' \in States /\ route' \in Paths \cup {""}
         /\ alarm' \in BOOLEAN /\ dialogs' \subseteq {"waiting", "more", "failed", "join"}
<1> DEFINE auto == AutoCommits(u, Mounts(u))
           news == Mounts(u) \/ u.info.status # shown.info.status
<1>1. CanAfter(u, auto) \in BOOLEAN
  BY DEF CanAfter
<1>2. (IF u.fresh THEN SelectedModel(u) ELSE OfPage(u).model) \in ModelNames
  <2>1. OfPage(u).model \in ModelNames
    BY PageTypes DEF States
  <2> QED BY <2>1, SelectedNames
<1>3. ui' \in States
  <2>1. ui' = [OfPage(u) EXCEPT !.can = CanAfter(u, auto),
                                !.model = IF u.fresh THEN SelectedModel(u) ELSE OfPage(u).model]
    BY DEF CommitOf, Mounts
  <2> HIDE DEF auto
  <2> QED BY <2>1, <1>1, <1>2, PageTypes, FieldTypes, Zenon
<1>4. shown' \in States
  BY PageTypes DEF CommitOf
<1>5. route' \in Paths \cup {""}
  BY TargetTypes DEF CommitOf, RouteAfter, TypeOK
<1>6. alarm' \in BOOLEAN
  BY DEF CommitOf
<1>7. dialogs' \subseteq {"waiting", "more", "failed", "join"}
  <2>1. u.info.status \in {"offline", "idle", "waiting", "available"}
    BY DEF States, Info
  <2>2. Opened(u, Mounts(u), news) \subseteq {"waiting", "more"}
    BY <2>1 DEF Opened
  <2>3. dialogs' = IF OnChat(u) THEN dialogs \cup Opened(u, Mounts(u), news) ELSE {}
    BY DEF CommitOf, Mounts
  <2> QED BY <2>2, <2>3 DEF TypeOK
<1> QED BY <1>3, <1>4, <1>5, <1>6, <1>7

----------------------------------------------------------------------------
(* A step is a commit, of the states u and the calls ps, or a quiet one, which leaves
   what is shown alone.  A commit that calls init needs a click, or the flag of the select
   (`can`), and it changes what the view knows of the cluster only for an answered init. *)
InitedTo(u) == \E m \in ToSet(Models), n \in 1 .. MaxInit :
                 u.info = Inited(ui, m, n).info /\ u.nodes = <<>>

Commits(u, ps) ==
  /\ CommitOf(u, ps)
  /\ clicks' \in 0 .. MaxClicks /\ clicks' >= clicks
  /\ Unserved(ps) >= Unserved(posts)
  /\ (Unserved(ps) - Unserved(posts)) + Flag(u.can) =< (clicks' - clicks) + Flag(ui.can)
  /\ \/ u.info = ui.info /\ u.nodes = ui.nodes /\ last' = last
     \/ InitedTo(u) /\ last' = <<>>
  /\ UNCHANGED <<host, server, wire, changes, breaks>>
CommitStep == \E u \in States, ps \in Seq(Post) : Commits(u, ps)

Quiet ==
  /\ UNCHANGED <<host, shown, route, sent>>
  /\ ui'.can = ui.can /\ clicks' \in {clicks, clicks + 1}
  /\ \/ alarm' = alarm /\ dialogs' \subseteq dialogs \cup {"join"}
     \/ RestartAlarm

\* The fields an EXCEPT leaves alone.
LEMMA SameFields ==
  ASSUME NEW u \in States
  PROVE  /\ \A m, b : LET v == [u EXCEPT !.model = m, !.can = b]
                      IN v.info = u.info /\ v.nodes = u.nodes /\ v.can = b
         /\ \A p : LET v == [u EXCEPT !.path = p]
                   IN v.info = u.info /\ v.nodes = u.nodes /\ v.can = u.can
         /\ \A n : LET v == [u EXCEPT !.init = n]
                   IN v.info = u.info /\ v.nodes = u.nodes /\ v.can = u.can
         /\ \A n : LET v == [u EXCEPT !.net = n]
                   IN v.info = u.info /\ v.nodes = u.nodes /\ v.can = u.can
         /\ \A b : LET v == [u EXCEPT !.wide = b]
                   IN v.info = u.info /\ v.nodes = u.nodes /\ v.can = u.can
BY DEF States

\* What a step starts from.
LEMMA Before ==
  ASSUME TypeOK
  PROVE  /\ ui \in States /\ shown \in States /\ posts \in Seq(Post) /\ sent \in Nat
         /\ clicks \in 0 .. MaxClicks /\ clicks \in Nat /\ MaxClicks \in Nat
<1>1. MaxClicks \in Nat
  BY ConsoleAssumption
<1>2. /\ ui \in States /\ shown \in States /\ posts \in Seq(Post) /\ sent \in Nat
      /\ clicks \in 0 .. MaxClicks
  BY Zenon DEF TypeOK
<1> QED BY <1>1, <1>2

\* A step that makes no call counts none.
LEMMA PostsCount ==
  ASSUME TypeOK
  PROVE  Unserved(posts) \in Nat /\ Unserved(posts) - Unserved(posts) = 0
<1>1. Unserved(posts) \in Nat
  BY Before, UnservedCount
<1> QED BY <1>1

\* A click that commits states of the same cluster.
LEMMA ClickCommits ==
  ASSUME TypeOK, NEW u \in States, NEW ps \in Seq(Post), Click(u, ps),
         u.info = ui.info, u.nodes = ui.nodes, Unserved(ps) >= Unserved(posts),
         (Unserved(ps) - Unserved(posts)) + Flag(u.can) =< 1 + Flag(ui.can)
  PROVE  CommitStep
<1>1. /\ clicks' = clicks + 1 /\ clicks' \in 0 .. MaxClicks
      /\ clicks' >= clicks /\ clicks' - clicks = 1
  BY Before DEF Click
<1>2. Commits(u, ps)
  BY <1>1 DEF Click, Commits
<1> QED BY <1>2 DEF CommitStep

\* An effect that React runs of itself commits what is set.
LEMMA CommitCommits == ASSUME TypeOK, Commit PROVE CommitStep
<1>1. ui \in States /\ posts \in Seq(Post)
  BY DEF TypeOK
<1>2. Commits(ui, posts)
  <2>1. clicks' = clicks /\ clicks' \in 0 .. MaxClicks /\ clicks \in Int
    BY Before DEF Commit, counts
  <2> QED BY <1>1, <2>1, PostsCount DEF Commits, Commit, counts, Flag
<1> QED BY <1>1, <1>2 DEF CommitStep

\* So does a navigation of the router, with the page it goes to.
LEMMA NavigateCommits == ASSUME TypeOK, Navigate PROVE CommitStep
<1> DEFINE u == [ui EXCEPT !.path = route]
<1>1. ui \in States /\ posts \in Seq(Post) /\ route \in Paths
  BY DEF TypeOK, Navigate
<1>2. u \in States /\ u.info = ui.info /\ u.nodes = ui.nodes /\ u.can = ui.can
  BY <1>1, FieldTypes, SameFields
<1>3. CommitOf(u, posts)
  BY DEF Navigate
<1> HIDE DEF u
<1>4. Commits(u, posts)
  <2>1. clicks' = clicks /\ clicks' \in 0 .. MaxClicks /\ clicks \in Int
    <3>1. clicks' = clicks
      BY Zenon DEF Navigate, counts
    <3> QED BY <3>1, Before
  <2>2. Flag(u.can) = Flag(ui.can) /\ Flag(u.can) \in Nat
    BY <1>2 DEF Flag
  <2>3. UNCHANGED <<host, server, wire, last, changes, breaks>>
    BY DEF Navigate, counts
  <2> QED BY <1>2, <1>3, <2>1, <2>2, <2>3, PostsCount DEF Commits
<1> QED BY <1>1, <1>2, <1>4 DEF CommitStep

\* An answer commits at once if it goes on to the join page; else it sets states only.
LEMMA AnswerSteps ==
  ASSUME TypeOK, NEW i \in DOMAIN posts, Answer(i)
  PROVE  IF posts[i].from = Setup THEN CommitStep ELSE Quiet
<1> DEFINE next == Inited(ui, posts[i].model, posts[i].init)
           rest == RemoveAt(posts, i)
           u    == [next EXCEPT !.path = Join]
<1>1. ui \in States /\ posts \in Seq(Post)
  BY DEF TypeOK
<1>2. posts[i].model \in ToSet(Models) /\ posts[i].init \in 1 .. MaxInit /\ posts[i].done
  <2>1. posts[i] \in Post
    BY <1>1
  <2> QED BY <2>1 DEF Post, Answer
<1>3. next \in States /\ next.nodes = <<>> /\ next.can = ui.can
  <2>1. next \in States
    BY <1>1, <1>2, InitedTypes
  <2> QED BY <1>1, <2>1 DEF Inited, States
<1>4. rest \in Seq(Post) /\ Unserved(rest) = Unserved(posts)
  BY <1>1, <1>2, RemovedCall, UnservedRemove
<1>5. clicks' = clicks /\ clicks' \in 0 .. MaxClicks /\ clicks \in Int /\ last' = <<>>
  BY Before DEF Answer, counts
<1>6. CASE posts[i].from = Setup
  <2>1. CommitOf(u, rest) /\ UNCHANGED <<host, server, wire, changes, breaks>>
    BY <1>6 DEF Answer, counts
  <2>2. u \in States /\ u.info = next.info /\ u.nodes = next.nodes /\ u.can = next.can
    <3> HIDE DEF next
    <3>1. Join \in Paths
      BY DEF Paths
    <3> QED BY <3>1, <1>3, FieldTypes, SameFields
  <2>3. InitedTo(u)
    BY <1>2, <1>3, <2>2 DEF InitedTo
  <2> HIDE DEF u, rest, next
  <2>4. Commits(u, rest)
    BY <1>3, <1>4, <1>5, <2>1, <2>2, <2>3, PostsCount DEF Commits, Flag
  <2> QED BY <1>4, <1>6, <2>2, <2>4 DEF CommitStep
<1>7. CASE posts[i].from # Setup
  <2>1. ui' = next /\ UNCHANGED <<host, view, sent, clicks>>
    BY <1>7 DEF Answer, counts
  <2> HIDE DEF next
  <2> QED BY <1>3, <1>7, <2>1 DEF Quiet, view
<1> QED BY <1>6, <1>7

\* A picked model lets the select commit, for the click that it is.
LEMMA PickCommits == ASSUME TypeOK, NEW m \in ToSet(Models), Pick(m) PROVE CommitStep
<1> DEFINE b == ui.can \/ OnChat(shown)
           u == [ui EXCEPT !.model = m, !.can = b]
<1>1. b \in BOOLEAN /\ m \in ModelNames
  BY NamesOfModels, Before DEF OnChat, States
<1>2. Click(u, posts)
  BY Zenon DEF Pick
<1> HIDE DEF b
<1>3. u \in States /\ u.info = ui.info /\ u.nodes = ui.nodes
  <2>1. u \in States
    BY <1>1, Before, FieldTypes, Zenon
  <2>2. u.info = ui.info /\ u.nodes = ui.nodes
    BY Before DEF States
  <2> QED BY <2>1, <2>2
<1> HIDE DEF u
<1>4. Flag(u.can) =< 1 + Flag(ui.can)
  BY DEF Flag
<1>5. (Unserved(posts) - Unserved(posts)) + Flag(u.can) = Flag(u.can)
  BY PostsCount DEF Flag
<1> QED BY <1>2, <1>3, <1>4, <1>5, Before, PostsCount, ClickCommits

\* A click that changes a field of its own.
LEMMA OwnClick ==
  ASSUME TypeOK, NEW u \in States, Click(u, posts),
         u.info = ui.info, u.nodes = ui.nodes, u.can = ui.can
  PROVE  CommitStep
<1>1. Flag(u.can) =< 1 + Flag(ui.can)
  BY DEF Flag
<1>2. (Unserved(posts) - Unserved(posts)) + Flag(u.can) = Flag(u.can)
  BY PostsCount DEF Flag
<1> QED BY <1>1, <1>2, Before, PostsCount, ClickCommits

\* The number of nodes, the network, the way back and the side bar.
LEMMA SettingCommits ==
  ASSUME TypeOK
  PROVE  /\ \A n \in 1 .. MaxInit : SetNumber(n) => CommitStep
         /\ \A n \in Networks : SetNetwork(n) => CommitStep
         /\ Back => CommitStep
         /\ ToggleSideBar => CommitStep
<1>1. ASSUME NEW n \in 1 .. MaxInit, SetNumber(n) PROVE CommitStep
  <2>1. Click([ui EXCEPT !.init = n], posts)
    BY <1>1, Zenon DEF SetNumber
  <2> QED BY <2>1, Before, FieldTypes, SameFields, OwnClick
<1>2. ASSUME NEW n \in Networks, SetNetwork(n) PROVE CommitStep
  <2>1. Click([ui EXCEPT !.net = n], posts)
    BY <1>2, Zenon DEF SetNetwork
  <2> QED BY <2>1, Before, FieldTypes, SameFields, OwnClick
<1>3. ASSUME Back PROVE CommitStep
  <2>1. Click([ui EXCEPT !.path = Setup], posts) /\ Setup \in Paths
    BY <1>3, Zenon DEF Back, Paths
  <2> QED BY <2>1, Before, FieldTypes, SameFields, OwnClick
<1>4. ASSUME ToggleSideBar PROVE CommitStep
  <2>1. Click([ui EXCEPT !.wide = ~shown.wide], posts)
    BY <1>4, Zenon DEF ToggleSideBar
  <2>2. (~shown.wide) \in BOOLEAN
    OBVIOUS
  <2>3. PICK b \in BOOLEAN : Click([ui EXCEPT !.wide = b], posts)
    BY <2>1, <2>2, Zenon
  <2> QED BY <2>3, Before, FieldTypes, SameFields, OwnClick
<1> QED BY <1>1, <1>2, <1>3, <1>4

\* A typed or stepped number is one the user may ask for.
LEMMA NumberCommits ==
  ASSUME TypeOK
  PROVE  /\ \A n \in 0 .. MaxInit : SetNumber(AtLeastOne(n)) => CommitStep
         /\ \A d \in Steps : SetNumber(Stepped(d)) => CommitStep
<1>1. \A n \in Int : SetNumber(AtLeastOne(n)) => AtLeastOne(n) \in 1 .. MaxInit
  BY ConsoleAssumption DEF SetNumber, AtLeastOne
<1>2. shown.init \in Int /\ \A d \in Steps : shown.init + d \in Int
  <2>1. shown.init \in 1 .. MaxInit
    BY Before DEF States
  <2> QED BY <2>1, ConsoleAssumption DEF Steps
<1>3. 0 .. MaxInit \subseteq Int
  OBVIOUS
<1> QED BY <1>1, <1>2, <1>3, SettingCommits DEF Stepped

\* Continue calls init once at most, and leaves the flag of the select alone.
LEMMA ContinueCommits == ASSUME TypeOK, Continue PROVE CommitStep
<1>1. CASE ShouldInit(shown)
  <2> DEFINE ps == Calls(posts, ui, Setup)
  <2>1. Click(ui, ps)
    BY <1>1 DEF Continue
  <2>2. ps \in Seq(Post) /\ Unserved(ps) = Unserved(posts) + (IF MayInit(ui) THEN 1 ELSE 0)
    BY Before, CallTypes, UnservedCalls
  <2> HIDE DEF ps
  <2>3. /\ Unserved(ps) >= Unserved(posts)
        /\ (Unserved(ps) - Unserved(posts)) + Flag(ui.can) =< 1 + Flag(ui.can)
    BY <2>2, PostsCount DEF Flag
  <2> QED BY <2>1, <2>2, <2>3, Before, ClickCommits
<1>2. CASE ~ShouldInit(shown)
  <2>1. Click([ui EXCEPT !.path = Join], posts) /\ Join \in Paths
    BY <1>2 DEF Continue, Paths
  <2> QED BY <2>1, Before, FieldTypes, SameFields, OwnClick
<1> QED BY <1>1, <1>2

\* What the server, the network and the dialogs do shows nothing new.
LEMMA QuietSteps ==
  ASSUME TypeOK
  PROVE  /\ \A i \in DOMAIN posts : Serve(i) \/ CallFails(i) => Quiet
         /\ RestartAlarm \/ AddNodes \/ CloseDialog => Quiet
         /\ ListModels \/ Push \/ Deliver \/ StreamBreaks \/ ClusterChanges => Quiet
<1>1. \A i \in DOMAIN posts : Serve(i) \/ CallFails(i) => Quiet
  BY DEF Serve, CallFails, Quiet, view, counts
<1>2. RestartAlarm \/ AddNodes \/ CloseDialog => Quiet
  BY DEF RestartAlarm, AddNodes, CloseDialog, Quiet, counts
<1>3. Push \/ ClusterChanges => Quiet
  BY DEF Push, ClusterChanges, Quiet, view, counts
<1>4. ASSUME ListModels PROVE Quiet
  <2>1. ui' = [ui EXCEPT !.listed = TRUE, !.fresh = TRUE]
    BY <1>4 DEF ListModels
  <2>2. ui'.can = ui.can
    BY <2>1, Before DEF States
  <2> QED BY <1>4, <2>2 DEF ListModels, Quiet, view, counts
<1>5. ASSUME Deliver PROVE Quiet
  <2>1. ui'.can = ui.can
    BY <1>5, Before DEF Deliver, WithStatus, WithInfo, States
  <2> QED BY <1>5, <2>1 DEF Deliver, Quiet, view, counts
<1>6. ASSUME StreamBreaks PROVE Quiet
  <2>1. ui'.can = ui.can
    BY <1>6, Before DEF StreamBreaks, Reset, WithInfo, States
  <2> QED BY <1>6, <2>1 DEF StreamBreaks, Quiet, view
<1> QED BY <1>1, <1>2, <1>3, <1>4, <1>5, <1>6

\* Every step of the console is one of the two.
LEMMA CommitOrQuiet == ASSUME TypeOK, Next PROVE CommitStep \/ Quiet
<1>1. Commit \/ Navigate \/ Continue => CommitStep
  BY CommitCommits, NavigateCommits, ContinueCommits
<1>2. \A m \in ToSet(Models) : Pick(m) => CommitStep
  BY PickCommits
<1>3. \A i \in DOMAIN posts : Answer(i) => CommitStep \/ Quiet
  BY AnswerSteps
<1> QED BY <1>1, <1>2, <1>3, SettingCommits, NumberCommits, QuietSteps DEF Next

----------------------------------------------------------------------------
\* A server that starts its scheduler reports a cluster without nodes.
LEMMA StartedTypes ==
  ASSUME NEW m \in ToSet(Models), NEW n \in 1 .. MaxInit, NEW net \in Networks
  PROVE  Started(m, n, net) \in Report
<1>1. <<>> \in NodeLists
  BY DEF NodeLists
<1>2. m \in ModelNames /\ n \in Nat
  BY NamesOfModels, ConsoleAssumption
<1>3. NoScheduler \in Report
  <2>1. \A ns \in NodeLists, x \in ModelNames :
          [status |-> "waiting", model |-> x, init |-> 0, command |-> NoCommand, more |-> FALSE,
           nodes |-> ns] \in Report
    BY DEF Report
  <2> QED BY <1>1, <2>1, NamesOfModels, Zenon DEF NoScheduler
<1>4. \A x \in Report : [x EXCEPT !.model = m, !.init = n, !.command = net] \in Report
  BY <1>2 DEF Report
<1> QED BY <1>3, <1>4, Zenon DEF Started

\* The console opens on a page, with nothing known of the cluster.
LEMMA TypesInit == Init => TypeOK
<1> SUFFICES ASSUME Init PROVE TypeOK
  OBVIOUS
<1>1. server \in Report
  BY ConsoleAssumption DEF Init
<1>2. ui \in States /\ shown \in States
  BY StartTypes DEF Init, Paths, Chat
<1>3. 0 \in 0 .. MaxClicks /\ 0 \in 0 .. MaxChanges /\ 0 \in 0 .. MaxBreaks
  BY ConsoleAssumption
<1>4. <<>> \in Seq(Report) /\ <<>> \in Seq(Post)
  OBVIOUS
<1> QED BY <1>1, <1>2, <1>3, <1>4 DEF Init, TypeOK

\* Commits keep the types.
LEMMA TypesCommit == ASSUME TypeOK, CommitStep PROVE TypeOK'
<1>1. PICK u \in States, ps \in Seq(Post) : Commits(u, ps)
  BY DEF CommitStep
<1>2. CommitOf(u, ps) /\ Unserved(ps) >= Unserved(posts)
  BY <1>1 DEF Commits
<1>3. posts' \in Seq(Post) /\ sent' \in Nat
  BY <1>2, Before, CommitCalls
<1>4. /\ ui' \in States /\ shown' \in States /\ route' \in Paths \cup {""}
      /\ alarm' \in BOOLEAN /\ dialogs' \subseteq {"waiting", "more", "failed", "join"}
  BY <1>2, CommitTypes
<1>5. /\ UNCHANGED <<host, server, wire, changes, breaks>> /\ clicks' \in 0 .. MaxClicks
      /\ last' = last \/ last' = <<>>
  BY <1>1 DEF Commits
<1>6. <<>> \in Seq(Report)
  OBVIOUS
<1> QED BY <1>3, <1>4, <1>5, <1>6 DEF TypeOK

\* Quiet steps keep the types: calls and answers, dialogs, reports, errors, changes.
LEMMA TypesQuiet ==
  ASSUME TypeOK
  PROVE  /\ \A i \in DOMAIN posts : Serve(i) \/ CallFails(i) => TypeOK'
         /\ \A i \in DOMAIN posts : Answer(i) /\ posts[i].from # Setup => TypeOK'
         /\ RestartAlarm \/ AddNodes \/ CloseDialog => TypeOK'
         /\ ListModels \/ Push \/ Deliver \/ StreamBreaks \/ ClusterChanges => TypeOK'
<1>0. clicks < MaxClicks => clicks + 1 \in 0 .. MaxClicks
  BY Before
<1>1. ASSUME NEW i \in DOMAIN posts, Serve(i) PROVE TypeOK'
  <2>1. posts[i] \in Post
    BY Before
  <2>2. Started(posts[i].model, posts[i].init, posts[i].net) \in Report
    BY <2>1, StartedTypes DEF Post
  <2>3. [posts[i] EXCEPT !.done = TRUE] \in Post
    BY <2>1 DEF Post
  <2>4. [posts EXCEPT ![i].done = TRUE] \in Seq(Post)
    BY <2>3, Before
  <2> QED BY <1>1, <2>2, <2>4 DEF TypeOK, Serve, view, counts
<1>2. ASSUME NEW i \in DOMAIN posts, CallFails(i) PROVE TypeOK'
  BY <1>2, Before, RemovedCall DEF TypeOK, CallFails, view, counts
<1>3. ASSUME NEW i \in DOMAIN posts, Answer(i), posts[i].from # Setup PROVE TypeOK'
  <2>1. posts[i] \in Post
    BY Before
  <2>2. Inited(ui, posts[i].model, posts[i].init) \in States
    BY <2>1, Before, InitedTypes DEF Post
  <2>3. RemoveAt(posts, i) \in Seq(Post)
    BY Before, RemovedCall
  <2>4. <<>> \in Seq(Report)
    OBVIOUS
  <2>5. /\ ui' \in States /\ posts' \in Seq(Post) /\ last' \in Seq(Report)
        /\ UNCHANGED <<host, server, wire, view, sent, counts>>
    BY <1>3, <2>2, <2>3, <2>4 DEF Answer
  <2> QED BY <2>5 DEF TypeOK, view, counts
<1>4. ASSUME RestartAlarm PROVE TypeOK'
  BY <1>4 DEF TypeOK, RestartAlarm, counts
<1>5. ASSUME AddNodes \/ CloseDialog PROVE TypeOK'
  BY <1>5, <1>0 DEF TypeOK, AddNodes, CloseDialog
<1>6. ASSUME ListModels PROVE TypeOK'
  <2>1. [ui EXCEPT !.listed = TRUE, !.fresh = TRUE] \in States
    BY Before, FieldTypes
  <2> QED BY <1>6, <2>1 DEF TypeOK, ListModels, view, counts
<1>7. ASSUME Push PROVE TypeOK'
  <2>0. server \in Report
    BY Zenon DEF TypeOK
  <2>1. <<server>> \in Seq(Report)
    BY <2>0
  <2> QED BY <1>7, <2>1 DEF TypeOK, Push, view, counts
<1>8. ASSUME Deliver PROVE TypeOK'
  <2>1. Head(wire) \in Report /\ <<>> \in Seq(Report)
    <3>1. wire \in Seq(Report) /\ wire # <<>>
      BY <1>8, Zenon DEF TypeOK, Deliver
    <3> QED BY <3>1, HeadTailProperties, EmptySeq
  <2>2. WithStatus(ui, Head(wire)) \in States
    BY <2>1, Before, StatusTypes
  <2> QED BY <1>8, <2>1, <2>2 DEF TypeOK, Deliver, view, counts
<1>9. ASSUME StreamBreaks PROVE TypeOK'
  <2>1. Reset(ui) \in States /\ <<>> \in Seq(Report)
    BY Before, ResetTypes
  <2>2. breaks + 1 \in 0 .. MaxBreaks
    <3>1. breaks \in 0 .. MaxBreaks /\ breaks < MaxBreaks
      BY <1>9, Zenon DEF TypeOK, StreamBreaks
    <3> QED BY <3>1, ConsoleAssumption
  <2> QED BY <1>9, <2>1, <2>2 DEF TypeOK, StreamBreaks, view
<1>10. ASSUME ClusterChanges PROVE TypeOK'
  <2>1. server' \in Report
    BY <1>10, ConsoleAssumption DEF ClusterChanges
  <2>2. changes + 1 \in 0 .. MaxChanges
    <3>1. changes \in 0 .. MaxChanges /\ changes < MaxChanges
      BY <1>10, Zenon DEF TypeOK, ClusterChanges
    <3> QED BY <3>1, ConsoleAssumption
  <2> QED BY <1>10, <2>1, <2>2 DEF TypeOK, ClusterChanges, view
<1> QED BY <1>1, <1>2, <1>3, <1>4, <1>5, <1>6, <1>7, <1>8, <1>9, <1>10

\* Every step keeps the types.
LEMMA TypesNext == ASSUME TypeOK, [Next]_vars PROVE TypeOK'
<1>1. ASSUME UNCHANGED vars PROVE TypeOK'
  BY <1>1 DEF vars, TypeOK
<1>2. ASSUME Next PROVE TypeOK'
  <2>1. Commit \/ Navigate \/ Continue => TypeOK'
    BY CommitCommits, NavigateCommits, ContinueCommits, TypesCommit
  <2>2. \A m \in ToSet(Models) : Pick(m) => TypeOK'
    BY PickCommits, TypesCommit
  <2>3. \A i \in DOMAIN posts : Answer(i) => TypeOK'
    BY AnswerSteps, TypesCommit, TypesQuiet
  <2>4. CommitStep => TypeOK'
    BY TypesCommit
  <2> QED BY <1>2, <2>1, <2>2, <2>3, <2>4, SettingCommits, NumberCommits, TypesQuiet DEF Next
<1> QED BY <1>1, <1>2

\* The states of the console keep their types: the status is never one that only the frontend
\* knows, reports, answers and errors in any order never leave a list that is not one, and the
\* user never asks for less than one node.
THEOREM ConsoleTypes == Spec => []TypeOK
BY TypesInit, TypesNext, PTL DEF Spec

----------------------------------------------------------------------------
(* One click, one init: the flag that lets the select commit stands for a click that has
   not been used up. *)
Spendable == sent + Flag(ui.can) =< clicks

\* Nothing is to be spent at first.
LEMMA ClicksInit == Init => Spendable
<1> SUFFICES ASSUME Init PROVE Spendable
  OBVIOUS
<1>1. \A path : Start(path).can = FALSE
  BY DEF Start
<1>2. ui.can = FALSE /\ sent = 0 /\ clicks = 0
  BY <1>1, Zenon DEF Init
<1> QED BY <1>2 DEF Spendable, Flag

\* A commit that calls init spends the flag, a click sets it once.
LEMMA ClicksCommit == ASSUME TypeOK, Spendable, CommitStep PROVE Spendable'
<1>1. PICK u \in States, ps \in Seq(Post) : Commits(u, ps)
  BY DEF CommitStep
<1> DEFINE auto == AutoCommits(u, Mounts(u))
           calls == Unserved(ps) - Unserved(posts)
           one == Flag(auto /\ MayInit(u))
<1>2. CommitOf(u, ps) /\ Unserved(ps) >= Unserved(posts)
  BY <1>1 DEF Commits
<1>3. sent' = sent + calls + one /\ sent' \in Nat
  BY <1>2, Before, CommitCalls
<1>4. ui'.can = CanAfter(u, auto)
  <2>1. OfPage(u) \in States
    BY PageTypes
  <2>2. ui' = [OfPage(u) EXCEPT !.can = CanAfter(u, auto),
                                !.model = IF u.fresh THEN SelectedModel(u) ELSE @]
    BY <1>2 DEF CommitOf, Mounts
  <2> HIDE DEF auto
  <2> QED BY <2>1, <2>2 DEF States
<1>5. one + Flag(ui'.can) =< Flag(u.can)
  <2>1. auto => u.can
    BY DEF AutoCommits
  <2>2. ui'.can => u.can /\ ~auto
    BY <1>4 DEF CanAfter
  <2> HIDE DEF auto
  <2> QED BY <2>1, <2>2 DEF Flag
<1>6. calls + Flag(u.can) =< (clicks' - clicks) + Flag(ui.can)
  BY <1>1 DEF Commits
<1>7. /\ calls \in Int /\ one \in Nat /\ clicks' \in Nat /\ clicks \in Nat /\ sent \in Nat
      /\ Flag(u.can) \in Nat /\ Flag(ui.can) \in Nat /\ Flag(ui'.can) \in Nat
  <2>1. clicks' \in Nat
    BY <1>1, Before DEF Commits
  <2>2. calls \in Int
    BY Before, UnservedCount
  <2> QED BY <2>1, <2>2, Before DEF Flag
<1> HIDE DEF calls, one
<1>8. sent' + Flag(ui'.can) =< clicks'
  BY <1>3, <1>5, <1>6, <1>7 DEF Spendable
<1> QED BY <1>8 DEF Spendable, Flag

\* Every step keeps it: quiet ones make no call and set no flag.
LEMMA ClicksNext == ASSUME TypeOK, Spendable, [Next]_vars PROVE Spendable'
<1>1. ASSUME UNCHANGED vars PROVE Spendable'
  BY <1>1 DEF vars, Spendable, Flag
<1>2. ASSUME Quiet PROVE Spendable'
  <2>1. /\ sent' = sent /\ ui'.can = ui.can /\ clicks' \in {clicks, clicks + 1}
        /\ clicks \in Nat /\ sent \in Nat
    BY <1>2, Before DEF Quiet
  <2>2. Flag(ui'.can) = Flag(ui.can) /\ Flag(ui.can) \in Nat
    BY <2>1 DEF Flag
  <2>3. sent' + Flag(ui'.can) =< clicks'
    BY <2>1, <2>2 DEF Spendable
  <2> QED BY <2>3 DEF Spendable, Flag
<1> QED BY <1>1, <1>2, ClicksCommit, CommitOrQuiet

\* Each init, which ends the running cluster, has a click of its own: however often
\* reports and answers change the views afterwards.
THEOREM ConsoleInitsOnce == Spec => []OneInitPerClick
<1>1. TypeOK /\ Spendable => OneInitPerClick
  <2>1. ASSUME TypeOK, Spendable PROVE OneInitPerClick
    <3>1. Flag(ui.can) \in Nat /\ sent \in Nat /\ clicks \in Nat
      BY <2>1, Before DEF Flag
    <3> QED BY <2>1, <3>1 DEF Spendable, OneInitPerClick
  <2> QED BY <2>1
<1>2. Init => TypeOK /\ Spendable
  BY TypesInit, ClicksInit
<1>3. TypeOK /\ Spendable /\ [Next]_vars => (TypeOK /\ Spendable)'
  BY TypesNext, ClicksNext
<1> QED BY <1>1, <1>2, <1>3, PTL DEF Spec

----------------------------------------------------------------------------
(* The timers: on the console of the cluster the router's runs whenever the one of the
   restart dialog does. *)
TimersInv == TimersAreCurrent /\ (alarm /\ HasCluster => route # "")

\* No timer runs at first.
LEMMA TimersInit == Init => TimersInv
BY DEF Init, TimersInv, TimersAreCurrent

\* A commit restarts the timers for what it shows, or stops them.
LEMMA TimersCommit == ASSUME TypeOK, TimersInv, CommitStep PROVE TimersInv'
<1>1. PICK u \in States, ps \in Seq(Post) : Commits(u, ps)
  BY DEF CommitStep
<1> DEFINE moves == u.path # shown.path
           news == Mounts(u) \/ u.info.status # shown.info.status
<1>2. /\ alarm' = (OnChat(u) /\ IF news THEN u.info.status = "idle" ELSE alarm)
      /\ route' = IF moves \/ news THEN Target(u) ELSE route
      /\ dialogs' = IF OnChat(u) THEN dialogs \cup Opened(u, Mounts(u), news) ELSE {}
      /\ shown' = OfPage(u) /\ host' = host
  BY <1>1 DEF Commits, CommitOf, Mounts, RouteAfter
<1>3. shown'.path = u.path /\ shown'.info = u.info
  BY <1>2 DEF OfPage, States
<1>4. Target(shown)' = Target(u)
  BY <1>2, <1>3 DEF Target, MainTarget, ChatTarget, OnChat, HasCluster
<1>5. OnChat(shown)' = OnChat(u) /\ HasCluster' = HasCluster
  BY <1>2, <1>3 DEF OnChat, HasCluster
<1>6. ~moves /\ ~news => Target(shown) = Target(u)
  BY DEF Target, MainTarget, ChatTarget, OnChat
<1>7. route' # "" => route' = Target(shown)'
  BY <1>2, <1>4, <1>6 DEF TimersInv, TimersAreCurrent
<1>8. alarm' => OnChat(shown)' /\ shown'.info.status = "idle"
  <2>1. ~news /\ alarm => u.info.status = "idle"
    BY DEF TimersInv, TimersAreCurrent
  <2> QED BY <1>2, <1>3, <1>5, <2>1
<1>9. HasCluster /\ alarm' => route' # ""
  <2>1. ASSUME HasCluster, alarm' PROVE route' # ""
    <3>1. OnChat(u) /\ u.info.status = "idle"
      BY <2>1, <1>3, <1>5, <1>8
    <3>2. Target(u) # ""
      BY <2>1, <3>1 DEF Target, MainTarget, OnChat, Chat, Setup
    <3>3. CASE moves \/ news
      BY <1>2, <3>2, <3>3
    <3>4. CASE ~moves /\ ~news
      BY <2>1, <1>2, <3>4 DEF TimersInv
    <3> QED BY <3>3, <3>4
  <2> QED BY <2>1
<1>10. HasCluster => "failed" \notin dialogs'
  <2>1. u.info.status # "failed"
    BY DEF States, Info
  <2>2. "failed" \notin Opened(u, Mounts(u), news)
    BY <2>1 DEF Opened
  <2> QED BY <1>2, <2>2 DEF TimersInv, TimersAreCurrent
<1> QED BY <1>5, <1>7, <1>8, <1>9, <1>10 DEF TimersInv, TimersAreCurrent

\* A quiet step shows nothing new; the restart alarm goes off on nodes only.
LEMMA TimersQuiet == ASSUME TypeOK, TimersInv, Quiet PROVE TimersInv'
<1>1. UNCHANGED <<host, shown, route>>
  BY DEF Quiet
<1>2. Target(shown)' = Target(shown) /\ OnChat(shown)' = OnChat(shown) /\ HasCluster' = HasCluster
  BY <1>1 DEF Target, MainTarget, ChatTarget, OnChat, HasCluster
<1>3. CASE alarm' = alarm /\ dialogs' \subseteq dialogs \cup {"join"}
  BY <1>1, <1>2, <1>3 DEF TimersInv, TimersAreCurrent
<1>4. CASE RestartAlarm
  <2>1. ~HasCluster /\ ~alarm'
    BY <1>4 DEF RestartAlarm, TimersInv
  <2> QED BY <1>1, <1>2, <2>1 DEF TimersInv, TimersAreCurrent
<1> QED BY <1>3, <1>4 DEF Quiet

\* Every step keeps it.
LEMMA TimersNext == ASSUME TypeOK, TimersInv, [Next]_vars PROVE TimersInv'
<1>1. ASSUME UNCHANGED vars PROVE TimersInv'
  BY <1>1 DEF vars, TimersInv, TimersAreCurrent, Target, MainTarget, ChatTarget, OnChat, HasCluster
<1> QED BY <1>1, TimersCommit, TimersQuiet, CommitOrQuiet

\* A timer that runs is justified by what is shown now, on every page and in any order of
\* reports, answers and clicks; on the console of the cluster the dialog that asks for a
\* restart never opens, as the router always goes first.
THEOREM ConsoleTimers == Spec => []TimersAreCurrent
<1>1. Init => TypeOK /\ TimersInv
  BY TypesInit, TimersInit
<1>2. TypeOK /\ TimersInv /\ [Next]_vars => (TypeOK /\ TimersInv)'
  BY TypesNext, TimersNext
<1> QED BY <1>1, <1>2, PTL DEF Spec, TimersInv

----------------------------------------------------------------------------
(* What the view says is what was reported last. *)
NodesInv ==
  /\ Distinct(ui.nodes)
  /\ last = <<>> => /\ ui.nodes = <<>> /\ ~ui.info.more
                    /\ ui.info.status = "waiting" => ui.info.init >= 1
  /\ last # <<>> => ui.info = Told(last[1]) /\ Extends(ui.nodes, last[1].nodes)

\* An empty list repeats no node.
LEMMA NoNodes == Distinct(<<>>)
BY DEF Distinct

\* Nothing was reported at first.
LEMMA NodesInit == Init => NodesInv
<1> SUFFICES ASSUME Init PROVE NodesInv
  OBVIOUS
<1>1. \A path : Start(path).info = Unknown /\ Start(path).nodes = <<>>
  BY DEF Start
<1>2. ui.info = Unknown /\ ui.nodes = <<>> /\ last = <<>>
  BY <1>1, Zenon DEF Init
<1>3. Unknown.status = "offline" /\ ~Unknown.more
  BY DEF Unknown
<1> QED BY <1>2, <1>3, NoNodes DEF NodesInv

\* A cluster that has just been started has no nodes, and asks for at least one.
LEMMA InitedNodes ==
  ASSUME NEW u \in States, NEW m \in ToSet(Models), NEW n \in 1 .. MaxInit
  PROVE  LET v == Inited(u, m, n)
         IN v.nodes = <<>> /\ ~v.info.more /\ v.info.init >= 1
<1>1. Inited(u, m, n).nodes = <<>>
  BY DEF Inited, States
<1>2. PICK k : k = (u.listed /\ m \in ToSet(Models))
  OBVIOUS
<1>3. Inited(u, m, n).info = [u.info EXCEPT !.status = "waiting", !.model = m, !.init = n,
                                            !.more = FALSE, !.known = k]
  BY <1>2 DEF Inited, States
<1>4. u.info \in Info /\ n >= 1
  BY ConsoleAssumption DEF States
<1> QED BY <1>1, <1>3, <1>4 DEF Info

\* A commit keeps the info and the nodes, or is that of an answered init.
LEMMA NodesCommit == ASSUME TypeOK, NodesInv, CommitStep PROVE NodesInv'
<1>1. PICK u \in States, ps \in Seq(Post) : Commits(u, ps)
  BY DEF CommitStep
<1>2. ui'.info = u.info /\ ui'.nodes = u.nodes
  <2> DEFINE can == CanAfter(u, AutoCommits(u, Mounts(u)))
  <2>1. OfPage(u) \in States /\ OfPage(u).info = u.info /\ OfPage(u).nodes = u.nodes
    <3>1. PICK b, c : b = (u.can /\ OnChat(u)) /\ c = (u.wide \/ ~OnChat(u))
      OBVIOUS
    <3>2. OfPage(u) = [u EXCEPT !.fresh = FALSE, !.can = b, !.wide = c]
      BY <3>1 DEF OfPage
    <3> QED BY <3>2, PageTypes DEF States
  <2>2. ui' = [OfPage(u) EXCEPT !.can = can, !.model = IF u.fresh THEN SelectedModel(u) ELSE @]
    BY <1>1 DEF Commits, CommitOf, Mounts
  <2> HIDE DEF can
  <2> QED BY <2>1, <2>2 DEF States
<1>3. CASE u.info = ui.info /\ u.nodes = ui.nodes /\ last' = last
  BY <1>2, <1>3 DEF NodesInv
<1>4. CASE InitedTo(u) /\ last' = <<>>
  <2>1. PICK m \in ToSet(Models), n \in 1 .. MaxInit :
          u.info = Inited(ui, m, n).info /\ u.nodes = <<>>
    BY <1>4 DEF InitedTo
  <2>2. ~u.info.more /\ u.info.init >= 1
    BY <2>1, Before, InitedNodes
  <2> QED BY <1>2, <1>4, <2>1, <2>2, NoNodes DEF NodesInv
<1> QED BY <1>1, <1>3, <1>4 DEF Commits

\* A step that leaves them alone.
LEMMA NodesSame ==
  ASSUME NodesInv, ui'.info = ui.info, ui'.nodes = ui.nodes, last' = last
  PROVE  NodesInv'
BY DEF NodesInv

\* A report is merged, an error and an answer reset the view, the other steps do not touch it.
LEMMA NodesQuiet ==
  ASSUME TypeOK, NodesInv
  PROVE  /\ \A i \in DOMAIN posts : Serve(i) \/ CallFails(i) => NodesInv'
         /\ \A i \in DOMAIN posts : Answer(i) /\ posts[i].from # Setup => NodesInv'
         /\ RestartAlarm \/ AddNodes \/ CloseDialog => NodesInv'
         /\ ListModels \/ Push \/ Deliver \/ StreamBreaks \/ ClusterChanges => NodesInv'
<1>1. ASSUME NEW i \in DOMAIN posts, Serve(i) \/ CallFails(i) PROVE NodesInv'
  BY <1>1, NodesSame DEF Serve, CallFails
<1>2. ASSUME NEW i \in DOMAIN posts, Answer(i), posts[i].from # Setup PROVE NodesInv'
  <2>1. posts[i].model \in ToSet(Models) /\ posts[i].init \in 1 .. MaxInit
    <3>1. posts[i] \in Post
      BY Before
    <3> QED BY <3>1 DEF Post
  <2>2. ui' = Inited(ui, posts[i].model, posts[i].init) /\ last' = <<>>
    BY <1>2 DEF Answer
  <2>3. ui'.nodes = <<>> /\ ~ui'.info.more /\ ui'.info.init >= 1
    BY <2>1, <2>2, Before, InitedNodes
  <2> QED BY <2>2, <2>3, NoNodes DEF NodesInv
<1>3. ASSUME RestartAlarm \/ AddNodes \/ CloseDialog \/ Push \/ ClusterChanges PROVE NodesInv'
  BY <1>3, NodesSame DEF RestartAlarm, AddNodes, CloseDialog, Push, ClusterChanges
<1>4. ASSUME ListModels PROVE NodesInv'
  <2>1. ui'.info = ui.info /\ ui'.nodes = ui.nodes /\ last' = last
    BY <1>4, Before DEF ListModels, States
  <2> QED BY <2>1, NodesSame
<1>5. ASSUME Deliver PROVE NodesInv'
  <2> DEFINE s == Head(wire)
  <2>1. wire \in Seq(Report) /\ wire # <<>> /\ last' = wire
    BY <1>5, Zenon DEF TypeOK, Deliver
  <2>2. s \in Report /\ s = wire[1]
    BY <2>1, HeadTailProperties
  <2>3. ui' = WithStatus(ui, s)
    BY <1>5 DEF Deliver
  <2> HIDE DEF s
  <2>4. WithInfo(ui, Told(s)) \in States /\ WithInfo(ui, Told(s)).info = Told(s)
    BY <2>2, Before, ToldType, InfoTypes DEF WithInfo, States
  <2>5. ui' = [WithInfo(ui, Told(s)) EXCEPT !.nodes = Merge(ui.nodes, s.nodes)]
    BY <2>3 DEF WithStatus, Told
  <2>6. ui'.info = Told(s) /\ ui'.nodes = Merge(ui.nodes, s.nodes)
    BY <2>4, <2>5 DEF States
  <2>7. Extends(ui'.nodes, s.nodes) /\ Distinct(ui'.nodes)
    <3>1. ui.nodes \in Seq(NodeInfo) /\ s.nodes \in NodeLists /\ Distinct(ui.nodes)
      BY <2>2, Before DEF States, Report, NodesInv
    <3> QED BY <2>6, <3>1, MergedNodes
  <2> QED BY <2>1, <2>2, <2>6, <2>7 DEF NodesInv
<1>6. ASSUME StreamBreaks PROVE NodesInv'
  <2>1. ui' = [WithInfo(ui, Unknown) EXCEPT !.nodes = <<>>] /\ last' = <<>>
    BY <1>6 DEF StreamBreaks, Reset
  <2>2. WithInfo(ui, Unknown) \in States /\ WithInfo(ui, Unknown).info = Unknown
    BY Before, UnknownType, InfoTypes DEF WithInfo, States
  <2>3. ui'.info = Unknown /\ ui'.nodes = <<>>
    BY <2>1, <2>2 DEF States
  <2>4. Unknown.status = "offline" /\ ~Unknown.more
    BY DEF Unknown
  <2> QED BY <2>1, <2>3, <2>4, NoNodes DEF NodesInv
<1> QED BY <1>1, <1>2, <1>3, <1>4, <1>5, <1>6

\* Every step keeps it.
LEMMA NodesNext == ASSUME TypeOK, NodesInv, [Next]_vars PROVE NodesInv'
<1>1. ASSUME UNCHANGED vars PROVE NodesInv'
  BY <1>1, NodesSame DEF vars
<1>2. ASSUME Next PROVE NodesInv'
  <2>1. Commit \/ Navigate \/ Continue => NodesInv'
    BY CommitCommits, NavigateCommits, ContinueCommits, NodesCommit
  <2>2. \A m \in ToSet(Models) : Pick(m) => NodesInv'
    BY PickCommits, NodesCommit
  <2>3. \A i \in DOMAIN posts : Answer(i) => NodesInv'
    BY AnswerSteps, NodesCommit, NodesQuiet
  <2>4. CommitStep => NodesInv'
    BY NodesCommit
  <2> QED BY <1>2, <2>1, <2>2, <2>3, <2>4, SettingCommits, NumberCommits, NodesQuiet DEF Next
<1> QED BY <1>1, <1>2

\* The invariant and the types hold together.
LEMMA NodesHold == Spec => [](TypeOK /\ NodesInv)
<1>1. Init => TypeOK /\ NodesInv
  BY TypesInit, NodesInit
<1>2. TypeOK /\ NodesInv /\ [Next]_vars => (TypeOK /\ NodesInv)'
  BY TypesNext, NodesNext
<1> QED BY <1>1, <1>2, PTL DEF Spec

\* The rows of the list: the nodes in their order, then the places that are open.
LEMMA RowsOfNodes ==
  ASSUME NEW u \in States
  PROVE  LET k == Len(u.nodes)
         IN /\ k \in Nat /\ DOMAIN u.nodes = 1 .. k /\ OpenPlaces(u) \in Nat
            /\ DOMAIN Rows(u) = 1 .. (k + OpenPlaces(u))
            /\ \A i \in 1 .. k : Rows(u)[i] = Row(u.nodes[i])
            /\ \A i \in (k + 1) .. (k + OpenPlaces(u)) : Rows(u)[i] = Place
<1> DEFINE k == Len(u.nodes)
           a == [i \in DOMAIN u.nodes |-> Row(u.nodes[i])]
           b == [i \in 1 .. OpenPlaces(u) |-> Place]
           o == OpenPlaces(u)
<1>1. u.nodes \in Seq(NodeInfo) /\ k \in Nat /\ DOMAIN u.nodes = 1 .. k
  BY DEF States
<1>2. o \in Nat
  BY <1>1 DEF OpenPlaces, States, Info
<1>3. /\ Len(a) = k /\ Len(b) = o
      /\ \E S : a \in Seq(S) /\ b \in Seq(S)
      /\ \A i \in 1 .. k : a[i] = Row(u.nodes[i])
      /\ \A i \in 1 .. o : b[i] = Place
  <2> DEFINE S == {Row(u.nodes[i]) : i \in 1 .. k} \cup {Place}
  <2>1. a \in [1 .. k -> S] /\ b \in [1 .. o -> S]
    BY <1>1
  <2>2. a \in Seq(S) /\ b \in Seq(S) /\ Len(a) = k /\ Len(b) = o
    <3> HIDE DEF a, b, k, o, S
    <3> QED BY <1>1, <1>2, <2>1
  <2> QED BY <1>1, <2>2
<1>4. Rows(u) = a \o b
  BY DEF Rows
<1> HIDE DEF a, b, k, o
<1>5. PICK S : a \in Seq(S) /\ b \in Seq(S)
  BY <1>3
<1>6. /\ DOMAIN (a \o b) = 1 .. (k + o)
      /\ \A i \in 1 .. (k + o) : (a \o b)[i] = IF i <= k THEN a[i] ELSE b[i - k]
  <2>1. /\ a \o b \in Seq(S) /\ Len(a \o b) = Len(a) + Len(b)
        /\ \A i \in 1 .. (Len(a) + Len(b)) :
             (a \o b)[i] = IF i <= Len(a) THEN a[i] ELSE b[i - Len(a)]
    BY <1>5, ConcatProperties
  <2>2. DOMAIN (a \o b) = 1 .. Len(a \o b)
    BY <2>1, LenProperties
  <2>3. Len(a) = k /\ Len(b) = o
    BY <1>3
  <2> QED BY <2>1, <2>2, <2>3, Zenon
<1>7. ASSUME NEW i \in 1 .. k PROVE Rows(u)[i] = Row(u.nodes[i])
  BY <1>1, <1>2, <1>3, <1>4, <1>6
<1>8. ASSUME NEW i \in (k + 1) .. (k + o) PROVE Rows(u)[i] = Place
  <2>1. i \in 1 .. (k + o) /\ ~(i <= k) /\ i - k \in 1 .. o
    BY <1>1, <1>2
  <2> QED BY <2>1, <1>3, <1>4, <1>6
<1> QED BY <1>1, <1>2, <1>4, <1>6, <1>7, <1>8 DEF k, o

\* Such a view lists the nodes as it should.
LEMMA ListedFollows == ASSUME TypeOK, NodesInv PROVE NodesAreListed
<1> DEFINE rows == Rows(ui)
           k == Len(ui.nodes)
           named == {i \in DOMAIN rows : rows[i].id # Place.id}
           reported == IF last = <<>> THEN <<>> ELSE last[1].nodes
<1>1. ui \in States /\ ui.nodes \in Seq(NodeInfo) /\ DOMAIN ui.nodes = 1 .. k /\ k \in Nat
  BY Before DEF States
<1>2. /\ OpenPlaces(ui) \in Nat /\ DOMAIN rows = 1 .. (k + OpenPlaces(ui))
      /\ \A i \in 1 .. k : rows[i] = Row(ui.nodes[i])
      /\ \A i \in (k + 1) .. (k + OpenPlaces(ui)) : rows[i] = Place
  BY <1>1, RowsOfNodes
<1>3. reported \in NodeLists /\ Extends(ui.nodes, reported)
  <2>1. CASE last = <<>>
    BY <1>1, <2>1 DEF NodesInv, NodeLists, Extends, Has
  <2>2. CASE last # <<>>
    <3>1. last \in Seq(Report)
      BY DEF TypeOK
    <3>2. last[1] \in Report
      BY <2>2, <3>1, EmptySeq
    <3> QED BY <2>2, <3>2 DEF NodesInv, Report
  <2> QED BY <2>1, <2>2
<1> HIDE DEF rows, k, reported
<1>4. ASSUME NEW i \in 1 .. k
      PROVE  /\ i \in named /\ rows[i].id = ui.nodes[i].id
             /\ rows[i].dim <=> ui.nodes[i].status = "failed"
  <2>1. ui.nodes[i] \in NodeInfo /\ i \in DOMAIN rows
    BY <1>1, <1>2
  <2>2. ui.nodes[i].id # ""
    BY <2>1, ViewAssumption DEF NodeInfo
  <2>3. \A n : Row(n).id = n.id /\ (Row(n).dim <=> n.status = "failed")
    BY DEF Row
  <2>4. Place.id = ""
    BY DEF Place
  <2>5. rows[i] = Row(ui.nodes[i])
    BY <1>2
  <2>6. rows[i].id = ui.nodes[i].id /\ (rows[i].dim <=> ui.nodes[i].status = "failed")
    BY <2>3, <2>5
  <2>7. i \in named
    BY <2>1, <2>2, <2>4, <2>6
  <2> QED BY <2>6, <2>7
<1>5. named = 1 .. k
  <2>1. ASSUME NEW i \in named PROVE i \in 1 .. k
    <3>1. i \in 1 .. (k + OpenPlaces(ui)) /\ rows[i] # Place
      BY <1>2
    <3> QED BY <3>1, <1>1, <1>2
  <2> QED BY <1>4, <2>1
<1> HIDE DEF named
<1>6. ASSUME NEW i \in DOMAIN reported
      PROVE  i \in named /\ rows[i] = Row(reported[i]) /\ ~rows[i].dim
  <2>1. i \in 1 .. k /\ ui.nodes[i] = reported[i] /\ reported[i].status # "failed"
    BY <1>1, <1>3 DEF Extends, NodeLists, k
  <2> QED BY <2>1, <1>2, <1>4
<1>7. ASSUME NEW i \in named \ DOMAIN reported
      PROVE  rows[i].dim /\ ~Has(reported, rows[i].id)
  BY <1>1, <1>3, <1>4, <1>5 DEF Extends
<1>8. ASSUME NEW i \in named, NEW j \in named, rows[i].id = rows[j].id PROVE i = j
  BY <1>1, <1>4, <1>5, <1>8 DEF NodesInv, Distinct
<1> QED BY <1>6, <1>7, <1>8 DEF NodesAreListed, named, reported, rows

\* The node list has one row for each node, those of the last report as they are there, and
\* after them, dimmed, nodes that it does not name, whatever was merged before.
THEOREM ConsoleListsNodes == Spec => []NodesAreListed
BY NodesHold, ListedFollows, PTL

\* The alerts of such a view are true of the report.
LEMMA AlertsFollow == ASSUME TypeOK, NodesInv PROVE AlertsAreCurrent
<1>1. ui \in States /\ ui.info \in Info
  BY Before DEF States
<1>2. ASSUME last # <<>> PROVE last[1] \in Report
  <2>1. last \in Seq(Report)
    BY DEF TypeOK
  <2> QED BY <1>2, <2>1, EmptySeq
<1>3. ASSUME "error" \in JoinAlerts(ui)
      PROVE  /\ last # <<>> /\ last[1].model # NoModel /\ last[1].status = "waiting"
             /\ Len(last[1].nodes) >= last[1].init
             /\ \A i \in DOMAIN last[1].nodes : last[1].nodes[i].status = "available"
             /\ \A i \in DOMAIN Rows(ui) : Rows(ui)[i].up
  <2> DEFINE s == last[1]
  <2>1. IsError(ui)
    BY <1>3 DEF JoinAlerts
  <2>2. last # <<>>
    <3>1. ASSUME last = <<>> PROVE FALSE
      <4>1. Len(ui.nodes) = 0 /\ ui.info.init >= 1
        BY <2>1, <3>1 DEF IsError, NodesInv
      <4> QED BY <2>1, <4>1, <1>1 DEF IsError, Info
    <3> QED BY <3>1
  <2>3. s \in Report /\ ui.info = Told(s) /\ Extends(ui.nodes, s.nodes)
    BY <2>2, <1>2 DEF NodesInv
  <2> HIDE DEF s
  <2>4. s.model # NoModel /\ s.status = "waiting" /\ ui.info.init = s.init
    BY <2>1, <2>3 DEF IsError, Told
  <2>5. ui.nodes \in Seq(NodeInfo) /\ s.nodes \in Seq(NodeInfo)
    BY <1>1, <2>3 DEF States, Report, NodeLists
  <2>6. DOMAIN ui.nodes = DOMAIN s.nodes
    BY <2>1, <2>3, <2>5 DEF IsError, Extends
  <2>7. Len(ui.nodes) = Len(s.nodes)
    BY <2>5, <2>6
  <2>8. Len(s.nodes) >= s.init /\ \A i \in DOMAIN s.nodes : s.nodes[i].status = "available"
    BY <2>1, <2>3, <2>4, <2>6, <2>7 DEF IsError, Extends
  <2>9. \A i \in DOMAIN Rows(ui) : Rows(ui)[i].up
    <3>1. OpenPlaces(ui) = 0
      <4>1. s.init \in Nat /\ Len(s.nodes) \in Nat
        BY <2>3, <2>5 DEF Report
      <4> QED BY <2>4, <2>7, <2>8, <4>1 DEF OpenPlaces
    <3>2. DOMAIN Rows(ui) = DOMAIN ui.nodes
      BY <1>1, <3>1, RowsOfNodes
    <3>3. \A i \in DOMAIN ui.nodes : Rows(ui)[i] = Row(ui.nodes[i])
      BY <1>1, RowsOfNodes
    <3>4. ASSUME NEW i \in DOMAIN ui.nodes PROVE Rows(ui)[i].up
      <4>1. ui.nodes[i].status = "available"
        BY <2>1 DEF IsError
      <4>2. Row(ui.nodes[i]).up
        BY <4>1 DEF Row
      <4> QED BY <3>3, <4>2
    <3> QED BY <3>2, <3>4
  <2> QED BY <2>2, <2>4, <2>8, <2>9 DEF s
<1>4. ASSUME "more" \in JoinAlerts(ui) PROVE last # <<>> /\ last[1].more
  <2>1. ui.info.more
    BY <1>4 DEF JoinAlerts
  <2>2. last # <<>>
    BY <2>1 DEF NodesInv
  <2> QED BY <2>1, <2>2 DEF NodesInv, Told
<1> QED BY <1>3, <1>4 DEF AlertsAreCurrent

\* The alerts of the join page are true of the last report, never of an earlier cluster, a
\* lost connection or vanished workers.
THEOREM ConsoleAlerts == Spec => []AlertsAreCurrent
BY NodesHold, AlertsFollow, PTL
=============================================================================
