-------------------------- MODULE TS3ChannelsProofs --------------------------
(***************************************************************************)
(* The tables of TS3Channels stay consistent under any sequence of calls,   *)
(* and implement the forest of ChannelForest, for every set of channels and *)
(* of texts.                                                                *)
(***************************************************************************)
EXTENDS TS3Channels, ChannelDbProofs, FiniteSetTheorems

(***************************************************************************)
(* Every state the class can bring its tables into satisfies DbInv: the     *)
(* closure table is the ancestor relation, with true depths, of a forest    *)
(* over the loaded channels, and no frequency outlives its channel.         *)
(***************************************************************************)
THEOREM TablesStayConsistent == Spec => []TablesConsistent
  <1>1. Init => TablesConsistent
    BY InitKeepsTables DEF Init, EmptyDb, TablesConsistent
  <1>2. TablesConsistent /\ [Next]_db => TablesConsistent'
    <2>. SUFFICES ASSUME TablesConsistent, [Next]_db PROVE TablesConsistent'
      OBVIOUS
    <2>1. ASSUME NEW ch \in Channel, NEW parent \in Node \ {ch}, NEW facts \in Facts,
                 addOrUpdateChannel(ch, parent, facts)
          PROVE  TablesConsistent'
      BY <2>1, AddKeepsTables DEF addOrUpdateChannel, TablesConsistent
    <2>2. ASSUME NEW ch \in Channel, deleteChannel(ch) PROVE TablesConsistent'
      BY <2>2, DeleteKeepsTables DEF deleteChannel, TablesConsistent
    <2>3. CASE deleteAllChannels
      BY <2>3, InitKeepsTables DEF deleteAllChannels, EmptyDb, TablesConsistent
    <2>4. CASE UNCHANGED db
      BY <2>4 DEF TablesConsistent
    <2>. QED
      BY <2>1, <2>2, <2>3, <2>4 DEF Next
  <1>. QED
    BY <1>1, <1>2, PTL DEF Spec

(***************************************************************************)
(* In every state a load takes effect: the insert meets no key deleteChannel *)
(* left behind, so the channel is there with the data of the call and below *)
(* its parent, whatever was loaded, moved or deleted before.                *)
(***************************************************************************)
THEOREM EveryLoadTakesEffect == Spec => []LoadTakesEffect
  <1>1. TablesConsistent => LoadTakesEffect
    <2>. SUFFICES ASSUME DbInv(db), NEW ch \in Channel, NEW parent \in Node \ {ch},
                         NEW facts \in Facts
                  PROVE  LET next == AddOrUpdateChannel(db, ch, parent, facts)
                         IN  /\ ch \in Loaded(next)
                             /\ next.channels[ch] = [parent |-> parent,
                                  range |-> facts.range, place |-> facts.place]
                             /\ {<<r[2], r[3]>> :
                                   r \in {x \in next.channelFrequency : x[1] = ch}}
                                  = facts.rows
                             /\ parent \in Loaded(next)
                                  => <<parent, ch, 1>> \in next.closure
      BY DEF TablesConsistent, LoadTakesEffect
    <2>. DEFINE C == DeleteChannel(db, ch)
                E == AddOrUpdateChannel(db, ch, parent, facts)
    <2>1. DbInv(C) /\ ch \notin Loaded(C)
      BY DeleteKeepsTables
    <2>2. E = Inserted(C, ch, parent, facts)
      BY LoadedTables
    <2>3. /\ ch \in Loaded(E)
          /\ E.channels[ch] = [parent |-> parent, range |-> facts.range,
                               place |-> facts.place]
      BY AddKeepsTables
    <2>4. {<<r[2], r[3]>> : r \in {x \in E.channelFrequency : x[1] = ch}} = facts.rows
      <3>1. facts.rows \subseteq Nat \X BOOLEAN
        BY TablesAssumption
      <3>2. \A f \in facts.rows : f = <<f[1], f[2]>>
        BY <3>1
      <3>. QED
        BY <2>1, <2>2, <3>2, LoadedRows
    <2>5. ASSUME parent \in Loaded(E) PROVE <<parent, ch, 1>> \in E.closure
      <3>1. parent \in Loaded(C)
        BY <2>2, <2>5 DEF Inserted, Loaded
      <3>2. <<parent, parent, 0>> \in C.closure
        BY <2>1, <3>1 DEF DbInv, SelfRows
      <3>3. <<parent, ch, 0 + 1>> \in LinksBelow(C.closure, parent, ch)
        BY <3>2 DEF LinksBelow
      <3>. QED
        BY <2>2, <3>3 DEF Inserted
    <2>. HIDE DEF E
    <2>. QED
      BY <2>3, <2>4, <2>5 DEF E
  <1>. QED
    BY <1>1, TablesStayConsistent, PTL

-----------------------------------------------------------------------------
(***************************************************************************)
(* A set of naturals that is not empty has a least element: the intervals   *)
(* up to its elements are finite sets, which cannot shrink for ever.        *)
(***************************************************************************)
LEMMA LeastNatural ==
    ASSUME NEW S, S \subseteq Nat, S # {}
    PROVE  \E m \in S : \A n \in S : m <= n
<1>. DEFINE T == {0 .. n : n \in S}
            R == StrictSubsetOrdering(Nat)
<1>1. T \subseteq FiniteSubsetsOf(Nat)
  <2>1. ASSUME NEW n \in S PROVE IsFiniteSet(0 .. n) /\ 0 .. n \subseteq Nat
    <3>1. n \in Int /\ 0 \in Int
      OBVIOUS
    <3>. QED
      BY <3>1, FS_Interval
  <2>. QED
    BY <2>1 DEF FiniteSubsetsOf
<1>2. IsWellFoundedOn(R, FiniteSubsetsOf(Nat))
  BY FS_StrictSubsetOrderingWellFounded
<1>3. T # {}
  OBVIOUS
<1>. HIDE DEF R, T
<1>4. PICK x \in T : \A y \in T : ~ (<<y, x>> \in R)
  BY <1>1, <1>2, <1>3, WFMin
<1>5. PICK m \in S : x = 0 .. m
  BY <1>4 DEF T
<1>6. ASSUME NEW n \in S, n < m PROVE FALSE
  <2>1. 0 .. n \in T
    BY DEF T
  <2>2. 0 .. n \subseteq Nat /\ 0 .. m \subseteq Nat /\ 0 .. n \subseteq 0 .. m
    BY <1>6
  <2>3. 0 .. n # 0 .. m
    BY <1>6
  <2>4. <<0 .. n, 0 .. m>> \in R
    BY <2>2, <2>3 DEF R, StrictSubsetOrdering
  <2>. QED
    BY <1>4, <1>5, <2>1, <2>4
<1>. QED
  BY <1>6

\* What holds at 0 and climbs one step at a time up to N holds at every level up to N.
LEMMA Climb ==
    ASSUME NEW N \in Nat, NEW P, 0 \in P,
           \A k \in 0 .. N : k \in P /\ k + 1 <= N => k + 1 \in P
    PROVE  0 .. N \subseteq P
<1>. DEFINE S == {k \in 0 .. N : k \notin P}
<1>. SUFFICES ASSUME S # {} PROVE FALSE
  OBVIOUS
<1>1. PICK m \in S : \A n \in S : m <= n
  <2>1. S \subseteq Nat
    OBVIOUS
  <2>. QED
    BY <2>1, LeastNatural
<1>2. m \in Nat /\ m # 0 /\ m <= N /\ m \notin P
  BY <1>1
<1>3. m - 1 \in 0 .. N /\ (m - 1) + 1 = m
  BY <1>2
<1>4. m - 1 \in P
  BY <1>1, <1>3
<1>. QED
  BY <1>2, <1>3, <1>4

-----------------------------------------------------------------------------
\* A channel has one ancestor at each depth,
LEMMA SameAncestor ==
    ASSUME NEW D, DbInv(D), NEW r \in D.closure, NEW s \in D.closure,
           r[2] = s[2], r[3] = s[3]
    PROVE  r[1] = s[1]
<1>1. r[3] \in Nat /\ s[3] \in Nat
  BY RowShape
<1>2. <<r[1], s[1], r[3] - s[3]>> \in D.closure
  BY <1>1 DEF DbInv, OnePath
<1>3. r[3] - s[3] = 0
  BY <1>1
<1>. QED
  BY <1>2, <1>3 DEF DbInv, SelfRows

\* and each ancestor at one depth.
LEMMA SameDepth ==
    ASSUME NEW D, DbInv(D), NEW r \in D.closure, NEW s \in D.closure,
           r[1] = s[1], r[2] = s[2]
    PROVE  r[3] = s[3]
<1>1. r[3] \in Nat /\ s[3] \in Nat
  BY RowShape
<1>2. CASE r[3] >= s[3]
  <2>1. <<r[1], s[1], r[3] - s[3]>> \in D.closure
    BY <1>2 DEF DbInv, OnePath
  <2>. QED
    BY <1>1, <2>1 DEF DbInv, SelfRows
<1>3. CASE s[3] >= r[3]
  <2>1. <<s[1], r[1], s[3] - r[3]>> \in D.closure
    BY <1>3 DEF DbInv, OnePath
  <2>. QED
    BY <1>1, <2>1 DEF DbInv, SelfRows
<1>. QED
  BY <1>1, <1>2, <1>3

\* Every level between a channel and what is above it has a row.
LEMMA NoGaps ==
    ASSUME NEW D, DbInv(D), NEW r \in D.closure, NEW k \in 0 .. r[3]
    PROVE  \E b \in Loaded(D) : <<b, r[2], k>> \in D.closure
<1>. DEFINE c == r[2]
            P == {j \in 0 .. r[3] : \E b \in Loaded(D) : <<b, c, j>> \in D.closure}
<1>1. r[3] \in Nat /\ c \in Loaded(D)
  BY RowShape
<1>2. 0 \in P
  BY <1>1 DEF DbInv, SelfRows
<1>3. ASSUME NEW j \in 0 .. r[3], j \in P, j + 1 <= r[3] PROVE j + 1 \in P
  <2>1. PICK b \in Loaded(D) : <<b, c, j>> \in D.closure
    BY <1>3
  <2>. DEFINE s == <<b, c, j>>
  <2>2. <<r[1], s[1], r[3] - s[3]>> \in D.closure
    BY <1>1, <1>3, <2>1 DEF DbInv, OnePath
  <2>3. r[3] - j > 0
    BY <1>1, <1>3
  <2>. DEFINE t == <<r[1], b, r[3] - j>>
  <2>4. t \in D.closure /\ t[3] > 0
    BY <2>2, <2>3
  <2>. DEFINE p == D.channels[b].parent
              u == <<p, b, 1>>
  <2>5. u \in D.closure
    BY <2>4 DEF DbInv, LinkedUp
  <2>6. <<u[1], s[2], u[3] + s[3]>> \in D.closure
    BY <2>1, <2>5 DEF DbInv, Composes
  <2>7. <<p, c, j + 1>> \in D.closure /\ p \in Loaded(D)
    <3>1. 1 + j = j + 1
      BY <1>1, <1>3
    <3>2. <<p, c, j + 1>> \in D.closure
      BY <2>6, <3>1
    <3>. QED
      BY <2>5, <3>2, RowShape
  <2>8. j + 1 \in 0 .. r[3]
    BY <1>1, <1>3
  <2>. QED
    BY <2>7, <2>8
<1>. HIDE DEF P
<1>4. 0 .. r[3] \subseteq P
  BY <1>1, <1>2, <1>3, Climb
<1>. QED
  BY <1>4 DEF P

LEMMA LoadedFinite ==
    ASSUME NEW D, DbInv(D)
    PROVE  /\ IsFiniteSet(Node) /\ IsFiniteSet(Loaded(D))
           /\ Cardinality(Node) \in Nat /\ Cardinality(Loaded(D)) \in Nat
           /\ Cardinality(Loaded(D)) <= Cardinality(Node)
<1>1. IsFiniteSet(Node)
  BY TablesAssumption, FS_AddElement DEF Node
<1>. QED
  BY <1>1, FS_Subset, FS_CardinalityType DEF DbInv, DbType

\* The levels above a channel are fewer than the loaded channels, so than the nodes.
LEMMA DepthBound ==
    ASSUME NEW D, DbInv(D), NEW r \in D.closure
    PROVE  /\ r[3] \in 0 .. Cardinality(Loaded(D))
           /\ r[3] \in 0 .. Cardinality(Node)
<1>. DEFINE c == r[2]
            f == [k \in 0 .. r[3] |-> CHOOSE b \in Loaded(D) : <<b, c, k>> \in D.closure]
<1>1. r[3] \in Nat
  BY RowShape
<1>2. \A k \in 0 .. r[3] : f[k] \in Loaded(D) /\ <<f[k], c, k>> \in D.closure
  BY <1>1, NoGaps
<1>. HIDE DEF f
<1>3. ASSUME NEW j \in 0 .. r[3], NEW k \in 0 .. r[3], f[j] = f[k] PROVE j = k
  <2>. DEFINE s == <<f[j], c, j>>
              t == <<f[k], c, k>>
  <2>1. s \in D.closure /\ t \in D.closure /\ s[1] = t[1] /\ s[2] = t[2]
    BY <1>2, <1>3
  <2>2. s[3] = t[3]
    BY <2>1, SameDepth
  <2>. QED
    BY <2>2
<1>4. f \in Injection(0 .. r[3], Loaded(D))
  <2>1. f \in [0 .. r[3] -> Loaded(D)]
    BY <1>2 DEF f
  <2>. QED
    BY <1>3, <2>1 DEF Injection, IsInjective
<1>5. Cardinality(0 .. r[3]) = r[3] + 1
  BY <1>1, FS_Interval
<1>6. Cardinality(0 .. r[3]) <= Cardinality(Loaded(D))
  BY <1>4, LoadedFinite, FS_Injection
<1>. QED
  BY <1>1, <1>5, <1>6, LoadedFinite

-----------------------------------------------------------------------------
\* The ancestor the closure table has k levels above c.
AncestorAt(D, c, k) ==
    IF \E a \in Node : <<a, c, k>> \in D.closure
    THEN CHOOSE a \in Node : <<a, c, k>> \in D.closure
    ELSE NoLink

\* The forest of links the tables hold.
Links(D) == [c \in Loaded(D) |-> AncestorAt(D, c, 1)]

\* AncestorAt reads the rows: the one there is,
LEMMA AncestorOfRow ==
    ASSUME NEW D, DbInv(D), NEW a, NEW c, NEW k, <<a, c, k>> \in D.closure
    PROVE  AncestorAt(D, c, k) = a
<1>1. a \in Node
  BY RowShape DEF DbInv, DbType
<1>2. ASSUME NEW b \in Node, <<b, c, k>> \in D.closure PROVE b = a
  <2>. DEFINE s == <<a, c, k>>
              t == <<b, c, k>>
  <2>1. s[1] = t[1]
    BY <1>2, SameAncestor
  <2>. QED
    BY <2>1
<1>. QED
  BY <1>1, <1>2 DEF AncestorAt

\* and nothing but a row.
LEMMA NoRowNoAncestor ==
    ASSUME NEW D, NEW c, NEW k
    PROVE  /\ AncestorAt(D, c, k) # NoLink => <<AncestorAt(D, c, k), c, k>> \in D.closure
           /\ AncestorAt(D, c, k) \in Node => <<AncestorAt(D, c, k), c, k>> \in D.closure
  BY TablesAssumption DEF AncestorAt

\* The recursive function of Up is the one that satisfies its equation.
LEMMA UpUnfolds ==
    ASSUME NEW l, NEW c
    PROVE  Forest!Up(l, c)
             = CHOOSE f : f = [k \in 0 .. Cardinality(Node) |->
                                  IF k = 0 THEN c
                                  ELSE IF f[k - 1] \in DOMAIN l THEN l[f[k - 1]] ELSE NoLink]
  BY DEF Forest!Up, Forest!Node, Node, Forest!Cardinality, Cardinality

\* One step up the links is one level more of the rows.
LEMMA UpOne ==
    ASSUME NEW D, DbInv(D), NEW c \in Loaded(D), NEW k \in Nat, k # 0
    PROVE  AncestorAt(D, c, k)
             = IF AncestorAt(D, c, k - 1) \in Loaded(D)
               THEN Links(D)[AncestorAt(D, c, k - 1)] ELSE NoLink
<1>. DEFINE b == AncestorAt(D, c, k - 1)
<1>1. Loaded(D) \subseteq Node
  BY DEF DbInv, DbType
<1>2. ASSUME NEW a, <<a, c, k>> \in D.closure
      PROVE  b \in Loaded(D) /\ <<a, b, 1>> \in D.closure
  <2>. DEFINE r == <<a, c, k>>
  <2>1. PICK x \in Loaded(D) : <<x, c, k - 1>> \in D.closure
    <3>1. k - 1 \in 0 .. r[3]
      OBVIOUS
    <3>. QED
      BY <1>2, <3>1, NoGaps
  <2>2. b = x
    BY <2>1, AncestorOfRow
  <2>. DEFINE s == <<x, c, k - 1>>
  <2>3. <<r[1], s[1], r[3] - s[3]>> \in D.closure
    BY <1>2, <2>1 DEF DbInv, OnePath
  <2>4. r[3] - s[3] = 1
    OBVIOUS
  <2>. QED
    BY <2>1, <2>2, <2>3, <2>4
<1>3. ASSUME NEW a, b \in Loaded(D), <<a, b, 1>> \in D.closure
      PROVE  <<a, c, k>> \in D.closure
  <2>. DEFINE r == <<a, b, 1>>
              s == <<b, c, k - 1>>
  <2>1. s \in D.closure
    BY <1>1, <1>3, NoRowNoAncestor
  <2>2. <<r[1], s[2], r[3] + s[3]>> \in D.closure
    BY <1>3, <2>1 DEF DbInv, Composes
  <2>3. r[3] + s[3] = k
    OBVIOUS
  <2>. QED
    BY <2>2, <2>3
<1>. HIDE DEF b
<1>4. CASE AncestorAt(D, c, k) = NoLink
  <2>1. ASSUME b \in Loaded(D) PROVE AncestorAt(D, b, 1) = NoLink
    <3>. SUFFICES ASSUME AncestorAt(D, b, 1) # NoLink PROVE FALSE
      OBVIOUS
    <3>. DEFINE a == AncestorAt(D, b, 1)
    <3>1. <<a, b, 1>> \in D.closure
      BY NoRowNoAncestor
    <3>2. <<a, c, k>> \in D.closure
      BY <1>3, <2>1, <3>1
    <3>3. a = NoLink
      BY <1>4, <3>2, AncestorOfRow
    <3>. QED
      BY <3>3
  <2>. QED
    BY <1>4, <2>1 DEF Links, b
<1>5. CASE AncestorAt(D, c, k) # NoLink
  <2>. DEFINE a == AncestorAt(D, c, k)
  <2>1. <<a, c, k>> \in D.closure
    BY <1>5, NoRowNoAncestor
  <2>2. b \in Loaded(D) /\ <<a, b, 1>> \in D.closure
    BY <1>2, <2>1
  <2>3. AncestorAt(D, b, 1) = a
    BY <2>2, AncestorOfRow
  <2>. QED
    BY <2>2, <2>3 DEF Links, b
<1>. QED
  BY <1>4, <1>5

\* Following the links upwards visits the ancestors the closure table has, level by level.
LEMMA UpIsAncestor ==
    ASSUME NEW D, DbInv(D), NEW c \in Loaded(D)
    PROVE  Forest!Up(Links(D), c) = [k \in 0 .. Cardinality(Node) |-> AncestorAt(D, c, k)]
<1>. DEFINE N == Cardinality(Node)
            l == Links(D)
            Step(f) == [k \in 0 .. N |->
                           IF k = 0 THEN c
                           ELSE IF f[k - 1] \in DOMAIN l THEN l[f[k - 1]] ELSE NoLink]
            g == [k \in 0 .. N |-> AncestorAt(D, c, k)]
            f == CHOOSE x : x = Step(x)
<1>1. N \in Nat
  BY TablesAssumption, FS_AddElement, FS_CardinalityType DEF Node
<1>2. DOMAIN l = Loaded(D)
  BY DEF Links
<1>3. AncestorAt(D, c, 0) = c
  <2>1. <<c, c, 0>> \in D.closure
    BY DEF DbInv, SelfRows
  <2>. QED
    BY <2>1, AncestorOfRow
<1>. HIDE DEF N, l
<1>4. g = Step(g)
  <2>1. ASSUME NEW k \in 0 .. N, k # 0
        PROVE  g[k] = IF g[k - 1] \in DOMAIN l THEN l[g[k - 1]] ELSE NoLink
    <3>1. k \in Nat /\ k - 1 \in 0 .. N
      BY <1>1, <2>1
    <3>2. g[k - 1] = AncestorAt(D, c, k - 1) /\ g[k] = AncestorAt(D, c, k)
      BY <3>1
    <3>. QED
      BY <1>2, <2>1, <3>1, <3>2, UpOne DEF l
  <2>2. \A k \in 0 .. N : g[k] = Step(g)[k]
    BY <1>3, <2>1
  <2>. QED
    BY <2>2
<1>5. f = Step(f)
  BY <1>4
<1>6. Forest!Up(Links(D), c) = f
  BY UpUnfolds DEF N, l
<1>. HIDE DEF f, g
<1>7. 0 .. N \subseteq {k \in 0 .. N : f[k] = g[k]}
  <2>. DEFINE P == {k \in 0 .. N : f[k] = g[k]}
  <2>1. f[0] = c /\ g[0] = c /\ 0 \in 0 .. N
    BY <1>1, <1>3, <1>5 DEF g
  <2>2. 0 \in P
    BY <2>1
  <2>3. ASSUME NEW k \in 0 .. N, k \in P, k + 1 <= N PROVE k + 1 \in P
    <3>1. k + 1 \in 0 .. N /\ k + 1 # 0 /\ (k + 1) - 1 = k /\ f[k] = g[k]
      BY <1>1, <2>3
    <3>2. f[k + 1] = IF f[k] \in DOMAIN l THEN l[f[k]] ELSE NoLink
      BY <1>5, <3>1
    <3>3. g[k + 1] = IF g[k] \in DOMAIN l THEN l[g[k]] ELSE NoLink
      BY <1>4, <3>1
    <3>. QED
      BY <3>1, <3>2, <3>3
  <2>. HIDE DEF P
  <2>4. 0 .. N \subseteq P
    BY <1>1, <2>2, <2>3, Climb
  <2>. QED
    BY <2>4 DEF P
<1>8. f = [k \in 0 .. N |-> f[k]] /\ g = [k \in 0 .. N |-> g[k]]
  BY <1>4, <1>5
<1>9. f = g
  BY <1>7, <1>8
<1>. QED
  BY <1>6, <1>9 DEF g, N

\* Being above, in the forest of links, is having a row in the closure table.
LEMMA AboveIsRow ==
    ASSUME NEW D, DbInv(D), NEW c \in Loaded(D), NEW a \in Node
    PROVE  /\ DOMAIN Forest!Up(Links(D), c) = 0 .. Cardinality(Node)
           /\ \A k \in 0 .. Cardinality(Node) :
                 Forest!Up(Links(D), c)[k] = a <=> <<a, c, k>> \in D.closure
           /\ Forest!IsAbove(Links(D), a, c) <=> c \in Branch(D.closure, a)
<1>. DEFINE up == Forest!Up(Links(D), c)
            N == Cardinality(Node)
<1>1. up = [k \in 0 .. N |-> AncestorAt(D, c, k)]
  BY UpIsAncestor
<1>. HIDE DEF up, N
<1>2. DOMAIN up = 0 .. N
  BY <1>1
<1>3. ASSUME NEW k \in 0 .. N PROVE up[k] = a <=> <<a, c, k>> \in D.closure
  <2>1. up[k] = AncestorAt(D, c, k)
    BY <1>1
  <2>. QED
    BY <2>1, NoRowNoAncestor, AncestorOfRow
<1>4. Forest!IsAbove(Links(D), a, c) <=> \E k \in 0 .. N : up[k] = a
  BY <1>2 DEF Forest!IsAbove, up
<1>5. ASSUME NEW r \in D.closure, r[1] = a, r[2] = c
      PROVE  r[3] \in 0 .. N /\ <<a, c, r[3]>> \in D.closure
  <2>1. r = <<r[1], r[2], r[3]>>
    BY RowShape
  <2>. QED
    BY <1>5, <2>1, DepthBound DEF N
<1>6. ASSUME NEW k \in 0 .. N, <<a, c, k>> \in D.closure
      PROVE  \E r \in D.closure : r[1] = a /\ r[2] = c
  BY <1>6
<1>7. c \in Branch(D.closure, a) <=> \E r \in D.closure : r[1] = a /\ r[2] = c
  BY DEF Branch
<1>. QED
  BY <1>2, <1>3, <1>4, <1>5, <1>6, <1>7 DEF up, N

\* The depth column is the number of links between the two channels.
LEMMA DepthOfRow ==
    ASSUME NEW D, DbInv(D), NEW r \in D.closure
    PROVE  Forest!Depth(Links(D), r[1], r[2]) = r[3]
<1>. DEFINE a == r[1]
            c == r[2]
            up == Forest!Up(Links(D), c)
            N == Cardinality(Node)
            First(k) == up[k] = a /\ \A j \in 0 .. (k - 1) : up[j] # a
<1>1. /\ r = <<a, c, r[3]>> /\ c \in Loaded(D) /\ a \in Node /\ r[3] \in 0 .. N
  BY RowShape, DepthBound DEF DbInv, DbType
<1>. HIDE DEF a, c
<1>2. DOMAIN up = 0 .. N /\ \A k \in 0 .. N : up[k] = a <=> <<a, c, k>> \in D.closure
  BY <1>1, AboveIsRow
<1>3. ASSUME NEW k \in 0 .. N, up[k] = a PROVE k = r[3]
  <2>. DEFINE s == <<a, c, k>>
  <2>1. s \in D.closure /\ s[1] = r[1] /\ s[2] = r[2]
    BY <1>1, <1>2, <1>3 DEF a, c
  <2>2. s[3] = r[3]
    BY <2>1, SameDepth
  <2>. QED
    BY <2>2
<1>. HIDE DEF up, N
<1>4. up[r[3]] = a
  BY <1>1, <1>2
<1>5. First(r[3])
  <2>1. ASSUME NEW j \in 0 .. (r[3] - 1), up[j] = a PROVE FALSE
    <3>1. j \in 0 .. N /\ j # r[3]
      <4>1. r[3] <= N /\ r[3] \in Nat /\ N \in Int
        BY <1>1, FS_CardinalityType, FS_AddElement, TablesAssumption DEF N, Node
      <4>. QED
        BY <2>1, <4>1
    <3>. QED
      BY <1>3, <2>1, <3>1
  <2>. QED
    BY <1>4, <2>1
<1>6. Forest!Depth(Links(D), a, c) = CHOOSE k \in 0 .. N : First(k)
  BY <1>2 DEF Forest!Depth, up
<1>7. \A k \in 0 .. N : First(k) => k = r[3]
  BY <1>3
<1>. HIDE DEF First
<1>. QED
  BY <1>1, <1>5, <1>6, <1>7 DEF a, c

\* What deleteChannel calls the branch of a channel is what lies below it in the forest.
LEMMA BelowIsBranch ==
    ASSUME NEW D, DbInv(D), NEW a \in Node
    PROVE  Forest!Below(Links(D), a) = Branch(D.closure, a)
<1>1. DOMAIN Links(D) = Loaded(D)
  BY DEF Links
<1>2. Forest!Below(Links(D), a) = {c \in Loaded(D) : Forest!IsAbove(Links(D), a, c)}
  BY <1>1 DEF Forest!Below
<1>3. \A c \in Loaded(D) : Forest!IsAbove(Links(D), a, c) <=> c \in Branch(D.closure, a)
  BY AboveIsRow
<1>4. Branch(D.closure, a) \subseteq Loaded(D)
  BY RowShape DEF Branch
<1>. QED
  BY <1>2, <1>3, <1>4

-----------------------------------------------------------------------------
\* deleteChannel takes the channel and everything below it out of the forest and leaves
\* the other links alone.
LEMMA DeleteImplementsRemove ==
    ASSUME NEW D, DbInv(D), NEW d \in Channel
    PROVE  Links(DeleteChannel(D, d)) = Forest!Without(Links(D), d)
<1>. DEFINE E == DeleteChannel(D, d)
            B == Branch(D.closure, d)
<1>1. E.closure = {r \in D.closure : r[2] \notin B} /\ Loaded(E) = Loaded(D) \ B
  BY DeletedRows DEF DeleteChannel, Loaded
<1>2. Forest!Below(Links(D), d) = B /\ DOMAIN Links(D) = Loaded(D)
  BY BelowIsBranch DEF Links, Node
<1>. HIDE DEF E, B
<1>3. Forest!Without(Links(D), d) = [c \in Loaded(D) \ B |-> Links(D)[c]]
  BY <1>2 DEF Forest!Without
<1>4. ASSUME NEW c \in Loaded(D) \ B PROVE AncestorAt(E, c, 1) = Links(D)[c]
  <2>1. \A a : <<a, c, 1>> \in E.closure <=> <<a, c, 1>> \in D.closure
    BY <1>1
  <2>. QED
    BY <2>1, Zenon DEF AncestorAt, Links
<1>. QED
  BY <1>1, <1>3, <1>4 DEF Links, E

\* The insert adds one link, to the parent if that is loaded.
LEMMA InsertImplementsWith ==
    ASSUME NEW C, DbInv(C), NEW ch \in Channel, ch \notin Loaded(C),
           NEW parent \in Node, parent # ch, NEW facts
    PROVE  Links(Inserted(C, ch, parent, facts)) = Forest!With(Links(C), ch, parent)
<1>. DEFINE E == Inserted(C, ch, parent, facts)
<1>1. /\ Loaded(E) = Loaded(C) \cup {ch}
      /\ E.closure = C.closure \cup {SelfRow(ch)} \cup LinksBelow(C.closure, parent, ch)
  BY DEF Inserted, Loaded
<1>. HIDE DEF E
<1>2. DOMAIN Links(C) = Loaded(C)
  BY DEF Links
<1>3. ASSUME NEW c \in Loaded(C) PROVE AncestorAt(E, c, 1) = Links(C)[c]
  <2>1. c # ch
    OBVIOUS
  <2>2. ASSUME NEW a PROVE <<a, c, 1>> \in E.closure <=> <<a, c, 1>> \in C.closure
    BY <1>1, <2>1 DEF SelfRow, LinksBelow
  <2>. QED
    BY <2>2, Zenon DEF AncestorAt, Links
<1>4. AncestorAt(E, ch, 1) = IF parent \in Loaded(C) THEN parent ELSE NoLink
  <2>1. ASSUME NEW a, <<a, ch, 1>> \in E.closure PROVE a = parent /\ parent \in Loaded(C)
    <3>1. \A r \in C.closure : r[2] # ch
      BY RowShape
    <3>2. <<a, ch, 1>> \in LinksBelow(C.closure, parent, ch)
      BY <1>1, <2>1, <3>1 DEF SelfRow
    <3>3. PICK p \in C.closure : p[2] = parent /\ <<a, ch, 1>> = <<p[1], ch, p[3] + 1>>
      BY <3>2 DEF LinksBelow
    <3>4. p[3] = 0 /\ p[1] = a /\ p[2] \in Loaded(C)
      BY <3>3, RowShape
    <3>. QED
      BY <3>3, <3>4 DEF DbInv, SelfRows
  <2>2. ASSUME parent \in Loaded(C) PROVE <<parent, ch, 1>> \in E.closure
    <3>1. <<parent, parent, 0>> \in C.closure
      BY <2>2 DEF DbInv, SelfRows
    <3>2. <<parent, ch, 0 + 1>> \in LinksBelow(C.closure, parent, ch)
      BY <3>1 DEF LinksBelow
    <3>. QED
      BY <1>1, <3>2
  <2>. QED
    BY <2>1, <2>2 DEF AncestorAt
<1>5. Links(E) = [c \in Loaded(C) \cup {ch} |->
                     IF c # ch THEN Links(C)[c]
                     ELSE IF parent \in Loaded(C) THEN parent ELSE NoLink]
  BY <1>1, <1>3, <1>4 DEF Links
<1>. QED
  BY <1>2, <1>5 DEF Forest!With, E

\* The mapping of ImplementsForest is Links of the present tables.
LEMMA LinksAre == linkBar = Links(db)
  BY DEF linkBar, LinkOf, Links, AncestorAt

\* The tables initDatabase leaves are the empty forest.
LEMMA EmptyLinks == Links(EmptyDb) = Forest!EmptyForest
<1>1. Loaded(EmptyDb) = {CHANNEL_ROOT} /\ EmptyDb.closure = {<<CHANNEL_ROOT, CHANNEL_ROOT, 0>>}
  BY DEF EmptyDb, InitDatabase, Loaded
<1>2. AncestorAt(EmptyDb, CHANNEL_ROOT, 1) = NoLink
  BY <1>1 DEF AncestorAt
<1>. QED
  BY <1>1, <1>2 DEF Links, Forest!EmptyForest

(***************************************************************************)
(* The tables implement the forest of parent pointers: every call of a      *)
(* public operation is a Load, Remove or Forget of ChannelForest, or leaves *)
(* the forest alone.                                                        *)
(***************************************************************************)
THEOREM TablesImplementForest == Spec => ImplementsForest
<1>1. Init => Forest!Init
  BY LinksAre, EmptyLinks DEF Init, Forest!Init
<1>2. TablesConsistent /\ [Next]_db => [Forest!Next]_linkBar
  <2>. SUFFICES ASSUME DbInv(db), [Next]_db PROVE [Forest!Next]_linkBar
    BY DEF TablesConsistent
  <2>1. linkBar = Links(db) /\ linkBar' = Links(db')
    <3>1. linkBar' = Links(db')
      BY DEF linkBar, LinkOf, Links, AncestorAt, Loaded
    <3>. QED
      BY <3>1, LinksAre
  <2>2. ASSUME NEW ch \in Channel, NEW parent \in Node \ {ch}, NEW facts \in Facts,
               addOrUpdateChannel(ch, parent, facts)
        PROVE  Forest!Load(ch, parent)
    <3>. DEFINE C == DeleteChannel(db, ch)
    <3>1. DbInv(C) /\ ch \notin Loaded(C) /\ Links(C) = Forest!Without(Links(db), ch)
      BY DeleteKeepsTables, DeleteImplementsRemove
    <3>2. db' = Inserted(C, ch, parent, facts)
      BY <2>2, LoadedTables DEF addOrUpdateChannel
    <3>. HIDE DEF C
    <3>3. Links(db') = Forest!With(Links(C), ch, parent)
      BY <3>1, <3>2, InsertImplementsWith
    <3>. QED
      BY <2>1, <3>1, <3>3 DEF Forest!Load
  <2>3. ASSUME NEW ch \in Channel, deleteChannel(ch) PROVE Forest!Remove(ch)
    BY <2>1, <2>3, DeleteImplementsRemove DEF deleteChannel, Forest!Remove
  <2>4. CASE deleteAllChannels
    BY <2>1, <2>4, EmptyLinks DEF deleteAllChannels, Forest!Forget, Forest!Next
  <2>5. CASE UNCHANGED db
    BY <2>1, <2>5
  <2>. QED
    BY <2>2, <2>3, <2>4, <2>5 DEF Next, Forest!Next, Forest!Node, Node
<1>. QED
  BY <1>1, <1>2, TablesStayConsistent, PTL DEF Spec, ImplementsForest, Forest!Spec
=============================================================================
