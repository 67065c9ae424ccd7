-------------------------- MODULE ChannelListProofs --------------------------
(***************************************************************************)
(* What getChannelList returns, for every set of channels: the query builds *)
(* each channel's path of places from the root of the list down, and orders *)
(* the channels by it, which is the order of the tree.                      *)
(***************************************************************************)
EXTENDS ChannelList, TS3ChannelsProofs

-----------------------------------------------------------------------------
\* The order of paths.  It is what PathBefore compares, and it is total.

\* What PathBefore says of the rows of two paths.
PathLess(s, t) ==
    \/ IsStrictPrefix(s, t)
    \/ \E k \in DOMAIN s \cap DOMAIN t :
          /\ s[k] < t[k]
          /\ \A i \in 1 .. k - 1 : s[i] = t[i]

\* Sequences are what their elements are.
LEMMA SameSeq ==
    ASSUME NEW s \in Seq(Nat), NEW t \in Seq(Nat), Len(s) = Len(t),
           \A i \in 1 .. Len(s) : s[i] = t[i]
    PROVE  s = t
<1>1. /\ s = [i \in 1 .. Len(s) |-> s[i]]
      /\ t = [i \in 1 .. Len(t) |-> t[i]]
  OBVIOUS
<1>. QED
  BY <1>1

\* A prefix agrees as far as it goes.
LEMMA PrefixAgrees ==
    ASSUME NEW s \in Seq(Nat), NEW t \in Seq(Nat)
    PROVE  IsStrictPrefix(s, t)
             <=> Len(s) < Len(t) /\ \A i \in 1 .. Len(s) : s[i] = t[i]
<1>. DEFINE Agree == \A i \in 1 .. Len(s) : s[i] = t[i]
<1>1. /\ Len(s) \in Nat /\ Len(t) \in Nat
      /\ DOMAIN s = 1 .. Len(s) /\ DOMAIN t = 1 .. Len(t)
  OBVIOUS
<1>2. ASSUME Len(s) <= Len(t)
      PROVE  SubSeq(s, 1, Len(s)) = SubSeq(t, 1, Len(s)) <=> Agree
  <2>1. /\ SubSeq(s, 1, Len(s)) = [i \in 1 .. Len(s) |-> s[i]]
        /\ SubSeq(t, 1, Len(s)) = [i \in 1 .. Len(s) |-> t[i]]
    BY <1>1, <1>2
  <2>. QED
    BY <2>1
<1>3. ASSUME Len(s) = Len(t), Agree PROVE s = t
  BY <1>3, SameSeq
<1>4. s = t => Len(s) = Len(t)
  OBVIOUS
<1>5. IsStrictPrefix(s, t) <=> Len(s) <= Len(t) /\ Agree /\ s # t
  BY <1>2, SMTT(30) DEF IsStrictPrefix, IsPrefix
<1>. HIDE DEF Agree
<1>6. ASSUME NEW m \in Nat, NEW n \in Nat PROVE m < n <=> m <= n /\ m # n
  OBVIOUS
<1>7. IsStrictPrefix(s, t) <=> Len(s) < Len(t) /\ Agree
  BY <1>1, <1>3, <1>4, <1>5, <1>6
<1>. QED
  BY <1>7 DEF Agree

\* No path comes before itself.
LEMMA LessIrreflexive ==
    ASSUME NEW s \in Seq(Nat)
    PROVE  ~ PathLess(s, s)
<1>1. \A k \in DOMAIN s : s[k] \in Nat
  OBVIOUS
<1>. QED
  BY <1>1 DEF PathLess, IsStrictPrefix

\* Where two paths part, or that they do not.
LEMMA LessIs ==
    ASSUME NEW s \in Seq(Nat), NEW t \in Seq(Nat)
    PROVE  PathLess(s, t)
             <=> \E k \in 1 .. Len(t) :
                    /\ \A i \in 1 .. k - 1 : i <= Len(s) /\ s[i] = t[i]
                    /\ k <= Len(s) => s[k] < t[k]
<1>1. /\ Len(s) \in Nat /\ Len(t) \in Nat
      /\ DOMAIN s = 1 .. Len(s) /\ DOMAIN t = 1 .. Len(t)
  OBVIOUS
<1>2. ASSUME IsStrictPrefix(s, t)
      PROVE  \E k \in 1 .. Len(t) :
                    /\ \A i \in 1 .. k - 1 : i <= Len(s) /\ s[i] = t[i]
                    /\ k <= Len(s) => s[k] < t[k]
  <2>1. Len(s) < Len(t) /\ \A i \in 1 .. Len(s) : s[i] = t[i]
    BY <1>2, PrefixAgrees
  <2>2. Len(s) + 1 \in 1 .. Len(t)
    BY <1>1, <2>1
  <2>. WITNESS Len(s) + 1 \in 1 .. Len(t)
  <2>. QED
    BY <1>1, <2>1
<1>3. ASSUME NEW k \in DOMAIN s \cap DOMAIN t, s[k] < t[k], \A i \in 1 .. k - 1 : s[i] = t[i]
      PROVE  /\ k \in 1 .. Len(t)
             /\ \A i \in 1 .. k - 1 : i <= Len(s) /\ s[i] = t[i]
             /\ k <= Len(s) => s[k] < t[k]
  BY <1>1, <1>3
<1>4. ASSUME NEW k \in 1 .. Len(t), \A i \in 1 .. k - 1 : i <= Len(s) /\ s[i] = t[i],
             k <= Len(s) => s[k] < t[k]
      PROVE  PathLess(s, t)
  <2>1. CASE k <= Len(s)
    BY <1>1, <1>4, <2>1 DEF PathLess
  <2>2. CASE k > Len(s)
    <3>1. k - 1 = Len(s)
      <4>1. k - 1 <= Len(s)
        <5>1. CASE k = 1
          BY <1>1, <5>1
        <5>2. CASE k # 1
          <6>1. k - 1 \in 1 .. k - 1
            BY <1>1, <5>2
          <6>. QED
            BY <1>4, <6>1
        <5>. QED
          BY <5>1, <5>2
      <4>. QED
        BY <1>1, <2>2, <4>1
    <3>2. Len(s) < Len(t) /\ \A i \in 1 .. Len(s) : s[i] = t[i]
      BY <1>1, <1>4, <3>1
    <3>. QED
      BY <3>2, PrefixAgrees DEF PathLess
  <2>. QED
    BY <1>1, <2>1, <2>2
<1>. QED
  BY <1>2, <1>3, <1>4 DEF PathLess

\* What comes before a path that comes before another comes before that one.
LEMMA LessTransitive ==
    ASSUME NEW s \in Seq(Nat), NEW t \in Seq(Nat), NEW u \in Seq(Nat),
           PathLess(s, t), PathLess(t, u)
    PROVE  PathLess(s, u)
<1>1. PICK k \in 1 .. Len(t) : /\ \A i \in 1 .. k - 1 : i <= Len(s) /\ s[i] = t[i]
                               /\ k <= Len(s) => s[k] < t[k]
  BY LessIs
<1>2. PICK m \in 1 .. Len(u) : /\ \A i \in 1 .. m - 1 : i <= Len(t) /\ t[i] = u[i]
                               /\ m <= Len(t) => t[m] < u[m]
  BY LessIs
<1>3. /\ Len(s) \in Nat /\ Len(t) \in Nat /\ Len(u) \in Nat
      /\ \A i \in 1 .. Len(s) : s[i] \in Nat
      /\ \A i \in 1 .. Len(t) : t[i] \in Nat
      /\ \A i \in 1 .. Len(u) : u[i] \in Nat
  OBVIOUS
<1>4. CASE k < m
  <2>1. k \in 1 .. Len(u) /\ k \in 1 .. m - 1
    BY <1>3, <1>4
  <2>2. t[k] = u[k]
    BY <1>2, <2>1
  <2>3. \A i \in 1 .. k - 1 : i <= Len(s) /\ s[i] = u[i]
    BY <1>1, <1>2, <1>4
  <2>4. k <= Len(s) => s[k] < u[k]
    BY <1>1, <2>2
  <2>. QED
    BY <2>1, <2>3, <2>4, LessIs
<1>5. CASE m <= k
  <2>1. \A i \in 1 .. m - 1 : i <= Len(s) /\ s[i] = u[i]
    BY <1>1, <1>2, <1>5
  <2>2. m <= Len(t) /\ t[m] < u[m]
    BY <1>2, <1>3, <1>5
  <2>3. m <= Len(s) => s[m] <= t[m]
    BY <1>1, <1>3, <1>5, <2>2, SMTT(30)
  <2>4. m <= Len(s) => s[m] < u[m]
    BY <1>3, <2>2, <2>3, SMTT(30)
  <2>. QED
    BY <2>1, <2>4, LessIs
<1>. QED
  BY <1>4, <1>5

\* Of two different paths one comes first.
LEMMA LessTotal ==
    ASSUME NEW s \in Seq(Nat), NEW t \in Seq(Nat), s # t
    PROVE  PathLess(s, t) \/ PathLess(t, s)
<1>. DEFINE S == {k \in 1 .. Len(s) + Len(t) + 1 :
                    ~ (k <= Len(s) /\ k <= Len(t) /\ s[k] = t[k])}
<1>1. /\ Len(s) \in Nat /\ Len(t) \in Nat
      /\ \A i \in 1 .. Len(s) : s[i] \in Nat
      /\ \A i \in 1 .. Len(t) : t[i] \in Nat
  OBVIOUS
<1>2. PICK k \in S : \A n \in S : k <= n
  <2>1. S \subseteq Nat
    BY <1>1
  <2>2. Len(s) + Len(t) + 1 \in S
    BY <1>1
  <2>. QED
    BY <2>1, <2>2, LeastNatural
<1>3. /\ k \in Nat /\ k # 0
      /\ \A i \in 1 .. k - 1 : i <= Len(s) /\ i <= Len(t) /\ s[i] = t[i]
  BY <1>1, <1>2
<1>4. k <= Len(s) \/ k <= Len(t)
  <2>. SUFFICES ASSUME k > Len(s), k > Len(t) PROVE FALSE
    BY <1>1, <1>3
  <2>1. k - 1 = Len(s) /\ k - 1 = Len(t)
    <3>1. CASE k = 1
      BY <1>1, <3>1
    <3>2. CASE k # 1
      <4>1. k - 1 \in 1 .. k - 1
        BY <1>3, <3>2
      <4>2. k - 1 <= Len(s) /\ k - 1 <= Len(t)
        BY <1>3, <4>1
      <4>. QED
        BY <1>1, <1>3, <4>2
    <3>. QED
      BY <3>1, <3>2
  <2>2. Len(s) = Len(t) /\ \A i \in 1 .. Len(s) : s[i] = t[i]
    BY <1>3, <2>1
  <2>. QED
    BY <2>2, SameSeq
<1>5. CASE k <= Len(s) /\ k <= Len(t)
  <2>1. s[k] # t[k] /\ s[k] \in Nat /\ t[k] \in Nat /\ k \in 1 .. Len(s) /\ k \in 1 .. Len(t)
    BY <1>1, <1>2, <1>3, <1>5
  <2>2. s[k] < t[k] \/ t[k] < s[k]
    BY <2>1
  <2>. QED
    BY <1>3, <2>1, <2>2, LessIs
<1>6. CASE k <= Len(t) /\ k > Len(s)
  <2>1. k \in 1 .. Len(t) /\ ~ (k <= Len(s))
    BY <1>1, <1>3, <1>6
  <2>. QED
    BY <1>3, <2>1, LessIs
<1>7. CASE k <= Len(s) /\ k > Len(t)
  <2>1. k \in 1 .. Len(s) /\ ~ (k <= Len(t))
    BY <1>1, <1>3, <1>7
  <2>. QED
    BY <1>3, <2>1, LessIs
<1>. QED
  BY <1>1, <1>3, <1>4, <1>5, <1>6, <1>7

-----------------------------------------------------------------------------
\* The sorted list.

\* The list of a finite set of rows with different paths has each row once, in order.
LEMMA RowsInOrder ==
    ASSUME NEW T, IsFiniteSet(T), \A x \in T : x[2] \in Seq(Nat),
           \A x \in T, y \in T : x[2] = y[2] => x = y
    PROVE  /\ DOMAIN InPathOrder(T) = 1 .. Cardinality(T)
           /\ \A i \in 1 .. Cardinality(T) : InPathOrder(T)[i] \in T
           /\ \A x \in T : \E i \in 1 .. Cardinality(T) : InPathOrder(T)[i] = x
           /\ \A i \in 1 .. Cardinality(T), j \in 1 .. Cardinality(T) :
                 i < j <=> PathLess(InPathOrder(T)[i][2], InPathOrder(T)[j][2])
<1>. DEFINE n == Cardinality(T)
            Less(x, y) == PathLess(x[2], y[2])
            Ahead(x) == {r \in T : Less(r, x)}
            rank == [x \in T |-> Cardinality(Ahead(x))]
            rows == InPathOrder(T)
<1>1. n \in Nat
  BY FS_CardinalityType
<1>2. /\ \A x \in T : ~ Less(x, x)
      /\ \A x \in T, y \in T : x # y => Less(x, y) \/ Less(y, x)
  BY LessIrreflexive, LessTotal
<1>3. \A x \in T, y \in T, z \in T : Less(x, y) /\ Less(y, z) => Less(x, z)
  BY LessTransitive
<1>4. ASSUME NEW x \in T PROVE rank[x] = Cardinality({r \in T : PathBefore(r, x)})
  BY DEF PathBefore, PathLess
<1>. HIDE DEF n, Less, rows
<1>5. rank \in [T -> 0 .. n - 1]
  <2>. SUFFICES ASSUME NEW x \in T PROVE Cardinality(Ahead(x)) \in 0 .. n - 1
    OBVIOUS
  <2>1. IsFiniteSet(Ahead(x)) /\ Cardinality(Ahead(x)) <= n
    BY FS_Subset DEF n
  <2>2. Ahead(x) # T
    BY <1>2
  <2>3. Cardinality(Ahead(x)) # n
    BY <2>2, FS_Subset DEF n
  <2>4. Cardinality(Ahead(x)) \in Nat
    BY <2>1, FS_CardinalityType
  <2>. QED
    BY <1>1, <2>1, <2>3, <2>4
<1>6. ASSUME NEW x \in T, NEW y \in T, Less(x, y) PROVE rank[x] < rank[y]
  <2>1. Ahead(x) \in SUBSET Ahead(y)
    BY <1>3, <1>6
  <2>2. x \in Ahead(y) /\ x \notin Ahead(x)
    BY <1>2, <1>6
  <2>3. IsFiniteSet(Ahead(y))
    BY FS_Subset
  <2>4. rank[x] <= rank[y] /\ rank[x] # rank[y]
    BY <2>1, <2>2, <2>3, FS_Subset
  <2>5. rank[x] \in 0 .. n - 1 /\ rank[y] \in 0 .. n - 1
    BY <1>5
  <2>. HIDE DEF rank
  <2>. QED
    BY <1>1, <2>4, <2>5
<1>. HIDE DEF rank
<1>7. ASSUME NEW x \in T, NEW y \in T PROVE Less(x, y) <=> rank[x] < rank[y]
  <2>1. rank[x] \in 0 .. n - 1 /\ rank[y] \in 0 .. n - 1
    BY <1>5
  <2>. QED
    BY <1>1, <1>2, <1>6, <2>1
<1>8. \A x \in T, y \in T : rank[x] = rank[y] => x = y
  <2>. SUFFICES ASSUME NEW x \in T, NEW y \in T, rank[x] = rank[y], x # y PROVE FALSE
    OBVIOUS
  <2>1. rank[x] < rank[y] \/ rank[y] < rank[x]
    BY <1>2, <1>7
  <2>2. rank[x] \in 0 .. n - 1 /\ rank[y] \in 0 .. n - 1
    BY <1>5
  <2>. QED
    BY <1>1, <2>1, <2>2
<1>9. \A k \in 0 .. n - 1 : \E x \in T : rank[x] = k
  <2>1. IsFiniteSet(0 .. n - 1) /\ Cardinality(0 .. n - 1) = n
    <3>1. 0 \in Int /\ n - 1 \in Int
      BY <1>1
    <3>2. IF 0 > n - 1 THEN n = 0 ELSE (n - 1) - 0 + 1 = n
      BY <1>1
    <3>. QED
      BY <3>1, <3>2, FS_Interval
  <2>2. rank \in Injection(T, 0 .. n - 1)
    BY <1>5, <1>8 DEF Injection, IsInjective
  <2>3. rank \in Surjection(T, 0 .. n - 1)
    BY <2>1, <2>2, FS_Injection DEF n
  <2>. QED
    BY <2>3 DEF Surjection
<1>10. ASSUME NEW i \in 1 .. n PROVE rows[i] \in T /\ rank[rows[i]] = i - 1
  <2>1. i - 1 \in 0 .. n - 1
    BY <1>1
  <2>2. \E x \in T : rank[x] = i - 1
    BY <1>9, <2>1
  <2>3. rows[i] = CHOOSE x \in T : Cardinality({r \in T : PathBefore(r, x)}) = i - 1
    BY DEF rows, n, InPathOrder
  <2>4. \E x \in T : Cardinality({r \in T : PathBefore(r, x)}) = i - 1
    BY <1>4, <2>2
  <2>5. rows[i] \in T /\ Cardinality({r \in T : PathBefore(r, rows[i])}) = i - 1
    BY <2>3, <2>4
  <2>. QED
    BY <1>4, <2>5
<1>11. DOMAIN rows = 1 .. n
  BY DEF rows, n, InPathOrder
<1>12. ASSUME NEW x \in T PROVE \E i \in 1 .. n : rows[i] = x
  <2>. DEFINE i == rank[x] + 1
  <2>1. i \in 1 .. n /\ i - 1 = rank[x]
    <3>1. rank[x] \in 0 .. n - 1
      BY <1>5
    <3>. QED
      BY <1>1, <3>1
  <2>2. rank[rows[i]] = rank[x] /\ rows[i] \in T
    BY <1>10, <2>1
  <2>3. rows[i] = x
    BY <1>8, <2>2
  <2>. QED
    BY <2>1, <2>3
<1>13. ASSUME NEW i \in 1 .. n, NEW j \in 1 .. n
       PROVE  i < j <=> Less(rows[i], rows[j])
  <2>1. Less(rows[i], rows[j]) <=> i - 1 < j - 1
    BY <1>7, <1>10
  <2>. QED
    BY <1>1, <2>1
<1>. QED
  BY <1>10, <1>11, <1>12, <1>13 DEF rows, n, Less

-----------------------------------------------------------------------------
\* The places of siblings: an order of the server puts siblings in a chain.

\* The channels that have siblings and a parent.
Children(D) == Loaded(D) \ {CHANNEL_ROOT}

\* place counts the siblings on the way up the ordering column.
PlacesOf(D, ordering, place) ==
    /\ place \in [Children(D) -> 1 .. Cardinality(Loaded(D))]
    /\ \A c \in Children(D) :
          \/ ordering[c] = CHANNEL_ROOT /\ place[c] = 1
          \/ /\ ordering[c] \in Children(D)
             /\ D.channels[ordering[c]].parent = D.channels[c].parent
             /\ place[c] = place[ordering[c]] + 1
    /\ \A c \in Children(D), d \in Children(D) :
          D.channels[c].parent = D.channels[d].parent /\ place[c] = place[d] => c = d

\* A bounded set of numbers that has a member has a greatest one.
LEMMA GreatestNatural ==
    ASSUME NEW n \in Nat, NEW S, S \subseteq 0 .. n, S # {}
    PROVE  Max(S) \in S /\ \A y \in S : y <= Max(S)
<1>. DEFINE R == {n - y : y \in S}
<1>1. PICK k \in R : \A y \in R : k <= y
  <2>1. R \subseteq Nat /\ R # {}
    <3>1. ASSUME NEW y \in S PROVE n - y \in Nat
      <4>1. y \in 0 .. n
        OBVIOUS
      <4>. QED
        BY <4>1
    <3>. QED
      BY <3>1
  <2>. HIDE DEF R
  <2>. QED
    BY <2>1, LeastNatural
<1>2. PICK x \in S : k = n - x
  OBVIOUS
<1>3. ASSUME NEW y \in S PROVE x >= y
  <2>1. k <= n - y /\ x \in 0 .. n /\ y \in 0 .. n
    BY <1>1
  <2>. QED
    BY <1>2, <2>1
<1>4. Max(S) \in S /\ \A y \in S : Max(S) >= y
  BY <1>3 DEF Max
<1>. QED
  BY <1>4

\* All loaded channels but Root, so one fewer.
LEMMA ChildrenFinite ==
    ASSUME NEW D, DbInv(D)
    PROVE  /\ IsFiniteSet(Children(D)) /\ Cardinality(Children(D)) \in Nat
           /\ Cardinality(Children(D)) + 1 = Cardinality(Loaded(D))
<1>1. CHANNEL_ROOT \in Loaded(D)
  BY DEF DbInv, DbType
<1>2. /\ IsFiniteSet(Children(D))
      /\ Cardinality(Children(D)) = Cardinality(Loaded(D)) - 1
  BY <1>1, LoadedFinite, FS_RemoveElement DEF Children
<1>3. Cardinality(Children(D)) \in Nat
  BY <1>2, FS_CardinalityType
<1>. QED
  BY <1>2, <1>3, LoadedFinite

\* In every order of the server each sibling has a place of its own.
LEMMA SiblingPlaces ==
    ASSUME NEW D, DbInv(D), NEW ordering \in ServerOrders(D)
    PROVE  \E place : PlacesOf(D, ordering, place)
<1>. DEFINE Ch == Children(D)
            m == Cardinality(Ch)
            Par(c) == D.channels[c].parent
<1>1. m \in Nat /\ m + 1 = Cardinality(Loaded(D)) /\ IsFiniteSet(Ch)
  BY ChildrenFinite
<1>2. PICK order \in SetToSeqs(Ch) :
         ordering = [c \in Ch |->
                       LET earlier == {i \in DOMAIN order :
                                         /\ Par(order[i]) = Par(c)
                                         /\ \E k \in DOMAIN order : k > i /\ order[k] = c}
                       IN  IF earlier = {} THEN CHANNEL_ROOT ELSE order[Max(earlier)]]
  BY DEF ServerOrders, Children
<1>. HIDE DEF Ch
<1>3. /\ order \in [1 .. m -> Ch]
      /\ \A i \in 1 .. m, j \in 1 .. m : i # j => order[i] # order[j]
  BY DEF SetToSeqs
<1>4. ASSUME NEW c \in Ch PROVE \E i \in 1 .. m : order[i] = c
  <2>1. IsFiniteSet(1 .. m) /\ Cardinality(1 .. m) = m
    <3>1. 1 \in Int /\ m \in Int /\ (IF 1 > m THEN m = 0 ELSE m - 1 + 1 = m)
      BY <1>1
    <3>. QED
      BY <3>1, FS_Interval
  <2>2. order \in Injection(1 .. m, Ch)
    BY <1>3 DEF Injection, IsInjective
  <2>3. order \in Surjection(1 .. m, Ch)
    BY <1>1, <2>1, <2>2, FS_Injection
  <2>. QED
    BY <2>3 DEF Surjection
<1>. DEFINE pos == [c \in Ch |-> CHOOSE i \in 1 .. m : order[i] = c]
<1>5. /\ pos \in [Ch -> 1 .. m]
      /\ \A c \in Ch : order[pos[c]] = c
      /\ \A i \in 1 .. m : order[i] \in Ch /\ pos[order[i]] = i
  <2>1. \A c \in Ch : pos[c] \in 1 .. m /\ order[pos[c]] = c
    BY <1>4
  <2>. HIDE DEF pos
  <2>2. \A i \in 1 .. m : order[i] \in Ch /\ pos[order[i]] = i
    BY <1>3, <2>1
  <2>. QED
    BY <2>1, <2>2 DEF pos
<1>. HIDE DEF pos, m
<1>. DEFINE Ahead(c) == {i \in 1 .. m : Par(order[i]) = Par(c) /\ i < pos[c]}
            earlier == [c \in Ch |-> Ahead(c)]
            place == [c \in Ch |-> Cardinality(earlier[c]) + 1]
<1>6. ASSUME NEW c \in Ch
      PROVE  /\ ordering[c] = IF earlier[c] = {} THEN CHANNEL_ROOT ELSE order[Max(earlier[c])]
             /\ \A i : i \in earlier[c]
                         <=> i \in 1 .. m /\ Par(order[i]) = Par(c) /\ i < pos[c]
             /\ earlier[c] \subseteq 0 .. m /\ IsFiniteSet(earlier[c])
             /\ Cardinality(earlier[c]) \in 0 .. m
  <2>0. earlier[c] = Ahead(c)
    OBVIOUS
  <2>1. Ahead(c) = {i \in DOMAIN order :
                         /\ Par(order[i]) = Par(c)
                         /\ \E k \in DOMAIN order : k > i /\ order[k] = c}
    BY <1>1, <1>3, <1>5
  <2>2. ordering[c] = IF Ahead(c) = {} THEN CHANNEL_ROOT ELSE order[Max(Ahead(c))]
    <3>. HIDE DEF Par
    <3>. QED
      BY <1>2, <2>1
  <2>3. IsFiniteSet(1 .. m) /\ Cardinality(1 .. m) = m
    <3>1. 1 \in Int /\ m \in Int /\ (IF 1 > m THEN m = 0 ELSE m - 1 + 1 = m)
      BY <1>1
    <3>. QED
      BY <3>1, FS_Interval
  <2>4. IsFiniteSet(Ahead(c)) /\ Cardinality(Ahead(c)) <= m
    BY <2>3, FS_Subset
  <2>5. Ahead(c) \subseteq 0 .. m
    BY <1>1
  <2>6. Cardinality(Ahead(c)) \in 0 .. m
    BY <1>1, <2>4, FS_CardinalityType
  <2>7. \A i : i \in Ahead(c) <=> i \in 1 .. m /\ Par(order[i]) = Par(c) /\ i < pos[c]
    OBVIOUS
  <2>. HIDE DEF earlier, Ahead
  <2>. QED
    BY <2>0, <2>2, <2>4, <2>5, <2>6, <2>7
<1>. HIDE DEF earlier, Ahead, Par
<1>7. place \in [Ch -> 1 .. m + 1]
  BY <1>1, <1>6
<1>8. ASSUME NEW c \in Ch
      PROVE  \/ ordering[c] = CHANNEL_ROOT /\ place[c] = 1
             \/ /\ ordering[c] \in Ch
                /\ Par(ordering[c]) = Par(c)
                /\ place[c] = place[ordering[c]] + 1
  <2>1. CASE earlier[c] = {}
    BY <1>6, <2>1, FS_EmptySet
  <2>2. CASE earlier[c] # {}
    <3>. DEFINE i == Max(earlier[c])
                b == order[i]
    <3>0. earlier[c] \subseteq 0 .. m
      BY <1>6
    <3>1. i \in earlier[c] /\ \A y \in earlier[c] : y <= i
      BY <1>1, <2>2, <3>0, GreatestNatural
    <3>2. ordering[c] = b
      BY <1>6, <2>2
    <3>. HIDE DEF i
    <3>3. b \in Ch /\ pos[b] = i /\ Par(b) = Par(c)
      BY <1>5, <1>6, <3>1
    <3>. HIDE DEF b
    <3>4. \A k : k \in earlier[b] <=> k \in earlier[c] \ {i}
      <4>1. ASSUME NEW k \in 1 .. m, k < i PROVE k < pos[c]
        <5>1. i \in 1 .. m /\ i < pos[c] /\ pos[c] \in 1 .. m
          BY <1>5, <1>6, <3>1
        <5>. QED
          BY <4>1, <5>1
      <4>2. ASSUME NEW k, k \in earlier[b] PROVE k \in earlier[c] \ {i}
        <5>1. k \in 1 .. m /\ Par(order[k]) = Par(c) /\ k < i
          BY <1>6, <3>3, <4>2
        <5>. QED
          BY <1>6, <4>1, <5>1
      <4>3. ASSUME NEW k, k \in earlier[c], k # i PROVE k \in earlier[b]
        <5>1. k \in 1 .. m /\ Par(order[k]) = Par(c) /\ k <= i /\ i \in 1 .. m
          BY <1>6, <3>1, <4>3
        <5>2. k < i
          BY <4>3, <5>1
        <5>. QED
          BY <1>6, <3>3, <5>1, <5>2
      <4>. QED
        BY <4>2, <4>3
    <3>5. earlier[b] = earlier[c] \ {i}
      BY <3>4
    <3>6. Cardinality(earlier[b]) = Cardinality(earlier[c]) - 1
      BY <1>6, <3>1, <3>5, FS_RemoveElement
    <3>7. Cardinality(earlier[c]) \in Int
      <4>1. Cardinality(earlier[c]) \in 0 .. m
        BY <1>6
      <4>. QED
        BY <1>1, <4>1
    <3>8. place[c] = Cardinality(earlier[c]) + 1 /\ place[b] = Cardinality(earlier[b]) + 1
      BY <3>3
    <3>. HIDE DEF place
    <3>. QED
      BY <3>2, <3>3, <3>6, <3>7, <3>8
  <2>. QED
    BY <2>1, <2>2
<1>9. ASSUME NEW c \in Ch, NEW d \in Ch, Par(c) = Par(d), pos[c] < pos[d]
      PROVE  place[c] # place[d]
  <2>1. pos[c] \in 1 .. m /\ pos[d] \in 1 .. m
    BY <1>5
  <2>2. earlier[c] \in SUBSET earlier[d]
    <3>1. ASSUME NEW i \in earlier[c] PROVE i \in earlier[d]
      <4>1. i \in 1 .. m /\ Par(order[i]) = Par(d) /\ i < pos[c]
        BY <1>6, <1>9
      <4>2. i < pos[d]
        BY <1>9, <2>1, <4>1
      <4>. QED
        BY <1>6, <4>1, <4>2
    <3>. QED
      BY <3>1
  <2>3. pos[c] \in earlier[d] /\ pos[c] \notin earlier[c]
    <3>1. ~ (pos[c] < pos[c])
      BY <2>1
    <3>. QED
      BY <1>5, <1>6, <1>9, <2>1, <3>1
  <2>4. Cardinality(earlier[c]) # Cardinality(earlier[d])
    BY <1>6, <2>2, <2>3, FS_Subset
  <2>5. Cardinality(earlier[c]) \in 0 .. m /\ Cardinality(earlier[d]) \in 0 .. m
    BY <1>6
  <2>. QED
    BY <1>1, <2>4, <2>5
<1>10. \A c \in Ch, d \in Ch : Par(c) = Par(d) /\ place[c] = place[d] => c = d
  <2>. SUFFICES ASSUME NEW c \in Ch, NEW d \in Ch, Par(c) = Par(d), place[c] = place[d], c # d
                PROVE  FALSE
    OBVIOUS
  <2>1. pos[c] # pos[d] /\ pos[c] \in 1 .. m /\ pos[d] \in 1 .. m
    BY <1>5
  <2>2. pos[c] < pos[d] \/ pos[d] < pos[c]
    BY <1>1, <2>1
  <2>. HIDE DEF place
  <2>. QED
    BY <1>9, <2>2
<1>11. PlacesOf(D, ordering, place)
  <2>. HIDE DEF place
  <2>. QED
    BY <1>1, <1>7, <1>8, <1>10 DEF PlacesOf, Ch, Par
<1>. QED
  BY <1>11

-----------------------------------------------------------------------------
\* "sort" gives every loaded channel its place.

\* The place of a channel, in which Root is the only one before the first.
PlaceIn(place, c) == IF c = CHANNEL_ROOT THEN 0 ELSE place[c]

\* The recursion counts exactly the places.
LEMMA SortRowsAre ==
    ASSUME NEW D, DbInv(D), NEW ordering, NEW place, PlacesOf(D, ordering, place)
    PROVE  SortRows(D, ordering) = {<<c, PlaceIn(place, c)>> : c \in Loaded(D)}
<1>. DEFINE N == Cardinality(Loaded(D))
            Step(f) == [n \in 0 .. N |->
                          IF n = 0 THEN {CHANNEL_ROOT}
                          ELSE {c \in Loaded(D) \ {CHANNEL_ROOT} : ordering[c] \in f[n - 1]}]
            g == [n \in 0 .. N |-> {c \in Loaded(D) : PlaceIn(place, c) = n}]
            at == CHOOSE x : x = Step(x)
<1>1. /\ N \in Nat /\ CHANNEL_ROOT \in Loaded(D)
      /\ PlaceIn(place, CHANNEL_ROOT) = 0
      /\ \A c \in Loaded(D) \ {CHANNEL_ROOT} :
            /\ PlaceIn(place, c) \in 1 .. N
            /\ ordering[c] \in Loaded(D)
            /\ PlaceIn(place, ordering[c]) + 1 = PlaceIn(place, c)
            /\ PlaceIn(place, ordering[c]) \in Nat
  <2>1. N \in Nat /\ CHANNEL_ROOT \in Loaded(D)
    BY LoadedFinite DEF DbInv, DbType
  <2>. HIDE DEF N
  <2>2. PlaceIn(place, CHANNEL_ROOT) = 0
    BY DEF PlaceIn
  <2>3. ASSUME NEW c \in Children(D)
        PROVE  /\ PlaceIn(place, c) \in 1 .. N
               /\ ordering[c] \in Loaded(D)
               /\ PlaceIn(place, ordering[c]) + 1 = PlaceIn(place, c)
               /\ PlaceIn(place, ordering[c]) \in Nat
    <3>1. /\ place[c] \in 1 .. N
          /\ \A d \in Children(D) : place[d] \in 1 .. N
      BY DEF PlacesOf, N
    <3>2. \/ ordering[c] = CHANNEL_ROOT /\ place[c] = 1
          \/ ordering[c] \in Children(D) /\ place[c] = place[ordering[c]] + 1
      BY DEF PlacesOf
    <3>. QED
      BY <2>1, <3>1, <3>2 DEF PlaceIn, Children
  <2>. QED
    BY <2>1, <2>2, <2>3 DEF Children
<1>2. \A c \in Loaded(D) : PlaceIn(place, c) \in 0 .. N
  BY <1>1
<1>. HIDE DEF N
<1>3. SortRows(D, ordering) = UNION {at[n] \X {n} : n \in DOMAIN at}
  BY DEF SortRows, N
<1>4. g = Step(g)
  <2>1. ASSUME NEW n \in 0 .. N
        PROVE  g[n] = IF n = 0 THEN {CHANNEL_ROOT}
                      ELSE {c \in Loaded(D) \ {CHANNEL_ROOT} : ordering[c] \in g[n - 1]}
    <3>1. CASE n = 0
      <4>1. \A c \in Loaded(D) : PlaceIn(place, c) = 0 <=> c = CHANNEL_ROOT
        BY <1>1
      <4>. QED
        BY <1>1, <3>1, <4>1
    <3>2. CASE n # 0
      <4>1. n - 1 \in 0 .. N /\ n \in Nat
        BY <1>1, <3>2
      <4>2. \A c \in Loaded(D) \ {CHANNEL_ROOT} :
               PlaceIn(place, c) = n <=> PlaceIn(place, ordering[c]) = n - 1
        BY <1>1, <4>1
      <4>3. \A c \in Loaded(D) \ {CHANNEL_ROOT} :
               ordering[c] \in g[n - 1] <=> PlaceIn(place, ordering[c]) = n - 1
        BY <1>1, <4>1
      <4>4. \A c : c \in g[n] <=> c \in Loaded(D) /\ PlaceIn(place, c) = n
        OBVIOUS
      <4>5. CHANNEL_ROOT \notin g[n]
        BY <1>1, <3>2, <4>4
      <4>. HIDE DEF g
      <4>6. \A c : c \in g[n]
                 <=> c \in {d \in Loaded(D) \ {CHANNEL_ROOT} : ordering[d] \in g[n - 1]}
        BY <4>2, <4>3, <4>4, <4>5
      <4>. QED
        BY <3>2, <4>6
    <3>. QED
      BY <3>1, <3>2
  <2>2. \A n \in 0 .. N : g[n] = Step(g)[n]
    BY <2>1
  <2>. QED
    BY <2>2
<1>5. at = Step(at)
  BY <1>4
<1>. HIDE DEF at, g
<1>6. 0 .. N \subseteq {n \in 0 .. N : at[n] = g[n]}
  <2>. DEFINE P == {n \in 0 .. N : at[n] = g[n]}
  <2>1. 0 \in 0 .. N
    BY <1>1
  <2>2. at[0] = {CHANNEL_ROOT} /\ g[0] = {CHANNEL_ROOT}
    BY <1>4, <1>5, <2>1
  <2>3. 0 \in P
    BY <2>1, <2>2
  <2>4. ASSUME NEW n \in 0 .. N, n \in P, n + 1 <= N PROVE n + 1 \in P
    <3>1. n + 1 \in 0 .. N /\ n + 1 # 0 /\ (n + 1) - 1 = n /\ at[n] = g[n]
      BY <1>1, <2>4
    <3>2. at[n + 1] = {c \in Loaded(D) \ {CHANNEL_ROOT} : ordering[c] \in at[n]}
      BY <1>5, <3>1
    <3>3. g[n + 1] = {c \in Loaded(D) \ {CHANNEL_ROOT} : ordering[c] \in g[n]}
      BY <1>4, <3>1
    <3>. QED
      BY <3>1, <3>2, <3>3
  <2>. HIDE DEF P
  <2>5. 0 .. N \subseteq P
    BY <1>1, <2>3, <2>4, Climb
  <2>. QED
    BY <2>5 DEF P
<1>7. DOMAIN at = 0 .. N
  BY <1>5
<1>8. \A n \in 0 .. N : at[n] = {c \in Loaded(D) : PlaceIn(place, c) = n}
  BY <1>6 DEF g
<1>9. \A x : x \in SortRows(D, ordering) <=> \E n \in 0 .. N : x \in at[n] \X {n}
  BY <1>3, <1>7
<1>10. \A x : x \in SortRows(D, ordering)
                 <=> \E c \in Loaded(D) : x = <<c, PlaceIn(place, c)>>
  <2>1. ASSUME NEW x, NEW n \in 0 .. N, x \in at[n] \X {n}
        PROVE  \E c \in Loaded(D) : x = <<c, PlaceIn(place, c)>>
    BY <1>8, <2>1
  <2>2. ASSUME NEW c \in Loaded(D)
        PROVE  \E n \in 0 .. N : <<c, PlaceIn(place, c)>> \in at[n] \X {n}
    <3>1. PlaceIn(place, c) \in 0 .. N
      BY <1>2
    <3>2. c \in at[PlaceIn(place, c)]
      BY <1>8, <3>1
    <3>. QED
      BY <3>1, <3>2
  <2>. QED
    BY <1>9, <2>1, <2>2
<1>. QED
  BY <1>10

-----------------------------------------------------------------------------
\* The way down to a channel, as the places on it.

\* The places on the way down to c, from its ancestor k levels up.
PathTo(D, place, c, k) == [i \in 1 .. k + 1 |-> PlaceIn(place, AncestorAt(D, c, k + 1 - i))]

\* A way has a place for every level, and goes through the ancestors.
LEMMA PathShape ==
    ASSUME NEW D, DbInv(D), NEW ordering, NEW place, PlacesOf(D, ordering, place),
           NEW a, NEW c, NEW k, <<a, c, k>> \in D.closure
    PROVE  /\ a \in Loaded(D) /\ c \in Loaded(D) /\ k \in Nat
           /\ PathTo(D, place, c, k) \in Seq(Nat)
           /\ Len(PathTo(D, place, c, k)) = k + 1
           /\ \A i \in 1 .. k + 1 :
                 /\ <<AncestorAt(D, c, k + 1 - i), c, k + 1 - i>> \in D.closure
                 /\ <<a, AncestorAt(D, c, k + 1 - i), i - 1>> \in D.closure
<1>. DEFINE r == <<a, c, k>>
            path == PathTo(D, place, c, k)
<1>1. a \in Loaded(D) /\ c \in Loaded(D) /\ k \in Nat
  <2>1. r[1] \in Loaded(D) /\ r[2] \in Loaded(D) /\ r[3] \in Nat
    BY RowShape
  <2>. QED
    BY <2>1
<1>2. ASSUME NEW i \in 1 .. k + 1
      PROVE  /\ AncestorAt(D, c, k + 1 - i) \in Loaded(D)
             /\ <<AncestorAt(D, c, k + 1 - i), c, k + 1 - i>> \in D.closure
             /\ <<a, AncestorAt(D, c, k + 1 - i), i - 1>> \in D.closure
  <2>. DEFINE j == k + 1 - i
  <2>1. j \in 0 .. k /\ j \in Nat /\ k >= j /\ k - j = i - 1
    BY <1>1
  <2>. HIDE DEF j
  <2>2. PICK b \in Loaded(D) : <<b, r[2], j>> \in D.closure
    <3>1. j \in 0 .. r[3]
      BY <2>1
    <3>. QED
      BY <3>1, NoGaps
  <2>3. <<b, c, j>> \in D.closure
    BY <2>2
  <2>4. AncestorAt(D, c, j) = b
    BY <2>3, AncestorOfRow
  <2>. DEFINE s == <<b, c, j>>
  <2>5. <<r[1], s[1], r[3] - s[3]>> \in D.closure
    BY <2>1, <2>3 DEF DbInv, OnePath
  <2>6. <<a, b, i - 1>> \in D.closure
    BY <2>1, <2>5
  <2>. QED
    BY <2>2, <2>3, <2>4, <2>6 DEF j
<1>3. \A c_1 \in Loaded(D) : PlaceIn(place, c_1) \in Nat
  <2>1. Cardinality(Loaded(D)) \in Nat
    BY LoadedFinite
  <2>. QED
    BY <2>1 DEF PlaceIn, PlacesOf, Children
<1>4. path = [i \in 1 .. k + 1 |-> PlaceIn(place, AncestorAt(D, c, k + 1 - i))]
  BY DEF PathTo
<1>. HIDE DEF path
<1>5. path \in Seq(Nat) /\ Len(path) = k + 1
  <2>1. path \in [1 .. k + 1 -> Nat]
    BY <1>2, <1>3, <1>4
  <2>2. k + 1 \in Nat
    BY <1>1
  <2>. QED
    BY <2>1, <2>2
<1>. QED
  BY <1>1, <1>2, <1>4, <1>5 DEF path

\* The way to a channel from itself is its own place.
LEMMA PathOfSelf ==
    ASSUME NEW D, DbInv(D), NEW place, NEW c \in Loaded(D)
    PROVE  PathTo(D, place, c, 0) = <<PlaceIn(place, c)>>
<1>1. AncestorAt(D, c, 0) = c
  <2>1. <<c, c, 0>> \in D.closure
    BY DEF DbInv, SelfRows
  <2>. QED
    BY <2>1, AncestorOfRow
<1>2. PathTo(D, place, c, 0) = [i \in 1 .. 1 |-> PlaceIn(place, AncestorAt(D, c, 1 - i))]
  BY DEF PathTo
<1>3. \A i \in 1 .. 1 : 1 - i = 0
  OBVIOUS
<1>4. \A i \in 1 .. 1 : PathTo(D, place, c, 0)[i] = PlaceIn(place, c)
  BY <1>1, <1>2, <1>3
<1>5. PathTo(D, place, c, 0) = [i \in 1 .. 1 |-> PlaceIn(place, c)]
  BY <1>2, <1>4
<1>. QED
  BY <1>5

\* The way to a channel starts with the way to any channel it goes through.
LEMMA PathThrough ==
    ASSUME NEW D, DbInv(D), NEW ordering, NEW place, PlacesOf(D, ordering, place),
           NEW a, NEW b, NEW c, NEW k \in Nat, NEW n \in Nat,
           <<a, b, k>> \in D.closure, <<b, c, n>> \in D.closure
    PROVE  /\ <<a, c, k + n>> \in D.closure
           /\ \A i \in 1 .. k + 1 :
                 /\ PathTo(D, place, c, k + n)[i] = PathTo(D, place, b, k)[i]
                 /\ AncestorAt(D, c, k + n + 1 - i) = AncestorAt(D, b, k + 1 - i)
<1>1. <<a, c, k + n>> \in D.closure
  <2>. DEFINE r == <<a, b, k>>
              s == <<b, c, n>>
  <2>1. <<r[1], s[2], r[3] + s[3]>> \in D.closure
    BY DEF DbInv, Composes
  <2>. QED
    BY <2>1
<1>2. ASSUME NEW i \in 1 .. k + 1
      PROVE  AncestorAt(D, c, k + n + 1 - i) = AncestorAt(D, b, k + 1 - i)
  <2>. DEFINE d == AncestorAt(D, b, k + 1 - i)
              r == <<d, b, k + 1 - i>>
              s == <<b, c, n>>
  <2>1. <<d, b, k + 1 - i>> \in D.closure
    BY PathShape
  <2>2. <<r[1], s[2], r[3] + s[3]>> \in D.closure
    BY <2>1 DEF DbInv, Composes
  <2>3. (k + 1 - i) + n = k + n + 1 - i
    OBVIOUS
  <2>. HIDE DEF d
  <2>4. <<d, c, k + n + 1 - i>> \in D.closure
    BY <2>2, <2>3
  <2>5. AncestorAt(D, c, k + n + 1 - i) = d
    BY <2>4, AncestorOfRow
  <2>. QED
    BY <2>5 DEF d
<1>3. ASSUME NEW i \in 1 .. k + 1
      PROVE  PathTo(D, place, c, k + n)[i] = PathTo(D, place, b, k)[i]
  <2>1. i \in 1 .. (k + n) + 1
    OBVIOUS
  <2>2. PathTo(D, place, c, k + n)[i] = PlaceIn(place, AncestorAt(D, c, (k + n) + 1 - i))
    BY <2>1 DEF PathTo
  <2>3. PathTo(D, place, b, k)[i] = PlaceIn(place, AncestorAt(D, b, k + 1 - i))
    BY DEF PathTo
  <2>. QED
    BY <1>2, <2>2, <2>3
<1>. QED
  BY <1>1, <1>2, <1>3

\* One level further down: the places of a child continue its parent's.
LEMMA PathOfChild ==
    ASSUME NEW D, DbInv(D), NEW ordering, NEW place, PlacesOf(D, ordering, place),
           NEW a, NEW b, NEW c, NEW k \in Nat,
           <<a, b, k>> \in D.closure, <<b, c, 1>> \in D.closure
    PROVE  PathTo(D, place, c, k + 1) = Append(PathTo(D, place, b, k), PlaceIn(place, c))
<1>. DEFINE s == PathTo(D, place, b, k)
            t == PathTo(D, place, c, k + 1)
<1>1. /\ <<a, c, k + 1>> \in D.closure
      /\ \A i \in 1 .. k + 1 : t[i] = s[i]
  <2>1. 1 \in Nat
    OBVIOUS
  <2>. QED
    BY <2>1, PathThrough
<1>2. s \in Seq(Nat) /\ Len(s) = k + 1 /\ t \in Seq(Nat) /\ Len(t) = (k + 1) + 1
  BY <1>1, PathShape
<1>3. t[(k + 1) + 1] = PlaceIn(place, c)
  <2>1. <<c, c, 0>> \in D.closure
    <3>1. c \in Loaded(D)
      BY PathShape
    <3>. QED
      BY <3>1 DEF DbInv, SelfRows
  <2>2. AncestorAt(D, c, 0) = c
    BY <2>1, AncestorOfRow
  <2>3. (k + 1) + 1 \in 1 .. (k + 1) + 1 /\ (k + 1) + 1 - ((k + 1) + 1) = 0
    BY <1>1
  <2>4. t[(k + 1) + 1] = PlaceIn(place, AncestorAt(D, c, (k + 1) + 1 - ((k + 1) + 1)))
    BY <2>3 DEF PathTo
  <2>. QED
    BY <2>2, <2>3, <2>4
<1>. HIDE DEF s, t
<1>. DEFINE u == Append(s, PlaceIn(place, c))
<1>4. t[(k + 1) + 1] \in Nat
  BY <1>1, <1>2
<1>5. /\ u \in Seq(Nat) /\ Len(u) = (k + 1) + 1
      /\ u[(k + 1) + 1] = PlaceIn(place, c)
      /\ \A i \in 1 .. k + 1 : u[i] = s[i]
  BY <1>1, <1>2, <1>3, <1>4
<1>. HIDE DEF u
<1>6. \A i \in 1 .. Len(t) : t[i] = u[i]
  <2>1. \A i \in 1 .. Len(t) : i \in 1 .. k + 1 \/ i = (k + 1) + 1
    BY <1>1, <1>2
  <2>. QED
    BY <1>1, <1>3, <1>5, <2>1
<1>7. t = u
  BY <1>2, <1>5, <1>6, SameSeq
<1>. QED
  BY <1>7 DEF s, t, u

-----------------------------------------------------------------------------
\* "tree" gives every channel below the root the way down to it.

\* The channels under root, each with the way down to it.
WaysDown(D, place, root) ==
    {<<r[2], PathTo(D, place, r[2], r[3])>> : r \in {x \in D.closure : x[1] = root}}

\* The recursion walks exactly the ways down.
LEMMA TreeRowsAre ==
    ASSUME NEW D, DbInv(D), Complete(D), NEW ordering, NEW place, PlacesOf(D, ordering, place),
           NEW root \in Loaded(D)
    PROVE  TreeRows(D, ordering, root) = WaysDown(D, place, root)
<1>. DEFINE N == Cardinality(Loaded(D))
            sort == SortRows(D, ordering)
            Self == {<<r[1], <<r[2]>>>> : r \in {x \in sort : x[1] = root}}
            OneDown(rows) == UNION {{<<r[1], Append(t[2], r[2])>> :
                                r \in {x \in sort : /\ x[1] # CHANNEL_ROOT
                                                    /\ D.channels[x[1]].parent = t[1]}} :
                             t \in rows}
            Step(f) == [n \in 0 .. N |-> IF n = 0 THEN Self ELSE OneDown(f[n - 1])]
            g == [n \in 0 .. N |-> {<<r[2], PathTo(D, place, r[2], n)>> :
                                       r \in {x \in D.closure : x[1] = root /\ x[3] = n}}]
            below == CHOOSE x : x = Step(x)
<1>1. TreeRows(D, ordering, root) = UNION {below[n] : n \in DOMAIN below}
  BY DEF TreeRows
<1>2. N \in Nat
  BY LoadedFinite
<1>3. sort = {<<c, PlaceIn(place, c)>> : c \in Loaded(D)}
  BY SortRowsAre
<1>4. ASSUME NEW n \in 0 .. N, NEW x
      PROVE  x \in g[n] <=> \E c : /\ <<root, c, n>> \in D.closure
                                   /\ x = <<c, PathTo(D, place, c, n)>>
  <2>1. ASSUME NEW r \in D.closure, r[1] = root, r[3] = n
        PROVE  <<root, r[2], n>> \in D.closure
    BY <2>1, RowShape
  <2>2. ASSUME NEW c, <<root, c, n>> \in D.closure
        PROVE  <<c, PathTo(D, place, c, n)>> \in g[n]
    <3>. DEFINE r == <<root, c, n>>
    <3>1. r \in {y \in D.closure : y[1] = root /\ y[3] = n} /\ r[2] = c
      BY <2>2
    <3>. HIDE DEF r
    <3>. QED
      BY <3>1
  <2>. QED
    BY <2>1, <2>2
<1>5. Self = g[0]
  <2>1. \A x : x \in Self <=> x = <<root, <<PlaceIn(place, root)>>>>
    <3>1. <<root, PlaceIn(place, root)>> \in sort
      BY <1>3
    <3>2. ASSUME NEW r \in sort, r[1] = root
          PROVE  <<r[1], <<r[2]>>>> = <<root, <<PlaceIn(place, root)>>>>
      <4>1. PICK c \in Loaded(D) : r = <<c, PlaceIn(place, c)>>
        BY <1>3
      <4>2. c = root /\ r[2] = PlaceIn(place, root)
        BY <3>2, <4>1
      <4>. QED
        BY <3>2, <4>2
    <3>. DEFINE r == <<root, PlaceIn(place, root)>>
    <3>3. r \in {x \in sort : x[1] = root} /\ <<r[1], <<r[2]>>>> = <<root, <<PlaceIn(place, root)>>>>
      BY <3>1
    <3>. HIDE DEF sort, r
    <3>. QED
      BY <3>2, <3>3
  <2>2. \A c : <<root, c, 0>> \in D.closure <=> c = root
    <3>1. ASSUME NEW c, <<root, c, 0>> \in D.closure PROVE c = root
      <4>. DEFINE r == <<root, c, 0>>
      <4>1. r[1] = r[2]
        BY <3>1 DEF DbInv, SelfRows
      <4>. QED
        BY <4>1
    <3>. QED
      BY <3>1 DEF DbInv, SelfRows
  <2>3. PathTo(D, place, root, 0) = <<PlaceIn(place, root)>>
    BY PathOfSelf
  <2>4. 0 \in 0 .. N
    BY <1>2
  <2>. HIDE DEF Self, g
  <2>5. ASSUME NEW x PROVE x \in g[0] <=> x = <<root, <<PlaceIn(place, root)>>>>
    <3>1. x \in g[0] <=> \E c : <<root, c, 0>> \in D.closure /\ x = <<c, PathTo(D, place, c, 0)>>
      BY <1>4, <2>4
    <3>. QED
      BY <2>2, <2>3, <3>1
  <2>. QED
    BY <2>1, <2>5
<1>6. ASSUME NEW n \in 0 .. N, n + 1 <= N PROVE OneDown(g[n]) = g[n + 1]
  <2>0. n \in Nat /\ n + 1 \in 0 .. N
    BY <1>2, <1>6
  <2>1. \A x : x \in OneDown(g[n])
                 <=> \E t \in g[n], r \in sort :
                        /\ r[1] # CHANNEL_ROOT /\ D.channels[r[1]].parent = t[1]
                        /\ x = <<r[1], Append(t[2], r[2])>>
    OBVIOUS
  <2>. HIDE DEF sort, g
  <2>. DEFINE Par(c) == D.channels[c].parent
  <2>2. ASSUME NEW x
        PROVE  x \in OneDown(g[n])
                 <=> \E c \in Loaded(D) \ {CHANNEL_ROOT} :
                        /\ <<root, Par(c), n>> \in D.closure
                        /\ x = <<c, Append(PathTo(D, place, Par(c), n), PlaceIn(place, c))>>
    <3>. HIDE DEF OneDown
    <3>1. ASSUME NEW t \in g[n], NEW r \in sort, r[1] # CHANNEL_ROOT,
                 Par(r[1]) = t[1], x = <<r[1], Append(t[2], r[2])>>
          PROVE  \E c \in Loaded(D) \ {CHANNEL_ROOT} :
                        /\ <<root, Par(c), n>> \in D.closure
                        /\ x = <<c, Append(PathTo(D, place, Par(c), n), PlaceIn(place, c))>>
      <4>1. PICK b : <<root, b, n>> \in D.closure /\ t = <<b, PathTo(D, place, b, n)>>
        BY <1>4
      <4>2. PICK c \in Loaded(D) : r = <<c, PlaceIn(place, c)>>
        BY <1>3
      <4>3. c \in Loaded(D) \ {CHANNEL_ROOT} /\ b = Par(c)
        BY <3>1, <4>1, <4>2
      <4>4. x = <<c, Append(PathTo(D, place, b, n), PlaceIn(place, c))>>
        BY <3>1, <4>1, <4>2
      <4>. QED
        BY <4>1, <4>3, <4>4
    <3>2. ASSUME NEW c \in Loaded(D) \ {CHANNEL_ROOT}, <<root, Par(c), n>> \in D.closure
          PROVE  <<c, Append(PathTo(D, place, Par(c), n), PlaceIn(place, c))>> \in OneDown(g[n])
      <4>. DEFINE t == <<Par(c), PathTo(D, place, Par(c), n)>>
                  r == <<c, PlaceIn(place, c)>>
      <4>1. t \in g[n] /\ r \in sort
        BY <1>3, <1>4, <3>2
      <4>2. /\ r[1] # CHANNEL_ROOT /\ D.channels[r[1]].parent = t[1]
            /\ <<c, Append(PathTo(D, place, Par(c), n), PlaceIn(place, c))>>
                 = <<r[1], Append(t[2], r[2])>>
        BY <3>2
      <4>. HIDE DEF t, r
      <4>. QED
        BY <2>1, <4>1, <4>2
    <3>3. ASSUME x \in OneDown(g[n])
          PROVE  \E c \in Loaded(D) \ {CHANNEL_ROOT} :
                        /\ <<root, Par(c), n>> \in D.closure
                        /\ x = <<c, Append(PathTo(D, place, Par(c), n), PlaceIn(place, c))>>
      <4>1. PICK t \in g[n], r \in sort :
                    /\ r[1] # CHANNEL_ROOT /\ Par(r[1]) = t[1]
                    /\ x = <<r[1], Append(t[2], r[2])>>
        BY <2>1, <3>3
      <4>. HIDE DEF Par
      <4>. QED
        BY <3>1, <4>1
    <3>. HIDE DEF Par
    <3>. QED
      BY <3>2, <3>3
  <2>3. ASSUME NEW c \in Loaded(D) \ {CHANNEL_ROOT}, <<root, Par(c), n>> \in D.closure
        PROVE  /\ <<root, c, n + 1>> \in D.closure
               /\ Append(PathTo(D, place, Par(c), n), PlaceIn(place, c))
                    = PathTo(D, place, c, n + 1)
    <3>1. <<Par(c), c, 1>> \in D.closure
      BY DEF Complete
    <3>2. 1 \in Nat
      OBVIOUS
    <3>3. <<root, c, n + 1>> \in D.closure
      BY <2>0, <2>3, <3>1, <3>2, PathThrough
    <3>4. PathTo(D, place, c, n + 1)
            = Append(PathTo(D, place, Par(c), n), PlaceIn(place, c))
      BY <2>0, <2>3, <3>1, PathOfChild
    <3>. QED
      BY <3>3, <3>4
  <2>4. ASSUME NEW c, <<root, c, n + 1>> \in D.closure
        PROVE  /\ c \in Loaded(D) \ {CHANNEL_ROOT}
               /\ <<root, Par(c), n>> \in D.closure
    <3>. DEFINE r == <<root, c, n + 1>>
    <3>1. c \in Loaded(D)
      BY <2>4, PathShape
    <3>2. c # CHANNEL_ROOT
      <4>. SUFFICES ASSUME c = CHANNEL_ROOT PROVE FALSE
        OBVIOUS
      <4>1. r[2] = CHANNEL_ROOT /\ r \in D.closure /\ r[3] # 0
        BY <2>0, <2>4
      <4>2. r[1] = r[2]
        BY <4>1 DEF DbInv, RootOnTop
      <4>. QED
        BY <4>1, <4>2 DEF DbInv, SelfRows
    <3>. DEFINE p == Par(c)
                s == <<p, c, 1>>
    <3>3. s \in D.closure
      BY <3>1, <3>2 DEF Complete
    <3>4. r \in D.closure /\ r[2] = s[2] /\ r[3] >= s[3]
      BY <2>0, <2>4
    <3>5. <<r[1], s[1], r[3] - s[3]>> \in D.closure
      BY <3>3, <3>4 DEF DbInv, OnePath
    <3>6. (n + 1) - 1 = n
      BY <2>0
    <3>. QED
      BY <3>1, <3>2, <3>5, <3>6
  <2>. HIDE DEF OneDown, Par
  <2>5. ASSUME NEW x PROVE x \in OneDown(g[n]) <=> x \in g[n + 1]
    <3>1. x \in g[n + 1]
            <=> \E c : <<root, c, n + 1>> \in D.closure /\ x = <<c, PathTo(D, place, c, n + 1)>>
      BY <1>4, <2>0
    <3>2. ASSUME x \in OneDown(g[n]) PROVE x \in g[n + 1]
      BY <2>2, <2>3, <3>1, <3>2
    <3>3. ASSUME NEW c, <<root, c, n + 1>> \in D.closure, x = <<c, PathTo(D, place, c, n + 1)>>
          PROVE  x \in OneDown(g[n])
      <4>1. c \in Loaded(D) \ {CHANNEL_ROOT} /\ <<root, Par(c), n>> \in D.closure
        BY <2>4, <3>3
      <4>2. x = <<c, Append(PathTo(D, place, Par(c), n), PlaceIn(place, c))>>
        BY <2>3, <3>3, <4>1
      <4>. QED
        BY <2>2, <4>1, <4>2
    <3>. QED
      BY <3>1, <3>2, <3>3
  <2>. QED
    BY <2>5
<1>. HIDE DEF N, sort, Self, OneDown
<1>7. g = Step(g)
  <2>1. ASSUME NEW n \in 0 .. N PROVE g[n] = IF n = 0 THEN Self ELSE OneDown(g[n - 1])
    <3>1. CASE n = 0
      BY <1>5, <3>1
    <3>2. CASE n # 0
      <4>1. n - 1 \in 0 .. N /\ (n - 1) + 1 = n /\ (n - 1) + 1 <= N
        BY <1>2, <3>2
      <4>2. OneDown(g[n - 1]) = g[(n - 1) + 1]
        BY <1>6, <4>1
      <4>. QED
        BY <3>2, <4>1, <4>2
    <3>. QED
      BY <3>1, <3>2
  <2>2. \A n \in 0 .. N : g[n] = Step(g)[n]
    BY <2>1
  <2>. QED
    BY <2>2
<1>8. below = Step(below)
  BY <1>7
<1>. HIDE DEF below, g
<1>9. 0 .. N \subseteq {n \in 0 .. N : below[n] = g[n]}
  <2>. DEFINE P == {n \in 0 .. N : below[n] = g[n]}
  <2>1. 0 \in 0 .. N
    BY <1>2
  <2>2. below[0] = Self /\ g[0] = Self
    BY <1>7, <1>8, <2>1
  <2>3. 0 \in P
    BY <2>1, <2>2
  <2>4. ASSUME NEW n \in 0 .. N, n \in P, n + 1 <= N PROVE n + 1 \in P
    <3>1. n + 1 \in 0 .. N /\ n + 1 # 0 /\ (n + 1) - 1 = n /\ below[n] = g[n]
      BY <1>2, <2>4
    <3>2. below[n + 1] = OneDown(below[n])
      BY <1>8, <3>1
    <3>3. g[n + 1] = OneDown(g[n])
      BY <1>7, <3>1
    <3>. QED
      BY <3>1, <3>2, <3>3
  <2>. HIDE DEF P
  <2>5. 0 .. N \subseteq P
    BY <1>2, <2>3, <2>4, Climb
  <2>. QED
    BY <2>5 DEF P
<1>10. DOMAIN below = 0 .. N
  BY <1>8
<1>11. \A x : x \in TreeRows(D, ordering, root) <=> \E n \in 0 .. N : x \in g[n]
  BY <1>1, <1>9, <1>10
<1>12. \A x : x \in WaysDown(D, place, root) <=> \E n \in 0 .. N : x \in g[n]
  <2>1. ASSUME NEW r \in D.closure, r[1] = root
        PROVE  /\ r[3] \in 0 .. N /\ <<root, r[2], r[3]>> \in D.closure
               /\ <<r[2], PathTo(D, place, r[2], r[3])>> \in g[r[3]]
    <3>1. r[3] \in 0 .. N /\ <<root, r[2], r[3]>> \in D.closure
      BY <2>1, DepthBound, RowShape DEF N
    <3>. QED
      BY <1>4, <3>1
  <2>2. ASSUME NEW n \in 0 .. N, NEW x, x \in g[n] PROVE x \in WaysDown(D, place, root)
    <3>1. PICK c : <<root, c, n>> \in D.closure /\ x = <<c, PathTo(D, place, c, n)>>
      BY <1>4, <2>2
    <3>. DEFINE r == <<root, c, n>>
    <3>2. /\ r \in {y \in D.closure : y[1] = root}
          /\ x = <<r[2], PathTo(D, place, r[2], r[3])>>
      BY <3>1
    <3>. HIDE DEF r
    <3>. QED
      BY <3>2 DEF WaysDown
  <2>. QED
    BY <2>1, <2>2 DEF WaysDown
<1>. QED
  BY <1>11, <1>12

-----------------------------------------------------------------------------
\* Ways and the tree: equal ways are one channel, and the start of a way is an ancestor's.

\* Where the ways to two channels agree up to a level they go through the same channel.
LEMMA SameWaySameChannel ==
    ASSUME NEW D, DbInv(D), Complete(D), NEW ordering, NEW place, PlacesOf(D, ordering, place),
           NEW root, NEW c, NEW k \in Nat, NEW d, NEW m \in Nat,
           <<root, c, k>> \in D.closure, <<root, d, m>> \in D.closure,
           NEW q \in Nat, q <= k, q <= m,
           \A i \in 1 .. q + 1 : PathTo(D, place, c, k)[i] = PathTo(D, place, d, m)[i]
    PROVE  AncestorAt(D, c, k - q) = AncestorAt(D, d, m - q)
<1>. DEFINE P == {i \in 0 .. q : AncestorAt(D, c, k - i) = AncestorAt(D, d, m - i)}
<1>1. k \in Nat /\ m \in Nat
  BY PathShape
<1>2. ASSUME NEW i \in 0 .. q
      PROVE  /\ <<root, AncestorAt(D, c, k - i), i>> \in D.closure
             /\ <<root, AncestorAt(D, d, m - i), i>> \in D.closure
             /\ PlaceIn(place, AncestorAt(D, c, k - i)) = PlaceIn(place, AncestorAt(D, d, m - i))
  <2>1. /\ i + 1 \in 1 .. q + 1 /\ i + 1 \in 1 .. k + 1 /\ i + 1 \in 1 .. m + 1
        /\ k + 1 - (i + 1) = k - i /\ m + 1 - (i + 1) = m - i /\ (i + 1) - 1 = i
    BY <1>1
  <2>2. /\ <<root, AncestorAt(D, c, k + 1 - (i + 1)), (i + 1) - 1>> \in D.closure
        /\ <<root, AncestorAt(D, d, m + 1 - (i + 1)), (i + 1) - 1>> \in D.closure
    BY <2>1, PathShape
  <2>3. /\ PathTo(D, place, c, k)[i + 1] = PlaceIn(place, AncestorAt(D, c, k + 1 - (i + 1)))
        /\ PathTo(D, place, d, m)[i + 1] = PlaceIn(place, AncestorAt(D, d, m + 1 - (i + 1)))
    BY <2>1 DEF PathTo
  <2>4. PathTo(D, place, c, k)[i + 1] = PathTo(D, place, d, m)[i + 1]
    BY <2>1
  <2>. QED
    BY <2>1, <2>2, <2>3, <2>4
<1>3. 0 \in P
  <2>1. k - 0 = k /\ m - 0 = m /\ 0 \in 0 .. q
    BY <1>1
  <2>2. AncestorAt(D, c, k) = root /\ AncestorAt(D, d, m) = root
    BY AncestorOfRow
  <2>. QED
    BY <2>1, <2>2
<1>4. ASSUME NEW i \in 0 .. q, i \in P, i + 1 <= q PROVE i + 1 \in P
  <2>. DEFINE a == AncestorAt(D, c, k - i)
              x == AncestorAt(D, c, k - (i + 1))
              y == AncestorAt(D, d, m - (i + 1))
              Par(z) == D.channels[z].parent
  <2>1. /\ i + 1 \in 0 .. q /\ i \in Nat
        /\ a = AncestorAt(D, d, m - i)
    BY <1>4
  <2>2. /\ <<root, a, i>> \in D.closure
        /\ <<root, x, i + 1>> \in D.closure /\ <<root, y, i + 1>> \in D.closure
        /\ PlaceIn(place, x) = PlaceIn(place, y)
    BY <1>2, <2>1
  <2>. HIDE DEF a, x, y
  <2>3. ASSUME NEW z, <<root, z, i + 1>> \in D.closure
        PROVE  /\ z \in Children(D)
               /\ <<root, Par(z), i>> \in D.closure
               /\ <<Par(z), z, 1>> \in D.closure
    <3>. DEFINE r == <<root, z, i + 1>>
                s == <<Par(z), z, 1>>
    <3>1. r \in D.closure /\ r[3] # 0 /\ z \in Loaded(D) /\ (i + 1) - 1 = i
      BY <2>1, <2>3, PathShape
    <3>2. z # CHANNEL_ROOT
      <4>. SUFFICES ASSUME r[2] = CHANNEL_ROOT PROVE FALSE
        OBVIOUS
      <4>1. r[1] = r[2]
        BY <3>1 DEF DbInv, RootOnTop
      <4>. QED
        BY <3>1, <4>1 DEF DbInv, SelfRows
    <3>3. s \in D.closure
      BY <3>1, <3>2 DEF Complete
    <3>4. r[2] = s[2] /\ r[3] >= s[3]
      BY <2>1
    <3>5. <<r[1], s[1], r[3] - s[3]>> \in D.closure
      BY <3>1, <3>3, <3>4 DEF DbInv, OnePath
    <3>. QED
      BY <3>1, <3>2, <3>3, <3>5 DEF Children
  <2>4. Par(x) = a
    <3>1. <<x, c, k - (i + 1)>> \in D.closure
      <4>1. (i + 1) + 1 \in 1 .. k + 1 /\ k + 1 - ((i + 1) + 1) = k - (i + 1)
        BY <1>1, <2>1
      <4>2. <<AncestorAt(D, c, k + 1 - ((i + 1) + 1)), c, k + 1 - ((i + 1) + 1)>> \in D.closure
        BY <4>1, PathShape
      <4>. QED
        BY <4>1, <4>2 DEF x
    <3>2. k - (i + 1) \in Nat /\ 1 \in Nat /\ 1 + (k - (i + 1)) = k - i
      BY <1>1, <2>1
    <3>3. <<Par(x), c, 1 + (k - (i + 1))>> \in D.closure
      BY <2>2, <2>3, <3>1, <3>2, PathThrough
    <3>. QED
      BY <3>2, <3>3, AncestorOfRow DEF a
  <2>5. Par(y) = a
    <3>1. <<y, d, m - (i + 1)>> \in D.closure
      <4>1. (i + 1) + 1 \in 1 .. m + 1 /\ m + 1 - ((i + 1) + 1) = m - (i + 1)
        BY <1>1, <2>1
      <4>2. <<AncestorAt(D, d, m + 1 - ((i + 1) + 1)), d, m + 1 - ((i + 1) + 1)>> \in D.closure
        BY <4>1, PathShape
      <4>. QED
        BY <4>1, <4>2 DEF y
    <3>2. m - (i + 1) \in Nat /\ 1 \in Nat /\ 1 + (m - (i + 1)) = m - i
      BY <1>1, <2>1
    <3>3. <<Par(y), d, 1 + (m - (i + 1))>> \in D.closure
      BY <2>2, <2>3, <3>1, <3>2, PathThrough
    <3>. QED
      BY <2>1, <3>2, <3>3, AncestorOfRow
  <2>6. place[x] = place[y] /\ x \in Children(D) /\ y \in Children(D)
    BY <2>2, <2>3 DEF PlaceIn, Children
  <2>7. x = y
    BY <2>4, <2>5, <2>6 DEF PlacesOf
  <2>. QED
    BY <2>1, <2>7 DEF x, y
<1>. HIDE DEF P
<1>5. q \in P
  <2>1. 0 .. q \subseteq P
    BY <1>3, <1>4, Climb
  <2>. QED
    BY <2>1
<1>. QED
  BY <1>5 DEF P

\* A channel whose whole way is the start of another's is above it.
LEMMA WayBelow ==
    ASSUME NEW D, DbInv(D), Complete(D), NEW ordering, NEW place, PlacesOf(D, ordering, place),
           NEW root, NEW c, NEW k \in Nat, NEW d, NEW m \in Nat,
           <<root, c, k>> \in D.closure, <<root, d, m>> \in D.closure, k <= m,
           \A i \in 1 .. k + 1 : PathTo(D, place, c, k)[i] = PathTo(D, place, d, m)[i]
    PROVE  <<c, d, m - k>> \in D.closure
<1>1. k \in Nat /\ m \in Nat /\ k <= k /\ k - k = 0 /\ c \in Loaded(D)
  <2>1. k \in Nat /\ m \in Nat /\ c \in Loaded(D)
    BY PathShape
  <2>. QED
    BY <2>1
<1>2. AncestorAt(D, c, k - k) = AncestorAt(D, d, m - k)
  BY <1>1, SameWaySameChannel
<1>3. AncestorAt(D, c, 0) = c
  <2>1. <<c, c, 0>> \in D.closure
    BY <1>1 DEF DbInv, SelfRows
  <2>. QED
    BY <2>1, AncestorOfRow
<1>4. k + 1 \in 1 .. m + 1 /\ m + 1 - (k + 1) = m - k
  BY <1>1
<1>5. <<AncestorAt(D, d, m - k), d, m - k>> \in D.closure
  <2>1. <<AncestorAt(D, d, m + 1 - (k + 1)), d, m + 1 - (k + 1)>> \in D.closure
    BY <1>4, PathShape
  <2>. QED
    BY <1>4, <2>1
<1>. QED
  BY <1>1, <1>2, <1>3, <1>5

\* The rows "tree" gives: one for each channel of the branch, all different.
LEMMA WaysDownAre ==
    ASSUME NEW D, DbInv(D), Complete(D), NEW ordering, NEW place, PlacesOf(D, ordering, place),
           NEW root \in Loaded(D)
    PROVE  /\ \A x : x \in WaysDown(D, place, root)
                     <=> \E c, k : /\ <<root, c, k>> \in D.closure
                                   /\ x = <<c, PathTo(D, place, c, k)>>
           /\ IsFiniteSet(WaysDown(D, place, root))
           /\ Cardinality(WaysDown(D, place, root)) = Cardinality(Branch(D.closure, root))
           /\ \A x \in WaysDown(D, place, root) : x[2] \in Seq(Nat)
           /\ \A x \in WaysDown(D, place, root), y \in WaysDown(D, place, root) :
                 x[2] = y[2] => x = y
<1>. DEFINE T == WaysDown(D, place, root)
            B == Branch(D.closure, root)
            level == [c \in B |-> CHOOSE k \in Nat : <<root, c, k>> \in D.closure]
            f == [c \in B |-> <<c, PathTo(D, place, c, level[c])>>]
<1>1. ASSUME NEW x
      PROVE  x \in T <=> \E c, k : /\ <<root, c, k>> \in D.closure
                                   /\ x = <<c, PathTo(D, place, c, k)>>
  <2>1. ASSUME x \in T
        PROVE  \E c, k : <<root, c, k>> \in D.closure /\ x = <<c, PathTo(D, place, c, k)>>
    <3>1. PICK r \in D.closure : r[1] = root /\ x = <<r[2], PathTo(D, place, r[2], r[3])>>
      BY <2>1 DEF WaysDown
    <3>2. <<root, r[2], r[3]>> \in D.closure
      BY <3>1, RowShape
    <3>. QED
      BY <3>1, <3>2
  <2>2. ASSUME NEW c, NEW k, <<root, c, k>> \in D.closure
        PROVE  <<c, PathTo(D, place, c, k)>> \in T
    <3>. DEFINE r == <<root, c, k>>
    <3>1. r \in {y \in D.closure : y[1] = root} /\ r[2] = c /\ r[3] = k
      BY <2>2
    <3>. HIDE DEF r
    <3>. QED
      BY <3>1 DEF WaysDown
  <2>. QED
    BY <2>1, <2>2
<1>2. ASSUME NEW c, NEW k, <<root, c, k>> \in D.closure PROVE c \in B /\ k \in Nat
  <2>. DEFINE r == <<root, c, k>>
  <2>1. r \in D.closure /\ r[1] = root /\ r[2] = c
    BY <1>2
  <2>. HIDE DEF r
  <2>2. c \in B
    BY <2>1 DEF Branch
  <2>. QED
    BY <1>2, <2>2, PathShape
<1>3. ASSUME NEW c \in B PROVE level[c] \in Nat /\ <<root, c, level[c]>> \in D.closure
  <2>1. PICK r \in D.closure : r[1] = root /\ r[2] = c
    BY DEF Branch
  <2>2. r[3] \in Nat /\ <<root, c, r[3]>> \in D.closure
    BY <2>1, RowShape
  <2>. QED
    BY <2>2
<1>4. ASSUME NEW c, NEW k, NEW n, <<root, c, k>> \in D.closure, <<root, c, n>> \in D.closure
      PROVE  k = n
  <2>. DEFINE r == <<root, c, k>>
              s == <<root, c, n>>
  <2>1. r[3] = s[3]
    BY <1>4, SameDepth
  <2>. QED
    BY <2>1
<1>. HIDE DEF T, level
<1>5. ASSUME NEW x \in T, NEW y \in T, x[2] = y[2] PROVE x = y
  <2>1. PICK c, k : <<root, c, k>> \in D.closure /\ x = <<c, PathTo(D, place, c, k)>>
    BY <1>1
  <2>2. PICK d, m : <<root, d, m>> \in D.closure /\ y = <<d, PathTo(D, place, d, m)>>
    BY <1>1
  <2>. DEFINE s == PathTo(D, place, c, k)
              t == PathTo(D, place, d, m)
  <2>3. s = t
    BY <1>5, <2>1, <2>2
  <2>4. Len(s) = k + 1 /\ Len(t) = m + 1 /\ k \in Nat /\ m \in Nat
    BY <2>1, <2>2, PathShape
  <2>. HIDE DEF s, t
  <2>5. k = m /\ k <= m /\ m - k = 0
    BY <2>3, <2>4
  <2>6. <<c, d, m - k>> \in D.closure
    BY <2>1, <2>2, <2>3, <2>4, <2>5, WayBelow DEF s, t
  <2>7. c = d
    <3>. DEFINE r == <<c, d, m - k>>
    <3>1. r[1] = r[2]
      BY <2>5, <2>6 DEF DbInv, SelfRows
    <3>. QED
      BY <3>1
  <2>. QED
    BY <2>1, <2>2, <2>5, <2>7
<1>6. \A x \in T : x[2] \in Seq(Nat)
  <2>. SUFFICES ASSUME NEW x \in T PROVE x[2] \in Seq(Nat)
    OBVIOUS
  <2>1. PICK c, k : <<root, c, k>> \in D.closure /\ x = <<c, PathTo(D, place, c, k)>>
    BY <1>1
  <2>2. PathTo(D, place, c, k) \in Seq(Nat)
    BY <2>1, PathShape
  <2>. QED
    BY <2>1, <2>2
<1>7. f \in Bijection(B, T)
  <2>1. \A c \in B : f[c] \in T /\ f[c][1] = c
    BY <1>1, <1>3
  <2>2. ASSUME NEW x \in T PROVE \E c \in B : f[c] = x
    <3>1. PICK c, k : <<root, c, k>> \in D.closure /\ x = <<c, PathTo(D, place, c, k)>>
      BY <1>1
    <3>2. c \in B
      BY <1>2, <3>1
    <3>3. level[c] = k
      BY <1>3, <1>4, <3>1, <3>2
    <3>. QED
      BY <3>1, <3>2, <3>3
  <2>3. f \in [B -> T]
    BY <2>1
  <2>. HIDE DEF f, B
  <2>4. f \in Injection(B, T)
    <3>1. \A c \in B, d \in B : f[c] = f[d] => c = d
      BY <2>1
    <3>. QED
      BY <2>3, <3>1 DEF Injection, IsInjective
  <2>5. f \in Surjection(B, T)
    BY <2>2, <2>3 DEF Surjection
  <2>. QED
    BY <2>4, <2>5 DEF Bijection
<1>8. IsFiniteSet(B)
  <2>1. B \subseteq Loaded(D)
    BY RowShape DEF Branch
  <2>. QED
    BY <2>1, LoadedFinite, FS_Subset
<1>. HIDE DEF f, B
<1>9. IsFiniteSet(T) /\ Cardinality(T) = Cardinality(B)
  BY <1>7, <1>8, FS_Bijection DEF ExistsBijection
<1>. QED
  BY <1>1, <1>5, <1>6, <1>9 DEF T, B

\* What lies between the start of a path and the path starts with it too, and is longer.
LEMMA BetweenIsLonger ==
    ASSUME NEW s \in Seq(Nat), NEW t \in Seq(Nat), NEW u \in Seq(Nat),
           \A i \in 1 .. Len(s) : i <= Len(t) /\ s[i] = t[i],
           PathLess(s, u), ~ PathLess(t, u)
    PROVE  Len(u) > Len(s)
<1>1. PICK k \in 1 .. Len(u) : /\ \A i \in 1 .. k - 1 : i <= Len(s) /\ s[i] = u[i]
                               /\ k <= Len(s) => s[k] < u[k]
  BY LessIs
<1>2. Len(s) \in Nat /\ Len(t) \in Nat /\ Len(u) \in Nat
  OBVIOUS
<1>3. ~ (k <= Len(s))
  <2>. SUFFICES ASSUME k <= Len(s) PROVE FALSE
    OBVIOUS
  <2>1. k \in 1 .. Len(s) /\ \A i \in 1 .. k - 1 : i \in 1 .. Len(s)
    BY <1>2
  <2>2. k <= Len(t) => t[k] < u[k]
    BY <1>1, <2>1
  <2>3. \A i \in 1 .. k - 1 : i <= Len(t) /\ t[i] = u[i]
    BY <1>1, <2>1
  <2>4. PathLess(t, u)
    BY <2>2, <2>3, LessIs
  <2>. QED
    BY <2>4
<1>. QED
  BY <1>2, <1>3

-----------------------------------------------------------------------------
\* The list: its order is the order of the ways.

\* The list has each channel of the branch once, at its depth, in the order of the ways.
LEMMA ListRows ==
    ASSUME NEW D, DbInv(D), Complete(D), NEW ordering, NEW place, PlacesOf(D, ordering, place),
           NEW root \in Loaded(D), NEW list, list = GetChannelList(D, ordering, root)
    PROVE  /\ DOMAIN list = 1 .. Cardinality(Branch(D.closure, root))
           /\ Len(list) = Cardinality(Branch(D.closure, root))
           /\ \A i \in DOMAIN list : <<root, list[i].channel, list[i].depth>> \in D.closure
           /\ \A c, k : <<root, c, k>> \in D.closure
                          => \E i \in DOMAIN list : list[i].channel = c /\ list[i].depth = k
           /\ \A i \in DOMAIN list, j \in DOMAIN list :
                 i < j <=> PathLess(PathTo(D, place, list[i].channel, list[i].depth),
                                    PathTo(D, place, list[j].channel, list[j].depth))
<1>. DEFINE T == WaysDown(D, place, root)
            N == Cardinality(Branch(D.closure, root))
            rows == InPathOrder(T)
<1>1. TreeRows(D, ordering, root) = T
  BY TreeRowsAre
<1>2. /\ \A x : x \in T <=> \E c, k : /\ <<root, c, k>> \in D.closure
                                      /\ x = <<c, PathTo(D, place, c, k)>>
      /\ IsFiniteSet(T) /\ Cardinality(T) = N
      /\ \A x \in T : x[2] \in Seq(Nat)
      /\ \A x \in T, y \in T : x[2] = y[2] => x = y
  BY WaysDownAre
<1>3. N \in Nat
  BY <1>2, FS_CardinalityType
<1>. HIDE DEF T, N
<1>4. /\ DOMAIN rows = 1 .. N
      /\ \A i \in 1 .. N : rows[i] \in T
      /\ \A x \in T : \E i \in 1 .. N : rows[i] = x
      /\ \A i \in 1 .. N, j \in 1 .. N : i < j <=> PathLess(rows[i][2], rows[j][2])
  BY <1>2, RowsInOrder
<1>5. list = [i \in DOMAIN rows |-> [channel |-> rows[i][1], depth |-> Len(rows[i][2]) - 1]]
  BY <1>1 DEF GetChannelList
<1>. HIDE DEF rows
<1>6. DOMAIN list = 1 .. N /\ Len(list) = N
  <2>1. list = [i \in 1 .. N |-> [channel |-> rows[i][1], depth |-> Len(rows[i][2]) - 1]]
    BY <1>4, <1>5
  <2>. QED
    BY <1>3, <2>1
<1>7. ASSUME NEW i \in 1 .. N, NEW c, NEW k, <<root, c, k>> \in D.closure,
             rows[i] = <<c, PathTo(D, place, c, k)>>
      PROVE  list[i].channel = c /\ list[i].depth = k
  <2>1. Len(PathTo(D, place, c, k)) = k + 1 /\ k \in Nat
    BY <1>7, PathShape
  <2>2. list[i] = [channel |-> rows[i][1], depth |-> Len(rows[i][2]) - 1]
    BY <1>4, <1>5
  <2>3. rows[i][1] = c /\ rows[i][2] = PathTo(D, place, c, k)
    BY <1>7
  <2>4. Len(rows[i][2]) - 1 = k
    BY <2>1, <2>3
  <2>. QED
    BY <2>2, <2>3, <2>4
<1>8. ASSUME NEW i \in 1 .. N
      PROVE  /\ <<root, list[i].channel, list[i].depth>> \in D.closure
             /\ rows[i][2] = PathTo(D, place, list[i].channel, list[i].depth)
  <2>1. PICK c, k : <<root, c, k>> \in D.closure /\ rows[i] = <<c, PathTo(D, place, c, k)>>
    BY <1>2, <1>4
  <2>2. list[i].channel = c /\ list[i].depth = k
    BY <1>7, <2>1
  <2>. QED
    BY <2>1, <2>2
<1>9. ASSUME NEW c, NEW k, <<root, c, k>> \in D.closure
      PROVE  \E i \in 1 .. N : list[i].channel = c /\ list[i].depth = k
  <2>1. <<c, PathTo(D, place, c, k)>> \in T
    BY <1>2, <1>9
  <2>2. PICK i \in 1 .. N : rows[i] = <<c, PathTo(D, place, c, k)>>
    BY <1>4, <2>1
  <2>. QED
    BY <1>7, <1>9, <2>2
<1>10. ASSUME NEW i \in 1 .. N, NEW j \in 1 .. N
       PROVE  i < j <=> PathLess(PathTo(D, place, list[i].channel, list[i].depth),
                                 PathTo(D, place, list[j].channel, list[j].depth))
  <2>1. i < j <=> PathLess(rows[i][2], rows[j][2])
    BY <1>4
  <2>. QED
    BY <1>8, <2>1
<1>. QED
  BY <1>6, <1>8, <1>9, <1>10 DEF N

\* The way to an ancestor is the start of the way to the channel.
LEMMA WayOfAncestor ==
    ASSUME NEW D, DbInv(D), NEW ordering, NEW place, PlacesOf(D, ordering, place),
           NEW root, NEW d, NEW m \in Nat, <<root, d, m>> \in D.closure, NEW y \in 0 .. m
    PROVE  /\ <<root, AncestorAt(D, d, m - y), y>> \in D.closure
           /\ \A i \in 1 .. y + 1 :
                 PathTo(D, place, d, m)[i] = PathTo(D, place, AncestorAt(D, d, m - y), y)[i]
<1>. DEFINE n == m - y
            b == AncestorAt(D, d, n)
<1>1. /\ n \in Nat /\ y \in Nat /\ y + n = m
      /\ y + 1 \in 1 .. m + 1 /\ m + 1 - (y + 1) = n /\ (y + 1) - 1 = y
  OBVIOUS
<1>2. /\ <<AncestorAt(D, d, m + 1 - (y + 1)), d, m + 1 - (y + 1)>> \in D.closure
      /\ <<root, AncestorAt(D, d, m + 1 - (y + 1)), (y + 1) - 1>> \in D.closure
  BY <1>1, PathShape
<1>3. <<b, d, n>> \in D.closure /\ <<root, b, y>> \in D.closure
  BY <1>1, <1>2
<1>. HIDE DEF b, n
<1>4. ASSUME NEW i \in 1 .. y + 1
      PROVE  PathTo(D, place, d, y + n)[i] = PathTo(D, place, b, y)[i]
  BY <1>1, <1>3, PathThrough
<1>. QED
  BY <1>1, <1>3, <1>4 DEF b, n

\* The way to a channel is its parent's and one place more.
LEMMA WayOfParent ==
    ASSUME NEW D, DbInv(D), NEW ordering, NEW place, PlacesOf(D, ordering, place),
           NEW root, NEW d, NEW m \in Nat, <<root, d, m>> \in D.closure, root # d,
           NEW p, <<p, d, 1>> \in D.closure
    PROVE  /\ m - 1 \in Nat /\ <<root, p, m - 1>> \in D.closure
           /\ PathTo(D, place, d, m) = Append(PathTo(D, place, p, m - 1), PlaceIn(place, d))
<1>. DEFINE r == <<root, d, m>>
            x == <<p, d, 1>>
            n == m - 1
<1>1. n \in Nat /\ n + 1 = m
  <2>1. r[3] # 0
    BY DEF DbInv, SelfRows
  <2>. QED
    BY <2>1
<1>2. <<root, p, n>> \in D.closure
  <2>1. r \in D.closure /\ x \in D.closure /\ r[2] = x[2] /\ r[3] >= x[3]
    BY <1>1
  <2>2. <<r[1], x[1], r[3] - x[3]>> \in D.closure
    BY <2>1 DEF DbInv, OnePath
  <2>. QED
    BY <2>2
<1>. HIDE DEF n
<1>3. PathTo(D, place, d, n + 1) = Append(PathTo(D, place, p, n), PlaceIn(place, d))
  BY <1>1, <1>2, PathOfChild
<1>. QED
  BY <1>1, <1>2, <1>3 DEF n

\* A channel listed after another is below it, or some channel at most as deep
\* as the other is listed from behind the other on.
LEMMA BelowOrCut ==
    ASSUME NEW D, DbInv(D), Complete(D), NEW ordering, NEW place, PlacesOf(D, ordering, place),
           NEW root, NEW c, NEW k \in Nat, NEW d, NEW m \in Nat,
           <<root, c, k>> \in D.closure, <<root, d, m>> \in D.closure,
           PathLess(PathTo(D, place, c, k), PathTo(D, place, d, m))
    PROVE  \/ <<c, d, m - k>> \in D.closure
           \/ \E b : \E y \in 0 .. k :
                 /\ <<root, b, y>> \in D.closure
                 /\ PathLess(PathTo(D, place, c, k), PathTo(D, place, b, y))
                 /\ ~ PathLess(PathTo(D, place, d, m), PathTo(D, place, b, y))
<1>. DEFINE s == PathTo(D, place, c, k)
            t == PathTo(D, place, d, m)
<1>1. /\ k \in Nat /\ m \in Nat /\ s \in Seq(Nat) /\ t \in Seq(Nat)
      /\ Len(s) = k + 1 /\ Len(t) = m + 1
  BY PathShape
<1>2. ASSUME NEW h \in 0 .. m
      PROVE  \E b : /\ <<root, b, h>> \in D.closure
                    /\ \A i \in 1 .. h + 1 :
                          PathTo(D, place, d, m)[i] = PathTo(D, place, b, h)[i]
  <2>1. /\ <<root, AncestorAt(D, d, m - h), h>> \in D.closure
        /\ \A i \in 1 .. h + 1 :
              PathTo(D, place, d, m)[i] = PathTo(D, place, AncestorAt(D, d, m - h), h)[i]
    BY WayOfAncestor
  <2>. HIDE DEF s, t
  <2>. QED
    BY <2>1
<1>3. PICK q \in 1 .. Len(t) : /\ \A i \in 1 .. q - 1 : i <= Len(s) /\ s[i] = t[i]
                               /\ q <= Len(s) => s[q] < t[q]
  BY <1>1, LessIs
<1>. HIDE DEF s, t
<1>4. CASE q > k + 1
  <2>1. k <= m /\ \A i \in 1 .. k + 1 : i \in 1 .. q - 1
    BY <1>1, <1>3, <1>4, SMTT(30)
  <2>2. \A i \in 1 .. k + 1 : s[i] = t[i]
    BY <1>3, <2>1
  <2>. QED
    BY <2>1, <2>2, WayBelow DEF s, t
<1>5. CASE q <= k + 1
  <2>. DEFINE y == q - 1
              n == m - y
  <2>1. y \in 0 .. k /\ y \in Nat /\ n \in Nat /\ y + n = m /\ y + 1 = q
    BY <1>1, <1>3, <1>5, SMTT(30)
  <2>. HIDE DEF y, n
  <2>2. PICK b : /\ <<root, b, y>> \in D.closure
                 /\ \A i \in 1 .. y + 1 : t[i] = PathTo(D, place, b, y)[i]
    <3>1. y \in 0 .. m
      BY <2>1
    <3>. QED
      BY <1>2, <3>1 DEF t
  <2>. DEFINE u == PathTo(D, place, b, y)
  <2>3. \A i \in 1 .. q : t[i] = u[i]
    BY <2>1, <2>2
  <2>4. u \in Seq(Nat) /\ Len(u) = q
    BY <2>1, <2>2, PathShape
  <2>. HIDE DEF u
  <2>5. PathLess(s, u)
    <3>1. q \in 1 .. Len(u) /\ q <= Len(s) /\ \A i \in 1 .. q - 1 : i \in 1 .. q
      BY <1>1, <1>3, <1>5, <2>4
    <3>2. \A i \in 1 .. q - 1 : i <= Len(s) /\ s[i] = u[i]
      BY <1>3, <2>3, <3>1
    <3>3. s[q] < u[q]
      BY <1>3, <2>3, <2>4, <3>1
    <3>. QED
      BY <1>1, <2>4, <3>1, <3>2, <3>3, LessIs
  <2>6. ~ PathLess(t, u)
    <3>. SUFFICES ASSUME PathLess(t, u) PROVE FALSE
      OBVIOUS
    <3>1. PICK p \in 1 .. Len(u) : p <= Len(t) => t[p] < u[p]
      BY <1>1, <2>4, LessIs
    <3>2. p \in 1 .. q /\ p <= Len(t)
      BY <1>1, <1>3, <2>4, <3>1
    <3>3. t[p] = u[p] /\ t[p] < u[p]
      BY <2>3, <3>1, <3>2
    <3>4. t[p] \in Nat
      BY <1>1, <3>2
    <3>. QED
      BY <3>3, <3>4
  <2>. QED
    BY <2>1, <2>2, <2>5, <2>6 DEF s, t, u
<1>6. q > k + 1 \/ q <= k + 1
  <2>1. q \in Nat /\ k + 1 \in Nat
    BY <1>1
  <2>. QED
    BY <2>1
<1>. QED
  BY <1>4, <1>5, <1>6

\* Between a channel and one below it all are deeper than the first.
LEMMA BetweenIsDeeper ==
    ASSUME NEW D, DbInv(D), NEW ordering, NEW place, PlacesOf(D, ordering, place),
           NEW root, NEW c, NEW k \in Nat, NEW d, NEW m \in Nat, NEW b, NEW y \in Nat,
           <<root, c, k>> \in D.closure, <<root, d, m>> \in D.closure,
           <<root, b, y>> \in D.closure, d \in Branch(D.closure, c),
           PathLess(PathTo(D, place, c, k), PathTo(D, place, b, y)),
           ~ PathLess(PathTo(D, place, d, m), PathTo(D, place, b, y))
    PROVE  y > k
<1>1. PICK r \in D.closure : r[1] = c /\ r[2] = d
  BY DEF Branch
<1>2. <<c, d, r[3]>> \in D.closure /\ r[3] \in Nat
  BY <1>1, RowShape
<1>. DEFINE n == r[3]
            s == PathTo(D, place, c, k)
            t == PathTo(D, place, d, m)
            u == PathTo(D, place, b, y)
<1>3. k \in Nat /\ m \in Nat /\ y \in Nat
  BY PathShape
<1>4. m = k + n
  <2>1. <<root, d, k + n>> \in D.closure
    BY <1>2, PathThrough
  <2>. DEFINE x == <<root, d, k + n>>
              z == <<root, d, m>>
  <2>2. x[3] = z[3]
    BY <2>1, SameDepth
  <2>. QED
    BY <2>2
<1>5. \A i \in 1 .. k + 1 : t[i] = s[i]
  BY <1>2, <1>4, PathThrough
<1>6. /\ s \in Seq(Nat) /\ t \in Seq(Nat) /\ u \in Seq(Nat)
      /\ Len(s) = k + 1 /\ Len(t) = m + 1 /\ Len(u) = y + 1
  BY PathShape
<1>7. \A i \in 1 .. Len(s) : i <= Len(t) /\ s[i] = t[i]
  <2>1. \A i \in 1 .. k + 1 : i <= m + 1
    BY <1>2, <1>3, <1>4
  <2>. HIDE DEF s, t
  <2>. QED
    BY <1>5, <1>6, <2>1
<1>. HIDE DEF s, t, u
<1>8. Len(u) > Len(s)
  BY <1>6, <1>7, BetweenIsLonger DEF s, t, u
<1>. QED
  BY <1>3, <1>6, <1>8

\* No channel is listed before the sibling the server puts in front of it.
LEMMA SiblingsInOrder ==
    ASSUME NEW D, DbInv(D), Complete(D), NEW ordering, NEW place, PlacesOf(D, ordering, place),
           NEW root, NEW c, NEW k \in Nat, NEW d, NEW m \in Nat,
           <<root, c, k>> \in D.closure, <<root, d, m>> \in D.closure,
           c # CHANNEL_ROOT, ordering[c] = d
    PROVE  ~ PathLess(PathTo(D, place, c, k), PathTo(D, place, d, m))
<1>. DEFINE s == PathTo(D, place, c, k)
            t == PathTo(D, place, d, m)
            Par(z) == D.channels[z].parent
<1>. SUFFICES ASSUME PathLess(s, t) PROVE FALSE
  OBVIOUS
<1>1. /\ k \in Nat /\ m \in Nat /\ s \in Seq(Nat) /\ t \in Seq(Nat)
      /\ Len(s) = k + 1 /\ Len(t) = m + 1
      /\ c \in Children(D) /\ d \in Loaded(D)
  BY PathShape DEF Children
<1>2. PICK q \in 1 .. Len(t) : /\ \A i \in 1 .. q - 1 : i <= Len(s) /\ s[i] = t[i]
                               /\ q <= Len(s) => s[q] < t[q]
  BY <1>1, LessIs
<1>3. CASE d = root
  \* Nothing comes before the channel the list is of.
  <2>1. m = 0
    <3>. DEFINE r == <<root, d, m>>
    <3>1. r[3] = 0
      BY <1>3 DEF DbInv, SelfRows
    <3>. QED
      BY <3>1
  <2>2. q = 1
    BY <1>1, <1>2, <2>1
  <2>3. s[1] = PlaceIn(place, AncestorAt(D, c, k)) /\ t[1] = PlaceIn(place, AncestorAt(D, d, m))
    <3>1. 1 \in 1 .. k + 1 /\ 1 \in 1 .. m + 1 /\ k + 1 - 1 = k /\ m + 1 - 1 = m
      BY <1>1
    <3>. QED
      BY <3>1 DEF PathTo
  <2>4. AncestorAt(D, c, k) = root /\ AncestorAt(D, d, m) = root
    BY AncestorOfRow
  <2>5. s[1] = t[1] /\ 1 <= Len(s) /\ s[1] \in Nat
    BY <1>1, <2>3, <2>4
  <2>6. s[1] < t[1]
    BY <1>2, <2>2, <2>5
  <2>. HIDE DEF s, t
  <2>. QED
    BY <2>5, <2>6
<1>4. CASE d # root
  <2>1. d # CHANNEL_ROOT
    <3>. DEFINE r == <<root, d, m>>
    <3>1. r[2] = CHANNEL_ROOT => r[1] = CHANNEL_ROOT
      BY DEF DbInv, RootOnTop
    <3>. QED
      BY <1>4, <3>1
  <2>2. /\ d \in Children(D) /\ Par(c) = Par(d) /\ place[c] = place[d] + 1
        /\ place[d] \in Nat
    BY <1>1, <2>1 DEF PlacesOf, Children
  <2>. DEFINE p == Par(d)
  <2>3. <<p, d, 1>> \in D.closure /\ <<p, c, 1>> \in D.closure
    BY <1>1, <2>2 DEF Complete, Children
  <2>. HIDE DEF p
  <2>. DEFINE n == m - 1
  <2>4. /\ n \in Nat /\ m = n + 1 /\ <<root, p, n>> \in D.closure
        /\ t = Append(PathTo(D, place, p, n), PlaceIn(place, d))
    BY <1>4, <2>3, WayOfParent
  <2>. HIDE DEF n
  <2>5. k = m
    <3>1. <<root, c, n + 1>> \in D.closure
      <4>1. 1 \in Nat
        OBVIOUS
      <4>. QED
        BY <2>3, <2>4, <4>1, PathThrough
    <3>. DEFINE r == <<root, c, k>>
                x == <<root, c, m>>
    <3>2. r[3] = x[3]
      BY <2>4, <3>1, SameDepth
    <3>. QED
      BY <3>2
  <2>6. s = Append(PathTo(D, place, p, n), PlaceIn(place, c))
    <3>1. PathTo(D, place, c, n + 1) = Append(PathTo(D, place, p, n), PlaceIn(place, c))
      <4>1. /\ <<root, p, n>> \in D.closure /\ <<p, c, 1>> \in D.closure
            /\ n \in Nat
        BY <2>3, <2>4
      <4>. QED
        BY ONLY <4>1, DbInv(D), PlacesOf(D, ordering, place), PathOfChild, SMTT(30)
    <3>. QED
      BY <2>4, <2>5, <3>1
  <2>. DEFINE u == PathTo(D, place, p, n)
  <2>7. u \in Seq(Nat) /\ Len(u) = m
    BY <2>4, PathShape
  <2>. HIDE DEF s, t, u
  <2>8. /\ \A i \in 1 .. m : s[i] = u[i] /\ t[i] = u[i]
        /\ s[m + 1] = place[c] /\ t[m + 1] = place[d]
    <3>1. PlaceIn(place, c) = place[c] /\ PlaceIn(place, d) = place[d]
      BY <1>1, <2>2 DEF PlaceIn, Children
    <3>. QED
      BY <1>1, <2>2, <2>4, <2>6, <2>7, <3>1 DEF u
  <2>9. q \in 1 .. m \/ q = m + 1
    BY <1>1, <1>2
  <2>10. q <= Len(s)
    BY <1>1, <2>5, <2>9
  <2>11. s[q] < t[q]
    BY <1>2, <2>10
  <2>12. CASE q \in 1 .. m
    <3>1. s[q] = t[q] /\ s[q] \in Nat
      BY <1>1, <1>2, <2>8, <2>10, <2>12
    <3>. QED
      BY <2>11, <3>1
  <2>13. CASE q = m + 1
    BY <2>2, <2>8, <2>11, <2>13
  <2>. QED
    BY <2>9, <2>12, <2>13
<1>. QED
  BY <1>3, <1>4

\* The channels listed up to one are all deeper exactly when that one is below.
LEMMA BranchIsBehind ==
    ASSUME NEW D, DbInv(D), Complete(D), NEW ordering, NEW place, PlacesOf(D, ordering, place),
           NEW root \in Loaded(D), NEW list, list = GetChannelList(D, ordering, root),
           NEW i \in DOMAIN list, NEW j \in DOMAIN list, i < j
    PROVE  list[j].channel \in Branch(D.closure, list[i].channel)
             <=> \A h \in i + 1 .. j : list[h].depth > list[i].depth
<1>. DEFINE N == Cardinality(Branch(D.closure, root))
            At(h) == list[h].channel
            Level(h) == list[h].depth
            Way(h) == PathTo(D, place, At(h), Level(h))
<1>1. /\ DOMAIN list = 1 .. N /\ Len(list) = N
      /\ \A h \in DOMAIN list : <<root, At(h), Level(h)>> \in D.closure
      /\ \A c, k : <<root, c, k>> \in D.closure
                     => \E h \in DOMAIN list : At(h) = c /\ Level(h) = k
      /\ \A h \in DOMAIN list, l \in DOMAIN list : h < l <=> PathLess(Way(h), Way(l))
  BY ListRows
<1>2. /\ <<root, At(i), Level(i)>> \in D.closure /\ Level(i) \in Nat
      /\ <<root, At(j), Level(j)>> \in D.closure /\ Level(j) \in Nat
      /\ i \in Nat /\ j \in Nat /\ N \in Nat
  <2>1. <<root, At(i), Level(i)>> \in D.closure /\ <<root, At(j), Level(j)>> \in D.closure
    BY <1>1
  <2>2. Level(i) \in Nat /\ Level(j) \in Nat
    BY <2>1, PathShape
  <2>3. IsFiniteSet(Branch(D.closure, root))
    <3>1. Branch(D.closure, root) \subseteq Loaded(D)
      BY RowShape DEF Branch
    <3>. QED
      BY <3>1, LoadedFinite, FS_Subset
  <2>. QED
    BY <1>1, <2>1, <2>2, <2>3, FS_CardinalityType
<1>3. ASSUME At(j) \in Branch(D.closure, At(i)), NEW h \in i + 1 .. j
      PROVE  Level(h) > Level(i)
  <2>1. h \in DOMAIN list /\ i < h /\ ~ (j < h)
    BY <1>1, <1>2
  <2>2. <<root, At(h), Level(h)>> \in D.closure
    BY <1>1, <2>1
  <2>3. Level(h) \in Nat
    BY <2>2, PathShape
  <2>4. PathLess(Way(i), Way(h)) /\ ~ PathLess(Way(j), Way(h))
    BY <1>1, <2>1
  <2>. QED
    BY <1>2, <1>3, <2>2, <2>3, <2>4, BetweenIsDeeper
<1>4. ASSUME \A h \in i + 1 .. j : Level(h) > Level(i)
      PROVE  At(j) \in Branch(D.closure, At(i))
  <2>1. PathLess(Way(i), Way(j))
    BY <1>1
  <2>2. \/ <<At(i), At(j), Level(j) - Level(i)>> \in D.closure
        \/ \E b : \E y \in 0 .. Level(i) :
              /\ <<root, b, y>> \in D.closure
              /\ PathLess(Way(i), PathTo(D, place, b, y))
              /\ ~ PathLess(Way(j), PathTo(D, place, b, y))
    <3>. DEFINE c == At(i)
                k == Level(i)
                d == At(j)
                m == Level(j)
    <3>1. /\ <<root, c, k>> \in D.closure /\ k \in Nat
          /\ <<root, d, m>> \in D.closure /\ m \in Nat
          /\ PathLess(PathTo(D, place, c, k), PathTo(D, place, d, m))
      BY <1>2, <2>1
    <3>. HIDE DEF c, k, d, m
    <3>2. \/ <<c, d, m - k>> \in D.closure
          \/ \E b : \E y \in 0 .. k :
                /\ <<root, b, y>> \in D.closure
                /\ PathLess(PathTo(D, place, c, k), PathTo(D, place, b, y))
                /\ ~ PathLess(PathTo(D, place, d, m), PathTo(D, place, b, y))
      BY ONLY <3>1, DbInv(D), Complete(D), PlacesOf(D, ordering, place), BelowOrCut
    <3>. QED
      BY <3>2 DEF c, k, d, m
  <2>3. CASE <<At(i), At(j), Level(j) - Level(i)>> \in D.closure
    <3>. DEFINE r == <<At(i), At(j), Level(j) - Level(i)>>
    <3>1. r \in {x \in D.closure : x[1] = At(i)} /\ r[2] = At(j)
      BY <2>3
    <3>. HIDE DEF r
    <3>. QED
      BY <3>1 DEF Branch
  <2>4. ASSUME NEW b, NEW y \in 0 .. Level(i), <<root, b, y>> \in D.closure,
               PathLess(Way(i), PathTo(D, place, b, y)),
               ~ PathLess(Way(j), PathTo(D, place, b, y))
        PROVE  FALSE
    <3>1. PICK h \in DOMAIN list : At(h) = b /\ Level(h) = y
      BY <1>1, <2>4
    <3>2. i < h /\ ~ (j < h)
      BY <1>1, <2>4, <3>1
    <3>3. h \in i + 1 .. j
      BY <1>1, <1>2, <3>2
    <3>. QED
      BY <1>2, <1>4, <3>1, <3>3
  <2>. QED
    BY <2>2, <2>3, <2>4
<1>. QED
  BY <1>3, <1>4

\* In consistent tables where no channel is missing the list is the tree.
LEMMA ListIsTree ==
    ASSUME DbInv(db), Complete(db), NEW ordering \in ServerOrders(db), NEW root \in Loaded(db)
    PROVE  Lists(GetChannelList(db, ordering, root), ordering, root)
<1>1. PICK place : PlacesOf(db, ordering, place)
  BY SiblingPlaces
<1>. DEFINE list == GetChannelList(db, ordering, root)
            Way(h) == PathTo(db, place, list[h].channel, list[h].depth)
<1>2. /\ Len(list) = Cardinality(Branch(db.closure, root))
      /\ \A i \in DOMAIN list : <<root, list[i].channel, list[i].depth>> \in db.closure
      /\ \A c, k : <<root, c, k>> \in db.closure
                     => \E i \in DOMAIN list : list[i].channel = c /\ list[i].depth = k
      /\ \A i \in DOMAIN list, j \in DOMAIN list : i < j <=> PathLess(Way(i), Way(j))
  BY <1>1, ListRows
<1>3. {<<root, e.channel, e.depth>> : e \in ToSet(list)} = {r \in db.closure : r[1] = root}
  <2>. DEFINE shown == {<<root, e.channel, e.depth>> : e \in ToSet(list)}
              known == {r \in db.closure : r[1] = root}
  <2>1. ASSUME NEW r \in shown PROVE r \in known
    <3>1. PICK e \in ToSet(list) : r = <<root, e.channel, e.depth>>
      OBVIOUS
    <3>2. PICK i \in DOMAIN list : e = list[i]
      BY <3>1 DEF ToSet
    <3>. QED
      BY <1>2, <3>1, <3>2
  <2>2. ASSUME NEW r \in known PROVE r \in shown
    <3>1. <<root, r[2], r[3]>> \in db.closure /\ r = <<root, r[2], r[3]>>
      BY RowShape
    <3>2. PICK i \in DOMAIN list : list[i].channel = r[2] /\ list[i].depth = r[3]
      BY <1>2, <3>1
    <3>. QED
      BY <3>1, <3>2 DEF ToSet
  <2>. HIDE DEF shown, known
  <2>3. shown = known
    BY <2>1, <2>2
  <2>. QED
    BY <2>3 DEF shown, known
<1>4. ASSUME NEW i \in DOMAIN list, NEW j \in DOMAIN list, i < j
      PROVE  list[j].channel \in Branch(db.closure, list[i].channel)
               <=> \A h \in i + 1 .. j : list[h].depth > list[i].depth
  BY <1>1, <1>4, BranchIsBehind
<1>5. ASSUME NEW i \in DOMAIN list, NEW j \in DOMAIN list, i < j,
             list[i].channel # CHANNEL_ROOT, ordering[list[i].channel] = list[j].channel
      PROVE  FALSE
  <2>1. /\ <<root, list[i].channel, list[i].depth>> \in db.closure
        /\ <<root, list[j].channel, list[j].depth>> \in db.closure
    BY <1>2
  <2>2. list[i].depth \in Nat /\ list[j].depth \in Nat
    BY <1>1, <2>1, PathShape
  <2>3. PathLess(Way(i), Way(j))
    BY <1>2, <1>5
  <2>. HIDE DEF list
  <2>. QED
    BY <1>1, <1>5, <2>1, <2>2, <2>3, SiblingsInOrder
<1>. HIDE DEF list
<1>. QED
  BY <1>2, <1>3, <1>4, <1>5 DEF Lists, list

(***************************************************************************)
(* When no channel is missing, the list getChannelList returns for any      *)
(* order of the server is the tree: every channel of the branch once, at    *)
(* its true depth, with its own branch right behind it, and no channel      *)
(* before the sibling it comes after.                                       *)
(***************************************************************************)
THEOREM ListsShowTree == Spec => []ListShowsTree
<1>1. TablesConsistent => ListShowsTree
  BY ListIsTree DEF TablesConsistent, ListShowsTree
<1>. QED
  BY <1>1, TablesStayConsistent, PTL
=============================================================================
