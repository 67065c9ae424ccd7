---------------------------- MODULE TS3LookupProofs ----------------------------
(***************************************************************************)
(* What getChannelID answers, for every set of channels, every tables the   *)
(* calls can bring about and every distance of the aircraft: the rows of    *)
(* its join are the ways through the forest of ChannelForest, so that its   *)
(* order finds what the order over the forest promises.                     *)
(***************************************************************************)
EXTENDS TS3ChannelsProofs

\* The data columns: ranges are numbers and places are ones texts may name, and every
\* frequency row is a channel with the two columns of a frequency.
StoredData(D) ==
    /\ \A c \in Loaded(D) : /\ D.channels[c].range \in Nat
                            /\ D.channels[c].place \in Positions \cup {NoPosition}
    /\ D.channelFrequency \subseteq Node \X Nat \X BOOLEAN

\* The operations keep it, whatever they are called with.
LEMMA DeleteKeepsData ==
    ASSUME NEW D, StoredData(D), NEW d
    PROVE  StoredData(DeleteChannel(D, d))
<1>. DEFINE E == DeleteChannel(D, d)
<1>1. /\ Loaded(E) \subseteq Loaded(D) /\ E.channelFrequency \subseteq D.channelFrequency
      /\ \A c \in Loaded(E) : E.channels[c] = D.channels[c]
  BY DEF DeleteChannel, Loaded
<1>. HIDE DEF E
<1>. QED
  BY <1>1 DEF StoredData, E

LEMMA InsertKeepsData ==
    ASSUME NEW C, StoredData(C), NEW ch \in Channel, NEW parent, NEW facts \in Facts
    PROVE  StoredData(Inserted(C, ch, parent, facts))
<1>. DEFINE E == Inserted(C, ch, parent, facts)
<1>1. E.channels = [c \in Loaded(C) \cup {ch} |->
                      IF c = ch THEN [parent |-> parent,
                                      range  |-> facts.range,
                                      place  |-> facts.place]
                      ELSE C.channels[c]]
  BY DEF Inserted
<1>2. E.channelFrequency = C.channelFrequency \cup FrequencyRows(ch, facts)
  BY DEF Inserted
<1>3. /\ facts.range \in Nat /\ facts.rows \subseteq Nat \X BOOLEAN
      /\ facts.place \in Positions \cup {NoPosition}
  BY TablesAssumption DEF Positions
<1>4. FrequencyRows(ch, facts) \subseteq Node \X Nat \X BOOLEAN
  BY <1>3 DEF FrequencyRows, Node
<1>. HIDE DEF E
<1>5. Loaded(E) = Loaded(C) \cup {ch}
  BY <1>1 DEF Loaded
<1>6. ASSUME NEW c \in Loaded(E)
      PROVE  /\ E.channels[c].range \in Nat
             /\ E.channels[c].place \in Positions \cup {NoPosition}
  <2>1. CASE c = ch
    <3>1. E.channels[c] = [parent |-> parent, range  |-> facts.range, place  |-> facts.place]
      BY <1>1, <2>1
    <3>. QED
      BY <1>3, <3>1
  <2>2. CASE c # ch
    BY <1>1, <1>5, <2>2 DEF StoredData
  <2>. QED
    BY <2>1, <2>2
<1>. QED
  BY <1>2, <1>4, <1>6 DEF StoredData, E

LEMMA EmptyData == StoredData(EmptyDb)
  BY TablesAssumption DEF EmptyDb, InitDatabase, StoredData, Loaded, Positions

\* The invariant the lookups are proved from.
LEMMA DataInvariant == Spec => [](TablesConsistent /\ StoredData(db))
<1>1. Init => StoredData(db)
  BY EmptyData DEF Init
<1>2. TablesConsistent /\ StoredData(db) /\ [Next]_db => StoredData(db')
  <2>. SUFFICES ASSUME DbInv(db), StoredData(db), [Next]_db PROVE StoredData(db')
    BY DEF TablesConsistent
  <2>1. ASSUME NEW ch \in Channel, NEW parent \in Node \ {ch}, NEW facts \in Facts,
               addOrUpdateChannel(ch, parent, facts)
        PROVE  StoredData(db')
    BY <2>1, LoadedTables, DeleteKeepsData, InsertKeepsData DEF addOrUpdateChannel
  <2>2. ASSUME NEW ch \in Channel, deleteChannel(ch) PROVE StoredData(db')
    BY <2>2, DeleteKeepsData DEF deleteChannel
  <2>3. CASE deleteAllChannels
    BY <2>3, EmptyData DEF deleteAllChannels
  <2>4. CASE UNCHANGED db
    BY <2>4
  <2>. QED
    BY <2>1, <2>2, <2>3, <2>4 DEF Next
<1>3. StoredData(db)' <=> StoredData(db')
  BY DEF StoredData, Loaded
<1>. QED
  BY <1>1, <1>2, <1>3, TablesStayConsistent, PTL DEF Spec

-----------------------------------------------------------------------------
\* Up by u and down by d is the shortest way from cur to s: any other is longer both ways.
ShortestBy(D, cur, s, u, d) ==
    /\ u[1] = d[1] /\ u[2] = cur /\ d[2] = s
    /\ Forest!Steps(Links(D), cur, s) = [distance |-> u[3] + d[3], removed |-> d[3]]
    /\ \A x \in D.closure, y \in D.closure :
          (x[1] = y[1] /\ x[2] = cur /\ y[2] = s)
            => \E k \in Nat : /\ <<x[1], u[1], k>> \in D.closure
                              /\ x[3] = u[3] + k /\ y[3] = d[3] + k

(***************************************************************************)
(* Two channels with a common ancestor meet at the lowest one: of the ways  *)
(* between them that the rows offer it is on the shortest, and every other  *)
(* way is longer by the same number of levels on either side.               *)
(***************************************************************************)
LEMMA ShortestWay ==
    ASSUME NEW D, DbInv(D), NEW cur \in Loaded(D), NEW s \in Loaded(D), NEW b \in Node,
           cur \in Branch(D.closure, b), s \in Branch(D.closure, b)
    PROVE  \E u \in D.closure, d \in D.closure : ShortestBy(D, cur, s, u, d)
<1>. DEFINE l == Links(D)
            Common(a) == Forest!IsAbove(l, a, cur) /\ Forest!IsAbove(l, a, s)
            Lowest(a) == /\ Forest!IsAbove(l, a, cur) /\ Forest!IsAbove(l, a, s)
                         /\ \A x \in DOMAIN l :
                               (Forest!IsAbove(l, x, cur) /\ Forest!IsAbove(l, x, s))
                                  => Forest!IsAbove(l, x, a)
            a == Forest!Meeting(l, cur, s)
<1>1. Loaded(D) \subseteq Node /\ DOMAIN l = Loaded(D)
  BY DEF DbInv, DbType, Links
<1>2. \A x \in Loaded(D), c \in Loaded(D) :
         Forest!IsAbove(l, x, c) <=> \E r \in D.closure : r[1] = x /\ r[2] = c
  BY <1>1, AboveIsRow DEF Branch
<1>3. a = CHOOSE x \in DOMAIN l : Lowest(x)
  BY DEF Forest!Meeting
<1>. HIDE DEF l, a
<1>4. \E x \in DOMAIN l : Lowest(x)
  <2>. DEFINE ways == {r \in D.closure : r[2] = cur /\ s \in Branch(D.closure, r[1])}
              S == {r[3] : r \in ways}
  <2>1. PICK r \in ways : \A t \in ways : r[3] <= t[3]
    <3>1. S \subseteq Nat
      BY RowShape
    <3>2. S # {}
      BY DEF Branch
    <3>3. PICK m \in S : \A n \in S : m <= n
      BY <3>1, <3>2, LeastNatural
    <3>. QED
      BY <3>3
  <2>2. /\ r \in D.closure /\ r[1] \in Loaded(D) /\ r[2] = cur /\ r[3] \in Nat
        /\ \E y \in D.closure : y[1] = r[1] /\ y[2] = s
    BY <2>1, RowShape DEF Branch
  <2>3. Forest!IsAbove(l, r[1], cur) /\ Forest!IsAbove(l, r[1], s)
    BY <1>2, <2>2
  <2>4. ASSUME NEW x \in Loaded(D), Forest!IsAbove(l, x, cur), Forest!IsAbove(l, x, s)
        PROVE  Forest!IsAbove(l, x, r[1])
    <3>1. PICK t \in D.closure : t[1] = x /\ t[2] = cur
      BY <1>2, <2>4
    <3>2. s \in Branch(D.closure, x)
      BY <1>2, <2>4 DEF Branch
    <3>3. t \in ways /\ t[3] \in Nat
      BY <3>1, <3>2, RowShape
    <3>4. t[3] >= r[3]
      BY <2>1, <2>2, <3>3
    <3>5. <<t[1], r[1], t[3] - r[3]>> \in D.closure
      BY <2>2, <3>1, <3>4 DEF DbInv, OnePath
    <3>6. \E y \in D.closure : y[1] = x /\ y[2] = r[1]
      BY <3>1, <3>5
    <3>. QED
      BY <1>2, <2>2, <3>6
  <2>. QED
    BY <1>1, <2>2, <2>3, <2>4
<1>5. a \in Loaded(D) /\ Lowest(a)
  <2>. HIDE DEF Lowest
  <2>. QED
    BY <1>1, <1>3, <1>4
<1>6. PICK u \in D.closure, d \in D.closure : /\ u[1] = a /\ u[2] = cur
                                              /\ d[1] = a /\ d[2] = s
  BY <1>2, <1>5
<1>7. u[3] \in Nat /\ d[3] \in Nat
  BY RowShape
<1>8. Forest!Steps(Links(D), cur, s) = [distance |-> u[3] + d[3], removed |-> d[3]]
  <2>1. Forest!Depth(Links(D), a, cur) = u[3] /\ Forest!Depth(Links(D), a, s) = d[3]
    BY <1>6, DepthOfRow
  <2>. QED
    BY <2>1 DEF Forest!Steps, a, l
<1>9. ASSUME NEW x \in D.closure, NEW y \in D.closure, x[1] = y[1], x[2] = cur, y[2] = s
      PROVE  \E k \in Nat : /\ <<x[1], u[1], k>> \in D.closure
                            /\ x[3] = u[3] + k /\ y[3] = d[3] + k
  <2>1. x[1] \in Loaded(D)
    BY RowShape
  <2>2. Forest!IsAbove(l, x[1], a)
    BY <1>1, <1>2, <1>5, <1>9, <2>1
  <2>3. PICK t \in D.closure : t[1] = x[1] /\ t[2] = a
    BY <1>2, <1>5, <2>1, <2>2
  <2>4. t = <<x[1], a, t[3]>> /\ t[3] \in Nat
    BY <2>3, RowShape
  <2>5. <<t[1], u[2], t[3] + u[3]>> \in D.closure /\ <<t[1], d[2], t[3] + d[3]>> \in D.closure
    BY <1>6, <2>3 DEF DbInv, Composes
  <2>. DEFINE tu == <<t[1], u[2], t[3] + u[3]>>
              td == <<t[1], d[2], t[3] + d[3]>>
  <2>6. tu[3] = x[3]
    BY <1>6, <1>9, <2>3, <2>5, SameDepth
  <2>7. td[3] = y[3]
    BY <1>6, <1>9, <2>3, <2>5, SameDepth
  <2>8. x[3] = u[3] + t[3] /\ y[3] = d[3] + t[3]
    BY <1>7, <2>4, <2>6, <2>7
  <2>. QED
    BY <1>6, <2>4, <2>8
<1>10. u[1] = d[1] /\ u[2] = cur /\ d[2] = s
  BY <1>6
<1>11. \A x \in D.closure, y \in D.closure :
          (x[1] = y[1] /\ x[2] = cur /\ y[2] = s)
            => \E k \in Nat : /\ <<x[1], u[1], k>> \in D.closure
                              /\ x[3] = u[3] + k /\ y[3] = d[3] + k
  BY <1>9
<1>12. ShortestBy(D, cur, s, u, d)
  BY <1>8, <1>10, <1>11, Zenon DEF ShortestBy
<1>. QED
  BY <1>12

\* The rows of the join, one for each channel two ways lead to.
LEMMA StationRowsAre ==
    ASSUME NEW D, NEW f, NEW f8, NEW cur, NEW root, NEW x
    PROVE  x \in Stations(D, f, f8, cur, root)
             <=> \E u \in D.closure, d \in D.closure :
                    /\ u[2] = cur /\ u[1] \in Branch(D.closure, root) /\ u[1] = d[1]
                    /\ <<d[2], f, f8>> \in D.channelFrequency
                    /\ x = [channel |-> d[2], distance |-> u[3] + d[3], removed |-> d[3]]
<1>. DEFINE up == {r \in D.closure : r[2] = cur /\ r[1] \in Branch(D.closure, root)}
            down == {r \in D.closure : <<r[2], f, f8>> \in D.channelFrequency}
<1>1. x \in Stations(D, f, f8, cur, root)
        <=> \E j \in {pair \in up \X down : pair[1][1] = pair[2][1]} :
               x = [channel |-> j[2][2], distance |-> j[1][3] + j[2][3], removed |-> j[2][3]]
  BY DEF Stations
<1>2. ASSUME NEW u \in up, NEW d \in down, u[1] = d[1]
      PROVE  <<u, d>> \in {pair \in up \X down : pair[1][1] = pair[2][1]}
  BY <1>2
<1>3. ASSUME NEW j \in up \X down
      PROVE  \E u \in up, d \in down : j = <<u, d>>
  OBVIOUS
<1>4. x \in Stations(D, f, f8, cur, root)
        <=> \E u \in up, d \in down :
               /\ u[1] = d[1]
               /\ x = [channel |-> d[2], distance |-> u[3] + d[3], removed |-> d[3]]
  <2>. HIDE DEF up, down
  <2>. QED
    BY <1>1, <1>2, <1>3
<1>. QED
  BY <1>4

\* The stations a lookup may choose from.
InReach(D, f, f8, cur, root) ==
    {s \in Loaded(D) : /\ <<s, f, f8>> \in D.channelFrequency
                       /\ cur \in Branch(D.closure, root) /\ s \in Branch(D.closure, root)}

\* The distance and the depth below the meeting point that ChannelForest promises.
Way(D, cur, s) == Forest!Steps(Links(D), cur, s)

\* The join has the shortest way to every station in reach, and longer ones.
LEMMA StationsAreWays ==
    ASSUME NEW D, DbInv(D), NEW f, NEW f8, NEW cur \in Loaded(D), NEW root \in Loaded(D)
    PROVE  /\ \A s \in InReach(D, f, f8, cur, root) :
                 /\ Way(D, cur, s).distance \in Nat /\ Way(D, cur, s).removed \in Nat
                 /\ [channel |-> s, distance |-> Way(D, cur, s).distance,
                     removed |-> Way(D, cur, s).removed] \in Stations(D, f, f8, cur, root)
           /\ \A x \in Stations(D, f, f8, cur, root) :
                 /\ x.channel \in InReach(D, f, f8, cur, root)
                 /\ x = [channel |-> x.channel, distance |-> x.distance, removed |-> x.removed]
                 /\ \E k \in Nat : /\ x.distance = Way(D, cur, x.channel).distance + k + k
                                   /\ x.removed = Way(D, cur, x.channel).removed + k
<1>. DEFINE reach == InReach(D, f, f8, cur, root)
            St == Stations(D, f, f8, cur, root)
<1>0. root \in Node
  BY DEF DbInv, DbType
<1>1. ASSUME NEW s \in reach
      PROVE  \E u \in D.closure, d \in D.closure :
                /\ ShortestBy(D, cur, s, u, d)
                /\ u[1] \in Branch(D.closure, root)
                /\ u[3] \in Nat /\ d[3] \in Nat
  <2>1. /\ s \in Loaded(D) /\ cur \in Branch(D.closure, root)
        /\ s \in Branch(D.closure, root)
    BY DEF InReach
  <2>2. PICK u \in D.closure, d \in D.closure : ShortestBy(D, cur, s, u, d)
    BY <1>0, <2>1, ShortestWay
  <2>3. PICK x \in D.closure, y \in D.closure : /\ x[1] = root /\ x[2] = cur
                                                /\ y[1] = root /\ y[2] = s
    BY <2>1 DEF Branch
  <2>4. PICK k \in Nat : <<root, u[1], k>> \in D.closure
    BY <2>2, <2>3 DEF ShortestBy
  <2>5. u[1] \in Branch(D.closure, root)
    BY <2>4 DEF Branch
  <2>6. u[3] \in Nat /\ d[3] \in Nat
    BY RowShape
  <2>. QED
    BY <2>2, <2>5, <2>6
<1>2. ASSUME NEW s \in reach
      PROVE  /\ Way(D, cur, s).distance \in Nat /\ Way(D, cur, s).removed \in Nat
             /\ [channel |-> s, distance |-> Way(D, cur, s).distance,
                 removed |-> Way(D, cur, s).removed] \in St
  <2>1. PICK u \in D.closure, d \in D.closure :
                /\ ShortestBy(D, cur, s, u, d)
                /\ u[1] \in Branch(D.closure, root)
                /\ u[3] \in Nat /\ d[3] \in Nat
    BY <1>1
  <2>2. /\ u[1] = d[1] /\ u[2] = cur /\ d[2] = s
        /\ Way(D, cur, s) = [distance |-> u[3] + d[3], removed |-> d[3]]
    BY <2>1 DEF ShortestBy, Way
  <2>3. <<d[2], f, f8>> \in D.channelFrequency
    BY <2>2 DEF InReach
  <2>4. Way(D, cur, s).distance = u[3] + d[3] /\ Way(D, cur, s).removed = d[3]
    BY <2>2
  <2>5. [channel |-> d[2], distance |-> u[3] + d[3], removed |-> d[3]] \in St
    <3>. DEFINE x == [channel |-> d[2], distance |-> u[3] + d[3], removed |-> d[3]]
    <3>. HIDE DEF St
    <3>1. \E v \in D.closure, w \in D.closure :
                    /\ v[2] = cur /\ v[1] \in Branch(D.closure, root) /\ v[1] = w[1]
                    /\ <<w[2], f, f8>> \in D.channelFrequency
                    /\ x = [channel |-> w[2], distance |-> v[3] + w[3], removed |-> w[3]]
      BY <2>1, <2>2, <2>3
    <3>. HIDE DEF x
    <3>2. x \in St
      BY <3>1, StationRowsAre DEF St
    <3>. QED
      BY <3>2 DEF x
  <2>. QED
    BY <2>1, <2>2, <2>4, <2>5
<1>3. ASSUME NEW x \in St
      PROVE  /\ x.channel \in reach
             /\ x = [channel |-> x.channel, distance |-> x.distance, removed |-> x.removed]
             /\ \E k \in Nat : /\ x.distance = Way(D, cur, x.channel).distance + k + k
                               /\ x.removed = Way(D, cur, x.channel).removed + k
  <2>1. PICK u \in D.closure, d \in D.closure :
                    /\ u[2] = cur /\ u[1] \in Branch(D.closure, root) /\ u[1] = d[1]
                    /\ <<d[2], f, f8>> \in D.channelFrequency
                    /\ x = [channel |-> d[2], distance |-> u[3] + d[3], removed |-> d[3]]
    BY StationRowsAre
  <2>2. x.channel = d[2] /\ x.distance = u[3] + d[3] /\ x.removed = d[3]
    BY <2>1
  <2>3. PICK r \in D.closure : r[1] = root /\ r[2] = u[1]
    BY <2>1 DEF Branch
  <2>4. cur \in Branch(D.closure, root) /\ d[2] \in Branch(D.closure, root)
    <3>1. /\ <<r[1], u[2], r[3] + u[3]>> \in D.closure
          /\ <<r[1], d[2], r[3] + d[3]>> \in D.closure
      BY <2>1, <2>3 DEF DbInv, Composes
    <3>. QED
      BY <2>1, <2>3, <3>1 DEF Branch
  <2>5. d[2] \in reach
    BY <2>1, <2>4, RowShape DEF InReach
  <2>6. PICK v \in D.closure, w \in D.closure :
                /\ ShortestBy(D, cur, d[2], v, w)
                /\ v[3] \in Nat /\ w[3] \in Nat
    BY <1>1, <2>5
  <2>7. PICK k \in Nat : u[3] = v[3] + k /\ d[3] = w[3] + k
    BY <2>1, <2>6 DEF ShortestBy
  <2>8. /\ Way(D, cur, x.channel).distance = v[3] + w[3]
        /\ Way(D, cur, x.channel).removed = w[3]
    BY <2>2, <2>6 DEF ShortestBy, Way
  <2>9. x.distance = Way(D, cur, x.channel).distance + k + k
    BY <2>2, <2>6, <2>7, <2>8
  <2>10. x.removed = Way(D, cur, x.channel).removed + k
    BY <2>2, <2>7, <2>8
  <2>. QED
    BY <2>1, <2>2, <2>5, <2>9, <2>10
<1>. QED
  BY <1>2, <1>3

-----------------------------------------------------------------------------
\* The distances of the channels from the aircraft that getChannelID orders by.
AwayOf(D, rangeFrom) ==
    [c \in Loaded(D) |-> IF D.channels[c].place \in DOMAIN rangeFrom
                         THEN rangeFrom[D.channels[c].place] ELSE D.channels[c].range]

\* Whether the closure table or the forest is asked, a channel is under root or not.
LEMMA NothingTunedIs ==
    ASSUME DbInv(db), NEW cur \in Loaded(db), NEW root \in Loaded(db)
    PROVE  NothingTuned(cur, root)
             = IF ChannelIsUnderRoot(db, cur, root) THEN {CHANNEL_ID_NOT_FOUND}
               ELSE {CHANNEL_NOT_CHILD_OF_ROOT}
<1>1. root \in Node
  BY DEF DbInv, DbType
<1>2. Forest!IsAbove(linkBar, root, cur) <=> cur \in Branch(db.closure, root)
  BY <1>1, LinksAre, AboveIsRow
<1>. QED
  BY <1>2 DEF NothingTuned, ChannelIsUnderRoot, Branch

\* A row in use is the columns of a stored frequency, and names the channels that have it.
LEMMA TunedToAre ==
    ASSUME DbInv(db), StoredData(db), NEW row \in RowsInUse, NEW s
    PROVE  s \in TunedTo(row)
             <=> s \in Loaded(db) /\ <<s, row[1], row[2]>> \in db.channelFrequency
<1>1. \A x \in db.channelFrequency : x = <<x[1], x[2], x[3]>> /\ x[1] \in Loaded(db)
  BY DEF StoredData, DbInv, FrequencyOwners
<1>2. row = <<row[1], row[2]>>
  BY DEF RowsInUse
<1>3. ASSUME s \in TunedTo(row)
      PROVE  s \in Loaded(db) /\ <<s, row[1], row[2]>> \in db.channelFrequency
  <2>1. PICK x \in db.channelFrequency : <<x[2], x[3]>> = row /\ s = x[1]
    BY <1>3 DEF TunedTo
  <2>2. row[1] = x[2] /\ row[2] = x[3]
    BY <2>1
  <2>. QED
    BY <1>1, <2>1, <2>2
<1>4. ASSUME <<s, row[1], row[2]>> \in db.channelFrequency PROVE s \in TunedTo(row)
  <2>. DEFINE x == <<s, row[1], row[2]>>
  <2>1. x \in db.channelFrequency /\ <<x[2], x[3]>> = row /\ x[1] = s
    BY <1>2, <1>4
  <2>. QED
    BY <2>1 DEF TunedTo
<1>. QED
  BY <1>3, <1>4

\* The stations in reach by the rows are those in reach by the forest.
LEMMA ReachIs ==
    ASSUME DbInv(db), StoredData(db), NEW row \in RowsInUse,
           NEW cur \in Loaded(db), NEW root \in Loaded(db), NEW s
    PROVE  s \in InReach(db, row[1], row[2], cur, root)
             <=> /\ s \in TunedTo(row)
                 /\ Forest!IsAbove(linkBar, root, cur) /\ Forest!IsAbove(linkBar, root, s)
<1>1. root \in Node
  BY DEF DbInv, DbType
<1>2. \A c \in Loaded(db) : Forest!IsAbove(linkBar, root, c) <=> c \in Branch(db.closure, root)
  BY <1>1, LinksAre, AboveIsRow
<1>. QED
  BY <1>2, TunedToAre DEF InReach

\* The order of ChannelForest, between two ways.
Closer(p, q) == \/ p.distance < q.distance
                \/ p.distance = q.distance /\ p.removed < q.removed

\* The stations ChannelForest promises, written with the rows.
LEMMA NearestIs ==
    ASSUME DbInv(db), StoredData(db), NEW row \in RowsInUse,
           NEW cur \in Loaded(db), NEW root \in Loaded(db),
           NEW reach, reach = InReach(db, row[1], row[2], cur, root)
    PROVE  Forest!Nearest(linkBar, TunedTo(row), cur, root)
             = {s \in reach : \A t \in reach : ~ Closer(Way(db, cur, t), Way(db, cur, s))}
<1>. DEFINE r == IF Forest!IsAbove(linkBar, root, cur)
                 THEN {s \in TunedTo(row) : s \in DOMAIN linkBar
                                            /\ Forest!IsAbove(linkBar, root, s)} ELSE {}
<1>1. r = reach
  <2>1. DOMAIN linkBar = Loaded(db)
    BY DEF linkBar
  <2>2. \A s : s \in r <=> s \in reach
    BY <2>1, ReachIs, TunedToAre
  <2>. QED
    BY <2>2
<1>2. Forest!Nearest(linkBar, TunedTo(row), cur, root)
        = {s \in r : \A t \in r : ~ Closer(Forest!Steps(linkBar, cur, t),
                                           Forest!Steps(linkBar, cur, s))}
  BY DEF Forest!Nearest, Closer
<1>3. \A s : Forest!Steps(linkBar, cur, s) = Way(db, cur, s)
  BY LinksAre DEF Way
<1>. HIDE DEF r
<1>. QED
  BY <1>1, <1>2, <1>3

(***************************************************************************)
(* In every state the join over the closure table answers what the caller   *)
(* relies on: with range left out of account exactly the nearest stations   *)
(* of the part of the forest under root, and with none whether current is   *)
(* under root at all.                                                       *)
(***************************************************************************)
THEOREM LookupsFindNearest == Spec => []LookupIsNearest
<1>1. ASSUME DbInv(db), StoredData(db), NEW cur \in Loaded(db), NEW root \in Loaded(db),
             NEW row \in RowsInUse
      PROVE  LET nearest == Forest!Nearest(linkBar, TunedTo(row), cur, root)
             IN  GetChannelID(db, row[1], row[2], cur, root, FALSE, FALSE, <<>>)
                   = IF nearest # {} THEN nearest ELSE NothingTuned(cur, root)
  <2>. DEFINE St == Stations(db, row[1], row[2], cur, root)
              reach == InReach(db, row[1], row[2], cur, root)
              W(s) == Way(db, cur, s)
              Of(s) == [channel |-> s, distance |-> W(s).distance, removed |-> W(s).removed]
              nearest == {s \in reach : \A t \in reach : ~ Closer(W(t), W(s))}
              best == {s \in St : \A t \in St : ~ Closer(t, s)}
  <2>1. /\ \A s \in reach : W(s).distance \in Nat /\ W(s).removed \in Nat /\ Of(s) \in St
        /\ \A x \in St :
              /\ x.channel \in reach
              /\ x = [channel |-> x.channel, distance |-> x.distance, removed |-> x.removed]
              /\ \E k \in Nat : /\ x.distance = W(x.channel).distance + k + k
                                /\ x.removed = W(x.channel).removed + k
    BY <1>1, StationsAreWays
  <2>2. Forest!Nearest(linkBar, TunedTo(row), cur, root) = nearest
    BY <1>1, NearestIs
  <2>. HIDE DEF St, reach, W
  <2>4. \A s \in reach : Of(s).channel = s /\ Of(s).distance = W(s).distance
                         /\ Of(s).removed = W(s).removed
    OBVIOUS
  <2>5. ASSUME NEW x \in best PROVE x.channel \in nearest
    <3>. DEFINE s == x.channel
    <3>1. s \in reach
      BY <2>1
    <3>2. PICK k \in Nat : x.distance = W(s).distance + k + k /\ x.removed = W(s).removed + k
      BY <2>1
    <3>3. W(s).distance \in Nat /\ W(s).removed \in Nat /\ Of(s) \in St
      BY <2>1, <3>1
    <3>4. ~ Closer(Of(s), x)
      BY <3>3
    <3>5. ~ (W(s).distance < x.distance)
          /\ ~ (W(s).distance = x.distance /\ W(s).removed < x.removed)
      BY <2>4, <3>1, <3>4 DEF Closer
    <3>6. k = 0
      BY <3>2, <3>3, <3>5
    <3>7. x.distance = W(s).distance /\ x.removed = W(s).removed
      BY <3>2, <3>3, <3>6
    <3>8. ASSUME NEW t \in reach PROVE ~ Closer(W(t), W(s))
      <4>1. Of(t) \in St
        BY <2>1
      <4>2. ~ Closer(Of(t), x)
        BY <4>1
      <4>. QED
        BY <2>4, <3>7, <4>2 DEF Closer
    <3>. QED
      BY <3>1, <3>8
  <2>6. ASSUME NEW s \in nearest PROVE Of(s) \in best
    <3>1. s \in reach /\ Of(s) \in St /\ W(s).distance \in Nat /\ W(s).removed \in Nat
      BY <2>1
    <3>2. ASSUME NEW y \in St PROVE ~ Closer(y, Of(s))
      <4>. DEFINE t == y.channel
      <4>1. t \in reach /\ W(t).distance \in Nat /\ W(t).removed \in Nat
        BY <2>1
      <4>2. PICK k \in Nat : y.distance = W(t).distance + k + k /\ y.removed = W(t).removed + k
        BY <2>1
      <4>3. ~ Closer(W(t), W(s))
        BY <4>1
      <4>. HIDE DEF t, Of
      <4>4. ~ (W(t).distance < W(s).distance)
            /\ ~ (W(t).distance = W(s).distance /\ W(t).removed < W(s).removed)
        BY <4>3 DEF Closer
      <4>5. /\ ~ (y.distance < W(s).distance)
            /\ ~ (y.distance = W(s).distance /\ y.removed < W(s).removed)
        BY <3>1, <4>1, <4>2, <4>4
      <4>. QED
        BY <2>4, <3>1, <4>5 DEF Closer
    <3>. QED
      BY <3>1, <3>2
  <2>7. {s.channel : s \in best} = nearest
    <3>1. \A s \in nearest : Of(s).channel = s
      OBVIOUS
    <3>. HIDE DEF best, nearest, Of
    <3>. QED
      BY <2>5, <2>6, <3>1
  <2>8. best # {} <=> nearest # {}
    <3>. HIDE DEF best, nearest, Of
    <3>. QED
      BY <2>7
  <2>9. GetChannelID(db, row[1], row[2], cur, root, FALSE, FALSE, <<>>)
          = IF best # {} THEN {s.channel : s \in best}
            ELSE IF ChannelIsUnderRoot(db, cur, root) THEN {CHANNEL_ID_NOT_FOUND}
            ELSE {CHANNEL_NOT_CHILD_OF_ROOT}
    <3>. DEFINE first == {s \in St : \A t \in St : ~ Before(t, s, FALSE, AwayOf(db, <<>>))}
    <3>1. GetChannelID(db, row[1], row[2], cur, root, FALSE, FALSE, <<>>)
            = IF first # {} THEN {s.channel : s \in first}
              ELSE IF ChannelIsUnderRoot(db, cur, root) THEN {CHANNEL_ID_NOT_FOUND}
              ELSE {CHANNEL_NOT_CHILD_OF_ROOT}
      BY DEF GetChannelID, AwayOf, St
    <3>2. best = first
      BY DEF Before, Closer
    <3>. HIDE DEF best, first
    <3>. QED
      BY <3>1, <3>2
  <2>. HIDE DEF best, nearest
  <2>. QED
    BY <1>1, <2>2, <2>7, <2>8, <2>9, NothingTunedIs
<1>2. TablesConsistent /\ StoredData(db) => LookupIsNearest
  BY <1>1 DEF TablesConsistent, LookupIsNearest
<1>. QED
  BY <1>2, DataInvariant, PTL

\* Of any stations some are best: least away, of those nearest, of those lowest.
LEMMA SomeAreBest ==
    ASSUME NEW eligible, eligible # {}, NEW away,
           \A s \in eligible : /\ away[s.channel] \in Nat
                               /\ s.distance \in Nat /\ s.removed \in Nat
    PROVE  \E b \in eligible : \A t \in eligible : ~ Before(t, b, TRUE, away)
<1>1. PICK s1 \in eligible : \A t \in eligible : away[s1.channel] <= away[t.channel]
  <2>. DEFINE S == {away[s.channel] : s \in eligible}
  <2>1. S \subseteq Nat /\ S # {}
    OBVIOUS
  <2>2. PICK m \in S : \A n \in S : m <= n
    BY <2>1, LeastNatural
  <2>. QED
    BY <2>2
<1>. DEFINE closest == {s \in eligible : away[s.channel] = away[s1.channel]}
<1>2. PICK s2 \in closest : \A t \in closest : s2.distance <= t.distance
  <2>. DEFINE S == {s.distance : s \in closest}
  <2>1. S \subseteq Nat /\ S # {}
    OBVIOUS
  <2>2. PICK m \in S : \A n \in S : m <= n
    BY <2>1, LeastNatural
  <2>. QED
    BY <2>2
<1>. DEFINE nearest == {s \in closest : s.distance = s2.distance}
<1>3. PICK s3 \in nearest : \A t \in nearest : s3.removed <= t.removed
  <2>. DEFINE S == {s.removed : s \in nearest}
  <2>1. S \subseteq Nat /\ S # {}
    OBVIOUS
  <2>2. PICK m \in S : \A n \in S : m <= n
    BY <2>1, LeastNatural
  <2>. QED
    BY <2>2
<1>4. ASSUME NEW t \in eligible PROVE ~ Before(t, s3, TRUE, away)
  <2>1. /\ away[t.channel] \in Nat /\ t.distance \in Nat /\ t.removed \in Nat
        /\ away[s1.channel] \in Nat /\ s2.distance \in Nat /\ s3.removed \in Nat
        /\ away[s3.channel] = away[s1.channel] /\ s3.distance = s2.distance
    OBVIOUS
  <2>2. away[s1.channel] <= away[t.channel]
    BY <1>1
  <2>3. away[t.channel] = away[s1.channel] => s2.distance <= t.distance
    BY <1>2
  <2>4. (away[t.channel] = away[s1.channel] /\ t.distance = s2.distance)
           => s3.removed <= t.removed
    BY <1>3
  <2>. HIDE DEF closest, nearest
  <2>. QED
    BY <2>1, <2>2, <2>3, <2>4 DEF Before
<1>. QED
  BY <1>4

\* A channel's distance from the aircraft, its maximal range if it has no position.
LEMMA AwayIs ==
    ASSUME StoredData(db), NEW distance \in Distances, NEW s \in Loaded(db)
    PROVE  /\ AwayOf(db, distance)[s] \in Nat
           /\ AwayOf(db, distance)[s]
                = LET p == db.channels[s].place
                  IN  IF p = NoPosition THEN db.channels[s].range ELSE distance[p]
<1>1. distance \in [Positions -> Nat] /\ NoPosition \notin Positions
  BY TablesAssumption DEF Positions
<1>2. /\ db.channels[s].range \in Nat
      /\ db.channels[s].place \in Positions \cup {NoPosition}
  BY DEF StoredData
<1>3. AwayOf(db, distance)[s] = IF db.channels[s].place \in Positions
                                THEN distance[db.channels[s].place]
                                ELSE db.channels[s].range
  BY <1>1 DEF AwayOf
<1>. QED
  BY <1>1, <1>2, <1>3

(***************************************************************************)
(* In every state, whatever the distances: with range taken into account    *)
(* the answers are stations in reach the aircraft is closest to, out of     *)
(* range only when that is allowed, and nothing is answered only if no      *)
(* station is in reach.                                                     *)
(***************************************************************************)
THEOREM LookupsFindClosest == Spec => []LookupIsClosest
<1>. DEFINE Away(distance, s) == LET p == db.channels[s].place
                                 IN  IF p = NoPosition THEN db.channels[s].range
                                     ELSE distance[p]
            Reach(cur, root, row, distance, untuned) ==
               {s \in TunedTo(row) :
                  /\ Forest!IsAbove(linkBar, root, cur)
                  /\ Forest!IsAbove(linkBar, root, s)
                  /\ untuned => Away(distance, s) <= db.channels[s].range}
            Closest(cur, root, row, distance, untuned) ==
               LET inReach == Reach(cur, root, row, distance, untuned)
                   answer  == GetChannelID(db, row[1], row[2], cur, root,
                                           TRUE, untuned, distance)
               IN  IF inReach = {} THEN answer = NothingTuned(cur, root)
                   ELSE \A s \in answer :
                           /\ s \in inReach
                           /\ \A t \in inReach : Away(distance, s) <= Away(distance, t)
<1>1. ASSUME DbInv(db), StoredData(db), NEW cur \in Loaded(db), NEW root \in Loaded(db),
             NEW row \in RowsInUse, NEW distance \in Distances, NEW untuned \in BOOLEAN
      PROVE  Closest(cur, root, row, distance, untuned)
  <2>. DEFINE St == Stations(db, row[1], row[2], cur, root)
              reach == InReach(db, row[1], row[2], cur, root)
              W(s) == Way(db, cur, s)
              Of(s) == [channel |-> s, distance |-> W(s).distance, removed |-> W(s).removed]
              away == AwayOf(db, distance)
              InRange(s) == untuned => away[s] <= db.channels[s].range
              inReach == Reach(cur, root, row, distance, untuned)
              eligible == {x \in St : InRange(x.channel)}
              best == {s \in eligible : \A t \in eligible : ~ Before(t, s, TRUE, away)}
              answer == GetChannelID(db, row[1], row[2], cur, root, TRUE, untuned, distance)
  <2>1. /\ \A s \in reach : W(s).distance \in Nat /\ W(s).removed \in Nat /\ Of(s) \in St
        /\ \A x \in St :
              /\ x.channel \in reach
              /\ \E k \in Nat : /\ x.distance = W(x.channel).distance + k + k
                                /\ x.removed = W(x.channel).removed + k
    BY <1>1, StationsAreWays
  <2>2. reach \subseteq Loaded(db)
    BY DEF InReach
  <2>3. \A s \in Loaded(db) : away[s] \in Nat /\ away[s] = Away(distance, s)
    BY <1>1, AwayIs
  <2>4. answer = IF best # {} THEN {s.channel : s \in best}
                 ELSE IF ChannelIsUnderRoot(db, cur, root) THEN {CHANNEL_ID_NOT_FOUND}
                 ELSE {CHANNEL_NOT_CHILD_OF_ROOT}
    BY DEF GetChannelID, AwayOf
  <2>5. inReach = {s \in reach : InRange(s)}
    <3>1. \A s : s \in inReach <=> s \in reach /\ InRange(s)
      BY <1>1, <2>2, <2>3, ReachIs, TunedToAre
    <3>. QED
      BY <3>1
  <2>. HIDE DEF St, reach, W, away, inReach, answer, Away
  <2>6. \A s \in inReach : Of(s) \in eligible /\ Of(s).channel = s
    BY <2>1, <2>5
  <2>7. \A x \in eligible : x.channel \in inReach
    BY <2>1, <2>5
  <2>8. CASE inReach = {}
    <3>1. best = {}
      BY <2>7, <2>8
    <3>2. answer = NothingTuned(cur, root)
      <4>. HIDE DEF best
      <4>. QED
        BY <1>1, <2>4, <3>1, NothingTunedIs
    <3>. QED
      BY <2>8, <3>2 DEF inReach, answer
  <2>9. CASE inReach # {}
    <3>1. eligible # {}
      BY <2>6, <2>9
    <3>2. ASSUME NEW x \in eligible
          PROVE  away[x.channel] \in Nat /\ x.distance \in Nat /\ x.removed \in Nat
      <4>1. x \in St /\ x.channel \in reach
        BY <2>1
      <4>2. PICK k \in Nat : /\ x.distance = W(x.channel).distance + k + k
                             /\ x.removed = W(x.channel).removed + k
        BY <2>1, <4>1
      <4>3. W(x.channel).distance \in Nat /\ W(x.channel).removed \in Nat
        BY <2>1, <4>1
      <4>. QED
        BY <2>2, <2>3, <4>1, <4>2, <4>3
    <3>3. best # {}
      <4>. HIDE DEF eligible
      <4>. QED
        BY <3>1, <3>2, SomeAreBest
    <3>4. ASSUME NEW s \in answer
          PROVE  s \in inReach /\ \A t \in inReach : Away(distance, s) <= Away(distance, t)
      <4>1. PICK x \in best : x.channel = s
        BY <2>4, <3>3
      <4>2. s \in inReach /\ s \in Loaded(db)
        BY <2>2, <2>5, <2>7, <4>1
      <4>3. ASSUME NEW t \in inReach PROVE Away(distance, s) <= Away(distance, t)
        <5>1. ~ Before(Of(t), x, TRUE, away) /\ Of(t).channel = t /\ t \in Loaded(db)
          BY <2>2, <2>5, <2>6, <4>1
        <5>2. ~ (away[t] < away[s])
          BY <4>1, <5>1 DEF Before
        <5>. QED
          BY <2>3, <4>2, <5>1, <5>2
      <4>. QED
        BY <4>2, <4>3
    <3>. QED
      BY <2>9, <3>4 DEF inReach, answer
  <2>. QED
    BY <2>8, <2>9
<1>2. TablesConsistent /\ StoredData(db) => LookupIsClosest
  BY <1>1 DEF TablesConsistent, LookupIsClosest
<1>. QED
  BY <1>2, DataInvariant, PTL
================================================================================
