--------------------------- MODULE ChannelDbProofs ---------------------------
(***************************************************************************)
(* What the statements of deleteChannel and addOrUpdateChannel do to tables *)
(* that satisfy DbInv, for every set of channels.                           *)
(***************************************************************************)
EXTENDS ChannelDb, TLAPS

\* Rows of the closure table are triples over the loaded channels.
LEMMA RowShape ==
    ASSUME NEW D, DbInv(D), NEW r \in D.closure
    PROVE  /\ r = <<r[1], r[2], r[3]>>
           /\ r[1] \in Loaded(D)
           /\ r[2] \in Loaded(D)
           /\ r[3] \in Nat
  BY DEF DbInv, DbType

\* Nothing is below Root but what Root is above of: Root is in no other branch.
LEMMA RootStays ==
    ASSUME NEW D, DbInv(D), NEW d \in Channel
    PROVE  CHANNEL_ROOT \notin Branch(D.closure, d)
  BY ChannelAssumption DEF DbInv, RootOnTop, Branch

\* A row that starts in the branch of d ends in it.
LEMMA BranchClosed ==
    ASSUME NEW D, DbInv(D), NEW d \in Channel, NEW r \in D.closure,
           r[1] \in Branch(D.closure, d)
    PROVE  r[2] \in Branch(D.closure, d)
  <1>1. PICK s \in D.closure : s[1] = d /\ s[2] = r[1]
    BY DEF Branch
  <1>2. <<s[1], r[2], s[3] + r[3]>> \in D.closure
    BY <1>1 DEF DbInv, Composes
  <1>. QED
    BY <1>1, <1>2 DEF Branch

(***************************************************************************)
(* aDeleteClosure looks for links through d; on consistent tables that is   *)
(* exactly the rows that end in the branch of d.                            *)
(***************************************************************************)
LEMMA DeletedRows ==
    ASSUME NEW D, DbInv(D), NEW d \in Channel
    PROVE  DeleteClosure(D.closure, d)
             = {r \in D.closure : r[2] \notin Branch(D.closure, d)}
  <1>1. ASSUME NEW r \in D.closure, r[2] \in Branch(D.closure, d)
        PROVE  r \in ThroughLink(D.closure, d) \cup FromBranch(D.closure, d)
    <2>1. PICK s \in D.closure : s[1] = d /\ s[2] = r[2]
      BY <1>1 DEF Branch
    <2>2. /\ r[3] \in Nat /\ s[3] \in Nat
          /\ d \in Loaded(D)
      BY <2>1, RowShape
    <2>3. CASE r[3] >= s[3]
      <3>1. <<r[1], d, r[3] - s[3]>> \in D.closure
        BY <2>1, <2>3 DEF DbInv, OnePath
      <3>2. <<d, d, 0>> \in D.closure
        BY <2>2 DEF DbInv, SelfRows
      <3>. DEFINE cut == <<d, d, 0>>
                  p == <<r[1], d, r[3] - s[3]>>
      <3>3. cut \in {x \in D.closure : x[1] = d \/ x[2] = d}
        BY <3>2
      <3>4. p[1] = r[1] /\ p[2] = cut[1]
        OBVIOUS
      <3>5. s[2] = r[2] /\ s[1] = cut[2]
        BY <2>1
      <3>. QED
        BY <3>1, <3>3, <3>4, <3>5 DEF ThroughLink
    <2>4. CASE ~ (r[3] >= s[3])
      <3>1. s[3] >= r[3]
        BY <2>2, <2>4
      <3>2. <<d, r[1], s[3] - r[3]>> \in D.closure
        BY <2>1, <3>1 DEF DbInv, OnePath
      <3>. QED
        BY <3>2 DEF FromBranch, Branch
    <2>. QED
      BY <2>3, <2>4
  <1>2. ASSUME NEW r \in ThroughLink(D.closure, d)
        PROVE  r[2] \in Branch(D.closure, d)
    <2>1. PICK cut \in D.closure :
             /\ cut[1] = d \/ cut[2] = d
             /\ \E c \in D.closure : c[2] = r[2] /\ c[1] = cut[2]
      BY DEF ThroughLink
    <2>2. PICK c \in D.closure : c[2] = r[2] /\ c[1] = cut[2]
      BY <2>1
    <2>3. CASE cut[1] = d
      <3>1. <<d, r[2], cut[3] + c[3]>> \in D.closure
        BY <2>2, <2>3 DEF DbInv, Composes
      <3>. QED
        BY <3>1 DEF Branch
    <2>4. CASE cut[2] = d
      BY <2>2, <2>4 DEF Branch
    <2>. QED
      BY <2>1, <2>3, <2>4
  <1>3. ASSUME NEW r \in FromBranch(D.closure, d)
        PROVE  r[2] \in Branch(D.closure, d)
    BY BranchClosed DEF FromBranch
  <1>. QED
    BY <1>1, <1>2, <1>3 DEF DeleteClosure

(***************************************************************************)
(* deleteChannel keeps the tables consistent, and removes exactly the       *)
(* branch of the channel.                                                   *)
(***************************************************************************)
LEMMA DeleteKeepsTables ==
    ASSUME NEW D, DbInv(D), NEW d \in Channel
    PROVE  /\ DbInv(DeleteChannel(D, d))
           /\ Loaded(DeleteChannel(D, d)) = Loaded(D) \ Branch(D.closure, d)
           /\ d \notin Loaded(DeleteChannel(D, d))
  <1>. DEFINE E == DeleteChannel(D, d)
              B == Branch(D.closure, d)
  <1>1. /\ Loaded(E) = Loaded(D) \ B
        /\ E.closure = {r \in D.closure : r[2] \notin B}
        /\ E.channelFrequency = {r \in D.channelFrequency : r[1] \notin B}
        /\ \A c \in Loaded(E) : E.channels[c] = D.channels[c]
    BY DeletedRows DEF DeleteChannel, Loaded
  <1>2. \A r \in E.closure : /\ r \in D.closure
                             /\ r[1] \notin B /\ r[2] \notin B
    BY <1>1, BranchClosed
  <1>3. d \notin Loaded(E)
    <2>1. d \in Loaded(D) => <<d, d, 0>> \in D.closure
      BY DEF DbInv, SelfRows
    <2>. QED
      BY <1>1, <2>1 DEF Branch
  <1>4. DbType(E)
    <2>1. CHANNEL_ROOT \in Loaded(E)
      BY <1>1, RootStays DEF DbInv, DbType
    <2>2. Loaded(E) \subseteq Node
      BY <1>1 DEF DbInv, DbType
    <2>3. \A r \in E.closure : r \in Loaded(E) \X Loaded(E) \X Nat
      BY <1>1, <1>2, RowShape
    <2>. QED
      BY <2>1, <2>2, <2>3 DEF DbType
  <1>5. SelfRows(E.closure, Loaded(E))
    <2>1. \A c \in Loaded(E) : <<c, c, 0>> \in E.closure
      BY <1>1 DEF DbInv, SelfRows
    <2>2. \A r \in E.closure : r[1] = r[2] <=> r[3] = 0
      BY <1>2 DEF DbInv, SelfRows
    <2>. QED
      BY <2>1, <2>2 DEF SelfRows
  <1>6. Composes(E.closure)
    <2>1. ASSUME NEW r \in E.closure, NEW s \in E.closure, r[2] = s[1]
          PROVE  <<r[1], s[2], r[3] + s[3]>> \in E.closure
      <3>1. <<r[1], s[2], r[3] + s[3]>> \in D.closure
        BY <1>2, <2>1 DEF DbInv, Composes
      <3>. QED
        BY <1>1, <1>2, <3>1
    <2>. QED
      BY <2>1 DEF Composes
  <1>7. OnePath(E.closure)
    <2>1. ASSUME NEW r \in E.closure, NEW s \in E.closure, r[2] = s[2], r[3] >= s[3]
          PROVE  <<r[1], s[1], r[3] - s[3]>> \in E.closure
      <3>1. <<r[1], s[1], r[3] - s[3]>> \in D.closure
        BY <1>2, <2>1 DEF DbInv, OnePath
      <3>. QED
        BY <1>1, <1>2, <3>1
    <2>. QED
      BY <2>1 DEF OnePath
  <1>8. ParentColumn(E)
    <2>1. ASSUME NEW r \in E.closure, r[3] = 1
          PROVE  r[2] # CHANNEL_ROOT /\ E.channels[r[2]].parent = r[1]
      <3>1. r[2] # CHANNEL_ROOT /\ D.channels[r[2]].parent = r[1]
        BY <1>2, <2>1 DEF DbInv, ParentColumn
      <3>2. r[2] \in Loaded(E)
        BY <1>1, <1>2, RowShape
      <3>. QED
        BY <1>1, <3>1, <3>2
    <2>. QED
      BY <2>1 DEF ParentColumn
  <1>9. RootOnTop(E.closure)
    BY <1>2 DEF DbInv, RootOnTop
  <1>10. FrequencyOwners(E)
    BY <1>1 DEF DbInv, FrequencyOwners
  <1>11. LinkedUp(E)
    <2>1. ASSUME NEW r \in E.closure, r[3] > 0
          PROVE  <<E.channels[r[2]].parent, r[2], 1>> \in E.closure
      <3>1. <<D.channels[r[2]].parent, r[2], 1>> \in D.closure
        BY <1>2, <2>1 DEF DbInv, LinkedUp
      <3>2. r[2] \in Loaded(E) /\ r[2] \notin B
        BY <1>1, <1>2, RowShape
      <3>. QED
        BY <1>1, <3>1, <3>2
    <2>. QED
      BY <2>1 DEF LinkedUp
  <1>. QED
    BY <1>1, <1>3, <1>4, <1>5, <1>6, <1>7, <1>8, <1>9, <1>10, <1>11 DEF DbInv

\* One row for everything parent is below or equal to, one level further down.
LinksBelow(closure, parent, ch) ==
    {<<p[1], ch, p[3] + 1>> : p \in {r \in closure : r[2] = parent}}

\* The tables after an insert that is not rolled back.
Inserted(D, ch, parent, facts) ==
    [channels |-> [c \in Loaded(D) \cup {ch} |->
                      IF c = ch THEN [parent |-> parent,
                                      range  |-> facts.range,
                                      place  |-> facts.place]
                      ELSE D.channels[c]],
     closure  |-> D.closure \cup {SelfRow(ch)} \cup LinksBelow(D.closure, parent, ch),
     channelFrequency |-> D.channelFrequency \cup FrequencyRows(ch, facts)]

(***************************************************************************)
(* A channel that is not loaded meets no key of the tables: the insert is   *)
(* never rolled back, and links it below what its parent is below.          *)
(***************************************************************************)
LEMMA InsertedRows ==
    ASSUME NEW D, DbInv(D), NEW ch \in Channel, ch \notin Loaded(D),
           NEW parent \in Node, parent # ch, NEW facts
    PROVE  InsertChannel(D, ch, parent, facts) = Inserted(D, ch, parent, facts)
  <1>. DEFINE withSelf == D.closure \cup {SelfRow(ch)}
              links == LinksBelow(D.closure, parent, ch)
  <1>1. \A r \in D.closure : r[1] # ch /\ r[2] # ch
    BY RowShape
  <1>2. ParentRows(withSelf, parent, ch) = links
    <2>1. \A x : x \in ParentRows(withSelf, parent, ch)
                   <=> \E p \in withSelf, c \in withSelf :
                          /\ p[2] = parent /\ c[1] = ch
                          /\ x = <<p[1], c[2], p[3] + c[3] + 1>>
      BY DEF ParentRows
    <2>2. \A x : x \in links <=> \E p \in D.closure : /\ p[2] = parent
                                                      /\ x = <<p[1], ch, p[3] + 1>>
      BY DEF LinksBelow
    <2>3. \A p \in withSelf : p[2] = parent => p \in D.closure /\ p[3] \in Nat
      BY RowShape DEF SelfRow
    <2>4. \A c \in withSelf : c[1] = ch <=> c = SelfRow(ch)
      BY <1>1 DEF SelfRow
    <2>5. ASSUME NEW x PROVE x \in ParentRows(withSelf, parent, ch) <=> x \in links
      <3>1. ASSUME NEW p \in D.closure, p[2] = parent
            PROVE  <<p[1], SelfRow(ch)[2], p[3] + SelfRow(ch)[3] + 1>> = <<p[1], ch, p[3] + 1>>
        BY RowShape DEF SelfRow
      <3>2. x \in ParentRows(withSelf, parent, ch)
              => \E p \in D.closure : /\ p[2] = parent
                                      /\ x = <<p[1], ch, p[3] + 1>>
        BY <2>1, <2>3, <2>4, <3>1
      <3>3. ASSUME NEW p \in D.closure, p[2] = parent, x = <<p[1], ch, p[3] + 1>>
            PROVE  x \in ParentRows(withSelf, parent, ch)
        <4>1. p \in withSelf /\ SelfRow(ch) \in withSelf /\ SelfRow(ch)[1] = ch
          BY DEF SelfRow
        <4>. QED
          BY <2>1, <3>1, <3>3, <4>1
      <3>. HIDE DEF links
      <3>. QED
        BY <2>2, <3>2, <3>3
    <2>. QED
      BY <2>5
  <1>3. SelfRow(ch) \notin D.closure
    BY <1>1 DEF SelfRow, LinksBelow
  <1>4. links \cap withSelf = {}
    <2>1. ASSUME NEW p \in D.closure
          PROVE  <<p[1], ch, p[3] + 1>> \notin withSelf
      BY <1>1 DEF SelfRow
    <2>. QED
      BY <2>1 DEF LinksBelow
  <1>. QED
    BY <1>2, <1>3, <1>4 DEF InsertChannel, Inserted

(***************************************************************************)
(* Inserting a channel that is not loaded keeps the tables consistent.      *)
(***************************************************************************)
LEMMA InsertKeepsTables ==
    ASSUME NEW D, DbInv(D), NEW ch \in Channel, ch \notin Loaded(D),
           NEW parent \in Node, parent # ch, NEW facts
    PROVE  DbInv(InsertChannel(D, ch, parent, facts))
  <1>. DEFINE E == InsertChannel(D, ch, parent, facts)
              Linked(r, p) == /\ p \in D.closure
                              /\ p[2] = parent
                              /\ r = <<p[1], ch, p[3] + 1>>
  <1>. HIDE DEF E
  <1>1. /\ Loaded(E) = Loaded(D) \cup {ch}
        /\ E.channels[ch].parent = parent
        /\ \A c \in Loaded(D) : E.channels[c] = D.channels[c]
        /\ E.channelFrequency = D.channelFrequency \cup FrequencyRows(ch, facts)
        /\ E.closure = D.closure \cup {SelfRow(ch)} \cup LinksBelow(D.closure, parent, ch)
    <2>1. E = Inserted(D, ch, parent, facts)
      BY InsertedRows DEF E
    <2>. QED
      BY <2>1 DEF Inserted, Loaded
  <1>2. \A r : r \in E.closure <=> \/ r \in D.closure
                                   \/ r = <<ch, ch, 0>>
                                   \/ \E p : Linked(r, p)
    BY <1>1 DEF SelfRow, LinksBelow
  <1>3. \A r \in D.closure : r[1] # ch /\ r[2] # ch
    BY RowShape
  <1>4. \A r \in E.closure :
           /\ r[2] # ch => r \in D.closure
           /\ r[2] = ch => r = <<ch, ch, 0>> \/ \E p : Linked(r, p)
           /\ r[1] = ch => r = <<ch, ch, 0>>
    BY <1>2, <1>3
  <1>5. DbType(E)
    <2>1. ASSUME NEW r \in E.closure PROVE r \in Loaded(E) \X Loaded(E) \X Nat
      <3>1. CASE r \in D.closure
        BY <1>1, <3>1, RowShape
      <3>2. CASE r = <<ch, ch, 0>>
        BY <1>1, <3>2
      <3>3. CASE \E p : Linked(r, p)
        BY <1>1, <3>3, RowShape
      <3>. QED
        BY <1>2, <3>1, <3>2, <3>3
    <2>. QED
      BY <1>1, <2>1 DEF DbInv, DbType, Node
  <1>6. SelfRows(E.closure, Loaded(E))
    <2>1. \A c \in Loaded(E) : <<c, c, 0>> \in E.closure
      BY <1>1, <1>2 DEF DbInv, SelfRows
    <2>2. ASSUME NEW r \in E.closure PROVE r[1] = r[2] <=> r[3] = 0
      <3>1. CASE r \in D.closure
        BY <3>1 DEF DbInv, SelfRows
      <3>2. CASE \E p : Linked(r, p)
        BY <1>3, <3>2, RowShape
      <3>. QED
        BY <1>2, <3>1, <3>2
    <2>. QED
      BY <2>1, <2>2 DEF SelfRows
  <1>7. Composes(E.closure)
    <2>1. ASSUME NEW r \in E.closure, NEW s \in E.closure, r[2] = s[1]
          PROVE  <<r[1], s[2], r[3] + s[3]>> \in E.closure
      <3>1. CASE s \in D.closure
        <4>1. r \in D.closure
          BY <1>3, <1>4, <2>1, <3>1
        <4>. QED
          BY <1>2, <2>1, <3>1, <4>1 DEF DbInv, Composes
      <3>2. CASE s = <<ch, ch, 0>>
        <4>1. r = <<r[1], r[2], r[3]>> /\ r[3] \in Nat
          BY <1>5 DEF DbType
        <4>. QED
          BY <2>1, <3>2, <4>1
      <3>3. CASE \E p : Linked(s, p)
        <4>1. PICK p : Linked(s, p)
          BY <3>3
        <4>2. r \in D.closure
          BY <1>3, <1>4, <2>1, <4>1
        <4>3. <<r[1], parent, r[3] + p[3]>> \in D.closure
          BY <2>1, <4>1, <4>2 DEF DbInv, Composes
        <4>4. Linked(<<r[1], ch, (r[3] + p[3]) + 1>>, <<r[1], parent, r[3] + p[3]>>)
          BY <4>3
        <4>5. (r[3] + p[3]) + 1 = r[3] + s[3] /\ s[2] = ch
          BY <4>1, <4>2, RowShape
        <4>. QED
          BY <1>2, <4>4, <4>5
      <3>. QED
        BY <1>2, <3>1, <3>2, <3>3
    <2>. QED
      BY <2>1 DEF Composes
  <1>8. OnePath(E.closure)
    <2>1. ASSUME NEW r \in E.closure, NEW s \in E.closure, r[2] = s[2], r[3] >= s[3]
          PROVE  <<r[1], s[1], r[3] - s[3]>> \in E.closure
      <3>1. CASE r[2] # ch
        <4>1. r \in D.closure /\ s \in D.closure
          BY <1>4, <2>1, <3>1
        <4>. QED
          BY <1>2, <2>1, <4>1 DEF DbInv, OnePath
      <3>2. CASE r[2] = ch /\ s = <<ch, ch, 0>>
        <4>1. r = <<r[1], r[2], r[3]>> /\ r[3] \in Nat
          BY <1>5 DEF DbType
        <4>. QED
          BY <3>2, <4>1
      <3>3. CASE r[2] = ch /\ \E q : Linked(s, q)
        <4>1. PICK q : Linked(s, q)
          BY <3>3
        <4>2. s[3] = q[3] + 1 /\ q[3] \in Nat /\ s[1] = q[1]
          BY <4>1, RowShape
        <4>3. PICK p : Linked(r, p)
          BY <1>4, <2>1, <3>3, <4>2
        <4>4. r[3] = p[3] + 1 /\ p[3] \in Nat /\ r[1] = p[1]
          BY <4>3, RowShape
        <4>5. p[3] >= q[3] /\ r[3] - s[3] = p[3] - q[3]
          BY <2>1, <4>2, <4>4
        <4>6. <<p[1], q[1], p[3] - q[3]>> \in D.closure
          BY <4>1, <4>3, <4>5 DEF DbInv, OnePath
        <4>. QED
          BY <1>2, <4>2, <4>4, <4>5, <4>6
      <3>. QED
        BY <1>4, <2>1, <3>1, <3>2, <3>3
    <2>. QED
      BY <2>1 DEF OnePath
  <1>9. ParentColumn(E)
    <2>1. ASSUME NEW r \in E.closure, r[3] = 1
          PROVE  r[2] # CHANNEL_ROOT /\ E.channels[r[2]].parent = r[1]
      <3>1. CASE r \in D.closure
        BY <1>1, <2>1, <3>1, RowShape DEF DbInv, ParentColumn
      <3>2. CASE \E p : Linked(r, p)
        <4>1. PICK p : Linked(r, p)
          BY <3>2
        <4>2. p[3] = 0
          BY <2>1, <4>1, RowShape
        <4>3. p[1] = parent
          BY <4>1, <4>2 DEF DbInv, SelfRows
        <4>. QED
          BY <1>1, <4>1, <4>3, ChannelAssumption
      <3>. QED
        BY <1>2, <2>1, <3>1, <3>2
    <2>. QED
      BY <2>1 DEF ParentColumn
  <1>10. RootOnTop(E.closure)
    BY <1>2, ChannelAssumption DEF DbInv, RootOnTop
  <1>11. FrequencyOwners(E)
    BY <1>1 DEF DbInv, FrequencyOwners, FrequencyRows
  <1>12. LinkedUp(E)
    <2>1. ASSUME NEW r \in E.closure, r[3] > 0
          PROVE  <<E.channels[r[2]].parent, r[2], 1>> \in E.closure
      <3>1. CASE r \in D.closure
        <4>1. <<D.channels[r[2]].parent, r[2], 1>> \in D.closure
          BY <2>1, <3>1 DEF DbInv, LinkedUp
        <4>. QED
          BY <1>1, <1>2, <3>1, <4>1, RowShape
      <3>2. CASE \E p : Linked(r, p)
        <4>1. PICK p : Linked(r, p)
          BY <3>2
        <4>2. <<parent, parent, 0>> \in D.closure
          BY <4>1, RowShape DEF DbInv, SelfRows
        <4>3. Linked(<<parent, ch, 1>>, <<parent, parent, 0>>)
          BY <4>2
        <4>. QED
          BY <1>1, <1>2, <4>1, <4>3
      <3>. QED
        BY <1>2, <2>1, <3>1, <3>2
    <2>. QED
      BY <2>1 DEF LinkedUp
  <1>. QED
    BY <1>5, <1>6, <1>7, <1>8, <1>9, <1>10, <1>11, <1>12 DEF DbInv, E

(***************************************************************************)
(* addOrUpdateChannel keeps the tables consistent, and leaves the channel   *)
(* loaded with the data of the call.                                        *)
(***************************************************************************)
LEMMA AddKeepsTables ==
    ASSUME NEW D, DbInv(D), NEW ch \in Channel,
           NEW parent \in Node, parent # ch, NEW facts
    PROVE  /\ DbInv(AddOrUpdateChannel(D, ch, parent, facts))
           /\ Loaded(AddOrUpdateChannel(D, ch, parent, facts))
                = (Loaded(D) \ Branch(D.closure, ch)) \cup {ch}
           /\ AddOrUpdateChannel(D, ch, parent, facts).channels[ch]
                = [parent |-> parent, range |-> facts.range, place |-> facts.place]
           /\ \A c \in Loaded(D) \ (Branch(D.closure, ch) \cup {ch}) :
                AddOrUpdateChannel(D, ch, parent, facts).channels[c] = D.channels[c]
  <1>. DEFINE C == DeleteChannel(D, ch)
              E == AddOrUpdateChannel(D, ch, parent, facts)
  <1>1. /\ DbInv(C)
        /\ Loaded(C) = Loaded(D) \ Branch(D.closure, ch)
        /\ ch \notin Loaded(C)
    BY DeleteKeepsTables
  <1>2. E = InsertChannel(C, ch, parent, facts)
    BY DEF AddOrUpdateChannel
  <1>3. DbInv(E)
    BY <1>1, <1>2, InsertKeepsTables
  <1>4. /\ Loaded(E) = Loaded(C) \cup {ch}
        /\ E.channels[ch] = [parent |-> parent, range |-> facts.range,
                             place |-> facts.place]
        /\ \A c \in Loaded(C) : E.channels[c] = C.channels[c]
    <2>1. E = Inserted(C, ch, parent, facts)
      BY <1>1, <1>2, InsertedRows
    <2>2. E.channels = [c \in Loaded(C) \cup {ch} |->
                          IF c = ch THEN [parent |-> parent,
                                          range  |-> facts.range,
                                          place  |-> facts.place]
                          ELSE C.channels[c]]
      BY <2>1 DEF Inserted
    <2>. HIDE DEF C, E
    <2>3. Loaded(E) = Loaded(C) \cup {ch}
      BY <2>2 DEF Loaded
    <2>. QED
      BY <1>1, <2>2, <2>3
  <1>5. \A c \in Loaded(C) : C.channels[c] = D.channels[c]
    BY DEF DeleteChannel, Loaded
  <1>. QED
    BY <1>1, <1>3, <1>4, <1>5

\* The tables initDatabase leaves are consistent.
LEMMA InitKeepsTables ==
    ASSUME NEW row
    PROVE  /\ DbInv(InitDatabase(row))
           /\ Loaded(InitDatabase(row)) = {CHANNEL_ROOT}
  BY DEF InitDatabase, DbInv, DbType, SelfRows, Composes, OnePath, ParentColumn,
         RootOnTop, LinkedUp, FrequencyOwners, Loaded, Node

(***************************************************************************)
(* addOrUpdateChannel is never rolled back: the tables it leaves are those  *)
(* of deleteChannel with the new rows.                                      *)
(***************************************************************************)
LEMMA LoadedTables ==
    ASSUME NEW D, DbInv(D), NEW ch \in Channel,
           NEW parent \in Node, parent # ch, NEW facts
    PROVE  AddOrUpdateChannel(D, ch, parent, facts)
             = Inserted(DeleteChannel(D, ch), ch, parent, facts)
  BY DeleteKeepsTables, InsertedRows DEF AddOrUpdateChannel

\* The frequencies stored for a channel that was just loaded are those given.
LEMMA LoadedRows ==
    ASSUME NEW C, DbInv(C), NEW ch, ch \notin Loaded(C), NEW parent,
           NEW facts, \A f \in facts.rows : f = <<f[1], f[2]>>
    PROVE  {<<r[2], r[3]>> :
              r \in {x \in Inserted(C, ch, parent, facts).channelFrequency : x[1] = ch}}
             = facts.rows
  <1>. DEFINE rows == {x \in Inserted(C, ch, parent, facts).channelFrequency : x[1] = ch}
  <1>1. \A x \in C.channelFrequency : x[1] # ch
    BY DEF DbInv, FrequencyOwners
  <1>2. \A x : x \in rows <=> \E f \in facts.rows : x = <<ch, f[1], f[2]>>
    BY <1>1 DEF Inserted, FrequencyRows
  <1>3. \A f \in facts.rows : f = <<f[1], f[2]>>
    OBVIOUS
  <1>. HIDE DEF rows
  <1>4. ASSUME NEW f PROVE f \in {<<r[2], r[3]>> : r \in rows} <=> f \in facts.rows
    <2>1. ASSUME NEW r \in rows PROVE <<r[2], r[3]>> \in facts.rows
      <3>1. PICK g \in facts.rows : r = <<ch, g[1], g[2]>>
        BY <1>2
      <3>. QED
        BY <3>1, <1>3
    <2>2. ASSUME f \in facts.rows PROVE \E r \in rows : f = <<r[2], r[3]>>
      <3>1. <<ch, f[1], f[2]>> \in rows
        BY <1>2, <2>2
      <3>. QED
        BY <3>1, <1>3, <2>2
    <2>. QED
      BY <2>1, <2>2
  <1>5. {<<r[2], r[3]>> : r \in rows} = facts.rows
    BY <1>4
  <1>. QED
    BY <1>5 DEF rows
=============================================================================
