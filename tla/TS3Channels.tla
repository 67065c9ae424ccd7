----------------------------- MODULE TS3Channels -----------------------------
(***************************************************************************)
(* The TS3Channels object: the tables of ChannelDb under any sequence of    *)
(* calls of its public operations that change them, with any arguments its  *)
(* callers can pass (a channel is never named as its own parent).           *)
(***************************************************************************)
EXTENDS ChannelDb

CONSTANTS Facts,       \* what texts tell of a channel: [rows, range, place]
          RootRow,     \* the data columns of the Root row
          NoPosition,  \* the place of a channel without latitude and longitude
          NoLink,      \* of ChannelForest: the channel is linked to no parent
          Distances    \* the maps, place -> distance from the aircraft, checked

VARIABLE db

\* Where a channel may be.
Positions == ({RootRow.place} \cup {facts.place : facts \in Facts}) \ {NoPosition}

\* Channel ids are numbers of 64 bits, and SQLite measures from every position.
ASSUME TablesAssumption ==
    /\ IsFiniteSet(Channel)
    /\ RootRow.parent = CHANNEL_ROOT /\ RootRow.range \in Nat
    /\ NoLink \notin Node
    /\ \A facts \in Facts : facts.rows \subseteq Nat \X BOOLEAN /\ facts.range \in Nat
    /\ Distances \subseteq [Positions -> Nat]

EmptyDb == InitDatabase(RootRow)

Init == db = EmptyDb

addOrUpdateChannel(ch, parent, facts) ==
    db' = AddOrUpdateChannel(db, ch, parent, facts)

deleteChannel(ch) == db' = DeleteChannel(db, ch)

deleteAllChannels == db' = EmptyDb

Next ==
    \/ \E ch \in Channel : \E parent \in Node \ {ch}, facts \in Facts :
          addOrUpdateChannel(ch, parent, facts)
    \/ \E ch \in Channel : deleteChannel(ch)
    \/ deleteAllChannels

Spec == Init /\ [][Next]_db

-----------------------------------------------------------------------------
(***************************************************************************)
(* Whatever the order of calls, the three tables stay consistent with each  *)
(* other: the closure table is the ancestor relation of a forest over the   *)
(* loaded channels, with true depths, and no frequency outlives its channel. *)
(* The schema leaves all of this to the statements of deleteChannel and     *)
(* addOrUpdateChannel.                                                      *)
(***************************************************************************)
TablesConsistent == DbInv(db)

(***************************************************************************)
(* The insert transaction never meets a key that deleteChannel should have  *)
(* removed, so it is never rolled back: after the call the channel is there *)
(* with the data of the call, and linked to its parent if that is loaded.   *)
(***************************************************************************)
LoadTakesEffect ==
    \A ch \in Channel : \A parent \in Node \ {ch}, facts \in Facts :
        LET next == AddOrUpdateChannel(db, ch, parent, facts)
        IN  /\ ch \in Loaded(next)
            /\ next.channels[ch] = [parent |-> parent, range |-> facts.range,
                                    place |-> facts.place]
            /\ {<<r[2], r[3]>> : r \in {x \in next.channelFrequency : x[1] = ch}}
                 = facts.rows
            /\ parent \in Loaded(next) => <<parent, ch, 1>> \in next.closure

(***************************************************************************)
(* The tables implement a forest of parent pointers: the link of a channel  *)
(* is the row one level up.                                                 *)
(***************************************************************************)
LinkOf(c) ==
    IF \E a \in Node : <<a, c, 1>> \in db.closure
    THEN CHOOSE a \in Node : <<a, c, 1>> \in db.closure
    ELSE NoLink

linkBar == [c \in Loaded(db) |-> LinkOf(c)]

Forest == INSTANCE ChannelForest WITH link <- linkBar

ImplementsForest == Forest!Spec

(***************************************************************************)
(* The join of getChannelID over the closure table finds what its caller    *)
(* relies on: with range left out of account, the answers it may give are   *)
(* the nearest stations of the part of the forest under root, going up to   *)
(* the closest common ancestor and down again; with none it tells a current *)
(* channel under root from one outside it.                                  *)
(***************************************************************************)
TunedTo(row) == {r[1] : r \in {x \in db.channelFrequency : <<x[2], x[3]>> = row}}

RowsInUse == {<<r[2], r[3]>> : r \in db.channelFrequency}

NothingTuned(current, root) ==
    IF Forest!IsAbove(linkBar, root, current)
    THEN {CHANNEL_ID_NOT_FOUND} ELSE {CHANNEL_NOT_CHILD_OF_ROOT}

LookupIsNearest ==
    \A current \in Loaded(db), root \in Loaded(db), row \in RowsInUse :
        LET nearest == Forest!Nearest(linkBar, TunedTo(row), current, root)
        IN  GetChannelID(db, row[1], row[2], current, root, FALSE, FALSE, <<>>)
              = IF nearest # {} THEN nearest ELSE NothingTuned(current, root)

(***************************************************************************)
(* With range taken into account the aircraft gets a station it is closest  *)
(* to, wherever in the tree under root that is; with out-of-range stations  *)
(* counting as untuned it gets none it is too far from, and is left untuned *)
(* only if no station under root is in range.                               *)
(***************************************************************************)
LookupIsClosest ==
    \A current \in Loaded(db), root \in Loaded(db), row \in RowsInUse,
       distance \in Distances, untuned \in BOOLEAN :
        LET Away(s) == LET p == db.channels[s].place
                       IN  IF p = NoPosition THEN db.channels[s].range ELSE distance[p]
            inReach == {s \in TunedTo(row) :
                           /\ Forest!IsAbove(linkBar, root, current)
                           /\ Forest!IsAbove(linkBar, root, s)
                           /\ untuned => Away(s) <= db.channels[s].range}
            answer  == GetChannelID(db, row[1], row[2], current, root,
                                    TRUE, untuned, distance)
        IN  IF inReach = {} THEN answer = NothingTuned(current, root)
            ELSE \A s \in answer : /\ s \in inReach
                                   /\ \A t \in inReach : Away(s) <= Away(t)
=============================================================================
