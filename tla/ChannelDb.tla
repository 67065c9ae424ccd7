------------------------------ MODULE ChannelDb ------------------------------
(***************************************************************************)
(* The channel database of TS3Channels: the three tables of the SQLite file *)
(* and the statements the class runs on them, as operators from the value   *)
(* of the tables to the next value.  db is a record                         *)
(*   channels : loaded channel -> its row [parent, range, place]            *)
(*   closure  : rows <<parent, child, depth>>, "child is depth levels       *)
(*              below parent"                                               *)
(*   channelFrequency : rows <<channel, frequency, freq833>>                *)
(* The primary keys and unique indexes of the schema make the tables sets.  *)
(* The schema's foreign keys are not enforced: SQLite leaves them off       *)
(* unless a connection asks for them and this one does not.                 *)
(***************************************************************************)
EXTENDS Integers, FiniteSets

CONSTANTS Channel,                    \* the channel ids a server hands out
          CHANNEL_ROOT,               \* id 0, the row that stands for the server
          CHANNEL_NOT_CHILD_OF_ROOT,  \* lookup answer: current is outside root
          CHANNEL_ID_NOT_FOUND        \* lookup answer: nothing is tuned

ASSUME ChannelAssumption ==
    /\ CHANNEL_ROOT \notin Channel
    /\ {CHANNEL_NOT_CHILD_OF_ROOT, CHANNEL_ID_NOT_FOUND}
         \cap (Channel \cup {CHANNEL_ROOT}) = {}
    /\ CHANNEL_NOT_CHILD_OF_ROOT # CHANNEL_ID_NOT_FOUND

Node == Channel \cup {CHANNEL_ROOT}

Loaded(db) == DOMAIN db.channels

(***************************************************************************)
(* initDatabase and deleteAllChannels: empty tables but for the Root row.   *)
(***************************************************************************)
InitDatabase(rootRow) ==
    [channels         |-> [c \in {CHANNEL_ROOT} |-> rootRow],
     closure          |-> {<<CHANNEL_ROOT, CHANNEL_ROOT, 0>>},
     channelFrequency |-> {}]

\* select child from closure where parent = :delete
Branch(closure, d) == {row[2] : row \in {r \in closure : r[1] = d}}

(***************************************************************************)
(* aDeleteClosure: every link (a, b) that runs through a row which starts   *)
(* or ends at d, and every row that starts in the branch of d.              *)
(***************************************************************************)
ThroughLink(closure, d) ==
    {link \in closure :
        \E cut \in {r \in closure : r[1] = d \/ r[2] = d} :
            /\ \E p \in closure : p[1] = link[1] /\ p[2] = cut[1]
            /\ \E c \in closure : c[2] = link[2] /\ c[1] = cut[2]}

FromBranch(closure, d) == {r \in closure : r[1] \in Branch(closure, d)}

\* Slip: the rows from the ancestors into the branch are left behind.
DeleteClosureBranchOnly(closure, d) == closure \ FromBranch(closure, d)

DeleteClosure(closure, d) ==
    closure \ (ThroughLink(closure, d) \cup FromBranch(closure, d))

\* Slip: the channels below the deleted one keep their rows.
DeleteChannelAlone(db, d) ==
    [channels         |-> [c \in Loaded(db) \ {d} |-> db.channels[c]],
     closure          |-> {r \in db.closure : r[1] # d /\ r[2] # d},
     channelFrequency |-> {r \in db.channelFrequency : r[1] # d}]

(***************************************************************************)
(* deleteChannel: one transaction over the three tables.                    *)
(***************************************************************************)
DeleteChannel(db, d) ==
    LET branch == Branch(db.closure, d)
    IN  [channels         |-> [c \in Loaded(db) \ branch |-> db.channels[c]],
         closure          |-> DeleteClosure(db.closure, d),
         channelFrequency |-> {r \in db.channelFrequency : r[1] \notin branch}]

(***************************************************************************)
(* The insert transaction of addOrUpdateChannel.  aAddInsertClosure2 links  *)
(* the new channel below every ancestor-or-self of its parent the closure   *)
(* table knows.  A key that is already there rolls the transaction back.    *)
(***************************************************************************)
SelfRow(ch) == <<ch, ch, 0>>

ParentRows(closure, parent, ch) ==
    {<<p[1], c[2], p[3] + c[3] + 1>> :
        p \in {r \in closure : r[2] = parent},
        c \in {r \in closure : r[1] = ch}}

FrequencyRows(ch, facts) == {<<ch, f[1], f[2]>> : f \in facts.rows}

InsertChannel(db, ch, parent, facts) ==
    LET withSelf == db.closure \cup {SelfRow(ch)}
        links    == ParentRows(withSelf, parent, ch)
    IN  IF ch \in Loaded(db) \/ SelfRow(ch) \in db.closure
              \/ links \cap withSelf # {}
        THEN db
        ELSE [channels |-> [c \in Loaded(db) \cup {ch} |->
                              IF c = ch THEN [parent |-> parent,
                                              range  |-> facts.range,
                                              place  |-> facts.place]
                              ELSE db.channels[c]],
              closure  |-> withSelf \cup links,
              channelFrequency |-> db.channelFrequency \cup FrequencyRows(ch, facts)]

\* Slip: a channel that is there already is not deleted first.
AddChannel(db, ch, parent, facts) == InsertChannel(db, ch, parent, facts)

(***************************************************************************)
(* addOrUpdateChannel: delete the channel, which takes its whole branch     *)
(* along, then insert the channel alone.                                    *)
(***************************************************************************)
AddOrUpdateChannel(db, ch, parent, facts) ==
    InsertChannel(DeleteChannel(db, ch), ch, parent, facts)

\* channelIsUnderRoot
ChannelIsUnderRoot(db, current, root) ==
    \E r \in db.closure : r[1] = root /\ r[2] = current

\* Slip: only the way down to the station is counted.
StationsBelow(db, frequency, freq833, current, root) ==
    {[channel |-> r[2], distance |-> r[3], removed |-> r[3]] :
        r \in {x \in db.closure :
                 /\ <<x[2], frequency, freq833>> \in db.channelFrequency
                 /\ x[1] \in Branch(db.closure, root)
                 /\ \E y \in db.closure : y[1] = x[1] /\ y[2] = current}}

(***************************************************************************)
(* getChannelID.  Stations is the "stations" expression of the query: the   *)
(* join of the ancestors of current that lie under root (up) with the       *)
(* stations below each of them that answer on the frequency (down).         *)
(***************************************************************************)
Stations(db, frequency, freq833, current, root) ==
    LET under == Branch(db.closure, root)
        up    == {r \in db.closure : r[2] = current /\ r[1] \in under}
        down  == {r \in db.closure : <<r[2], frequency, freq833>> \in db.channelFrequency}
        join  == {pair \in up \X down : pair[1][1] = pair[2][1]}
    IN  {[channel |-> j[2][2], distance |-> j[1][3] + j[2][3], removed |-> j[2][3]] :
            j \in join}

\* Slip: "order by distance, range, removed".
BeforeByDistance(s, t, considerRange, away) ==
    \/ s.distance < t.distance
    \/ /\ s.distance = t.distance
       /\ \/ considerRange /\ away[s.channel] < away[t.channel]
          \/ /\ considerRange => away[s.channel] = away[t.channel]
             /\ s.removed < t.removed

\* The rows "order by range, distance, removed" may put first: all that tie.
Before(s, t, considerRange, away) ==
    \/ considerRange /\ away[s.channel] < away[t.channel]
    \/ /\ considerRange => away[s.channel] = away[t.channel]
       /\ \/ s.distance < t.distance
          \/ s.distance = t.distance /\ s.removed < t.removed

(***************************************************************************)
(* The answers getChannelID may return.  rangeFrom maps places to their     *)
(* distance from the aircraft; a channel without a place counts as being at *)
(* its own maximal range.                                                   *)
(***************************************************************************)
GetChannelID(db, frequency, freq833, current, root, considerRange, outOfRangeUntuned, rangeFrom) ==
    LET away     == [c \in Loaded(db) |->
                       IF db.channels[c].place \in DOMAIN rangeFrom
                       THEN rangeFrom[db.channels[c].place] ELSE db.channels[c].range]
        eligible == {s \in Stations(db, frequency, freq833, current, root) :
                        (considerRange /\ outOfRangeUntuned)
                           => away[s.channel] <= db.channels[s.channel].range}
        best     == {s \in eligible :
                        \A t \in eligible : ~ Before(t, s, considerRange, away)}
    IN  IF best # {} THEN {s.channel : s \in best}
        ELSE IF ChannelIsUnderRoot(db, current, root) THEN {CHANNEL_ID_NOT_FOUND}
        ELSE {CHANNEL_NOT_CHILD_OF_ROOT}

-----------------------------------------------------------------------------
(***************************************************************************)
(* Integrity of the tables.                                                 *)
(***************************************************************************)
DbType(db) ==
    /\ Loaded(db) \subseteq Node
    /\ CHANNEL_ROOT \in Loaded(db)
    /\ db.closure \subseteq Loaded(db) \X Loaded(db) \X Nat

\* Every loaded channel is 0 levels below itself, and below nothing else.
SelfRows(closure, loaded) ==
    /\ \A c \in loaded : <<c, c, 0>> \in closure
    /\ \A r \in closure : r[1] = r[2] <=> r[3] = 0

\* Rows compose: a path of m levels and one of n levels make one of m + n.
Composes(closure) ==
    \A r \in closure, s \in closure : r[2] = s[1] => <<r[1], s[2], r[3] + s[3]>> \in closure

\* The ancestors of a channel lie on one path to it.
OnePath(closure) ==
    \A r \in closure, s \in closure :
        (r[2] = s[2] /\ r[3] >= s[3]) => <<r[1], s[1], r[3] - s[3]>> \in closure

\* The row one level up agrees with the parent column; nothing is above Root.
ParentColumn(db) ==
    \A r \in db.closure : r[3] = 1 => /\ r[2] # CHANNEL_ROOT
                                      /\ db.channels[r[2]].parent = r[1]

RootOnTop(closure) ==
    \A r \in closure : r[2] = CHANNEL_ROOT => r[1] = CHANNEL_ROOT

\* A channel that is below anything is linked to its parent: the rows have no gaps.
LinkedUp(db) ==
    \A r \in db.closure : r[3] > 0 => <<db.channels[r[2]].parent, r[2], 1>> \in db.closure

FrequencyOwners(db) == \A r \in db.channelFrequency : r[1] \in Loaded(db)

DbInv(db) ==
    /\ DbType(db)
    /\ SelfRows(db.closure, Loaded(db))
    /\ Composes(db.closure)
    /\ OnePath(db.closure)
    /\ ParentColumn(db)
    /\ RootOnTop(db.closure)
    /\ LinkedUp(db)
    /\ FrequencyOwners(db)
=============================================================================
