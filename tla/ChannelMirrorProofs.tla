------------------------- MODULE ChannelMirrorProofs -------------------------
(***************************************************************************)
(* What holds of the mirror for every set of channels, names, descriptions  *)
(* and station data: its types, that the database shows no channel and no   *)
(* parent the server does not have, and what its loads leave behind.        *)
(***************************************************************************)
EXTENDS ChannelMirror, ChannelDbProofs, FiniteSetTheorems, TLAPS

\* The database D shows nothing the tree s does not have.
Shows(D, s) ==
    /\ Loaded(D) \subseteq DOMAIN s \cup {CHANNEL_ROOT}
    /\ \A c \in Loaded(D) \ {CHANNEL_ROOT} : D.channels[c].parent = s[c].parent

(***************************************************************************)
(* The inductive invariant.  NoGhostChannels needs to know that no channel  *)
(* is its own parent on the server, or a load would be one of a channel     *)
(* below itself, and that the tables are consistent, or deleting a branch   *)
(* could leave rows of it behind.                                           *)
(***************************************************************************)
NoSelfParent == \A c \in Existing : server[c].parent # c

MirrorInv ==
    /\ TypeOK
    /\ NoSelfParent
    /\ DbInv(db)
    /\ Shows(db, server)

\* A tree has no channel below itself.
LEMMA TreesHaveNoLoops ==
    ASSUME NEW s \in ServerTrees
    PROVE  /\ DOMAIN s \subseteq Channel
           /\ DOMAIN s # {}
           /\ s \in [DOMAIN s -> ServerChannel]
           /\ \A c \in DOMAIN s : s[c].parent # c
  <1>1. PICK S \in (SUBSET Channel) \ {{}} :
             s \in [S -> [parent : Node, name : Names, desc : Descriptions,
                          known : {EmptyText}]]
    BY DEF ServerTrees
  <1>2. IsTree(s)
    BY DEF ServerTrees
  <1>3. \A c \in DOMAIN s : s[c].parent # c
    BY <1>1, <1>2, ChannelAssumption DEF IsTree
  <1>4. \A c \in S : s[c] \in ServerChannel
    BY <1>1, MirrorAssumption DEF ServerChannel
  <1>. QED
    BY <1>1, <1>3, <1>4

\* loadChannels asks for channels of the server.
LEMMA PreordersAreChannels ==
    ASSUME NEW s, DOMAIN s \subseteq Channel, NEW order \in Preorders(s)
    PROVE  order \in Seq(Channel)
  <1>1. IsFiniteSet(DOMAIN s)
    BY FS_Subset, MirrorAssumption
  <1>2. Cardinality(DOMAIN s) \in Nat
    BY <1>1, FS_CardinalityType
  <1>3. order \in [1 .. Cardinality(DOMAIN s) -> DOMAIN s]
    BY DEF Preorders
  <1>4. order \in [1 .. Cardinality(DOMAIN s) -> Channel]
    BY <1>3
  <1>. QED
    BY <1>2, <1>4

(***************************************************************************)
(* loadChannel with the channel's present parent leaves a database that     *)
(* shows the server, if it did so for all other channels before.            *)
(***************************************************************************)
LEMMA LoadShowsServer ==
    ASSUME NEW s, NEW D, DbInv(D), NEW ch \in Channel, ch \in DOMAIN s,
           NEW parent \in Node, parent = s[ch].parent, parent # ch, NEW freqMode,
           \A c \in Loaded(D) \ {CHANNEL_ROOT, ch} :
              c \in DOMAIN s /\ D.channels[c].parent = s[c].parent
    PROVE  /\ DbInv(LoadChannel(s, D, ch, parent, freqMode))
           /\ Shows(LoadChannel(s, D, ch, parent, freqMode), s)
  <1>. DEFINE facts == FactsOf(<<s[ch].name, s[ch].known>>, freqMode)
              E == AddOrUpdateChannel(D, ch, parent, facts)
  <1>1. LoadChannel(s, D, ch, parent, freqMode) = E
    BY DEF LoadChannel
  <1>. HIDE DEF facts
  <1>2. /\ DbInv(E)
        /\ Loaded(E) = (Loaded(D) \ Branch(D.closure, ch)) \cup {ch}
        /\ E.channels[ch] = [parent |-> parent, range |-> facts.range,
                             place |-> facts.place]
        /\ \A c \in Loaded(D) \ (Branch(D.closure, ch) \cup {ch}) :
              E.channels[c] = D.channels[c]
    BY AddKeepsTables
  <1>. HIDE DEF E
  <1>3. E.channels[ch].parent = s[ch].parent
    BY <1>2
  <1>4. ASSUME NEW c \in Loaded(E) \ {CHANNEL_ROOT}
        PROVE  c \in DOMAIN s /\ E.channels[c].parent = s[c].parent
    <2>1. CASE c = ch
      BY <2>1, <1>3
    <2>2. CASE c # ch
      BY <2>2, <1>2
    <2>. QED
      BY <2>1, <2>2
  <1>5. Shows(E, s)
    BY <1>4 DEF Shows
  <1>. QED
    BY <1>1, <1>2, <1>5

\* Deleting a channel shows the server without it.
LEMMA DeleteShowsServer ==
    ASSUME NEW s, NEW t, NEW D, DbInv(D), Shows(D, s), NEW ch \in Channel,
           DOMAIN t = DOMAIN s \ {ch}, \A c \in DOMAIN t : t[c] = s[c]
    PROVE  DbInv(DeleteChannel(D, ch)) /\ Shows(DeleteChannel(D, ch), t)
  <1>. DEFINE E == DeleteChannel(D, ch)
  <1>1. /\ DbInv(E)
        /\ Loaded(E) = Loaded(D) \ Branch(D.closure, ch)
        /\ ch \notin Loaded(E)
    BY DeleteKeepsTables
  <1>2. \A c \in Loaded(E) : E.channels[c] = D.channels[c]
    BY DEF DeleteChannel, Loaded
  <1>. HIDE DEF E
  <1>3. Shows(E, t)
    BY <1>1, <1>2 DEF Shows
  <1>. QED
    BY <1>1, <1>3 DEF E

\* Emptied tables show any server.
LEMMA EmptyShowsServer ==
    ASSUME NEW s PROVE DbInv(EmptyDb) /\ Shows(EmptyDb, s)
  BY InitKeepsTables DEF EmptyDb, Shows

-----------------------------------------------------------------------------
(***************************************************************************)
(* One lemma per handler that touches the server's tree or the tables.      *)
(***************************************************************************)
LEMMA ConnectKeeps == MirrorInv /\ Connect => MirrorInv'
  <1>. SUFFICES ASSUME MirrorInv, Connect PROVE MirrorInv'
    OBVIOUS
  <1>1. /\ server' \in ServerTrees
        /\ connected' /\ server = <<>>
        /\ UNCHANGED <<initialising, modes, strayed, db>>
    BY DEF Connect, MirrorInv, TypeOK
  <1>2. PICK order \in Preorders(server') : replies' = replies \o order
    BY DEF Connect, LoadChannels
  <1>3. channelUpdates' = channelUpdates \cup DOMAIN server'
    BY DEF Connect, LoadChannels
  <1>4. /\ DOMAIN server' \subseteq Channel /\ DOMAIN server' # {}
        /\ server' \in [DOMAIN server' -> ServerChannel]
        /\ \A c \in DOMAIN server' : server'[c].parent # c
    BY <1>1, TreesHaveNoLoops
  <1>5. replies' \in Seq(Channel)
    <2>1. order \in Seq(Channel)
      BY <1>4, PreordersAreChannels
    <2>2. replies \in Seq(Channel)
      BY DEF MirrorInv, TypeOK
    <2>. QED
      BY <2>1, <2>2, <1>2
  <1>6. Shows(db, server')
    <2>1. DOMAIN server = {}
      BY <1>1
    <2>. QED
      BY <2>1 DEF MirrorInv, Shows
  <1>7. TypeOK'
    BY <1>1, <1>3, <1>4, <1>5, TRUE \in BOOLEAN
      DEF MirrorInv, TypeOK, Existing, Connect, modes
  <1>8. NoSelfParent'
    BY <1>4 DEF NoSelfParent, Existing
  <1>. QED
    BY <1>1, <1>6, <1>7, <1>8 DEF MirrorInv, Shows

LEMMA DisconnectKeeps == MirrorInv /\ Disconnect => MirrorInv'
  <1>. SUFFICES ASSUME MirrorInv, Disconnect PROVE MirrorInv'
    OBVIOUS
  <1>1. /\ connected' = FALSE /\ server' = <<>> /\ replies' = <<>> /\ db' = EmptyDb
        /\ strayed' = FALSE
        /\ UNCHANGED <<channelUpdates, initialising, modes>>
    BY DEF Disconnect
  <1>2. DbInv(db') /\ Shows(db', server')
    BY <1>1, EmptyShowsServer
  <1>3. DOMAIN server' = {} /\ server' \in [DOMAIN server' -> ServerChannel]
    BY <1>1
  <1>4. replies' \in Seq(Channel)
    BY <1>1
  <1>5. TypeOK'
    BY <1>1, <1>3, <1>4 DEF MirrorInv, TypeOK, Existing, modes
  <1>6. NoSelfParent'
    BY <1>3 DEF NoSelfParent, Existing
  <1>. QED
    BY <1>2, <1>5, <1>6 DEF MirrorInv, Shows

LEMMA NewChannelKeeps ==
    ASSUME NEW c \in Channel, NEW p \in Node, NEW n \in Names, NEW d \in Descriptions,
           MirrorInv, NewChannelCreated(c, p, n, d)
    PROVE  MirrorInv'
  <1>1. /\ connected /\ c \notin Existing
        /\ p \in Existing \cup {CHANNEL_ROOT}
        /\ db' = LoadChannel(server', db, c, p, military) /\ Strays
        /\ UNCHANGED <<connected, replies, channelUpdates, initialising, modes>>
    BY DEF NewChannelCreated
  <1>2. /\ DOMAIN server' = DOMAIN server \cup {c}
        /\ server'[c] = [parent |-> p, name |-> n, desc |-> d, known |-> EmptyText]
        /\ \A x \in DOMAIN server : x # c => server'[x] = server[x]
        /\ server' = [x \in DOMAIN server \cup {c} |-> server'[x]]
    BY DEF NewChannelCreated, Existing
  <1>3. server'[c] \in ServerChannel /\ server'[c].parent = p
    BY <1>2, MirrorAssumption DEF ServerChannel
  <1>4. p # c
    BY <1>1, ChannelAssumption
  <1>5. \A x \in Loaded(db) \ {CHANNEL_ROOT, c} :
           x \in DOMAIN server' /\ db.channels[x].parent = server'[x].parent
    BY <1>2 DEF MirrorInv, Shows
  <1>6. DbInv(db') /\ Shows(db', server')
    <2>1. DbInv(db) /\ c \in DOMAIN server'
      BY <1>2 DEF MirrorInv
    <2>. QED
      BY <2>1, <1>1, <1>3, <1>4, <1>5, LoadShowsServer
  <1>7. server' \in [DOMAIN server' -> ServerChannel]
    <2>1. \A x \in DOMAIN server' : server'[x] \in ServerChannel
      BY <1>2, <1>3 DEF MirrorInv, TypeOK, Existing
    <2>. QED
      BY <2>1, <1>2
  <1>8. TypeOK'
    BY <1>1, <1>2, <1>7 DEF MirrorInv, TypeOK, Existing, modes, Strays
  <1>9. NoSelfParent'
    BY <1>2, <1>3, <1>4 DEF MirrorInv, NoSelfParent, Existing
  <1>. QED
    BY <1>6, <1>8, <1>9 DEF MirrorInv, Shows

LEMMA DelChannelKeeps ==
    ASSUME NEW c \in Channel, MirrorInv, DelChannel(c)
    PROVE  MirrorInv'
  <1>1. /\ connected /\ c \in Existing /\ Existing # {c}
        /\ db' = DeleteChannel(db, c)
        /\ UNCHANGED <<connected, replies, channelUpdates, initialising, modes, strayed>>
    BY DEF DelChannel
  <1>2. /\ DOMAIN server' = DOMAIN server \ {c}
        /\ \A x \in DOMAIN server' : server'[x] = server[x]
        /\ server' = [x \in DOMAIN server \ {c} |-> server[x]]
    BY DEF DelChannel, Existing
  <1>3. DbInv(db') /\ Shows(db', server')
    BY <1>1, <1>2, DeleteShowsServer DEF MirrorInv
  <1>4. server' \in [DOMAIN server' -> ServerChannel]
    BY <1>2 DEF MirrorInv, TypeOK, Existing
  <1>5. TypeOK'
    BY <1>1, <1>2, <1>4 DEF MirrorInv, TypeOK, Existing, modes
  <1>6. NoSelfParent'
    BY <1>2 DEF MirrorInv, NoSelfParent, Existing
  <1>. QED
    BY <1>3, <1>5, <1>6 DEF MirrorInv, Shows

\* A channel is not moved below itself.
LEMMA ChannelMoveKeeps ==
    ASSUME NEW c \in Channel, NEW p \in Node, MirrorInv, ChannelMove(c, p)
    PROVE  MirrorInv'
  <1>1. /\ connected /\ c \in Existing
        /\ p \in (Existing \ SubTree(server, c)) \cup {CHANNEL_ROOT}
        /\ server' = [server EXCEPT ![c].parent = p]
        /\ db' = LoadChannel(server', db, c, p, military) /\ Strays
        /\ UNCHANGED <<connected, replies, channelUpdates, initialising, modes>>
    BY DEF ChannelMove
  <1>2. p # c
    <2>1. c \in SubTree(server, c)
      BY <1>1 DEF SubTree, Existing
    <2>. QED
      BY <2>1, <1>1, ChannelAssumption
  <1>3. /\ server \in [Existing -> ServerChannel]
        /\ server[c] \in ServerChannel
    BY <1>1 DEF MirrorInv, TypeOK
  <1>4. /\ DOMAIN server' = DOMAIN server
        /\ server'[c] = [server[c] EXCEPT !.parent = p]
        /\ \A x \in DOMAIN server : x # c => server'[x] = server[x]
    BY <1>1, <1>3 DEF Existing
  <1>5. server'[c] \in ServerChannel /\ server'[c].parent = p
    BY <1>3, <1>4 DEF ServerChannel
  <1>6. server' \in [DOMAIN server' -> ServerChannel]
    BY <1>1, <1>3, <1>4, <1>5 DEF Existing
  <1>7. \A x \in Loaded(db) \ {CHANNEL_ROOT, c} :
           x \in DOMAIN server' /\ db.channels[x].parent = server'[x].parent
    BY <1>4 DEF MirrorInv, Shows
  <1>8. DbInv(db') /\ Shows(db', server')
    <2>1. DbInv(db) /\ c \in DOMAIN server'
      BY <1>1, <1>4 DEF MirrorInv, Existing
    <2>. QED
      BY <2>1, <1>1, <1>2, <1>5, <1>7, LoadShowsServer
  <1>9. TypeOK'
    BY <1>1, <1>4, <1>6 DEF MirrorInv, TypeOK, Existing, modes, Strays
  <1>10. NoSelfParent'
    BY <1>2, <1>4, <1>5 DEF MirrorInv, NoSelfParent, Existing
  <1>. QED
    BY <1>8, <1>9, <1>10 DEF MirrorInv, Shows

LEMMA UpdateEditedKeeps ==
    ASSUME NEW c \in Channel, NEW n \in Names, NEW d \in Descriptions,
           MirrorInv, UpdateChannelEdited(c, n, d)
    PROVE  MirrorInv'
  <1>1. /\ connected /\ c \in Existing
        /\ server' = [server EXCEPT ![c].name = n, ![c].desc = d]
        /\ channelUpdates' = channelUpdates \cup {c}
        /\ replies' = Append(replies, c)
        /\ UNCHANGED <<connected, initialising, modes, strayed, db>>
    BY DEF UpdateChannelEdited
  <1>2. /\ server \in [Existing -> ServerChannel]
        /\ server[c] \in ServerChannel
    BY <1>1 DEF MirrorInv, TypeOK
  <1>3. /\ DOMAIN server' = DOMAIN server
        /\ server'[c] = [server[c] EXCEPT !.name = n, !.desc = d]
        /\ \A x \in DOMAIN server : x # c => server'[x] = server[x]
    BY <1>1, <1>2 DEF Existing
  <1>4. server'[c] \in ServerChannel /\ server'[c].parent = server[c].parent
    BY <1>2, <1>3 DEF ServerChannel
  <1>5. server' \in [DOMAIN server' -> ServerChannel]
    BY <1>1, <1>2, <1>3, <1>4 DEF Existing
  <1>6. replies' \in Seq(Channel)
    BY <1>1 DEF MirrorInv, TypeOK
  <1>7. TypeOK'
    BY <1>1, <1>3, <1>5, <1>6 DEF MirrorInv, TypeOK, Existing, modes
  <1>8. NoSelfParent'
    BY <1>3, <1>4 DEF MirrorInv, NoSelfParent, Existing
  <1>9. DbInv(db') /\ Shows(db', server')
    BY <1>1, <1>3, <1>4 DEF MirrorInv, Shows
  <1>. QED
    BY <1>7, <1>8, <1>9 DEF MirrorInv, Shows

\* An answer changes the description the library holds, never the tree.
LEMMA UpdateChannelKeeps == MirrorInv /\ UpdateChannel => MirrorInv'
  <1>. SUFFICES ASSUME MirrorInv, UpdateChannel PROVE MirrorInv'
    OBVIOUS
  <1>. DEFINE c == Head(replies)
  <1>1. /\ connected /\ c \in Existing /\ replies # <<>>
        /\ server' = [server EXCEPT ![c].known = server[c].desc]
        /\ \/ /\ c \in channelUpdates
              /\ channelUpdates' = channelUpdates \ {c}
              /\ db' = LoadChannel(server', db, c, server[c].parent, military)
              /\ initialising' = (initialising /\ channelUpdates' # {})
              /\ Strays
           \/ UNCHANGED <<channelUpdates, db, strayed, initialising>>
        /\ replies' = Tail(replies)
        /\ UNCHANGED <<connected, modes>>
    BY DEF UpdateChannel
  <1>2. /\ server \in [Existing -> ServerChannel]
        /\ server[c] \in ServerChannel
        /\ c \in Channel
    BY <1>1 DEF MirrorInv, TypeOK
  <1>3. replies' \in Seq(Channel)
    BY <1>1 DEF MirrorInv, TypeOK
  <1>. HIDE DEF c
  <1>4. /\ DOMAIN server' = DOMAIN server
        /\ server'[c] = [server[c] EXCEPT !.known = server[c].desc]
        /\ \A x \in DOMAIN server : x # c => server'[x] = server[x]
    BY <1>1, <1>2 DEF Existing
  <1>5. server'[c] \in ServerChannel /\ server'[c].parent = server[c].parent
    BY <1>2, <1>4 DEF ServerChannel
  <1>6. server' \in [DOMAIN server' -> ServerChannel]
    BY <1>1, <1>2, <1>4, <1>5 DEF Existing
  <1>7. \A x \in DOMAIN server : server'[x].parent = server[x].parent
    BY <1>4, <1>5
  <1>8. /\ channelUpdates' \subseteq Channel /\ initialising' \in BOOLEAN
        /\ strayed' \in BOOLEAN
    BY <1>1 DEF MirrorInv, TypeOK, Strays
  <1>9. TypeOK'
    BY <1>1, <1>3, <1>4, <1>6, <1>8 DEF MirrorInv, TypeOK, Existing, modes
  <1>10. NoSelfParent'
    BY <1>4, <1>7 DEF MirrorInv, NoSelfParent, Existing
  <1>11. DbInv(db') /\ Shows(db', server')
    <2>1. CASE UNCHANGED db
      BY <2>1, <1>4, <1>7 DEF MirrorInv, Shows
    <2>2. CASE db' = LoadChannel(server', db, c, server[c].parent, military)
      <3>1. \A x \in Loaded(db) \ {CHANNEL_ROOT, c} :
               x \in DOMAIN server' /\ db.channels[x].parent = server'[x].parent
        BY <1>4, <1>7 DEF MirrorInv, Shows
      <3>2. /\ DbInv(db) /\ c \in DOMAIN server'
            /\ server[c].parent \in Node /\ server[c].parent # c
        BY <1>1, <1>2, <1>4 DEF MirrorInv, NoSelfParent, ServerChannel, Existing
      <3>. QED
        BY <2>2, <3>1, <3>2, <1>2, <1>5, LoadShowsServer
    <2>. QED
      BY <1>1, <2>1, <2>2
  <1>. QED
    BY <1>9, <1>10, <1>11 DEF MirrorInv, Shows

LEMMA FrequencyModeKeeps ==
    ASSUME NEW m \in FrequencyModes, MirrorInv, FrequencyModeChange(m)
    PROVE  MirrorInv'
  <1>1. /\ military' = m /\ lastFreqMode' = m
        /\ UNCHANGED <<connected, server, initialising>>
    BY DEF FrequencyModeChange, serverVars
  <1>2. DbInv(db') /\ Shows(db', server') /\ strayed' \in BOOLEAN
    <2>1. CASE m = lastFreqMode
      BY <1>1, <2>1 DEF FrequencyModeChange, MirrorInv, TypeOK, Shows
    <2>2. CASE m # lastFreqMode
      BY <1>1, <2>2, EmptyShowsServer DEF FrequencyModeChange
    <2>. QED
      BY <2>1, <2>2
  <1>3. replies' \in Seq(Channel) /\ channelUpdates' \subseteq Channel
    <2>1. CASE m # lastFreqMode /\ connected
      <3>1. PICK order \in Preorders(server) : replies' = replies \o order
        BY <2>1 DEF FrequencyModeChange, LoadChannels
      <3>2. DOMAIN server \subseteq Channel
        BY DEF MirrorInv, TypeOK, Existing
      <3>3. order \in Seq(Channel)
        BY <3>2, PreordersAreChannels
      <3>4. channelUpdates' = channelUpdates \cup DOMAIN server
        BY <2>1 DEF FrequencyModeChange, LoadChannels
      <3>. QED
        BY <3>1, <3>2, <3>3, <3>4 DEF MirrorInv, TypeOK
    <2>2. CASE m = lastFreqMode \/ ~ connected
      BY <2>2 DEF FrequencyModeChange, MirrorInv, TypeOK
    <2>. QED
      BY <2>1, <2>2
  <1>5. TypeOK'
    BY <1>1, <1>2, <1>3 DEF MirrorInv, TypeOK, Existing
  <1>6. NoSelfParent'
    BY <1>1 DEF MirrorInv, NoSelfParent, Existing
  <1>. QED
    BY <1>2, <1>5, <1>6 DEF MirrorInv, Shows

LEMMA OthersKeep ==
    ASSUME MirrorInv,
           \/ \E c \in Channel : UserViewsChannel(c)
           \/ ServerError
           \/ SaveSettings
           \/ UNCHANGED vars
    PROVE  MirrorInv'
  <1>1. /\ UNCHANGED <<connected, server, channelUpdates, initialising, lastFreqMode,
                        strayed, db>>
        /\ military' = military \/ military' \in FrequencyModes
    BY DEF UserViewsChannel, ServerError, SaveSettings, serverVars, modes, vars
  <1>2. replies' \in Seq(Channel)
    <2>1. ASSUME NEW c \in Channel, UserViewsChannel(c) PROVE replies' \in Seq(Channel)
      BY <2>1 DEF UserViewsChannel, MirrorInv, TypeOK
    <2>2. CASE ServerError
      BY <2>2 DEF ServerError, MirrorInv, TypeOK
    <2>3. CASE SaveSettings \/ UNCHANGED vars
      BY <2>3 DEF SaveSettings, vars, MirrorInv, TypeOK
    <2>. QED
      BY <2>1, <2>2, <2>3
  <1>3. TypeOK'
    BY <1>1, <1>2 DEF MirrorInv, TypeOK, Existing
  <1>. QED
    BY <1>1, <1>3 DEF MirrorInv, NoSelfParent, Existing, Shows

-----------------------------------------------------------------------------
LEMMA MirrorInvHolds == Spec => []MirrorInv
  <1>1. Init => MirrorInv
    <2>. SUFFICES ASSUME Init PROVE MirrorInv
      OBVIOUS
    <2>1. /\ connected = FALSE /\ server = <<>> /\ replies = <<>>
          /\ channelUpdates = {} /\ initialising = TRUE /\ strayed = FALSE
          /\ military \in FrequencyModes /\ lastFreqMode = military /\ db = EmptyDb
      BY DEF Init
    <2>2. DOMAIN server = {} /\ server \in [DOMAIN server -> ServerChannel]
      BY <2>1
    <2>3. replies \in Seq(Channel)
      BY <2>1
    <2>4. TypeOK
      BY <2>1, <2>2, <2>3 DEF TypeOK, Existing
    <2>5. DbInv(db) /\ Shows(db, server)
      BY <2>1, EmptyShowsServer
    <2>. QED
      BY <2>2, <2>4, <2>5 DEF MirrorInv, NoSelfParent, Existing
  <1>2. MirrorInv /\ [Next]_vars => MirrorInv'
    BY ConnectKeeps, DisconnectKeeps, NewChannelKeeps, DelChannelKeeps, ChannelMoveKeeps,
       UpdateEditedKeeps, UpdateChannelKeeps, FrequencyModeKeeps, OthersKeep DEF Next
  <1>. QED
    BY <1>1, <1>2, PTL DEF Spec

(***************************************************************************)
(* The state the handlers share is well typed after any sequence of events. *)
(***************************************************************************)
THEOREM MirrorTypes == Spec => []TypeOK
  <1>1. MirrorInv => TypeOK
    BY DEF MirrorInv
  <1>. QED
    BY <1>1, MirrorInvHolds, PTL

(***************************************************************************)
(* The database never shows a channel the server does not have, nor one     *)
(* under a parent it no longer has, however notifications, answers,         *)
(* reconnections and changes of the frequency mode follow each other.       *)
(***************************************************************************)
THEOREM NoGhosts == Spec => []NoGhostChannels
  <1>1. MirrorInv => NoGhostChannels
    BY DEF MirrorInv, NoGhostChannels, Shows, Existing
  <1>. QED
    BY <1>1, MirrorInvHolds, PTL

-----------------------------------------------------------------------------
(***************************************************************************)
(* The handlers as callers of the TS3Channels object.                       *)
(***************************************************************************)
TheFacts == {FactsOf(<<n, d>>, m) : n \in Names, d \in Descriptions, m \in BOOLEAN}

\* The operators of the instance are those of ChannelDb.
LEMMA SameDelete ==
    ASSUME NEW D, NEW d PROVE Tables!DeleteChannel(D, d) = DeleteChannel(D, d)
  BY DEF Tables!DeleteChannel, DeleteChannel, Tables!Branch, Branch,
         Tables!DeleteClosure, DeleteClosure, Tables!ThroughLink, ThroughLink,
         Tables!FromBranch, FromBranch, Tables!Loaded, Loaded

LEMMA SameInsert ==
    ASSUME NEW D, NEW ch, NEW parent, NEW facts
    PROVE  Tables!InsertChannel(D, ch, parent, facts) = InsertChannel(D, ch, parent, facts)
  BY DEF Tables!InsertChannel, InsertChannel, Tables!SelfRow, SelfRow,
         Tables!ParentRows, ParentRows, Tables!FrequencyRows, FrequencyRows,
         Tables!Loaded, Loaded

LEMMA SameAdd ==
    ASSUME NEW D, NEW ch, NEW parent, NEW facts
    PROVE  Tables!AddOrUpdateChannel(D, ch, parent, facts)
             = AddOrUpdateChannel(D, ch, parent, facts)
  BY SameDelete, SameInsert DEF Tables!AddOrUpdateChannel, AddOrUpdateChannel

LEMMA SameEmpty == Tables!EmptyDb = EmptyDb
  BY DEF Tables!EmptyDb, EmptyDb, Tables!InitDatabase, InitDatabase

\* A load of a server's channel below its parent is a call of the class.
LEMMA LoadIsCall ==
    ASSUME NEW s, NEW c \in Channel, s[c] \in ServerChannel, NEW parent \in Node,
           parent # c, NEW freqMode \in BOOLEAN,
           db' = LoadChannel(s, db, c, parent, freqMode)
    PROVE  Tables!Next
  <1>. DEFINE facts == FactsOf(<<s[c].name, s[c].known>>, freqMode)
  <1>1. facts \in TheFacts
    BY DEF TheFacts, ServerChannel
  <1>2. db' = Tables!AddOrUpdateChannel(db, c, parent, facts)
    BY SameAdd DEF LoadChannel
  <1>. HIDE DEF facts
  <1>3. parent \in Tables!Node \ {c}
    BY DEF Tables!Node, Node
  <1>4. Tables!addOrUpdateChannel(c, parent, facts)
    BY <1>2 DEF Tables!addOrUpdateChannel
  <1>5. \E p \in Tables!Node \ {c}, f \in TheFacts : Tables!addOrUpdateChannel(c, p, f)
    BY <1>1, <1>3, <1>4
  <1>. QED
    BY <1>5 DEF Tables!Next, TheFacts

(***************************************************************************)
(* Every handler uses the class as it is meant to be used: the mirror       *)
(* implements TS3Channels, so whatever holds of any sequence of its calls,  *)
(* the consistency of the tables among it, holds of the plugin's.           *)
(***************************************************************************)
THEOREM MirrorCallsTables == Spec => CallsTables
  <1>1. Init => Tables!Init
    BY SameEmpty DEF Init, Tables!Init
  <1>2. MirrorInv /\ [Next]_vars => [Tables!Next]_db
    <2>. SUFFICES ASSUME MirrorInv, [Next]_vars PROVE Tables!Next \/ UNCHANGED db
      OBVIOUS
    <2>1. /\ server \in [Existing -> ServerChannel] /\ Existing \subseteq Channel
          /\ military \in BOOLEAN
      BY MirrorAssumption DEF MirrorInv, TypeOK
    <2>2. MirrorInv'
      BY ConnectKeeps, DisconnectKeeps, NewChannelKeeps, DelChannelKeeps,
         ChannelMoveKeeps, UpdateEditedKeeps, UpdateChannelKeeps, FrequencyModeKeeps,
         OthersKeep DEF Next
    <2>3. \A c \in DOMAIN server' : server'[c] \in ServerChannel
      BY <2>2 DEF MirrorInv, TypeOK, Existing
    <2>4. ASSUME NEW c \in Channel, NEW p \in Node, NEW n \in Names,
                 NEW d \in Descriptions, NewChannelCreated(c, p, n, d)
          PROVE  Tables!Next
      <3>1. /\ c \in DOMAIN server' /\ p # c
            /\ db' = LoadChannel(server', db, c, p, military)
        BY <2>4, ChannelAssumption DEF NewChannelCreated, Existing
      <3>. QED
        BY <3>1, <2>1, <2>3, LoadIsCall
    <2>5. ASSUME NEW c \in Channel, NEW p \in Node, ChannelMove(c, p) PROVE Tables!Next
      <3>1. c \in SubTree(server, c)
        BY <2>5 DEF ChannelMove, SubTree, Existing
      <3>2. /\ c \in DOMAIN server' /\ p # c
            /\ db' = LoadChannel(server', db, c, p, military)
        BY <2>1, <2>5, <3>1, ChannelAssumption DEF ChannelMove, Existing
      <3>. QED
        BY <3>2, <2>1, <2>3, LoadIsCall
    <2>6. ASSUME UpdateChannel PROVE Tables!Next \/ UNCHANGED db
      <3>. DEFINE c == Head(replies)
      <3>1. /\ c \in Existing /\ c \in DOMAIN server'
            /\ \/ db' = LoadChannel(server', db, c, server[c].parent, military)
               \/ UNCHANGED db
        BY <2>1, <2>6 DEF UpdateChannel, Existing
      <3>. HIDE DEF c
      <3>2. c \in Channel /\ server[c].parent \in Node /\ server[c].parent # c
        BY <3>1, <2>1 DEF MirrorInv, NoSelfParent, ServerChannel
      <3>. QED
        BY <3>1, <3>2, <2>1, <2>3, LoadIsCall
    <2>7. ASSUME NEW c \in Channel, DelChannel(c) PROVE Tables!Next
      <3>1. db' = Tables!DeleteChannel(db, c)
        BY <2>7, SameDelete DEF DelChannel
      <3>. QED
        BY <3>1 DEF Tables!Next, Tables!deleteChannel
    <2>8. CASE Disconnect \/ \E m \in FrequencyModes : FrequencyModeChange(m)
      <3>1. db' = Tables!EmptyDb \/ UNCHANGED db
        BY <2>8, SameEmpty DEF Disconnect, FrequencyModeChange
      <3>. QED
        BY <3>1 DEF Tables!Next, Tables!deleteAllChannels
    <2>9. CASE Connect \/ ServerError \/ SaveSettings \/ UNCHANGED vars
      BY <2>9 DEF Connect, ServerError, SaveSettings, vars
    <2>10. ASSUME NEW c \in Channel, UserViewsChannel(c) PROVE UNCHANGED db
      BY <2>10 DEF UserViewsChannel
    <2>11. ASSUME NEW c \in Channel, NEW n \in Names, NEW d \in Descriptions,
                  UpdateChannelEdited(c, n, d)
           PROVE  UNCHANGED db
      BY <2>11 DEF UpdateChannelEdited
    <2>. QED
      BY <2>4, <2>5, <2>6, <2>7, <2>8, <2>9, <2>10, <2>11 DEF Next
  <1>. QED
    BY <1>1, <1>2, MirrorInvHolds, PTL DEF Spec, CallsTables, Tables!Spec

-----------------------------------------------------------------------------
(***************************************************************************)
(* What the loads leave behind: the depths the lookup ranks by are true,    *)
(* every top-level channel is there, and no stored frequency is stale.         *)
(***************************************************************************)

\* The frequencies stored for c.
RowsIn(D, c) == {<<r[2], r[3]>> : r \in {x \in D.channelFrequency : x[1] = c}}

LEMMA DeleteContents ==
    ASSUME NEW D, DbInv(D), NEW d \in Channel
    PROVE  /\ Loaded(DeleteChannel(D, d)) = Loaded(D) \ Branch(D.closure, d)
           /\ \A c \in Loaded(DeleteChannel(D, d)) :
                 RowsIn(DeleteChannel(D, d), c) = RowsIn(D, c)
<1> DEFINE E == DeleteChannel(D, d)
           B == Branch(D.closure, d)
<1>1. /\ E.channelFrequency = {r \in D.channelFrequency : r[1] \notin B}
      /\ Loaded(E) = Loaded(D) \ B
  BY DEF DeleteChannel, Loaded
<1> HIDE DEF E, B
<1>2. ASSUME NEW c \in Loaded(E) PROVE RowsIn(E, c) = RowsIn(D, c)
  <2>1. {x \in E.channelFrequency : x[1] = c} = {x \in D.channelFrequency : x[1] = c}
    BY <1>1
  <2> QED
    BY <2>1 DEF RowsIn
<1> QED
  BY <1>1, <1>2 DEF E, B

\* A channel right below Root is in no other channel's branch.
LEMMA TopLevelAlone ==
    ASSUME NEW D, DbInv(D), NEW d \in Channel,
           NEW c \in Loaded(D), c # d, D.channels[c].parent = CHANNEL_ROOT
    PROVE  c \notin Branch(D.closure, d)
<1> SUFFICES ASSUME c \in Branch(D.closure, d) PROVE FALSE
  OBVIOUS
<1>1. PICK r \in D.closure : r[1] = d /\ r[2] = c
  BY DEF Branch
<1>2. r[3] \in Nat /\ r[3] # 0
  BY <1>1, RowShape DEF DbInv, SelfRows
<1>3. r[3] > 0 /\ r[3] >= 1
  BY <1>2, SMT
<1> DEFINE s == <<CHANNEL_ROOT, c, 1>>
<1>4. s \in D.closure
  BY <1>1, <1>3 DEF DbInv, LinkedUp
<1>5. <<r[1], s[1], r[3] - s[3]>> \in D.closure
  BY <1>1, <1>3, <1>4 DEF DbInv, OnePath
<1>6. <<d, CHANNEL_ROOT, r[3] - 1>> \in D.closure
  BY <1>1, <1>5
<1> QED
  BY <1>6, ChannelAssumption DEF DbInv, RootOnTop

LEMMA AddContents ==
    ASSUME NEW D, DbInv(D), NEW ch \in Channel,
           NEW parent \in Node, parent # ch,
           NEW facts, \A f \in facts.rows : f = <<f[1], f[2]>>,
           NEW E, E = AddOrUpdateChannel(D, ch, parent, facts)
    PROVE  /\ ch \in Loaded(E)
           /\ RowsIn(E, ch) = facts.rows
           /\ \A c \in Loaded(D) : D.channels[c].parent = CHANNEL_ROOT => c \in Loaded(E)
           /\ \A c \in Loaded(E) \ {ch} : c \in Loaded(D) /\ RowsIn(E, c) = RowsIn(D, c)
<1> DEFINE C == DeleteChannel(D, ch)
<1>1. /\ DbInv(C) /\ ch \notin Loaded(C)
      /\ Loaded(C) = Loaded(D) \ Branch(D.closure, ch)
      /\ \A c \in Loaded(C) : RowsIn(C, c) = RowsIn(D, c)
  BY DeleteKeepsTables, DeleteContents
<1>2. E = Inserted(C, ch, parent, facts)
  BY LoadedTables
<1> HIDE DEF C
<1>3. /\ Loaded(E) = Loaded(C) \cup {ch}
      /\ E.channels[ch].parent = parent
      /\ \A c \in Loaded(C) : E.channels[c] = C.channels[c]
      /\ E.closure = C.closure \cup {SelfRow(ch)} \cup LinksBelow(C.closure, parent, ch)
      /\ E.channelFrequency = C.channelFrequency \cup FrequencyRows(ch, facts)
  <2>1. E.channels = [c \in Loaded(C) \cup {ch} |->
                          IF c = ch THEN [parent |-> parent,
                                          range  |-> facts.range,
                                          place  |-> facts.place]
                          ELSE C.channels[c]]
    BY <1>2 DEF Inserted
  <2>2. \A c \in Loaded(C) : c # ch
    BY <1>1
  <2> QED
    BY <1>2, <2>1, <2>2 DEF Inserted, Loaded
<1>4. RowsIn(E, ch) = facts.rows
  BY <1>1, <1>2, LoadedRows DEF RowsIn
<1>5. ASSUME NEW c \in Loaded(C) PROVE RowsIn(E, c) = RowsIn(D, c)
  <2>1. {x \in E.channelFrequency : x[1] = c} = {x \in C.channelFrequency : x[1] = c}
    BY <1>1, <1>3 DEF FrequencyRows
  <2>2. RowsIn(E, c) = RowsIn(C, c)
    BY <2>1 DEF RowsIn
  <2> QED
    BY <1>1, <2>2
<1>6. ASSUME NEW c \in Loaded(D), D.channels[c].parent = CHANNEL_ROOT PROVE c \in Loaded(E)
  BY <1>1, <1>3, <1>6, TopLevelAlone
<1> QED
  BY <1>1, <1>3, <1>4, <1>5, <1>6

LEMMA EmptyContents == Loaded(EmptyDb) = {CHANNEL_ROOT}
  BY DEF EmptyDb, InitDatabase, Loaded

\* What texts tell are pairs.
LEMMA FactsArePairs ==
    ASSUME NEW texts, NEW mode
    PROVE  \A f \in FactsOf(texts, mode).rows : f = <<f[1], f[2]>>
<1>0. ASSUME NEW S, NEW v, NEW f \in S \X {v} PROVE f = <<f[1], f[2]>>
  OBVIOUS
<1>1. ASSUME NEW f \in FrequenciesFromStrings(texts, mode) PROVE f = <<f[1], f[2]>>
  <2>1. \E S, v : f \in S \X {v}
    BY Zenon DEF FrequenciesFromStrings
  <2> QED
    BY <1>0, <2>1
<1>2. ASSUME NEW stations, NEW f \in StationRows(stations) PROVE f = <<f[1], f[2]>>
  <2>1. \E g, v : f = <<g, v>>
    BY Zenon DEF StationRows
  <2> QED
    BY <2>1
<1>3. FactsOf(texts, mode).rows = FrequenciesFromStrings(texts, mode)
      \/ \E stations : FactsOf(texts, mode).rows = StationRows(stations)
  BY DEF FactsOf
<1> QED
  BY <1>1, <1>2, <1>3

-----------------------------------------------------------------------------
(***************************************************************************)
(* The inductive invariant: a channel either has an answer under way that   *)
(* the plugin waits for, or is settled - the library holds its present      *)
(* description or none, it is loaded if it is right below Root, and what is *)
(* loaded of it is not stale: read in the mode last changed to, or while    *)
(* strayed in either.                                                       *)
(***************************************************************************)
Awaited(c) == c \in channelUpdates /\ c \in ToSet(replies)

Fresh(c) ==
    \E d \in {server[c].desc, EmptyText}, m \in LoadedModes :
        RowsIn(db, c) = FactsOf(<<server[c].name, d>>, m).rows

Settled(c) ==
    /\ server[c].known \in {server[c].desc, EmptyText}
    /\ server[c].parent = CHANNEL_ROOT => c \in Loaded(db)
    /\ c \in Loaded(db) => Fresh(c)

LoadsInv == \A c \in Existing : Awaited(c) \/ Settled(c)

\* A request stays under way until it is answered.
LEMMA AppendKeeps ==
    ASSUME NEW q \in Seq(Channel), NEW c \in Channel
    PROVE  ToSet(q) \cup {c} \subseteq ToSet(Append(q, c))
<1> DEFINE a == Append(q, c)
<1>1. /\ DOMAIN q = 1 .. Len(q) /\ DOMAIN a = 1 .. Len(q) + 1 /\ Len(q) \in Nat
      /\ \A i \in 1 .. Len(q) : a[i] = q[i]
      /\ a[Len(q) + 1] = c
  OBVIOUS
<1>2. 1 .. Len(q) \subseteq 1 .. Len(q) + 1 /\ Len(q) + 1 \in 1 .. Len(q) + 1
  BY <1>1, SMT
<1> HIDE DEF a
<1> QED
  BY <1>1, <1>2 DEF ToSet, a

LEMMA ConcatKeeps ==
    ASSUME NEW q \in Seq(Channel), NEW t \in Seq(Channel)
    PROVE  ToSet(t) \subseteq ToSet(q \o t)
<1> DEFINE a == q \o t
<1>1. /\ DOMAIN t = 1 .. Len(t) /\ DOMAIN a = 1 .. Len(q) + Len(t)
      /\ Len(q) \in Nat /\ Len(t) \in Nat
      /\ \A i \in 1 .. Len(t) : a[Len(q) + i] = t[i]
  OBVIOUS
<1>2. \A i \in 1 .. Len(t) : Len(q) + i \in 1 .. Len(q) + Len(t)
  BY <1>1, SMT
<1> HIDE DEF a
<1> QED
  BY <1>1, <1>2 DEF ToSet, a

LEMMA TailKeeps ==
    ASSUME NEW q \in Seq(Channel), q # <<>>, NEW c \in ToSet(q), c # Head(q)
    PROVE  c \in ToSet(Tail(q))
<1>1. PICK i \in 1 .. Len(q) : q[i] = c
  BY DEF ToSet
<1>2. i # 1 /\ Len(q) \in Nat
  BY <1>1
<1>3. i - 1 \in 1 .. Len(q) - 1 /\ (i - 1) + 1 = i
  BY <1>1, <1>2, SMT
<1>4. DOMAIN Tail(q) = 1 .. Len(q) - 1 /\ \A k \in 1 .. Len(q) - 1 : Tail(q)[k] = q[k + 1]
  OBVIOUS
<1>5. Tail(q)[i - 1] = c
  BY <1>1, <1>3, <1>4
<1> QED
  BY <1>3, <1>4, <1>5 DEF ToSet

-----------------------------------------------------------------------------
(***************************************************************************)
(* What a handler does is one of three things: load one channel, load none, *)
(* or have every channel awaited.                                           *)
(***************************************************************************)
LEMMA LoadSettles ==
    ASSUME MirrorInv, LoadsInv, NEW c \in Channel, NEW p \in Node, p # c,
           c \in Existing', server'[c].parent = p, UNCHANGED modes, Strays,
           db' = LoadChannel(server', db, c, p, military),
           Awaited(c)' \/ server'[c].known \in {server'[c].desc, EmptyText},
           \A x \in Existing' \ {c} :
              x \in Existing /\ server'[x] = server[x] /\ (Awaited(x) => Awaited(x)')
    PROVE  LoadsInv'
<1> DEFINE facts == FactsOf(<<server'[c].name, server'[c].known>>, military)
<1>0. LoadedModes \subseteq LoadedModes' /\ military \in LoadedModes'
  BY DEF LoadedModes, Strays, modes, MirrorInv, TypeOK
<1>1. db' = AddOrUpdateChannel(db, c, p, facts) /\ \A f \in facts.rows : f = <<f[1], f[2]>>
  BY FactsArePairs DEF LoadChannel
<1>2. DbInv(db) /\ Shows(db, server)
  BY DEF MirrorInv, LoadsInv
<1>3. RowsIn(db', c) = facts.rows
  <2> HIDE DEF facts
  <2> QED
    BY <1>1, <1>2, AddContents
<1>4. /\ c \in Loaded(db')
      /\ \A x \in Loaded(db) : db.channels[x].parent = CHANNEL_ROOT => x \in Loaded(db')
      /\ \A x \in Loaded(db') \ {c} : x \in Loaded(db) /\ RowsIn(db', x) = RowsIn(db, x)
  <2> HIDE DEF facts
  <2> QED
    BY <1>1, <1>2, AddContents
<1>5. Awaited(c)' \/ Settled(c)'
  <2> SUFFICES ASSUME server'[c].known \in {server'[c].desc, EmptyText}
               PROVE  Settled(c)'
    OBVIOUS
  <2>1. Fresh(c)'
    BY <1>0, <1>3 DEF Fresh
  <2> QED
    BY <1>4, <2>1 DEF Settled
<1>6. ASSUME NEW x \in Existing', x # c PROVE Awaited(x)' \/ Settled(x)'
  <2>1. x \in Existing /\ server'[x] = server[x] /\ (Awaited(x) => Awaited(x)')
    BY <1>6
  <2>2. CASE Awaited(x)
    BY <2>1, <2>2
  <2>3. CASE Settled(x)
    <3>1. server'[x].parent = CHANNEL_ROOT => x \in Loaded(db')
      <4> SUFFICES ASSUME server[x].parent = CHANNEL_ROOT PROVE x \in Loaded(db')
        BY <2>1
      <4>1. x \in Loaded(db)
        BY <2>3 DEF Settled
      <4>2. x # CHANNEL_ROOT
        BY <2>1, ChannelAssumption DEF MirrorInv, TypeOK
      <4>3. db.channels[x].parent = CHANNEL_ROOT
        BY <1>2, <4>1, <4>2 DEF Shows
      <4> QED
        BY <1>4, <4>1, <4>3
    <3>2. x \in Loaded(db') => Fresh(x)'
      <4> SUFFICES ASSUME x \in Loaded(db') PROVE Fresh(x)'
        OBVIOUS
      <4>1. x \in Loaded(db) /\ RowsIn(db', x) = RowsIn(db, x)
        BY <1>4, <1>6
      <4> QED
        BY <1>0, <2>1, <2>3, <4>1 DEF Settled, Fresh
    <3> QED
      BY <2>1, <2>3, <3>1, <3>2 DEF Settled
  <2> QED
    BY <2>1, <2>2, <2>3 DEF LoadsInv
<1> QED
  BY <1>4, <1>5, <1>6 DEF LoadsInv

LEMMA NoLoadSettles ==
    ASSUME LoadsInv, db' = db, UNCHANGED <<lastFreqMode, strayed>>,
           \A x \in Existing' :
              \/ Awaited(x)'
              \/ /\ x \in Existing /\ ~ Awaited(x)
                 /\ server'[x].name = server[x].name
                 /\ server'[x].desc = server[x].desc
                 /\ server'[x].parent = server[x].parent
                 /\ server'[x].known \in {server[x].known, server[x].desc}
    PROVE  LoadsInv'
<1>1. ASSUME NEW x \in Existing', ~ Awaited(x)' PROVE Settled(x)'
  <2>1. /\ Settled(x)
        /\ server'[x].name = server[x].name
        /\ server'[x].desc = server[x].desc
        /\ server'[x].parent = server[x].parent
        /\ server'[x].known \in {server[x].known, server[x].desc}
    BY <1>1 DEF LoadsInv
  <2> QED
    BY <2>1 DEF Settled, Fresh, LoadedModes
<1> QED
  BY <1>1 DEF LoadsInv

LEMMA AllAwaited ==
    ASSUME LoadsInv, db' = db \/ db' = EmptyDb, \A x \in Existing' : Awaited(x)'
    PROVE  LoadsInv'
  BY EmptyContents DEF LoadsInv

\* loadChannels awaits an answer for every channel.
LEMMA LoadChannelsAwaits ==
    ASSUME TypeOK, NEW s, server' = s, DOMAIN s \subseteq Channel, LoadChannels(s)
    PROVE  \A x \in Existing' : Awaited(x)'
<1>1. PICK order \in Preorders(s) : replies' = replies \o order
  BY DEF LoadChannels
<1>2. order \in Seq(Channel) /\ replies \in Seq(Channel)
  BY PreordersAreChannels DEF TypeOK
<1>3. ToSet(order) = DOMAIN s
  BY DEF Preorders, IsPreorder
<1>4. DOMAIN s \subseteq ToSet(replies') /\ DOMAIN s \subseteq channelUpdates'
  BY <1>1, <1>2, <1>3, ConcatKeeps DEF LoadChannels
<1> QED
  BY <1>4 DEF Awaited, Existing

-----------------------------------------------------------------------------
(***************************************************************************)
(* One lemma per handler.                                                   *)
(***************************************************************************)
LEMMA ConnectSettles == MirrorInv /\ LoadsInv /\ Connect => LoadsInv'
<1> SUFFICES ASSUME MirrorInv, LoadsInv, Connect PROVE LoadsInv'
  OBVIOUS
<1>1. DOMAIN server' \subseteq Channel
  BY TreesHaveNoLoops DEF Connect
<1>2. \A x \in Existing' : Awaited(x)'
  BY <1>1, LoadChannelsAwaits DEF Connect, MirrorInv
<1> QED
  BY <1>2, AllAwaited DEF Connect

LEMMA DisconnectSettles == LoadsInv /\ Disconnect => LoadsInv'
<1> SUFFICES ASSUME LoadsInv, Disconnect PROVE LoadsInv'
  OBVIOUS
<1>1. server' = <<>> /\ db' = EmptyDb
  BY DEF Disconnect
<1>2. Existing' = {}
  BY <1>1 DEF Existing
<1> QED
  BY <1>1, <1>2, AllAwaited

LEMMA FrequencyModeSettles ==
    ASSUME MirrorInv, LoadsInv, NEW m \in FrequencyModes, FrequencyModeChange(m)
    PROVE  LoadsInv'
<1>1. server' = server /\ Existing' = Existing /\ lastFreqMode' = m
  BY DEF FrequencyModeChange, serverVars, Existing
<1>2. CASE m = lastFreqMode
  <2>1. UNCHANGED <<replies, channelUpdates, lastFreqMode, strayed, db>>
    BY <1>1, <1>2 DEF FrequencyModeChange
  <2>2. \A x \in Existing' : Awaited(x) => Awaited(x)'
    BY <2>1 DEF Awaited
  <2> QED
    BY <1>1, <2>1, <2>2, NoLoadSettles
<1>3. CASE m # lastFreqMode /\ connected
  <2>1. \A x \in Existing' : Awaited(x)'
    BY <1>1, <1>3, LoadChannelsAwaits DEF FrequencyModeChange, MirrorInv, TypeOK, Existing
  <2> QED
    BY <1>3, <2>1, AllAwaited DEF FrequencyModeChange
<1>4. CASE m # lastFreqMode /\ ~ connected
  <2>1. server' = <<>>
    BY <1>1, <1>4 DEF MirrorInv, TypeOK
  <2>2. Existing' = {}
    BY <2>1 DEF Existing
  <2> QED
    BY <1>4, <2>2, AllAwaited DEF FrequencyModeChange
<1> QED
  BY <1>2, <1>3, <1>4

LEMMA NewChannelSettles ==
    ASSUME MirrorInv, LoadsInv, NEW c \in Channel, NEW p \in Node, NEW n \in Names,
           NEW d \in Descriptions, NewChannelCreated(c, p, n, d)
    PROVE  LoadsInv'
<1>1. /\ UNCHANGED <<replies, channelUpdates, modes>>
      /\ db' = LoadChannel(server', db, c, p, military) /\ Strays
      /\ c \notin Existing /\ p # c
      /\ server' = [x \in Existing \cup {c} |->
                      IF x = c THEN [parent |-> p, name |-> n, desc |-> d, known |-> EmptyText]
                      ELSE server[x]]
  BY ChannelAssumption DEF NewChannelCreated
<1>2. /\ Existing' = Existing \cup {c}
      /\ server'[c].parent = p /\ server'[c].known = EmptyText
      /\ \A x \in Existing' \ {c} : x \in Existing /\ server'[x] = server[x]
  BY <1>1 DEF Existing
<1>3. \A x : Awaited(x) => Awaited(x)'
  BY <1>1 DEF Awaited
<1> QED
  BY <1>1, <1>2, <1>3, LoadSettles

LEMMA DelChannelSettles ==
    ASSUME MirrorInv, LoadsInv, NEW c \in Channel, DelChannel(c)
    PROVE  LoadsInv'
<1>1. /\ UNCHANGED <<replies, channelUpdates, modes, strayed>>
      /\ db' = DeleteChannel(db, c)
      /\ server' = [x \in Existing \ {c} |-> server[x]]
  BY DEF DelChannel
<1>2. Existing' = Existing \ {c} /\ \A x \in Existing' : server'[x] = server[x]
  BY <1>1 DEF Existing
<1>3. DbInv(db) /\ Shows(db, server) /\ Existing \subseteq Channel
  BY DEF MirrorInv, TypeOK, LoadsInv
<1>4. /\ Loaded(db') = Loaded(db) \ Branch(db.closure, c)
      /\ \A x \in Loaded(db') : RowsIn(db', x) = RowsIn(db, x)
  BY <1>1, <1>3, DeleteContents
<1>5. ASSUME NEW x \in Existing', ~ Awaited(x)' PROVE Settled(x)'
  <2>1. x \in Existing /\ x # c /\ Settled(x) /\ x # CHANNEL_ROOT
    BY <1>1, <1>2, <1>3, <1>5, ChannelAssumption DEF LoadsInv, Awaited
  <2>2. ASSUME server[x].parent = CHANNEL_ROOT PROVE x \in Loaded(db')
    <3>1. x \in Loaded(db)
      BY <2>1, <2>2 DEF Settled
    <3>2. db.channels[x].parent = CHANNEL_ROOT
      BY <1>3, <2>1, <2>2, <3>1 DEF Shows
    <3> QED
      BY <1>3, <1>4, <2>1, <3>1, <3>2, TopLevelAlone
  <2>3. ASSUME x \in Loaded(db') PROVE Fresh(x)'
    BY <1>1, <1>2, <1>4, <2>1, <2>3 DEF Settled, Fresh, LoadedModes, modes
  <2> QED
    BY <1>2, <2>1, <2>2, <2>3 DEF Settled
<1> QED
  BY <1>4, <1>5 DEF LoadsInv

LEMMA ChannelMoveSettles ==
    ASSUME MirrorInv, LoadsInv, NEW c \in Channel, NEW p \in Node, ChannelMove(c, p)
    PROVE  LoadsInv'
<1>1. /\ UNCHANGED <<replies, channelUpdates, modes>>
      /\ db' = LoadChannel(server', db, c, p, military) /\ Strays
      /\ c \in Existing /\ p \in (Existing \ SubTree(server, c)) \cup {CHANNEL_ROOT}
      /\ server' = [server EXCEPT ![c].parent = p]
  BY DEF ChannelMove
<1>2. c \in SubTree(server, c)
  BY <1>1 DEF SubTree, Existing
<1>3. server \in [Existing -> ServerChannel] /\ server[c] \in ServerChannel
  BY <1>1 DEF MirrorInv, TypeOK
<1>4. /\ p # c /\ Existing' = Existing
      /\ server'[c].parent = p
      /\ server'[c].known = server[c].known /\ server'[c].desc = server[c].desc
      /\ \A x \in Existing' \ {c} : x \in Existing /\ server'[x] = server[x]
  BY <1>1, <1>2, <1>3, ChannelAssumption DEF Existing, ServerChannel
<1>5. \A x : Awaited(x) => Awaited(x)'
  BY <1>1 DEF Awaited
<1>6. Awaited(c)' \/ server'[c].known \in {server'[c].desc, EmptyText}
  BY <1>1, <1>4, <1>5 DEF LoadsInv, Settled
<1> QED
  BY <1>1, <1>4, <1>5, <1>6, LoadSettles

LEMMA UpdateEditedSettles ==
    ASSUME MirrorInv, LoadsInv, NEW c \in Channel, NEW n \in Names, NEW d \in Descriptions,
           UpdateChannelEdited(c, n, d)
    PROVE  LoadsInv'
<1>1. /\ UNCHANGED <<lastFreqMode, strayed, db>>
      /\ c \in Existing
      /\ server' = [server EXCEPT ![c].name = n, ![c].desc = d]
      /\ channelUpdates' = channelUpdates \cup {c}
      /\ replies' = Append(replies, c)
  BY DEF UpdateChannelEdited, modes
<1>2. ToSet(replies) \cup {c} \subseteq ToSet(replies')
  BY <1>1, AppendKeeps DEF MirrorInv, TypeOK
<1>3. \A x : x = c \/ Awaited(x) => Awaited(x)'
  BY <1>1, <1>2 DEF Awaited
<1>4. Existing' = Existing /\ \A x \in Existing \ {c} : server'[x] = server[x]
  BY <1>1 DEF Existing
<1> QED
  BY <1>1, <1>3, <1>4, NoLoadSettles

LEMMA UpdateChannelSettles == MirrorInv /\ LoadsInv /\ UpdateChannel => LoadsInv'
<1> SUFFICES ASSUME MirrorInv, LoadsInv, UpdateChannel PROVE LoadsInv'
  OBVIOUS
<1> DEFINE c == Head(replies)
<1>1. /\ c \in Existing /\ replies # <<>> /\ UNCHANGED modes
      /\ server' = [server EXCEPT ![c].known = server[c].desc]
      /\ replies' = Tail(replies)
  BY DEF UpdateChannel
<1>2. /\ replies \in Seq(Channel) /\ c \in Channel
      /\ server \in [Existing -> ServerChannel] /\ server[c] \in ServerChannel
      /\ server[c].parent # c
  BY <1>1 DEF MirrorInv, TypeOK, NoSelfParent
<1>3. /\ Existing' = Existing
      /\ server'[c].parent = server[c].parent /\ server'[c].name = server[c].name
      /\ server'[c].desc = server[c].desc /\ server'[c].known = server[c].desc
      /\ \A x \in Existing \ {c} : server'[x] = server[x]
  BY <1>1, <1>2 DEF Existing, ServerChannel
<1>4. ASSUME NEW x, x # c, Awaited(x), channelUpdates' \in {channelUpdates, channelUpdates \ {c}}
      PROVE  Awaited(x)'
  <2>1. x \in ToSet(replies')
    BY <1>1, <1>2, <1>4, TailKeeps DEF Awaited
  <2> QED
    BY <1>4, <2>1 DEF Awaited
<1>5. CASE c \in channelUpdates
  <2>1. /\ channelUpdates' = channelUpdates \ {c}
        /\ db' = LoadChannel(server', db, c, server[c].parent, military) /\ Strays
    BY <1>5 DEF UpdateChannel
  <2>2. server[c].parent \in Node
    BY <1>2 DEF ServerChannel
  <2>3. \A x \in Existing' \ {c} :
           x \in Existing /\ server'[x] = server[x] /\ (Awaited(x) => Awaited(x)')
    BY <1>3, <1>4, <2>1
  <2> HIDE DEF c
  <2> QED
    BY <1>1, <1>2, <1>3, <2>1, <2>2, <2>3, LoadSettles
<1>6. CASE c \notin channelUpdates
  <2>1. UNCHANGED <<channelUpdates, db, lastFreqMode, strayed>>
    BY <1>6 DEF UpdateChannel, modes
  <2>2. ~ Awaited(c)
    BY <1>6 DEF Awaited
  <2>3. \A x \in Existing' \ {c} : Awaited(x) => Awaited(x)'
    BY <1>4, <2>1
  <2> HIDE DEF c
  <2> QED
    BY <1>1, <1>3, <2>1, <2>2, <2>3, NoLoadSettles
<1> QED
  BY <1>5, <1>6

LEMMA OthersSettle ==
    ASSUME MirrorInv, LoadsInv,
           \/ \E c \in Channel : UserViewsChannel(c)
           \/ ServerError
           \/ SaveSettings
           \/ UNCHANGED vars
    PROVE  LoadsInv'
<1>1. /\ UNCHANGED <<server, channelUpdates, lastFreqMode, strayed, db>>
      /\ Existing' = Existing
  BY DEF UserViewsChannel, ServerError, SaveSettings, serverVars, modes, vars, Existing
<1>2. ASSUME NEW x \in Existing, x \in ToSet(replies) PROVE x \in ToSet(replies')
  <2>1. CASE \E c \in Channel : UserViewsChannel(c)
    BY <1>2, <2>1, AppendKeeps DEF UserViewsChannel, MirrorInv, TypeOK
  <2>2. CASE ServerError
    BY <1>2, <2>2, TailKeeps DEF ServerError, MirrorInv, TypeOK
  <2>3. CASE SaveSettings \/ UNCHANGED vars
    BY <1>2, <2>3 DEF SaveSettings, vars
  <2> QED
    BY <2>1, <2>2, <2>3
<1>3. \A x \in Existing : Awaited(x) => Awaited(x)'
  BY <1>1, <1>2 DEF Awaited
<1> QED
  BY <1>1, <1>3, NoLoadSettles

LEMMA LoadsInvariant == Spec => [](MirrorInv /\ LoadsInv)
<1>1. Init => LoadsInv
  <2> SUFFICES ASSUME Init PROVE LoadsInv
    OBVIOUS
  <2>1. db = EmptyDb /\ server = <<>>
    BY DEF Init
  <2>2. Existing = {}
    BY <2>1 DEF Existing
  <2> QED
    BY <2>1, <2>2, EmptyContents DEF LoadsInv
<1>2. MirrorInv /\ LoadsInv /\ [Next]_vars => LoadsInv'
  BY ConnectSettles, DisconnectSettles, NewChannelSettles, DelChannelSettles,
     ChannelMoveSettles, UpdateEditedSettles, UpdateChannelSettles, FrequencyModeSettles,
     OthersSettle DEF Next
<1> QED
  BY <1>1, <1>2, MirrorInvHolds, PTL DEF Spec

-----------------------------------------------------------------------------
\* Every depth in the closure table is the true one: the row one level up is there, over
\* the parent the server has for the channel at this moment.
THEOREM DepthsAreTrue == Spec => []ClosureIsTrue
<1>1. ASSUME MirrorInv, LoadsInv PROVE ClosureIsTrue
  <2>1. DbInv(db) /\ Shows(db, server)
    BY <1>1 DEF MirrorInv, LoadsInv
  <2>2. ASSUME NEW r \in db.closure, r[3] > 0
        PROVE  r[2] \in Existing /\ <<r[1], server[r[2]].parent, r[3] - 1>> \in db.closure
    <3>1. r[2] \in Loaded(db) /\ r[3] \in Nat /\ r[3] >= 1 /\ r[3] # 0
      BY <2>1, <2>2, RowShape
    <3>2. r[2] # CHANNEL_ROOT
      BY <2>1, <3>1 DEF DbInv, RootOnTop, SelfRows
    <3>3. r[2] \in Existing /\ db.channels[r[2]].parent = server[r[2]].parent
      BY <2>1, <3>1, <3>2 DEF Shows, Existing
    <3> DEFINE s == <<server[r[2]].parent, r[2], 1>>
    <3>4. s \in db.closure
      BY <2>1, <2>2, <3>3 DEF DbInv, LinkedUp
    <3>5. <<r[1], s[1], r[3] - s[3]>> \in db.closure
      BY <2>1, <3>1, <3>4 DEF DbInv, OnePath
    <3> QED
      BY <3>3, <3>5
  <2> QED
    BY <2>2 DEF ClosureIsTrue
<1> QED
  BY <1>1, LoadsInvariant, PTL

\* A channel right below Root nobody awaits an answer for is loaded, whatever branches
\* the loads of other channels took away.
THEOREM TopLevelStaysLoaded == Spec => []TopLevelLoaded
<1>1. MirrorInv /\ LoadsInv => TopLevelLoaded
  BY DEF LoadsInv, Awaited, Settled, TopLevelLoaded
<1> QED
  BY <1>1, LoadsInvariant, PTL

\* Stored frequencies are those of the present name, with the present description or
\* none, in the frequency mode last changed to (or in one of the modes, once a channel was
\* loaded while another was saved), when nothing is awaited for the channel.
THEOREM FrequenciesStayFresh == Spec => []FrequenciesFresh
<1>1. ASSUME MirrorInv, LoadsInv PROVE FrequenciesFresh
  <2>1. ASSUME NEW c \in Loaded(db) \ ToSet(replies), c # CHANNEL_ROOT PROVE Fresh(c)
    <3>1. c \in Existing
      BY <1>1, <2>1 DEF MirrorInv, Shows, Existing
    <3> QED
      BY <1>1, <2>1, <3>1 DEF LoadsInv, Awaited, Settled
  <2> QED
    BY <2>1 DEF FrequenciesFresh, Fresh, RowsIn, RowsOf
<1> QED
  BY <1>1, LoadsInvariant, PTL
===============================================================================
