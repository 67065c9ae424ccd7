---------------------------- MODULE ChannelMirror ----------------------------
(***************************************************************************)
(* How the plugin keeps its channel database in step with the channel tree  *)
(* of the TeamSpeak server: the channel event handlers, loadChannels and    *)
(* the connect, disconnect and frequency-mode handlers of BFSGSimCom.cpp.   *)
(*                                                                         *)
(* The server's tree is modelled as the TeamSpeak client library shows it   *)
(* to the plugin.  The library applies the server's notifications one at a  *)
(* time and calls the plugin's handler for each, so one action is one       *)
(* notification with its whole handler.  Descriptions are not part of what  *)
(* the library knows: they are requested, and answered in request order.    *)
(***************************************************************************)
EXTENDS ChannelDb, StationFacts, SequencesExt

CONSTANTS Names,        \* the texts a channel may be named
          Descriptions, \* the texts a channel may be described with
          FrequencyModes, \* the modes the user may set: TRUE is military
          MaxReplies    \* bound: description requests outstanding at a time

ASSUME MirrorAssumption ==
    /\ IsFiniteSet(Channel)
    /\ MaxReplies \in Nat
    /\ FrequencyModes \subseteq BOOLEAN
    /\ EmptyText \in Descriptions

VARIABLES
    connected,      \* blConnectedToTeamspeak
    server,         \* existing channel -> [parent, name, desc, known]: the
                    \*   server's channel, and the description the library holds
    replies,        \* description requests the server has not answered yet
    channelUpdates, \* channels whose description the plugin is waiting for
    initialising,   \* TRUE until the first load has completed
    military,       \* cfg->getFrequencyMode(), in which channels are loaded, is military
    lastFreqMode,   \* the mode the last change was compared with is
    strayed,        \* history: a channel has been loaded in another mode than
                    \*   lastFreqMode since the tables were last emptied
    db              \* the tables of the TS3Channels object

modes == <<military, lastFreqMode>>

vars == <<connected, server, replies, channelUpdates, initialising, military, lastFreqMode,
          strayed, db>>

serverVars == <<connected, server>>

Existing == DOMAIN server

\* The Root row has no station data.
RootRow == [parent |-> CHANNEL_ROOT, range |-> NoRange, place |-> NoPlace]

EmptyDb == InitDatabase(RootRow)

-----------------------------------------------------------------------------
(***************************************************************************)
(* The server's channels form a tree below CHANNEL_ROOT.                    *)
(***************************************************************************)
ServerChannel == [parent : Node, name : Names, desc : Descriptions,
                  known : Descriptions]

\* c and every channel below c: the least set closed under "is a child of".
SubTree(s, c) ==
    {x \in DOMAIN s :
        \A S \in SUBSET DOMAIN s :
            (c \in S /\ \A y \in DOMAIN s : s[y].parent \in S => y \in S) => x \in S}

IsTree(s) ==
    /\ \A c \in DOMAIN s : s[c].parent \in (DOMAIN s \ {c}) \cup {CHANNEL_ROOT}
    /\ \A S \in (SUBSET DOMAIN s) \ {{}} : \E c \in S : s[c].parent \notin S

(***************************************************************************)
(* The trees of a server the plugin connects to.  A server always has its   *)
(* default channel.  The library holds no description at that point.        *)
(***************************************************************************)
ServerTrees ==
    {s \in UNION {[S -> [parent : Node, name : Names, desc : Descriptions,
                         known : {EmptyText}]] : S \in (SUBSET Channel) \ {{}}} :
        IsTree(s)}

(***************************************************************************)
(* recurseChannelList asks for every description in preorder, siblings in   *)
(* the order of the library's list.                                         *)
(***************************************************************************)
IsPreorder(s, order) ==
    /\ ToSet(order) = DOMAIN s
    /\ Len(order) = Cardinality(DOMAIN s)
    /\ \A i \in DOMAIN order :
          LET c == order[i] IN
          /\ \A k \in DOMAIN order :
                order[k] \in SubTree(s, c)
                  <=> k \in i .. (i + Cardinality(SubTree(s, c)) - 1)

Preorders(s) ==
    {order \in [1 .. Cardinality(DOMAIN s) -> DOMAIN s] : IsPreorder(s, order)}

-----------------------------------------------------------------------------
Init ==
    /\ connected = FALSE
    /\ server = <<>>
    /\ replies = <<>>
    /\ channelUpdates = {}
    /\ initialising = TRUE
    /\ military \in FrequencyModes /\ lastFreqMode = military
    /\ strayed = FALSE
    /\ db = EmptyDb

\* Slip: the descriptions are requested but not awaited.
LoadChannelsUnnoted(s) ==
    /\ \E order \in Preorders(s) : replies' = replies \o order
    /\ UNCHANGED channelUpdates

(***************************************************************************)
(* loadChannels over the channels of s: each is noted in channelUpdates and *)
(* its description requested; nothing is loaded until the answers come.     *)
(***************************************************************************)
LoadChannels(s) ==
    /\ \E order \in Preorders(s) : replies' = replies \o order
    /\ channelUpdates' = channelUpdates \cup DOMAIN s

\* Slip: the channel is passed where its parent should be.
LoadChannelBelowItself(s, tables, c, parent, mode) ==
    AddOrUpdateChannel(tables, c, c, FactsOf(<<s[c].name, s[c].known>>, mode))

(***************************************************************************)
(* loadChannel: everything the library knows of c goes into the database.   *)
(***************************************************************************)
LoadChannel(s, tables, c, parent, mode) ==
    AddOrUpdateChannel(tables, c, parent, FactsOf(<<s[c].name, s[c].known>>, mode))

Strays == strayed' = (strayed \/ military # lastFreqMode)

(***************************************************************************)
(* STATUS_CONNECTION_ESTABLISHED.  Starting the plugin while the client is  *)
(* connected runs the same load.                                            *)
(***************************************************************************)
Connect ==
    /\ ~ connected
    /\ connected' = TRUE
    /\ server' \in ServerTrees
    /\ LoadChannels(server')
    /\ UNCHANGED <<initialising, modes, strayed, db>>

\* Slips: the connection flag is not cleared; the tables are not emptied.
DisconnectUnflagged ==
    /\ connected
    /\ server' = <<>>
    /\ replies' = <<>>
    /\ db' = EmptyDb /\ strayed' = FALSE
    /\ UNCHANGED <<connected, channelUpdates, initialising, modes>>

DisconnectKeepingTables ==
    /\ connected
    /\ connected' = FALSE
    /\ server' = <<>>
    /\ replies' = <<>>
    /\ UNCHANGED <<channelUpdates, initialising, modes, strayed, db>>

(***************************************************************************)
(* STATUS_DISCONNECTED.  Requests under way are never answered, and         *)
(* channelUpdates still names them.                                         *)
(***************************************************************************)
Disconnect ==
    /\ connected
    /\ connected' = FALSE
    /\ server' = <<>>
    /\ replies' = <<>>
    /\ db' = EmptyDb /\ strayed' = FALSE
    /\ UNCHANGED <<channelUpdates, initialising, modes>>

(***************************************************************************)
(* onNewChannelCreatedEvent.  The library does not know the description.    *)
(***************************************************************************)
NewChannelCreated(c, parent, name, desc) ==
    /\ connected
    /\ c \notin Existing
    /\ parent \in Existing \cup {CHANNEL_ROOT}
    /\ server' = [x \in Existing \cup {c} |->
                    IF x = c THEN [parent |-> parent, name |-> name, desc |-> desc,
                                   known |-> EmptyText]
                    ELSE server[x]]
    /\ db' = LoadChannel(server', db, c, parent, military) /\ Strays
    /\ UNCHANGED <<connected, replies, channelUpdates, initialising, modes>>

(***************************************************************************)
(* onDelChannelEvent.  The server deletes a tree leaf by leaf, and never    *)
(* its last channel.                                                        *)
(***************************************************************************)
DelChannel(c) ==
    /\ connected
    /\ c \in Existing
    /\ Existing # {c}
    /\ \A x \in Existing : server[x].parent # c
    /\ server' = [x \in Existing \ {c} |-> server[x]]
    /\ db' = DeleteChannel(db, c)
    /\ UNCHANGED <<connected, replies, channelUpdates, initialising, modes, strayed>>

\* onChannelMoveEvent
ChannelMove(c, newParent) ==
    /\ connected
    /\ c \in Existing
    /\ newParent \in (Existing \ SubTree(server, c)) \cup {CHANNEL_ROOT}
    /\ newParent # server[c].parent
    /\ server' = [server EXCEPT ![c].parent = newParent]
    /\ db' = LoadChannel(server', db, c, newParent, military) /\ Strays
    /\ UNCHANGED <<connected, replies, channelUpdates, initialising, modes>>

\* Slip: the description is requested but not awaited.
UpdateChannelEditedUnnoted(c, name, desc) ==
    /\ connected
    /\ c \in Existing
    /\ Len(replies) < MaxReplies
    /\ server' = [server EXCEPT ![c].name = name, ![c].desc = desc]
    /\ replies' = Append(replies, c)
    /\ UNCHANGED <<connected, channelUpdates, initialising, modes, strayed, db>>

(***************************************************************************)
(* onUpdateChannelEditedEvent: the library shows the new name at once, the  *)
(* plugin asks for the description and loads the channel when it comes.     *)
(***************************************************************************)
UpdateChannelEdited(c, name, desc) ==
    /\ connected
    /\ c \in Existing
    /\ Len(replies) < MaxReplies
    /\ server' = [server EXCEPT ![c].name = name, ![c].desc = desc]
    /\ channelUpdates' = channelUpdates \cup {c}
    /\ replies' = Append(replies, c)
    /\ UNCHANGED <<connected, initialising, modes, strayed, db>>

(***************************************************************************)
(* The user selects a channel: the client itself asks for its description.  *)
(***************************************************************************)
UserViewsChannel(c) ==
    /\ connected
    /\ c \in Existing
    /\ Len(replies) < MaxReplies
    /\ replies' = Append(replies, c)
    /\ UNCHANGED <<serverVars, channelUpdates, initialising, modes, strayed, db>>

\* Slip: a channel that is loaded already is not loaded again.
UpdateChannelOnce ==
    /\ connected
    /\ replies # <<>>
    /\ Head(replies) \in Existing
    /\ LET c == Head(replies) IN
         /\ server' = [server EXCEPT ![c].known = server[c].desc]
         /\ channelUpdates' = channelUpdates \ {c}
         /\ IF c \in channelUpdates /\ c \notin Loaded(db)
            THEN db' = LoadChannel(server', db, c, server[c].parent, military) /\ Strays
            ELSE UNCHANGED <<db, strayed>>
         /\ initialising' = (initialising /\ channelUpdates' # {})
    /\ replies' = Tail(replies)
    /\ UNCHANGED <<connected, modes>>

(***************************************************************************)
(* onUpdateChannelEvent: an answer arrives.  The library takes the          *)
(* description in any case, the plugin only when it is waiting for it.      *)
(***************************************************************************)
UpdateChannel ==
    /\ connected
    /\ replies # <<>>
    /\ Head(replies) \in Existing
    /\ LET c == Head(replies) IN
         /\ server' = [server EXCEPT ![c].known = server[c].desc]
         /\ IF c \in channelUpdates
            THEN /\ channelUpdates' = channelUpdates \ {c}
                 /\ db' = LoadChannel(server', db, c, server[c].parent, military) /\ Strays
                 /\ initialising' = (initialising /\ channelUpdates' # {})
            ELSE UNCHANGED <<channelUpdates, db, strayed, initialising>>
    /\ replies' = Tail(replies)
    /\ UNCHANGED <<connected, modes>>

(***************************************************************************)
(* A request for a channel that is gone is answered with an error, which    *)
(* onServerErrorEvent lets pass.                                            *)
(***************************************************************************)
ServerError ==
    /\ connected
    /\ replies # <<>>
    /\ Head(replies) \notin Existing
    /\ replies' = Tail(replies)
    /\ UNCHANGED <<serverVars, channelUpdates, initialising, modes, strayed, db>>

(***************************************************************************)
(* saveSettings, by a hotkey while the dialog is open and its frequency     *)
(* buttons have been clicked: the next channel is loaded in the new mode,   *)
(* and none is loaded again.                                                *)
(***************************************************************************)
SaveSettings ==
    /\ military' \in FrequencyModes \ {military}
    /\ UNCHANGED <<serverVars, replies, channelUpdates, initialising, lastFreqMode, strayed, db>>

\* Slip: the mode is compared with the saved one, which a hotkey has changed already.
FrequencyModeChangeSaved(m) ==
    /\ military' = m /\ lastFreqMode' = m
    /\ IF m = military THEN UNCHANGED <<replies, channelUpdates, strayed, db>>
       ELSE /\ db' = EmptyDb /\ strayed' = FALSE
            /\ IF connected
               THEN /\ Len(replies) + Cardinality(Existing) <= MaxReplies
                    /\ LoadChannels(server)
               ELSE UNCHANGED <<replies, channelUpdates>>
    /\ UNCHANGED <<serverVars, initialising>>

(***************************************************************************)
(* The dialog closes with mode m saved, and handleFrequencyModeChange runs: *)
(* if the mode is not the one of the last time, forget everything and load  *)
(* it again.  Without a connection the library has no channel list.         *)
(***************************************************************************)
FrequencyModeChange(m) ==
    /\ military' = m /\ lastFreqMode' = m
    /\ IF m = lastFreqMode THEN UNCHANGED <<replies, channelUpdates, strayed, db>>
       ELSE /\ db' = EmptyDb /\ strayed' = FALSE
            /\ IF connected
               THEN /\ Len(replies) + Cardinality(Existing) <= MaxReplies
                    /\ LoadChannels(server)
               ELSE UNCHANGED <<replies, channelUpdates>>
    /\ UNCHANGED <<serverVars, initialising>>

Next ==
    \/ Connect
    \/ Disconnect
    \/ \E c \in Channel, p \in Node, n \in Names, d \in Descriptions :
          NewChannelCreated(c, p, n, d)
    \/ \E c \in Channel : DelChannel(c)
    \/ \E c \in Channel, p \in Node : ChannelMove(c, p)
    \/ \E c \in Channel, n \in Names, d \in Descriptions : UpdateChannelEdited(c, n, d)
    \/ \E c \in Channel : UserViewsChannel(c)
    \/ UpdateChannel
    \/ ServerError
    \/ SaveSettings
    \/ \E m \in FrequencyModes : FrequencyModeChange(m)

Spec == Init /\ [][Next]_vars

\* The server answers every request of a connection that lasts.
FairSpec == Spec /\ WF_vars(UpdateChannel \/ ServerError)

-----------------------------------------------------------------------------
(***************************************************************************)
(* One type invariant for the state the handlers share.                     *)
(***************************************************************************)
TypeOK ==
    /\ connected \in BOOLEAN
    /\ Existing \subseteq Channel
    /\ server \in [Existing -> ServerChannel]
    /\ replies \in Seq(Channel)
    /\ channelUpdates \subseteq Channel
    /\ initialising \in BOOLEAN
    /\ {military, lastFreqMode} \subseteq FrequencyModes /\ strayed \in BOOLEAN
    /\ ~ connected => server = <<>>
    /\ connected => Existing # {}

(***************************************************************************)
(* The handlers use the TS3Channels object as it is meant to be used: every *)
(* step changes the tables by one call of the class, or not at all, and no  *)
(* channel is ever loaded below itself.                                     *)
(***************************************************************************)
Tables == INSTANCE TS3Channels
            WITH Facts <- {FactsOf(<<n, d>>, m) :
                              n \in Names, d \in Descriptions, m \in BOOLEAN},
                 NoPosition <- NoPlace, NoLink <- CHANNEL_ID_NOT_FOUND, Distances <- {}

CallsTables == Tables!Spec

(***************************************************************************)
(* The database never holds a channel the server does not have, nor one     *)
(* under any parent but its present one; disconnected it holds nothing.     *)
(***************************************************************************)
NoGhostChannels ==
    /\ Loaded(db) \subseteq Existing \cup {CHANNEL_ROOT}
    /\ \A c \in Loaded(db) \ {CHANNEL_ROOT} :
          db.channels[c].parent = server[c].parent

(***************************************************************************)
(* A depth the lookup ranks by is the true one: a closure row <<a, c, n>>   *)
(* means a is n levels above c on the server at this moment.                *)
(***************************************************************************)
ClosureIsTrue ==
    \A r \in {x \in db.closure : x[3] > 0} :
        /\ r[2] \in Existing
        /\ <<r[1], server[r[2]].parent, r[3] - 1>> \in db.closure

(***************************************************************************)
(* Reloading one channel can cost others their row (deleteChannel takes the *)
(* branch along), but never one directly under the server: when nothing is  *)
(* awaited for it, a top-level channel is in the database.                  *)
(***************************************************************************)
TopLevelLoaded ==
    \A c \in Existing :
        (server[c].parent = CHANNEL_ROOT /\ c \notin ToSet(replies)) => c \in Loaded(db)

(***************************************************************************)
(* The frequencies stored for a channel nobody awaits an answer for are     *)
(* those of its present name, with or without the present description, in   *)
(* one frequency mode: never those of an older name or description, nor a   *)
(* mixture of the modes, though two edits and the user's own request may    *)
(* share an answer.  The mode is the one last changed to, but where a       *)
(* channel was loaded while a hotkey had saved another from the open        *)
(* dialog: clicked back, the mode has not changed and nothing is loaded     *)
(* again (BFSGSimCom.cpp:1084).                                             *)
(***************************************************************************)
RowsOf(c) == {<<r[2], r[3]>> : r \in {x \in db.channelFrequency : x[1] = c}}

LoadedModes == IF strayed THEN FrequencyModes ELSE {lastFreqMode}

FrequenciesFresh ==
    \A c \in Loaded(db) \ ToSet(replies) :
        c # CHANNEL_ROOT =>
            \E d \in {server[c].desc, EmptyText}, m \in LoadedModes :
                RowsOf(c) = FactsOf(<<server[c].name, d>>, m).rows

(***************************************************************************)
(* An edit is not lost: when an answer is awaited for a channel, the        *)
(* channel is in the end loaded with the frequencies its name and           *)
(* description then have in the mode then saved, unless the connection or   *)
(* the channel goes first.                                                  *)
(***************************************************************************)
RowsMeant == [t \in Names \X Descriptions, m \in FrequencyModes |-> FactsOf(t, m).rows]

UpToDate(c) ==
    /\ c \in Loaded(db)
    /\ RowsOf(c) = RowsMeant[<<server[c].name, server[c].desc>>, military]

AwaitedIsLoaded ==
    \A c \in Channel :
        (c \in ToSet(replies) /\ c \in channelUpdates) ~> (c \notin Existing \/ UpToDate(c))

-----------------------------------------------------------------------------
(***************************************************************************)
(* What the repository says and the code does not do.                       *)
(*                                                                         *)
(* README:175-177: the plugin keeps track of changes to channel definitions *)
(* and it is not necessary to reconnect to pick them up.  With nothing      *)
(* awaited, every channel of the server would be in the database.           *)
(***************************************************************************)
KeepsTrack == (connected /\ replies = <<>>) => Existing \subseteq Loaded(db)

(***************************************************************************)
(* BFSGSimCom.cpp:1158-1160: when all channel updates have been received    *)
(* the initial load is complete.                                            *)
(***************************************************************************)
InitialLoadCompletes == (connected /\ replies = <<>>) => ~ initialising
=============================================================================
