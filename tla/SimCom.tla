------------------------------- MODULE SimCom -------------------------------
(***************************************************************************)
(* The tuning control of BFSGSimCom.cpp: how the plugin moves the client    *)
(* between channels as the simulator's radio is tuned.                      *)
(*                                                                         *)
(* callback() runs on the simulator's worker thread, and on TeamSpeak's     *)
(* thread when a handler calls it; onClientMoveEvent and the mode and       *)
(* connection handlers run on TeamSpeak's thread.  The threads share        *)
(* currentChannel, targetChannel, simComData and the mode without a lock,   *)
(* so callback and onClientMoveEvent are cut where they read or write them: *)
(*   enter  - take the data, look at the connection and the mode            *)
(*   locate - ask where the client is, make it current and target           *)
(*   decide - look the frequency up, decide, request the move               *)
(*   settle - remember the target                                           *)
(*   bounce - onClientMoveEvent asks for the way back                       *)
(*   accept - or compares the channel moved to with the target              *)
(*   record - and notes the target, read once more, as the client's channel *)
(* What a step reads it reads at one moment: the three comparisons of 1241  *)
(* are one, and so are the reads of a lookup.  The worker is the one        *)
(* SimFeed describes.                                                       *)
(*                                                                         *)
(* The channel tree does not change here; on a connection it is loaded one  *)
(* channel at a time, in the order of Tree.                                 *)
(***************************************************************************)
EXTENDS ChannelDb, SimFeed, SequencesExt

CONSTANTS Tree,            \* the server's channels, parents first: a sequence of
                           \*   [ch, parent, facts]
          RootRow,         \* the data columns of the Root row
          NoPosition,      \* the place of a channel without one
          RootChannel,     \* cfg->getRootChannel()
          Untuned,         \* cfg->getUntuned(): move when nothing is tuned
          UntunedChannel,  \* cfg->getUntunedChannel()
          Modes,           \* the modes the user selects
          Prompt,          \* TRUE: no request is answered before the callback that
                           \*   made it has ended
          MaxEvents,       \* bound: things the pilot, the user or the network do
          MaxDenials       \* bound: move requests the server turns down

ASSUME SimComAssumption ==
    /\ DOMAIN Tree = 1 .. Len(Tree) /\ Len(Tree) \in Nat
    /\ Channel = {Tree[i].ch : i \in DOMAIN Tree}
    /\ \A i \in DOMAIN Tree : Tree[i].parent \in Node \ {Tree[i].ch}
    /\ Modes \subseteq {"AUTO", "MANUAL", "DISABLED"}
    /\ RootChannel \in Node /\ UntunedChannel \in Node
    /\ Untuned \in BOOLEAN /\ Prompt \in BOOLEAN
    /\ MaxEvents \in Nat /\ MaxDenials \in Nat

VARIABLES
    mode,        \* cfg->getMode()
    connected,   \* blConnectedToTeamspeak
    db,          \* the tables of the channel database
    loaded,      \* how many channels of Tree have been loaded into it
    simComData,  \* the data of the last callback
    clientAt,    \* the channel the client library has the client in
    requests,    \* requestClientMove calls the server has not acted on
    moves,       \* moves the library shows, their event not handled yet
    lastMove,    \* who moved the client last: "none", "plugin" or "user"
    current,     \* currentChannel.ch
    target,      \* targetChannel.ch
    pc,          \* thread -> where it is in the handlers above
    arg,         \* thread -> the callback's data
    local,       \* thread -> the callback's operationMode and newTargetChannel.ch
    events,      \* things done so far, bounded by MaxEvents
    denials      \* requests turned down so far, bounded by MaxDenials

world   == <<clientAt, requests, moves, lastMove>>
tables  == <<db, loaded>>
tuning  == <<current, target>>
bounds  == <<events, denials>>
vars    == <<mode, connected, db, loaded, simOn, fresh, owed, data, simComData,
             clientAt, requests, moves, lastMove, current, target, pc, arg, local,
             events, denials>>

Thread == {"worker", "ts3"}

Nowhere == {CHANNEL_ROOT, CHANNEL_NOT_CHILD_OF_ROOT, CHANNEL_ID_NOT_FOUND}

NoLocal == [mode |-> "DISABLED", new |-> CHANNEL_ID_NOT_FOUND]

-----------------------------------------------------------------------------
\* What a lookup in the tables t may answer.
Lookup(t, frequency, from, root) ==
    GetChannelID(t, frequency, FALSE, from, root, FALSE, FALSE, <<>>)

\* Where callback looks from: automatic mode works below the root channel only.
AdjustedRoot == IF RootChannel = CHANNEL_ID_NOT_FOUND THEN current ELSE RootChannel

AdjustedCurrent(operationMode) ==
    IF operationMode = "AUTO" /\ ~ ChannelIsUnderRoot(db, current, AdjustedRoot)
    THEN RootChannel ELSE current

-----------------------------------------------------------------------------
Init ==
    /\ mode \in Modes
    /\ connected = FALSE
    /\ db = InitDatabase(RootRow) /\ loaded = 0
    /\ FeedInit
    /\ simComData = NoData
    /\ clientAt = CHANNEL_ID_NOT_FOUND
    /\ requests = <<>> /\ moves = <<>> /\ lastMove = "none"
    /\ current = CHANNEL_ID_NOT_FOUND /\ target = CHANNEL_ID_NOT_FOUND
    /\ pc = [t \in Thread |-> "idle"]
    /\ arg = [t \in Thread |-> NoData]
    /\ local = [t \in Thread |-> NoLocal]
    /\ events = 0 /\ denials = 0

Goto(t, label) == pc' = [pc EXCEPT ![t] = label]

\* callback(d) begins on thread t.
Call(t, d) == /\ pc' = [pc EXCEPT ![t] = "enter"]
              /\ arg' = [arg EXCEPT ![t] = d]

Return(t) == /\ Goto(t, "idle")
             /\ arg' = [arg EXCEPT ![t] = NoData]
             /\ local' = [local EXCEPT ![t] = NoLocal]

\* ts3Functions.requestClientMove: only a connected client has somewhere to ask.
RequestClientMove(ch) ==
    requests' = IF connected THEN Append(requests, ch) ELSE requests

\* deleteAllChannels
EmptyTables == db' = InitDatabase(RootRow) /\ loaded' = 0

Happens == /\ events < MaxEvents
           /\ events' = events + 1

-----------------------------------------------------------------------------
\* Slip: disabled mode is taken for any other.
EnterAnyMode(t) ==
    /\ pc[t] = "enter"
    /\ simComData' = arg[t]
    /\ IF ~ connected
       THEN target' = CHANNEL_ID_NOT_FOUND /\ Return(t)
       ELSE /\ Goto(t, "locate")
            /\ local' = [local EXCEPT ![t].mode = mode]
            /\ UNCHANGED <<target, arg>>
    /\ UNCHANGED <<mode, connected, tables, feed, world, current, bounds>>

(***************************************************************************)
(* callback, first part: without a connection there is no target, in        *)
(* disabled mode the target follows the client.                             *)
(***************************************************************************)
Enter(t) ==
    /\ pc[t] = "enter"
    /\ simComData' = arg[t]
    /\ IF ~ connected
       THEN target' = CHANNEL_ID_NOT_FOUND /\ Return(t)
       ELSE IF mode = "DISABLED"
       THEN target' = current /\ Return(t)
       ELSE /\ Goto(t, "locate")
            /\ local' = [local EXCEPT ![t].mode = mode]
            /\ UNCHANGED <<target, arg>>
    /\ UNCHANGED <<mode, connected, tables, feed, world, current, bounds>>

\* Slip: what is recorded is taken to be where the client is.
LocateByRecord(t) ==
    /\ pc[t] = "locate"
    /\ target' = current
    /\ IF arg[t].cause # "none"
       THEN Goto(t, "decide") /\ UNCHANGED <<arg, local>>
       ELSE Return(t)
    /\ UNCHANGED <<mode, connected, tables, feed, simComData, world, current, bounds>>

(***************************************************************************)
(* callback asks the library where the client is.  Without a connection the *)
(* library leaves currentChannel as it is.                                  *)
(***************************************************************************)
Locate(t) ==
    /\ pc[t] = "locate"
    /\ current' = IF connected THEN clientAt ELSE current
    /\ target' = current'
    /\ IF arg[t].cause # "none"
       THEN Goto(t, "decide") /\ UNCHANGED <<arg, local>>
       ELSE Return(t)
    /\ UNCHANGED <<mode, connected, tables, feed, simComData, world, bounds>>

\* Slip: automatic mode acts on a changed radio or position only.
MayMoveOnChange(t, new) ==
    /\ local[t].mode \in {"AUTO", "MANUAL"}
    /\ arg[t].cause \in {"com", "pos"}
    /\ new \notin {target, CHANNEL_NOT_CHILD_OF_ROOT}

(***************************************************************************)
(* callback looks the frequency up and decides.  The last alternative is    *)
(* the assignment in "if (targetChannel.ch = newTargetChannel.ch)".         *)
(***************************************************************************)
MayMove(t, new) ==
    /\ \/ local[t].mode = "AUTO"
       \/ /\ local[t].mode = "MANUAL"
          /\ arg[t].cause = "com" \/ (arg[t].cause = "pos" /\ current = target)
          /\ new # CHANNEL_NOT_CHILD_OF_ROOT
    /\ new # target

Destination(t, new) ==
    IF new \notin {CHANNEL_ID_NOT_FOUND, CHANNEL_NOT_CHILD_OF_ROOT} THEN new
    ELSE IF Untuned THEN UntunedChannel ELSE AdjustedCurrent(local[t].mode)

Decide(t) ==
    /\ pc[t] = "decide"
    /\ \E new \in Lookup(db, arg[t].freq, AdjustedCurrent(local[t].mode), AdjustedRoot) :
         IF MayMove(t, new)
         THEN LET dest == Destination(t, new) IN
              /\ IF dest # current /\ dest \notin {CHANNEL_ID_NOT_FOUND, CHANNEL_ROOT}
                 THEN RequestClientMove(dest) ELSE UNCHANGED requests
              /\ local' = [local EXCEPT ![t].new = dest]
              /\ Goto(t, "settle")
              /\ UNCHANGED <<target, arg>>
         ELSE /\ target' = new
              /\ Return(t)
              /\ UNCHANGED requests
    /\ UNCHANGED <<mode, connected, tables, feed, simComData, clientAt, moves, lastMove,
                   current, bounds>>

Settle(t) ==
    /\ pc[t] = "settle"
    /\ target' = local[t].new
    /\ Return(t)
    /\ UNCHANGED <<mode, connected, tables, feed, simComData, world, current, bounds>>

CallbackStep(t) == Enter(t) \/ Locate(t) \/ Decide(t) \/ Settle(t)

-----------------------------------------------------------------------------
(***************************************************************************)
(* The worker's loop, as SimFeed has it.  It reports a radio that was       *)
(* touched (retuned, or its standby frequency changed), a changed position  *)
(* or a landing, and reports every ten seconds even when nothing changed.   *)
(* Ten seconds are taken to be longer than a move takes.                    *)
(***************************************************************************)
unfed == <<mode, connected, tables, simComData, world, tuning, local, denials>>

SimFound ==
    /\ pc["worker"] = "idle"
    /\ Opened
    /\ UNCHANGED <<unfed, pc, arg, events>>

FirstReport(d) ==
    /\ pc["worker"] = "idle" /\ fresh
    /\ Report(d)
    /\ Call("worker", d)
    /\ UNCHANGED <<unfed, events>>

WorkerReports(d) ==
    /\ pc["worker"] = "idle" /\ ~ fresh
    /\ Happens
    /\ Report(d)
    /\ Call("worker", d)
    /\ UNCHANGED unfed

Heartbeat ==
    /\ pc = [t \in Thread |-> "idle"] /\ ~ fresh
    /\ requests = <<>> /\ moves = <<>>
    /\ LET d == Data(data.freq, "other") IN Report(d) /\ Call("worker", d)
    /\ UNCHANGED <<unfed, events>>

SimLost(d) ==
    /\ pc["worker"] = "idle"
    /\ IF simOn THEN Happens ELSE UNCHANGED events
    /\ Lost(d)
    /\ Call("worker", d)
    /\ UNCHANGED unfed

SimDropped ==
    /\ pc["worker"] = "idle"
    /\ Happens
    /\ Dropped
    /\ UNCHANGED <<unfed, pc, arg>>

-----------------------------------------------------------------------------
(***************************************************************************)
(* onClientMoveEvent for the plugin's own client.                           *)
(***************************************************************************)
\* Automatic mode holds the client where the target is.
Held == simOn /\ mode = "AUTO" /\ target \notin Nowhere

ClientMove ==
    /\ pc["ts3"] = "idle"
    /\ moves # <<>>
    /\ Goto("ts3", IF Held THEN "bounce" ELSE "accept")
    /\ UNCHANGED <<mode, connected, tables, feed, simComData, world, tuning, arg, local,
                   bounds>>

Bounce ==
    /\ pc["ts3"] = "bounce"
    /\ IF Head(moves) # target THEN RequestClientMove(target) ELSE UNCHANGED requests
    /\ moves' = Tail(moves)
    /\ Goto("ts3", "record")
    /\ UNCHANGED <<mode, connected, tables, feed, simComData, clientAt, lastMove, tuning,
                   arg, local, bounds>>

\* A client that is where the target was a moment ago is recorded with the target.
Accept ==
    /\ pc["ts3"] = "accept"
    /\ IF Head(moves) = target
       THEN Goto("ts3", "record") /\ UNCHANGED current
       ELSE Goto("ts3", "idle") /\ current' = Head(moves)
    /\ moves' = Tail(moves)
    /\ UNCHANGED <<mode, connected, tables, feed, simComData, clientAt, requests, lastMove,
                   target, arg, local, bounds>>

Record ==
    /\ pc["ts3"] = "record"
    /\ current' = target
    /\ Goto("ts3", "idle")
    /\ UNCHANGED <<mode, connected, tables, feed, simComData, world, target, arg, local,
                   bounds>>

(***************************************************************************)
(* handleModeChange, from the menu, a hotkey or the configuration dialog:   *)
(* the callback runs on the data, and the flags, of the last report.        *)
(***************************************************************************)
HandleModeChange(m) ==
    /\ pc["ts3"] = "idle"
    /\ Happens
    /\ mode' = m
    /\ target' = current
    /\ Call("ts3", simComData)
    /\ UNCHANGED <<connected, tables, feed, simComData, world, current, local, denials>>

(***************************************************************************)
(* handleFrequencyModeChange to the other mode: the database is emptied and *)
(* loaded again, as after a connection (the stations of Tree are heard in   *)
(* both frequency modes).                                                   *)
(***************************************************************************)
HandleFrequencyModeChange ==
    /\ pc["ts3"] = "idle"
    /\ Happens
    /\ EmptyTables
    /\ current' = IF connected THEN clientAt ELSE current
    /\ target' = current'
    /\ IF simOn THEN Call("ts3", simComData) ELSE UNCHANGED <<pc, arg>>
    /\ UNCHANGED <<mode, connected, feed, simComData, world, local, denials>>

\* Slip: the connection flag is not cleared.
DisconnectUnflagged ==
    /\ pc["ts3"] = "idle" /\ connected
    /\ Happens
    /\ EmptyTables
    /\ clientAt' = CHANNEL_ID_NOT_FOUND
    /\ requests' = <<>> /\ moves' = <<>> /\ lastMove' = "none"
    /\ current' = CHANNEL_ROOT /\ target' = CHANNEL_ROOT
    /\ UNCHANGED <<mode, connected, feed, simComData, pc, arg, local, denials>>

(***************************************************************************)
(* STATUS_CONNECTION_ESTABLISHED and STATUS_DISCONNECTED.                   *)
(***************************************************************************)
Connect(ch) ==
    /\ pc["ts3"] = "idle" /\ ~ connected
    /\ connected' = TRUE
    /\ clientAt' = ch
    /\ current' = ch /\ target' = ch
    /\ IF simOn THEN Call("ts3", simComData) ELSE UNCHANGED <<pc, arg>>
    /\ lastMove' = "none"
    /\ UNCHANGED <<mode, tables, feed, simComData, requests, moves, local, bounds>>

Disconnect ==
    /\ pc["ts3"] = "idle" /\ connected
    /\ Happens
    /\ connected' = FALSE
    /\ EmptyTables
    /\ clientAt' = CHANNEL_ID_NOT_FOUND
    /\ requests' = <<>> /\ moves' = <<>> /\ lastMove' = "none"
    /\ current' = CHANNEL_ROOT /\ target' = CHANNEL_ROOT
    /\ UNCHANGED <<mode, feed, simComData, pc, arg, local, denials>>

\* The next description comes (see ChannelMirror).
ChannelLoaded ==
    /\ pc["ts3"] = "idle" /\ connected
    /\ loaded < Len(Tree)
    /\ loaded' = loaded + 1
    /\ db' = AddOrUpdateChannel(db, Tree[loaded'].ch, Tree[loaded'].parent, Tree[loaded'].facts)
    /\ UNCHANGED <<mode, connected, feed, simComData, world, tuning, pc, arg, local, bounds>>

-----------------------------------------------------------------------------
(***************************************************************************)
(* The server: it moves the client at the plugin's request, turns a request *)
(* down (a full channel, a password), or moves it because the user or an    *)
(* administrator wants it.  A move to where the client is is an error.      *)
(***************************************************************************)
MovesTo(ch, who) ==
    IF ch \in Channel /\ ch # clientAt
    THEN clientAt' = ch /\ moves' = Append(moves, ch) /\ lastMove' = who
    ELSE UNCHANGED <<clientAt, moves, lastMove>>

Answering == requests # <<>> /\ (Prompt => \A t \in Thread : pc[t] # "settle")

ServerMoves ==
    /\ Answering
    /\ MovesTo(Head(requests), "plugin")
    /\ requests' = Tail(requests)
    /\ UNCHANGED <<mode, connected, tables, feed, simComData, tuning, pc, arg, local, bounds>>

ServerDenies ==
    /\ Answering
    /\ denials < MaxDenials
    /\ denials' = denials + 1
    /\ requests' = Tail(requests)
    /\ UNCHANGED <<mode, connected, tables, feed, simComData, clientAt, moves, lastMove,
                   tuning, pc, arg, local, events>>

UserMoves(ch) ==
    /\ connected
    /\ ch # clientAt
    /\ Happens
    /\ MovesTo(ch, "user")
    /\ UNCHANGED <<mode, connected, tables, feed, simComData, requests, tuning, pc, arg,
                   local, denials>>

-----------------------------------------------------------------------------
Next ==
    \/ \E t \in Thread : CallbackStep(t)
    \/ SimFound
    \/ \E d \in SimData : FirstReport(d) \/ WorkerReports(d) \/ SimLost(d)
    \/ Heartbeat
    \/ SimDropped
    \/ ClientMove
    \/ Bounce
    \/ Accept
    \/ Record
    \/ \E m \in Modes : HandleModeChange(m)
    \/ HandleFrequencyModeChange
    \/ \E ch \in Channel : Connect(ch)
    \/ Disconnect
    \/ ChannelLoaded
    \/ ServerMoves
    \/ ServerDenies
    \/ \E ch \in Channel : UserMoves(ch)

Spec == Init /\ [][Next]_vars

(***************************************************************************)
(* Both threads keep running, the worker reports every ten seconds, and the *)
(* server answers.                                                          *)
(***************************************************************************)
Fairness ==
    /\ \A t \in Thread : WF_vars(CallbackStep(t))
    /\ WF_vars(\E d \in SimData : FirstReport(d)) /\ WF_vars(Heartbeat)
    /\ WF_vars(ClientMove) /\ WF_vars(Bounce)
    /\ WF_vars(Accept) /\ WF_vars(Record)
    /\ WF_vars(ChannelLoaded)
    /\ WF_vars(ServerMoves)

FairSpec == Spec /\ Fairness

-----------------------------------------------------------------------------
Label == {"idle", "enter", "locate", "decide", "settle", "bounce", "accept",
          "record"}

Answer == Node \cup {CHANNEL_NOT_CHILD_OF_ROOT, CHANNEL_ID_NOT_FOUND}

TypeOK ==
    /\ mode \in {"AUTO", "MANUAL", "DISABLED"}
    /\ connected \in BOOLEAN
    /\ loaded \in 0 .. Len(Tree)
    /\ simOn \in BOOLEAN /\ fresh \in BOOLEAN /\ owed \in BOOLEAN /\ data \in SimData
    /\ simComData \in SimData
    /\ clientAt \in Channel \cup {CHANNEL_ID_NOT_FOUND}
    /\ lastMove \in {"none", "plugin", "user"}
    /\ requests \in Seq(Answer) /\ moves \in Seq(Channel)
    /\ current \in Answer /\ target \in Answer
    /\ pc \in [Thread -> Label]
    /\ arg \in [Thread -> SimData]
    /\ local \in [Thread -> [mode : {"AUTO", "MANUAL", "DISABLED"}, new : Answer]]
    /\ events \in 0 .. MaxEvents /\ denials \in 0 .. MaxDenials
    /\ connected <=> clientAt # CHANNEL_ID_NOT_FOUND
    /\ pc["worker"] \notin {"bounce", "accept", "record"}
    /\ pc["ts3"] \in {"bounce", "accept"} => moves # <<>>

(***************************************************************************)
(* Hands off in disabled mode: once no callback that began in another mode  *)
(* is under way, the plugin asks for no move until the mode changes.        *)
(***************************************************************************)
MidCallback(t) == pc[t] \in {"locate", "decide", "settle", "bounce"}

HandsOff ==
    [][ (mode = "DISABLED" /\ mode' = "DISABLED" /\ ~ \E t \in Thread : MidCallback(t))
          => (~ \E t \in Thread : MidCallback(t)') /\ Len(requests') <= Len(requests) ]_vars

(***************************************************************************)
(* Where automatic mode wants the client: in a station tuned on the radio;  *)
(* with none, in the untuned channel or anywhere below the root channel.    *)
(***************************************************************************)
AllTables ==
    FoldLeft(LAMBDA t, row : AddOrUpdateChannel(t, row.ch, row.parent, row.facts),
             InitDatabase(RootRow), Tree)

TunedStations ==
    Channel \cap Lookup(AllTables, data.freq,
                       IF ChannelIsUnderRoot(AllTables, clientAt, RootChannel)
                         THEN clientAt ELSE RootChannel,
                       RootChannel)

SupposedToBe ==
    IF TunedStations # {} THEN TunedStations
    ELSE IF Untuned THEN {UntunedChannel}
    ELSE {c \in Channel : ChannelIsUnderRoot(AllTables, c, RootChannel)}

(***************************************************************************)
(* The lock of automatic mode: when pilot, user and network have calmed     *)
(* down, with simulator and server connected, the client ends up where it   *)
(* is supposed to be and stays there, whatever crossed on the way.          *)
(***************************************************************************)
LocksIn == <>[](mode = "AUTO" /\ simOn /\ connected => clientAt \in SupposedToBe)

(***************************************************************************)
(* The plugin's record of where the client is, written by callback on one   *)
(* thread and by the move event on the other, may be wrong for a while, but *)
(* not for good: in a mode that moves the client it comes right and stays   *)
(* right when pilot, user and network have calmed down.                     *)
(***************************************************************************)
RecordComesRight == <>[](mode # "DISABLED" /\ simOn /\ connected => current = clientAt)

-----------------------------------------------------------------------------
(***************************************************************************)
(* What the repository says and the code does not do.                       *)
(*                                                                         *)
(* BFSGSimCom.cpp:305: in manual mode a changed position moves the client   *)
(* only if the last channel move was not manual.                            *)
(***************************************************************************)
Decides(t) == pc[t] = "decide" /\ pc'[t] # "decide"

ManualMoveStands ==
    [][ \A t \in Thread :
          (Decides(t) /\ local[t].mode = "MANUAL" /\ arg[t].cause # "com"
             /\ lastMove = "user" /\ moves = <<>>)
             => UNCHANGED requests ]_vars

(***************************************************************************)
(* BFSGSimCom.cpp:1280-1281: a move that is not held back is accepted and   *)
(* the record of where the client is updated.  Without automatic mode the   *)
(* record would be right whenever every move has been told.                 *)
(***************************************************************************)
Quiet == /\ pc = [t \in Thread |-> "idle"]
         /\ requests = <<>> /\ moves = <<>>

RecordIsTrue == (Quiet /\ connected) => current = clientAt

(***************************************************************************)
(* onClientMoveEvent moves the client back only when it is not where it is  *)
(* supposed to be (BFSGSimCom.cpp:1232-1236): the plugin does not undo its  *)
(* own move to the station that is tuned, with no retuning under way.       *)
(***************************************************************************)
OwnMoveStands ==
    [][ (/\ pc["ts3"] = "bounce" /\ pc'["ts3"] = "record"
         /\ pc["worker"] \in {"idle", "settle"}
         /\ lastMove = "plugin" /\ moves = <<clientAt>> /\ requests = <<>>
         /\ clientAt \in TunedStations)
           => UNCHANGED requests ]_vars
=============================================================================
