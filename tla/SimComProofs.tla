----------------------------- MODULE SimComProofs -----------------------------
(***************************************************************************)
(* The tuning control, for every channel tree, every set of frequencies and *)
(* any number of things that happen: its types, that disabled mode keeps    *)
(* its hands off, and that the record of where the client is goes wrong in  *)
(* one interleaving only.                                                   *)
(***************************************************************************)
EXTENDS SimCom, ChannelDbProofs

\* The tables stay as ChannelDb wants them.
TypeInv == TypeOK /\ DbInv(db)

\* Without a connection nothing is under way to the server, or from it.
Offline == ~ connected => requests = <<>> /\ moves = <<>>

-----------------------------------------------------------------------------
\* A lookup answers with a channel of the tables or one of the two excuses.
LEMMA LookupType ==
    ASSUME DbInv(db), NEW f, NEW from, NEW root
    PROVE  Lookup(db, f, from, root) \subseteq Answer
<1> DEFINE S == Stations(db, f, FALSE, from, root)
<1>1. \A s \in S : s.channel \in Node
  <2>1. \A r \in db.closure : r[2] \in Node
    BY DEF DbInv, DbType
  <2>2. ASSUME NEW s \in S PROVE \E r \in db.closure : s.channel = r[2]
    <3>1. PICK u \in db.closure, r \in db.closure :
            s = [channel |-> <<u, r>>[2][2], distance |-> <<u, r>>[1][3] + <<u, r>>[2][3],
                 removed |-> <<u, r>>[2][3]]
      BY <2>2, Zenon DEF Stations
    <3> QED
      BY <3>1
  <2> QED
    BY <2>1, <2>2
<1> HIDE DEF S
<1>2. \A a \in Lookup(db, f, from, root) :
         \/ \E s \in S : a = s.channel
         \/ a \in {CHANNEL_NOT_CHILD_OF_ROOT, CHANNEL_ID_NOT_FOUND}
  BY DEF Lookup, GetChannelID, S
<1> QED
  BY <1>1, <1>2 DEF Answer

LEMMA RootsType ==
    ASSUME TypeOK, NEW m
    PROVE  AdjustedCurrent(m) \in Answer
  BY SimComAssumption DEF AdjustedCurrent, TypeOK, Answer

LEMMA DestinationType ==
    ASSUME TypeOK, NEW t \in Thread, NEW new \in Answer
    PROVE  Destination(t, new) \in Answer
  BY RootsType, SimComAssumption DEF Destination, Answer

LEMMA FeedType ==
    ASSUME TypeOK, NEW d \in SimData, Report(d) \/ Lost(d)
    PROVE  simOn' \in BOOLEAN /\ fresh' \in BOOLEAN /\ owed' \in BOOLEAN /\ data' \in SimData
  BY DEF TypeOK, Report, Lost

LEMMA NoDataType == NoData \in SimData
  BY DEF NoData, Data, SimData

\* Where the threads may be.
Places ==
    /\ pc \in [Thread -> Label]
    /\ pc["worker"] \notin {"bounce", "accept", "record"}
    /\ pc["ts3"] \in {"bounce", "accept"} => moves # <<>>

LEMMA CallType ==
    ASSUME TypeOK, NEW t \in Thread, NEW d \in SimData, Call(t, d), moves' = moves
    PROVE  /\ Places' /\ arg' \in [Thread -> SimData]
  BY DEF TypeOK, Call, Places, Label, Thread

LEMMA ReturnType ==
    ASSUME TypeOK, NEW t \in Thread, Return(t), moves' = moves
    PROVE  /\ Places' /\ arg' \in [Thread -> SimData]
           /\ local' \in [Thread -> [mode : {"AUTO", "MANUAL", "DISABLED"}, new : Answer]]
  BY NoDataType DEF TypeOK, Return, Goto, NoLocal, Answer, Places, Label, Thread

LEMMA GotoType ==
    ASSUME TypeOK, NEW t \in Thread, NEW l \in {"locate", "decide", "settle"}, Goto(t, l),
           moves' = moves
    PROVE  Places'
  BY DEF TypeOK, Goto, Places, Label, Thread

LEMMA RequestType ==
    ASSUME TypeOK, NEW ch \in Answer, RequestClientMove(ch)
    PROVE  requests' \in Seq(Answer)
  BY DEF TypeOK, RequestClientMove

LEMMA HappensType ==
    ASSUME TypeOK, Happens
    PROVE  events' \in 0 .. MaxEvents
<1>1. MaxEvents \in Nat /\ events \in 0 .. MaxEvents
  BY SimComAssumption DEF TypeOK
<1> QED
  BY <1>1, SMT DEF Happens

LEMMA EmptyType ==
    ASSUME EmptyTables
    PROVE  DbInv(db') /\ loaded' \in 0 .. Len(Tree)
  BY InitKeepsTables, SimComAssumption, SMT DEF EmptyTables

LEMMA MovesType ==
    ASSUME TypeOK, NEW ch, NEW who \in {"plugin", "user"}, MovesTo(ch, who)
    PROVE  /\ clientAt' \in Channel \cup {CHANNEL_ID_NOT_FOUND} /\ moves' \in Seq(Channel)
           /\ lastMove' \in {"none", "plugin", "user"}
           /\ moves # <<>> => moves' # <<>>
           /\ clientAt' = clientAt \/ clientAt' \in Channel
<1>1. CASE ch \in Channel /\ ch # clientAt
  <2>1. clientAt' = ch /\ moves' = Append(moves, ch) /\ lastMove' = who
    BY <1>1 DEF MovesTo
  <2>2. moves \in Seq(Channel)
    BY DEF TypeOK
  <2>3. moves' \in Seq(Channel) /\ Len(moves') = Len(moves) + 1 /\ Len(moves) \in Nat
    BY <1>1, <2>1, <2>2
  <2>4. moves' # <<>>
    BY <2>3, SMT
  <2> QED
    BY <1>1, <2>1, <2>3, <2>4
<1>2. CASE ~ (ch \in Channel /\ ch # clientAt)
  BY <1>2 DEF MovesTo, TypeOK
<1> QED
  BY <1>1, <1>2

LEMMA TypeInit == Init => TypeInv
<1> SUFFICES ASSUME Init PROVE TypeInv
  OBVIOUS
<1>1. DbInv(db) /\ loaded \in 0 .. Len(Tree) /\ events \in 0 .. MaxEvents
      /\ denials \in 0 .. MaxDenials
  BY InitKeepsTables, SimComAssumption, SMT DEF Init
<1>2. <<>> \in Seq(Answer) /\ <<>> \in Seq(Channel)
  OBVIOUS
<1> QED
  BY <1>1, <1>2, NoDataType, SimComAssumption, ChannelAssumption
  DEF Init, TypeInv, TypeOK, FeedInit, NoLocal, Answer, Label, Thread

LEMMA TypeCallback ==
    ASSUME TypeInv, NEW t \in Thread, CallbackStep(t)
    PROVE  TypeInv'
<1> USE DEF TypeInv
<1>0. UNCHANGED <<db, loaded>> /\ TypeOK /\ DbInv(db)
  BY DEF CallbackStep, Enter, Locate, Decide, Settle, tables
<1>1. CASE Enter(t)
  <2>1. /\ moves' = moves /\ simComData' \in SimData
        /\ UNCHANGED <<mode, connected, simOn, fresh, owed, data, clientAt, requests,
                       lastMove, current, events, denials>>
    BY <1>0, <1>1 DEF Enter, feed, world, bounds, TypeOK
  <2>2. CASE Return(t)
    <3>1. target' \in Answer
      BY <1>1, <2>2 DEF Enter, TypeOK, Answer
    <3> QED
      BY <1>0, <2>1, <2>2, <3>1, ReturnType DEF TypeOK, Places
  <2>3. CASE Goto(t, "locate") /\ local' = [local EXCEPT ![t].mode = mode]
             /\ UNCHANGED <<target, arg>>
    <3>1. local' \in [Thread -> [mode : {"AUTO", "MANUAL", "DISABLED"}, new : Answer]]
      BY <2>3, <1>0 DEF TypeOK
    <3>2. Places'
      BY <1>0, <2>1, <2>3, GotoType
    <3> QED
      BY <1>0, <2>1, <2>3, <3>1, <3>2 DEF TypeOK, Places
  <2> QED
    BY <1>1, <2>2, <2>3 DEF Enter
<1>2. CASE Locate(t)
  <2>1. /\ moves' = moves /\ current' \in Answer /\ target' \in Answer
        /\ UNCHANGED <<mode, connected, simOn, fresh, owed, data, simComData, clientAt,
                       requests, lastMove, events, denials>>
    BY <1>0, <1>2 DEF Locate, feed, world, bounds, TypeOK, Answer, Node
  <2>2. CASE Return(t)
    BY <1>0, <2>1, <2>2, ReturnType DEF TypeOK, Places
  <2>3. CASE Goto(t, "decide") /\ UNCHANGED <<arg, local>>
    BY <1>0, <2>1, <2>3, GotoType DEF TypeOK, Places
  <2> QED
    BY <1>2, <2>2, <2>3 DEF Locate
<1>3. CASE Decide(t)
  <2>1. /\ UNCHANGED <<mode, connected, simOn, fresh, owed, data, simComData, clientAt, moves,
                       lastMove, current, events, denials>>
    BY <1>3 DEF Decide, feed, bounds
  <2>2. PICK new \in Lookup(db, arg[t].freq, AdjustedCurrent(local[t].mode), AdjustedRoot) :
         IF MayMove(t, new)
         THEN /\ IF Destination(t, new) # current
                      /\ Destination(t, new) \notin {CHANNEL_ID_NOT_FOUND, CHANNEL_ROOT}
                 THEN RequestClientMove(Destination(t, new)) ELSE UNCHANGED requests
              /\ local' = [local EXCEPT ![t].new = Destination(t, new)]
              /\ Goto(t, "settle")
              /\ UNCHANGED <<target, arg>>
         ELSE /\ target' = new
              /\ Return(t)
              /\ UNCHANGED requests
    BY <1>3 DEF Decide
  <2>3. new \in Answer
    BY <1>0, LookupType
  <2>4. Destination(t, new) \in Answer
    BY <1>0, <2>3, DestinationType
  <2>5. requests' \in Seq(Answer)
    BY <1>0, <2>2, <2>4, RequestType DEF TypeOK
  <2>6. CASE MayMove(t, new)
    <3>1. local' \in [Thread -> [mode : {"AUTO", "MANUAL", "DISABLED"}, new : Answer]]
      BY <1>0, <2>2, <2>4, <2>6 DEF TypeOK
    <3>2. Places'
      BY <1>0, <2>1, <2>2, <2>6, GotoType
    <3> QED
      BY <1>0, <2>1, <2>2, <2>5, <2>6, <3>1, <3>2 DEF TypeOK, Places
  <2>7. CASE ~ MayMove(t, new)
    <3>1. /\ Places' /\ arg' \in [Thread -> SimData]
          /\ local' \in [Thread -> [mode : {"AUTO", "MANUAL", "DISABLED"}, new : Answer]]
      BY <1>0, <2>1, <2>2, <2>7, ReturnType
    <3> QED
      BY <1>0, <2>1, <2>2, <2>3, <2>5, <2>7, <3>1 DEF TypeOK, Places
  <2> QED
    BY <2>6, <2>7
<1>4. CASE Settle(t)
  <2>1. /\ moves' = moves /\ target' \in Answer /\ Return(t)
        /\ UNCHANGED <<mode, connected, simOn, fresh, owed, data, simComData, clientAt,
                       requests, lastMove, current, events, denials>>
    BY <1>0, <1>4 DEF Settle, feed, world, bounds, TypeOK
  <2> QED
    BY <1>0, <2>1, ReturnType DEF TypeOK, Places
<1> QED
  BY <1>1, <1>2, <1>3, <1>4 DEF CallbackStep

\* The steps of the worker that come from SimFeed.
Fed ==
    \/ SimFound \/ Heartbeat \/ SimDropped
    \/ \E d \in SimData : FirstReport(d) \/ WorkerReports(d) \/ SimLost(d)

LEMMA TypeFed == TypeInv /\ Fed => TypeInv'
<1> SUFFICES ASSUME TypeInv, Fed PROVE TypeInv'
  OBVIOUS
<1> USE DEF TypeInv
<1>0. TypeOK /\ DbInv(db)
  OBVIOUS
<1>1. /\ UNCHANGED <<mode, connected, db, loaded, simComData, clientAt, requests, moves,
                     lastMove, current, target, local, denials>>
  BY DEF Fed, SimFound, Heartbeat, SimDropped, FirstReport, WorkerReports, SimLost,
         unfed, tables, world, tuning
<1>2. events' \in 0 .. MaxEvents
  BY <1>0, HappensType DEF Fed, SimFound, Heartbeat, SimDropped, FirstReport, WorkerReports,
                           SimLost, TypeOK
<1>3. CASE SimFound \/ SimDropped
  <2>1. /\ simOn' \in BOOLEAN /\ fresh' \in BOOLEAN /\ UNCHANGED <<owed, data, pc, arg>>
    BY <1>3 DEF SimFound, SimDropped, Opened, Dropped
  <2> QED
    BY <1>0, <1>1, <1>2, <2>1 DEF TypeOK
<1>4. ASSUME NEW d \in SimData, Report(d) \/ Lost(d), Call("worker", d)
      PROVE  TypeInv'
  <2>1. simOn' \in BOOLEAN /\ fresh' \in BOOLEAN /\ owed' \in BOOLEAN /\ data' \in SimData
    BY <1>0, <1>4, FeedType
  <2>2. Places' /\ arg' \in [Thread -> SimData]
    BY <1>0, <1>1, <1>4, CallType DEF Thread
  <2> QED
    BY <1>0, <1>1, <1>2, <2>1, <2>2 DEF TypeOK, Places
<1>5. CASE Heartbeat
  <2>1. Data(data.freq, "other") \in SimData
    BY <1>0 DEF TypeOK, SimData, Data
  <2> QED
    BY <1>4, <1>5, <2>1 DEF Heartbeat
<1>6. ASSUME NEW d \in SimData, FirstReport(d) \/ WorkerReports(d) \/ SimLost(d)
      PROVE  TypeInv'
  BY <1>4, <1>6 DEF FirstReport, WorkerReports, SimLost
<1> QED
  BY <1>3, <1>5, <1>6 DEF Fed

\* The handlers of the client's moves, of the mode and of the connection.
Handled ==
    \/ ClientMove \/ Bounce \/ Accept \/ Record
    \/ \E m \in Modes : HandleModeChange(m)
    \/ HandleFrequencyModeChange
    \/ \E ch \in Channel : Connect(ch)
    \/ Disconnect \/ ChannelLoaded

LEMMA TypeHandled == TypeInv /\ Handled => TypeInv'
<1> SUFFICES ASSUME TypeInv, Handled PROVE TypeInv'
  OBVIOUS
<1> USE DEF TypeInv
<1>0. TypeOK /\ DbInv(db)
  OBVIOUS
<1>1. CASE ClientMove
  <2>1. /\ UNCHANGED <<mode, connected, db, loaded, simOn, fresh, owed, data, simComData,
                       clientAt, requests, moves, lastMove, current, target, arg, local,
                       events, denials>>
        /\ moves # <<>>
        /\ \E l \in {"bounce", "accept"} : Goto("ts3", l)
    BY <1>1 DEF ClientMove, tables, feed, world, tuning, bounds
  <2> QED
    BY <1>0, <2>1 DEF TypeOK, Goto, Label, Thread
<1>2. CASE Bounce
  <2>1. /\ UNCHANGED <<mode, connected, db, loaded, simOn, fresh, owed, data, simComData,
                       clientAt, lastMove, current, target, arg, local, events, denials>>
        /\ pc' = [pc EXCEPT !["ts3"] = "record"]
    BY <1>2 DEF Bounce, tables, feed, tuning, bounds, Goto
  <2>2. moves' \in Seq(Channel)
    <3>1. moves \in Seq(Channel) /\ moves # <<>> /\ moves' = Tail(moves)
      BY <1>0, <1>2 DEF Bounce, TypeOK
    <3> QED
      BY <3>1
  <2>3. requests' \in Seq(Answer)
    BY <1>0, <1>2, RequestType DEF Bounce, TypeOK
  <2> QED
    BY <1>0, <2>1, <2>2, <2>3 DEF TypeOK, Label, Thread
<1>3. CASE Record
  BY <1>0, <1>3 DEF Record, Goto, tables, feed, world, bounds, TypeOK, Label, Thread
<1>9. CASE Accept
  <2>1. /\ UNCHANGED <<mode, connected, db, loaded, simOn, fresh, owed, data, simComData,
                       clientAt, requests, lastMove, target, arg, local, events, denials>>
        /\ moves \in Seq(Channel) /\ moves # <<>> /\ moves' = Tail(moves)
        /\ current' \in {current, Head(moves)}
        /\ \E l \in {"idle", "record"} : Goto("ts3", l)
    BY <1>0, <1>9 DEF Accept, tables, feed, bounds, TypeOK
  <2>2. Head(moves) \in Answer /\ Tail(moves) \in Seq(Channel)
    BY <2>1 DEF Answer, Node
  <2> QED
    BY <1>0, <2>1, <2>2 DEF TypeOK, Goto, Label, Thread
<1>4. ASSUME NEW m \in Modes, HandleModeChange(m) PROVE TypeInv'
  <2>1. /\ UNCHANGED <<connected, db, loaded, simOn, fresh, owed, data, simComData, clientAt,
                       requests, moves, lastMove, current, local, denials>>
        /\ mode' = m /\ target' = current /\ Call("ts3", simComData)
    BY <1>4 DEF HandleModeChange, tables, feed, world
  <2>2. events' \in 0 .. MaxEvents
    BY <1>0, <1>4, HappensType DEF HandleModeChange
  <2>3. Places' /\ arg' \in [Thread -> SimData]
    BY <1>0, <2>1, CallType DEF TypeOK, Thread
  <2> QED
    BY <1>0, <2>1, <2>2, <2>3, SimComAssumption DEF TypeOK, Places
<1>5. CASE HandleFrequencyModeChange
  <2>1. /\ UNCHANGED <<mode, connected, simOn, fresh, owed, data, simComData, clientAt,
                       requests, moves, lastMove, local, denials>>
        /\ current' \in Answer /\ target' \in Answer
    BY <1>0, <1>5 DEF HandleFrequencyModeChange, feed, world, TypeOK, Answer, Node
  <2>2. events' \in 0 .. MaxEvents /\ DbInv(db') /\ loaded' \in 0 .. Len(Tree)
    BY <1>0, <1>5, HappensType, EmptyType DEF HandleFrequencyModeChange
  <2>3. CASE Call("ts3", simComData)
    <3>1. Places' /\ arg' \in [Thread -> SimData]
      BY <1>0, <2>1, <2>3, CallType DEF TypeOK, Thread
    <3> QED
      BY <1>0, <2>1, <2>2, <3>1 DEF TypeOK, Places
  <2>4. CASE UNCHANGED <<pc, arg>>
    BY <1>0, <2>1, <2>2, <2>4 DEF TypeOK
  <2> QED
    BY <1>5, <2>3, <2>4 DEF HandleFrequencyModeChange
<1>6. ASSUME NEW ch \in Channel, Connect(ch) PROVE TypeInv'
  <2>1. /\ UNCHANGED <<mode, db, loaded, simOn, fresh, owed, data, simComData, requests, moves,
                       local, events, denials>>
        /\ connected' = TRUE /\ clientAt' = ch /\ current' = ch /\ target' = ch
        /\ lastMove' = "none"
    BY <1>6 DEF Connect, tables, feed, bounds
  <2>2. ch # CHANNEL_ID_NOT_FOUND /\ ch \in Answer
    BY ChannelAssumption DEF Answer, Node
  <2>3. CASE Call("ts3", simComData)
    <3>1. Places' /\ arg' \in [Thread -> SimData]
      BY <1>0, <2>1, <2>3, CallType DEF TypeOK, Thread
    <3> QED
      BY <1>0, <2>1, <2>2, <3>1 DEF TypeOK, Places
  <2>4. CASE UNCHANGED <<pc, arg>>
    BY <1>0, <2>1, <2>2, <2>4 DEF TypeOK
  <2> QED
    BY <1>6, <2>3, <2>4 DEF Connect
<1>7. CASE Disconnect
  <2>1. /\ UNCHANGED <<mode, simOn, fresh, owed, data, simComData, pc, arg, local, denials>>
        /\ connected' = FALSE /\ clientAt' = CHANNEL_ID_NOT_FOUND
        /\ requests' = <<>> /\ moves' = <<>> /\ lastMove' = "none"
        /\ current' = CHANNEL_ROOT /\ target' = CHANNEL_ROOT /\ pc["ts3"] = "idle"
    BY <1>7 DEF Disconnect, feed
  <2>2. events' \in 0 .. MaxEvents /\ DbInv(db') /\ loaded' \in 0 .. Len(Tree)
    BY <1>0, <1>7, HappensType, EmptyType DEF Disconnect
  <2>3. <<>> \in Seq(Answer) /\ <<>> \in Seq(Channel) /\ CHANNEL_ROOT \in Answer
    BY DEF Answer, Node
  <2> QED
    BY <1>0, <2>1, <2>2, <2>3 DEF TypeOK
<1>8. CASE ChannelLoaded
  <2>1. /\ UNCHANGED <<mode, connected, simOn, fresh, owed, data, simComData, clientAt,
                       requests, moves, lastMove, current, target, pc, arg, local, events,
                       denials>>
    BY <1>8 DEF ChannelLoaded, feed, world, tuning, bounds
  <2>2. loaded' \in 0 .. Len(Tree) /\ loaded' \in DOMAIN Tree
    <3>1. loaded \in Nat /\ Len(Tree) \in Nat /\ loaded < Len(Tree) /\ loaded' = loaded + 1
      BY <1>0, <1>8, SimComAssumption, SMT DEF ChannelLoaded, TypeOK
    <3>2. loaded' \in 1 .. Len(Tree)
      BY <3>1, SMT
    <3> QED
      BY <3>1, <3>2, SimComAssumption, SMT
  <2>3. /\ Tree[loaded'].ch \in Channel
        /\ Tree[loaded'].parent \in Node /\ Tree[loaded'].parent # Tree[loaded'].ch
    BY <2>2, SimComAssumption
  <2>4. DbInv(db')
    BY <1>0, <1>8, <2>3, AddKeepsTables DEF ChannelLoaded
  <2> QED
    BY <1>0, <2>1, <2>2, <2>4 DEF TypeOK
<1> QED
  BY <1>1, <1>2, <1>3, <1>4, <1>5, <1>6, <1>7, <1>8, <1>9 DEF Handled

\* What the server does with the client.
Served == ServerMoves \/ ServerDenies \/ \E ch \in Channel : UserMoves(ch)

LEMMA TypeServed == TypeInv /\ Offline /\ Served => TypeInv'
<1> SUFFICES ASSUME TypeInv, Offline, Served PROVE TypeInv'
  OBVIOUS
<1> USE DEF TypeInv
<1>0. TypeOK /\ DbInv(db)
  OBVIOUS
<1>1. /\ UNCHANGED <<mode, connected, db, loaded, simOn, fresh, owed, data, simComData,
                     current, target, pc, arg, local>>
  BY DEF Served, ServerMoves, ServerDenies, UserMoves, tables, feed, tuning
<1>2. ASSUME requests # <<>> PROVE Tail(requests) \in Seq(Answer)
  BY <1>0, <1>2 DEF TypeOK
<1>3. CASE ServerMoves
  <2>1. /\ clientAt' \in Channel \cup {CHANNEL_ID_NOT_FOUND} /\ moves' \in Seq(Channel)
        /\ lastMove' \in {"none", "plugin", "user"}
        /\ moves # <<>> => moves' # <<>>
    BY <1>0, <1>3, MovesType DEF ServerMoves
  <2>2. requests' \in Seq(Answer) /\ UNCHANGED <<events, denials>>
    BY <1>2, <1>3 DEF ServerMoves, Answering, bounds
  <2>3. connected <=> clientAt' # CHANNEL_ID_NOT_FOUND
    BY <1>0, <1>3, ChannelAssumption
    DEF ServerMoves, MovesTo, Answering, Offline, TypeOK, Node
  <2> QED
    BY <1>0, <1>1, <2>1, <2>2, <2>3 DEF TypeOK
<1>4. CASE ServerDenies
  <2>1. requests' \in Seq(Answer) /\ UNCHANGED <<events, clientAt, moves, lastMove>>
    BY <1>2, <1>4 DEF ServerDenies, Answering
  <2>2. denials' \in 0 .. MaxDenials
    <3>1. MaxDenials \in Nat /\ denials \in 0 .. MaxDenials /\ denials < MaxDenials
          /\ denials' = denials + 1
      BY <1>0, <1>4, SimComAssumption DEF ServerDenies, TypeOK
    <3> QED
      BY <3>1, SMT
  <2> QED
    BY <1>0, <1>1, <2>1, <2>2 DEF TypeOK
<1>5. ASSUME NEW ch \in Channel, UserMoves(ch) PROVE TypeInv'
  <2>1. /\ clientAt' \in Channel \cup {CHANNEL_ID_NOT_FOUND} /\ moves' \in Seq(Channel)
        /\ lastMove' \in {"none", "plugin", "user"}
        /\ moves # <<>> => moves' # <<>>
    BY <1>0, <1>5, MovesType DEF UserMoves
  <2>2. UNCHANGED <<requests, denials>> /\ events' \in 0 .. MaxEvents
    BY <1>0, <1>5, HappensType DEF UserMoves
  <2>3. connected <=> clientAt' # CHANNEL_ID_NOT_FOUND
    BY <1>0, <1>5, ChannelAssumption DEF UserMoves, MovesTo, TypeOK, Node
  <2> QED
    BY <1>0, <1>1, <2>1, <2>2, <2>3 DEF TypeOK
<1> QED
  BY <1>3, <1>4, <1>5 DEF Served

LEMMA OfflineStep == TypeInv /\ Offline /\ [Next]_vars => Offline'
<1> SUFFICES ASSUME TypeOK, Offline, [Next]_vars PROVE Offline'
  BY DEF TypeInv
<1>1. ASSUME NEW t \in Thread, CallbackStep(t) PROVE Offline'
  <2>1. connected' = connected /\ moves' = moves
        /\ (requests' = requests \/ connected)
    BY <1>1 DEF CallbackStep, Enter, Locate, Decide, Settle, world, RequestClientMove
  <2> QED
    BY <2>1 DEF Offline
<1>2. CASE Fed
  BY <1>2 DEF Fed, SimFound, Heartbeat, SimDropped, FirstReport, WorkerReports, SimLost,
              unfed, world, Offline
<1>3. CASE ClientMove \/ Bounce \/ Accept \/ Record
  <2>1. connected' = connected /\ (connected \/ moves' = moves)
        /\ (requests' = requests \/ connected)
    <3>1. CASE Accept
      BY <3>1 DEF Accept, Offline, TypeOK
    <3>2. CASE Bounce
      <4>1. pc["ts3"] = "bounce" => moves # <<>>
        BY DEF TypeOK
      <4> QED
        BY <3>2, <4>1 DEF Bounce, Offline, RequestClientMove
    <3>3. CASE ClientMove \/ Record
      BY <3>3 DEF ClientMove, Record, world
    <3> QED
      BY <1>3, <3>1, <3>2, <3>3
  <2> QED
    BY <2>1 DEF Offline
<1>4. CASE (\E m \in Modes : HandleModeChange(m)) \/ HandleFrequencyModeChange \/ ChannelLoaded
  BY <1>4 DEF HandleModeChange, HandleFrequencyModeChange, ChannelLoaded, world, Offline
<1>5. CASE (\E ch \in Channel : Connect(ch)) \/ Disconnect
  BY <1>5 DEF Connect, Disconnect, Offline
<1>6. CASE ServerMoves \/ ServerDenies
  BY <1>6 DEF ServerMoves, ServerDenies, Answering, Offline
<1>7. CASE \E ch \in Channel : UserMoves(ch)
  BY <1>7 DEF UserMoves, Offline
<1>8. CASE UNCHANGED vars
  BY <1>8 DEF vars, Offline
<1> QED
  BY <1>1, <1>2, <1>3, <1>4, <1>5, <1>6, <1>7, <1>8 DEF Next, Fed

TuningInv == TypeInv /\ Offline

LEMMA TuningInvariant == Spec => []TuningInv
<1>1. Init => TuningInv
  BY TypeInit DEF Init, TuningInv, Offline
<1>2. TuningInv /\ UNCHANGED vars => TypeInv'
  BY DEF TuningInv, TypeInv, TypeOK, vars
<1>3. TuningInv /\ [Next]_vars => TuningInv'
  BY <1>2, TypeCallback, TypeFed, TypeHandled, TypeServed, OfflineStep
  DEF TuningInv, Next, Fed, Handled, Served
<1> QED
  BY <1>1, <1>3, PTL DEF Spec

\* The variables of the tuning control keep their types; the client is somewhere just
\* when the plugin is connected, and only a move that has not been told is bounced.
THEOREM TuningTypes == Spec => []TypeOK
<1>1. TuningInv => TypeOK
  BY DEF TuningInv, TypeInv
<1> QED
  BY <1>1, TuningInvariant, PTL

-----------------------------------------------------------------------------
(***************************************************************************)
(* Disabled mode: a callback ends where it began, and the move event does   *)
(* not ask for the way back.                                                *)
(***************************************************************************)
LEMMA HandsOffStep ==
    ASSUME TypeOK, [Next]_vars, mode = "DISABLED", mode' = "DISABLED",
           ~ \E t \in Thread : MidCallback(t)
    PROVE  /\ ~ \E t \in Thread : MidCallback(t)'
           /\ Len(requests') <= Len(requests)
<1>0. /\ requests \in Seq(Answer) /\ pc \in [Thread -> Label] /\ arg \in [Thread -> SimData]
      /\ Len(requests) \in Nat
  BY DEF TypeOK
<1>1. ASSUME NEW t \in Thread, pc' = [pc EXCEPT ![t] = "enter"] \/ pc' = [pc EXCEPT ![t] = "idle"]
      PROVE  ~ \E u \in Thread : MidCallback(u)'
  BY <1>0, <1>1 DEF MidCallback
<1>2. ASSUME UNCHANGED pc PROVE ~ \E u \in Thread : MidCallback(u)'
  BY <1>2 DEF MidCallback
<1>3. ASSUME UNCHANGED requests PROVE Len(requests') <= Len(requests)
  BY <1>0, <1>3, SMT
<1>4. ASSUME NEW t \in Thread, CallbackStep(t)
      PROVE  /\ ~ \E u \in Thread : MidCallback(u)'
             /\ Len(requests') <= Len(requests)
  <2>1. Enter(t) /\ Return(t)
    BY <1>4 DEF CallbackStep, Enter, Locate, Decide, Settle, MidCallback
  <2> QED
    BY <1>1, <1>3, <2>1 DEF Enter, Return, Goto, world
<1>5. CASE Fed
  <2>1. UNCHANGED requests
    BY <1>5 DEF Fed, SimFound, Heartbeat, SimDropped, FirstReport, WorkerReports, SimLost,
                unfed, world
  <2>2. UNCHANGED pc \/ \E d \in SimData : Call("worker", d)
    <3>1. CASE SimFound \/ SimDropped
      BY <3>1 DEF SimFound, SimDropped
    <3>2. CASE Heartbeat
      <4>1. Data(data.freq, "other") \in SimData
        BY DEF TypeOK, SimData, Data
      <4> QED
        BY <3>2, <4>1 DEF Heartbeat
    <3>3. CASE \E d \in SimData : FirstReport(d) \/ WorkerReports(d) \/ SimLost(d)
      BY <3>3 DEF FirstReport, WorkerReports, SimLost
    <3> QED
      BY <1>5, <3>1, <3>2, <3>3 DEF Fed
  <2> QED
    BY <1>1, <1>2, <1>3, <2>1, <2>2 DEF Call, Thread
<1>6. CASE ClientMove \/ Accept \/ Record
  <2>1. ~ Held
    BY DEF Held
  <2>2. UNCHANGED requests /\ \E l \in {"idle", "accept", "record"} : Goto("ts3", l)
    BY <1>6, <2>1 DEF ClientMove, Accept, Record, world
  <2> QED
    BY <1>0, <1>3, <2>2 DEF Goto, MidCallback
<1>7. CASE Bounce
  BY <1>7 DEF Bounce, MidCallback, Thread
<1>8. CASE \/ (\E m \in Modes : HandleModeChange(m)) \/ HandleFrequencyModeChange
           \/ (\E ch \in Channel : Connect(ch))
  <2>1. UNCHANGED requests /\ (UNCHANGED pc \/ Call("ts3", simComData))
    BY <1>8 DEF HandleModeChange, HandleFrequencyModeChange, Connect, world
  <2> QED
    BY <1>1, <1>2, <1>3, <2>1 DEF Call, Thread
<1>9. CASE Disconnect
  <2>1. requests' = <<>> /\ UNCHANGED pc
    BY <1>9 DEF Disconnect
  <2>2. Len(requests') = 0
    BY <2>1
  <2> QED
    BY <1>0, <1>2, <2>1, <2>2, SMT
<1>10. CASE ChannelLoaded \/ \E ch \in Channel : UserMoves(ch)
  BY <1>2, <1>3, <1>10 DEF ChannelLoaded, UserMoves, world
<1>11. CASE ServerMoves \/ ServerDenies
  <2>1. requests # <<>> /\ requests' = Tail(requests) /\ UNCHANGED pc
    BY <1>11 DEF ServerMoves, ServerDenies, Answering
  <2>2. Len(requests') = Len(requests) - 1
    BY <1>0, <2>1
  <2>3. Len(requests') <= Len(requests)
    BY <1>0, <2>2, SMT
  <2> QED
    BY <1>2, <2>1, <2>3
<1>12. CASE UNCHANGED vars
  BY <1>2, <1>3, <1>12 DEF vars
<1> QED
  BY <1>4, <1>5, <1>6, <1>7, <1>8, <1>9, <1>10, <1>11, <1>12 DEF Next, Fed

\* The plugin asks for no move in disabled mode, but for what was under way.
THEOREM DisabledKeepsOff == Spec => HandsOff
<1>1. TuningInv /\ [Next]_vars
        => [ (mode = "DISABLED" /\ mode' = "DISABLED" /\ ~ \E t \in Thread : MidCallback(t))
               => (~ \E t \in Thread : MidCallback(t)') /\ Len(requests') <= Len(requests) ]_vars
  BY HandsOffStep DEF TuningInv, TypeInv
<1> QED
  BY <1>1, TuningInvariant, PTL DEF Spec, HandsOff

-----------------------------------------------------------------------------
(***************************************************************************)
(* The record of where the client is.  Without automatic mode no move is    *)
(* bounced; the last move that has not been told ends where the client is,  *)
(* so telling them all, or asking the library, makes the record right.      *)
(* Telling one compares it with the target and may then read the target     *)
(* again: a behaviour is undisturbed when no callback writes it in between. *)
(***************************************************************************)
Undisturbed == pc["ts3"] = "record" /\ pc'["ts3"] = "record" => UNCHANGED target

LastTells == moves # <<>> => moves[Len(moves)] = clientAt

RecordInv ==
    /\ TuningInv
    /\ mode # "AUTO"
    /\ pc["ts3"] # "bounce"
    /\ LastTells
    /\ (connected /\ moves = <<>>)
          => IF pc["ts3"] = "record" THEN target = clientAt ELSE current = clientAt

\* A thread that begins, ends or goes on with a callback takes part in no move event.
LEMMA NoMoveEvent ==
    ASSUME TypeOK, pc["ts3"] # "bounce", NEW t \in Thread,
           NEW l \in {"idle", "enter", "locate", "decide", "settle"}, Goto(t, l),
           t = "ts3" => pc[t] # "record"
    PROVE  pc'["ts3"] # "bounce" /\ (pc'["ts3"] = "record" <=> pc["ts3"] = "record")
  BY DEF TypeOK, Goto

LEMMA ReturnIsGoto ==
    ASSUME NEW t, NEW d PROVE (Return(t) => Goto(t, "idle")) /\ (Call(t, d) => Goto(t, "enter"))
  BY DEF Return, Call, Goto

\* Handling the first of the moves leaves the last one last.
LEMMA TellOne ==
    ASSUME TypeOK, LastTells, moves # <<>>, moves' = Tail(moves), clientAt' = clientAt
    PROVE  LastTells' /\ (moves' = <<>> => Head(moves) = clientAt)
<1>1. moves \in Seq(Channel) /\ Len(moves) \in Nat \ {0} /\ Head(moves) = moves[1]
  BY DEF TypeOK
<1>2. Len(moves') = Len(moves) - 1
  BY <1>1
<1>3. CASE Len(moves) = 1
  <2>1. Len(moves') = 0
    BY <1>2, <1>3, SMT
  <2>2. moves' \in Seq(Channel)
    BY <1>1
  <2>3. moves' = <<>>
    BY <2>1, <2>2
  <2> QED
    BY <1>1, <1>3, <2>3 DEF LastTells
<1>4. CASE Len(moves) > 1
  <2>1. Len(moves') \in 1 .. Len(moves')
    BY <1>1, <1>2, <1>4, SMT
  <2>2. moves'[Len(moves')] = moves[Len(moves') + 1]
    BY <1>1, <1>2, <2>1
  <2>3. Len(moves') + 1 = Len(moves)
    BY <1>1, <1>2, SMT
  <2>4. moves' # <<>>
    BY <1>1, <1>2, <1>4
  <2> QED
    BY <2>2, <2>3, <2>4 DEF LastTells
<1>5. Len(moves) = 1 \/ Len(moves) > 1
  <2>1. \A n \in Nat : n # 0 => n = 1 \/ n > 1
    OBVIOUS
  <2>2. Len(moves) \in Nat /\ Len(moves) # 0
    BY <1>1
  <2> QED
    BY <2>1, <2>2
<1> QED
  BY <1>3, <1>4, <1>5

LEMMA MoveTells ==
    ASSUME TypeOK, LastTells, NEW ch, NEW who, MovesTo(ch, who)
    PROVE  /\ LastTells'
           /\ (moves' # <<>>) \/ UNCHANGED <<moves, clientAt>>
<1>1. CASE UNCHANGED <<clientAt, moves, lastMove>>
  BY <1>1 DEF LastTells
<1>2. CASE clientAt' = ch /\ moves' = Append(moves, ch) /\ ch \in Channel
  <2>1. moves \in Seq(Channel) /\ Len(moves) \in Nat
    BY DEF TypeOK
  <2>2. Len(moves') = Len(moves) + 1 /\ moves'[Len(moves) + 1] = ch
    BY <1>2, <2>1
  <2>3. moves' # <<>>
    BY <2>1, <2>2, SMT
  <2> QED
    BY <1>2, <2>2, <2>3 DEF LastTells
<1> QED
  BY <1>1, <1>2 DEF MovesTo

LEMMA RecordStep ==
    ASSUME "AUTO" \notin Modes, RecordInv, [Next]_vars, [Undisturbed]_vars, TuningInv'
    PROVE  RecordInv'
<1>0. TypeOK /\ Offline /\ LastTells
  BY DEF RecordInv, TuningInv, TypeInv
<1>1. ASSUME NEW t \in Thread, CallbackStep(t) PROVE RecordInv'
  <2>1. UNCHANGED <<mode, connected, clientAt, moves>>
    BY <1>1 DEF CallbackStep, Enter, Locate, Decide, Settle, world
  <2>2. /\ \E l \in {"idle", "enter", "locate", "decide", "settle"} : Goto(t, l)
        /\ pc[t] # "record"
    BY <1>1, ReturnIsGoto DEF CallbackStep, Enter, Locate, Decide, Settle
  <2>3. connected => current' = current \/ current' = clientAt
    BY <1>1 DEF CallbackStep, Enter, Locate, Decide, Settle
  <2>4. pc'["ts3"] # "bounce" /\ (pc'["ts3"] = "record" <=> pc["ts3"] = "record")
    BY <1>0, <2>2, NoMoveEvent DEF RecordInv
  <2>5. pc["ts3"] = "record" => target' = target
    BY <2>4 DEF Undisturbed, vars
  <2> QED
    BY <2>1, <2>3, <2>4, <2>5 DEF RecordInv, LastTells
<1>2. CASE Fed
  <2>1. UNCHANGED <<mode, connected, clientAt, moves, current, target>>
    BY <1>2 DEF Fed, SimFound, Heartbeat, SimDropped, FirstReport, WorkerReports, SimLost,
                unfed, world, tuning
  <2>2. UNCHANGED pc \/ \E d : Call("worker", d)
    BY <1>2 DEF Fed, SimFound, Heartbeat, SimDropped, FirstReport, WorkerReports, SimLost
  <2>3. pc'["ts3"] # "bounce" /\ (pc'["ts3"] = "record" <=> pc["ts3"] = "record")
    BY <1>0, <2>2, NoMoveEvent, ReturnIsGoto DEF RecordInv, Thread
  <2> QED
    BY <2>1, <2>3 DEF RecordInv, LastTells
<1>3. CASE ClientMove
  <2>1. ~ Held
    BY DEF Held, RecordInv
  <2>2. /\ UNCHANGED <<mode, connected, clientAt, moves, current>>
        /\ pc["ts3"] = "idle" /\ Goto("ts3", "accept")
    BY <1>3, <2>1 DEF ClientMove, world, tuning
  <2>3. pc'["ts3"] = "accept"
    BY <1>0, <2>2 DEF Goto, TypeOK, Thread
  <2> QED
    BY <2>2, <2>3 DEF RecordInv, LastTells
<1>4. CASE Bounce \/ Record
  <2>1. Record
    BY <1>4 DEF Bounce, RecordInv
  <2>2. /\ UNCHANGED <<mode, connected, clientAt, moves>>
        /\ pc["ts3"] = "record" /\ current' = target
    BY <2>1 DEF Record, world
  <2>3. pc'["ts3"] = "idle"
    BY <1>0, <2>1 DEF Record, Goto, TypeOK, Thread
  <2> QED
    BY <2>2, <2>3 DEF RecordInv, LastTells
<1>12. CASE Accept
  <2>1. moves # <<>>
    BY <1>0, <1>12 DEF Accept, TypeOK
  <2>2. /\ UNCHANGED <<mode, connected, clientAt, target>> /\ moves' = Tail(moves)
    BY <1>12 DEF Accept
  <2>3. LastTells' /\ (moves' = <<>> => Head(moves) = clientAt)
    BY <1>0, <2>1, <2>2, TellOne
  <2>4. IF Head(moves) = target THEN pc'["ts3"] = "record"
        ELSE pc'["ts3"] = "idle" /\ current' = Head(moves)
    BY <1>0, <1>12 DEF Accept, Goto, TypeOK, Thread
  <2> QED
    BY <2>2, <2>3, <2>4 DEF RecordInv
<1>5. ASSUME NEW m \in Modes, HandleModeChange(m) PROVE RecordInv'
  <2>1. /\ UNCHANGED <<connected, clientAt, moves, current>>
        /\ mode' # "AUTO" /\ Goto("ts3", "enter") /\ pc["ts3"] = "idle"
    BY <1>5, ReturnIsGoto DEF HandleModeChange, world
  <2> QED
    BY <1>0, <2>1, NoMoveEvent DEF RecordInv, LastTells, Thread
<1>6. CASE HandleFrequencyModeChange
  <2>1. /\ UNCHANGED <<mode, connected, clientAt, moves>>
        /\ connected => current' = clientAt
        /\ pc["ts3"] = "idle" /\ (UNCHANGED pc \/ Goto("ts3", "enter"))
    BY <1>6, ReturnIsGoto DEF HandleFrequencyModeChange, world
  <2> QED
    BY <1>0, <2>1, NoMoveEvent DEF RecordInv, LastTells, Thread
<1>7. ASSUME NEW ch \in Channel, Connect(ch) PROVE RecordInv'
  <2>1. /\ UNCHANGED mode /\ moves' = <<>> /\ clientAt' = ch /\ current' = ch
        /\ pc["ts3"] = "idle" /\ (UNCHANGED pc \/ Goto("ts3", "enter"))
    BY <1>0, <1>7, ReturnIsGoto DEF Connect, Offline
  <2> QED
    BY <1>0, <2>1, NoMoveEvent DEF RecordInv, LastTells, Thread
<1>8. CASE Disconnect
  BY <1>8 DEF Disconnect, RecordInv, LastTells
<1>9. CASE ChannelLoaded \/ ServerDenies
  <2>1. UNCHANGED <<mode, connected, clientAt, moves, current, target, pc>>
    BY <1>9 DEF ChannelLoaded, ServerDenies, world, tuning
  <2> QED
    BY <2>1 DEF RecordInv, LastTells
<1>10. CASE ServerMoves \/ \E ch \in Channel : UserMoves(ch)
  <2>1. /\ UNCHANGED <<mode, connected, current, target, pc>>
        /\ \E ch, who : MovesTo(ch, who)
    BY <1>10 DEF ServerMoves, UserMoves, tuning
  <2> QED
    BY <1>0, <2>1, MoveTells DEF RecordInv
<1>11. CASE UNCHANGED vars
  BY <1>11 DEF vars, RecordInv, LastTells
<1> QED
  BY <1>1, <1>2, <1>3, <1>4, <1>5, <1>6, <1>7, <1>8, <1>9, <1>10, <1>11, <1>12
  DEF Next, Fed

\* When the user never selects automatic mode, the record is right whenever every move
\* has been told and no handler runs, unless a callback on the worker's thread wrote the
\* target between the two reads of the move event (BFSGSimCom.cpp:1284-1286): no other
\* interleaving of the threads, the server and its refusals makes the record wrong.
THEOREM OnlyTwoReadsMislead ==
    ASSUME "AUTO" \notin Modes
    PROVE  Spec /\ [][Undisturbed]_vars => []RecordIsTrue
<1>1. Init /\ TuningInv => RecordInv
  BY SimComAssumption DEF Init, RecordInv, LastTells, Thread
<1>2. RecordInv /\ [Next]_vars /\ [Undisturbed]_vars /\ TuningInv' => RecordInv'
  BY RecordStep
<1>3. RecordInv => RecordIsTrue
  BY DEF RecordInv, RecordIsTrue, Quiet, Thread
<1> QED
  BY <1>1, <1>2, <1>3, TuningInvariant, PTL DEF Spec

=============================================================================
