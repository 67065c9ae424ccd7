---------------------------- MODULE FSUIPCWrapper ----------------------------
(***************************************************************************)
(* The simulator's worker thread, FSUIPCWrapper.cpp: ten times a second it  *)
(* reads the radios and the position from the simulator and calls callback  *)
(* when something has changed.  stop() runs on TeamSpeak's thread.          *)
(*                                                                         *)
(* A pass of the worker is cut where it uses what others change, the        *)
(* library's connection and the simulator:                                  *)
(*   top      - while (cRun)                                                *)
(*   open     - checkConnection                                             *)
(*   read     - the fourteen calls of FSUIPC_Read                           *)
(*   send     - FSUIPC_Process                                              *)
(*   evaluate - compare with the last pass, call callback                   *)
(*   fail     - tell of the loss, close the library                         *)
(* What stop() does to the library falls between these steps, not into one. *)
(***************************************************************************)
EXTENDS RadioWords, FiniteSets, IPCuser

CONSTANTS Frequency,      \* the frequencies the radios are tuned to, in kHz
          Place,          \* places more than half a mile apart
          NaN,            \* an uninitialised position that compares with none
          StartPanels,    \* the cockpits the plugin may start with
          ReportEvery,    \* passes between two regular reports (100 in the code)
          MaxEvents       \* bound: things the pilot, the user or the simulator do

Radio == {"Com1", "Com2"}

\* FSX and its kin; X-Plane behind XPUIPC; Prepar3D 5.
Kind == {"plain", "xplane", "p3d5"}

\* The simulator: its radios' frequencies in use and on standby, the radios with
\* 8.33 kHz spacing, those the pilot transmits on, the wheels and the place.
Panel == [kind : Kind, act : [Radio -> Frequency], sby : [Radio -> Frequency],
          narrow : [Radio -> BOOLEAN], transmit : SUBSET Radio,
          ground : BOOLEAN, place : Place]

NoAnswer == [kind |-> "none"]

ASSUME WrapperAssumption ==
    /\ Frequency \subseteq 118000 .. 136999
    /\ NaN \notin Place
    /\ StartPanels \subseteq Panel
    /\ ReportEvery \in Nat \ {0}
    /\ MaxEvents \in Nat
    /\ MaxMsgs \in Nat /\ MaxMsgs >= 14

VARIABLES
    panel,        \* what the simulator would answer
    force,        \* *simComConfig: the spacing the user forces on the radios
    cRun,
    isConnected,  \* cFSUIPCConnected
    pc,           \* where the worker is
    mem,          \* what FSUIPC_Process stored, a Panel, until it is evaluated
    is833,        \* simCom1Is833, simCom2Is833
    isXPlane,     \* simIsXPlane
    cache,        \* the values of the last pass: cCom1Freq ... cWoW
    cPlace,       \* cLat, cLon
    here,         \* currentLat, currentLon
    counter,
    firstConnectedPass,
    firstDisconnectedPass,
    report,       \* the argument of the last callback
    quiet,        \* history: passes with an answer since a callback
    stopper,      \* where stop() is: "out", "asked", "closed" or "stopped"
    events        \* things done so far, bounded by MaxEvents

library == <<view, index>>
outside == <<sim, panel, force, events>>
readings == <<is833, isXPlane, cache, cPlace, here>>
passes  == <<counter, firstConnectedPass, firstDisconnectedPass>>
told    == <<report, quiet>>
stops   == <<cRun, stopper>>
vars == <<sim, view, index, panel, force, cRun, isConnected, pc, mem, is833, isXPlane,
          cache, cPlace, here, counter, firstConnectedPass, firstDisconnectedPass,
          report, quiet, stopper, events>>

-----------------------------------------------------------------------------
(***************************************************************************)
(* What the simulator's memory holds.  XPUIPC inverts the radio switches.   *)
(***************************************************************************)
Words25(p, r)  == <<BcdWord(p.act[r]), BcdWord(p.sby[r])>>
Words833(p, r) == <<HzWord(p.act[r]), HzWord(p.sby[r])>>
Switches(p)    == IF p.kind = "xplane" THEN Radio \ p.transmit ELSE p.transmit

\* workerThread, 101-102
Is833(p, r) == /\ \/ p.kind \in {"xplane", "p3d5"} \/ p.narrow[r] \/ force.blForce833
               /\ ~ force.blForce25

None == <<Unset, Unset>>

\* Slip: the caches of the other spacing are left as they are.
CachedKeepsOther(p) ==
    [w25 |-> [r \in Radio |-> IF Is833(p, r) THEN cache.w25[r] ELSE Words25(p, r)],
     w833 |-> [r \in Radio |-> IF Is833(p, r) THEN Words833(p, r) ELSE cache.w833[r]],
     narrow |-> p.narrow, switches |-> Switches(p), ground |-> p.ground]

\* The caches after a pass that read p: a radio's words are kept in its present
\* spacing only, "to force a refresh if the 833 configuration changes".
Cached(p) ==
    [w25 |-> [r \in Radio |-> IF Is833(p, r) THEN None ELSE Words25(p, r)],
     w833 |-> [r \in Radio |-> IF Is833(p, r) THEN Words833(p, r) ELSE None],
     narrow |-> p.narrow, switches |-> Switches(p), ground |-> p.ground]

\* blComChanged of that pass
ComChanged(p) ==
    \/ \E r \in Radio : IF Is833(p, r) THEN cache.w833[r] # Words833(p, r)
                                      ELSE cache.w25[r] # Words25(p, r)
    \/ cache.narrow # p.narrow
    \/ cache.switches # Switches(p)

\* blPosChange; nothing is further than half a mile from a place that is no number.
Moved(p) == cPlace # NaN /\ cPlace # p.place

-----------------------------------------------------------------------------
(***************************************************************************)
(* getSimComData, from the members as they are after the step.              *)
(***************************************************************************)
Khz(k833, c, r, i) == IF k833[r] THEN Khz833(c.w833[r][i]) ELSE Khz25(c.w25[r][i])

SimComData(k833, xplane, c, place, com, pos, other) ==
    [act |-> [r \in Radio |-> Khz(k833, c, r, 1)],
     sby |-> [r \in Radio |-> Khz(k833, c, r, 2)],
     k833 |-> k833,
     selected |-> IF xplane THEN Radio \ c.switches ELSE c.switches,
     ground |-> c.ground, place |-> place,
     com |-> com, pos |-> pos, other |-> other]

\* Before the first callback.
NoReport == [act |-> [r \in Radio |-> Unset], sby |-> [r \in Radio |-> Unset],
             k833 |-> [r \in Radio |-> FALSE], selected |-> {}, ground |-> FALSE,
             place |-> NaN, com |-> FALSE, pos |-> FALSE, other |-> FALSE]

-----------------------------------------------------------------------------
(***************************************************************************)
(* The plugin has just been started.  The constructor has tried to connect. *)
(* Nothing initialises the members: they hold junk, or by luck the values   *)
(* of the panel, or a position that is no number.                           *)
(***************************************************************************)
JunkCache == [w25 |-> [r \in Radio |-> <<Junk, Junk>>],
              w833 |-> [r \in Radio |-> <<Junk, Junk>>],
              narrow |-> [r \in Radio |-> FALSE], switches |-> {}, ground |-> FALSE]

LuckyCache(p) == [w25 |-> [r \in Radio |-> Words25(p, r)],
                  w833 |-> [r \in Radio |-> Words833(p, r)],
                  narrow |-> p.narrow, switches |-> Switches(p), ground |-> p.ground]

Init ==
    /\ sim \in {"absent", "deaf", "up"}
    /\ view = IF sim = "up" THEN "open" ELSE "closed"
    /\ index = IF sim = "deaf" THEN 4 ELSE 0      \* two constructors have tried
    /\ isConnected = (sim = "up")
    /\ panel \in StartPanels
    /\ force = [blForce833 |-> FALSE, blForce25 |-> FALSE]
    /\ cRun = TRUE /\ stopper = "out"
    /\ pc = "top"
    /\ mem = NoAnswer
    /\ is833 \in {[r \in Radio |-> b] : b \in BOOLEAN}
    /\ isXPlane \in BOOLEAN
    /\ cache \in {JunkCache, LuckyCache(panel)}
    /\ cPlace \in Place \cup {NaN}
    /\ here = NaN
    /\ counter = 0
    /\ firstConnectedPass = TRUE /\ firstDisconnectedPass = TRUE
    /\ report = NoReport /\ quiet = 0
    /\ events = 0

-----------------------------------------------------------------------------
Loop ==
    /\ pc = "top"
    /\ pc' = IF cRun THEN "open" ELSE "done"
    /\ UNCHANGED <<outside, library, stops, isConnected, mem, readings, passes, told>>

\* checkConnection: FSUIPC_ERR_OPEN is as good as success.
CheckConnection ==
    /\ pc = "open"
    /\ IF isConnected THEN UNCHANGED <<library, isConnected>>
       ELSE Open /\ isConnected' = (view' # "closed")
    /\ pc' = "read"
    /\ UNCHANGED <<outside, stops, mem, readings, passes, told>>

ReadOffsets ==
    /\ pc = "read"
    /\ Read(14)
    /\ isConnected' = CanRead(14)
    /\ pc' = "send"
    /\ UNCHANGED <<outside, stops, mem, readings, passes, told>>

SendRequests ==
    /\ pc = "send"
    /\ isConnected' = Answers
    /\ IF Answers THEN Processed /\ mem' = panel /\ pc' = "evaluate"
                  ELSE pc' = "fail" /\ UNCHANGED <<library, mem>>
    /\ UNCHANGED <<outside, stops, readings, passes, told>>

\* Slip: the regular report comes one pass late.
CountLate(moved) == IF moved THEN 1 ELSE IF counter + 1 > ReportEvery THEN 0 ELSE counter + 1

\* The counter after a pass; 0 when it makes the pass report.
Count(moved) ==
    IF (IF moved THEN 0 ELSE counter) + 1 >= ReportEvery THEN 0
    ELSE (IF moved THEN 0 ELSE counter) + 1

Evaluate ==
    /\ pc = "evaluate"
    /\ is833' = [r \in Radio |-> Is833(mem, r)]
    /\ isXPlane' = (mem.kind = "xplane")
    /\ cache' = Cached(mem)
    /\ here' = mem.place
    /\ cPlace' = IF Moved(mem) THEN mem.place ELSE cPlace
    /\ counter' = Count(Moved(mem))
    /\ LET com == ComChanged(mem)
           pos == Moved(mem)
           other == cache.ground # mem.ground \/ counter' = 0
       IN  IF com \/ pos \/ other \/ firstConnectedPass
           THEN /\ report' = SimComData(is833', isXPlane', cache', here', com, pos, other)
                /\ firstConnectedPass' = FALSE
                /\ quiet' = 0
           ELSE /\ quiet' = quiet + 1
                /\ UNCHANGED <<report, firstConnectedPass>>
    /\ firstDisconnectedPass' = TRUE
    /\ mem' = NoAnswer
    /\ pc' = "top"
    /\ UNCHANGED <<outside, library, stops, isConnected>>

\* Slip: the loss is reported on every pass without an answer.
FailEachPass ==
    /\ pc = "fail"
    /\ report' = SimComData(is833, isXPlane, cache, here, FALSE, FALSE, FALSE)
    /\ quiet' = 0
    /\ Close
    /\ isConnected' = FALSE
    /\ firstConnectedPass' = TRUE
    /\ pc' = "top"
    /\ UNCHANGED <<outside, stops, mem, readings, counter, firstDisconnectedPass>>

\* Slip: the library is not closed.
FailLeavesOpen ==
    /\ pc = "fail"
    /\ IF firstDisconnectedPass
       THEN /\ report' = SimComData(is833, isXPlane, cache, here, FALSE, FALSE, FALSE)
            /\ quiet' = 0
       ELSE UNCHANGED told
    /\ firstDisconnectedPass' = FALSE
    /\ isConnected' = FALSE
    /\ firstConnectedPass' = TRUE
    /\ pc' = "top"
    /\ UNCHANGED <<outside, library, stops, mem, readings, counter>>

Fail ==
    /\ pc = "fail"
    /\ IF firstDisconnectedPass
       THEN /\ report' = SimComData(is833, isXPlane, cache, here, FALSE, FALSE, FALSE)
            /\ quiet' = 0
       ELSE UNCHANGED told
    /\ firstDisconnectedPass' = FALSE
    /\ Close
    /\ isConnected' = FALSE
    /\ firstConnectedPass' = TRUE
    /\ pc' = "top"
    /\ UNCHANGED <<outside, stops, mem, readings, counter>>

Worker == Loop \/ CheckConnection \/ ReadOffsets \/ SendRequests \/ Evaluate \/ Fail

-----------------------------------------------------------------------------
Happens == /\ events < MaxEvents
           /\ events' = events + 1

(***************************************************************************)
(* stop(): ask the worker to end, close the library under it, wait.         *)
(***************************************************************************)
unstopped == <<isConnected, pc, mem, readings, passes, told>>

\* Slip: the worker is not asked to end.
AskNothing ==
    /\ stopper = "out"
    /\ Happens
    /\ stopper' = "asked"
    /\ UNCHANGED <<cRun, sim, panel, force, library, unstopped>>

Ask ==
    /\ stopper = "out"
    /\ Happens
    /\ cRun' = FALSE
    /\ stopper' = "asked"
    /\ UNCHANGED <<sim, panel, force, library, unstopped>>

CloseUnder ==
    /\ stopper = "asked"
    /\ Close
    /\ stopper' = "closed"
    /\ UNCHANGED <<cRun, outside, unstopped>>

Join ==
    /\ stopper = "closed" /\ pc = "done"
    /\ stopper' = "stopped"
    /\ UNCHANGED <<cRun, outside, library, unstopped>>

-----------------------------------------------------------------------------
(***************************************************************************)
(* The simulator starts, hangs while it loads, answers again and ends; the  *)
(* pilot works and flies; the user forces a spacing, one switch at a time   *)
(* (handle833ModeChange).                                                   *)
(***************************************************************************)
inside == <<stops, isConnected, pc, mem, readings, passes, told>>

SimStarts(kind) ==
    /\ sim = "absent"
    /\ Happens
    /\ sim' \in {"deaf", "up"}
    /\ panel' = [panel EXCEPT !.kind = kind]
    /\ UNCHANGED <<force, library, inside>>

SimHangs ==
    /\ sim = "up"
    /\ Happens
    /\ sim' = "deaf"
    /\ UNCHANGED <<panel, force, library, inside>>

SimRecovers ==
    /\ sim = "deaf"
    /\ Happens
    /\ sim' = "up"
    /\ UNCHANGED <<panel, force, library, inside>>

SimEnds ==
    /\ sim # "absent"
    /\ Happens
    /\ sim' = "absent"
    /\ view' = IF view = "open" THEN "stale" ELSE view
    /\ UNCHANGED <<index, panel, force, inside>>

PilotActs ==
    /\ sim # "absent"
    /\ Happens
    /\ \E r \in Radio, f \in Frequency, t \in SUBSET Radio, q \in Place :
         panel' \in {[panel EXCEPT !.act[r] = f], [panel EXCEPT !.sby[r] = f],
                     [panel EXCEPT !.narrow[r] = ~ @], [panel EXCEPT !.transmit = t],
                     [panel EXCEPT !.ground = ~ @], [panel EXCEPT !.place = q]}
                   \ {panel}
    /\ UNCHANGED <<sim, force, library, inside>>

Handle833ModeChange ==
    /\ Happens
    /\ \E switch \in {"blForce833", "blForce25"} :
         force' = [force EXCEPT ![switch] = ~ @]
    /\ UNCHANGED <<sim, panel, library, inside>>

-----------------------------------------------------------------------------
Next ==
    \/ Worker
    \/ Ask \/ CloseUnder \/ Join
    \/ \E kind \in Kind : SimStarts(kind)
    \/ SimHangs \/ SimRecovers \/ SimEnds
    \/ PilotActs
    \/ Handle833ModeChange

Spec == Init /\ [][Next]_vars

\* Both threads run; when the simulator starts, hangs or ends is its affair.
FairSpec == Spec /\ WF_vars(Worker) /\ WF_vars(CloseUnder) /\ WF_vars(Join)

-----------------------------------------------------------------------------
Word25  == {Unset, Junk} \cup {BcdWord(f) : f \in Frequency}
Word833 == {Unset, Junk} \cup {HzWord(f) : f \in Frequency}

Heard == {Unset, Junk} \cup Frequency \cup {Khz25(BcdWord(f)) : f \in Frequency}

Caches == [w25 : [Radio -> Word25 \X Word25], w833 : [Radio -> Word833 \X Word833],
           narrow : [Radio -> BOOLEAN], switches : SUBSET Radio, ground : BOOLEAN]

Reports == [act : [Radio -> Heard], sby : [Radio -> Heard], k833 : [Radio -> BOOLEAN],
            selected : SUBSET Radio, ground : BOOLEAN, place : Place \cup {NaN},
            com : BOOLEAN, pos : BOOLEAN, other : BOOLEAN]

TypeOK ==
    /\ sim \in {"absent", "deaf", "up"} /\ view \in {"closed", "open", "stale"}
    /\ index \in 0 .. MaxMsgs
    /\ panel \in Panel /\ mem \in Panel \cup {NoAnswer}
    /\ pc = "evaluate" <=> mem # NoAnswer
    /\ force \in [blForce833 : BOOLEAN, blForce25 : BOOLEAN]
    /\ cRun \in BOOLEAN /\ isConnected \in BOOLEAN
    /\ pc \in {"top", "open", "read", "send", "evaluate", "fail", "done"}
    /\ is833 \in [Radio -> BOOLEAN] /\ isXPlane \in BOOLEAN
    /\ cache \in Caches
    /\ cPlace \in Place \cup {NaN} /\ here \in Place \cup {NaN}
    /\ counter \in 0 .. ReportEvery - 1
    /\ firstConnectedPass \in BOOLEAN /\ firstDisconnectedPass \in BOOLEAN
    /\ report \in Reports
    /\ quiet \in Nat
    /\ stopper \in {"out", "asked", "closed", "stopped"}
    /\ events \in 0 .. MaxEvents

(***************************************************************************)
(* The report tells what the pilot sees of the panel: the radios he         *)
(* transmits on, their spacing and their frequencies.  Without the 8.33 kHz *)
(* spacing only the frequencies of the 25 kHz grid can be told.             *)
(***************************************************************************)
Tells(d, p) ==
    /\ d.selected = p.transmit
    /\ d.ground = p.ground
    /\ \A r \in Radio :
         /\ d.k833[r] = Is833(p, r)
         /\ p.act[r] % 25 = 0 \/ d.k833[r] => d.act[r] = p.act[r]
         /\ p.sby[r] % 25 = 0 \/ d.k833[r] => d.sby[r] = p.sby[r]

(***************************************************************************)
(* Whatever was read before, junk, another spacing, another simulator: after*)
(* a pass that got an answer the plugin has been told that answer, although *)
(* only changes are told (FSUIPCWrapper.cpp:104-224).                       *)
(***************************************************************************)
ReportIsCurrent ==
    [][ (pc = "evaluate" /\ pc' = "top")
          => /\ Tells(report', mem)
             /\ cPlace # NaN => report'.place = mem.place ]_vars

\* FSUIPCWrapper.cpp:209: callback is gone through at least every ten seconds,
\* though a change of position starts the count anew.
ReportedInTime == quiet < ReportEvery

(***************************************************************************)
(* The worker is the feed the tuning control is built on: the connection    *)
(* flag and the reports change as SimFeed says, with the frequency callback *)
(* would look up (BFSGSimCom.cpp:246-259).                                  *)
(***************************************************************************)
TunedTo(d) ==
    LET r == CHOOSE r \in Radio : d.selected = {r}
    IN  IF Cardinality(d.selected) # 1 \/ d.act[r] \in {Unset, Junk} THEN 0 ELSE d.act[r]

Feed == INSTANCE SimFeed WITH
          Frequency <- Heard,
          simOn <- isConnected,
          fresh <- isConnected /\ firstConnectedPass,
          owed  <- firstDisconnectedPass,
          data  <- [freq |-> TunedTo(report),
                    cause |-> IF report.com THEN "com" ELSE IF report.pos THEN "pos"
                              ELSE IF report.other THEN "other" ELSE "none"]

WorkerFeeds == Feed!FeedSpec

(***************************************************************************)
(* Once simulator, pilot and user have calmed down and the plugin runs, it  *)
(* shows what the simulator shows, and shows it as lost when it is: however *)
(* often the simulator came and went before.  The library's list of         *)
(* requests must not have filled up, it is never emptied then.              *)
(***************************************************************************)
Settles ==
    <>[] (cRun => IF sim # "up" THEN ~ isConnected
                  ELSE (HasRoom(2) => isConnected /\ Tells(report, panel)))

\* stop() comes back, whatever the worker was at.
StopEnds == stopper = "asked" ~> stopper = "stopped"
=============================================================================
