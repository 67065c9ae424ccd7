------------------------------- MODULE SimFeed -------------------------------
(***************************************************************************)
(* What the tuning control may rely on of the simulator's worker thread:    *)
(* when the connection flag changes, and with which data callback runs.     *)
(* FSUIPCWrapper implements it, SimCom is built on it.                      *)
(*                                                                         *)
(* The frequency is that of the radio the pilot transmits on, 0 if there is *)
(* none or more than one.  The cause tells what made the worker report: the *)
(* first that applies of a changed radio ("com"), a changed position        *)
(* ("pos") and anything else ("other").  callback acts on a changed radio   *)
(* whatever else has changed, and on a changed position likewise            *)
(* (BFSGSimCom.cpp:302-311).  "none" tells of a connection gained or lost.  *)
(***************************************************************************)
CONSTANT Frequency    \* what callback may be told the radio is tuned to

VARIABLES
    simOn,    \* isConnected()
    fresh,    \* the connection is new: its first report is still to come
    owed,     \* a loss of the connection would be reported
    data      \* the data callback got last

feed == <<simOn, fresh, owed, data>>

Data(freq, cause) == [freq |-> freq, cause |-> cause]

NoData == Data(0, "none")     \* before the first report

SimData == [freq : Frequency \cup {0}, cause : {"com", "pos", "other", "none"}]

FeedInit ==
    /\ simOn \in BOOLEAN
    /\ fresh = simOn
    /\ owed = TRUE
    /\ data = NoData

\* The simulator's library has been opened.
Opened ==
    /\ ~ simOn
    /\ simOn' = TRUE
    /\ fresh' = TRUE
    /\ UNCHANGED <<owed, data>>

(***************************************************************************)
(* Something has changed, or the time has come, or the connection is new.   *)
(* Another frequency comes with the flag of a changed radio, except from    *)
(* another simulator: X-Plane means the opposite by the same switches.      *)
(***************************************************************************)
Report(d) ==
    /\ simOn
    /\ d.cause = "none" => fresh
    /\ d.freq # data.freq => d.cause = "com" \/ fresh
    /\ fresh' = FALSE
    /\ owed' = TRUE
    /\ data' = d
    /\ UNCHANGED simOn

\* The connection is lost: reported once, without a cause, with the radio as it was.
Lost(d) ==
    /\ simOn' = FALSE
    /\ fresh' = FALSE
    /\ owed
    /\ owed' = FALSE
    /\ d.freq # data.freq => data = NoData
    /\ d.cause = "none"
    /\ data' = d

\* The connection goes before anything was reported of it, or before that is told.
Dropped ==
    /\ simOn
    /\ simOn' = FALSE
    /\ fresh' = FALSE
    /\ UNCHANGED <<owed, data>>

FeedNext ==
    \/ Opened
    \/ \E d \in SimData : Report(d) \/ Lost(d)
    \/ Dropped

FeedSpec == FeedInit /\ [][FeedNext]_feed
=============================================================================
