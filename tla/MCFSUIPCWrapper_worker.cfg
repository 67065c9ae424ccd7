\* Two things that happen, stop() one of them; a regular report every third pass; the
\* list of requests fills up after a few failed attempts to connect.
CONSTANTS
    Frequency <- MCFrequency
    Place = {airfield, farOff}
    NaN = nan
    StartPanels <- MCStartPanels
    ReportEvery = 3
    MaxMsgs = 16
    MaxEvents = 2
SPECIFICATION FairSpec
CHECK_DEADLOCK FALSE
INVARIANTS
    TypeOK
    ReportedInTime
PROPERTIES
    ReportIsCurrent
    WorkerFeeds
    Settles
    StopEnds
