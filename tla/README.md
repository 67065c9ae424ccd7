# BFSGSimCom in TLA+

BFSGSimCom is a TeamSpeak 3 client plugin: it reads the radios of a flight
simulator and moves the client to the channel of the station that is tuned.
This directory holds TLA+ modules of its logic, TLC configurations that check
them on small instances, and theorems proved with TLAPS.  Line numbers are those
of `src/BFSGSimCom/` unless another directory is named.

## 1. The system

| Component | State | Operations | Talks to |
|---|---|---|---|
| Channel database, `TS3Channels.cpp` | three SQLite tables: `channels`, `closure` (ancestor, descendant, depth), `channelFrequency` | `addOrUpdateChannel`, `deleteChannel`, `deleteAllChannels`, `getChannelID`, `channelIsUnderRoot`, `getChannelList` | called by the handlers, the worker (lookups) and the dialog |
| Station facts, `TS3Channels.cpp:118-436` | none | frequencies, ident, position and range from a channel's texts | asks the ICAO data |
| ICAO data, `ICAOData.cpp` | a read-only database | `getStationData` | |
| Channel mirror, `BFSGSimCom.cpp:435-539, 1079-1216` | `channelUpdates`, `initialising`, `lastFreqMode` | event handlers for channels created, deleted, moved, edited, described; connect, disconnect, frequency mode | TeamSpeak client library; channel database |
| Tuning control, `BFSGSimCom.cpp:118-382, 1059-1071, 1170-1295` | `currentChannel`, `targetChannel`, `simComData`, `blConnectedToTeamspeak` | `callback`, `onClientMoveEvent`, `handleModeChange`, connection handlers | database, settings, client library |
| Simulator worker, `FSUIPCWrapper.cpp` | cached radio words, position, counter, first-pass flags, connection flag | a pass ten times a second; `start`, `stop` | the IPC client; calls `callback` |
| Simulator IPC client, `FSUIPCLibrary/IPCuser.c` | the shared view, the list of requests | `FSUIPC_Open`, `Close`, `Read`, `Process` | the simulator |
| Frequency conversion, `FSUIPCWrapper.cpp:255-316` | none | BCD words and Hz to kHz | |
| Configuration dialog, `config.cpp` | widgets, saved settings, `iRoot`, `iUntuned`, two channel trees | `setMode`, `saveSettings`, `accept`, `reject`, `newRoot`, `newUntuned` | database (listing), tuning control, worker |
| Plugin lifecycle, `BFSGSimCom.cpp:546-661, 961-1021, 1325-1416` | plugin id, menus | init, shutdown, configure, menu, hotkey | all |
| Information display, `BFSGSimCom.cpp:703-902` | none | formats the state | |

Two threads run the plugin's code.  TeamSpeak calls the event handlers, and the
dialog's, on one thread; the dialog runs an event loop of its own, so hotkeys
and channel events are handled while it is open.  The worker calls `callback`
on its own thread.  They share `currentChannel`, `targetChannel`, `simComData`,
the mode, the forced radio spacing and the connection flag, and no lock is
taken anywhere.

What is hard to test:

- the closure table under long sequences of loads, moves and deletions;
- a shared target read twice in one handler, and a setting saved before the handler that acts
  on it runs;
- answers to description requests, which carry no request identity and may
  belong to an earlier edit, another frequency mode or the user's own request;
- channels deleted or connections lost while an answer is awaited;
- lookups on a database that has only been half loaded;
- `callback` on two threads, and against the event that tells of a move which
  the client library shows already;
- requests the server turns down, with nobody told;
- a worker that tells changes only, with caches that start uninitialised, two
  spacings per radio, and simulators that hang, end and are replaced by another;
- `stop()` closing the IPC client while the worker uses it;
- settings kept in four places (file, members, widgets, and what has been made
  of them), saved by hotkeys while the dialog is half filled in;
- channel trees of the dialog filled before channels went or moved.

What makes each part correct: the database implements a forest of parent links
and its lookup finds the nearest (or closest) station of it; the mirror holds
nothing the server does not have, with the present texts; the worker tells what
the pilot sees, in time; automatic mode ends up in the station tuned; disabled
mode leaves the client alone; a mode that moves the client comes to know where it is;
with the dialog closed what is set is in force and saved.

## 2. Modules

| Module | Models | About |
|---|---|---|
| `ChannelDb` | `TS3Channels` tables and statements | Operators from the value of the tables to the next value, one per SQL statement or method; the integrity conditions `DbInv`. |
| `TS3Channels` | the `TS3Channels` object | One variable `db`; any sequence of the class's calls. |
| `ChannelForest` | abstract specification | A forest of parent links: forget, remove with the branch, load alone; what "nearest station" means. |
| `ChannelList` | `getChannelList` | The chain of siblings, the path and the order of the dialog's list. |
| `StationFacts` | parsing, without the regular expressions | A text is what they find in it. |
| `ChannelMirror` | the channel handlers | The server's tree, the requests under way, the database. Uses `TS3Channels` by `INSTANCE`. |
| `RadioWords` | `getSimComData`'s arithmetic | BCD digits, the fifth digit of the 25 kHz raster, Hz. |
| `IPCuser` | the IPC client | Whether it is open, and how many requests it has counted. |
| `FSUIPCWrapper` | the worker thread and `stop()` | Extends the two above. |
| `SimFeed` | abstract specification of the worker | When the connection flag changes and with which data `callback` runs. |
| `SimCom` | the tuning control | Both threads on `SimFeed`'s worker, the client library and the server. |
| `Config` | the dialog, the settings, their handlers | File, members, widgets, what is in force; the two trees. |
| `MC...` | values for TLC | |
| `...Proofs` | proofs | Section 5. |

How they compose:

- `TS3Channels` implements `ChannelForest` (`ImplementsForest`; refinement
  mapping `linkBar`: the link of a channel is its closure row of depth one).
- `ChannelMirror` implements `TS3Channels` (`CallsTables`).
- `FSUIPCWrapper` implements `SimFeed` (`WorkerFeeds`; the loss is owed while
  `firstDisconnectedPass` holds), and `SimCom` takes its worker actions from
  `SimFeed`.  So what `SimCom` assumes of the worker is shown of the worker.

### How state and actions correspond to the code

*ChannelDb.*  `db.channels`, `db.closure` and `db.channelFrequency` are the
tables.  `DeleteClosure` is the statement `aDeleteClosure` (592-610) with its
two selects, `ParentRows` the one at 318-324; `InsertChannel` is the transaction of
440-498, which a duplicate key rolls back; `AddOrUpdateChannel` is the delete at
344 followed by it.  `GetChannelID` returns the set of answers SQLite may give,
since rows that tie under the `order by` may come in any order.  Foreign keys
are declared but never switched on, so they constrain nothing.

*ChannelList.*  No statement but the list's own reads the `ordering` column, so it
is an argument of `GetChannelList` and not a part of the tables.  `SortRows` is the
recursive `sort`, `TreeRows` the recursive `tree`, `PathBefore` the order of the
padded text and `InPathOrder` the `order by`.

*ChannelMirror.*  One action is one notification with its whole handler.
`server` is the tree the client library shows, with the description it holds
(`known`) next to the server's own (`desc`); `replies` are the requests under way.
`military` is `cfg->getFrequencyMode()`, in which `loadChannel` loads (456).  A hotkey
pressed while the dialog is open changes it (`SaveSettings`, `config.cpp:286-294`);
`FrequencyModeChange` is `handleFrequencyModeChange`, which compares with `lastFreqMode`
(1084), the mode of its last run.  `strayed` records, for `FrequenciesFresh` alone, that a channel has
been loaded while the two differed.

*FSUIPCWrapper.*  A pass of the worker is cut where it uses what others change:
`Loop` (`while (cRun)`), `CheckConnection`, `ReadOffsets` (the fourteen
`FSUIPC_Read`), `SendRequests` (`FSUIPC_Process`), then `Evaluate` (101-228) or
`Fail` (229-246).  `cache` holds `cCom1Freq` to `cWoW`, `cPlace` is `cLat` and
`cLon`, which follow by more than half a mile only; `here` is `currentLat` and
`currentLon`.  `stop()` is `Ask`, `CloseUnder` and `Join`.  `sim` and `panel` are the
simulator: absent, deaf (it loads, its window does not answer) or up.

*SimCom.*  `callback` is cut where it reads or writes shared state: `Enter`,
`Locate`, `Decide`, `Settle`; `onClientMoveEvent` into `ClientMove` (is the client held?),
`Bounce` (the way back), `Accept` (the comparison at 1284) and `Record`, which reads the
target once more (1270, 1286).  A step reads what it reads at one moment: the three comparisons
at 1241-1243 are one read, the rows of a lookup another.  `pc[t]` says where thread `t` is, `arg[t]` and `local[t]` are its
locals.  `requests` are the calls of `requestClientMove` under way; `moves` are
moves the library shows but whose event has not been handled.  `lastMove` records
why the client is where it is, for the properties alone.

*Config.*  `saved` is the ini file, `fields`, `root` and `untuned` the members,
`widgets` what the buttons show, and `menu`, `spacing` and `lastFreqMode` what has
been made of them.  In which mode a channel has been loaded is not told here but in
`ChannelMirror`.  `tree` is the channels listed, each with the one above; `ListChanges` turns it
into any other tree, for channels come, go and move and another server uses the same
ids.  `filled` records, for `UntunedUnderRoot` alone, the part of it the second tree was last filled
with.  `Start` is the constructor, `ts3plugin_init` and
`ts3plugin_initMenus`; `Exec` opens the dialog; `Accept` and `Reject` close it with all the
handlers that follow `exec()`; `ModeCommand` is a hotkey or the menu with
`handleModeChange`; `InfoDetailed` the other command that saves.  `Select` is a
selection in the first tree with its signals: `newRoot` fills the second, which
tells `newUntuned`.

The definitions commented as *Slip* are plausible mistakes in the
definition that follows; no specification uses them.  Each shows, put in the place
of the definition, that a property notices.

## 3. What the runs check

Properties that hold:

| Run | Instance | Shows |
|---|---|---|
| `tables` | 4 channels: towers, a wide station and an area, two places, 4 positions of the aircraft; symmetric | The tables stay consistent (`TablesConsistent`), every load takes effect (`LoadTakesEffect`), the lookup finds the nearest station (`LookupIsNearest`) or one that is closest and in range (`LookupIsClosest`), the list shows the tree (`ListShowsTree`), the class implements the forest (`ImplementsForest`). |
| `structure` | 3 channels, 2 descriptions, military radios, 3 requests under way; symmetric | `NoGhostChannels`, `ClosureIsTrue`, `TopLevelLoaded`, `FrequenciesFresh` |
| `answers` | 2 channels, 2 names, both frequency modes and a hotkey that saves one while the dialog is open, 2 requests, fair | `FrequenciesFresh`, `CallsTables`, `AwaitedIsLoaded` |
| `worker` | 2 radios, 2 frequencies (one of the 8.33 kHz grid only), 2 places, 3 kinds of simulator, 2 events, fair | `ReportedInTime`, `ReportIsCurrent`, `WorkerFeeds`, `Settles`, `StopEnds` |
| `locksin` | all three modes, 1 event, 1 request turned down, fair | `LocksIn`, `RecordComesRight`, `HandsOff` |
| `settings` | 2 channels in any tree, 2 spacings, both frequency modes; symmetric | `InForce`, `UntunedUnderRoot`, `NothingUnsaved` |

`structure`, `worker`, `locksin` and `settings` check their module's `TypeOK` too.
Where symmetry is used nothing tells the channels apart; no run with a liveness
property uses it.

Statements of the repository that do not hold, each with the shortest run TLC
finds (`findings` in `PROJECT.json` quotes the lines):

| Run | Statement | What happens |
|---|---|---|
| `keepstrack` | changes of channels are kept track of | editing or moving a channel loses its subchannels (`TS3Channels.cpp:344`) |
| `initialload` | the load is complete when all updates have come | never, if a channel or the connection goes first (1161) |
| `tracks` | a move that is not held back is accepted and recorded | the move event compares with the target and then records the target it reads again (1284, 1286); a decision not to move has stored its code there in between (363), and the client is recorded nowhere |
| `manual` | a position change respects a manual move | it never does (210) |
| `undone` | moves back only if not where it should be | the plugin undoes its own move when the event overtakes the store at 357 |
| `retains` | settings are kept between sessions | the first load on another server selects Root in the tree, which counts as the user's choice, and the next hotkey saves it (1164, `config.cpp:384`) |

The models also show, without a run of their own:

- The description of a channel created during the connection is never asked for
  (`BFSGSimCom.cpp:1127`), so its frequencies count only after an edit;
  `FrequenciesFresh` allows the empty description for this reason.
- A channel loaded before its parent is stored under it but not linked to it: the
  list shows it once the parent has come, the lookups do not find it.  The foreign key of the
  schema is never enforced.
- A sibling that is not loaded cuts the chain of `getChannelList`: the channels behind
  it are not listed though they can be tuned.  `ListShowsTree` asks for complete tables.
- README:86 says OPS stations are recognised.  The ident expression has no OPS
  (`TS3Channels.cpp:228`), so the branch at 389 is never taken.
- `=` for `==` at line 363: a decision not to move overwrites the target (`Decide`), which is
  how run `tracks` comes to record a code that is no channel.
- The frequency mode switched there and back: with the other mode clicked in the open dialog, a
  hotkey saves it and channels are loaded in it; clicked back and confirmed, the mode has not
  changed since the last time (1084), and they are not loaded again.  `FrequenciesFresh` tells
  these channels from the others (`strayed`).
- A wrong record (run `tracks`) is not for good in manual and automatic mode: the ten-second
  report asks the library (`RecordComesRight`).  In disabled mode it stays until the next
  move, connection or change of mode.
- Nothing looks at the untuned channel again when a channel is moved on the server (1135-1138), or the
  ids belong to another server, until the trees are filled anew: it may then be outside the root channel's
  branch.  `UntunedUnderRoot` holds until a channel that was on offer is moved (`Unmoved`).
- After connecting, the first lookup runs before the channels are loaded (1213);
  `LocksIn` says the later reports repair it.
- The move event reads the target several times (1241-1254) while the worker
  writes it; it can ask for a move to a not-found code, which the server refuses.
- In automatic mode a user's move stands for a while when the worker asks where the
  client is before the event is handled (208); `LocksIn` says not for good.
- README:160-162 speaks of an option to restart in "Off" mode, dormant.  The option there is restarts in manual
  mode, also when the last session ended in disabled mode (`config.cpp:216`, `StartMode`).
- Cancel does not restore the widgets, and closing the dialog saves them, so what was clicked
  is kept (`Reject`); Root as the untuned channel, which OK refuses, is saved
  by Cancel or a hotkey.
- The forced spacing of a saved setting is not in force after a start until the dialog has
  been open (`BFSGSimCom.cpp:53`; `opened` in `InForce`).
- Clicking a channel deleted since the tree was filled ends the client
  (`config.cpp:96`, `NewRoot`).
- Failed attempts to connect to a simulator that hangs fill the IPC client's list of
  requests, which only a success empties (`FSUIPCLibrary/IPCuser.c:294`): after about
  a thousand of them no simulator is found any more.  `Settles` speaks of the time before.
- With a position that is no number before the first pass, the position of later
  reports is right, but no change of position is ever noticed (`Moved`).

### Bounds

- `MaxReplies` caps the description requests under way.  Three, in `structure`, are enough for two answers
  of one channel with another's in between, and for one answer of each channel; two, in `answers`, for two edits that
  share an answer.
- `FrequencyModes` holds both modes in `answers`.  `structure` has military radios only, which
  read every frequency: what is checked there of channels and depths does not depend on the mode.
- `MaxEvents` caps the things pilot, user and network do.  In `SimCom` these are retuning,
  flying, landing, moving, changing a mode, losing simulator or connection; connecting,
  finding a simulator, loading and the ten-second report are not counted.  In `locksin` one event with one denial comes on top of connecting,
  loading and finding the simulator, in every order.  In `FSUIPCWrapper` they are the simulator's
  starting, hanging and ending, the pilot's acts, the spacing and `stop()`; two of them
  meet any of the states the plugin may start in: simulator absent, deaf or up, with any spacing
  and kind in the members, caches that are junk or happen to match, and any first position.
- `MaxDenials` caps the requests turned down.
- `ReportEvery = 3` passes stand for the hundred of the code, `MaxMsgs = 16` for the library's
  list: one full pass of fourteen reads, or a few failed attempts to open.  The theorems
  hold for every value.
- `Combinations` in `Config` lets one setting besides the mode differ from the defaults, and two
  from what is saved, while the dialog is open.  Two channels have every tree in which one is below the other, beside
  it, or gone.
- Four channels in `tables` give every shape of tree with a branch of two below a moved
  channel; `MCFacts` and `MCDistances` put the aircraft near, between and out of
  range of two stations, one of which is on both frequencies.

### Fairness

`ChannelMirror`: the server answers every request of a connection that lasts
with the description or an error (weak fairness of `UpdateChannel \/ ServerError`).
`FSUIPCWrapper`: the worker's thread runs, and `stop()` goes on
once it has been called (weak fairness of `Worker`, `CloseUnder`, `Join`); when a simulator
starts, hangs or ends is its own affair.  `SimCom`: both threads keep running, the
worker reports every ten seconds (`FSUIPCWrapper.cpp:209-214`; `ReportedInTime`
shows it), the server answers and the descriptions come.  Nothing is assumed of
the pilot, the user, of connecting or of the simulator appearing; `LocksIn`
speaks of the time when both are there.

`Prompt = TRUE` assumes that a move request is not answered before the
`callback` that made it has ended (a server's round trip against a few
microseconds).  `LocksIn` needs it; run `undone` shows what happens without it.

## 4. Assumptions

- The TeamSpeak library applies the server's notifications in order and calls
  the handlers one at a time; answers come in the order of the requests; a request for
  a deleted channel is answered with an error (`ServerError`) that changes nothing;
  a lost connection loses its answers.
- The model lets channel ids be used again, which a server does not: more behaviours.
- The topic is folded into the name: both come from the library at once.
- The library shows a client's new channel before the event that tells of it is handled.
- In `SimCom` the ten-second report does not overlap a move under way.
- The connection handlers of `SimCom` are atomic, and so is each piece of
  `callback` between two cuts. A `StationInfo` is its channel id, on which its comparison operators work.
- In `SimCom` the tree does not change (`SimComAssumption`: parents before their
  children), and range is left out (`LookupIsClosest` has it).
- `stop()` closes the IPC client between two of the worker's steps and not inside a call
  of the library; a pass reads the forced spacing once.
- The places of `FSUIPCWrapper` are more than half a mile apart.
- `TablesAssumption`: the channels are finitely many (their ids are numbers of 64 bits), and
  there is a distance, a number, from every position texts may name or the Root row has.
  The proofs about depths and lists need the first.
- In `Config` the channels listed form a tree whose channels are each below a listed one (`Trees`), any other
  after any step.  Which siblings a server tells of when one
  moves, and so how long a chain stays cut, is not in the repository.

## 5. What is proved

Each theorem holds for every value of the module's constants that its named
assumptions admit.

| Module | Theorem | Property |
|---|---|---|
| `TS3ChannelsProofs` | `TablesStayConsistent`, `EveryLoadTakesEffect` | `TablesConsistent`, `LoadTakesEffect` |
| `TS3ChannelsProofs` | `TablesImplementForest` | `ImplementsForest` (refinement) |
| `TS3LookupProofs` | `LookupsFindNearest`, `LookupsFindClosest` | `LookupIsNearest`, `LookupIsClosest` |
| `ChannelListProofs` | `ListsShowTree` | `ListShowsTree` |
| `ChannelMirrorProofs` | `MirrorTypes`, `NoGhosts`, `MirrorCallsTables` | `TypeOK`, `NoGhostChannels`, `CallsTables` (refinement) |
| `ChannelMirrorProofs` | `DepthsAreTrue`, `TopLevelStaysLoaded`, `FrequenciesStayFresh` | `ClosureIsTrue`, `TopLevelLoaded`, `FrequenciesFresh` |
| `FSUIPCWrapperProofs` | `WorkerTypes`, `ReportsInTime`, `ReportsAreCurrent`, `WorkerImplementsFeed` | `TypeOK`, `ReportedInTime`, `ReportIsCurrent`, `WorkerFeeds` (refinement) |
| `FSUIPCWrapperProofs` | `RasterComesBack` | the fifth digit, for the whole civil band |
| `SimComProofs` | `TuningTypes`, `DisabledKeepsOff`, `OnlyTwoReadsMislead` | `TypeOK`, `HandsOff`, `RecordIsTrue` but for the two reads |
| `ConfigProofs` | `SettingsTypes`, `SettingsInForce`, `UntunedStaysUnderRoot`, `SettingsSaved` | `TypeOK`, `InForce`, `UntunedUnderRoot`, `NothingUnsaved` |

`ChannelDbProofs` holds the lemmas about the statements that these rest on.

**The tables.**  `DbInv` is inductive as it stands, because it holds the
strengthening: that closure rows are what deleting and inserting need them to
be.  `Composes` (two paths make one) and `OnePath` (the ancestors of a channel
lie on one path) are what makes `aDeleteClosure` remove exactly the rows of the
branch, and `LinkedUp` (what is below anything is linked to its parent) what keeps the
rows of a channel without gaps: lemma `DeletedRows` shows that the rows left are those that end outside
the branch.  From it `DeleteKeepsTables` follows part by part; `InsertedRows`
and `InsertKeepsTables` do the same for the insert, `AddKeepsTables` composes the
two.  The delete before the insert is needed: without it the insert meets the
channel's old rows.  `EveryLoadTakesEffect` says more: by `LoadedTables` the
insert after a delete is never rolled back, by `LoadedRows` the frequencies are
the ones given (frequency rows are pairs, `TablesAssumption`).

**The forest.**  The abstract specification counts the levels above a channel with a
function defined by recursion over the tree.  No induction theorem can be used here, so the
induction is done by hand: a non-empty set of naturals has a least element because
the interval below a number is finite (`LeastNatural`), and what holds at the bottom of an
interval and climbs by one holds to its top (`Climb`).  `SameAncestor` and `SameDepth`
say that the rows of a channel name one ancestor at each level and one level for each
ancestor, `NoGaps` that no level is left out, and `DepthBound` that there are fewer levels
than loaded channels, since no channel comes twice on the way up.  With them the
function's value at each level is the ancestor of the row of that depth (`UpIsAncestor`),
being below in the forest is being in the branch (`BelowIsBranch`), and the two
statements are the forest's two operations (`DeleteImplementsRemove`,
`InsertImplementsWith`).

**The lookups.**  The join pairs every ancestor of the client's channel with every row below
it, so it has a row for each common ancestor and not for the closest only.
`ShortestWay` shows that the others are longer by as many levels up as down, and
`StationsAreWays` that the join is, for each station in reach, its shortest way and
longer ones; so ordering the rows by levels up, then down, finds what the forest's distance
finds.  `StoredData` is the invariant that what is stored are numbers and pairs that the texts told.
That the range query always answers when a station is in reach needs that some station is
least in a lexicographic order of three numbers (`SomeAreBest`).

**The list.**  An order of the server gives every channel a place among its siblings
that no sibling shares: one more than the sibling's it comes after
(`SiblingPlaces`, with `PlacesOf`).  The recursion `sort` counts exactly these
places (`SortRowsAre`), and `tree` collects, for each channel of the branch, the places
on the way down to it (`PathTo`; `TreeRowsAre`), both by `Climb` over the levels.
Paths are totally ordered (`LessTransitive`, `LessTotal`), so numbering each row by the rows before it lists
every row once (`RowsInOrder`).  Two ways that agree up to a level go through the same
channel there (`SameWaySameChannel`), by climbing down from the root: equal
parents and equal places make equal channels.  So a way that starts with another is the way to a channel
below (`WayBelow`), what lies between the two is below the upper as well or at least
deeper (`BetweenIsDeeper`), and behind a branch something not deeper follows
(`BelowOrCut`).

**The mirror.**  `NoGhostChannels` is not inductive: deleting a channel is only
known to take the whole branch, and to leave nothing of the channel, when the
tables are consistent, and a load is only known to take effect when the parent
is not the channel itself.  `MirrorInv` adds `DbInv(db)` and `NoSelfParent`, with
one lemma per handler; `MirrorCallsTables` follows by the same invariant, so the theorems
about the class hold of the plugin's database.  For the other three
`LoadsInv` adds that every channel is `Awaited` (an answer is under way that the
plugin waits for) or `Settled` (what is loaded of it is of the present texts, in one of
`LoadedModes`), and the
depths come from `LinkedUp`.

**The worker.**  `IInv` is `TypeOK` with four parts: `Linked` (how the two first-pass
flags, the connection flag and the library's state depend on each other),
`SameKind` (within a connection the simulator does not turn into another,
which X-Plane's inverted switches make matter), `Told` (within a connection the last
report tells what the caches hold, and the cache of the spacing not in use is
empty) and `Counted` (`quiet <= counter`).  With `Told`, a pass that finds no change has
reported the same before: `ReportsAreCurrent`; and a frequency changes only with the
flag of a changed radio: `WorkerImplementsFeed`.  Both need that words of different
frequencies differ and come back, the digit and nibble lemmas at the head of the module.

**The tuning control.**  `TuningInv` is `TypeOK` with the consistency of `db`, since a lookup
answers with channels only then, and `Offline` (without a connection no request
and no move is under way).  `RecordIsTrue` is false (run `tracks`), in automatic mode also because
a held client is recorded with the target before it is back there.  `OnlyTwoReadsMislead` says
that without automatic mode the two reads at 1284 and 1286 are the only cause: it assumes of a behaviour that no
step writes the target while the move event is between them (`Undisturbed`), and leaves the worker,
the handlers and the server free otherwise.  Its invariant `RecordInv` says that the
last of the moves under way tells where the client is, and that with none under way the
record is right, or the target that is about to be recorded.

**The settings.**  `IInv` is `TypeOK` with `OnOffer`: what the second tree was filled with is the
branch of the root channel selected, and the untuned channel is the root channel or in it.  `BranchKept`
carries this to the present tree: a channel offered below root is still below it while none that was offered
has been moved, by the least-set definition of `Below`.  `SavedInv` strengthens `NothingUnsaved` to the
open dialog: the settings in the members are saved then too, and only the buttons and the two channels run ahead of the file.

Only model-checked: liveness (`LocksIn`, `RecordComesRight`, `Settles`, `StopEnds`, `AwaitedIsLoaded`), which is
beyond this prover.  Every other property of the passing runs is a theorem.

## 6. What is not modelled

- The information display, logging, menus' appearance, the names of channels and
  servers: presentation.  They read the state and change none of it.
- Check boxes of the dialog that only store a value: range, out of range, detailed information.
- SQLite, SQLiteCpp, the plugin SDK: third party.  SQLite is about ninety-six in a hundred of
  the repository's lines of code, which is why the lines the modules stand for are a small share
  of it; of the plugin's own code they are most of what is not presentation.
- The simulator's IPC client but for what the worker sees of it, and `FSUIPC_Write`, which is never called.
- The installer and the station tables: packaging and data.
- `setUntuned` (`config.cpp:156`): nothing calls it.  It would set the two buttons the wrong way round.
- Several server tabs: their channels share one database, whose keys do not tell the
  tabs apart; see the plan.
- A lookup between the two transactions of a load (`TS3Channels.cpp:344`): it finds the
  channel gone, which `SimCom` has as a channel not loaded yet.

## 7. Plan

Done: the tables with lookups and list, the mirror, the worker with its IPC client and
arithmetic, the feed between worker and tuning control, the tuning control, the settings; theorems
for every safety property of the passing runs.  Left:

1. `SimCom` over `ChannelMirror` instead of a fixed tree; `Config`'s root and untuned
   channels as its inputs.
2. Several server tabs: one database, one `channelUpdates`, two sources of events.
