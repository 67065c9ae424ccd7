---------------------------- MODULE StationFacts ----------------------------
(***************************************************************************)
(* What TS3Channels::addOrUpdateChannel learns about a channel from its     *)
(* name, topic and description: the frequencies it answers on, where it is  *)
(* and how far it reaches.  A text is abstracted to what the three regular  *)
(* expressions find in it:                                                  *)
(*   tuned : the frequency designators, each [khz, dp] with dp the number   *)
(*           of decimals written, khz already completed to the 25 kHz       *)
(*           raster when two decimals were written ("118.12" is 118125)     *)
(*   ident : its ICAO_TYPE word as a pair <<airport, type>>, or NoIdent     *)
(*   place : the first latitude/longitude pair, or NoPlace                  *)
(***************************************************************************)
EXTENDS Integers, Sequences

CONSTANTS NoIdent, NoPlace,
          Ident,         \* the pairs <<airport, type>> texts may hold
          Place,         \* abstract positions of channels and stations
          StationData    \* ident -> the rows ICAOData::getStationData returns

ASSUME StationFactsAssumption ==
    /\ NoIdent \notin Ident
    /\ NoPlace \notin Place
    /\ DOMAIN StationData = Ident \cup {NoIdent}
    /\ StationData[NoIdent] = <<>>

Text(tuned, ident, place) == [tuned |-> tuned, ident |-> ident, place |-> place]

EmptyText == Text({}, NoIdent, NoPlace)

(***************************************************************************)
(* The civil regular expression reads 118.000 .. 136.999 only, the military *)
(* one every frequency of the model, those of the civil band included.      *)
(***************************************************************************)
CivilBand == 118000 .. 136999

Matched(text, military) ==
    IF military THEN text.tuned
    ELSE {d \in text.tuned : d.khz \in CivilBand}

\* The first of the texts, of those whose positions are in hits, or EmptyText.
FirstOf(texts, hits) ==
    IF hits = {} THEN EmptyText
    ELSE texts[CHOOSE i \in hits : \A j \in hits : i <= j]

(***************************************************************************)
(* getFrequenciesFromStrings: a set of rows <<frequency, usable by an 8.33  *)
(* kHz radio>>.  Two decimals mean a 25 kHz assignment, three decimals off  *)
(* the 25 kHz raster an 8.33 kHz one, three decimals on it either.          *)
(***************************************************************************)
FrequenciesFromStrings(texts, military) ==
    LET hits        == {i \in DOMAIN texts : Matched(texts[i], military) # {}}
        found       == Matched(FirstOf(texts, hits), military)
        freq25      == {d.khz : d \in {e \in found : e.dp = 2}}
        spec3       == {d.khz : d \in {e \in found : e.dp = 3}}
        freq833     == {f \in spec3 : f % 25 # 0}
        freq25or833 == spec3 \ freq833
    IN  (freq25 \X {FALSE})
          \cup (IF spec3 = {} THEN freq25 \X {TRUE} ELSE {})
          \cup (freq25or833 \X {TRUE})
          \cup (IF freq25 = {} THEN freq25or833 \X {FALSE} ELSE {})
          \cup (freq833 \X {TRUE})

\* The station types the regular expression of getAirportIdentFromStrings lists.
IdentTypes == {"GND", "CLD", "RCO", "CTAF", "TWR", "RDO", "ATF", "AWOS", "AFIS",
               "ATIS", "APP", "ARR", "DEP", "CNTR"}

IdentFromStrings(texts) ==
    LET Known(t) == t.ident # NoIdent /\ t.ident[2] \in IdentTypes
    IN  FirstOf(texts, {i \in DOMAIN texts : Known(texts[i])}).ident

LatLonFromStrings(texts) ==
    FirstOf(texts, {i \in DOMAIN texts : texts[i].place # NoPlace}).place

\* The rows a station of the ICAO database contributes: real assignments only.
StationRows(stations) ==
    LET real == {f \in {stations[i].frequency : i \in DOMAIN stations} : f \in CivilBand}
    IN  {<<f, FALSE>> : f \in {g \in real : g % 25 = 0}}
          \cup {<<f, TRUE>> : f \in {g \in real : /\ g % 5 = 0
                                                  /\ g % 50 \notin {20, 45}}}

NoRange == 10800

RangeOf(type) ==
    CASE type \in {"GND", "CLD", "RCO"} -> 10
      [] type \in {"CTAF", "TWR", "RDO", "ATF", "AWOS", "AFIS", "OPS"} -> 50
      [] type \in {"ATIS", "APP", "ARR", "DEP"} -> 400
      [] type = "CNTR" -> 1000
      [] OTHER -> NoRange

(***************************************************************************)
(* The row data addOrUpdateChannel stores for these texts: the user's own   *)
(* frequencies and position win over those of the station database, and the *)
(* range always comes from the type of the first station found.             *)
(***************************************************************************)
FactsOf(texts, military) ==
    LET stations == StationData[IdentFromStrings(texts)]
        fromTS   == FrequenciesFromStrings(texts, military)
        place    == LatLonFromStrings(texts)
    IN  [rows  |-> IF fromTS # {} THEN fromTS ELSE StationRows(stations),
         range |-> IF stations = <<>> THEN NoRange ELSE RangeOf(stations[1].type),
         place |-> IF place = NoPlace /\ stations # <<>>
                     THEN stations[1].place ELSE place]
=============================================================================
