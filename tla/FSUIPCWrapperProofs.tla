-------------------------- MODULE FSUIPCWrapperProofs --------------------------
(***************************************************************************)
(* The worker, for every set of frequencies, places and cockpits, every     *)
(* list of requests and any number of things that happen: its types, the    *)
(* regular report, that a report is what the simulator showed, and that the *)
(* worker implements SimFeed.                                               *)
(***************************************************************************)
EXTENDS FSUIPCWrapper, FiniteSetTheorems, TLAPS

-----------------------------------------------------------------------------
(***************************************************************************)
(* What the conversion of the simulator's words computes, for every channel *)
(* of the civil band.  The packed word and the two steps back are lemmas of *)
(* their own: the theorem is put together from them without looking inside. *)
(***************************************************************************)
Ten == 0 .. 9

\* A frequency above 100 MHz in steps of 10 kHz.
Steps == 0 .. 9999

OfDigits(n, a, b, c, d) == n = 1000 * a + 100 * b + 10 * c + d

InSteps(n) == 100000 + 10 * n

\* The band, and its channels 25 kHz apart.
Kilohertz == 118000 .. 136999

Raster == {f \in Kilohertz : f % 25 = 0}

\* Division by ten takes the last digit off.
LEMMA ByTen ==
    ASSUME NEW n \in Nat, NEW q \in Int, NEW r \in Int, q = n \div 10, r = n % 10
    PROVE  n = 10 * q + r /\ q \in Nat /\ r \in Ten
  BY SMT DEF Ten

\* A number of four digits is made of its digits.
LEMMA DigitsOf ==
    ASSUME NEW n \in Steps
    PROVE  /\ Digit(n, 1000) \in Ten /\ Digit(n, 100) \in Ten
           /\ Digit(n, 10) \in Ten /\ Digit(n, 1) \in Ten
           /\ OfDigits(n, Digit(n, 1000), Digit(n, 100), Digit(n, 10), Digit(n, 1))
<1>1. n \in Nat /\ n <= 9999
  BY SMT DEF Steps
<1>2. PICK tens \in Int, d \in Int : tens = n \div 10 /\ d = n % 10
  BY <1>1, SMT
<1>3. n = 10 * tens + d /\ tens \in Nat /\ d \in Ten
  BY <1>1, <1>2, ByTen
<1>4. PICK hundreds \in Int, c \in Int : hundreds = tens \div 10 /\ c = tens % 10
  BY <1>3, SMT
<1>5. tens = 10 * hundreds + c /\ hundreds \in Nat /\ c \in Ten
  BY <1>3, <1>4, ByTen
<1>6. PICK a \in Int, b \in Int : a = hundreds \div 10 /\ b = hundreds % 10
  BY <1>5, SMT
<1>7. hundreds = 10 * a + b /\ a \in Nat /\ b \in Ten
  BY <1>5, <1>6, ByTen
<1>8. a <= 9
  BY <1>1, <1>3, <1>5, <1>7, SMT DEF Ten
<1>9. OfDigits(n, a, b, c, d)
  BY <1>3, <1>5, <1>7, SMT DEF OfDigits, Ten
<1>10. hundreds = n \div 100 /\ a = n \div 1000 /\ n \div 1 = n /\ a % 10 = a
  BY <1>1, <1>3, <1>5, <1>7, <1>8, SMT DEF Ten
<1>11. /\ Digit(n, 1000) = a /\ Digit(n, 100) = b
       /\ Digit(n, 10) = c /\ Digit(n, 1) = d
  BY <1>2, <1>4, <1>6, <1>10, SMT DEF Digit
<1>12. a \in Ten
  BY <1>7, <1>8, SMT DEF Ten
<1> QED
  BY <1>3, <1>5, <1>7, <1>9, <1>11, <1>12

\* Four digits packed into a word are found there again.
LEMMA NibblesOf ==
    ASSUME NEW a \in Ten, NEW b \in Ten, NEW c \in Ten, NEW d \in Ten
    PROVE  /\ FourDigits(a, b, c, d) \in Nat
           /\ Nibble(FourDigits(a, b, c, d), 4096) = a
           /\ Nibble(FourDigits(a, b, c, d), 256) = b
           /\ Nibble(FourDigits(a, b, c, d), 16) = c
           /\ Nibble(FourDigits(a, b, c, d), 1) = d
  BY SMT DEF Nibble, FourDigits, Ten

\* So the word comes out as the number of its digits, in steps of 10 kHz.
LEMMA WordInTens ==
    ASSUME NEW n \in Steps, NEW a \in Ten, NEW b \in Ten, NEW c \in Ten, NEW d \in Ten,
           OfDigits(n, a, b, c, d)
    PROVE  /\ FourDigits(a, b, c, d) \in Nat
           /\ InTens(FourDigits(a, b, c, d)) = InSteps(n)
<1>1. PICK w : w = FourDigits(a, b, c, d)
  OBVIOUS
<1>2. /\ w \in Nat
      /\ Nibble(w, 4096) = a /\ Nibble(w, 256) = b
      /\ Nibble(w, 16) = c /\ Nibble(w, 1) = d
  BY <1>1, NibblesOf
<1>3. InTens(w) = InSteps(n)
  BY <1>2, SMT DEF InTens, InSteps, OfDigits, Ten, Steps
<1> QED
  BY <1>1, <1>2, <1>3

\* A frequency of the band has four digits in steps of 10 kHz.
LEMMA StepsOf ==
    ASSUME NEW f \in Kilohertz
    PROVE  ((f - 100000) \div 10) \in Steps
<1>1. PICK n \in Int : n = (f - 100000) \div 10
  BY SMT DEF Kilohertz
<1>2. n \in Steps
  BY <1>1, SMT DEF Steps, Kilohertz
<1> QED
  BY <1>1, <1>2

\* The fifth digit of the raster follows from the fourth.
LEMMA FifthFollows ==
    ASSUME NEW f \in Raster
    PROVE  FifthDigit(InSteps((f - 100000) \div 10)) = f
<1>1. PICK k \in Int, s \in {0, 25} : f - 100000 = 50 * k + s
  <2>1. f \in 118000 .. 136999 /\ f % 25 = 0
    BY SMT DEF Raster, Kilohertz
  <2>2. PICK k \in Int, r \in Int : k = (f - 100000) \div 50 /\ r = (f - 100000) % 50
    BY <2>1, SMT
  <2>3. f - 100000 = 50 * k + r /\ r >= 0 /\ r < 50
    BY <2>1, <2>2, SMT
  <2>4. r % 25 = 0
    BY <2>1, <2>3, SMT
  <2>5. r \in {0, 25}
    BY <2>3, <2>4, SMT
  <2> QED
    BY <2>3, <2>5
<1>2. f \in 118000 .. 136999
  BY SMT DEF Raster, Kilohertz
<1>3. PICK n \in Int : n = (f - 100000) \div 10
  BY <1>2, SMT
<1>4. CASE s = 0
  <2>1. n = 5 * k
    BY <1>1, <1>2, <1>3, <1>4, SMT
  <2>2. f = 100000 + 50 * k
    BY <1>1, <1>2, <1>4, SMT
  <2>3. FifthDigit(InSteps(n)) = f
    BY <2>1, <2>2, <1>2, SMT DEF FifthDigit, InSteps
  <2> QED
    BY <1>3, <2>3
<1>5. CASE s = 25
  <2>1. n = 5 * k + 2
    BY <1>1, <1>2, <1>3, <1>5, SMT
  <2>2. f = 100000 + 50 * k + 25
    BY <1>1, <1>2, <1>5, SMT
  <2>3. FifthDigit(InSteps(n)) = f
    BY <2>1, <2>2, <1>2, SMT DEF FifthDigit, InSteps
  <2> QED
    BY <1>3, <2>3
<1> QED
  BY <1>1, <1>4, <1>5

\* A word that is a frequency is converted by its digits.
LEMMA KhzOfWord ==
    ASSUME NEW w \in Nat
    PROVE  Khz25(w) = FifthDigit(InTens(w))
  BY SMT DEF Khz25

(***************************************************************************)
(* Every frequency of the 25 kHz raster comes back from its word, which has *)
(* room for four of its five digits only.                                   *)
(***************************************************************************)
THEOREM RasterComesBack ==
    \A f \in Raster : Khz25(BcdWord(f)) = f
<1> SUFFICES ASSUME NEW f \in Raster PROVE Khz25(BcdWord(f)) = f
  OBVIOUS
<1>1. PICK n : n = (f - 100000) \div 10
  OBVIOUS
<1>2. n \in Steps /\ FifthDigit(InSteps(n)) = f
  <2>1. f \in Kilohertz
    BY DEF Raster
  <2> QED
    BY <1>1, <2>1, StepsOf, FifthFollows
<1>3. BcdWord(f) = FourDigits(Digit(n, 1000), Digit(n, 100), Digit(n, 10), Digit(n, 1))
  BY <1>1 DEF BcdWord
<1>4. BcdWord(f) \in Nat /\ InTens(BcdWord(f)) = InSteps(n)
  BY <1>2, <1>3, DigitsOf, WordInTens
<1> QED
  BY <1>2, <1>4, KhzOfWord

-----------------------------------------------------------------------------
(***************************************************************************)
(* The words of the simulator and what becomes of them.                     *)
(***************************************************************************)
LEMMA FrequencyRange == Frequency \subseteq Kilohertz
  BY WrapperAssumption DEF Kilohertz

\* Words of Hz are no mark of an unused cache, and come back.
LEMMA HzComesBack ==
    ASSUME NEW f \in Frequency
    PROVE  Khz833(HzWord(f)) = f /\ HzWord(f) # Unset
<1>1. f \in Kilohertz
  BY FrequencyRange
<1> QED
  BY <1>1, SMT DEF Kilohertz, Khz833, HzWord, Unset

\* Neither are the words of the raster.
LEMMA BcdIsUsed ==
    ASSUME NEW f \in Frequency
    PROVE  BcdWord(f) # Unset
<1>1. f \in Kilohertz
  BY FrequencyRange
<1>2. PICK n : n = (f - 100000) \div 10
  OBVIOUS
<1>3. n \in Steps
  BY <1>1, <1>2, StepsOf
<1>4. BcdWord(f) = FourDigits(Digit(n, 1000), Digit(n, 100), Digit(n, 10), Digit(n, 1))
  BY <1>2 DEF BcdWord
<1>5. BcdWord(f) \in Nat
  BY <1>3, <1>4, DigitsOf, NibblesOf
<1> QED
  BY <1>5, SMT DEF Unset

\* What is no frequency stays none.
LEMMA NothingStays ==
    ASSUME NEW w \in {Unset, Junk}
    PROVE  Khz25(w) = w /\ Khz833(w) = w
  BY SMT DEF Khz25, Khz833, Unset, Junk

LEMMA HeardWords ==
    /\ \A w \in Word25 : Khz25(w) \in Heard
    /\ \A w \in Word833 : Khz833(w) \in Heard
  BY NothingStays, HzComesBack DEF Word25, Word833, Heard

-----------------------------------------------------------------------------
(***************************************************************************)
(* Types.                                                                   *)
(***************************************************************************)
\* A place is compared with the cached one by its two coordinates.
LEMMA CachedType ==
    ASSUME NEW p \in Panel
    PROVE  Cached(p) \in Caches
<1>1. /\ p.act \in [Radio -> Frequency] /\ p.sby \in [Radio -> Frequency]
      /\ p.narrow \in [Radio -> BOOLEAN] /\ p.ground \in BOOLEAN
      /\ Switches(p) \in SUBSET Radio
  BY DEF Panel, Switches
<1>2. \A r \in Radio : /\ Words25(p, r) \in Word25 \X Word25
                       /\ Words833(p, r) \in Word833 \X Word833
  BY <1>1 DEF Words25, Words833, Word25, Word833
<1>3. None \in Word25 \X Word25 /\ None \in Word833 \X Word833
  BY DEF None, Word25, Word833
<1> QED
  BY <1>1, <1>2, <1>3 DEF Cached, Caches

LEMMA KhzType ==
    ASSUME NEW k \in [Radio -> BOOLEAN], NEW c \in Caches, NEW r \in Radio, NEW i \in {1, 2}
    PROVE  Khz(k, c, r, i) \in Heard
<1>1. c.w25[r] \in Word25 \X Word25 /\ c.w833[r] \in Word833 \X Word833
  BY DEF Caches
<1>2. c.w25[r][i] \in Word25 /\ c.w833[r][i] \in Word833
  BY <1>1
<1> QED
  BY <1>2, HeardWords DEF Khz

LEMMA SimComDataType ==
    ASSUME NEW k \in [Radio -> BOOLEAN], NEW x \in BOOLEAN, NEW c \in Caches,
           NEW q \in Place \cup {NaN},
           NEW com \in BOOLEAN, NEW pos \in BOOLEAN, NEW other \in BOOLEAN
    PROVE  SimComData(k, x, c, q, com, pos, other) \in Reports
<1>1. /\ [r \in Radio |-> Khz(k, c, r, 1)] \in [Radio -> Heard]
      /\ [r \in Radio |-> Khz(k, c, r, 2)] \in [Radio -> Heard]
  BY KhzType
<1>2. c.switches \in SUBSET Radio /\ c.ground \in BOOLEAN
  BY DEF Caches
<1> QED
  BY <1>1, <1>2 DEF SimComData, Reports

LEMMA NoReportType == NoReport \in Reports
  BY DEF NoReport, Reports, Heard

LEMMA CountType ==
    ASSUME NEW moved \in BOOLEAN, counter \in 0 .. ReportEvery - 1
    PROVE  Count(moved) \in 0 .. ReportEvery - 1
<1>1. ReportEvery \in Nat /\ counter \in Nat /\ counter < ReportEvery
  BY WrapperAssumption, SMT
<1> QED
  BY <1>1, SMT DEF Count

\* Nobody but the client of the library sees its list of requests grow.
LEMMA LibraryTypes ==
    ASSUME TypeOK
    PROVE  /\ Open => view' \in {"closed", "open", "stale"} /\ index' \in 0 .. MaxMsgs
           /\ Read(14) => view' \in {"closed", "open", "stale"} /\ index' \in 0 .. MaxMsgs
           /\ Close => view' \in {"closed", "open", "stale"} /\ index' \in 0 .. MaxMsgs
           /\ Processed => view' \in {"closed", "open", "stale"} /\ index' \in 0 .. MaxMsgs
<1>1. /\ MaxMsgs \in Nat /\ MaxMsgs >= 14 /\ index \in Nat /\ index <= MaxMsgs
      /\ view \in {"closed", "open", "stale"}
  BY WrapperAssumption, SMT DEF TypeOK
<1> QED
  BY <1>1, SMT DEF Open, Read, Close, Processed, CanRead, HasRoom, IsOpen

LEMMA TypeInit == Init => TypeOK
<1> SUFFICES ASSUME Init PROVE TypeOK
  OBVIOUS
<1>1. panel \in Panel
  BY WrapperAssumption DEF Init
<1>2. JunkCache \in Caches
  BY DEF JunkCache, Caches, Word25, Word833
<1>3. LuckyCache(panel) \in Caches
  <2>1. /\ panel.act \in [Radio -> Frequency] /\ panel.sby \in [Radio -> Frequency]
        /\ panel.narrow \in [Radio -> BOOLEAN] /\ panel.ground \in BOOLEAN
        /\ Switches(panel) \in SUBSET Radio
    BY <1>1 DEF Panel, Switches
  <2>2. \A r \in Radio : /\ Words25(panel, r) \in Word25 \X Word25
                         /\ Words833(panel, r) \in Word833 \X Word833
    BY <2>1 DEF Words25, Words833, Word25, Word833
  <2> QED
    BY <2>1, <2>2 DEF LuckyCache, Caches
<1>4. 4 \in 0 .. MaxMsgs /\ 0 \in 0 .. MaxMsgs /\ 0 \in 0 .. ReportEvery - 1
      /\ 0 \in 0 .. MaxEvents /\ 0 \in Nat
  BY WrapperAssumption, SMT
<1> QED
  BY <1>1, <1>2, <1>3, <1>4, NoReportType DEF Init, TypeOK

(***************************************************************************)
(* The inductive invariant.  Two flags say what the worker knows of the     *)
(* simulator, two where it is; they are not independent.                    *)
(***************************************************************************)
Linked ==
    /\ pc = "evaluate" => isConnected /\ index = 0
    /\ pc = "fail" => ~ isConnected
    /\ view = "open" => sim # "absent"
    /\ pc \in {"top", "open", "read"} /\ ~ isConnected => firstConnectedPass
    /\ pc = "read" /\ ~ isConnected => view = "closed"
    /\ ~ firstConnectedPass /\ pc \in {"top", "open", "read"} => index = 0
    /\ ~ firstConnectedPass /\ pc = "send" /\ ~ isConnected => view = "closed"
    /\ ~ firstDisconnectedPass => firstConnectedPass
    /\ firstConnectedPass /\ firstDisconnectedPass => report = NoReport

\* Within a connection the simulator does not turn into another.
SameKind ==
    /\ ~ firstConnectedPass /\ view = "open" => isXPlane = (panel.kind = "xplane")
    /\ ~ firstConnectedPass /\ pc = "evaluate" => isXPlane = (mem.kind = "xplane")
    /\ pc = "evaluate" /\ view = "open" => mem.kind = panel.kind

\* Within a connection the last report tells what the caches hold, and a radio's
\* cache is that of its spacing.
Told ==
    ~ firstConnectedPass
      => /\ \A r \in Radio : IF is833[r] THEN cache.w25[r] = None ELSE cache.w833[r] = None
         /\ report.act = [r \in Radio |-> Khz(is833, cache, r, 1)]
         /\ report.sby = [r \in Radio |-> Khz(is833, cache, r, 2)]
         /\ report.k833 = is833
         /\ report.selected = (IF isXPlane THEN Radio \ cache.switches ELSE cache.switches)
         /\ report.ground = cache.ground
         /\ cPlace # NaN => report.place = cPlace

\* The passes since a callback are among those counted.
Counted == quiet <= counter

IInv == TypeOK /\ Linked /\ SameKind /\ Told /\ Counted

-----------------------------------------------------------------------------
(***************************************************************************)
(* The types are kept by every step.                                        *)
(***************************************************************************)
LEMMA TypeWorker == TypeOK /\ Worker => TypeOK'
<1> SUFFICES ASSUME TypeOK, Worker PROVE TypeOK'
  OBVIOUS
<1>1. CASE Loop
  BY <1>1 DEF TypeOK, Loop, outside, library, stops, readings, passes, told
<1>2. CASE CheckConnection
  <2>1. view' \in {"closed", "open", "stale"} /\ index' \in 0 .. MaxMsgs
    BY <1>2, LibraryTypes DEF CheckConnection, TypeOK, library
  <2>2. isConnected' \in BOOLEAN
    BY <1>2 DEF CheckConnection, TypeOK
  <2> QED
    BY <1>2, <2>1, <2>2 DEF TypeOK, CheckConnection, outside, stops, readings, passes, told
<1>3. CASE ReadOffsets
  <2>1. view' \in {"closed", "open", "stale"} /\ index' \in 0 .. MaxMsgs
    BY <1>3, LibraryTypes DEF ReadOffsets
  <2>2. isConnected' \in BOOLEAN
    BY <1>3 DEF ReadOffsets, CanRead
  <2> QED
    BY <1>3, <2>1, <2>2 DEF TypeOK, ReadOffsets, outside, stops, readings, passes, told
<1>4. CASE SendRequests
  <2>1. view' \in {"closed", "open", "stale"} /\ index' \in 0 .. MaxMsgs
    BY <1>4, LibraryTypes DEF SendRequests, TypeOK, library
  <2>2. isConnected' \in BOOLEAN
    BY <1>4 DEF SendRequests, Answers
  <2>3. /\ mem' \in Panel \cup {NoAnswer}
        /\ pc' \in {"evaluate", "fail"}
        /\ pc' = "evaluate" <=> mem' # NoAnswer
    <3>1. panel \in Panel /\ pc = "send" /\ mem = NoAnswer
      BY <1>4 DEF SendRequests, TypeOK
    <3>2. panel # NoAnswer
      BY <3>1 DEF Panel, NoAnswer, Kind
    <3> QED
      BY <1>4, <3>1, <3>2 DEF SendRequests
  <2> QED
    BY <1>4, <2>1, <2>2, <2>3 DEF TypeOK, SendRequests, outside, stops, readings, passes, told
<1>5. CASE Evaluate
  <2>1. mem \in Panel /\ Moved(mem) \in BOOLEAN /\ ComChanged(mem) \in BOOLEAN
    BY <1>5 DEF Evaluate, TypeOK, Moved, ComChanged
  <2>2. mem.place \in Place /\ (mem.kind = "xplane") \in BOOLEAN
    BY <2>1 DEF Panel
  <2>3. /\ is833' \in [Radio -> BOOLEAN] /\ isXPlane' \in BOOLEAN
        /\ here' \in Place \cup {NaN} /\ cPlace' \in Place \cup {NaN}
    <3>1. \A r \in Radio : Is833(mem, r) \in BOOLEAN
      BY DEF Is833
    <3> QED
      BY <1>5, <2>2, <3>1 DEF Evaluate, TypeOK
  <2>4. cache' \in Caches
    BY <1>5, <2>1, CachedType DEF Evaluate
  <2>5. counter' \in 0 .. ReportEvery - 1
    BY <1>5, <2>1, CountType DEF Evaluate, TypeOK
  <2>6. report' \in Reports /\ firstConnectedPass' \in BOOLEAN
    <3>1. (cache.ground # mem.ground \/ counter' = 0) \in BOOLEAN
      OBVIOUS
    <3>2. SimComData(is833', isXPlane', cache', here', ComChanged(mem), Moved(mem),
                     cache.ground # mem.ground \/ counter' = 0) \in Reports
      BY <2>1, <2>3, <2>4, <3>1, SimComDataType
    <3> QED
      BY <1>5, <3>2 DEF Evaluate, TypeOK
  <2>7. quiet' \in Nat
    <3>1. quiet' = 0 \/ quiet' = quiet + 1
      BY <1>5 DEF Evaluate
    <3> QED
      BY <3>1, SMT DEF TypeOK
  <2> QED
    BY <1>5, <2>3, <2>4, <2>5, <2>6, <2>7
    DEF TypeOK, Evaluate, outside, library, stops
<1>6. CASE Fail
  <2>1. SimComData(is833, isXPlane, cache, here, FALSE, FALSE, FALSE) \in Reports
    BY SimComDataType DEF TypeOK
  <2>2. report' \in Reports /\ quiet' \in Nat
    <3>1. \/ /\ report' = SimComData(is833, isXPlane, cache, here, FALSE, FALSE, FALSE)
             /\ quiet' = 0
          \/ report' = report /\ quiet' = quiet
      BY <1>6 DEF Fail, told
    <3>2. report \in Reports /\ quiet \in Nat /\ 0 \in Nat
      BY DEF TypeOK
    <3> QED
      BY <2>1, <3>1, <3>2
  <2>3. view' \in {"closed", "open", "stale"} /\ index' \in 0 .. MaxMsgs
    BY <1>6, LibraryTypes DEF Fail
  <2> QED
    BY <1>6, <2>2, <2>3 DEF TypeOK, Fail, outside, stops, readings
<1> QED
  BY <1>1, <1>2, <1>3, <1>4, <1>5, <1>6 DEF Worker

LEMMA TypeOutside ==
    TypeOK /\ (\/ Ask \/ CloseUnder \/ Join \/ \E kind \in Kind : SimStarts(kind)
               \/ SimHangs \/ SimRecovers \/ SimEnds \/ PilotActs \/ Handle833ModeChange)
      => TypeOK'
<1> SUFFICES ASSUME TypeOK,
                    \/ Ask \/ CloseUnder \/ Join \/ \E kind \in Kind : SimStarts(kind)
                    \/ SimHangs \/ SimRecovers \/ SimEnds \/ PilotActs \/ Handle833ModeChange
             PROVE  TypeOK'
  OBVIOUS
<1>0. Happens => events' \in 0 .. MaxEvents
  <2>1. MaxEvents \in Nat /\ events \in 0 .. MaxEvents
    BY WrapperAssumption DEF TypeOK
  <2>2. events < MaxEvents /\ events' = events + 1 => events' \in 0 .. MaxEvents
    BY <2>1, SMT
  <2> QED
    BY <2>2 DEF Happens
<1>1. CASE Ask
  <2>1. events' \in 0 .. MaxEvents
    BY <1>0, <1>1 DEF Ask
  <2>2. /\ cRun' \in BOOLEAN /\ stopper' = "asked"
        /\ UNCHANGED <<sim, view, index, panel, force, isConnected, pc, mem, is833, isXPlane,
                       cache, cPlace, here, counter, firstConnectedPass,
                       firstDisconnectedPass, report, quiet>>
    BY <1>1 DEF Ask, library, unstopped, readings, passes, told
  <2> QED
    BY <2>1, <2>2 DEF TypeOK
<1>2. CASE CloseUnder
  BY <1>2 DEF CloseUnder, Close, TypeOK, outside, unstopped, readings, passes, told
<1>3. CASE Join
  BY <1>3 DEF Join, TypeOK, outside, library, unstopped, readings, passes, told
<1>4. ASSUME NEW kind \in Kind, SimStarts(kind) PROVE TypeOK'
  <2>1. panel' \in Panel
    BY <1>4 DEF SimStarts, TypeOK, Panel
  <2> QED
    BY <1>0, <1>4, <2>1 DEF SimStarts, TypeOK, library, inside, stops, readings, passes, told
<1>5. CASE SimHangs
  BY <1>0, <1>5 DEF SimHangs, TypeOK, library, inside, stops, readings, passes, told
<1>6. CASE SimRecovers
  BY <1>0, <1>6 DEF SimRecovers, TypeOK, library, inside, stops, readings, passes, told
<1>7. CASE SimEnds
  BY <1>0, <1>7 DEF SimEnds, TypeOK, inside, stops, readings, passes, told
<1>8. CASE PilotActs
  <2>1. panel' \in Panel
    <3>1. PICK r \in Radio, f \in Frequency, t \in SUBSET Radio, q \in Place :
            panel' \in {[panel EXCEPT !.act[r] = f], [panel EXCEPT !.sby[r] = f],
                        [panel EXCEPT !.narrow[r] = ~ @], [panel EXCEPT !.transmit = t],
                        [panel EXCEPT !.ground = ~ @], [panel EXCEPT !.place = q]}
      BY <1>8 DEF PilotActs
    <3>2. panel \in Panel
      BY DEF TypeOK
    <3>3. /\ [panel EXCEPT !.act[r] = f] \in Panel /\ [panel EXCEPT !.sby[r] = f] \in Panel
          /\ [panel EXCEPT !.narrow[r] = ~ @] \in Panel
          /\ [panel EXCEPT !.transmit = t] \in Panel
          /\ [panel EXCEPT !.ground = ~ @] \in Panel /\ [panel EXCEPT !.place = q] \in Panel
      BY <3>2 DEF Panel
    <3> QED
      BY <3>1, <3>3
  <2> QED
    BY <1>0, <1>8, <2>1 DEF PilotActs, TypeOK, library, inside, stops, readings, passes, told
<1>9. CASE Handle833ModeChange
  <2>1. force' \in [blForce833 : BOOLEAN, blForce25 : BOOLEAN]
    BY <1>9 DEF Handle833ModeChange, TypeOK
  <2> QED
    BY <1>0, <1>9, <2>1
    DEF Handle833ModeChange, TypeOK, library, inside, stops, readings, passes, told
<1> QED
  BY <1>1, <1>2, <1>3, <1>4, <1>5, <1>6, <1>7, <1>8, <1>9

LEMMA TypeStep == TypeOK /\ [Next]_vars => TypeOK'
<1>1. TypeOK /\ UNCHANGED vars => TypeOK'
  BY DEF TypeOK, vars
<1> QED
  BY <1>1, TypeWorker, TypeOutside DEF Next

\* The worker's variables keep their types.
THEOREM WorkerTypes == Spec => []TypeOK
  BY TypeInit, TypeStep, PTL DEF Spec

-----------------------------------------------------------------------------
(***************************************************************************)
(* What the flags of the worker have to do with each other.                 *)
(***************************************************************************)
LEMMA LinkedInit == Init => Linked
  BY DEF Init, Linked

LEMMA LinkedWorker == TypeOK /\ Linked /\ Worker => Linked'
<1> SUFFICES ASSUME TypeOK, Linked, Worker PROVE Linked'
  OBVIOUS
<1>0. /\ MaxMsgs \in Nat /\ MaxMsgs >= 14 /\ index \in Nat
      /\ view \in {"closed", "open", "stale"} /\ isConnected \in BOOLEAN
      /\ firstConnectedPass \in BOOLEAN /\ firstDisconnectedPass \in BOOLEAN
  BY WrapperAssumption, SMT DEF TypeOK
<1>1. CASE Loop
  BY <1>1 DEF Linked, Loop, outside, library, stops, readings, passes, told
<1>2. CASE CheckConnection
  <2>1. CASE isConnected
    BY <1>2, <2>1 DEF Linked, CheckConnection, outside, library, stops, passes, told
  <2>2. CASE ~ isConnected
    <3>1. view' = "open" => sim # "absent"
      BY <1>2, <2>2 DEF Linked, CheckConnection, Open, IsOpen, HasRoom
    <3>2. firstConnectedPass /\ isConnected' = (view' # "closed")
      BY <1>2, <2>2 DEF Linked, CheckConnection
    <3> QED
      BY <1>2, <2>2, <3>1, <3>2 DEF Linked, CheckConnection, outside, passes, told
  <2> QED
    BY <1>0, <2>1, <2>2
<1>3. CASE ReadOffsets
  <2>1. ~ firstConnectedPass /\ ~ isConnected' => view = "closed"
    <3>1. ~ firstConnectedPass => index = 0
      BY <1>3 DEF Linked, ReadOffsets
    <3>2. ~ firstConnectedPass => HasRoom(14)
      BY <1>0, <3>1, SMT DEF HasRoom
    <3> QED
      BY <1>3, <3>2 DEF ReadOffsets, CanRead, IsOpen
  <2> QED
    BY <1>3, <2>1 DEF Linked, ReadOffsets, Read, outside, stops, passes, told
<1>4. CASE SendRequests
  <2>1. CASE Answers
    BY <1>4, <2>1 DEF Linked, SendRequests, Processed, outside, stops, passes, told
  <2>2. CASE ~ Answers
    BY <1>4, <2>2 DEF Linked, SendRequests, outside, library, stops, passes, told
  <2> QED
    BY <2>1, <2>2
<1>5. CASE Evaluate
  <2>1. /\ isConnected /\ isConnected' /\ pc' = "top" /\ firstDisconnectedPass'
        /\ UNCHANGED <<sim, view, index>> /\ pc = "evaluate"
    BY <1>5 DEF Evaluate, Linked, outside, library
  <2>2. ~ firstConnectedPass'
    BY <1>0, <1>5 DEF Evaluate
  <2> QED
    BY <2>1, <2>2 DEF Linked
<1>6. CASE Fail
  BY <1>6 DEF Linked, Fail, Close, outside, stops
<1> QED
  BY <1>1, <1>2, <1>3, <1>4, <1>5, <1>6 DEF Worker

LEMMA LinkedOutside ==
    Linked /\ (\/ Ask \/ CloseUnder \/ Join \/ \E kind \in Kind : SimStarts(kind)
               \/ SimHangs \/ SimRecovers \/ SimEnds \/ PilotActs \/ Handle833ModeChange)
      => Linked'
  BY DEF Linked, Ask, CloseUnder, Close, Join, SimStarts, SimHangs, SimRecovers, SimEnds,
         PilotActs, Handle833ModeChange, outside, library, inside, unstopped, stops, passes, told

LEMMA LinkedStep == TypeOK /\ Linked /\ [Next]_vars => Linked'
<1>1. Linked /\ UNCHANGED vars => Linked'
  BY DEF Linked, vars
<1> QED
  BY <1>1, LinkedWorker, LinkedOutside DEF Next

-----------------------------------------------------------------------------
(***************************************************************************)
(* The simulator of a connection stays of its kind.                         *)
(***************************************************************************)
LEMMA SameKindWorker == TypeOK /\ Linked /\ SameKind /\ Worker => SameKind'
<1> SUFFICES ASSUME TypeOK, Linked, SameKind, Worker PROVE SameKind'
  OBVIOUS
<1>1. CASE Loop
  BY <1>1 DEF SameKind, Loop, outside, library, readings, passes
<1>2. CASE CheckConnection
  <2>1. isConnected \/ firstConnectedPass
    BY <1>2 DEF Linked, CheckConnection
  <2> QED
    BY <1>2, <2>1 DEF SameKind, CheckConnection, outside, library, readings, passes
<1>3. CASE ReadOffsets
  BY <1>3 DEF SameKind, ReadOffsets, Read, outside, readings, passes
<1>4. CASE SendRequests
  <2>1. CASE Answers
    BY <1>4, <2>1 DEF SameKind, SendRequests, Answers, Processed, outside, readings, passes
  <2>2. CASE ~ Answers
    BY <1>4, <2>2 DEF SameKind, SendRequests, outside, library, readings, passes
  <2> QED
    BY <2>1, <2>2
<1>5. CASE Evaluate
  <2>1. /\ isXPlane' = (mem.kind = "xplane") /\ pc = "evaluate" /\ pc' = "top"
        /\ UNCHANGED <<view, panel>>
    BY <1>5 DEF Evaluate, outside, library
  <2> QED
    BY <2>1 DEF SameKind
<1>6. CASE Fail
  BY <1>6 DEF SameKind, Fail, Close, outside, readings
<1> QED
  BY <1>1, <1>2, <1>3, <1>4, <1>5, <1>6 DEF Worker

LEMMA SameKindOutside ==
    TypeOK /\ Linked /\ SameKind
      /\ (\/ Ask \/ CloseUnder \/ Join \/ \E kind \in Kind : SimStarts(kind)
          \/ SimHangs \/ SimRecovers \/ SimEnds \/ PilotActs \/ Handle833ModeChange)
      => SameKind'
<1> SUFFICES ASSUME TypeOK, Linked, SameKind,
                    \/ Ask \/ CloseUnder \/ Join \/ \E kind \in Kind : SimStarts(kind)
                    \/ SimHangs \/ SimRecovers \/ SimEnds \/ PilotActs \/ Handle833ModeChange
             PROVE  SameKind'
  OBVIOUS
<1>1. CASE Ask \/ CloseUnder \/ Join
  BY <1>1 DEF SameKind, Ask, CloseUnder, Close, Join, outside, library, unstopped, readings, passes
<1>2. CASE \E kind \in Kind : SimStarts(kind)
  BY <1>2 DEF SameKind, Linked, SimStarts, library, inside, readings, passes
<1>3. CASE SimHangs \/ SimRecovers \/ SimEnds \/ Handle833ModeChange
  BY <1>3 DEF SameKind, SimHangs, SimRecovers, SimEnds, Handle833ModeChange,
              library, inside, readings, passes
<1>4. CASE PilotActs
  <2>1. panel'.kind = panel.kind
    <3>1. PICK r \in Radio, f \in Frequency, t \in SUBSET Radio, q \in Place :
            panel' \in {[panel EXCEPT !.act[r] = f], [panel EXCEPT !.sby[r] = f],
                        [panel EXCEPT !.narrow[r] = ~ @], [panel EXCEPT !.transmit = t],
                        [panel EXCEPT !.ground = ~ @], [panel EXCEPT !.place = q]}
      BY <1>4 DEF PilotActs
    <3>2. panel \in Panel
      BY DEF TypeOK
    <3> QED
      BY <3>1, <3>2 DEF Panel
  <2> QED
    BY <1>4, <2>1 DEF SameKind, PilotActs, library, inside, readings, passes
<1> QED
  BY <1>1, <1>2, <1>3, <1>4

LEMMA SameKindStep == TypeOK /\ Linked /\ SameKind /\ [Next]_vars => SameKind'
<1>1. SameKind /\ UNCHANGED vars => SameKind'
  BY DEF SameKind, vars
<1> QED
  BY <1>1, SameKindWorker, SameKindOutside DEF Next

-----------------------------------------------------------------------------
(***************************************************************************)
(* A pass without a callback leaves what a report is made of as it was.     *)
(***************************************************************************)
LEMMA QuietPass ==
    ASSUME TypeOK, SameKind, Told, Evaluate, ~ firstConnectedPass, ~ ComChanged(mem)
    PROVE  /\ is833' = is833 /\ isXPlane' = isXPlane
           /\ cache'.w25 = cache.w25 /\ cache'.w833 = cache.w833
           /\ cache'.switches = cache.switches
<1>1. mem \in Panel /\ is833 \in [Radio -> BOOLEAN] /\ cache \in Caches
  BY DEF TypeOK, Evaluate
<1>2. /\ is833' = [r \in Radio |-> Is833(mem, r)]
      /\ isXPlane' = (mem.kind = "xplane")
      /\ cache' = Cached(mem)
  BY DEF Evaluate
<1>3. \A r \in Radio : /\ Words25(mem, r) # None /\ Words833(mem, r) # None
  BY <1>1, HzComesBack, BcdIsUsed DEF Panel, Words25, Words833, None
<1>4. ASSUME NEW r \in Radio
      PROVE  /\ is833'[r] = is833[r]
             /\ cache'.w25[r] = cache.w25[r] /\ cache'.w833[r] = cache.w833[r]
  <2>1. IF Is833(mem, r) THEN cache.w833[r] = Words833(mem, r)
                         ELSE cache.w25[r] = Words25(mem, r)
    BY DEF ComChanged
  <2>2. IF is833[r] THEN cache.w25[r] = None ELSE cache.w833[r] = None
    BY DEF Told
  <2>3. Is833(mem, r) \in BOOLEAN /\ is833[r] \in BOOLEAN
    BY <1>1 DEF Is833
  <2>4. Is833(mem, r) = is833[r]
    BY <1>3, <2>1, <2>2, <2>3
  <2>5. /\ cache'.w25[r] = (IF Is833(mem, r) THEN None ELSE Words25(mem, r))
        /\ cache'.w833[r] = (IF Is833(mem, r) THEN Words833(mem, r) ELSE None)
    BY <1>2 DEF Cached
  <2> QED
    BY <1>2, <2>1, <2>2, <2>3, <2>4, <2>5
<1>5. /\ is833' \in [Radio -> BOOLEAN]
      /\ cache'.w25 \in [Radio -> Word25 \X Word25] /\ cache.w25 \in [Radio -> Word25 \X Word25]
      /\ cache'.w833 \in [Radio -> Word833 \X Word833]
      /\ cache.w833 \in [Radio -> Word833 \X Word833]
  <2>1. cache' \in Caches
    BY <1>1, <1>2, CachedType
  <2>2. \A r \in Radio : Is833(mem, r) \in BOOLEAN
    BY DEF Is833
  <2> QED
    BY <1>1, <1>2, <2>1, <2>2 DEF Caches
<1>6. is833' = is833 /\ cache'.w25 = cache.w25 /\ cache'.w833 = cache.w833
  BY <1>1, <1>4, <1>5
<1>7. cache'.switches = cache.switches
  BY <1>2 DEF Cached, ComChanged
<1>8. isXPlane' = isXPlane
  BY <1>2 DEF SameKind, Evaluate
<1> QED
  BY <1>6, <1>7, <1>8

-----------------------------------------------------------------------------
(***************************************************************************)
(* The report and the caches.                                               *)
(***************************************************************************)
LEMMA ToldEvaluate == TypeOK /\ SameKind /\ Told /\ Evaluate => Told'
<1> SUFFICES ASSUME TypeOK, SameKind, Told, Evaluate PROVE Told'
  OBVIOUS
<1>0. /\ cache' = Cached(mem) /\ is833' = [r \in Radio |-> Is833(mem, r)]
      /\ here' = mem.place /\ cPlace' = (IF Moved(mem) THEN mem.place ELSE cPlace)
  BY DEF Evaluate
<1>1. \A r \in Radio : IF is833'[r] THEN cache'.w25[r] = None ELSE cache'.w833[r] = None
  BY <1>0 DEF Cached
<1>2. cPlace' # NaN => cPlace' = mem.place
  BY <1>0 DEF Moved
<1>3. CASE \E com, pos, other : report' = SimComData(is833', isXPlane', cache', here', com, pos, other)
  <2>1. /\ report'.act = [r \in Radio |-> Khz(is833', cache', r, 1)]
        /\ report'.sby = [r \in Radio |-> Khz(is833', cache', r, 2)]
        /\ report'.k833 = is833'
        /\ report'.selected = (IF isXPlane' THEN Radio \ cache'.switches ELSE cache'.switches)
        /\ report'.ground = cache'.ground
        /\ report'.place = here'
    BY <1>3 DEF SimComData
  <2> QED
    BY <1>0, <1>1, <1>2, <2>1 DEF Told
<1>4. CASE /\ report' = report /\ ~ ComChanged(mem) /\ ~ Moved(mem)
           /\ cache.ground = mem.ground /\ ~ firstConnectedPass
  <2>1. /\ is833' = is833 /\ isXPlane' = isXPlane
        /\ cache'.w25 = cache.w25 /\ cache'.w833 = cache.w833
        /\ cache'.switches = cache.switches
    BY <1>4, QuietPass
  <2>2. cache'.ground = cache.ground /\ cPlace' = cPlace
    BY <1>0, <1>4 DEF Cached
  <2>3. \A r \in Radio, i \in {1, 2} : Khz(is833', cache', r, i) = Khz(is833, cache, r, i)
    BY <2>1 DEF Khz
  <2>4. /\ report.act = [r \in Radio |-> Khz(is833, cache, r, 1)]
        /\ report.sby = [r \in Radio |-> Khz(is833, cache, r, 2)]
        /\ report.k833 = is833
        /\ report.selected = (IF isXPlane THEN Radio \ cache.switches ELSE cache.switches)
        /\ report.ground = cache.ground
        /\ cPlace # NaN => report.place = cPlace
    BY <1>4 DEF Told
  <2>5. /\ [r \in Radio |-> Khz(is833', cache', r, 1)] = [r \in Radio |-> Khz(is833, cache, r, 1)]
        /\ [r \in Radio |-> Khz(is833', cache', r, 2)] = [r \in Radio |-> Khz(is833, cache, r, 2)]
    BY <2>3
  <2> QED
    BY <1>1, <1>4, <2>1, <2>2, <2>4, <2>5 DEF Told
<1>5. CASE \/ ComChanged(mem) \/ Moved(mem) \/ cache.ground # mem.ground \/ counter' = 0
           \/ firstConnectedPass
  <2>1. report' = SimComData(is833', isXPlane', cache', here', ComChanged(mem), Moved(mem),
                             cache.ground # mem.ground \/ counter' = 0)
    BY <1>5 DEF Evaluate
  <2> QED
    BY <1>3, <2>1
<1>6. CASE ~ (\/ ComChanged(mem) \/ Moved(mem) \/ cache.ground # mem.ground \/ counter' = 0
              \/ firstConnectedPass)
  <2>1. report' = report
    BY <1>6 DEF Evaluate
  <2> QED
    BY <1>4, <1>6, <2>1
<1> QED
  BY <1>5, <1>6

LEMMA ToldStep == TypeOK /\ SameKind /\ Told /\ [Next]_vars => Told'
<1> SUFFICES ASSUME TypeOK, SameKind, Told, [Next]_vars PROVE Told'
  OBVIOUS
<1>1. CASE Evaluate
  BY <1>1, ToldEvaluate
<1>2. CASE Fail
  BY <1>2 DEF Fail, Told
<1>3. CASE UNCHANGED <<is833, isXPlane, cache, cPlace, report, firstConnectedPass>>
  BY <1>3 DEF Told, Khz
<1>4. CASE Loop \/ CheckConnection \/ ReadOffsets \/ SendRequests
  BY <1>3, <1>4 DEF Loop, CheckConnection, ReadOffsets, SendRequests, readings, passes, told
<1>5. CASE Ask \/ CloseUnder \/ Join
  BY <1>3, <1>5 DEF Ask, CloseUnder, Join, unstopped, readings, passes, told
<1>6. CASE \/ \E kind \in Kind : SimStarts(kind)
           \/ SimHangs \/ SimRecovers \/ SimEnds \/ PilotActs \/ Handle833ModeChange
  BY <1>3, <1>6 DEF SimStarts, SimHangs, SimRecovers, SimEnds, PilotActs, Handle833ModeChange,
                    inside, readings, passes, told
<1>7. CASE UNCHANGED vars
  BY <1>3, <1>7 DEF vars
<1> QED
  BY <1>1, <1>2, <1>4, <1>5, <1>6, <1>7 DEF Next, Worker

LEMMA CountedStep == TypeOK /\ Counted /\ [Next]_vars => Counted'
<1> SUFFICES ASSUME TypeOK, Counted, [Next]_vars PROVE Counted'
  OBVIOUS
<1>0. /\ counter \in Nat /\ quiet \in Nat /\ quiet <= counter /\ counter' \in Nat
  <2>1. TypeOK'
    BY TypeStep
  <2> QED
    BY <2>1, WrapperAssumption, SMT DEF TypeOK, Counted
<1>1. CASE Evaluate
  <2>1. CASE quiet' = 0
    BY <1>0, <2>1, SMT DEF Counted
  <2>2. CASE quiet' = quiet + 1 /\ ~ Moved(mem) /\ counter' # 0
    <3>1. counter' = counter + 1
      BY <1>1, <2>2 DEF Evaluate, Count
    <3> QED
      BY <1>0, <2>2, <3>1, SMT DEF Counted
  <2> QED
    BY <1>1, <2>1, <2>2 DEF Evaluate
<1>2. CASE Fail
  <2>1. counter' = counter /\ (quiet' = 0 \/ quiet' = quiet)
    BY <1>2 DEF Fail, told
  <2> QED
    BY <1>0, <2>1, SMT DEF Counted
<1>3. CASE UNCHANGED <<counter, quiet>>
  BY <1>3 DEF Counted
<1>4. CASE Loop \/ CheckConnection \/ ReadOffsets \/ SendRequests
  BY <1>3, <1>4 DEF Loop, CheckConnection, ReadOffsets, SendRequests, passes, told
<1>5. CASE Ask \/ CloseUnder \/ Join
  BY <1>3, <1>5 DEF Ask, CloseUnder, Join, unstopped, passes, told
<1>6. CASE \/ \E kind \in Kind : SimStarts(kind)
           \/ SimHangs \/ SimRecovers \/ SimEnds \/ PilotActs \/ Handle833ModeChange
  BY <1>3, <1>6 DEF SimStarts, SimHangs, SimRecovers, SimEnds, PilotActs, Handle833ModeChange,
                    inside, passes, told
<1>7. CASE UNCHANGED vars
  BY <1>3, <1>7 DEF vars
<1> QED
  BY <1>1, <1>2, <1>4, <1>5, <1>6, <1>7 DEF Next, Worker

LEMMA Inductive ==
    /\ Init => IInv
    /\ IInv /\ [Next]_vars => IInv'
<1>1. Init => SameKind /\ Told /\ Counted
  BY DEF Init, SameKind, Told, Counted
<1> QED
  BY <1>1, TypeInit, LinkedInit, TypeStep, LinkedStep, SameKindStep, ToldStep, CountedStep
  DEF IInv

LEMMA Invariant == Spec => []IInv
  BY Inductive, PTL DEF Spec

(***************************************************************************)
(* A callback is never further away than the passes between two regular     *)
(* reports.                                                                 *)
(***************************************************************************)
THEOREM ReportsInTime == Spec => []ReportedInTime
<1>1. IInv => ReportedInTime
  <2> SUFFICES ASSUME IInv PROVE ReportedInTime
    OBVIOUS
  <2>1. quiet \in Nat /\ counter \in 0 .. ReportEvery - 1 /\ quiet <= counter
    BY DEF IInv, TypeOK, Counted
  <2> QED
    BY <2>1, WrapperAssumption, SMT DEF ReportedInTime
<1> QED
  BY <1>1, Invariant, PTL

-----------------------------------------------------------------------------
(***************************************************************************)
(* What has been told of an answer is the answer.                           *)
(***************************************************************************)
LEMMA WordsTell ==
    ASSUME NEW f \in Frequency
    PROVE  /\ Khz833(HzWord(f)) = f
           /\ f % 25 = 0 => Khz25(BcdWord(f)) = f
  BY HzComesBack, RasterComesBack, FrequencyRange DEF Raster

MadeOf(d, k, x, c) ==
    /\ d.act = [r \in Radio |-> Khz(k, c, r, 1)]
    /\ d.sby = [r \in Radio |-> Khz(k, c, r, 2)]
    /\ d.k833 = k
    /\ d.selected = (IF x THEN Radio \ c.switches ELSE c.switches)
    /\ d.ground = c.ground

LEMMA ToldTells ==
    ASSUME NEW p \in Panel, NEW k, NEW x, NEW c, NEW d,
           k = [r \in Radio |-> Is833(p, r)], x = (p.kind = "xplane"), c = Cached(p),
           MadeOf(d, k, x, c)
    PROVE  Tells(d, p)
<1>0. /\ d.act = [r \in Radio |-> Khz(k, c, r, 1)]
      /\ d.sby = [r \in Radio |-> Khz(k, c, r, 2)]
      /\ d.k833 = k
      /\ d.selected = (IF x THEN Radio \ c.switches ELSE c.switches)
      /\ d.ground = c.ground
  BY DEF MadeOf
<1>1. /\ p.transmit \subseteq Radio /\ p.act \in [Radio -> Frequency]
      /\ p.sby \in [Radio -> Frequency]
  BY DEF Panel
<1>2. d.selected = p.transmit /\ d.ground = p.ground
  BY <1>0, <1>1 DEF Cached, Switches
<1>3. ASSUME NEW r \in Radio
      PROVE  /\ d.k833[r] = Is833(p, r)
             /\ p.act[r] % 25 = 0 \/ d.k833[r] => d.act[r] = p.act[r]
             /\ p.sby[r] % 25 = 0 \/ d.k833[r] => d.sby[r] = p.sby[r]
  <2>1. d.k833[r] = Is833(p, r)
    BY <1>0
  <2>2. CASE Is833(p, r)
    <3>1. c.w833[r] = <<HzWord(p.act[r]), HzWord(p.sby[r])>>
      BY <2>2 DEF Cached, Words833
    <3>2. d.act[r] = Khz833(HzWord(p.act[r])) /\ d.sby[r] = Khz833(HzWord(p.sby[r]))
      BY <1>0, <2>1, <2>2, <3>1 DEF Khz
    <3> QED
      BY <1>1, <2>1, <3>2, WordsTell
  <2>3. CASE ~ Is833(p, r)
    <3>1. c.w25[r] = <<BcdWord(p.act[r]), BcdWord(p.sby[r])>>
      BY <2>3 DEF Cached, Words25
    <3>2. d.act[r] = Khz25(BcdWord(p.act[r])) /\ d.sby[r] = Khz25(BcdWord(p.sby[r]))
      BY <1>0, <2>1, <2>3, <3>1 DEF Khz
    <3> QED
      BY <1>1, <2>1, <2>3, <3>2, WordsTell
  <2> QED
    BY <2>2, <2>3
<1> QED
  BY <1>2, <1>3 DEF Tells

LEMMA CurrentStep ==
    IInv /\ [Next]_vars /\ pc = "evaluate" /\ pc' = "top"
      => Tells(report', mem) /\ (cPlace # NaN => report'.place = mem.place)
<1> SUFFICES ASSUME IInv, [Next]_vars, pc = "evaluate", pc' = "top"
             PROVE  Tells(report', mem) /\ (cPlace # NaN => report'.place = mem.place)
  OBVIOUS
<1>1. Evaluate
  BY DEF Next, Worker, Loop, CheckConnection, ReadOffsets, SendRequests, Fail, Ask, CloseUnder,
         Join, SimStarts, SimHangs, SimRecovers, SimEnds, PilotActs, Handle833ModeChange,
         inside, unstopped, vars
<1>2. Told' /\ ~ firstConnectedPass' /\ mem \in Panel
  <2>1. Told'
    BY <1>1, ToldEvaluate DEF IInv
  <2>2. mem \in Panel /\ firstConnectedPass \in BOOLEAN
    BY DEF IInv, TypeOK
  <2> QED
    BY <1>1, <2>1, <2>2 DEF Evaluate
<1>3. /\ is833' = [r \in Radio |-> Is833(mem, r)] /\ isXPlane' = (mem.kind = "xplane")
      /\ cache' = Cached(mem)
  BY <1>1 DEF Evaluate
<1>4. /\ MadeOf(report', is833', isXPlane', cache')
      /\ cPlace' # NaN => report'.place = cPlace'
  BY <1>2 DEF Told, MadeOf
<1>5. Tells(report', mem)
  BY <1>2, <1>3, <1>4, ToldTells
<1>6. cPlace # NaN => report'.place = mem.place
  <2>1. mem.place \in Place
    BY <1>2 DEF Panel
  <2>2. cPlace # NaN => cPlace' = mem.place /\ cPlace' # NaN
    BY <1>1, <2>1, WrapperAssumption DEF Evaluate, Moved
  <2> QED
    BY <1>4, <2>2
<1> QED
  BY <1>5, <1>6

(***************************************************************************)
(* Whatever was read before, after a pass that got an answer the plugin has *)
(* been told that answer, on every frequency of the band.                   *)
(***************************************************************************)
THEOREM ReportsAreCurrent == Spec => ReportIsCurrent
<1>1. IInv /\ [Next]_vars
        => [ (pc = "evaluate" /\ pc' = "top")
               => /\ Tells(report', mem)
                  /\ cPlace # NaN => report'.place = mem.place ]_vars
  BY CurrentStep
<1> QED
  BY <1>1, Invariant, PTL DEF Spec, ReportIsCurrent

-----------------------------------------------------------------------------
(***************************************************************************)
(* The worker implements the feed.  A connection made is Opened, one lost   *)
(* before or after a report is Dropped, a callback is Report or Lost.       *)
(***************************************************************************)
CauseOf(d) == IF d.com THEN "com" ELSE IF d.pos THEN "pos"
              ELSE IF d.other THEN "other" ELSE "none"

DataOf(d) == [freq |-> TunedTo(d), cause |-> CauseOf(d)]

LEMMA DataType ==
    ASSUME NEW d \in Reports
    PROVE  DataOf(d) \in Feed!SimData
<1>1. TunedTo(d) \in Heard \cup {0}
  <2>1. CASE Cardinality(d.selected) # 1
    BY <2>1 DEF TunedTo
  <2>2. CASE Cardinality(d.selected) = 1
    <3>1. d.selected \subseteq Radio /\ d.act \in [Radio -> Heard]
      BY DEF Reports
    <3>2. PICK r : d.selected = {r}
      <4>1. IsFiniteSet(d.selected)
        <5>1. IsFiniteSet(Radio)
          <6>1. IsFiniteSet({"Com1"})
            BY FS_Singleton
          <6>2. IsFiniteSet({"Com1"} \cup {"Com2"})
            BY <6>1, FS_AddElement
          <6>3. Radio = {"Com1"} \cup {"Com2"}
            BY DEF Radio
          <6> QED
            BY <6>2, <6>3
        <5> QED
          BY <3>1, <5>1, FS_Subset
      <4>2. d.selected # {}
        BY <2>2, FS_EmptySet
      <4>3. PICK r \in d.selected : TRUE
        BY <4>2
      <4>4. Cardinality(d.selected \ {r}) = 0
        BY <2>2, <4>1, <4>3, FS_RemoveElement, SMT
      <4>5. d.selected \ {r} = {}
        <5>1. IsFiniteSet(d.selected \ {r})
          BY <4>1, FS_Subset
        <5> QED
          BY <4>4, <5>1, FS_EmptySet
      <4> QED
        BY <4>3, <4>5
    <3>3. r \in Radio
      BY <3>1, <3>2
    <3>4. (CHOOSE s \in Radio : d.selected = {s}) \in Radio
      BY <3>2, <3>3
    <3>5. d.act[CHOOSE s \in Radio : d.selected = {s}] \in Heard
      BY <3>1, <3>4
    <3> QED
      BY <2>2, <3>5 DEF TunedTo
  <2> QED
    BY <2>1, <2>2
<1>2. CauseOf(d) \in {"com", "pos", "other", "none"}
  BY DEF CauseOf
<1> QED
  BY <1>1, <1>2 DEF DataOf, Feed!SimData

\* Before anything was reported.
LEMMA NoReportData == DataOf(NoReport) = Feed!NoData
<1>1. TunedTo(NoReport) = 0
  BY FS_EmptySet DEF TunedTo, NoReport
<1>2. CauseOf(NoReport) = "none"
  BY DEF CauseOf, NoReport
<1> QED
  BY <1>1, <1>2 DEF DataOf, Feed!NoData, Feed!Data

\* The frequency told depends on the radios and the switches only.
LEMMA TunedAlike ==
    ASSUME NEW d, NEW e, d.act = e.act, d.selected = e.selected
    PROVE  TunedTo(d) = TunedTo(e)
  BY DEF TunedTo

Stutters == UNCHANGED <<isConnected, isConnected /\ firstConnectedPass,
                        firstDisconnectedPass, report>>

LEMMA StuttersFeed == Stutters => UNCHANGED Feed!feed
  BY DEF Stutters, Feed!feed

LEMMA OpenedFeed ==
    ASSUME ~ isConnected, isConnected' = TRUE, firstConnectedPass' = TRUE,
           UNCHANGED <<firstDisconnectedPass, report>>
    PROVE  Feed!FeedNext
  BY DEF Feed!FeedNext, Feed!Opened

LEMMA DroppedFeed ==
    ASSUME isConnected, isConnected' = FALSE, UNCHANGED <<firstDisconnectedPass, report>>
    PROVE  Feed!FeedNext
  BY DEF Feed!FeedNext, Feed!Dropped

LEMMA EvaluateFeed ==
    ASSUME IInv, Evaluate, TypeOK'
    PROVE  Feed!FeedNext \/ UNCHANGED Feed!feed
<1>1. isConnected /\ isConnected' = isConnected /\ isConnected \in BOOLEAN
  BY DEF IInv, TypeOK, Linked, Evaluate
<1>2. firstDisconnectedPass' = TRUE /\ firstConnectedPass \in BOOLEAN
      /\ firstDisconnectedPass \in BOOLEAN
  BY DEF Evaluate, IInv, TypeOK
<1>3. CASE \/ ComChanged(mem) \/ Moved(mem) \/ (cache.ground # mem.ground \/ counter' = 0)
           \/ firstConnectedPass
  <2>1. /\ report' = SimComData(is833', isXPlane', cache', here', ComChanged(mem), Moved(mem),
                                cache.ground # mem.ground \/ counter' = 0)
        /\ firstConnectedPass' = FALSE
    BY <1>3 DEF Evaluate
  <2>2. /\ report'.com = ComChanged(mem) /\ report'.pos = Moved(mem)
        /\ report'.other = (cache.ground # mem.ground \/ counter' = 0)
    BY <2>1 DEF SimComData
  <2>3. DataOf(report') \in Feed!SimData
    BY DataType DEF TypeOK
  <2>4. CauseOf(report') = "none" => firstConnectedPass
    BY <1>3, <2>2 DEF CauseOf
  <2>5. TunedTo(report') # TunedTo(report) => CauseOf(report') = "com" \/ firstConnectedPass
    <3>1. SUFFICES ASSUME ~ ComChanged(mem), ~ firstConnectedPass
                   PROVE  TunedTo(report') = TunedTo(report)
      BY <2>2 DEF CauseOf
    <3>2. /\ is833' = is833 /\ isXPlane' = isXPlane
          /\ cache'.w25 = cache.w25 /\ cache'.w833 = cache.w833
          /\ cache'.switches = cache.switches
      BY <3>1, QuietPass DEF IInv
    <3>3. [r \in Radio |-> Khz(is833', cache', r, 1)] = [r \in Radio |-> Khz(is833, cache, r, 1)]
      BY <3>2 DEF Khz
    <3>4. /\ report.act = [r \in Radio |-> Khz(is833, cache, r, 1)]
          /\ report.selected = (IF isXPlane THEN Radio \ cache.switches ELSE cache.switches)
      BY <3>1 DEF IInv, Told
    <3>5. /\ report'.act = [r \in Radio |-> Khz(is833', cache', r, 1)]
          /\ report'.selected = (IF isXPlane' THEN Radio \ cache'.switches ELSE cache'.switches)
      BY <2>1 DEF SimComData
    <3>6. report'.act = report.act /\ report'.selected = report.selected
      BY <3>2, <3>3, <3>4, <3>5
    <3> QED
      BY <3>6, TunedAlike
  <2>6. Feed!Report(DataOf(report'))
    <3>1. (isConnected /\ firstConnectedPass)' = FALSE
      BY <2>1
    <3>2. DataOf(report').cause = CauseOf(report') /\ DataOf(report').freq = TunedTo(report')
      BY DEF DataOf
    <3> QED
      BY <1>1, <1>2, <2>4, <2>5, <3>1, <3>2 DEF Feed!Report, DataOf, CauseOf
  <2> QED
    BY <2>3, <2>6 DEF Feed!FeedNext
<1>4. CASE ~ (\/ ComChanged(mem) \/ Moved(mem) \/ (cache.ground # mem.ground \/ counter' = 0)
              \/ firstConnectedPass)
  <2>1. report' = report /\ firstConnectedPass' = firstConnectedPass
    BY <1>4 DEF Evaluate
  <2>2. firstDisconnectedPass = TRUE
    BY <1>2, <1>4 DEF IInv, Linked
  <2> QED
    BY <1>1, <1>2, <2>1, <2>2, StuttersFeed DEF Stutters
<1> QED
  BY <1>3, <1>4

LEMMA FailFeed ==
    ASSUME IInv, Fail, TypeOK'
    PROVE  Feed!FeedNext \/ UNCHANGED Feed!feed
<1>1. ~ isConnected /\ isConnected' = FALSE /\ isConnected \in BOOLEAN
      /\ firstDisconnectedPass' = FALSE /\ firstDisconnectedPass \in BOOLEAN
      /\ firstConnectedPass \in BOOLEAN
  BY DEF IInv, TypeOK, Linked, Fail
<1>2. CASE firstDisconnectedPass
  <2>1. report' = SimComData(is833, isXPlane, cache, here, FALSE, FALSE, FALSE)
    BY <1>2 DEF Fail
  <2>2. DataOf(report') \in Feed!SimData
    BY DataType DEF TypeOK
  <2>3. CauseOf(report') = "none"
    BY <2>1 DEF SimComData, CauseOf
  <2>4. TunedTo(report') # TunedTo(report) => DataOf(report) = Feed!NoData
    <3>1. CASE firstConnectedPass
      BY <1>2, <3>1, NoReportData DEF IInv, Linked
    <3>2. CASE ~ firstConnectedPass
      <4>1. report'.act = report.act /\ report'.selected = report.selected
        BY <2>1, <3>2 DEF IInv, Told, SimComData
      <4> QED
        BY <4>1, TunedAlike
    <3> QED
      BY <3>1, <3>2
  <2>5. Feed!Lost(DataOf(report'))
    <3>1. DataOf(report').cause = CauseOf(report') /\ DataOf(report').freq = TunedTo(report')
      BY DEF DataOf
    <3> QED
      BY <1>1, <1>2, <2>3, <2>4, <3>1 DEF Feed!Lost, DataOf, CauseOf
  <2> QED
    BY <2>2, <2>5 DEF Feed!FeedNext
<1>3. CASE ~ firstDisconnectedPass
  <2>1. report' = report
    BY <1>3 DEF Fail, told
  <2> QED
    BY <1>1, <1>3, <2>1, StuttersFeed DEF Stutters
<1> QED
  BY <1>2, <1>3

LEMMA FeedStep == IInv /\ [Next]_vars => [Feed!FeedNext]_(Feed!feed)
<1> SUFFICES ASSUME IInv, [Next]_vars PROVE Feed!FeedNext \/ UNCHANGED Feed!feed
  OBVIOUS
<1>0. /\ isConnected \in BOOLEAN /\ firstConnectedPass \in BOOLEAN
      /\ firstDisconnectedPass \in BOOLEAN /\ TypeOK'
  BY TypeStep DEF IInv, TypeOK
<1>1. CASE Evaluate
  BY <1>0, <1>1, EvaluateFeed
<1>2. CASE Fail
  BY <1>0, <1>2, FailFeed
<1>3. CASE UNCHANGED <<isConnected, firstConnectedPass, firstDisconnectedPass, report>>
  BY <1>3, StuttersFeed DEF Stutters
<1>4. CASE CheckConnection
  <2>1. UNCHANGED <<firstConnectedPass, firstDisconnectedPass, report>>
    BY <1>4 DEF CheckConnection, passes, told
  <2>2. isConnected' \in BOOLEAN
    BY <1>0 DEF TypeOK
  <2>3. CASE isConnected' = isConnected
    BY <1>3, <2>1, <2>3
  <2>4. CASE isConnected' # isConnected
    <3>1. ~ isConnected /\ isConnected' = TRUE /\ firstConnectedPass
      BY <1>0, <1>4, <2>2, <2>4 DEF CheckConnection, IInv, Linked
    <3> QED
      BY <1>0, <2>1, <3>1, OpenedFeed
  <2> QED
    BY <2>3, <2>4
<1>5. CASE ReadOffsets
  <2>1. UNCHANGED <<firstConnectedPass, firstDisconnectedPass, report>>
    BY <1>5 DEF ReadOffsets, passes, told
  <2>2. isConnected' \in BOOLEAN /\ (~ isConnected => isConnected' = FALSE)
    BY <1>0, <1>5 DEF TypeOK, ReadOffsets, CanRead, IsOpen, IInv, Linked
  <2>3. CASE isConnected' = isConnected
    BY <1>3, <2>1, <2>3
  <2>4. CASE isConnected /\ isConnected' = FALSE
    BY <2>1, <2>4, DroppedFeed
  <2> QED
    BY <1>0, <2>2, <2>3, <2>4
<1>6. CASE SendRequests
  <2>1. UNCHANGED <<firstConnectedPass, firstDisconnectedPass, report>>
    BY <1>6 DEF SendRequests, passes, told
  <2>2. isConnected' \in BOOLEAN /\ (~ isConnected /\ isConnected' => firstConnectedPass)
    BY <1>0, <1>6 DEF TypeOK, SendRequests, Answers, IInv, Linked
  <2>3. CASE isConnected' = isConnected
    BY <1>3, <2>1, <2>3
  <2>4. CASE isConnected /\ isConnected' = FALSE
    BY <2>1, <2>4, DroppedFeed
  <2>5. CASE ~ isConnected /\ isConnected' = TRUE
    BY <1>0, <2>1, <2>2, <2>5, OpenedFeed
  <2> QED
    BY <1>0, <2>2, <2>3, <2>4, <2>5
<1>7. CASE Loop
  BY <1>3, <1>7 DEF Loop, passes, told
<1>8. CASE Ask \/ CloseUnder \/ Join
  BY <1>3, <1>8 DEF Ask, CloseUnder, Join, unstopped, passes, told
<1>9. CASE \/ \E kind \in Kind : SimStarts(kind)
           \/ SimHangs \/ SimRecovers \/ SimEnds \/ PilotActs \/ Handle833ModeChange
  BY <1>3, <1>9 DEF SimStarts, SimHangs, SimRecovers, SimEnds, PilotActs, Handle833ModeChange,
                    inside, passes, told
<1>10. CASE UNCHANGED vars
  BY <1>3, <1>10 DEF vars
<1> QED
  BY <1>1, <1>2, <1>4, <1>5, <1>6, <1>7, <1>8, <1>9, <1>10 DEF Next, Worker

(***************************************************************************)
(* The worker is a feed for the tuning control: every step of both threads, *)
(* the simulator and the pilot is a step of SimFeed or none.                *)
(***************************************************************************)
THEOREM WorkerImplementsFeed == Spec => WorkerFeeds
<1>1. Init => Feed!FeedInit
  BY NoReportData DEF Init, Feed!FeedInit, DataOf, CauseOf
<1> QED
  BY <1>1, FeedStep, Invariant, PTL DEF Spec, WorkerFeeds, Feed!FeedSpec

=============================================================================
