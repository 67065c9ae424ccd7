---------------------------- MODULE MCTS3Channels ----------------------------
(***************************************************************************)
(* Values for the constants of TS3Channels that a cfg cannot write.         *)
(***************************************************************************)
EXTENDS ChannelList, TLC

CONSTANTS near, far

MCRootRow == [parent |-> CHANNEL_ROOT, range |-> 0, place |-> NoPosition]

Station(rows, range, place) == [rows |-> rows, range |-> range, place |-> place]

\* A tower at one place, a wide station on two frequencies at the other, an area without
\* a position on the second: to a lookup of either frequency one of them is not tuned.
MCFacts == { Station({<<118500, TRUE>>}, 50, near),
               Station({<<118500, TRUE>>, <<131405, TRUE>>}, 400, far),
               Station({<<131405, TRUE>>}, 100, NoPosition) }

\* The aircraft close to each place, between them and out of range of near, out of range.
MCDistances == { [p \in {near, far} |-> IF p = near THEN 20 ELSE 300],
                 [p \in {near, far} |-> IF p = near THEN 300 ELSE 20],
                 [p \in {near, far} |-> IF p = near THEN 60 ELSE 300],
                 [p \in {near, far} |-> IF p = near THEN 60 ELSE 500] }

Symmetry == Permutations(Channel)
=============================================================================
