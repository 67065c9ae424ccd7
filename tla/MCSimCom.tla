------------------------------ MODULE MCSimCom ------------------------------
(***************************************************************************)
(* Values for the constants of SimCom that a cfg cannot write: a server     *)
(* with a lobby and, under the channel of the simulator, two towers.        *)
(***************************************************************************)
EXTENDS SimCom, TLC

CONSTANTS lobby, field, towerA, towerB

MCRootRow == [parent |-> CHANNEL_ROOT, range |-> 0, place |-> NoPosition]

Row(ch, parent, rows) ==
    [ch |-> ch, parent |-> parent,
     facts |-> [rows |-> rows, range |-> 0, place |-> NoPosition]]

FreqA == 118500
FreqB == 124225
Silence == 121700

MCTree == << Row(lobby, CHANNEL_ROOT, {}), Row(field, CHANNEL_ROOT, {}),
             Row(towerA, field, {<<FreqA, FALSE>>}),
             Row(towerB, field, {<<FreqB, FALSE>>}) >>

\* One tower only.
MCSmallTree == SubSeq(MCTree, 1, 3)

TwoTowers     == {FreqA, FreqB}
TowerOrNone   == {FreqA, Silence}
OneTower      == {FreqA}
NoTower       == {Silence}
=============================================================================
