--------------------------- MODULE MCChannelMirror ---------------------------
(***************************************************************************)
(* Values for the constants of ChannelMirror that a cfg cannot write.       *)
(***************************************************************************)
EXTENDS ChannelMirror, TLC

CONSTANT Here

Gatwick(type) == <<"EGKK", type>>

MCIdent == {Gatwick("TWR")}

\* A station database that knows it, with one assignment.
MCStationData ==
    (Gatwick("TWR") :> << [type |-> "TWR", frequency |-> 124225, place |-> Here] >>)
      @@ (NoIdent :> <<>>)

\* "118.505 240.500", the second for military radios only; "240.500"; a tower's name.
Mixed    == Text({[khz |-> 118505, dp |-> 3], [khz |-> 240500, dp |-> 3]}, NoIdent, NoPlace)
Military == Text({[khz |-> 240500, dp |-> 3]}, NoIdent, NoPlace)
Tower    == Text({}, Gatwick("TWR"), NoPlace)

Silent          == {EmptyText}
TwoNames        == {Tower, Military}
TwoDescriptions == {EmptyText, Mixed}

Symmetry == Permutations(Channel)
=============================================================================
