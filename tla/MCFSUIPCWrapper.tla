--------------------------- MODULE MCFSUIPCWrapper ---------------------------
(***************************************************************************)
(* Values for the constants of FSUIPCWrapper that a cfg cannot write: a     *)
(* frequency of the 8.33 kHz grid and one whose last digit BCD does not     *)
(* hold; a cockpit with both radios on the latter, transmitting on Com1.    *)
(***************************************************************************)
EXTENDS FSUIPCWrapper

MCFrequency == {118505, 124225}

MCStartPanels ==
    { [kind |-> "plain", act |-> [r \in Radio |-> 124225], sby |-> [r \in Radio |-> 124225],
       narrow |-> [r \in Radio |-> FALSE], transmit |-> {"Com1"}, ground |-> FALSE,
       place |-> p] : p \in {CHOOSE p \in Place : TRUE} }
=============================================================================
