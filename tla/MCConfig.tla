------------------------------ MODULE MCConfig ------------------------------
(***************************************************************************)
(* Values for the constants of Config that a cfg cannot write.              *)
(***************************************************************************)
EXTENDS Config, Naturals, TLC

Apart(s, t, keys) == Cardinality({k \in keys : s[k] # t[k]})

\* The buttons show any mode with at most one other setting that is not the default,
\* and differ from what is saved in two settings at the most.
MCCombinations ==
    {<<s, t>> \in Settings \X Settings :
        /\ Apart(t, Defaults, DOMAIN t \ {"mode"}) <= 1
        /\ Apart(s, t, DOMAIN t) <= 2}

Symmetry == Permutations(Channel)
=============================================================================
