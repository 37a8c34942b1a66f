-------------------------------- MODULE MCUTss --------------------------------
(***************************************************************************)
(* Instances of UTss for TLC.                                              *)
(***************************************************************************)
EXTENDS UTss, TLC

CONSTANTS v1, v2, v3

\* A new chain whose admin adds validators, recomputes ballots and reactivates anyone.
Bootstrap ==
    [founders |-> {}, adminTypes |-> {}, doublesigners |-> {}, checksBonded |-> FALSE, recomputes |-> TRUE]

\* A running chain whose admin starts processes of every type; v3 may join and double-sign.
Settled ==
    [founders |-> {v1, v2}, adminTypes |-> ProcessTypes, doublesigners |-> {v3},
     checksBonded |-> TRUE, recomputes |-> FALSE]

BothEnvironments == {Bootstrap, Settled}

\* v1 and v2 play the same part in both environments.
Symmetry == Permutations({v1, v2})
=============================================================================
