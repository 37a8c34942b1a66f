---------------------------- MODULE MCVoteClient ----------------------------
(* Instances of VoteClient for TLC.                                         *)
EXTENDS VoteClient

Alone ==
    [start |-> "config", lag |-> 0, misses |-> FALSE, failed |-> FALSE,
     up |-> {Self}, faults |-> 2]

AllEnvironments ==
    {Alone, [Alone EXCEPT !.up = Validators, !.faults = 1]} \cup
    {[e EXCEPT !.faults = 1] :
        e \in {[Alone EXCEPT !.lag = 1], [Alone EXCEPT !.lag = 2],
               [Alone EXCEPT !.failed = TRUE], [Alone EXCEPT !.start = "latest"],
               [Alone EXCEPT !.misses = TRUE]}}
=============================================================================
