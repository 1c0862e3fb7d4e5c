--------------------------- MODULE MCBlockProduction ---------------------------
(* Two authorities, a validator that may lose its seat, and an epoch       *)
(* boundary at block 2.                                                    *)
EXTENDS BlockProduction

CONSTANTS n1, n2, v1, v2

AnySeat(seats, number) == CHOOSE v \in seats : TRUE

MCSeats == {{v1, v2}, {v1}}

MCGenesisDraw == [slot \in 0 .. EpochLength - 1 |-> IF slot = 0 THEN v1 ELSE v2]

MCFailing == {<<n2, 2>>}

=============================================================================
