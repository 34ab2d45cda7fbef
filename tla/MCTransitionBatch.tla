---------------------------- MODULE MCTransitionBatch ----------------------------
(***************************************************************************)
(* Two profiles at the floors parse_profile sets: one without a service    *)
(* fee, and one with a fee of one cell for every note consumed.            *)
(***************************************************************************)
EXTENDS TransitionBatch

ZeroFeeProfile ==
    [flat |-> FALSE, cellValue |-> 4, minConsumedNotes |-> 2, createdNotes |-> 2, minCellsPerNote |-> 2,
     minConsumedCells |-> 5, minCreatedCells |-> 5, maxCreatedCells |-> 8, surplus |-> 1, flatFee |-> 0,
     packetCount |-> 2, maxRecoveryCells |-> 8, carrierCount |-> 15, sealCategory |-> 7, relation |-> "relation"]
FlatFeeProfile == [ZeroFeeProfile EXCEPT !.flat = TRUE, !.flatFee = 4]

BothProfiles == {ZeroFeeProfile, FlatFeeProfile}
ZeroFee == {ZeroFeeProfile}
NoPadding == {0}
\* Enough verifier-only inputs to give the last cell an input index above 255.
WidePadding == {251}
==================================================================================
