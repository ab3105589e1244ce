--------------------------- MODULE MCAttemptFiles ---------------------------
(***************************************************************************)
(* An instance of AttemptFiles for TLC: two workers of one host and one of *)
(* another.                                                                *)
(***************************************************************************)
EXTENDS AttemptFiles

CONSTANTS w1, w2, w3, near, far

MCWorker == {w1, w2, w3}
MCHost == {near, far}
MCHostOf == [w \in MCWorker |-> IF w = w3 THEN far ELSE near]
AllDisturbances == {"crash", "resend", "pause", "late"}
=============================================================================
