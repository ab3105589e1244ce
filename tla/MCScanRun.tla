----------------------------- MODULE MCScanRun -----------------------------
(***************************************************************************)
(* Instances of ScanRun for TLC.                                           *)
(***************************************************************************)
EXTENDS ScanRun, TLC

CONSTANTS w1, w2

MCWorker == {w1, w2}
OneShard == {1}
TwoShards == {1, 2}
AllDisturbances == {"crash", "restart", "pause", "late", "resend", "cancel"}
Crash == {"crash"}
CrashRestartCancel == {"crash", "restart", "cancel"}
Cancel == {"cancel"}
Pause == {"pause"}
NoDisturbance == {}

\* The workers are interchangeable; only for runs without a liveness property.
Symmetry == Permutations(MCWorker)
=============================================================================
