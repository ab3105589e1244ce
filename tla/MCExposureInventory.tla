------------------------ MODULE MCExposureInventory ------------------------
(***************************************************************************)
(* Instances of ExposureInventory for TLC.                                 *)
(***************************************************************************)
EXTENDS ExposureInventory, TLC

CONSTANTS ssh, web

TwoRuns == {1, 2}
MCService == {ssh, web}
AllDisturbances == {"restart", "overlap"}
Restart1 == {"restart"}
=============================================================================
