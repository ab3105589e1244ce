--------------------------- MODULE MCExposureDiff ---------------------------
(***************************************************************************)
(* Instance of ExposureDiff for TLC: a gateway with one of two ports open, *)
(* of which one is upgraded at times, with none, or gone, and a database   *)
(* that has one port or is gone.                                           *)
(***************************************************************************)
EXTENDS ExposureDiff, FiniteSets, TLC

CONSTANTS gateway, database, ssh, web, old, new

MCHost == {gateway, database}
MCPort == {ssh, web}
MCFingerprint == {old, new}

MCServices ==
  {s \in Services :
     /\ <<database, web>> \notin DOMAIN s
     /\ Cardinality({k \in DOMAIN s : k[1] = gateway}) <= 1
     /\ \A k \in DOMAIN s : k # <<gateway, ssh>> => s[k] = old}

MCNetworks ==
  {[up |-> {k[1] : k \in DOMAIN s} \cup idle, open |-> s] : s \in MCServices, idle \in {{}, {gateway}}}
=============================================================================
