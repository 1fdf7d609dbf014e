------------------------------ MODULE MCDrivers ------------------------------
(***************************************************************************)
(* The scan and the station, which share no state: each behaviour is of    *)
(* one of them, while the other rests.                                     *)
(***************************************************************************)
EXTENDS WifiScan, Station, TLC

VARIABLE part

MCInit == SInit /\ NInit /\ part \in {"scan", "station"}

MCNext ==
    /\ \/ part = "scan"    /\ SNext /\ UNCHANGED nvars
       \/ part = "station" /\ NNext /\ UNCHANGED svars
    /\ UNCHANGED part

MCSpec == MCInit /\ [][MCNext]_<<svars, nvars, part>> /\ SFairness /\ NFairness
=============================================================================
