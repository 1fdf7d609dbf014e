-------------------------------- MODULE MCOs --------------------------------
(***************************************************************************)
(* The kernel's queue and its mutexes, which share no state: each          *)
(* behaviour is of one of them, while the other rests.                     *)
(***************************************************************************)
EXTENDS OsQueue, OsMutex, TLC

CONSTANTS high, upper, lower, low

(* Three tasks on a queue of two places: one receives for ever, one sends  *)
(* for ever or receives with a time-out, one sends with a time-out or to   *)
(* the front; the interrupt sends.                                         *)
C(op, wait, item) == [op |-> op, wait |-> wait, item |-> item]

MCCallsOf ==
    (1 :> {C("recv", "forever", 1)}) @@
    (2 :> {C("recv", "timed", 1), C("back", "forever", 2)}) @@
    (3 :> {C("back", "timed", 1), C("front", "poll", 1)})

MCIsrSends == {C("back", "poll", 2)}

(* Four tasks of different priorities and two mutexes.                     *)
MCPriority == (high :> 4) @@ (upper :> 3) @@ (lower :> 2) @@ (low :> 1)

VARIABLE part

MCInit == QInit /\ MInit /\ part \in {"queue", "mutex"}

MCNext ==
    /\ \/ part = "queue" /\ QNext /\ UNCHANGED mvars
       \/ part = "mutex" /\ MNext /\ UNCHANGED qvars
    /\ UNCHANGED part

MCSpec == MCInit /\ [][MCNext]_<<qvars, mvars, part>> /\ QFairness
=============================================================================
