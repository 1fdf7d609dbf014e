------------------------------- MODULE MCSafety ------------------------------
(***************************************************************************)
(* The parts of which only safety is asked: the flash with the updater,    *)
(* two tasks that write with the lock and one that keeps the fast connect  *)
(* information without it; the port's receive side with two tasks; the     *)
(* search in a stream such as the port, for which all that comes is        *)
(* letters; the hardware timers with the same two tasks; and the software  *)
(* timers.  They share no state, and each behaviour is of one of them,     *)
(* while the others rest.                                                  *)
(***************************************************************************)
EXTENDS FlashShare, SerialRx, StreamFind, HwTimer, SoftTimer, TLC

CONSTANTS sketch, other, kv, log
MCTasks   == {sketch, other}
MCWriters == {kv, log}
Symmetric == Permutations(MCTasks) \cup Permutations(MCWriters)

(* Every target of up to five letters, and every two of up to three.       *)
Words(n)   == UNION {[1 .. k -> Letters] : k \in 0 .. n}
MCSearches == {<<w>> : w \in Words(5)} \cup (Words(3) \X Words(3))

VARIABLE part

MCInit ==
    /\ FlashInit /\ Init /\ FInit /\ TInit /\ WInit
    /\ part \in {"flash", "port", "find", "hard", "soft"}
    /\ part # "soft" => tick = 0 /\ lastTime = 0

MCNext ==
    /\ \/ part = "flash" /\ FlashNext /\ UNCHANGED <<vars, fvars, tvars, wvars>>
       \/ part = "port"  /\ Next      /\ UNCHANGED <<flashVars, fvars, tvars, wvars>>
       \/ part = "find"  /\ FNext     /\ UNCHANGED <<flashVars, vars, tvars, wvars>>
       \/ part = "hard"  /\ TNext     /\ UNCHANGED <<flashVars, vars, fvars, wvars>>
       \/ part = "soft"  /\ WNext     /\ UNCHANGED <<flashVars, vars, fvars, tvars>>
    /\ UNCHANGED part

MCSpec == MCInit /\ [][MCNext]_<<flashVars, vars, fvars, tvars, wvars, part>>
=============================================================================
