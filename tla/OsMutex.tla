------------------------------ MODULE OsMutex -------------------------------
(***************************************************************************)
(* The mutexes of tkl_mutex.c (not recursive, waited for without an end)   *)
(* with FreeRTOS's priority inheritance, under its scheduler: of the tasks *)
(* that are ready one of the highest priority runs.  No interrupt touches  *)
(* a mutex, and a task that waits puts itself on the list with the         *)
(* scheduler suspended: locking is one step (OsQueue has the details).     *)
(*                                                                         *)
(* A task takes several mutexes in one order, releases them in any, and    *)
(* may sleep at any time outside a call.                                   *)
(***************************************************************************)
EXTENDS Integers, Sequences

CONSTANTS Threads, Mutexes, Priority, Nobody

ASSUME MutexAssumption ==
    /\ Mutexes \in SUBSET Int /\ Nobody \notin Threads \cup Mutexes
    /\ Priority \in [Threads -> Nat]

VARIABLES
    prio, held,     \* uxPriority and uxMutexesHeld of each task
    holder,         \* pxMutexHolder of each mutex
    waiters,        \* xTasksWaitingToReceive of each mutex, first to wake first
    wants,          \* the mutex each task is locking
    asleep          \* the tasks that wait for something else

mvars == <<prio, held, holder, waiters, wants, asleep>>

MInit ==
    /\ prio = Priority /\ held = [t \in Threads |-> 0]
    /\ holder = [m \in Mutexes |-> Nobody] /\ waiters = [m \in Mutexes |-> <<>>]
    /\ wants = [t \in Threads |-> Nobody] /\ asleep = {}

OnList(t, m) == \E i \in DOMAIN waiters[m] : waiters[m][i] = t
Ready(t)     == t \notin asleep /\ \A m \in Mutexes : ~ OnList(t, m)
Running(t)   == Ready(t) /\ \A u \in Threads : Ready(u) => prio[u] <= prio[t]

(* A call to lock m begins, or a task that was woken looks again.          *)
Locking(t, m) ==
    /\ Running(t)
    /\ \/ wants[t] = m
       \/ wants[t] = Nobody /\ \A n \in Mutexes : holder[n] = t => n < m

(* Mutant: uxMutexesHeld counts only the first mutex.                      *)
LockFree_uncounted(t, m) ==
    /\ Locking(t, m) /\ holder[m] = Nobody
    /\ holder' = [holder EXCEPT ![m] = t]
    /\ held' = [held EXCEPT ![t] = 1]
    /\ wants' = [wants EXCEPT ![t] = Nobody]
    /\ UNCHANGED <<prio, waiters, asleep>>

LockFree(t, m) ==
    /\ Locking(t, m) /\ holder[m] = Nobody
    /\ holder' = [holder EXCEPT ![m] = t]
    /\ held' = [held EXCEPT ![t] = @ + 1]           \* pvTaskIncrementMutexHeldCount
    /\ wants' = [wants EXCEPT ![t] = Nobody]
    /\ UNCHANGED <<prio, waiters, asleep>>

(* vListInsert: behind the tasks of its priority and above.                *)
vListInsert(s, t) ==
    LET Above == {i \in DOMAIN s : \A j \in 1 .. i : prio[s[j]] >= prio[t]}
        k     == IF Above = {} THEN 0 ELSE CHOOSE i \in Above : \A j \in Above : j <= i
    IN  SubSeq(s, 1, k) \o <<t>> \o SubSeq(s, k + 1, Len(s))

(* Mutant: the waiting task is taken to be the higher one.                 *)
vTaskPriorityInherit_reversed(h, t) ==
    prio' = [prio EXCEPT ![h] = IF @ > prio[t] THEN prio[t] ELSE @]

vTaskPriorityInherit(h, t) ==
    prio' = [prio EXCEPT ![h] = IF @ < prio[t] THEN prio[t] ELSE @]

LockBlock(t, m) ==
    /\ Locking(t, m) /\ holder[m] \notin {Nobody, t}
    /\ vTaskPriorityInherit(holder[m], t)
    /\ waiters' = [waiters EXCEPT ![m] = vListInsert(@, t)]
    /\ wants' = [wants EXCEPT ![t] = m]
    /\ UNCHANGED <<held, holder, asleep>>

(* Mutant: the priority is not given back with the last mutex but with the *)
(* last but one.                                                           *)
xTaskPriorityDisinherit_early(t) ==
    /\ held' = [held EXCEPT ![t] = @ - 1]
    /\ prio' = [prio EXCEPT ![t] = IF held[t] = 2 THEN Priority[t] ELSE @]

xTaskPriorityDisinherit(t) ==
    /\ held' = [held EXCEPT ![t] = @ - 1]
    /\ prio' = [prio EXCEPT ![t] = IF held[t] = 1 THEN Priority[t] ELSE @]

(* Mutant: no waiting task is woken.                                       *)
Unlock_silent(t, m) ==
    /\ Running(t) /\ wants[t] = Nobody /\ holder[m] = t
    /\ xTaskPriorityDisinherit(t)
    /\ holder' = [holder EXCEPT ![m] = Nobody]
    /\ UNCHANGED <<waiters, wants, asleep>>

Unlock(t, m) ==
    /\ Running(t) /\ wants[t] = Nobody /\ holder[m] = t
    /\ xTaskPriorityDisinherit(t)
    /\ holder' = [holder EXCEPT ![m] = Nobody]
    /\ waiters' = [waiters EXCEPT ![m] = IF @ = <<>> THEN @ ELSE Tail(@)]
    /\ UNCHANGED <<wants, asleep>>

Sleep(t) ==
    /\ Running(t) /\ wants[t] = Nobody /\ asleep' = asleep \cup {t}
    /\ UNCHANGED <<prio, held, holder, waiters, wants>>

Wake(t) ==
    /\ t \in asleep /\ asleep' = asleep \ {t}
    /\ UNCHANGED <<prio, held, holder, waiters, wants>>

MNext == \E t \in Threads :
    \/ Sleep(t) \/ Wake(t)
    \/ \E m \in Mutexes : LockFree(t, m) \/ LockBlock(t, m) \/ Unlock(t, m)

MSpec == MInit /\ [][MNext]_mvars
-----------------------------------------------------------------------------
MTypeOK ==
    /\ prio \in [Threads -> Nat] /\ held \in [Threads -> Nat]
    /\ holder \in [Mutexes -> Threads \cup {Nobody}]
    /\ waiters \in [Mutexes -> Seq(Threads)]
    /\ wants \in [Threads -> Mutexes \cup {Nobody}]
    /\ asleep \in SUBSET Threads

(* No task holds a mutex at a priority below that of a task that waits for *)
(* it, so no task in between keeps the holder from releasing it.           *)
HolderOutranksWaiters == \A m \in Mutexes, t \in Threads :
    holder[m] # Nobody /\ OnList(t, m) => prio[holder[m]] >= Priority[t]

(* An inherited priority ends with the last mutex held.                    *)
BoostEnds == \A t \in Threads : held[t] = 0 => prio[t] = Priority[t]

(* A free mutex for which tasks wait has been offered to one of them.      *)
FreeIsOffered == \A m \in Mutexes :
    holder[m] = Nobody /\ waiters[m] # <<>> =>
        \E t \in Threads : wants[t] = m /\ ~ OnList(t, m)
=============================================================================
