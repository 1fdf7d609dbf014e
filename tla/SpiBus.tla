------------------------------- MODULE SpiBus --------------------------------
(***************************************************************************)
(* The SPI master: tkl_spi.c over the DMA driver.  A task takes spi_mutex, *)
(* pulls the chip select low, and for each pack of at most 4095 bytes      *)
(* starts the DMA and waits for finish_sem (at most 1), which the finish   *)
(* interrupt posts; full duplex has two of them, and waits once.           *)
(*                                                                         *)
(* A device made while spic_flag is set takes the end of the DMA for an    *)
(* interrupt too.  It comes a few clocks before the data has moved, and it *)
(* is all that tkl_spi_send waits for then, in one pack.                   *)
(*                                                                         *)
(* deinit deletes the mutex it has just given back, whoever waits for it.  *)
(* The model stops where something deleted is used: there anything may     *)
(* happen.                                                                 *)
(***************************************************************************)
EXTENDS Naturals, FiniteSets

CONSTANTS
    Users,      \* the tasks
    Kinds,      \* the calls they make
    MaxPacks,   \* a bound on the packs of one transfer
    MaxInits,   \* a bound on the mutexes created
    NoUser

(* tkl_spi_transfer with a buffer to send, to receive into, or both; and   *)
(* tkl_spi_send with spic_flag set.  (Without it that is the first.)       *)
Transfers == {"send", "recv", "duplex", "long"}

ASSUME SpiAssumption ==
    /\ Kinds \subseteq Transfers \cup {"init", "deinit", "flag"}
    /\ MaxPacks \in Nat \ {0} /\ MaxInits \in Nat /\ NoUser \notin Users

Mutexes == 1 .. MaxInits
NULL    == 0

VARIABLES
    spi_mutex, made,            \* the handle, the number of mutexes so far
    owner, deleted,             \* each mutex's holder; those deleted
    spi_dev, finish_sem,        \* whether there is a device; its semaphore
    dma, cs,                    \* what moves data; chip select
    spic_flag, spci_flag,       \* the adapter's flag, and the device's
    bpc, kind, locking, packs,  \* each task: where it is, in which call, the mutex
                                \* it locks, the packs left
    hasty,                      \* observation: since its init the device has
                                \* been used in full duplex, or has spci_flag
    broken                      \* something deleted was used

lock  == <<spi_mutex, made, owner, deleted>>
wire  == <<spi_dev, finish_sem, dma, cs>>
tasks == <<bpc, kind, locking, packs>>
flags == <<spic_flag, spci_flag, hasty>>
bvars == <<lock, wire, tasks, flags, broken>>

(* What a pack sets going, each with a finish of its own: "tx" and "rx"    *)
(* until the driver's count of bytes is reached; "feed", with spci_flag,   *)
(* while the DMA feeds the sender; "tail" until an uncounted send is out.  *)
AllMoves == {"tx", "rx", "feed", "tail"}

OnePack(k) == k = "long" /\ spci_flag

Moves(k) ==
    IF OnePack(k) THEN {"feed", "tail"}
    ELSE (IF k # "recv" THEN {"tx"} ELSE {})
         \cup (IF k \in {"recv", "duplex"} THEN {"rx"} ELSE {})
         \cup (IF k # "recv" /\ spci_flag THEN {"feed"} ELSE {})

BInit ==
    /\ spi_mutex = NULL /\ made = 0 /\ owner = [m \in Mutexes |-> NoUser] /\ deleted = {}
    /\ spi_dev = FALSE /\ finish_sem = 0 /\ dma = {} /\ cs = "high"
    /\ bpc = [u \in Users |-> "idle"] /\ kind = [u \in Users |-> "send"]
    /\ locking = [u \in Users |-> NULL] /\ packs = [u \in Users |-> 0]
    /\ spic_flag = FALSE /\ spci_flag = FALSE /\ hasty = FALSE /\ broken = FALSE

AtBus(u, here) == ~ broken /\ bpc[u] = here
BusTo(u, pos)  == bpc' = [bpc EXCEPT ![u] = pos]

BusReturn(u) ==
    /\ BusTo(u, "idle") /\ kind' = [kind EXCEPT ![u] = "send"]
    /\ packs' = [packs EXCEPT ![u] = 0] /\ locking' = [locking EXCEPT ![u] = NULL]
-----------------------------------------------------------------------------
(* A call begins; init in the peace before the others (it would take the   *)
(* device from under them).                                                *)
BusCall(u) ==
    /\ AtBus(u, "idle") /\ \A v \in Users : kind[v] # "init"
    /\ \E k \in Kinds \ {"flag"}, n \in 1 .. MaxPacks :
         /\ k \notin Transfers => n = 1
         /\ k = "long" => spic_flag
         /\ k = "init" => made < MaxInits /\ \A v \in Users : bpc[v] = "idle"
         /\ kind' = [kind EXCEPT ![u] = k] /\ packs' = [packs EXCEPT ![u] = n]
         /\ BusTo(u, IF k = "init" THEN "dev" ELSE "lock")
         /\ hasty' = (hasty \/ k = "duplex")
    /\ UNCHANGED <<lock, wire, locking, spic_flag, spci_flag, broken>>

(* tkl_spi_set_spic_flag: the next init will see it, and every send.       *)
SetFlag(u) ==
    /\ AtBus(u, "idle") /\ "flag" \in Kinds /\ spic_flag' = TRUE
    /\ UNCHANGED <<lock, wire, tasks, spci_flag, hasty, broken>>

(* tkl_mutex_lock is handed what spi_mutex holds; that it may refuse a     *)
(* NULL is not looked at.                                                  *)
LockRead(u) ==
    /\ AtBus(u, "lock") /\ locking' = [locking EXCEPT ![u] = spi_mutex]
    /\ BusTo(u, IF spi_mutex = NULL THEN "enter" ELSE "locking")
    /\ UNCHANGED <<lock, wire, kind, packs, flags, broken>>

LockTaken(u) ==
    /\ AtBus(u, "locking")
    /\ IF locking[u] \in deleted
         THEN broken' = TRUE /\ UNCHANGED <<owner, bpc>>
         ELSE /\ owner[locking[u]] = NoUser
              /\ owner' = [owner EXCEPT ![locking[u]] = u]
              /\ BusTo(u, "enter") /\ UNCHANGED broken
    /\ UNCHANGED <<spi_mutex, made, deleted, wire, kind, locking, packs, flags>>

(* Mutant: a transfer without a device returns without the unlock.         *)
XferEnter_keeps(u) ==
    /\ AtBus(u, "enter") /\ kind[u] \in Transfers
    /\ cs' = (IF spi_dev THEN "low" ELSE "high")
    /\ BusTo(u, IF spi_dev THEN "start" ELSE "idle")
    /\ UNCHANGED <<lock, spi_dev, finish_sem, dma, kind, locking, packs, flags, broken>>

(* Chip select, then the driver's look at spi_dev.                         *)
XferEnter(u) ==
    /\ AtBus(u, "enter") /\ kind[u] \in Transfers
    /\ cs' = "low" /\ BusTo(u, IF spi_dev THEN "start" ELSE "leave")
    /\ UNCHANGED <<lock, spi_dev, finish_sem, dma, kind, locking, packs, flags, broken>>

(* The loop of bk_spi_master_dma_xfer, or bk_spi_master_dma_send, up to    *)
(* the wait.                                                               *)
XferStart(u) ==
    /\ AtBus(u, "start") /\ BusTo(u, "wait")
    /\ dma' = dma \cup Moves(kind[u]) /\ broken' = ~ spi_dev
    /\ UNCHANGED <<lock, spi_dev, finish_sem, cs, kind, locking, packs, flags>>

(* Mutant: the pack is taken for sent when the DMA is started.             *)
XferWait_hasty(u) ==
    /\ AtBus(u, "wait") /\ finish_sem' = 0
    /\ packs' = [packs EXCEPT ![u] = @ - 1]
    /\ BusTo(u, IF packs[u] > 1 /\ ~ OnePack(kind[u]) THEN "start" ELSE "leave")
    /\ UNCHANGED <<lock, spi_dev, dma, cs, kind, locking, flags, broken>>

XferWait(u) ==
    /\ AtBus(u, "wait") /\ finish_sem = 1 /\ finish_sem' = 0
    /\ packs' = [packs EXCEPT ![u] = @ - 1]
    /\ BusTo(u, IF packs[u] > 1 /\ ~ OnePack(kind[u]) THEN "start" ELSE "leave")
    /\ UNCHANGED <<lock, spi_dev, dma, cs, kind, locking, flags, broken>>

XferLeave(u) ==
    /\ AtBus(u, "leave") /\ cs' = "high" /\ BusTo(u, "unlock")
    /\ UNCHANGED <<lock, spi_dev, finish_sem, dma, kind, locking, packs, flags, broken>>

(* tkl_mutex_unlock is handed what spi_mutex holds now, and gives it       *)
(* whoever took it.                                                        *)
BusUnlock(u) ==
    /\ AtBus(u, "unlock")
    /\ IF spi_mutex = NULL THEN UNCHANGED <<owner, broken>>
       ELSE /\ owner' = [owner EXCEPT ![spi_mutex] = NoUser]
            /\ broken' = (spi_mutex \in deleted)
    /\ \/ kind[u] # "deinit" /\ BusReturn(u)
       \/ kind[u] = "deinit" /\ BusTo(u, "release") /\ UNCHANGED <<kind, locking, packs>>
    /\ UNCHANGED <<spi_mutex, made, deleted, wire, flags>>

(* Mutant: the finish of a receive alone posts.                            *)
FinishIrq_rx(d) ==
    /\ ~ broken /\ d \in dma /\ dma' = dma \ {d}
    /\ d \in {"tx", "tail"} => "feed" \notin dma
    /\ IF d = "tail" THEN UNCHANGED <<finish_sem, broken>>
       ELSE IF spi_dev THEN finish_sem' = (IF d = "rx" THEN 1 ELSE finish_sem) /\ UNCHANGED broken
                       ELSE broken' = TRUE /\ UNCHANGED finish_sem
    /\ UNCHANGED <<lock, spi_dev, cs, tasks, flags>>

(* bk_spi_dma_finish_callback, once for each direction that is counted,    *)
(* and bk_spi_dma_irq_cb, which comes before the data that was fed is out. *)
FinishIrq(d) ==
    /\ ~ broken /\ d \in dma /\ dma' = dma \ {d}
    /\ d \in {"tx", "tail"} => "feed" \notin dma
    /\ IF d = "tail" THEN UNCHANGED <<finish_sem, broken>>
       ELSE IF spi_dev THEN finish_sem' = 1 /\ UNCHANGED broken
                       ELSE broken' = TRUE /\ UNCHANGED finish_sem
    /\ UNCHANGED <<lock, spi_dev, cs, tasks, flags>>
-----------------------------------------------------------------------------
(* Mutant: spi_dev is freed and not reset.                                 *)
DevDeinit_dangling(u) ==
    /\ AtBus(u, "enter") /\ kind[u] = "deinit" /\ BusTo(u, "unlock")
    /\ UNCHANGED spi_dev /\ finish_sem' = 0
    /\ spci_flag' = FALSE /\ broken' = (spi_dev /\ \E v \in Users : bpc[v] = "wait")
    /\ UNCHANGED <<lock, dma, cs, kind, locking, packs, spic_flag, hasty>>

(* bk_spi_master_deinit under the lock.                                    *)
DevDeinit(u) ==
    /\ AtBus(u, "enter") /\ kind[u] = "deinit" /\ BusTo(u, "unlock")
    /\ spi_dev' = FALSE /\ finish_sem' = 0
    /\ spci_flag' = FALSE /\ broken' = (spi_dev /\ \E v \in Users : bpc[v] = "wait")
    /\ UNCHANGED <<lock, dma, cs, kind, locking, packs, spic_flag, hasty>>

(* The mutex is deleted, whoever waits for it, and then the handle and     *)
(* spic_flag are reset.                                                    *)
MutexRelease(u) ==
    /\ AtBus(u, "release") /\ BusTo(u, "null")
    /\ deleted' = deleted \cup ({spi_mutex} \ {NULL})
    /\ broken' = (spi_mutex \in deleted)
    /\ UNCHANGED <<spi_mutex, made, owner, wire, kind, locking, packs, flags>>

MutexNull(u) ==
    /\ AtBus(u, "null") /\ spi_mutex' = NULL /\ spic_flag' = FALSE /\ BusReturn(u)
    /\ UNCHANGED <<made, owner, deleted, wire, spci_flag, hasty, broken>>

(* bk_spi_master_dma_init: the device is made anew, or, with no memory,    *)
(* not at all; init does not look.  The chip select pin is set up.         *)
DevInit(u) ==
    /\ AtBus(u, "dev") /\ BusTo(u, "mutex")
    /\ spi_dev' \in BOOLEAN /\ finish_sem' = 0 /\ dma' = {} /\ cs' = "high"
    /\ spci_flag' = (spi_dev' /\ spic_flag) /\ hasty' = spci_flag'
    /\ broken' = (spi_dev /\ \E v \in Users : bpc[v] = "wait")
    /\ UNCHANGED <<lock, kind, locking, packs, spic_flag>>

(* Where there is a mutex none is made.  (Without memory for one init      *)
(* fails, and the model leaves that out.)                                  *)
MutexKeep(u) ==
    /\ AtBus(u, "mutex") /\ spi_mutex # NULL /\ BusReturn(u)
    /\ UNCHANGED <<lock, wire, flags, broken>>

MutexCheck(u) ==
    /\ AtBus(u, "mutex") /\ spi_mutex = NULL /\ BusTo(u, "create")
    /\ UNCHANGED <<lock, wire, kind, locking, packs, flags, broken>>

MutexCreate(u) ==
    /\ AtBus(u, "create")
    /\ made' = made + 1 /\ spi_mutex' = made' /\ BusReturn(u)
    /\ UNCHANGED <<owner, deleted, wire, flags, broken>>

BusStep(u) ==
    \/ LockRead(u) \/ LockTaken(u) \/ XferEnter(u) \/ XferStart(u) \/ XferWait(u)
    \/ XferLeave(u) \/ BusUnlock(u) \/ DevDeinit(u) \/ MutexRelease(u) \/ MutexNull(u)
    \/ DevInit(u) \/ MutexKeep(u) \/ MutexCheck(u) \/ MutexCreate(u)

BNext ==
    \/ \E u \in Users : BusCall(u) \/ SetFlag(u) \/ BusStep(u)
    \/ \E d \in AllMoves : FinishIrq(d)

(* The tasks run, and the hardware finishes what it began.  (A waiting     *)
(* task need not get the mutex: another may take it again first.)          *)
BFairness ==
    /\ \A u \in Users : WF_bvars(BusStep(u))
    /\ \A d \in AllMoves : WF_bvars(FinishIrq(d))

BSpec == BInit /\ [][BNext]_bvars /\ BFairness
-----------------------------------------------------------------------------
(* One task at a time has packs to move, also over deinit and a new init:  *)
(* nobody waits for the post that another's data brings.                   *)
OneTransfer == Cardinality({u \in Users : bpc[u] \in {"start", "wait"}}) <= 1

(* "@return OPRT_OK on success" (tkl_spi.c:131): data moves with the chip   *)
(* select low only, and no call returns before its data has moved.         *)
DataUnderSelect == dma # {} => cs = "low"

(* That holds from each init until full duplex is used, but for a device   *)
(* with spci_flag, whatever tasks send, receive, set spic_flag and deinit  *)
(* in each other's way.                                                    *)
HalfDuplexUnderSelect == ~ hasty => DataUnderSelect

(* A call that has come past the mutex returns: no post is lost, and none  *)
(* is waited for twice.                                                    *)
CallsReturn == \A u \in Users :
    bpc[u] \notin {"idle", "lock", "locking"} ~> bpc[u] = "idle" \/ broken

(* The mutex comes free: who waits for it waits for a task that runs.      *)
LockHasOwner == \A u \in Users :
    bpc[u] = "locking" /\ locking[u] \notin deleted /\ owner[locking[u]] # NoUser =>
        bpc[owner[locking[u]]] \in {"enter", "start", "wait", "leave", "unlock"}
=============================================================================
