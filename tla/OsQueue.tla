------------------------------ MODULE OsQueue -------------------------------
(***************************************************************************)
(* A queue of tkl_queue.c, or a counting semaphore of tkl_semaphore.c (the *)
(* queue whose items are all alike), down to FreeRTOS's queue.c: tasks     *)
(* send and receive, with no wait, with a time-out, or for ever; an        *)
(* interrupt sends.                                                        *)
(*                                                                         *)
(* A critical section is one step.  Between "suspend" and "resume" of one  *)
(* task no other task runs and no tick counts, but interrupts come: the    *)
(* queue is locked meanwhile, so that an interrupt leaves the lists of     *)
(* waiting tasks alone and counts in cTxLock what it sent.                 *)
(***************************************************************************)
EXTENDS Integers, FiniteSets

CONSTANTS
    Tasks,      \* the tasks that use the queue
    Length,     \* uxLength
    Items,      \* what is sent
    Idle,       \* a task that is in no call
    CallsOf,    \* the calls each task makes
    IsrSends    \* the sends an interrupt makes

Ops      == {"back", "front", "recv"}
CallType == [op : Ops, wait : {"poll", "timed", "forever"}, item : Items]

(* cTxLock is an int8_t that counts the sends to a locked queue.           *)
ASSUME QueueAssumption ==
    /\ Length \in 1 .. 127 /\ Idle \notin Tasks \cup CallType
    /\ IsFiniteSet(Tasks) /\ Items # {}
    /\ CallsOf \in [Tasks -> SUBSET CallType]
    /\ IsrSends \in SUBSET CallType /\ \A c \in IsrSends : c.op # "recv"

VARIABLES
    cells, writeTo, readFrom, messages, \* storage, pcWriteTo, pcReadFrom, uxMessagesWaiting
    txLock,                 \* cTxLock
    waitSend, waitRecv,     \* xTasksWaitingToSend, xTasksWaitingToReceive
    suspended,              \* the task that has suspended the scheduler
    pc, call,               \* where each task is, and in which call
    timer                   \* its time-out: "unset", "running", "over"

store == <<cells, writeTo, readFrom, messages>>
lists == <<waitSend, waitRecv>>
qvars == <<store, txLock, lists, suspended, pc, call, timer>>

QUEUE_UNLOCKED == -1
Slot == 0 .. Length - 1

(* xQueueGenericReset on a new queue.                                      *)
QInit ==
    /\ cells = [i \in Slot |-> CHOOSE x \in Items : TRUE]
    /\ writeTo = 0 /\ readFrom = Length - 1 /\ messages = 0
    /\ txLock = QUEUE_UNLOCKED /\ waitSend = {} /\ waitRecv = {}
    /\ suspended = Idle
    /\ pc = [t \in Tasks |-> "idle"] /\ call = [t \in Tasks |-> Idle]
    /\ timer = [t \in Tasks |-> "unset"]

Sends(t)    == call[t].op # "recv"
Refused(t)  == IF Sends(t) THEN messages = Length ELSE messages = 0
Waiting(t)  == t \in waitSend \cup waitRecv

(* A task runs unless another has suspended the scheduler or it is on a    *)
(* list, where it puts itself before it stops running.                     *)
Runs(t) == suspended = t \/ (suspended = Idle /\ ~ Waiting(t))

At(t, here)  == pc[t] = here /\ Runs(t)
Goto(t, pos) == pc' = [pc EXCEPT ![t] = pos] /\ UNCHANGED call
Leave(t) ==
    /\ pc' = [pc EXCEPT ![t] = "idle"] /\ call' = [call EXCEPT ![t] = Idle]
    /\ timer' = [timer EXCEPT ![t] = "unset"]

(* xTaskRemoveFromEventList, n times: the lists are in the order of the    *)
(* tasks' priorities, which may be any.                                    *)
Least(m, n)   == IF m < n THEN m ELSE n
Woken(list, n) == {W \in SUBSET list : Cardinality(W) = Least(n, Cardinality(list))}
-----------------------------------------------------------------------------
(* Mutant: pcWriteTo is compared with one behind the end.                  *)
prvCopyDataToQueue_late(c) ==
    /\ messages' = messages + 1 /\ UNCHANGED readFrom
    /\ cells' = [cells EXCEPT ![writeTo] = c.item]
    /\ writeTo' = IF writeTo + 1 > Length THEN 0 ELSE writeTo + 1

prvCopyDataToQueue(c) ==
    /\ messages' = messages + 1
    /\ \/ /\ c.op = "back" /\ UNCHANGED readFrom
          /\ cells' = [cells EXCEPT ![writeTo] = c.item]
          /\ writeTo' = IF writeTo + 1 >= Length THEN 0 ELSE writeTo + 1
       \/ /\ c.op = "front" /\ UNCHANGED writeTo
          /\ cells' = [cells EXCEPT ![readFrom] = c.item]
          /\ readFrom' = IF readFrom - 1 < 0 THEN Length - 1 ELSE readFrom - 1

prvCopyDataFromQueue ==
    /\ readFrom' = (IF readFrom + 1 >= Length THEN 0 ELSE readFrom + 1)
    /\ messages' = messages - 1 /\ UNCHANGED <<cells, writeTo>>

(* tkl_queue_post, tkl_queue_fetch, tkl_semaphore_wait (timed, for ever),  *)
(* tkl_semaphore_post (poll) and the rtos_ calls of the drivers.           *)
QCall(t) ==
    /\ pc[t] = "idle" /\ Runs(t)
    /\ pc' = [pc EXCEPT ![t] = "try"]
    /\ \E c \in CallsOf[t] : call' = [call EXCEPT ![t] = c]
    /\ UNCHANGED <<store, txLock, lists, suspended, timer>>

(* The critical section at the top of the loop of xQueueGenericSend.       *)
TrySend(t) ==
    /\ At(t, "try") /\ Sends(t) /\ ~ Refused(t)
    /\ prvCopyDataToQueue(call[t])
    /\ \E W \in Woken(waitRecv, 1) : waitRecv' = waitRecv \ W
    /\ Leave(t)
    /\ UNCHANGED <<txLock, waitSend, suspended>>

(* The same of xQueueGenericReceive.                                       *)
TryReceive(t) ==
    /\ At(t, "try") /\ ~ Sends(t) /\ ~ Refused(t)
    /\ prvCopyDataFromQueue
    /\ \E W \in Woken(waitSend, 1) : waitSend' = waitSend \ W
    /\ Leave(t)
    /\ UNCHANGED <<txLock, waitRecv, suspended>>

TryPoll(t) ==
    /\ At(t, "try") /\ Refused(t) /\ call[t].wait = "poll"
    /\ Leave(t)
    /\ UNCHANGED <<store, txLock, lists, suspended>>

(* Mutant: xEntryTimeSet is not kept: each round starts the time anew.     *)
TryWait_restart(t) ==
    /\ At(t, "try") /\ Refused(t) /\ call[t].wait # "poll"
    /\ timer' = [timer EXCEPT ![t] = "running"]
    /\ Goto(t, "suspend")
    /\ UNCHANGED <<store, txLock, lists, suspended>>

TryWait(t) ==
    /\ At(t, "try") /\ Refused(t) /\ call[t].wait # "poll"
    /\ timer' = [timer EXCEPT ![t] = IF @ = "unset" THEN "running" ELSE @]
    /\ Goto(t, "suspend")
    /\ UNCHANGED <<store, txLock, lists, suspended>>

vTaskSuspendAll(t) ==
    /\ At(t, "suspend") /\ suspended' = t /\ Goto(t, "lock")
    /\ UNCHANGED <<store, txLock, lists, timer>>

prvLockQueue(t) ==
    /\ At(t, "lock") /\ Goto(t, "check")
    /\ txLock' = IF txLock = QUEUE_UNLOCKED THEN 0 ELSE txLock
    /\ UNCHANGED <<store, lists, suspended, timer>>

(* xTaskCheckForTimeOut, then prvIsQueueFull or prvIsQueueEmpty.           *)
CheckBlock(t) ==
    /\ At(t, "check") /\ timer[t] # "over" /\ Refused(t) /\ Goto(t, "place")
    /\ UNCHANGED <<store, txLock, lists, suspended, timer>>

CheckAgain(t) ==
    /\ At(t, "check") /\ (timer[t] = "over" \/ ~ Refused(t)) /\ Goto(t, "unlock")
    /\ UNCHANGED <<store, txLock, lists, suspended, timer>>

vTaskPlaceOnEventList(t) ==
    /\ At(t, "place") /\ Goto(t, "unlock")
    /\ waitSend' = waitSend \cup (IF Sends(t) THEN {t} ELSE {})
    /\ waitRecv' = waitRecv \cup (IF Sends(t) THEN {} ELSE {t})
    /\ UNCHANGED <<store, txLock, suspended, timer>>

(* Mutant: the sends counted while the queue was locked are forgotten.     *)
prvUnlockQueue_deaf(t) ==
    /\ At(t, "unlock") /\ Goto(t, "resume")
    /\ txLock' = QUEUE_UNLOCKED
    /\ UNCHANGED <<store, lists, suspended, timer>>

(* No interrupt receives, so cRxLock has nothing to tell.                  *)
prvUnlockQueue(t) ==
    /\ At(t, "unlock") /\ Goto(t, "resume")
    /\ \E W \in Woken(waitRecv, txLock) : waitRecv' = waitRecv \ W
    /\ txLock' = QUEUE_UNLOCKED
    /\ UNCHANGED <<store, waitSend, suspended, timer>>

(* Mutant: a receive whose time is over returns without another look.      *)
xTaskResumeAll_hasty(t) ==
    /\ At(t, "resume") /\ suspended' = Idle
    /\ IF timer[t] = "over" THEN Leave(t) ELSE Goto(t, "try") /\ UNCHANGED timer
    /\ UNCHANGED <<store, txLock, lists>>

(* A send whose time is over returns; a receive looks once more.           *)
xTaskResumeAll(t) ==
    /\ At(t, "resume") /\ suspended' = Idle
    /\ \/ timer[t] # "over" /\ Goto(t, "try") /\ UNCHANGED timer
       \/ timer[t] = "over" /\ Sends(t) /\ Leave(t)
       \/ timer[t] = "over" /\ ~ Sends(t) /\ Goto(t, "retest") /\ UNCHANGED timer
    /\ UNCHANGED <<store, txLock, lists>>

Retest(t) ==
    /\ At(t, "retest")
    /\ \/ messages = 0 /\ Leave(t)
       \/ messages > 0 /\ Goto(t, "try") /\ UNCHANGED timer
    /\ UNCHANGED <<store, txLock, lists, suspended>>

(* xTaskIncrementTick: a tick that ends a time-out.                        *)
Tick(t) ==
    /\ suspended = Idle /\ timer[t] = "running" /\ call[t].wait = "timed"
    /\ timer' = [timer EXCEPT ![t] = "over"]
    /\ waitSend' = waitSend \ {t} /\ waitRecv' = waitRecv \ {t}
    /\ UNCHANGED <<store, txLock, suspended, pc, call>>

(* Mutant: an interrupt does not count what it sends to a locked queue.    *)
xQueueGenericSendFromISR_uncounted ==
    /\ messages < Length
    /\ \E c \in IsrSends : prvCopyDataToQueue(c)
    /\ IF txLock = QUEUE_UNLOCKED
         THEN \E W \in Woken(waitRecv, 1) : waitRecv' = waitRecv \ W
         ELSE UNCHANGED waitRecv
    /\ UNCHANGED <<txLock, waitSend, suspended, pc, call, timer>>

xQueueGenericSendFromISR ==
    /\ messages < Length
    /\ \E c \in IsrSends : prvCopyDataToQueue(c)
    /\ \/ /\ txLock = QUEUE_UNLOCKED /\ UNCHANGED txLock
          /\ \E W \in Woken(waitRecv, 1) : waitRecv' = waitRecv \ W
       \/ /\ txLock # QUEUE_UNLOCKED /\ txLock' = txLock + 1
          /\ UNCHANGED waitRecv
    /\ UNCHANGED <<waitSend, suspended, pc, call, timer>>

QStep(t) ==
    \/ TrySend(t) \/ TryReceive(t) \/ TryPoll(t) \/ TryWait(t)
    \/ vTaskSuspendAll(t) \/ prvLockQueue(t) \/ CheckBlock(t) \/ CheckAgain(t)
    \/ vTaskPlaceOnEventList(t) \/ prvUnlockQueue(t) \/ xTaskResumeAll(t) \/ Retest(t)

QNext ==
    \/ \E t \in Tasks : QCall(t) \/ QStep(t) \/ Tick(t)
    \/ xQueueGenericSendFromISR

(* Tasks of one priority share the processor, so one that is ready again   *)
(* and again runs, though others suspend the scheduler in between; a tick  *)
(* that comes meanwhile is made up for by xTaskResumeAll.                  *)
QFairness == \A t \in Tasks : SF_qvars(QStep(t)) /\ SF_qvars(Tick(t))

QSpec == QInit /\ [][QNext]_qvars
-----------------------------------------------------------------------------
QTypeOK ==
    /\ cells \in [Slot -> Items] /\ writeTo \in Slot /\ readFrom \in Slot
    /\ messages \in 0 .. Length /\ txLock \in QUEUE_UNLOCKED .. Length
    /\ waitSend \in SUBSET Tasks /\ waitRecv \in SUBSET Tasks
    /\ suspended \in Tasks \cup {Idle}
    /\ pc \in [Tasks -> {"idle", "try", "suspend", "lock", "check", "place",
                         "unlock", "resume", "retest"}]
    /\ call \in [Tasks -> CallType \cup {Idle}]
    /\ timer \in [Tasks -> {"unset", "running", "over"}]

(* No wake-up is lost: while a task waits to receive, every message is     *)
(* either known to a receiver that is awake and will look, or counted for  *)
(* the unlock; and every free place is known to a sender that is awake.    *)
WillLook(t, ps) == call[t] # Idle /\ pc[t] \in ps /\ ~ Waiting(t)

NoLostWakeup ==
    /\ waitRecv # {} =>
          messages <= Cardinality({t \in Tasks :
                         /\ WillLook(t, {"try", "unlock", "resume", "retest"})
                         /\ ~ Sends(t)})
                      + (IF txLock > 0 THEN txLock ELSE 0)
    /\ waitSend # {} =>
          Length - messages <= Cardinality({t \in Tasks :
                                  /\ WillLook(t, {"try", "unlock", "resume"})
                                  /\ Sends(t)})

(* The queue is a bounded first in first out store whose calls take effect *)
(* at one moment; a call that waits for ever never fails, and a receive    *)
(* fails only when nothing is there.                                       *)
Contents == [i \in 1 .. messages |-> cells[(readFrom + i) % Length]]
Fifo == INSTANCE OsFifo WITH
    Capacity <- Length, q <- Contents, pending <- call
ImplementsFifo == Fifo!Spec

(* A message does not lie in the queue while a receiver waits on for ever. *)
MessageReachesWaiter == (messages > 0 /\ waitRecv # {}) ~> (messages = 0 \/ waitRecv = {})

(* A send with a time-out comes back (a receive may lose the message it    *)
(* saw to another task after its time was over, and begin again).          *)
TimedSendReturns == \A t \in Tasks :
    (pc[t] # "idle" /\ call[t].op # "recv" /\ call[t].wait = "timed") ~> (pc[t] = "idle")
=============================================================================
