------------------------------ MODULE SerialRx ------------------------------
(***************************************************************************)
(* Receiving on a serial port: SerialUART.cpp over the RingBufferN of      *)
(* api/RingBuffer.h.  The UART's interrupt (uart1_isr, __uart_rx_cb) takes *)
(* bytes from the hardware and stores them in the ring; tasks read them    *)
(* under a mutex, which an interrupt cannot take.  The interrupt runs to   *)
(* its end between any two memory accesses of a task.                      *)
(*                                                                         *)
(* A byte is its arrival number.                                           *)
(***************************************************************************)
EXTENDS Integers, Sequences

CONSTANTS
    N,          \* cells of the ring (256)
    Tasks,      \* the tasks that use the port
    MaxBytes,   \* bound on the bytes that arrive
    None        \* nobody holds __mutex

ASSUME RxAssumption == N \in Nat \ {0} /\ MaxBytes \in Nat /\ None \notin Tasks

VARIABLES
    cells, head, tail, num,     \* _aucBuffer, _iHead, _iTail, _numElems
    open,       \* the interrupt is enabled and has its callback: "yes", "no"
    mutex,      \* __mutex: "none" before begin and after end, or "made"
    holder,     \* the task in a read or a peek
    pc,         \* where each task is
    val, reg,   \* what its read_char holds: the byte, and the loaded count
    arrived,    \* bytes the interrupt has taken from the hardware
    unread,     \* observation: the bytes stored and not read, oldest first
    raced       \* observation: an interrupt stored a byte between the load
                \* and the store of a task's _numElems - 1: "yes", "no"

ring == <<cells, head, tail, num>>
vars == <<ring, open, mutex, holder, pc, val, reg, arrived, unread, raced>>

nextIndex(i) == (i + 1) % N

Init ==
    /\ cells = [i \in 0 .. N - 1 |-> 0] /\ head = 0 /\ tail = 0 /\ num = 0
    /\ open = "no" /\ mutex = "none" /\ holder = None
    /\ pc = [t \in Tasks |-> "idle"]
    /\ val = [t \in Tasks |-> 0] /\ reg = [t \in Tasks |-> 0]
    /\ arrived = 0 /\ unread = <<>> /\ raced = "no"

Goto(t, from, to) == pc[t] = from /\ pc' = [pc EXCEPT ![t] = to]
-----------------------------------------------------------------------------
(* One pass of the loop in __uart_rx_cb: __rxBufWrite drops the byte when  *)
(* the ring says it is full, and store_char checks that again.             *)
Receive ==
    /\ open = "yes" /\ arrived < MaxBytes /\ arrived' = arrived + 1
    /\ UNCHANGED <<tail, open, mutex, holder, pc, val, reg>>

(* Mutant: a full ring is not looked for.                                  *)
StoreByte_unchecked ==
    /\ Receive
    /\ cells' = [cells EXCEPT ![head] = arrived + 1]
    /\ head' = nextIndex(head) /\ num' = num + 1
    /\ unread' = Append(unread, arrived + 1)
    /\ raced' = IF \E t \in Tasks : pc[t] = "store" THEN "yes" ELSE raced

StoreByte ==
    /\ Receive /\ num # N
    /\ cells' = [cells EXCEPT ![head] = arrived + 1]
    /\ head' = nextIndex(head) /\ num' = num + 1
    /\ unread' = Append(unread, arrived + 1)
    /\ raced' = IF \E t \in Tasks : pc[t] = "store" THEN "yes" ELSE raced

DropByte ==
    /\ Receive /\ num = N
    /\ UNCHANGED <<cells, head, num, unread, raced>>
-----------------------------------------------------------------------------
(* begin and end run alone: no call of another task starts during them.    *)
Clearing == {"clearHead", "clearTail", "clearNum"}

Usable == mutex = "made" /\ \A t \in Tasks : pc[t] \notin Clearing \cup {"begin"}

(* read: tal_mutex_lock, then read_char, access after access.  (Its test   *)
(* and its load of the byte are one step: an interrupt between them cannot *)
(* make the ring empty, nor change the byte unless it overruns the ring.)  *)
ReadEmpty(t) ==
    /\ Usable /\ holder = None /\ num = 0
    /\ Goto(t, "idle", "idle")
    /\ UNCHANGED <<ring, open, mutex, holder, val, reg, arrived, unread, raced>>

(* Mutant: the mutex is not taken.                                         *)
ReadValue_unlocked(t) ==
    /\ Usable /\ num # 0
    /\ Goto(t, "idle", "tail") /\ holder' = t
    /\ val' = [val EXCEPT ![t] = cells[tail]]
    /\ UNCHANGED <<ring, open, mutex, reg, arrived, unread, raced>>

ReadValue(t) ==
    /\ Usable /\ holder = None /\ num # 0
    /\ Goto(t, "idle", "tail") /\ holder' = t
    /\ val' = [val EXCEPT ![t] = cells[tail]]
    /\ UNCHANGED <<ring, open, mutex, reg, arrived, unread, raced>>

(* Mutant: the first byte after the last cell is looked for in cell 1.     *)
ReadTail_wrong(t) ==
    /\ Goto(t, "tail", "count")
    /\ tail' = IF tail = N - 1 THEN 1 % N ELSE nextIndex(tail)
    /\ unread' = IF unread = <<>> THEN unread ELSE Tail(unread)
    /\ UNCHANGED <<cells, head, num, open, mutex, holder, val, reg, arrived, raced>>

ReadTail(t) ==
    /\ Goto(t, "tail", "count")
    /\ tail' = nextIndex(tail)
    /\ unread' = IF unread = <<>> THEN unread ELSE Tail(unread)
    /\ UNCHANGED <<cells, head, num, open, mutex, holder, val, reg, arrived, raced>>

(* _numElems = _numElems - 1: a load, then a store.                        *)
ReadLoad(t) ==
    /\ Goto(t, "count", "store") /\ reg' = [reg EXCEPT ![t] = num]
    /\ UNCHANGED <<ring, open, mutex, holder, val, arrived, unread, raced>>

ReadStore(t) ==
    /\ Goto(t, "store", "idle") /\ num' = reg[t] - 1 /\ holder' = None
    /\ UNCHANGED <<cells, head, tail, open, mutex, val, reg, arrived, unread, raced>>

(* peek: the emptiness test, then the byte at the tail.                    *)
PeekTest(t) ==
    /\ Usable /\ holder = None /\ num # 0
    /\ Goto(t, "idle", "peek") /\ holder' = t
    /\ UNCHANGED <<ring, open, mutex, val, reg, arrived, unread, raced>>

PeekValue(t) ==
    /\ Goto(t, "peek", "peeked") /\ val' = [val EXCEPT ![t] = cells[tail]]
    /\ UNCHANGED <<ring, open, mutex, holder, reg, arrived, unread, raced>>

PeekReturn(t) ==
    /\ Goto(t, "peeked", "idle") /\ holder' = None
    /\ UNCHANGED <<ring, open, mutex, val, reg, arrived, unread, raced>>
-----------------------------------------------------------------------------
(* They are called while no other call runs.                               *)
Quiet == \A t \in Tasks : pc[t] = "idle"

(* begin: the interrupt is on before the mutex is created; a second begin  *)
(* replaces the mutex.                                                     *)
BeginOpen(t) ==
    /\ Quiet /\ Goto(t, "idle", "begin") /\ open' = "yes"
    /\ UNCHANGED <<ring, mutex, holder, val, reg, arrived, unread, raced>>

BeginMutex(t) ==
    /\ Goto(t, "begin", "idle") /\ mutex' = "made"
    /\ UNCHANGED <<ring, open, holder, val, reg, arrived, unread, raced>>

(* Mutant: the interrupt is still on while the ring is cleared.            *)
EndDeinit_stillOpen(t) ==
    /\ Quiet /\ mutex = "made" /\ Goto(t, "idle", "clearHead")
    /\ mutex' = "none"
    /\ UNCHANGED <<ring, open, holder, val, reg, arrived, unread, raced>>

(* end: the interrupt is off before the ring is cleared.                   *)
EndDeinit(t) ==
    /\ Quiet /\ mutex = "made" /\ Goto(t, "idle", "clearHead")
    /\ open' = "no" /\ mutex' = "none"
    /\ UNCHANGED <<ring, holder, val, reg, arrived, unread, raced>>

ClearHead(t) ==
    /\ Goto(t, "clearHead", "clearTail") /\ head' = 0
    /\ UNCHANGED <<cells, tail, num, open, mutex, holder, val, reg, arrived, unread, raced>>

ClearTail(t) ==
    /\ Goto(t, "clearTail", "clearNum") /\ tail' = 0
    /\ UNCHANGED <<cells, head, num, open, mutex, holder, val, reg, arrived, unread, raced>>

ClearNum(t) ==
    /\ Goto(t, "clearNum", "idle") /\ num' = 0
    /\ unread' = <<>> /\ raced' = "no"
    /\ UNCHANGED <<cells, head, tail, open, mutex, holder, val, reg, arrived>>
-----------------------------------------------------------------------------
Interrupt == StoreByte \/ DropByte

Read(t) == ReadEmpty(t) \/ ReadValue(t) \/ ReadTail(t) \/ ReadLoad(t) \/ ReadStore(t)

Peek(t) == PeekTest(t) \/ PeekValue(t) \/ PeekReturn(t)

Begin(t) == BeginOpen(t) \/ BeginMutex(t)

End(t) == EndDeinit(t) \/ ClearHead(t) \/ ClearTail(t) \/ ClearNum(t)

Next == Interrupt \/ \E t \in Tasks : Read(t) \/ Peek(t) \/ Begin(t) \/ End(t)

Spec == Init /\ [][Next]_vars
-----------------------------------------------------------------------------
Reading == {"tail", "count", "store", "peek", "peeked"}

TypeOK ==
    /\ cells \in [0 .. N - 1 -> 0 .. MaxBytes]
    /\ head \in 0 .. N - 1 /\ tail \in 0 .. N - 1 /\ num \in 0 .. N
    /\ open \in {"yes", "no"} /\ mutex \in {"none", "made"}
    /\ holder \in Tasks \cup {None}
    /\ pc \in [Tasks -> {"idle", "begin"} \cup Reading \cup Clearing]
    /\ val \in [Tasks -> 0 .. MaxBytes] /\ reg \in [Tasks -> 0 .. N]
    /\ arrived \in 0 .. MaxBytes /\ unread \in Seq(1 .. MaxBytes)
    /\ raced \in {"yes", "no"}

(* A reader that has moved _iTail but not yet _numElems.                   *)
Pending == IF \E t \in Tasks : pc[t] \in {"count", "store"} THEN 1 ELSE 0

(* The count never runs ahead of the bytes, whatever interrupt falls where *)
(* and whichever tasks read: what available() says is there to be read,    *)
(* and read() returns no byte that was not stored.  (It may well run       *)
(* behind: a lost update only makes it smaller.)                           *)
CountNotAhead == num <= Len(unread) + Pending

(* A read or a peek gets the oldest unread byte, as long as no interrupt   *)
(* has hit a load and store of the count since the last begin: all the     *)
(* other places an interrupt can fall in, and the other tasks, are safe.   *)
ReadsOldest ==
    \A t \in Tasks : pc[t] \in {"tail", "peeked"} /\ raced = "no" =>
        unread # <<>> /\ val[t] = Head(unread)

(* Until then a byte is dropped only when the ring is full, but for a cell *)
(* that is being freed; and the ring's cells hold the unread bytes in      *)
(* order, from the tail on.                                                *)
RingHoldsUnread ==
    raced = "no" /\ (\A t \in Tasks : pc[t] \notin Clearing) =>
      /\ num = Len(unread) + Pending
      /\ head = (tail + Len(unread)) % N
      /\ \A i \in 1 .. Len(unread) : cells[(tail + i - 1) % N] = unread[i]

(* "we're about to overflow the buffer and so we don't write the           *)
(* character": a byte is stored only in a cell that has been read.         *)
StoreNeverOverruns ==
    [][Len(unread') > Len(unread) => Len(unread') <= N]_vars

(* Why CountNotAhead holds: the readers exclude each other, what a reader  *)
(* has loaded is not more than what is there, and the ring is cleared with *)
(* the interrupt off.                                                      *)
HolderInv ==
    /\ \A t \in Tasks : pc[t] \in Reading => holder = t
    /\ holder # None => pc[holder] \in Reading

LifeInv ==
    /\ \A t \in Tasks : pc[t] \in Clearing \cup {"begin"} => holder = None
    /\ \A t, u \in Tasks : pc[t] \in Clearing \cup {"begin"} /\ u # t => pc[u] = "idle"
    /\ \A t \in Tasks : pc[t] \in Clearing => open = "no" /\ mutex = "none"

CountInv ==
    /\ num <= Len(unread) + Pending
    /\ \A t \in Tasks :
         /\ pc[t] \in {"count"} => num >= 1
         /\ pc[t] = "tail" => num >= 1
         /\ pc[t] = "store" => reg[t] >= 1 /\ reg[t] <= num

IInv == TypeOK /\ HolderInv /\ LifeInv /\ CountInv
=============================================================================
