---------------------------- MODULE SerialProofs ----------------------------
(***************************************************************************)
(* What a sketch reads from a serial port. The ring's count never runs     *)
(* ahead of its bytes, and until an interrupt hits a load and store of the *)
(* count, readers get the bytes in order and none is lost: for a ring of   *)
(* any size, any number of tasks and of bytes. findMulti loses no match    *)
(* and returns the first target that has come: for targets of any length,  *)
(* any number of them and any letters.                                     *)
(***************************************************************************)
EXTENDS SerialRx, StreamFind, SequenceTheorems, FiniteSetTheorems, WellFoundedInduction, TLAPS

(* IInv holds at first.                                                    *)
LEMMA InitInv == Init => IInv
  <1> SUFFICES ASSUME Init PROVE IInv
    OBVIOUS
  <1>1. TypeOK
    BY RxAssumption DEF Init, TypeOK
  <1>2. HolderInv /\ LifeInv
    BY RxAssumption DEF Init, HolderInv, LifeInv, Reading, Clearing
  <1>3. Pending = 0 /\ Len(unread) = 0
    BY DEF Init, Pending
  <1>4. CountInv
    BY <1>3 DEF Init, CountInv
  <1> QED BY <1>1, <1>2, <1>4 DEF IInv

(* The ring's indices stay in the ring.                                    *)
LEMMA NextIndexType ==
    ASSUME NEW i \in 0 .. N - 1
    PROVE  nextIndex(i) \in 0 .. N - 1
  BY RxAssumption DEF nextIndex

(* What a reader is at decides Pending, as readers exclude each other.     *)
LEMMA PendingType == Pending \in {0, 1}
  BY DEF Pending

LEMMA OneReader ==
    ASSUME HolderInv, NEW t \in Tasks, pc[t] \in Reading, NEW u \in Tasks, u # t
    PROVE  pc[u] \notin Reading
  BY DEF HolderInv

LEMMA InterruptInv ==
    ASSUME IInv, Interrupt
    PROVE  IInv'
  <1> USE DEF IInv
  <1>1. CASE DropByte
    <2>1. TypeOK'
      BY <1>1, RxAssumption DEF DropByte, Receive, TypeOK
    <2>2. HolderInv' /\ LifeInv' /\ CountInv'
      BY <1>1 DEF DropByte, Receive, HolderInv, LifeInv, CountInv, Pending
    <2> QED BY <2>1, <2>2
  <1>2. CASE StoreByte
    <2>1. num + 1 \in 0 .. N /\ arrived + 1 \in 1 .. MaxBytes
      BY <1>2, RxAssumption DEF StoreByte, Receive, TypeOK
    <2>2. /\ unread \in Seq(1 .. MaxBytes)
          /\ unread' = Append(unread, arrived + 1) /\ num' = num + 1
      BY <1>2 DEF StoreByte, TypeOK
    <2>3. unread' \in Seq(1 .. MaxBytes) /\ Len(unread') = Len(unread) + 1
      BY <2>1, <2>2
    <2>4. TypeOK'
      <3>1. cells' \in [0 .. N - 1 -> 0 .. MaxBytes]
        BY <1>2, <2>1, RxAssumption DEF StoreByte, TypeOK
      <3>2. head' \in 0 .. N - 1 /\ num' \in 0 .. N
        BY <1>2, <2>1, NextIndexType DEF StoreByte, TypeOK
      <3>3. raced' \in {"yes", "no"} /\ arrived' \in 0 .. MaxBytes
        BY <1>2, <2>1, RxAssumption DEF StoreByte, Receive, TypeOK
      <3> QED BY <1>2, <2>3, <3>1, <3>2, <3>3 DEF StoreByte, Receive, TypeOK
    <2>5. HolderInv' /\ LifeInv'
      BY <1>2 DEF StoreByte, Receive, HolderInv, LifeInv
    <2>6. Pending' = Pending /\ Pending \in {0, 1} /\ Len(unread) \in Nat /\ num \in Nat
      BY <1>2, <2>2, RxAssumption DEF StoreByte, Receive, Pending, TypeOK
    <2>7. num' <= Len(unread') + Pending'
      BY <2>2, <2>3, <2>6 DEF CountInv
    <2>8. pc' = pc /\ reg' = reg
      BY <1>2 DEF StoreByte, Receive
    <2>9. \A t \in Tasks : reg[t] \in Nat
      BY RxAssumption DEF TypeOK
    <2>10. CountInv'
      BY <2>2, <2>6, <2>7, <2>8, <2>9 DEF CountInv
    <2> QED BY <2>4, <2>5, <2>10
  <1> QED BY <1>1, <1>2 DEF Interrupt

LEMMA ReadInv ==
    ASSUME IInv, NEW t \in Tasks, Read(t)
    PROVE  IInv'
  <1> USE DEF IInv, Goto
  <1>0. /\ num \in Nat /\ Len(unread) \in Nat /\ reg \in [Tasks -> 0 .. N]
        /\ pc \in [Tasks -> {"idle", "begin"} \cup Reading \cup Clearing]
        /\ num <= N /\ N \in Nat
    BY RxAssumption DEF TypeOK
  <1>1. CASE ReadEmpty(t)
    <2>1. pc' = pc
      BY <1>0, <1>1 DEF ReadEmpty
    <2> QED BY <1>1, <2>1 DEF ReadEmpty, ring, TypeOK, HolderInv, LifeInv, CountInv, Pending
  <1>2. CASE ReadValue(t)
    <2>1. TypeOK'
      BY <1>2 DEF ReadValue, ring, TypeOK, Reading
    <2>2. HolderInv' /\ LifeInv'
      BY <1>0, <1>2, RxAssumption
         DEF ReadValue, ring, Usable, HolderInv, LifeInv, Reading, Clearing
    <2>3. Pending' = Pending
      BY <1>0, <1>2 DEF ReadValue, ring, Pending
    <2>4. CountInv'
      BY <1>0, <1>2, <2>3 DEF ReadValue, ring, CountInv
    <2> QED BY <2>1, <2>2, <2>4
  <1>3. CASE ReadTail(t)
    <2>1. pc[t] = "tail" /\ num >= 1 /\ holder = t /\ Pending = 0
      BY <1>3, OneReader DEF ReadTail, CountInv, HolderInv, Reading, Pending
    <2>2. unread # <<>> /\ unread \in Seq(1 .. MaxBytes)
      BY <1>0, <2>1 DEF CountInv, TypeOK
    <2>3. unread' = Tail(unread)
      BY <1>3, <2>2 DEF ReadTail
    <2>4. Len(unread') = Len(unread) - 1 /\ unread' \in Seq(1 .. MaxBytes)
      BY <2>2, <2>3
    <2>5. TypeOK'
      BY <1>3, <2>4, NextIndexType DEF ReadTail, TypeOK, Reading
    <2>6. HolderInv' /\ LifeInv'
      BY <1>0, <1>3 DEF ReadTail, HolderInv, LifeInv, Reading, Clearing
    <2>7. Pending' = 1
      BY <1>0, <1>3 DEF ReadTail, Pending
    <2>8. CountInv'
      BY <1>0, <1>3, <2>1, <2>4, <2>7 DEF ReadTail, CountInv
    <2> QED BY <2>5, <2>6, <2>8
  <1>4. CASE ReadLoad(t)
    <2>1. TypeOK'
      BY <1>4 DEF ReadLoad, ring, TypeOK, Reading
    <2>2. HolderInv' /\ LifeInv'
      BY <1>0, <1>4 DEF ReadLoad, ring, HolderInv, LifeInv, Reading, Clearing
    <2>3. Pending' = Pending
      BY <1>0, <1>4 DEF ReadLoad, Pending
    <2>4. CountInv'
      BY <1>0, <1>4, <2>3 DEF ReadLoad, ring, CountInv
    <2> QED BY <2>1, <2>2, <2>4
  <1>5. CASE ReadStore(t)
    <2>1. pc[t] = "store" /\ reg[t] \in Nat /\ reg[t] >= 1 /\ reg[t] <= num /\ holder = t
      BY <1>0, <1>5 DEF ReadStore, CountInv, HolderInv, Reading
    <2>2. num' = reg[t] - 1 /\ num' \in 0 .. N
      BY <1>0, <1>5, <2>1 DEF ReadStore
    <2>3. TypeOK'
      BY <1>5, <2>2 DEF ReadStore, TypeOK
    <2>4. \A u \in Tasks : pc'[u] \notin Reading
      BY <1>0, <1>5, <2>1, OneReader DEF ReadStore, Reading
    <2>5. HolderInv' /\ LifeInv'
      BY <1>0, <1>5, <2>4 DEF ReadStore, HolderInv, LifeInv, Reading, Clearing
    <2>6. Pending' = 0 /\ Pending = 1
      BY <2>1, <2>4 DEF Pending, Reading
    <2>7. num' <= Len(unread') + Pending'
      BY <1>0, <1>5, <2>1, <2>2, <2>6 DEF ReadStore, CountInv
    <2>8. CountInv'
      BY <2>4, <2>7 DEF CountInv, Reading
    <2> QED BY <2>3, <2>5, <2>8
  <1> QED BY <1>1, <1>2, <1>3, <1>4, <1>5 DEF Read

LEMMA PeekInv ==
    ASSUME IInv, NEW t \in Tasks, Peek(t)
    PROVE  IInv'
  <1> USE DEF IInv, Goto
  <1>0. pc \in [Tasks -> {"idle", "begin"} \cup Reading \cup Clearing]
    BY DEF TypeOK
  <1>1. TypeOK'
    BY DEF Peek, PeekTest, PeekValue, PeekReturn, ring, TypeOK, Reading
  <1>2. HolderInv' /\ LifeInv'
    BY <1>0, RxAssumption DEF Peek, PeekTest, PeekValue, PeekReturn, ring, Usable,
       HolderInv, LifeInv, Reading, Clearing
  <1>3. Pending' = Pending
    BY <1>0 DEF Peek, PeekTest, PeekValue, PeekReturn, Pending
  <1>4. CountInv'
    BY <1>0, <1>3 DEF Peek, PeekTest, PeekValue, PeekReturn, ring, CountInv
  <1> QED BY <1>1, <1>2, <1>4

(* begin and end run alone.                                                *)
LEMMA AloneInv ==
    ASSUME IInv, NEW t \in Tasks, holder = None, holder' = None,
           \A u \in Tasks : u # t => pc[u] = "idle",
           NEW to \in {"idle", "begin"} \cup Clearing, pc' = [pc EXCEPT ![t] = to],
           to \in Clearing => open' = "no" /\ mutex' = "none"
    PROVE  HolderInv' /\ LifeInv'
  <1>1. pc \in [Tasks -> {"idle", "begin"} \cup Reading \cup Clearing]
    BY DEF IInv, TypeOK
  <1>2. \A u \in Tasks : pc'[u] = IF u = t THEN to ELSE "idle"
    BY <1>1
  <1>3. HolderInv'
    BY <1>2 DEF HolderInv, Reading, Clearing
  <1>4. LifeInv'
    BY <1>2 DEF LifeInv, Clearing
  <1> QED BY <1>3, <1>4

(* Nobody reads when all other tasks are idle and this one is in begin or  *)
(* end.                                                                    *)
LEMMA AloneHolder ==
    ASSUME IInv, NEW t \in Tasks, pc[t] \notin Reading,
           \A u \in Tasks : u # t => pc[u] = "idle"
    PROVE  holder = None
  BY RxAssumption DEF IInv, TypeOK, HolderInv, Reading

LEMMA BeginInv ==
    ASSUME IInv, NEW t \in Tasks, Begin(t)
    PROVE  IInv'
  <1> USE DEF IInv, Goto
  <1>0. pc \in [Tasks -> {"idle", "begin"} \cup Reading \cup Clearing]
    BY DEF TypeOK
  <1>1. TypeOK'
    BY DEF Begin, BeginOpen, BeginMutex, ring, TypeOK
  <1>2. pc[t] \notin Reading /\ \A u \in Tasks : u # t => pc[u] = "idle"
    BY DEF Begin, BeginOpen, BeginMutex, Quiet, LifeInv, Reading
  <1>3. holder = None /\ holder' = None
    BY <1>2, AloneHolder DEF Begin, BeginOpen, BeginMutex
  <1>4. PICK to \in {"idle", "begin"} : pc' = [pc EXCEPT ![t] = to]
    BY DEF Begin, BeginOpen, BeginMutex
  <1>5. to \notin Clearing
    BY DEF Clearing
  <1>6. HolderInv' /\ LifeInv'
    BY <1>2, <1>3, <1>4, <1>5, AloneInv
  <1>7. Pending' = Pending
    BY <1>0 DEF Begin, BeginOpen, BeginMutex, Pending
  <1>8. CountInv'
    BY <1>0, <1>7 DEF Begin, BeginOpen, BeginMutex, ring, CountInv
  <1> QED BY <1>1, <1>6, <1>8

LEMMA EndInv ==
    ASSUME IInv, NEW t \in Tasks, End(t)
    PROVE  IInv'
  <1> USE DEF IInv, Goto
  <1>0. /\ pc \in [Tasks -> {"idle", "begin"} \cup Reading \cup Clearing]
        /\ num \in Nat /\ N \in Nat \ {0}
    BY RxAssumption DEF TypeOK
  <1>1. TypeOK'
    <2>1. CASE EndDeinit(t)
      BY <2>1 DEF EndDeinit, ring, TypeOK, Clearing
    <2>2. CASE ClearHead(t)
      BY <1>0, <2>2 DEF ClearHead, TypeOK, Clearing
    <2>3. CASE ClearTail(t)
      BY <1>0, <2>3 DEF ClearTail, TypeOK, Clearing
    <2>4. CASE ClearNum(t)
      <3>1. unread' \in Seq(1 .. MaxBytes) /\ num' \in 0 .. N
        BY <1>0, <2>4 DEF ClearNum
      <3> QED BY <2>4, <3>1 DEF ClearNum, TypeOK
    <2> QED BY <2>1, <2>2, <2>3, <2>4 DEF End
  <1>2. pc[t] \notin Reading /\ \A u \in Tasks : u # t => pc[u] = "idle"
    BY DEF End, EndDeinit, ClearHead, ClearTail, ClearNum, Quiet, LifeInv, Reading, Clearing
  <1>3. holder = None /\ holder' = None
    BY <1>2, AloneHolder DEF End, EndDeinit, ClearHead, ClearTail, ClearNum
  <1>4. PICK to \in {"idle"} \cup Clearing :
           /\ pc' = [pc EXCEPT ![t] = to]
           /\ to \in Clearing => open' = "no" /\ mutex' = "none"
    BY DEF End, EndDeinit, ClearHead, ClearTail, ClearNum, LifeInv, Clearing
  <1>5. HolderInv' /\ LifeInv'
    BY <1>2, <1>3, <1>4, AloneInv
  <1>6. Pending' = Pending
    BY <1>0 DEF End, EndDeinit, ClearHead, ClearTail, ClearNum, Pending
  <1>7. CASE ClearNum(t)
    <2>1. num' = 0 /\ unread' = <<>> /\ Len(unread') = 0
      BY <1>7 DEF ClearNum
    <2>2. \A u \in Tasks : pc'[u] = "idle"
      BY <1>0, <1>2, <1>7 DEF ClearNum
    <2>3. Pending' = 0
      BY <2>2 DEF Pending
    <2> QED BY <1>1, <1>5, <2>1, <2>2, <2>3 DEF CountInv
  <1>8. CASE ~ClearNum(t)
    <2>1. CountInv'
      BY <1>0, <1>6, <1>8 DEF End, EndDeinit, ClearHead, ClearTail, ring, CountInv
    <2> QED BY <1>1, <1>5, <2>1
  <1> QED BY <1>7, <1>8

LEMMA NextInv ==
    ASSUME IInv, [Next]_vars
    PROVE  IInv'
  <1>1. CASE UNCHANGED vars
    BY <1>1 DEF vars, ring, IInv, TypeOK, HolderInv, LifeInv, CountInv, Pending
  <1> QED BY <1>1, InterruptInv, ReadInv, PeekInv, BeginInv, EndInv DEF Next

(* Wherever interrupts fall in the readers' accesses, available() never    *)
(* says more than there is and read() never returns a byte that was not    *)
(* stored.                                                                 *)
THEOREM CountNeverAhead == Spec => []CountNotAhead
  <1>1. IInv => CountNotAhead
    BY DEF IInv, CountInv, CountNotAhead
  <1> QED BY InitInv, NextInv, <1>1, PTL DEF Spec

(* The ring's indices stay inside the buffer and its count within its size. *)
THEOREM RingTypeCorrect == Spec => []TypeOK
  <1>1. IInv => TypeOK
    BY DEF IInv
  <1> QED BY InitInv, NextInv, <1>1, PTL DEF Spec
-----------------------------------------------------------------------------
(* The cell i behind r, without a division.                                *)
Place(r, i) == IF r + i < N THEN r + i ELSE r + i - N

(* The ring holds the unread bytes, until a load and store of the count    *)
(* has been hit.                                                           *)
HoldInv == raced = "no" /\ (\A t \in Tasks : pc[t] \notin Clearing) =>
    /\ num = Len(unread) + Pending
    /\ head = Place(tail, Len(unread))
    /\ \A i \in 1 .. Len(unread) : cells[Place(tail, i - 1)] = unread[i]

(* A reader has seen the oldest byte, and loaded the count that still is.  *)
SeenInv == raced = "no" => \A t \in Tasks :
    /\ pc[t] \in {"tail", "peek", "peeked"} => unread # <<>>
    /\ pc[t] \in {"tail", "peeked"} => val[t] = unread[1]
    /\ pc[t] = "store" => reg[t] = num

(* A ring that is being cleared.                                           *)
ClearInv == \A t \in Tasks :
    /\ pc[t] \in {"clearTail", "clearNum"} => head = 0
    /\ pc[t] = "clearNum" => tail = 0

RingInv == IInv /\ HoldInv /\ SeenInv /\ ClearInv

(* Both say the same.                                                      *)
LEMMA PlaceIs ==
    ASSUME NEW r \in 0 .. N - 1, NEW i \in 0 .. N
    PROVE  (r + i) % N = Place(r, i) /\ Place(r, i) \in 0 .. N - 1
  <1>1. /\ N \in Nat /\ N >= 1 /\ r \in Int /\ 0 <= r /\ r < N
        /\ i \in Int /\ 0 <= i /\ i <= N
    BY RxAssumption DEF RxAssumption
  <1> DEFINE x == r + i
             m == x \div N
             y == x % N
  <1>2. x \in Int /\ 0 <= x /\ x < N + N
    BY <1>1
  <1>3. m \in Int /\ y \in Int /\ x = N * m + y /\ 0 <= y /\ y < N
    BY <1>1, <1>2
  <1> HIDE DEF m, y
  <1>4. m = 0 \/ m = 1
    <2>1. m >= 0
      <3> SUFFICES ASSUME m <= -1 PROVE FALSE
        BY <1>3
      <3>1. N * m <= - N
        BY <1>1, <1>3
      <3>2. QED
        BY <1>1, <1>2, <1>3, <3>1
    <2>2. m <= 1
      <3> SUFFICES ASSUME m >= 2 PROVE FALSE
        BY <1>3
      <3>1. N * m >= N + N
        BY <1>1, <1>3
      <3>2. QED
        BY <1>1, <1>2, <1>3, <3>1
    <2>3. QED
      BY <1>3, <2>1, <2>2
  <1>5. y = Place(r, i)
    <2>1. CASE m = 0
      <3>1. N * m = 0
        BY <1>1, <2>1
      <3>2. QED
        BY <1>1, <1>3, <3>1 DEF Place
    <2>2. CASE m = 1
      <3>1. N * m = N
        BY <1>1, <2>2
      <3>2. QED
        BY <1>1, <1>3, <3>1 DEF Place
    <2>3. QED
      BY <1>4, <2>1, <2>2
  <1>6. Place(r, i) \in 0 .. N - 1
    BY <1>1, <1>3, <1>5
  <1>7. (r + i) % N = y
    BY DEF y
  <1>8. QED
    BY <1>5, <1>6, <1>7

(* Both advance alike.                                                     *)
(* And so does an index that goes on by one.                               *)
LEMMA NextIs ==
    ASSUME NEW r \in 0 .. N - 1
    PROVE  nextIndex(r) = Place(r, 1)
  <1>1. 1 \in 0 .. N
    BY RxAssumption DEF RxAssumption
  <1>2. QED
    BY <1>1, PlaceIs DEF nextIndex

(* What is known of the variables.                                         *)
LEMMA RingTypes ==
    ASSUME IInv
    PROVE  /\ N \in Nat /\ N >= 1 /\ cells \in [0 .. N - 1 -> 0 .. MaxBytes]
           /\ head \in 0 .. N - 1 /\ tail \in 0 .. N - 1 /\ num \in 0 .. N
           /\ unread \in Seq(1 .. MaxBytes) /\ Len(unread) \in Nat
           /\ pc \in [Tasks -> {"idle", "begin"} \cup Reading \cup Clearing]
           /\ val \in [Tasks -> 0 .. MaxBytes] /\ reg \in [Tasks -> 0 .. N]
           /\ raced \in {"yes", "no"} /\ arrived \in Nat /\ Pending \in {0, 1}
  <1>1. QED
    BY RxAssumption, PendingType DEF IInv, TypeOK, RxAssumption

(* A task that reads, and one that is idle while nobody reads, is alone:   *)
(* the ring is not being cleared, and no other counts as pending.          *)
LEMMA ReaderAlone ==
    ASSUME IInv, NEW t \in Tasks, pc[t] \in Reading
    PROVE  /\ \A u \in Tasks : pc[u] \notin Clearing
           /\ \A u \in Tasks : u # t => pc[u] \notin Reading
           /\ Pending = IF pc[t] \in {"count", "store"} THEN 1 ELSE 0
  <1>1. \A u \in Tasks : u # t => pc[u] \notin Reading
    BY OneReader DEF IInv
  <1>2. \A u \in Tasks : pc[u] \notin Clearing
    BY DEF IInv, LifeInv, Reading, Clearing
  <1>3. QED
    BY <1>1, <1>2 DEF Pending, Reading

(* At first the ring is empty.                                             *)
LEMMA RingBegins == Init => RingInv
  <1> SUFFICES ASSUME Init PROVE RingInv
    OBVIOUS
  <1>1. IInv
    BY InitInv
  <1>2. Pending = 0 /\ unread = <<>> /\ Len(unread) = 0 /\ head = 0 /\ tail = 0 /\ num = 0
    BY DEF Init, Pending
  <1>3. \A t \in Tasks : pc[t] = "idle"
    BY DEF Init
  <1>4. HoldInv
    BY <1>2, RxAssumption DEF HoldInv, Place, RxAssumption
  <1>5. SeenInv /\ ClearInv
    BY <1>3 DEF SeenInv, ClearInv
  <1>6. QED
    BY <1>1, <1>4, <1>5 DEF RingInv

(* A byte that is stored goes behind the unread ones, over none of them.   *)
LEMMA StoreRing ==
    ASSUME RingInv, IInv', StoreByte
    PROVE  RingInv'
  <1>1. /\ open = "yes" /\ tail' = tail /\ pc' = pc /\ val' = val /\ reg' = reg
        /\ num # N /\ cells' = [cells EXCEPT ![head] = arrived + 1]
        /\ head' = nextIndex(head) /\ num' = num + 1
        /\ unread' = Append(unread, arrived + 1)
        /\ raced' = "no" => raced = "no" /\ \A t \in Tasks : pc[t] # "store"
    BY DEF StoreByte, Receive
  <1>2. IInv /\ HoldInv /\ SeenInv /\ ClearInv
    BY DEF RingInv
  <1>3. /\ N \in Nat /\ N >= 1 /\ cells \in [0 .. N - 1 -> 0 .. MaxBytes]
        /\ head \in 0 .. N - 1 /\ tail \in 0 .. N - 1 /\ num \in 0 .. N
        /\ unread \in Seq(1 .. MaxBytes) /\ Len(unread) \in Nat /\ Pending \in {0, 1}
    BY <1>2, RingTypes
  <1>4. arrived + 1 \in 1 .. MaxBytes
    BY <1>2, RxAssumption DEF StoreByte, Receive, IInv, TypeOK, RxAssumption
  <1>5. /\ Len(unread') = Len(unread) + 1 /\ unread' # <<>>
        /\ \A i \in 1 .. Len(unread) : unread'[i] = unread[i]
        /\ unread'[Len(unread) + 1] = arrived + 1
    <2>1. /\ unread' \in Seq(1 .. MaxBytes) /\ Len(unread') = Len(unread) + 1
          /\ \A i \in 1 .. Len(unread) : unread'[i] = unread[i]
          /\ unread'[Len(unread) + 1] = arrived + 1
      BY <1>1, <1>3, <1>4, AppendProperties
    <2>2. QED
      BY <1>3, <2>1, EmptySeq
  <1>6. Pending' = Pending
    BY <1>1 DEF Pending
  <1>7. HoldInv'
    <2> SUFFICES ASSUME raced = "no", \A t \in Tasks : pc[t] \notin Clearing
                 PROVE  /\ num' = Len(unread') + Pending'
                        /\ head' = Place(tail, Len(unread'))
                        /\ \A i \in 1 .. Len(unread') : cells'[Place(tail, i - 1)] = unread'[i]
      BY <1>1 DEF HoldInv, Place
    <2>1. /\ num = Len(unread) + Pending /\ head = Place(tail, Len(unread))
          /\ \A i \in 1 .. Len(unread) : cells[Place(tail, i - 1)] = unread[i]
      BY <1>2 DEF HoldInv
    <2>2. Len(unread) < N
      BY <1>1, <1>3, <2>1
    <2>3. head' = Place(tail, Len(unread'))
      BY <1>1, <1>3, <1>5, <2>1, <2>2, NextIs, SMTT(30) DEF Place
    <2>4. ASSUME NEW i \in 1 .. Len(unread) + 1
          PROVE  cells'[Place(tail, i - 1)] = unread'[i]
      <3>1. CASE i = Len(unread) + 1
        BY <1>1, <1>3, <1>5, <2>1, <3>1
      <3>2. CASE i # Len(unread) + 1
        <4>0. /\ i \in Nat /\ i >= 1 /\ i <= Len(unread) /\ Len(unread) \in Nat /\ Len(unread) < N
              /\ N \in Nat /\ tail \in Nat /\ tail < N
          BY <1>3, <2>2, <3>2
        <4>1. i \in 1 .. Len(unread) /\ i - 1 \in 0 .. N /\ i - 1 < Len(unread)
          BY ONLY <4>0
        <4>2. Place(tail, i - 1) # head
          <5>1. PICK n \in Nat : n = Len(unread)
            BY <4>0
          <5>2. head = IF tail + n < N THEN tail + n ELSE tail + n - N
            BY <2>1, <5>1 DEF Place
          <5>3. Place(tail, i - 1) = IF tail + (i - 1) < N THEN tail + (i - 1) ELSE tail + (i - 1) - N
            BY DEF Place
          <5>4. i <= n /\ n < N
            BY <4>0, <5>1
          <5>5. QED
            BY ONLY <4>0, <5>1, <5>2, <5>3, <5>4
        <4>3. Place(tail, i - 1) \in 0 .. N - 1
          BY <1>3, <4>1, PlaceIs
        <4>4. QED
          BY <1>1, <1>3, <1>5, <2>1, <4>1, <4>2, <4>3
      <3>3. QED
        BY <3>1, <3>2
    <2>5. QED
      BY <1>1, <1>3, <1>5, <1>6, <2>1, <2>3, <2>4, SMTT(30)
  <1>8. SeenInv'
    <2> SUFFICES ASSUME raced' = "no", NEW t \in Tasks
                 PROVE  /\ pc[t] \in {"tail", "peeked"} => val[t] = unread'[1]
                        /\ pc[t] # "store"
      BY <1>1, <1>5 DEF SeenInv
    <2>1. ASSUME pc[t] \in {"tail", "peeked"} PROVE val[t] = unread'[1]
      <3>1. unread # <<>> /\ val[t] = unread[1]
        BY <1>1, <1>2, <2>1 DEF SeenInv
      <3>2. 1 \in 1 .. Len(unread)
        BY <1>3, <3>1, EmptySeq
      <3>3. QED
        BY <1>5, <3>1, <3>2
    <2>2. QED
      BY <1>1, <2>1
  <1>9. ClearInv'
    BY <1>1, <1>2 DEF ClearInv, IInv, LifeInv, Clearing
  <1>10. QED
    BY <1>7, <1>8, <1>9 DEF RingInv

(* A reader begins, looks and goes on by itself.                           *)
LEMMA ReadRing ==
    ASSUME RingInv, IInv', NEW t \in Tasks, Read(t)
    PROVE  RingInv'
  <1>1. IInv /\ HoldInv /\ SeenInv /\ ClearInv
    BY DEF RingInv
  <1>2. /\ N \in Nat /\ N >= 1 /\ cells \in [0 .. N - 1 -> 0 .. MaxBytes]
        /\ head \in 0 .. N - 1 /\ tail \in 0 .. N - 1 /\ num \in 0 .. N
        /\ unread \in Seq(1 .. MaxBytes) /\ Len(unread) \in Nat /\ Pending \in {0, 1}
        /\ pc \in [Tasks -> {"idle", "begin"} \cup Reading \cup Clearing]
        /\ val \in [Tasks -> 0 .. MaxBytes] /\ reg \in [Tasks -> 0 .. N]
    BY <1>1, RingTypes
  <1>3. CASE ReadEmpty(t)
    <2>1. /\ pc' = pc /\ cells' = cells /\ head' = head /\ tail' = tail /\ num' = num
          /\ val' = val /\ reg' = reg /\ unread' = unread /\ raced' = raced
      BY <1>2, <1>3 DEF ReadEmpty, Goto, ring
    <2>2. HoldInv' /\ SeenInv' /\ ClearInv'
      BY <1>1, <2>1 DEF HoldInv, SeenInv, ClearInv, Pending, Place
    <2>3. QED
      BY <2>2 DEF RingInv
  <1>4. CASE ReadValue(t)
    <2>1. /\ pc[t] = "idle" /\ pc' = [pc EXCEPT ![t] = "tail"] /\ num # 0 /\ holder = None
          /\ cells' = cells /\ head' = head /\ tail' = tail /\ num' = num
          /\ val' = [val EXCEPT ![t] = cells[tail]] /\ reg' = reg
          /\ unread' = unread /\ raced' = raced
          /\ \A u \in Tasks : pc[u] \notin Clearing
      BY <1>4 DEF ReadValue, Goto, ring, Usable
    <2>2. \A u \in Tasks : pc[u] \notin Reading
      BY <1>1, <2>1, RxAssumption DEF IInv, HolderInv, RxAssumption
    <2>3. Pending = 0 /\ Pending' = 0
      BY <1>2, <2>1, <2>2 DEF Pending, Reading
    <2>4. HoldInv'
      BY <1>1, <2>1, <2>3 DEF HoldInv, Place
    <2>5. raced = "no" => unread # <<>> /\ cells[tail] = unread[1]
      <3> SUFFICES ASSUME raced = "no" PROVE unread # <<>> /\ cells[tail] = unread[1]
        OBVIOUS
      <3>1. num = Len(unread) /\ \A i \in 1 .. Len(unread) : cells[Place(tail, i - 1)] = unread[i]
        BY <1>1, <1>2, <2>1, <2>3 DEF HoldInv
      <3>2. 1 \in 1 .. Len(unread) /\ unread # <<>>
        BY <1>2, <2>1, <3>1, EmptySeq
      <3>3. Place(tail, 1 - 1) = tail
        BY <1>2 DEF Place
      <3>4. QED
        BY <3>1, <3>2, <3>3
    <2>6. SeenInv'
      BY <1>1, <1>2, <2>1, <2>5 DEF SeenInv
    <2>7. ClearInv'
      BY <1>1, <1>2, <2>1 DEF ClearInv
    <2>8. QED
      BY <2>4, <2>6, <2>7 DEF RingInv
  <1>5. CASE ReadTail(t)
    <2>1. /\ pc[t] = "tail" /\ pc' = [pc EXCEPT ![t] = "count"]
          /\ cells' = cells /\ head' = head /\ tail' = nextIndex(tail) /\ num' = num
          /\ val' = val /\ reg' = reg /\ raced' = raced
          /\ unread' = IF unread = <<>> THEN unread ELSE Tail(unread)
      BY <1>5 DEF ReadTail, Goto
    <2>2. /\ \A u \in Tasks : pc[u] \notin Clearing
          /\ \A u \in Tasks : u # t => pc[u] \notin Reading
          /\ Pending = 0
      BY <1>1, <2>1, ReaderAlone DEF Reading
    <2>3. Pending' = 1
      BY <1>2, <2>1 DEF Pending
    <2>4. tail' = Place(tail, 1)
      BY <1>2, <2>1, NextIs
    <2>5. HoldInv'
      <3> SUFFICES ASSUME raced = "no"
                   PROVE  /\ num = Len(unread') + 1
                          /\ head = Place(tail', Len(unread'))
                          /\ \A i \in 1 .. Len(unread') : cells[Place(tail', i - 1)] = unread'[i]
        BY <2>1, <2>3 DEF HoldInv, Place
      <3>1. /\ num = Len(unread) /\ head = Place(tail, Len(unread))
            /\ \A i \in 1 .. Len(unread) : cells[Place(tail, i - 1)] = unread[i]
            /\ unread # <<>>
        BY <1>1, <1>2, <2>1, <2>2 DEF HoldInv, SeenInv
      <3>2. /\ Len(unread') = Len(unread) - 1 /\ Len(unread) >= 1
            /\ \A i \in 1 .. Len(unread) - 1 : unread'[i] = unread[i + 1]
        BY <1>2, <2>1, <3>1, HeadTailProperties, EmptySeq
      <3>3. head = Place(tail', Len(unread'))
        BY <1>2, <2>4, <3>1, <3>2 DEF Place
      <3>4. ASSUME NEW i \in 1 .. Len(unread) - 1
            PROVE  cells[Place(tail', i - 1)] = unread'[i]
        <4>1. i + 1 \in 1 .. Len(unread) /\ i + 1 - 1 = i
          BY <1>2
        <4>2. Place(tail', i - 1) = Place(tail, i)
          BY <1>2, <2>4, <3>1 DEF Place
        <4>3. QED
          BY <3>1, <3>2, <4>1, <4>2
      <3>5. QED
        BY <1>2, <3>1, <3>2, <3>3, <3>4
    <2>6. SeenInv'
      BY <1>1, <1>2, <2>1, <2>2 DEF SeenInv, Reading
    <2>7. ClearInv'
      BY <1>2, <2>1, <2>2 DEF ClearInv, Clearing
    <2>8. QED
      BY <2>5, <2>6, <2>7 DEF RingInv
  <1>6. CASE ReadLoad(t)
    <2>1. /\ pc[t] = "count" /\ pc' = [pc EXCEPT ![t] = "store"]
          /\ cells' = cells /\ head' = head /\ tail' = tail /\ num' = num
          /\ val' = val /\ reg' = [reg EXCEPT ![t] = num] /\ raced' = raced
          /\ unread' = unread
      BY <1>6 DEF ReadLoad, Goto, ring
    <2>2. \A u \in Tasks : pc[u] \notin Clearing
      BY <1>1, <2>1, ReaderAlone DEF Reading
    <2>3. Pending = 1 /\ Pending' = 1
      BY <1>2, <2>1 DEF Pending
    <2>4. HoldInv'
      BY <1>1, <2>1, <2>2, <2>3 DEF HoldInv, Place
    <2>5. SeenInv'
      BY <1>1, <1>2, <2>1 DEF SeenInv
    <2>6. ClearInv'
      BY <1>2, <2>1, <2>2 DEF ClearInv, Clearing
    <2>7. QED
      BY <2>4, <2>5, <2>6 DEF RingInv
  <1>7. CASE ReadStore(t)
    <2>1. /\ pc[t] = "store" /\ pc' = [pc EXCEPT ![t] = "idle"]
          /\ cells' = cells /\ head' = head /\ tail' = tail /\ num' = reg[t] - 1
          /\ val' = val /\ reg' = reg /\ raced' = raced /\ unread' = unread
      BY <1>7 DEF ReadStore, Goto
    <2>2. /\ \A u \in Tasks : pc[u] \notin Clearing
          /\ \A u \in Tasks : u # t => pc[u] \notin Reading
          /\ Pending = 1
      BY <1>1, <2>1, ReaderAlone DEF Reading
    <2>3. Pending' = 0
      BY <1>2, <2>1, <2>2 DEF Pending, Reading
    <2>4. HoldInv'
      <3> SUFFICES ASSUME raced = "no"
                   PROVE  /\ num' = Len(unread)
                          /\ head = Place(tail, Len(unread))
                          /\ \A i \in 1 .. Len(unread) : cells[Place(tail, i - 1)] = unread[i]
        BY <1>2, <2>1, <2>3 DEF HoldInv, Place
      <3>1. /\ num = Len(unread) + 1 /\ head = Place(tail, Len(unread))
            /\ \A i \in 1 .. Len(unread) : cells[Place(tail, i - 1)] = unread[i]
            /\ reg[t] = num
        BY <1>1, <2>1, <2>2 DEF HoldInv, SeenInv
      <3>2. QED
        BY <1>2, <2>1, <3>1
    <2>5. SeenInv'
      BY <1>1, <1>2, <2>1, <2>2 DEF SeenInv, Reading
    <2>6. ClearInv'
      BY <1>2, <2>1, <2>2 DEF ClearInv, Clearing
    <2>7. QED
      BY <2>4, <2>5, <2>6 DEF RingInv
  <1>8. QED
    BY <1>3, <1>4, <1>5, <1>6, <1>7 DEF Read

(* A peek leaves the ring as it is.                                        *)
LEMMA PeekRing ==
    ASSUME RingInv, IInv', NEW t \in Tasks, Peek(t)
    PROVE  RingInv'
  <1>1. IInv /\ HoldInv /\ SeenInv /\ ClearInv
    BY DEF RingInv
  <1>2. /\ N \in Nat /\ N >= 1 /\ tail \in 0 .. N - 1 /\ num \in 0 .. N
        /\ unread \in Seq(1 .. MaxBytes) /\ Len(unread) \in Nat /\ Pending \in {0, 1}
        /\ pc \in [Tasks -> {"idle", "begin"} \cup Reading \cup Clearing]
        /\ val \in [Tasks -> 0 .. MaxBytes] /\ reg \in [Tasks -> 0 .. N]
    BY <1>1, RingTypes
  <1>3. PICK pos \in {"peek", "peeked", "idle"} :
           /\ pc' = [pc EXCEPT ![t] = pos]
           /\ cells' = cells /\ head' = head /\ tail' = tail /\ num' = num
           /\ reg' = reg /\ unread' = unread /\ raced' = raced
           /\ pos = "peek" => /\ pc[t] = "idle" /\ num # 0 /\ holder = None /\ val' = val
                              /\ \A u \in Tasks : pc[u] \notin Clearing
           /\ pos = "peeked" => pc[t] = "peek" /\ val' = [val EXCEPT ![t] = cells[tail]]
           /\ pos = "idle" => pc[t] = "peeked" /\ val' = val
    BY DEF Peek, PeekTest, PeekValue, PeekReturn, Goto, ring, Usable
  <1>4. /\ \A u \in Tasks : pc[u] \notin Clearing
        /\ \A u \in Tasks : u # t => pc[u] \notin Reading
        /\ Pending = 0
    <2>1. CASE pos = "peek"
      <3>1. \A u \in Tasks : pc[u] \notin Reading
        BY <1>1, <1>3, <2>1, RxAssumption DEF IInv, HolderInv, RxAssumption
      <3>2. QED
        BY <1>3, <2>1, <3>1 DEF Pending, Reading
    <2>2. CASE pos # "peek"
      BY <1>1, <1>3, <2>2, ReaderAlone DEF Reading
    <2>3. QED
      BY <2>1, <2>2
  <1>5. Pending' = 0
    BY <1>2, <1>3, <1>4 DEF Pending, Reading
  <1>6. HoldInv'
    BY <1>1, <1>3, <1>4, <1>5 DEF HoldInv, Place
  <1>7. raced = "no" /\ pos # "idle" => unread # <<>> /\ cells[tail] = unread[1]
    <2> SUFFICES ASSUME raced = "no", pos # "idle"
                 PROVE  unread # <<>> /\ cells[tail] = unread[1]
      OBVIOUS
    <2>1. num = Len(unread) /\ \A i \in 1 .. Len(unread) : cells[Place(tail, i - 1)] = unread[i]
      BY <1>1, <1>2, <1>4 DEF HoldInv
    <2>2. unread # <<>>
      BY <1>1, <1>2, <1>3, <2>1, EmptySeq DEF SeenInv
    <2>3. 1 \in 1 .. Len(unread)
      BY <1>2, <2>2, EmptySeq
    <2>4. Place(tail, 1 - 1) = tail
      BY <1>2 DEF Place
    <2>5. QED
      BY <2>1, <2>2, <2>3, <2>4
  <1>8. SeenInv'
    BY <1>1, <1>2, <1>3, <1>7 DEF SeenInv
  <1>9. ClearInv'
    BY <1>2, <1>3, <1>4 DEF ClearInv, Clearing
  <1>10. QED
    BY <1>6, <1>8, <1>9 DEF RingInv

(* begin leaves the ring as it is; end empties it.                         *)
LEMMA LifeRing ==
    ASSUME RingInv, IInv', NEW t \in Tasks, Begin(t) \/ End(t)
    PROVE  RingInv'
  <1>1. IInv /\ HoldInv /\ SeenInv /\ ClearInv
    BY DEF RingInv
  <1>2. pc \in [Tasks -> {"idle", "begin"} \cup Reading \cup Clearing] /\ N \in Nat /\ N >= 1
    BY <1>1, RingTypes
  <1>3. PICK pos \in {"begin", "idle", "clearHead", "clearTail", "clearNum"} :
           /\ pc' = [pc EXCEPT ![t] = pos] /\ cells' = cells /\ val' = val /\ reg' = reg
           /\ \/ /\ pc[t] = "idle" /\ Quiet /\ pos \in {"begin", "clearHead"}
                 /\ head' = head /\ tail' = tail /\ num' = num
                 /\ unread' = unread /\ raced' = raced
              \/ /\ pc[t] = "begin" /\ pos = "idle"
                 /\ head' = head /\ tail' = tail /\ num' = num
                 /\ unread' = unread /\ raced' = raced
              \/ /\ pc[t] = "clearHead" /\ pos = "clearTail"
                 /\ head' = 0 /\ tail' = tail /\ num' = num
                 /\ unread' = unread /\ raced' = raced
              \/ /\ pc[t] = "clearTail" /\ pos = "clearNum"
                 /\ head' = head /\ tail' = 0 /\ num' = num
                 /\ unread' = unread /\ raced' = raced
              \/ /\ pc[t] = "clearNum" /\ pos = "idle"
                 /\ head' = head /\ tail' = tail /\ num' = 0
                 /\ unread' = <<>> /\ raced' = "no"
    BY DEF Begin, End, BeginOpen, BeginMutex, EndDeinit, ClearHead, ClearTail, ClearNum,
           Goto, ring
  <1>4. \A u \in Tasks : u # t => pc[u] = "idle"
    BY <1>1, <1>3 DEF IInv, LifeInv, Quiet, Clearing
  <1>5. /\ pc'[t] = pos /\ \A u \in Tasks : u # t => pc'[u] = "idle"
    BY <1>2, <1>3, <1>4
  <1>6. Pending = 0 /\ Pending' = 0
    BY <1>3, <1>4, <1>5 DEF Pending
  <1>7. SeenInv'
    BY <1>5 DEF SeenInv
  <1>8. ClearInv'
    BY <1>1, <1>3, <1>4, <1>5 DEF ClearInv
  <1>9. HoldInv'
    <2>1. CASE pc[t] = "clearNum" /\ pos = "idle"
      <3>1. head' = 0 /\ tail' = 0 /\ num' = 0 /\ unread' = <<>> /\ Len(unread') = 0
        BY <1>1, <1>3, <2>1 DEF ClearInv
      <3>2. QED
        BY <1>2, <1>6, <3>1 DEF HoldInv, Place
    <2>2. CASE pos \in Clearing
      BY <1>5, <2>2 DEF HoldInv
    <2>3. CASE pc[t] # "clearNum" /\ pos \notin Clearing
      <3>1. /\ pc[t] \notin Clearing /\ cells' = cells /\ head' = head /\ tail' = tail
            /\ num' = num /\ unread' = unread /\ raced' = raced
        BY <1>3, <2>3 DEF Clearing
      <3>2. \A u \in Tasks : pc[u] \notin Clearing
        BY <1>4, <3>1 DEF Clearing
      <3>3. QED
        BY <1>1, <1>6, <3>1, <3>2 DEF HoldInv, Place
    <2>4. QED
      BY <1>3, <2>1, <2>2, <2>3 DEF Clearing
  <1>10. QED
    BY <1>7, <1>8, <1>9 DEF RingInv

(* RingInv is inductive.                                                   *)
LEMMA RingHolds == Spec => []RingInv
  <1>1. RingInv /\ [Next]_vars => RingInv'
    <2> SUFFICES ASSUME RingInv, [Next]_vars PROVE RingInv'
      OBVIOUS
    <2>1. IInv'
      BY NextInv DEF RingInv
    <2>2. CASE DropByte \/ UNCHANGED vars
      <3>1. /\ pc' = pc /\ cells' = cells /\ head' = head /\ tail' = tail /\ num' = num
            /\ val' = val /\ reg' = reg /\ unread' = unread /\ raced' = raced
        BY <2>2 DEF DropByte, Receive, vars, ring
      <3>2. HoldInv' /\ SeenInv' /\ ClearInv'
        BY <3>1 DEF RingInv, HoldInv, SeenInv, ClearInv, Pending, Place
      <3>3. QED
        BY <2>1, <3>2 DEF RingInv
    <2>3. QED
      BY <2>1, <2>2, StoreRing, ReadRing, PeekRing, LifeRing DEF Next, Interrupt
  <1>2. QED
    BY <1>1, RingBegins, PTL DEF Spec

(* A read or a peek gets the oldest unread byte, wherever interrupts fall  *)
(* but between a load and a store of the count.                            *)
THEOREM ReadsTheOldest == Spec => []ReadsOldest
  <1>1. RingInv => ReadsOldest
    BY RingTypes DEF RingInv, SeenInv, ReadsOldest
  <1>2. QED
    BY <1>1, RingHolds, PTL

(* And the ring holds the unread bytes in their order: none is dropped     *)
(* while there is a free cell, and none is overwritten.                    *)
THEOREM RingKeepsUnread == Spec => []RingHoldsUnread
  <1>1. RingInv => RingHoldsUnread
    <2> SUFFICES ASSUME RingInv, raced = "no", \A t \in Tasks : pc[t] \notin Clearing
                 PROVE  /\ num = Len(unread) + Pending
                        /\ head = (tail + Len(unread)) % N
                        /\ \A i \in 1 .. Len(unread) : cells[(tail + i - 1) % N] = unread[i]
      BY DEF RingHoldsUnread
    <2>1. /\ num = Len(unread) + Pending /\ head = Place(tail, Len(unread))
          /\ \A i \in 1 .. Len(unread) : cells[Place(tail, i - 1)] = unread[i]
      BY DEF RingInv, HoldInv
    <2>2. /\ N \in Nat /\ tail \in 0 .. N - 1 /\ num \in 0 .. N /\ Len(unread) \in Nat
          /\ Pending \in {0, 1}
      BY RingTypes DEF RingInv
    <2>3. Len(unread) \in 0 .. N
      BY <2>1, <2>2
    <2>4. ASSUME NEW i \in 1 .. Len(unread) PROVE cells[(tail + i - 1) % N] = unread[i]
      <3>1. i - 1 \in 0 .. N /\ tail + i - 1 = tail + (i - 1)
        BY <2>2, <2>3
      <3>2. QED
        BY <2>1, <2>2, <3>1, PlaceIs
    <2>5. QED
      BY <2>1, <2>2, <2>3, <2>4, PlaceIs
  <1>2. QED
    BY <1>1, RingHolds, PTL
-----------------------------------------------------------------------------
(* A finite set of numbers has a greatest and a least member: of what is   *)
(* on its one side, seen from each, the smallest set.                      *)
LEMMA MaxIs ==
    ASSUME NEW S \in SUBSET Nat, IsFiniteSet(S), S # {}
    PROVE  Max(S) \in S /\ \A y \in S : Max(S) >= y
  <1> DEFINE Up(y) == {x \in S : x >= y}
             T == {Up(y) : y \in S}
             R == StrictSubsetOrdering(S)
  <1>1. IsWellFoundedOn(R, SUBSET S)
    BY FS_StrictSubsetOrderingWellFounded, FS_FiniteSubsetsOfFinite
  <1>2. T \subseteq SUBSET S /\ T # {}
    OBVIOUS
  <1>3. PICK u \in T : \A v \in T : <<v, u>> \notin R
    <2> HIDE DEF T, R
    <2>1. QED
      BY <1>1, <1>2, WFMin
  <1>4. PICK m \in S : u = Up(m)
    OBVIOUS
  <1>5. ASSUME NEW y \in S PROVE m >= y
    <2> SUFFICES ASSUME ~ m >= y PROVE FALSE
      OBVIOUS
    <2>0. m \in Nat /\ y \in Nat /\ ~ m >= y /\ m >= m /\ \A x \in S : x >= y => x >= m
      OBVIOUS
    <2>1. Up(y) \subseteq Up(m) /\ m \in Up(m) /\ m \notin Up(y)
      BY ONLY <2>0, m \in S
    <2>2. Up(y) \in T /\ <<Up(y), Up(m)>> \in R
      BY <2>1 DEF StrictSubsetOrdering
    <2>3. QED
      BY <1>3, <1>4, <2>2
  <1>6. QED
    BY <1>5 DEF Max

LEMMA MinIs ==
    ASSUME NEW S \in SUBSET Nat, IsFiniteSet(S), S # {}
    PROVE  Min(S) \in S /\ \A y \in S : Min(S) <= y
  <1> DEFINE Down(y) == {x \in S : x <= y}
             T == {Down(y) : y \in S}
             R == StrictSubsetOrdering(S)
  <1>1. IsWellFoundedOn(R, SUBSET S)
    BY FS_StrictSubsetOrderingWellFounded, FS_FiniteSubsetsOfFinite
  <1>2. T \subseteq SUBSET S /\ T # {}
    OBVIOUS
  <1>3. PICK u \in T : \A v \in T : <<v, u>> \notin R
    <2> HIDE DEF T, R
    <2>1. QED
      BY <1>1, <1>2, WFMin
  <1>4. PICK m \in S : u = Down(m)
    OBVIOUS
  <1>5. ASSUME NEW y \in S PROVE m <= y
    <2> SUFFICES ASSUME ~ m <= y PROVE FALSE
      OBVIOUS
    <2>0. m \in Nat /\ y \in Nat /\ ~ m <= y /\ m <= m /\ \A x \in S : x <= y => x <= m
      OBVIOUS
    <2>1. Down(y) \subseteq Down(m) /\ m \in Down(m) /\ m \notin Down(y)
      BY ONLY <2>0, m \in S
    <2>2. Down(y) \in T /\ <<Down(y), Down(m)>> \in R
      BY <2>1 DEF StrictSubsetOrdering
    <2>3. QED
      BY <1>3, <1>4, <2>2
  <1>6. QED
    BY <1>5 DEF Min
-----------------------------------------------------------------------------
(* The first k letters of str are the last of s; and k is the greatest     *)
(* such.                                                                   *)
Ends(s, str, k) == k <= Len(s) /\ \A j \in 1 .. k : str[j] = s[Len(s) - k + j]

Longest(s, str, k) ==
    k \in 0 .. Len(str) /\ Ends(s, str, k) /\ \A m \in 0 .. Len(str) : Ends(s, str, m) => m <= k

(* What is kept of the letters when one more has come.                     *)
LEMMA LastKept ==
    ASSUME NEW s \in Seq(Letters), Len(s) <= Kept, NEW c \in Letters
    PROVE  /\ Keep(Append(s, c)) \in Seq(Letters) /\ Len(Keep(Append(s, c))) <= Kept
           /\ \A k \in 1 .. Kept :
                /\ k <= Len(Keep(Append(s, c))) <=> k - 1 <= Len(s)
                /\ k - 1 <= Len(s) => \A j \in 1 .. k :
                     Keep(Append(s, c))[Len(Keep(Append(s, c))) - k + j]
                        = IF j = k THEN c ELSE s[Len(s) - (k - 1) + j]
  <1> DEFINE a == Append(s, c)
             r == Keep(a)
  <1>0. Kept \in Nat /\ Len(s) \in Nat
    BY FindAssumption DEF FindAssumption
  <1>1. /\ a \in Seq(Letters) /\ Len(a) = Len(s) + 1 /\ a[Len(s) + 1] = c
        /\ \A i \in 1 .. Len(s) : a[i] = s[i]
    BY AppendProperties
  <1> HIDE DEF a
  <1>2. PICK d \in {0, 1} :
          /\ r \in Seq(Letters) /\ Len(r) = Len(s) + 1 - d
          /\ \A i \in 1 .. Len(r) : r[i] = a[i + d]
          /\ d = 1 <=> Len(s) = Kept
    <2>1. CASE Len(a) > Kept
      <3>1. a # <<>>
        BY <1>0, <1>1, EmptySeq
      <3>2. /\ Tail(a) \in Seq(Letters) /\ Len(Tail(a)) = Len(a) - 1
            /\ \A i \in 1 .. Len(Tail(a)) : Tail(a)[i] = a[i + 1]
        BY <1>1, <3>1, HeadTailProperties
      <3>3. r = Tail(a) /\ Len(s) = Kept
        BY <1>0, <1>1, <2>1 DEF Keep
      <3>4. QED
        BY <1>0, <1>1, <3>2, <3>3
    <2>2. CASE ~ Len(a) > Kept
      <3>1. r = a /\ Len(s) # Kept
        BY <1>0, <1>1, <2>2 DEF Keep
      <3>2. \A i \in 1 .. Len(r) : r[i] = a[i + 0]
        BY <1>0, <1>1, <3>1
      <3>3. QED
        BY <1>0, <1>1, <3>1, <3>2
    <2>3. QED
      BY <2>1, <2>2
  <1> HIDE DEF r
  <1>3. Len(r) <= Kept
    BY <1>0, <1>2
  <1>4. ASSUME NEW k \in 1 .. Kept
        PROVE  k <= Len(r) <=> k - 1 <= Len(s)
    BY <1>0, <1>2
  <1>5. ASSUME NEW k \in 1 .. Kept, k - 1 <= Len(s), NEW j \in 1 .. k
        PROVE  r[Len(r) - k + j] = IF j = k THEN c ELSE s[Len(s) - (k - 1) + j]
    <2>1. Len(r) - k + j \in 1 .. Len(r) /\ Len(r) - k + j + d = Len(s) - (k - 1) + j
      BY <1>0, <1>2, <1>4, <1>5
    <2>2. r[Len(r) - k + j] = a[Len(s) - (k - 1) + j]
      BY <1>2, <2>1
    <2>3. CASE j = k
      BY <1>0, <1>1, <2>2, <2>3
    <2>4. CASE j # k
      <3>1. Len(s) - (k - 1) + j \in 1 .. Len(s)
        BY <1>0, <1>5, <2>4
      <3>2. QED
        BY <1>1, <2>2, <2>4, <3>1
    <2>5. QED
      BY <2>3, <2>4
  <1>6. QED
    BY <1>2, <1>3, <1>4, <1>5 DEF r, a

(* k letters of a target end what is kept now, if k - 1 did before and the *)
(* letter that has come is the k-th.                                       *)
LEMMA EndsWith ==
    ASSUME NEW s \in Seq(Letters), Len(s) <= Kept, NEW c \in Letters,
           NEW str \in Seq(Letters), Len(str) <= Kept, NEW k \in 0 .. Len(str)
    PROVE  Ends(Keep(Append(s, c)), str, k) <=> k = 0 \/ (Ends(s, str, k - 1) /\ str[k] = c)
  <1>0. Kept \in Nat /\ Len(s) \in Nat /\ Len(str) \in Nat
    BY FindAssumption DEF FindAssumption
  <1> DEFINE r == Keep(Append(s, c))
  <1>1. r \in Seq(Letters) /\ Len(r) \in Nat
    BY LastKept
  <1>2. CASE k = 0
    BY <1>1, <1>2 DEF Ends
  <1>3. CASE k # 0
    <2>1. k \in 1 .. Kept
      BY <1>0, <1>3
    <2>2. /\ k <= Len(r) <=> k - 1 <= Len(s)
          /\ k - 1 <= Len(s) => \A j \in 1 .. k :
                r[Len(r) - k + j] = IF j = k THEN c ELSE s[Len(s) - (k - 1) + j]
      BY <2>1, LastKept
    <2> HIDE DEF r
    <2>3. ASSUME k - 1 <= Len(s)
          PROVE  (\A j \in 1 .. k : str[j] = r[Len(r) - k + j])
                 <=> (\A j \in 1 .. k - 1 : str[j] = s[Len(s) - (k - 1) + j]) /\ str[k] = c
      <3>1. \A j \in 1 .. k - 1 : j \in 1 .. k /\ j # k
        BY <2>1
      <3>2. k \in 1 .. k /\ \A j \in 1 .. k : j = k \/ j \in 1 .. k - 1
        BY <2>1
      <3>3. QED
        BY <2>2, <2>3, <3>1, <3>2
    <2>4. QED
      BY <1>3, <2>2, <2>3 DEF Ends, r
  <1>4. QED
    BY <1>2, <1>3

(* The shorter part of a longer match.                                     *)
LEMMA EndsWithin ==
    ASSUME NEW s \in Seq(Letters), NEW str \in Seq(Letters), NEW k \in 0 .. Len(str),
           Ends(s, str, k), NEW i \in 0 .. k
    PROVE  Ends(s, str, i) <=> \A j \in 1 .. i : str[j] = str[j + (k - i)]
  <1>0. Len(s) \in Nat /\ Len(str) \in Nat /\ k \in Nat /\ k <= Len(s) /\ i \in Nat /\ i <= k
    BY DEF Ends
  <1>1. ASSUME NEW j \in 1 .. i
        PROVE  str[j + (k - i)] = s[Len(s) - i + j]
    <2>1. j + (k - i) \in 1 .. k /\ Len(s) - k + (j + (k - i)) = Len(s) - i + j
      BY <1>0
    <2>2. QED
      BY <2>1 DEF Ends
  <1>2. i <= Len(s)
    BY <1>0
  <1>3. QED
    BY <1>1, <1>2 DEF Ends

(* Walking back finds the longest match there is.                          *)
LEMMA AdvanceIsLongest ==
    ASSUME NEW s \in Seq(Letters), Len(s) <= Kept, NEW c \in Letters,
           NEW str \in Seq(Letters), Len(str) <= Kept,
           NEW k \in 0 .. Len(str), k < Len(str), Longest(s, str, k)
    PROVE  Longest(Keep(Append(s, c)), str, Advance(str, k, c))
  <1> DEFINE r == Keep(Append(s, c))
             Fits == {i \in 0 .. k - 1 :
                        c = str[i + 1] /\ \A j \in 1 .. i : str[j] = str[j + (k - i)]}
  <1>0. Len(str) \in Nat /\ k \in Nat /\ Ends(s, str, k)
        /\ \A m \in 0 .. Len(str) : Ends(s, str, m) => m <= k
    BY DEF Longest
  <1>1. \A m \in 0 .. Len(str) : Ends(r, str, m) <=> m = 0 \/ (Ends(s, str, m - 1) /\ str[m] = c)
    BY EndsWith
  <1> HIDE DEF r
  <1>2. \A i \in 0 .. k - 1 : i \in Fits <=> c = str[i + 1] /\ Ends(s, str, i)
    BY <1>0, EndsWithin
  <1>3. Fits \in SUBSET Nat /\ IsFiniteSet(Fits) /\ Fits \subseteq 0 .. k - 1
    <2>0. 0 \in Int /\ k - 1 \in Int
      BY <1>0
    <2>1. Fits \subseteq 0 .. k - 1 /\ IsFiniteSet(0 .. k - 1)
      BY <2>0, FS_Interval DEF Fits
    <2>2. QED
      BY <1>0, <2>1, FS_Subset
  <1>4. Advance(str, k, c) = IF c = str[k + 1] THEN k + 1
                             ELSE IF Fits = {} THEN 0 ELSE Max(Fits) + 1
    BY DEF Advance
  <1> HIDE DEF Fits
  <1>5. ASSUME NEW m \in 0 .. Len(str), m # 0, Ends(r, str, m)
        PROVE  /\ m - 1 \in 0 .. k /\ Ends(s, str, m - 1) /\ str[m] = c
               /\ m - 1 # k => m - 1 \in Fits
    <2>1. Ends(s, str, m - 1) /\ str[m] = c /\ m - 1 \in 0 .. Len(str) /\ m = (m - 1) + 1
      BY <1>0, <1>1, <1>5
    <2>2. m - 1 \in 0 .. k
      BY <1>0, <2>1
    <2>3. ASSUME m - 1 # k PROVE m - 1 \in Fits
      <3>1. m - 1 \in 0 .. k - 1
        BY <1>0, <2>2, <2>3
      <3>2. QED
        BY <1>2, <2>1, <3>1
    <2>4. QED
      BY <2>1, <2>2, <2>3
  <1>6. CASE c = str[k + 1]
    <2>1. k + 1 \in 0 .. Len(str) /\ (k + 1) - 1 = k /\ k + 1 # 0
      BY <1>0
    <2>2. Ends(r, str, k + 1)
      BY <1>0, <1>1, <1>6, <2>1
    <2>3. \A m \in 0 .. Len(str) : Ends(r, str, m) => m <= k + 1
      BY <1>0, <1>5
    <2>4. QED
      BY <1>4, <1>6, <2>1, <2>2, <2>3 DEF Longest, r
  <1>7. CASE c # str[k + 1] /\ Fits = {}
    <2>1. 0 \in 0 .. Len(str) /\ Ends(r, str, 0)
      BY <1>0, <1>1
    <2>2. \A m \in 0 .. Len(str) : Ends(r, str, m) => m = 0
      <3> SUFFICES ASSUME NEW m \in 0 .. Len(str), m # 0, Ends(r, str, m) PROVE FALSE
        OBVIOUS
      <3>1. m - 1 = k /\ str[m] = c /\ m = k + 1
        BY <1>0, <1>5, <1>7
      <3>2. QED
        BY <1>7, <3>1
    <2>3. QED
      BY <1>4, <1>7, <2>1, <2>2 DEF Longest, r
  <1>8. CASE c # str[k + 1] /\ Fits # {}
    <2>1. PICK x \in Fits : x = Max(Fits) /\ \A y \in Fits : x >= y
      BY <1>3, <1>8, MaxIs
    <2>2. x \in 0 .. k - 1 /\ x + 1 \in 0 .. Len(str) /\ (x + 1) - 1 = x
      BY <1>0, <1>3
    <2>3. Ends(r, str, x + 1)
      BY <1>1, <1>2, <2>2
    <2>4. ASSUME NEW m \in 0 .. Len(str), Ends(r, str, m) PROVE m <= x + 1
      <3>1. CASE m = 0
        BY <2>2, <3>1
      <3>2. CASE m # 0
        <4>1. m - 1 \in 0 .. k /\ str[m] = c
          BY <1>5, <2>4, <3>2
        <4>2. m - 1 # k
          <5> SUFFICES ASSUME m - 1 = k PROVE FALSE
            OBVIOUS
          <5>1. m = k + 1
            BY <1>0
          <5>2. QED
            BY <1>8, <4>1, <5>1
        <4>3. m - 1 \in Fits
          BY <1>5, <2>4, <3>2, <4>2
        <4>4. QED
          BY <2>1, <2>2, <4>3
      <3>3. QED
        BY <3>1, <3>2
    <2>5. QED
      BY <1>4, <1>8, <2>1, <2>2, <2>3, <2>4 DEF Longest, r
  <1>9. QED
    BY <1>6, <1>7, <1>8
-----------------------------------------------------------------------------
(* While findMulti reads, each target keeps its longest match; when it has *)
(* returned, it has returned the first that was whole.                     *)
FindInv ==
    /\ recent \in Seq(Letters) /\ Len(recent) <= Kept
    /\ targets = <<>> \/ targets \in Searches
    /\ targets = <<>> => ~ searching /\ recent = <<>>
    /\ searching => /\ targets # <<>> /\ found = 0
                    /\ \A i \in DOMAIN targets :
                          /\ Longest(recent, targets[i], index[i])
                          /\ index[i] < Len(targets[i])
    /\ FirstTargetFound

(* What is known of a search.                                              *)
LEMMA SearchIs ==
    ASSUME NEW search \in Searches
    PROVE  /\ search # <<>> /\ DOMAIN search = 1 .. Len(search) /\ Len(search) \in Nat
           /\ \A i \in DOMAIN search : search[i] \in Seq(Letters) /\ Len(search[i]) \in Nat
                                       /\ Len(search[i]) <= Kept
           /\ \A S \in SUBSET DOMAIN search : S \in SUBSET Nat /\ IsFiniteSet(S)
  <1>1. search \in Seq(Seq(Letters)) /\ search # <<>>
        /\ \A i \in DOMAIN search : Len(search[i]) <= Kept
    BY FindAssumption DEF FindAssumption
  <1>2. DOMAIN search = 1 .. Len(search) /\ Len(search) \in Nat
        /\ \A i \in DOMAIN search : search[i] \in Seq(Letters) /\ Len(search[i]) \in Nat
    BY <1>1
  <1>3. ASSUME NEW S \in SUBSET DOMAIN search
        PROVE  S \in SUBSET Nat /\ IsFiniteSet(S)
    <2>1. IsFiniteSet(1 .. Len(search)) /\ 1 .. Len(search) \subseteq Nat
      BY <1>2, FS_Interval
    <2>2. QED
      BY <1>2, <2>1, FS_Subset
  <1>4. QED
    BY <1>1, <1>2, <1>3

(* Whole is what FirstTargetFound says it is.                              *)
LEMMA FoundIs ==
    ASSUME NEW Whole, Whole = {i \in DOMAIN targets : JustCame(targets[i], Len(targets[i]))},
           found = IF Whole = {} THEN 0 ELSE Min(Whole)
    PROVE  FirstTargetFound
  BY DEF FirstTargetFound

(* A search begins: nothing has come, and nothing but nothing has matched. *)
LEMMA FindBegins ==
    ASSUME FindInv, NEW search \in Searches, Find(search)
    PROVE  FindInv'
  <1> DEFINE Empty == {i \in DOMAIN search : search[i] = <<>>}
  <1>1. /\ targets = <<>> /\ targets' = search /\ index' = [i \in DOMAIN search |-> 0]
        /\ searching' = (Empty = {}) /\ found' = (IF Empty = {} THEN 0 ELSE Min(Empty))
        /\ recent' = <<>> /\ recent' = recent
    BY DEF Find, FindInv
  <1>2. recent' \in Seq(Letters) /\ Len(recent') = 0 /\ Len(recent') <= Kept
    BY <1>1, FindAssumption DEF FindAssumption
  <1>3. ASSUME NEW i \in DOMAIN search
        PROVE  /\ Longest(recent', search[i], 0)
               /\ (search[i] = <<>> <=> Len(search[i]) = 0)
               /\ (Ends(recent', search[i], Len(search[i])) <=> Len(search[i]) = 0)
    <2>1. search[i] \in Seq(Letters) /\ Len(search[i]) \in Nat
      BY SearchIs
    <2>2. \A m \in 0 .. Len(search[i]) : Ends(recent', search[i], m) <=> m = 0
      BY <1>2, <2>1 DEF Ends
    <2>3. search[i] = <<>> <=> Len(search[i]) = 0
      BY <2>1, EmptySeq
    <2>4. QED
      BY <2>1, <2>2, <2>3 DEF Longest
  <1>4. searching' => \A i \in DOMAIN search : Len(search[i]) # 0 /\ 0 < Len(search[i])
    <2> SUFFICES ASSUME searching', NEW i \in DOMAIN search
                 PROVE  Len(search[i]) # 0 /\ 0 < Len(search[i])
      OBVIOUS
    <2>1. Empty = {}
      BY ONLY <1>1, searching', Zenon
    <2>2. search[i] # <<>> /\ Len(search[i]) \in Nat
      BY <2>1, SearchIs
    <2>3. QED
      BY <1>3, <2>2
  <1>5. Empty = {i \in DOMAIN search : Ends(recent', search[i], Len(search[i]))}
    BY <1>3
  <1>6. FirstTargetFound'
    <2>1. Empty = {i \in DOMAIN targets' : JustCame(targets[i], Len(targets[i]))'}
      BY <1>1, <1>5 DEF JustCame, Ends
    <2>2. QED
      BY <1>1, <2>1 DEF FirstTargetFound
  <1>7. targets' # <<>> /\ targets' \in Searches
    BY <1>1, SearchIs
  <1>8. searching' => \A i \in DOMAIN targets' :
           Longest(recent', targets'[i], index'[i]) /\ index'[i] < Len(targets'[i])
    BY <1>1, <1>3, <1>4
  <1>9. searching' => found' = 0
    BY <1>1
  <1>10. QED
    BY <1>2, <1>6, <1>7, <1>8, <1>9 DEF FindInv

(* A letter comes, and every match is still the longest.                   *)
LEMMA FindGoesOn ==
    ASSUME FindInv, NEW c \in Letters, FindRead(c)
    PROVE  FindInv'
  <1> DEFINE next == [i \in DOMAIN targets |-> Advance(targets[i], index[i], c)]
             Full == {i \in DOMAIN targets : next[i] = Len(targets[i])}
             Whole == {i \in DOMAIN targets : Ends(recent', targets[i], Len(targets[i]))}
  <1>1. /\ searching /\ recent' = Keep(Append(recent, c)) /\ targets' = targets
        /\ \/ Full = {} /\ index' = next /\ searching' = searching /\ found' = found
           \/ Full # {} /\ found' = Min(Full) /\ searching' = FALSE
    BY DEF FindRead
  <1>2. /\ recent \in Seq(Letters) /\ Len(recent) <= Kept
        /\ targets # <<>> /\ targets \in Searches /\ found = 0
        /\ \A i \in DOMAIN targets : Longest(recent, targets[i], index[i])
                                     /\ index[i] < Len(targets[i])
    BY <1>1 DEF FindInv
  <1>3. recent' \in Seq(Letters) /\ Len(recent') <= Kept
    BY <1>1, <1>2, LastKept
  <1>4. ASSUME NEW i \in DOMAIN targets
        PROVE  /\ Longest(recent', targets[i], next[i])
               /\ next[i] \in 0 .. Len(targets[i]) /\ Len(targets[i]) \in Nat
               /\ next[i] = Len(targets[i]) <=> Ends(recent', targets[i], Len(targets[i]))
    <2>1. targets[i] \in Seq(Letters) /\ Len(targets[i]) <= Kept /\ Len(targets[i]) \in Nat
      BY <1>2, SearchIs
    <2>2. Longest(recent, targets[i], index[i]) /\ index[i] < Len(targets[i])
          /\ index[i] \in 0 .. Len(targets[i])
      BY <1>2 DEF Longest
    <2>3. next[i] = Advance(targets[i], index[i], c)
      OBVIOUS
    <2> HIDE DEF next
    <2>4. Longest(recent', targets[i], next[i])
      BY <1>1, <1>2, <2>1, <2>2, <2>3, AdvanceIsLongest
    <2>5. Len(targets[i]) \in 0 .. Len(targets[i])
      BY <2>1
    <2>6. QED
      BY <2>1, <2>4, <2>5 DEF Longest
  <1> HIDE DEF next
  <1>5. Full = Whole
    BY <1>4
  <1>6. Whole = {i \in DOMAIN targets' : JustCame(targets[i], Len(targets[i]))'}
    BY <1>1 DEF JustCame, Ends
  <1> HIDE DEF Full, Whole
  <1>7. CASE Full = {} /\ index' = next /\ searching' = searching /\ found' = found
    <2>1. \A i \in DOMAIN targets' : Longest(recent', targets'[i], index'[i])
                                     /\ index'[i] < Len(targets'[i])
      BY <1>1, <1>4, <1>7 DEF Full
    <2>2. QED
      BY <1>1, <1>2, <1>3, <1>7, <2>1 DEF FindInv, FirstTargetFound
  <1>8. CASE Full # {} /\ found' = Min(Full) /\ searching' = FALSE
    <2>1. FirstTargetFound'
      BY <1>5, <1>6, <1>8 DEF FirstTargetFound
    <2>2. QED
      BY <1>1, <1>2, <1>3, <1>8, <2>1 DEF FindInv
  <1>9. QED
    BY <1>1, <1>7, <1>8

(* The time runs out: no target is whole.                                  *)
LEMMA FindGivesUp ==
    ASSUME FindInv, FindTimesOut
    PROVE  FindInv'
  <1>1. searching /\ searching' = FALSE /\ targets' = targets /\ index' = index
        /\ found' = found /\ recent' = recent
    BY DEF FindTimesOut
  <1>2. targets \in Searches /\ targets # <<>> /\ found = 0
        /\ \A i \in DOMAIN targets : Longest(recent, targets[i], index[i])
                                     /\ index[i] < Len(targets[i])
    BY <1>1 DEF FindInv
  <1>3. ASSUME NEW i \in DOMAIN targets
        PROVE  ~ JustCame(targets[i], Len(targets[i]))
    <2>1. Len(targets[i]) \in Nat /\ Len(targets[i]) \in 0 .. Len(targets[i])
      BY <1>2, SearchIs
    <2>2. index[i] \in Nat /\ index[i] < Len(targets[i])
          /\ \A m \in 0 .. Len(targets[i]) : Ends(recent, targets[i], m) => m <= index[i]
      BY <1>2, <2>1 DEF Longest
    <2>3. ~ Ends(recent, targets[i], Len(targets[i]))
      BY <2>1, <2>2
    <2>4. QED
      BY <2>3 DEF Ends, JustCame
  <1>4. FirstTargetFound'
    BY <1>1, <1>2, <1>3 DEF FirstTargetFound, JustCame
  <1>5. QED
    BY <1>1, <1>2, <1>4 DEF FindInv

(* FindInv is inductive.                                                   *)
LEMMA FindHolds == FSpec => []FindInv
  <1>1. FInit => FindInv
    <2>1. <<>> \in Seq(Letters) /\ Len(<<>>) = 0 /\ 0 <= Kept
      BY FindAssumption DEF FindAssumption
    <2>2. QED
      BY <2>1 DEF FInit, FindInv, FirstTargetFound
  <1>2. FindInv /\ [FNext]_fvars => FindInv'
    <2> SUFFICES ASSUME FindInv, [FNext]_fvars PROVE FindInv'
      OBVIOUS
    <2>1. CASE FindReturn
      <3>1. targets' = <<>> /\ recent' = <<>> /\ ~ searching' /\ found' = 0
        BY <2>1 DEF FindReturn
      <3>2. <<>> \in Seq(Letters) /\ Len(<<>>) = 0 /\ 0 <= Kept
        BY FindAssumption DEF FindAssumption
      <3>3. QED
        BY <3>1, <3>2 DEF FindInv, FirstTargetFound
    <2>2. CASE UNCHANGED fvars
      BY <2>2, ZenonT(30) DEF fvars, FindInv, FirstTargetFound, JustCame
    <2>3. QED
      BY <2>1, <2>2, FindBegins, FindGoesOn, FindGivesUp DEF FNext
  <1>3. QED
    BY <1>1, <1>2, PTL DEF FSpec

(* What is kept of each target is the longest part of it that the letters  *)
(* just read begin: walking back loses no match, and passes none over.     *)
THEOREM MatchesAreKept == FSpec => []LongestMatchKept
  <1>1. FindInv => LongestMatchKept
    <2> SUFFICES ASSUME FindInv, searching, NEW i \in DOMAIN targets
                 PROVE  /\ index[i] = Max({k \in 0 .. Len(targets[i]) - 1 : JustCame(targets[i], k)})
                        /\ ~ JustCame(targets[i], Len(targets[i]))
      BY DEF LongestMatchKept
    <2> DEFINE S == {k \in 0 .. Len(targets[i]) - 1 : JustCame(targets[i], k)}
    <2>1. Len(targets[i]) \in Nat
      BY SearchIs DEF FindInv
    <2>2. index[i] < Len(targets[i]) /\ index[i] \in Nat /\ Ends(recent, targets[i], index[i])
          /\ \A m \in 0 .. Len(targets[i]) : Ends(recent, targets[i], m) => m <= index[i]
      BY <2>1 DEF FindInv, Longest
    <2>3. \A m \in 0 .. Len(targets[i]) : JustCame(targets[i], m) <=> Ends(recent, targets[i], m)
      BY DEF JustCame, Ends
    <2>4. index[i] \in S /\ \A m \in S : index[i] >= m /\ m \in Nat
      BY <2>1, <2>2, <2>3
    <2>5. ~ JustCame(targets[i], Len(targets[i]))
      BY <2>1, <2>2, <2>3
    <2> HIDE DEF S
    <2>6. Max(S) = index[i]
      BY <2>2, <2>4 DEF Max
    <2>7. QED
      BY <2>5, <2>6 DEF S
  <1>2. QED
    BY <1>1, FindHolds, PTL

(* The target returned has just come whole and is the first such; -1 is    *)
(* returned only when none has come.                                       *)
THEOREM FirstIsFound == FSpec => []FirstTargetFound
  <1>1. FindInv => FirstTargetFound
    BY DEF FindInv
  <1>2. QED
    BY <1>1, FindHolds, PTL
=============================================================================
