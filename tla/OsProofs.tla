------------------------------ MODULE OsProofs ------------------------------
(***************************************************************************)
(* What the kernel's mutexes promise of inherited priorities, for any      *)
(* tasks, mutexes and priorities; and what its queue promises of wake-ups  *)
(* and of the order of messages, for any tasks, calls, items and length.   *)
(***************************************************************************)
EXTENDS OsQueue, OsMutex, FiniteSetTheorems, SequenceTheorems, TLAPS

(* uxMutexesHeld counts the mutexes a task holds, which are finitely many. *)
HeldBy(t) == {m \in Mutexes : holder[m] = t}

HoldTypes ==
    /\ prio \in [Threads -> Nat] /\ held \in [Threads -> Nat]
    /\ holder \in [Mutexes -> Threads \cup {Nobody}]

CountInv == \A t \in Threads : IsFiniteSet(HeldBy(t)) /\ held[t] = Cardinality(HeldBy(t))

BoostInv == HoldTypes /\ CountInv /\ BoostEnds

(* A task that holds a mutex is known by its count to hold one.            *)
LEMMA HolderCounts ==
    ASSUME BoostInv, NEW m \in Mutexes, holder[m] \in Threads
    PROVE  held[holder[m]] >= 1
  <1>1. m \in HeldBy(holder[m])
    BY DEF HeldBy
  <1>2. IsFiniteSet(HeldBy(holder[m])) /\ held[holder[m]] = Cardinality(HeldBy(holder[m]))
    BY DEF BoostInv, CountInv
  <1>3. held[holder[m]] \in Nat /\ held[holder[m]] # 0
    BY <1>1, <1>2, FS_EmptySet DEF BoostInv, HoldTypes
  <1>4. QED
    BY <1>3

(* At first nobody holds a mutex, and all have their own priority.         *)
LEMMA BoostBegins == MInit => BoostInv
  <1> SUFFICES ASSUME MInit PROVE BoostInv
    OBVIOUS
  <1> USE MutexAssumption DEF MutexAssumption
  <1>1. HoldTypes /\ BoostEnds
    BY DEF MInit, HoldTypes, BoostEnds
  <1>2. \A t \in Threads : HeldBy(t) = {}
    BY DEF MInit, HeldBy
  <1>3. CountInv
    BY <1>2, FS_EmptySet DEF MInit, CountInv
  <1>4. QED
    BY <1>1, <1>3 DEF BoostInv

(* A lock adds one to the holder's count and its set of mutexes.           *)
LEMMA LockKeepsBoost ==
    ASSUME BoostInv, NEW t \in Threads, NEW m \in Mutexes, LockFree(t, m)
    PROVE  BoostInv'
  <1> USE MutexAssumption DEF MutexAssumption
  <1>1. /\ holder[m] = Nobody /\ holder' = [holder EXCEPT ![m] = t]
        /\ held' = [held EXCEPT ![t] = held[t] + 1] /\ prio' = prio
    BY DEF LockFree
  <1>2. HoldTypes'
    BY <1>1 DEF BoostInv, HoldTypes
  <1>3. ASSUME NEW u \in Threads
        PROVE  IsFiniteSet(HeldBy(u)') /\ held'[u] = Cardinality(HeldBy(u)')
    <2>1. IsFiniteSet(HeldBy(u)) /\ held[u] = Cardinality(HeldBy(u))
      BY DEF BoostInv, CountInv
    <2>2. CASE u = t
      <3>1. m \notin HeldBy(t) /\ HeldBy(t)' = HeldBy(t) \cup {m}
        BY <1>1 DEF HeldBy, BoostInv, HoldTypes
      <3>2. held'[t] = held[t] + 1
        BY <1>1 DEF BoostInv, HoldTypes
      <3>3. QED
        BY <2>1, <2>2, <3>1, <3>2, FS_AddElement
    <2>3. CASE u # t
      <3>1. HeldBy(u)' = HeldBy(u) /\ held'[u] = held[u]
        BY <1>1, <2>3 DEF HeldBy, BoostInv, HoldTypes
      <3>2. QED
        BY <2>1, <3>1
    <2>4. QED
      BY <2>2, <2>3
  <1>4. BoostEnds'
    BY <1>1 DEF BoostEnds, BoostInv, HoldTypes
  <1>5. QED
    BY <1>2, <1>3, <1>4 DEF BoostInv, CountInv

(* Only one that holds a mutex inherits.                                   *)
LEMMA BlockKeepsBoost ==
    ASSUME BoostInv, NEW t \in Threads, NEW m \in Mutexes, LockBlock(t, m)
    PROVE  BoostInv'
  <1> DEFINE h == holder[m]
  <1>1. /\ h \in Threads /\ held' = held /\ holder' = holder
        /\ prio' = [prio EXCEPT ![h] = IF prio[h] < prio[t] THEN prio[t] ELSE prio[h]]
    BY DEF LockBlock, vTaskPriorityInherit, BoostInv, HoldTypes
  <1>2. held[h] >= 1
    BY <1>1, HolderCounts
  <1>3. HoldTypes'
    BY <1>1 DEF BoostInv, HoldTypes
  <1>4. CountInv'
    BY <1>1 DEF BoostInv, CountInv, HeldBy
  <1>5. ASSUME NEW u \in Threads, held'[u] = 0 PROVE prio'[u] = Priority[u]
    <2>1. u # h /\ prio'[u] = prio[u]
      BY <1>1, <1>2, <1>5 DEF BoostInv, HoldTypes
    <2>2. QED
      BY <1>1, <1>5, <2>1 DEF BoostInv, BoostEnds
  <1>6. QED
    BY <1>3, <1>4, <1>5 DEF BoostInv, BoostEnds

(* An unlock takes one from both, and with the last the priority is back.  *)
LEMMA UnlockKeepsBoost ==
    ASSUME BoostInv, NEW t \in Threads, NEW m \in Mutexes, Unlock(t, m)
    PROVE  BoostInv'
  <1> USE MutexAssumption DEF MutexAssumption
  <1>1. /\ holder[m] = t /\ holder' = [holder EXCEPT ![m] = Nobody]
        /\ held' = [held EXCEPT ![t] = held[t] - 1]
        /\ prio' = [prio EXCEPT ![t] = IF held[t] = 1 THEN Priority[t] ELSE prio[t]]
    BY DEF Unlock, xTaskPriorityDisinherit
  <1>2. held[t] >= 1
    BY <1>1, HolderCounts
  <1>3. HoldTypes'
    BY <1>1, <1>2 DEF BoostInv, HoldTypes
  <1>4. ASSUME NEW u \in Threads
        PROVE  IsFiniteSet(HeldBy(u)') /\ held'[u] = Cardinality(HeldBy(u)')
    <2>1. IsFiniteSet(HeldBy(u)) /\ held[u] = Cardinality(HeldBy(u))
      BY DEF BoostInv, CountInv
    <2>2. CASE u = t
      <3>1. m \in HeldBy(t) /\ HeldBy(t)' = HeldBy(t) \ {m}
        BY <1>1 DEF HeldBy, BoostInv, HoldTypes
      <3>2. held'[t] = held[t] - 1
        BY <1>1 DEF BoostInv, HoldTypes
      <3>3. QED
        BY <2>1, <2>2, <3>1, <3>2, FS_RemoveElement
    <2>3. CASE u # t
      <3>1. HeldBy(u)' = HeldBy(u) /\ held'[u] = held[u]
        BY <1>1, <2>3 DEF HeldBy, BoostInv, HoldTypes
      <3>2. QED
        BY <2>1, <3>1
    <2>4. QED
      BY <2>2, <2>3
  <1>5. ASSUME NEW u \in Threads, held'[u] = 0 PROVE prio'[u] = Priority[u]
    <2>1. CASE u = t
      BY <1>1, <1>2, <1>5, <2>1 DEF BoostInv, HoldTypes
    <2>2. CASE u # t
      BY <1>1, <1>5, <2>2 DEF BoostInv, HoldTypes, BoostEnds
    <2>3. QED
      BY <2>1, <2>2
  <1>6. QED
    BY <1>3, <1>4, <1>5 DEF BoostInv, CountInv, BoostEnds

(* An inherited priority ends with the last mutex held, however many       *)
(* mutexes a task takes and releases, in whatever order, and whoever waits.*)
THEOREM InheritanceEnds == MSpec => []BoostEnds
  <1>1. BoostInv /\ [MNext]_mvars => BoostInv'
    <2> SUFFICES ASSUME BoostInv, [MNext]_mvars PROVE BoostInv'
      OBVIOUS
    <2>1. ASSUME NEW t \in Threads, Sleep(t) \/ Wake(t) PROVE BoostInv'
      BY <2>1 DEF Sleep, Wake, BoostInv, HoldTypes, CountInv, HeldBy, BoostEnds
    <2>2. CASE UNCHANGED mvars
      BY <2>2 DEF mvars, BoostInv, HoldTypes, CountInv, HeldBy, BoostEnds
    <2>3. QED
      BY <2>1, <2>2, LockKeepsBoost, BlockKeepsBoost, UnlockKeepsBoost DEF MNext
  <1>2. BoostInv => BoostEnds
    BY DEF BoostInv
  <1>3. QED
    BY <1>1, <1>2, BoostBegins, PTL DEF MSpec

(* A task on a list is there once, and waits for that list's mutex.        *)
WaitsInv == \A m \in Mutexes : \A i \in DOMAIN waiters[m] :
    /\ wants[waiters[m][i]] = m
    /\ \A j \in DOMAIN waiters[m] : waiters[m][i] = waiters[m][j] => i = j

AwakeInv == \A t \in asleep : wants[t] = Nobody

(* A priority is only ever raised above the task's own.                    *)
OwnInv == \A t \in Threads : prio[t] >= Priority[t]

(* A list is in order up to what its tasks have inherited since.           *)
OrderInv == \A m \in Mutexes : \A i, j \in DOMAIN waiters[m] :
    i < j => prio[waiters[m][i]] >= Priority[waiters[m][j]]

(* The task a free mutex is offered to outranks those that still wait.     *)
OfferInv == \A m \in Mutexes : holder[m] = Nobody /\ waiters[m] # <<>> =>
    \E v \in Threads : /\ wants[v] = m /\ ~ OnList(v, m)
                       /\ \A u \in Threads : OnList(u, m) => prio[v] >= Priority[u]

RankInv ==
    /\ MTypeOK /\ BoostInv /\ WaitsInv /\ AwakeInv /\ OwnInv /\ OrderInv /\ OfferInv
    /\ HolderOutranksWaiters

(* What is known of a list.                                                *)
LEMMA Lists ==
    ASSUME MTypeOK, NEW m \in Mutexes
    PROVE  /\ waiters[m] \in Seq(Threads) /\ Len(waiters[m]) \in Nat
           /\ DOMAIN waiters[m] = 1 .. Len(waiters[m])
           /\ \A i \in DOMAIN waiters[m] : waiters[m][i] \in Threads
  <1>1. waiters[m] \in Seq(Threads)
    BY DEF MTypeOK
  <1>2. QED
    BY <1>1, LenProperties, ElementOfSeq

(* Numbers closed downwards are those up to their number.                  *)
LEMMA InitialSegment ==
    ASSUME NEW n \in Nat, NEW A \in SUBSET (1 .. n), \A i \in A : 1 .. i \subseteq A
    PROVE  \E c \in 0 .. n : A = 1 .. c
  <1> DEFINE c == Cardinality(A)
  <1>1. IsFiniteSet(A) /\ c \in Nat /\ c <= n
    <2>1. IsFiniteSet(1 .. n) /\ Cardinality(1 .. n) = n
      <3>1. 1 \in Int /\ n \in Int
        OBVIOUS
      <3>2. /\ IsFiniteSet(1 .. n)
            /\ Cardinality(1 .. n) = IF 1 > n THEN 0 ELSE n - 1 + 1
        BY <3>1, FS_Interval
      <3>3. QED
        BY <3>2
    <2>2. IsFiniteSet(A) /\ c <= n
      BY <2>1, FS_Subset, ZenonT(30)
    <2>3. QED
      BY <2>2, FS_CardinalityType
  <1>2. \A i \in A : i <= c
    <2> SUFFICES ASSUME NEW i \in A PROVE i <= c
      OBVIOUS
    <2>1. i \in Int /\ i >= 1 /\ 1 .. i \in SUBSET A
      OBVIOUS
    <2>2. Cardinality(1 .. i) = IF 1 > i THEN 0 ELSE i - 1 + 1
      BY <2>1, FS_Interval
    <2>3. Cardinality(1 .. i) <= c
      BY <1>1, <2>1, FS_Subset
    <2>4. QED
      BY <1>1, <2>1, <2>2, <2>3
  <1>3. IsFiniteSet(1 .. c) /\ Cardinality(1 .. c) = c
    <2> HIDE DEF c
    <2>1. /\ IsFiniteSet(1 .. c)
          /\ Cardinality(1 .. c) = IF 1 > c THEN 0 ELSE c - 1 + 1
      BY <1>1, FS_Interval
    <2>2. QED
      BY <1>1, <2>1
  <1>4. A \in SUBSET (1 .. c)
    <2> HIDE DEF c
    <2>1. QED
      BY <1>1, <1>2
  <1>5. A = 1 .. c
    BY <1>3, <1>4, FS_Subset
  <1>6. QED
    BY <1>1, <1>5

(* A sequence with an element put behind its first k.                      *)
InsertAt(s, t, k) == SubSeq(s, 1, k) \o <<t>> \o SubSeq(s, k + 1, Len(s))

(* Its elements.                                                           *)
LEMMA Inserted ==
    ASSUME NEW T, NEW s \in Seq(T), NEW t \in T, NEW k \in 0 .. Len(s)
    PROVE  /\ InsertAt(s, t, k) \in Seq(T) /\ Len(InsertAt(s, t, k)) = Len(s) + 1
           /\ DOMAIN InsertAt(s, t, k) = 1 .. Len(s) + 1
           /\ \A i \in 1 .. Len(s) + 1 : InsertAt(s, t, k)[i] =
                 IF i <= k THEN s[i] ELSE IF i = k + 1 THEN t ELSE s[i - 1]
  <1>a. PICK new : new = InsertAt(s, t, k)
    OBVIOUS
  <1>1. PICK n \in Nat : n = Len(s)
    BY LenProperties
  <1>2. /\ k \in 0 .. n /\ k \in Int /\ k + 1 \in Int /\ n \in Int
        /\ \A i \in 1 .. n : s[i] \in T
    BY <1>1, ElementOfSeq
  <1>3. PICK a : a = SubSeq(s, 1, k)
    OBVIOUS
  <1>4. PICK b : b = SubSeq(s, k + 1, n)
    OBVIOUS
  <1>5. a \in Seq(T) /\ Len(a) = k /\ \A i \in 1 .. k : a[i] = s[i]
    <2>1. \A i \in 1 .. k : s[i] \in T
      BY <1>2
    <2>2. /\ a \in Seq(T) /\ Len(a) = IF 1 <= k THEN k - 1 + 1 ELSE 0
          /\ \A i \in 1 .. k - 1 + 1 : a[i] = s[1 + i - 1]
      BY <1>2, <1>3, <2>1, SubSeqProperties
    <2>3. k - 1 + 1 = k /\ \A i \in 1 .. k : 1 + i - 1 = i
      BY <1>2
    <2>4. QED
      BY <1>2, <2>2, <2>3
  <1>6. b \in Seq(T) /\ Len(b) = n - k /\ \A i \in 1 .. n - k : b[i] = s[k + i]
    <2>1. \A i \in k + 1 .. n : s[i] \in T
      BY <1>2
    <2>2. /\ b \in Seq(T) /\ Len(b) = IF k + 1 <= n THEN n - (k + 1) + 1 ELSE 0
          /\ \A i \in 1 .. n - (k + 1) + 1 : b[i] = s[k + 1 + i - 1]
      BY <1>2, <1>4, <2>1, SubSeqProperties
    <2>3. n - (k + 1) + 1 = n - k /\ \A i \in 1 .. n - k : k + 1 + i - 1 = k + i
      BY <1>2
    <2>4. Len(b) = n - k
      BY <1>2, <2>2
    <2>5. ASSUME NEW i \in 1 .. n - k PROVE b[i] = s[k + i]
      BY <2>2, <2>3
    <2>6. QED
      BY <2>2, <2>4, <2>5
  <1>7. PICK f : f = a \o <<t>>
    OBVIOUS
  <1>8. /\ f \in Seq(T) /\ Len(f) = k + 1
        /\ \A i \in 1 .. k + 1 : f[i] = IF i <= k THEN s[i] ELSE t
    <2>1. <<t>> \in Seq(T) /\ Len(<<t>>) = 1 /\ <<t>>[1] = t
      OBVIOUS
    <2>2. /\ f \in Seq(T) /\ Len(f) = k + 1
          /\ \A i \in 1 .. k + 1 : f[i] = IF i <= k THEN a[i] ELSE <<t>>[i - k]
      BY <1>5, <1>7, <2>1, ConcatProperties
    <2>3. \A i \in 1 .. k + 1 : ~ (i <= k) => i - k = 1
      BY <1>2
    <2>4. QED
      BY <1>2, <1>5, <2>1, <2>2, <2>3
  <1>9. /\ new \in Seq(T) /\ Len(new) = n + 1
        /\ \A i \in 1 .. n + 1 : new[i] = IF i <= k + 1 THEN f[i] ELSE b[i - (k + 1)]
    <2>1. new = f \o b
      BY <1>1, <1>3, <1>4, <1>7, <1>a DEF InsertAt
    <2>2. /\ new \in Seq(T) /\ Len(new) = Len(f) + Len(b)
          /\ \A i \in 1 .. Len(f) + Len(b) : new[i] = IF i <= Len(f) THEN f[i] ELSE b[i - Len(f)]
      <3>1. f \in Seq(T) /\ b \in Seq(T)
        BY <1>6, <1>8
      <3>2. QED
        BY <2>1, <3>1, ConcatProperties
    <2>3. Len(f) + Len(b) = n + 1
      BY <1>2, <1>6, <1>8
    <2>4. QED
      BY <1>8, <2>2, <2>3
  <1>10. ASSUME NEW i \in 1 .. n + 1
         PROVE  new[i] = IF i <= k THEN s[i] ELSE IF i = k + 1 THEN t ELSE s[i - 1]
    <2>1. i \in Int /\ i >= 1 /\ i <= n + 1 /\ k \in Int /\ n \in Int /\ 0 <= k /\ k <= n
      BY <1>2
    <2>2. CASE i <= k
      <3>1. i <= k + 1 /\ i \in 1 .. k + 1
        BY <2>1, <2>2
      <3>2. new[i] = f[i] /\ f[i] = s[i]
        BY <1>8, <1>9, <2>2, <3>1
      <3>3. QED
        BY <2>2, <3>2
    <2>3. CASE i = k + 1
      <3>1. i <= k + 1 /\ i \in 1 .. k + 1 /\ ~ (i <= k)
        BY <2>1, <2>3
      <3>2. new[i] = f[i] /\ f[i] = t
        BY <1>8, <1>9, <3>1
      <3>3. QED
        BY <2>3, <3>1, <3>2
    <2>4. CASE ~ (i <= k) /\ i # k + 1
      <3>1. ~ (i <= k + 1) /\ i - (k + 1) \in 1 .. n - k /\ k + (i - (k + 1)) = i - 1
        BY <2>1, <2>4
      <3>2. new[i] = b[i - (k + 1)]
        BY <1>9, <3>1
      <3>3. new[i] = s[i - 1]
        BY <1>6, <3>1, <3>2
      <3>4. QED
        BY <2>4, <3>3
    <2>5. QED
      BY <2>2, <2>3, <2>4
  <1>11. DOMAIN new = 1 .. n + 1
    BY <1>9, LenProperties
  <1>12. QED
    BY <1>1, <1>9, <1>10, <1>11, <1>a

(* vListInsert puts the task behind some first k, none of a lower priority *)
(* than its own, and in front of one that has a lower one.                 *)
LEMMA InsertsAt ==
    ASSUME prio \in [Threads -> Nat], NEW s \in Seq(Threads), NEW t \in Threads
    PROVE  \E k \in 0 .. Len(s) :
              /\ vListInsert(s, t) \in Seq(Threads)
              /\ Len(vListInsert(s, t)) = Len(s) + 1
              /\ DOMAIN vListInsert(s, t) = 1 .. Len(s) + 1
              /\ \A i \in 1 .. Len(s) + 1 : vListInsert(s, t)[i] =
                    IF i <= k THEN s[i] ELSE IF i = k + 1 THEN t ELSE s[i - 1]
              /\ \A i \in 1 .. k : prio[s[i]] >= prio[t]
              /\ k < Len(s) => prio[s[k + 1]] < prio[t]
  <1>1. PICK n \in Nat : n = Len(s)
    BY LenProperties
  <1> DEFINE Above == {i \in DOMAIN s : \A j \in 1 .. i : prio[s[j]] >= prio[t]}
             k == IF Above = {} THEN 0 ELSE CHOOSE i \in Above : \A j \in Above : j <= i
  <1>2. \A i : i \in Above <=> i \in DOMAIN s /\ \A j \in 1 .. i : prio[s[j]] >= prio[t]
    OBVIOUS
  <1>3. vListInsert(s, t) = InsertAt(s, t, k)
    BY DEF vListInsert, InsertAt
  <1> HIDE DEF Above
  <1>b. /\ Above = {} => k = 0
        /\ (\E i \in Above : \A j \in Above : j <= i) => k \in Above /\ \A j \in Above : j <= k
    OBVIOUS
  <1> HIDE DEF k
  <1>4. /\ DOMAIN s = 1 .. n /\ prio[t] \in Nat /\ \A i \in 1 .. n : prio[s[i]] \in Nat
    BY <1>1, LenProperties, ElementOfSeq
  <1>5. PICK c \in 0 .. n : Above = 1 .. c
    <2>1. Above \in SUBSET (1 .. n)
      BY <1>2, <1>4
    <2>2. \A i \in Above : 1 .. i \subseteq Above
      BY <1>2, <1>4
    <2>3. QED
      BY <2>1, <2>2, InitialSegment
  <1>6. k = c
    <2>1. CASE c = 0
      BY <1>5, <1>b, <2>1
    <2>2. CASE c # 0
      <3>1. Above # {} /\ c \in Above /\ \A j \in Above : j <= c
        BY <1>5, <2>2, SMTT(30)
      <3>2. k \in Above /\ \A j \in Above : j <= k
        BY <1>b, <3>1
      <3>3. k <= c /\ c <= k /\ k \in Int /\ c \in Int
        BY <1>5, <3>1, <3>2
      <3>4. QED
        BY <3>3
    <2>3. QED
      BY <2>1, <2>2
  <1>7. ASSUME NEW i \in 1 .. k PROVE prio[s[i]] >= prio[t]
    <2>1. i \in Above /\ i \in 1 .. i
      BY <1>5, <1>6
    <2>2. QED
      BY <1>2, <2>1
  <1>8. ASSUME k < n, ~ (prio[s[k + 1]] < prio[t]) PROVE FALSE
    <2>1. k + 1 \in 1 .. n /\ \A j \in 1 .. k + 1 : j \in 1 .. k \/ j = k + 1
      BY <1>5, <1>6, <1>8
    <2>2. prio[s[k + 1]] >= prio[t]
      BY <1>4, <1>8, <2>1
    <2>3. \A j \in 1 .. k + 1 : prio[s[j]] >= prio[t]
      BY <1>7, <2>1, <2>2
    <2>4. k + 1 \in Above
      BY <1>2, <1>4, <2>1, <2>3
    <2>5. QED
      BY <1>5, <1>6, <2>4
  <1>9. k \in 0 .. n
    BY <1>5, <1>6
  <1>10. k \in 0 .. Len(s)
    BY <1>1, <1>9
  <1>11. /\ InsertAt(s, t, k) \in Seq(Threads) /\ Len(InsertAt(s, t, k)) = Len(s) + 1
         /\ DOMAIN InsertAt(s, t, k) = 1 .. Len(s) + 1
         /\ \A i \in 1 .. Len(s) + 1 : InsertAt(s, t, k)[i] =
               IF i <= k THEN s[i] ELSE IF i = k + 1 THEN t ELSE s[i - 1]
    BY <1>10, Inserted
  <1>12. QED
    BY <1>1, <1>3, <1>7, <1>8, <1>10, <1>11

(* A task that runs is on no list.                                         *)
LEMMA RunnerIsOffLists ==
    ASSUME NEW t \in Threads, Running(t)
    PROVE  \A m \in Mutexes : \A i \in DOMAIN waiters[m] : waiters[m][i] # t
  <1>1. QED
    BY DEF Running, Ready, OnList

(* At first all lists are empty.                                           *)
LEMMA RankBegins == MInit => RankInv
  <1> SUFFICES ASSUME MInit PROVE RankInv
    OBVIOUS
  <1> USE MutexAssumption DEF MutexAssumption
  <1>1. /\ prio = Priority /\ held = [t \in Threads |-> 0]
        /\ holder = [m \in Mutexes |-> Nobody] /\ waiters = [m \in Mutexes |-> <<>>]
        /\ wants = [t \in Threads |-> Nobody] /\ asleep = {}
    BY DEF MInit
  <1>2. \A m \in Mutexes : waiters[m] = <<>> /\ DOMAIN waiters[m] = {} /\ holder[m] = Nobody
    BY <1>1
  <1>3. MTypeOK
    BY <1>1 DEF MTypeOK
  <1>4. WaitsInv /\ AwakeInv /\ OrderInv /\ OfferInv /\ HolderOutranksWaiters
    BY <1>1, <1>2 DEF WaitsInv, AwakeInv, OrderInv, OfferInv, HolderOutranksWaiters
  <1>5. OwnInv
    <2> SUFFICES ASSUME NEW t \in Threads PROVE prio[t] >= Priority[t]
      BY DEF OwnInv
    <2>1. prio[t] = Priority[t] /\ Priority[t] \in Nat
      BY <1>1
    <2>2. QED
      BY ONLY <2>1
  <1>6. QED
    BY <1>3, <1>4, <1>5, BoostBegins DEF RankInv

(* Sleeping and waking change nothing about mutexes.                       *)
LEMMA SleepKeepsRank ==
    ASSUME RankInv, NEW t \in Threads, Sleep(t) \/ Wake(t)
    PROVE  RankInv'
  <1>1. /\ prio' = prio /\ held' = held /\ holder' = holder /\ waiters' = waiters
        /\ wants' = wants /\ asleep' \in SUBSET Threads
        /\ \A u \in asleep' : wants[u] = Nobody
    BY DEF RankInv, MTypeOK, AwakeInv, Sleep, Wake
  <1>2. MTypeOK' /\ WaitsInv' /\ AwakeInv' /\ OwnInv'
    BY <1>1 DEF RankInv, MTypeOK, WaitsInv, AwakeInv, OwnInv
  <1>3. OrderInv' /\ OfferInv' /\ HolderOutranksWaiters'
    BY <1>1 DEF RankInv, OrderInv, OfferInv, HolderOutranksWaiters, OnList
  <1>4. BoostInv'
    BY <1>1 DEF RankInv, BoostInv, HoldTypes, CountInv, HeldBy, BoostEnds
  <1>5. QED
    BY <1>2, <1>3, <1>4 DEF RankInv

(* The task a free mutex was offered to is ready: whoever takes the mutex  *)
(* outranks it, and it outranks those that wait.                           *)
LEMMA LockKeepsRank ==
    ASSUME RankInv, NEW t \in Threads, NEW m \in Mutexes, LockFree(t, m)
    PROVE  RankInv'
  <1> USE MutexAssumption DEF MutexAssumption
  <1>1. /\ prio' = prio /\ waiters' = waiters /\ asleep' = asleep
        /\ held' = [held EXCEPT ![t] = held[t] + 1]
        /\ holder[m] = Nobody /\ holder' = [holder EXCEPT ![m] = t]
        /\ wants' = [wants EXCEPT ![t] = Nobody]
        /\ wants[t] \in {m, Nobody} /\ Running(t)
    BY DEF LockFree, Locking
  <1>2. /\ MTypeOK /\ WaitsInv /\ AwakeInv /\ OwnInv /\ OrderInv /\ OfferInv
        /\ HolderOutranksWaiters
    BY DEF RankInv
  <1>3. MTypeOK'
    BY <1>1, <1>2 DEF MTypeOK
  <1>4. WaitsInv'
    <2> SUFFICES ASSUME NEW n \in Mutexes, NEW i \in DOMAIN waiters'[n]
                 PROVE  /\ wants'[waiters'[n][i]] = n
                        /\ \A j \in DOMAIN waiters'[n] : waiters'[n][i] = waiters'[n][j] => i = j
      BY DEF WaitsInv
    <2>1. waiters[n][i] # t /\ waiters[n][i] \in Threads
      BY <1>1, <1>2, RunnerIsOffLists, Lists
    <2>2. QED
      BY <1>1, <1>2, <2>1 DEF WaitsInv, MTypeOK
  <1>5. AwakeInv' /\ OwnInv' /\ OrderInv'
    BY <1>1, <1>2 DEF AwakeInv, OwnInv, OrderInv, MTypeOK
  <1>6. OfferInv'
    <2> SUFFICES ASSUME NEW n \in Mutexes, holder'[n] = Nobody, waiters[n] # <<>>
                 PROVE  \E v \in Threads : /\ wants'[v] = n /\ ~ OnList(v, n)
                                           /\ \A u \in Threads : OnList(u, n) => prio[v] >= Priority[u]
      BY <1>1 DEF OfferInv, OnList
    <2>1. n # m /\ holder[n] = Nobody
      BY <1>1, <1>2 DEF MTypeOK
    <2>2. PICK v \in Threads : /\ wants[v] = n /\ ~ OnList(v, n)
                               /\ \A u \in Threads : OnList(u, n) => prio[v] >= Priority[u]
      BY <1>2, <2>1 DEF OfferInv
    <2>3. v # t /\ wants'[v] = n
      BY <1>1, <1>2, <2>1, <2>2 DEF MTypeOK
    <2>4. QED
      BY <2>2, <2>3
  <1>7. HolderOutranksWaiters'
    <2> SUFFICES ASSUME NEW n \in Mutexes, NEW u \in Threads,
                        holder'[n] # Nobody, OnList(u, n)
                 PROVE  prio[holder'[n]] >= Priority[u]
      BY <1>1 DEF HolderOutranksWaiters, OnList
    <2>1. CASE n # m
      BY <1>1, <1>2, <2>1 DEF HolderOutranksWaiters, MTypeOK
    <2>2. CASE n = m
      <3>1. waiters[m] # <<>>
        BY <2>2 DEF OnList
      <3>2. PICK v \in Threads : /\ wants[v] = m /\ ~ OnList(v, m)
                                 /\ \A w \in Threads : OnList(w, m) => prio[v] >= Priority[w]
        BY <1>1, <1>2, <3>1 DEF OfferInv
      <3>3. v \notin asleep
        BY <1>2, <3>2 DEF AwakeInv
      <3>4. \A o \in Mutexes : ~ OnList(v, o)
        BY <1>2, <3>2 DEF WaitsInv, OnList
      <3>5. prio[v] <= prio[t]
        BY <1>1, <3>3, <3>4 DEF Running, Ready
      <3>6. prio[v] >= Priority[u] /\ holder'[n] = t
        BY <1>1, <1>2, <2>2, <3>2 DEF MTypeOK
      <3>7. QED
        BY <1>2, <3>5, <3>6 DEF MTypeOK
    <2>3. QED
      BY <2>1, <2>2
  <1>8. QED
    BY <1>3, <1>4, <1>5, <1>6, <1>7, LockKeepsBoost DEF RankInv

(* A task that waits goes behind those of its priority and above, and the  *)
(* holder is raised to it.                                                 *)
LEMMA BlockKeepsRank ==
    ASSUME RankInv, NEW t \in Threads, NEW m \in Mutexes, LockBlock(t, m)
    PROVE  RankInv'
  <1> USE MutexAssumption DEF MutexAssumption
  <1>1. PICK h \in Threads :
           /\ holder[m] = h /\ h # t /\ held' = held /\ holder' = holder /\ asleep' = asleep
           /\ prio' = [prio EXCEPT ![h] = IF prio[h] < prio[t] THEN prio[t] ELSE prio[h]]
           /\ waiters' = [waiters EXCEPT ![m] = vListInsert(waiters[m], t)]
           /\ wants' = [wants EXCEPT ![t] = m]
           /\ wants[t] \in {m, Nobody} /\ Running(t)
    BY DEF LockBlock, Locking, vTaskPriorityInherit, RankInv, MTypeOK
  <1>2. /\ MTypeOK /\ WaitsInv /\ AwakeInv /\ OwnInv /\ OrderInv /\ OfferInv
        /\ HolderOutranksWaiters
    BY DEF RankInv
  <1>3. /\ prio \in [Threads -> Nat] /\ prio' \in [Threads -> Nat]
        /\ \A u \in Threads : prio[u] \in Nat /\ prio'[u] \in Nat /\ prio'[u] >= prio[u]
        /\ prio'[h] >= prio[t]
    BY <1>1, <1>2 DEF MTypeOK
  <1>4. PICK s \in Seq(Threads) : s = waiters[m]
    BY <1>2 DEF MTypeOK
  <1>5. PICK new : new = vListInsert(s, t)
    OBVIOUS
  <1>6. PICK n \in Nat : n = Len(s) /\ DOMAIN s = 1 .. n
    BY <1>4, LenProperties
  <1>7. PICK k \in 0 .. n :
           /\ new \in Seq(Threads) /\ DOMAIN new = 1 .. n + 1
           /\ \A i \in 1 .. n + 1 : new[i] =
                 IF i <= k THEN s[i] ELSE IF i = k + 1 THEN t ELSE s[i - 1]
           /\ \A i \in 1 .. k : prio[s[i]] >= prio[t]
           /\ k < n => prio[s[k + 1]] < prio[t]
    BY <1>3, <1>5, <1>6, InsertsAt
  <1>8. /\ waiters'[m] = new /\ \A o \in Mutexes : o # m => waiters'[o] = waiters[o]
        /\ waiters' \in [Mutexes -> Seq(Threads)]
    BY <1>1, <1>2, <1>4, <1>5, <1>7 DEF MTypeOK
  <1>9. /\ wants' \in [Threads -> Mutexes \cup {Nobody}] /\ wants'[t] = m
        /\ \A u \in Threads : u # t => wants'[u] = wants[u]
    BY <1>1, <1>2 DEF MTypeOK
  <1>10. MTypeOK'
    BY <1>1, <1>2, <1>3, <1>8, <1>9 DEF MTypeOK
  <1>11. \A i \in 1 .. n : s[i] \in Threads /\ s[i] # t /\ wants[s[i]] = m
    BY <1>1, <1>2, <1>4, <1>6, RunnerIsOffLists, Lists DEF WaitsInv
  <1> DEFINE back(i) == IF i <= k THEN i ELSE i - 1
  <1>12. ASSUME NEW i \in 1 .. n + 1
         PROVE  \/ i = k + 1 /\ new[i] = t
                \/ i # k + 1 /\ back(i) \in 1 .. n /\ new[i] = s[back(i)]
    <2>1. i \in Int /\ i >= 1 /\ i <= n + 1 /\ k \in Int /\ 0 <= k /\ k <= n
      OBVIOUS
    <2>2. CASE i <= k
      BY <1>7, <2>1, <2>2
    <2>3. CASE i = k + 1
      BY <1>7, <2>1, <2>3
    <2>4. CASE ~ (i <= k) /\ i # k + 1
      <3>1. back(i) = i - 1 /\ i - 1 \in 1 .. n
        BY <2>1, <2>4
      <3>2. new[i] = s[i - 1]
        BY <1>7, <2>4
      <3>3. QED
        BY <2>4, <3>1, <3>2
    <2>5. QED
      BY <2>2, <2>3, <2>4
  <1>13. WaitsInv'
    <2> SUFFICES ASSUME NEW o \in Mutexes, NEW i \in DOMAIN waiters'[o]
                 PROVE  /\ wants'[waiters'[o][i]] = o
                        /\ \A j \in DOMAIN waiters'[o] : waiters'[o][i] = waiters'[o][j] => i = j
      BY DEF WaitsInv
    <2>1. CASE o # m
      <3>1. waiters[o][i] # t /\ waiters[o][i] \in Threads
        BY <1>1, <1>2, <1>8, <2>1, RunnerIsOffLists, Lists
      <3>2. QED
        BY <1>2, <1>8, <1>9, <2>1, <3>1, ZenonT(30) DEF WaitsInv
    <2>2. CASE o = m
      <3>1. i \in 1 .. n + 1 /\ DOMAIN waiters'[o] = 1 .. n + 1
        BY <1>7, <1>8, <2>2
      <3>2. wants'[new[i]] = m
        <4>1. CASE i = k + 1
          BY <1>9, <1>12, <3>1, <4>1
        <4>2. CASE i # k + 1
          <5>1. back(i) \in 1 .. n /\ new[i] = s[back(i)]
            BY <1>12, <3>1, <4>2
          <5>2. QED
            BY <1>9, <1>11, <5>1
        <4>3. QED
          BY <4>1, <4>2
      <3>3. ASSUME NEW j \in 1 .. n + 1, new[i] = new[j] PROVE i = j
        <4>1. CASE i = k + 1 \/ j = k + 1
          BY <1>11, <1>12, <3>1, <3>3, <4>1
        <4>2. CASE i # k + 1 /\ j # k + 1
          <5>1. s[back(i)] = s[back(j)] /\ back(i) \in 1 .. n /\ back(j) \in 1 .. n
            BY <1>12, <3>1, <3>3, <4>2
          <5>2. back(i) = back(j)
            BY <1>2, <1>4, <1>6, <5>1 DEF WaitsInv
          <5>3. i \in Int /\ j \in Int /\ k \in Int
            BY <3>1
          <5>4. QED
            BY <4>2, <5>2, <5>3
        <4>3. QED
          BY <4>1, <4>2
      <3>4. QED
        BY <1>8, <2>2, <3>1, <3>2, <3>3
    <2>3. QED
      BY <2>1, <2>2
  <1>14. AwakeInv'
    BY <1>1, <1>2, <1>9 DEF AwakeInv, MTypeOK, Running, Ready
  <1>15. OwnInv'
    BY <1>2, <1>3 DEF OwnInv
  <1>16. OrderInv'
    <2> SUFFICES ASSUME NEW o \in Mutexes, NEW i \in DOMAIN waiters'[o],
                        NEW j \in DOMAIN waiters'[o], i < j
                 PROVE  prio'[waiters'[o][i]] >= Priority[waiters'[o][j]]
      BY DEF OrderInv
    <2>1. CASE o # m
      <3>1. PICK x, w \in Threads : x = waiters[o][i] /\ w = waiters[o][j]
        BY <1>2, <1>8, <2>1, Lists
      <3>2. prio[x] >= Priority[w] /\ Priority[w] \in Nat
        BY <1>2, <1>8, <2>1, <3>1 DEF OrderInv
      <3>3. prio'[x] >= prio[x] /\ prio'[x] \in Nat /\ prio[x] \in Nat
        BY <1>3
      <3>4. prio'[x] >= Priority[w]
        BY <3>2, <3>3
      <3>5. QED
        BY <1>8, <2>1, <3>1, <3>4
    <2>2. CASE o = m
      <3>1. /\ i \in 1 .. n + 1 /\ j \in 1 .. n + 1 /\ waiters'[o] = new
            /\ i \in Int /\ j \in Int /\ k \in Int /\ 0 <= k /\ k <= n
        BY <1>7, <1>8, <2>2
      <3>2. \A p, q \in 1 .. n : p < q => prio[s[p]] >= Priority[s[q]]
        BY <1>2, <1>4, <1>6 DEF OrderInv
      <3>3. \A u \in Threads : prio[u] >= Priority[u] /\ Priority[u] \in Nat
        BY <1>2 DEF OwnInv
      <3>4. CASE i # k + 1 /\ j # k + 1
        <4>1. /\ back(i) \in 1 .. n /\ back(j) \in 1 .. n
              /\ new[i] = s[back(i)] /\ new[j] = s[back(j)]
          BY <1>12, <3>1, <3>4
        <4>2. back(i) < back(j)
          BY <3>1, <3>4
        <4>3. PICK x, w \in Threads : x = s[back(i)] /\ w = s[back(j)]
          BY <1>11, <4>1
        <4>4. /\ prio'[x] >= prio[x] /\ prio[x] >= Priority[w]
              /\ prio'[x] \in Nat /\ prio[x] \in Nat /\ Priority[w] \in Nat
          BY <1>3, <3>2, <3>3, <4>1, <4>2, <4>3
        <4>5. prio'[x] >= Priority[w]
          BY <4>4
        <4>6. QED
          BY <3>1, <4>1, <4>3, <4>5
      <3>5. CASE j = k + 1
        <4>1. i <= k /\ i # k + 1 /\ back(i) = i /\ i \in 1 .. k
          BY <3>1, <3>5
        <4>2. new[i] = s[i] /\ i \in 1 .. n /\ new[j] = t
          BY <1>12, <3>1, <3>5, <4>1
        <4>3. prio[s[i]] >= prio[t]
          BY <1>7, <4>1
        <4>4. PICK x \in Threads : x = s[i]
          BY <1>11, <4>2
        <4>5. /\ prio'[x] >= prio[x] /\ prio[x] >= prio[t] /\ prio[t] >= Priority[t]
              /\ prio'[x] \in Nat /\ prio[x] \in Nat /\ prio[t] \in Nat /\ Priority[t] \in Nat
          BY <1>3, <3>3, <4>3, <4>4
        <4>6. prio'[x] >= Priority[t]
          BY <4>5
        <4>7. QED
          BY <3>1, <4>2, <4>4, <4>6
      <3>6. CASE i = k + 1
        <4>1. j # k + 1 /\ back(j) = j - 1 /\ k + 1 <= j - 1 /\ k < n
          BY <3>1, <3>6
        <4>2. new[i] = t /\ new[j] = s[j - 1] /\ j - 1 \in 1 .. n /\ k + 1 \in 1 .. n
          BY <1>12, <3>1, <3>6, <4>1
        <4>3. prio[s[k + 1]] < prio[t]
          BY <1>7, <4>1
        <4>4. prio[s[k + 1]] >= Priority[s[j - 1]]
          <5>1. CASE k + 1 = j - 1
            BY <1>11, <3>3, <4>2, <5>1
          <5>2. CASE k + 1 < j - 1
            BY <3>2, <4>2, <5>2
          <5>3. QED
            BY <3>1, <4>1, <5>1, <5>2
        <4>5. PICK w \in Threads : w = s[j - 1]
          BY <1>11, <4>2
        <4>6. PICK x \in Threads : x = s[k + 1]
          BY <1>11, <4>2
        <4>7. /\ prio'[t] >= prio[t] /\ prio[x] < prio[t] /\ prio[x] >= Priority[w]
              /\ prio'[t] \in Nat /\ prio[t] \in Nat /\ prio[x] \in Nat /\ Priority[w] \in Nat
          BY <1>3, <3>3, <4>3, <4>4, <4>5, <4>6
        <4>8. prio'[t] >= Priority[w]
          BY <4>7
        <4>9. QED
          BY <3>1, <4>2, <4>5, <4>8
      <3>7. QED
        BY <3>4, <3>5, <3>6
    <2>3. QED
      BY <2>1, <2>2
  <1>17. OfferInv'
    <2> SUFFICES ASSUME NEW o \in Mutexes, holder[o] = Nobody, waiters'[o] # <<>>
                 PROVE  \E v \in Threads :
                           /\ wants'[v] = o /\ ~ OnList(v, o)'
                           /\ \A u \in Threads : OnList(u, o)' => prio'[v] >= Priority[u]
      BY <1>1 DEF OfferInv
    <2>1. o # m /\ waiters'[o] = waiters[o]
      BY <1>1, <1>8
    <2>2. PICK v \in Threads : /\ wants[v] = o /\ ~ OnList(v, o)
                               /\ \A u \in Threads : OnList(u, o) => prio[v] >= Priority[u]
      BY <1>2, <2>1 DEF OfferInv
    <2>3. v # t /\ wants'[v] = o
      BY <1>1, <1>9, <2>1, <2>2
    <2>4. ~ OnList(v, o)' /\ \A u \in Threads : OnList(u, o)' => OnList(u, o)
      BY <2>1, <2>2 DEF OnList
    <2>5. ASSUME NEW u \in Threads, OnList(u, o)' PROVE prio'[v] >= Priority[u]
      BY <1>3, <2>2, <2>4, <2>5, SMTT(30)
    <2>6. QED
      BY <2>3, <2>4, <2>5
  <1>18. HolderOutranksWaiters'
    <2> SUFFICES ASSUME NEW o \in Mutexes, NEW u \in Threads,
                        holder[o] # Nobody, OnList(u, o)'
                 PROVE  prio'[holder[o]] >= Priority[u]
      BY <1>1 DEF HolderOutranksWaiters
    <2>1. holder[o] \in Threads /\ prio[u] >= Priority[u] /\ Priority[u] \in Nat
      BY <1>2 DEF MTypeOK, OwnInv
    <2>2. CASE OnList(u, o)
      <3>1. prio[holder[o]] >= Priority[u]
        BY <1>2, <2>2 DEF HolderOutranksWaiters
      <3>2. QED
        BY <1>3, <2>1, <3>1, SMTT(30)
    <2>3. CASE ~ OnList(u, o)
      <3>1. o = m
        BY <1>8, <2>3 DEF OnList
      <3>2. PICK i \in 1 .. n + 1 : new[i] = u
        BY <1>7, <1>8, <3>1 DEF OnList
      <3>3. i = k + 1 /\ u = t
        BY <1>4, <1>6, <1>12, <2>3, <3>1, <3>2 DEF OnList
      <3>4. QED
        BY <1>1, <1>3, <2>1, <3>1, <3>3
    <2>4. QED
      BY <2>2, <2>3
  <1>19. QED
    BY <1>10, <1>13, <1>14, <1>15, <1>16, <1>17, <1>18, BlockKeepsBoost DEF RankInv

(* The first of the list is woken, and outranks the rest of it; the task   *)
(* that unlocked keeps its priority while it holds another mutex.          *)
LEMMA UnlockKeepsRank ==
    ASSUME RankInv, NEW t \in Threads, NEW m \in Mutexes, Unlock(t, m)
    PROVE  RankInv'
  <1> USE MutexAssumption DEF MutexAssumption
  <1>1. /\ asleep' = asleep /\ wants' = wants /\ wants[t] = Nobody /\ Running(t)
        /\ holder[m] = t /\ holder' = [holder EXCEPT ![m] = Nobody]
        /\ held' = [held EXCEPT ![t] = held[t] - 1]
        /\ prio' = [prio EXCEPT ![t] = IF held[t] = 1 THEN Priority[t] ELSE prio[t]]
        /\ waiters' = [waiters EXCEPT ![m] =
                         IF waiters[m] = <<>> THEN waiters[m] ELSE Tail(waiters[m])]
    BY DEF Unlock, xTaskPriorityDisinherit
  <1>2. /\ MTypeOK /\ WaitsInv /\ AwakeInv /\ OwnInv /\ OrderInv /\ OfferInv
        /\ HolderOutranksWaiters /\ BoostInv
    BY DEF RankInv
  <1>3. BoostInv'
    BY UnlockKeepsBoost, <1>2
  <1>4. /\ prio' \in [Threads -> Nat] /\ held' \in [Threads -> Nat]
        /\ \A u \in Threads : u # t => prio'[u] = prio[u]
        /\ \A u \in Threads : prio[u] \in Nat /\ prio[u] >= Priority[u] /\ Priority[u] \in Nat
        /\ prio'[t] >= Priority[t]
    BY <1>1, <1>2, <1>3 DEF BoostInv, HoldTypes, MTypeOK, OwnInv
  <1>5. PICK s \in Seq(Threads) : s = waiters[m]
    BY <1>2 DEF MTypeOK
  <1>6. PICK new \in Seq(Threads) :
           /\ waiters'[m] = new
           /\ s = <<>> => new = <<>>
           /\ s # <<>> => /\ DOMAIN new = 1 .. Len(s) - 1 /\ 1 \in DOMAIN s
                          /\ \A i \in DOMAIN new : i + 1 \in DOMAIN s /\ new[i] = s[i + 1]
    <2>1. CASE s = <<>>
      BY <1>1, <1>2, <1>5, <2>1 DEF MTypeOK
    <2>2. CASE s # <<>>
      <3>1. /\ waiters'[m] = Tail(s) /\ Tail(s) \in Seq(Threads) /\ Len(Tail(s)) = Len(s) - 1
            /\ \A i \in 1 .. Len(Tail(s)) : Tail(s)[i] = s[i + 1]
        BY <1>1, <1>2, <1>5, <2>2, HeadTailProperties DEF MTypeOK
      <3>2. /\ DOMAIN Tail(s) = 1 .. Len(s) - 1 /\ DOMAIN s = 1 .. Len(s)
            /\ Len(s) \in Nat /\ Len(s) # 0
        BY <2>2, <3>1, LenProperties, EmptySeq
      <3>3. \A i \in 1 .. Len(s) - 1 : i + 1 \in 1 .. Len(s)
        BY <3>2
      <3>4. /\ DOMAIN Tail(s) = 1 .. Len(s) - 1 /\ 1 \in DOMAIN s
            /\ \A i \in DOMAIN Tail(s) : i + 1 \in DOMAIN s /\ Tail(s)[i] = s[i + 1]
        <4>1. 1 \in DOMAIN s
          BY <3>2
        <4>2. QED
          BY <3>1, <3>2, <3>3, <4>1
      <3>5. QED
        BY <2>2, <3>1, <3>4
    <2>3. QED
      BY <2>1, <2>2
  <1>7. /\ \A o \in Mutexes : o # m => waiters'[o] = waiters[o]
        /\ waiters' \in [Mutexes -> Seq(Threads)]
    BY <1>1, <1>2, <1>6 DEF MTypeOK
  <1>8. MTypeOK'
    BY <1>1, <1>2, <1>4, <1>7 DEF MTypeOK
  <1>9. AwakeInv'
    BY <1>1, <1>2 DEF AwakeInv
  <1>10. OwnInv'
    BY <1>4 DEF OwnInv
  (* A list afterwards is one before, less its first.                      *)
  <1> DEFINE d(o) == IF o = m /\ s # <<>> THEN 1 ELSE 0
  <1>11. ASSUME NEW o \in Mutexes, NEW i \in DOMAIN waiters'[o]
         PROVE  /\ i \in Nat /\ i + d(o) \in DOMAIN waiters[o]
                /\ waiters'[o][i] = waiters[o][i + d(o)]
                /\ waiters'[o][i] \in Threads /\ waiters'[o][i] # t
    <2>1. i \in Nat
      BY <1>7, LenProperties
    <2>2. CASE o = m
      <3>1. s # <<>>
        BY <1>6, <2>2
      <3>2. QED
        BY <1>1, <1>2, <1>5, <1>6, <2>1, <2>2, <3>1, RunnerIsOffLists, Lists, SMTT(30)
    <2>3. CASE o # m
      BY <1>1, <1>2, <1>7, <2>1, <2>3, RunnerIsOffLists, Lists
    <2>4. QED
      BY <2>2, <2>3
  <1> HIDE DEF d
  <1>12. \A o \in Mutexes : d(o) \in Nat
    BY DEF d
  <1>13. WaitsInv'
    <2> SUFFICES ASSUME NEW o \in Mutexes, NEW i \in DOMAIN waiters'[o]
                 PROVE  /\ wants'[waiters'[o][i]] = o
                        /\ \A j \in DOMAIN waiters'[o] : waiters'[o][i] = waiters'[o][j] => i = j
      BY DEF WaitsInv
    <2>1. wants'[waiters'[o][i]] = o
      BY <1>1, <1>2, <1>11 DEF WaitsInv
    <2>2. ASSUME NEW j \in DOMAIN waiters'[o], waiters'[o][i] = waiters'[o][j] PROVE i = j
      <3>1. i + d(o) = j + d(o)
        BY <1>2, <1>11, <2>2 DEF WaitsInv
      <3>2. QED
        BY <1>11, <1>12, <3>1
    <2>3. QED
      BY <2>1, <2>2
  <1>14. OrderInv'
    <2> SUFFICES ASSUME NEW o \in Mutexes, NEW i \in DOMAIN waiters'[o],
                        NEW j \in DOMAIN waiters'[o], i < j
                 PROVE  prio'[waiters'[o][i]] >= Priority[waiters'[o][j]]
      BY DEF OrderInv
    <2>1. i + d(o) < j + d(o)
      BY <1>11, <1>12
    <2>2. prio[waiters'[o][i]] >= Priority[waiters'[o][j]]
      BY <1>2, <1>11, <2>1 DEF OrderInv
    <2>3. QED
      BY <1>4, <1>11, <2>2
  <1>15. OfferInv'
    <2> SUFFICES ASSUME NEW o \in Mutexes, holder'[o] = Nobody, waiters'[o] # <<>>
                 PROVE  \E v \in Threads :
                           /\ wants[v] = o /\ ~ OnList(v, o)'
                           /\ \A u \in Threads : OnList(u, o)' => prio'[v] >= Priority[u]
      BY <1>1 DEF OfferInv
    <2>1. CASE o = m
      <3>1. s # <<>> /\ 1 \in DOMAIN s
        BY <1>6, <2>1
      <3>2. PICK v \in Threads : v = s[1] /\ v # t /\ wants[v] = m
        BY <1>1, <1>2, <1>5, <3>1, RunnerIsOffLists, Lists DEF WaitsInv
      <3>3. ASSUME NEW i \in DOMAIN new PROVE new[i] # v /\ prio[v] >= Priority[new[i]]
        <4>1. i \in Nat /\ i >= 1 /\ i + 1 \in DOMAIN s /\ new[i] = s[i + 1]
          BY <1>6, <3>1, LenProperties
        <4>2. 1 # i + 1 /\ 1 < i + 1
          BY <4>1
        <4>3. new[i] # v
          BY <1>2, <1>5, <3>1, <3>2, <4>1, <4>2 DEF WaitsInv
        <4>4. prio[v] >= Priority[new[i]]
          BY <1>2, <1>5, <3>1, <3>2, <4>1, <4>2 DEF OrderInv
        <4>5. QED
          BY <4>3, <4>4
      <3>4. ~ OnList(v, m)' /\ \A u \in Threads : OnList(u, m)' => prio'[v] >= Priority[u]
        BY <1>4, <1>6, <3>2, <3>3 DEF OnList
      <3>5. QED
        BY <2>1, <3>2, <3>4
    <2>2. CASE o # m
      <3>1. holder[o] = Nobody /\ waiters'[o] = waiters[o]
        BY <1>1, <1>2, <1>7, <2>2 DEF MTypeOK
      <3>2. PICK v \in Threads : /\ wants[v] = o /\ ~ OnList(v, o)
                                 /\ \A u \in Threads : OnList(u, o) => prio[v] >= Priority[u]
        BY <1>2, <3>1 DEF OfferInv
      <3>3. v # t /\ prio'[v] = prio[v]
        BY <1>1, <1>4, <3>2
      <3>4. QED
        BY <3>1, <3>2, <3>3 DEF OnList
    <2>3. QED
      BY <2>1, <2>2
  <1>16. HolderOutranksWaiters'
    <2> SUFFICES ASSUME NEW o \in Mutexes, NEW u \in Threads,
                        holder'[o] # Nobody, OnList(u, o)'
                 PROVE  prio'[holder'[o]] >= Priority[u]
      BY DEF HolderOutranksWaiters
    <2>1. o # m /\ holder'[o] = holder[o] /\ waiters'[o] = waiters[o]
      BY <1>1, <1>2, <1>7 DEF MTypeOK
    <2>2. prio[holder[o]] >= Priority[u] /\ holder[o] \in Threads
      BY <1>2, <2>1 DEF HolderOutranksWaiters, OnList, MTypeOK
    <2>3. CASE holder[o] # t
      BY <1>4, <2>1, <2>2, <2>3
    <2>4. CASE holder[o] = t
      <3>1. held'[t] >= 1 /\ held'[t] = held[t] - 1
        <4>1. o \in HeldBy(t)'
          BY <2>1, <2>4 DEF HeldBy
        <4>2. IsFiniteSet(HeldBy(t)') /\ held'[t] = Cardinality(HeldBy(t)')
          BY <1>3 DEF BoostInv, CountInv
        <4>3. held'[t] \in Nat /\ held'[t] # 0
          BY <1>4, <4>1, <4>2, FS_EmptySet
        <4>4. held'[t] = held[t] - 1 /\ held[t] \in Nat
          BY <1>1, <1>2 DEF MTypeOK
        <4>5. QED
          BY <4>3, <4>4
      <3>2. held[t] # 1 /\ prio'[t] = prio[t]
        BY <1>1, <1>2, <3>1 DEF MTypeOK
      <3>3. QED
        BY <2>1, <2>2, <2>4, <3>2
    <2>5. QED
      BY <2>3, <2>4
  <1>17. QED
    BY <1>3, <1>8, <1>9, <1>10, <1>13, <1>14, <1>15, <1>16 DEF RankInv

(* RankInv is inductive.                                                   *)
LEMMA RankHolds == MSpec => []RankInv
  <1>1. RankInv /\ [MNext]_mvars => RankInv'
    <2> SUFFICES ASSUME RankInv, [MNext]_mvars PROVE RankInv'
      OBVIOUS
    <2>1. CASE UNCHANGED mvars
      <3>1. /\ prio' = prio /\ held' = held /\ holder' = holder /\ waiters' = waiters
            /\ wants' = wants /\ asleep' = asleep
        BY <2>1 DEF mvars
      <3>2. MTypeOK' /\ WaitsInv' /\ AwakeInv' /\ OwnInv'
        BY <3>1 DEF RankInv, MTypeOK, WaitsInv, AwakeInv, OwnInv
      <3>3. OrderInv' /\ OfferInv' /\ HolderOutranksWaiters'
        BY <3>1 DEF RankInv, OrderInv, OfferInv, HolderOutranksWaiters, OnList
      <3>4. BoostInv'
        BY <3>1 DEF RankInv, BoostInv, HoldTypes, CountInv, HeldBy, BoostEnds
      <3>5. QED
        BY <3>2, <3>3, <3>4 DEF RankInv
    <2>2. QED
      BY <2>1, SleepKeepsRank, LockKeepsRank, BlockKeepsRank, UnlockKeepsRank DEF MNext
  <1>2. QED
    BY <1>1, RankBegins, PTL DEF MSpec

(* The variables of the mutexes keep their types.                          *)
THEOREM MutexTypeCorrect == MSpec => []MTypeOK
  <1>1. RankInv => MTypeOK
    BY DEF RankInv
  <1>2. QED
    BY <1>1, RankHolds, PTL

(* Whoever holds a mutex runs at no lower a priority than any task on its  *)
(* list has of its own: no task in between keeps it from releasing, for    *)
(* any number of mutexes, held together and waited for in a chain.         *)
THEOREM NoInversion == MSpec => []HolderOutranksWaiters
  <1>1. RankInv => HolderOutranksWaiters
    BY DEF RankInv
  <1>2. QED
    BY <1>1, RankHolds, PTL

(* A free mutex with tasks on its list has been offered to one that is     *)
(* awake: xQueueGenericSend's wake-up of the mutex is never missing.       *)
THEOREM FreeMutexIsOffered == MSpec => []FreeIsOffered
  <1>1. RankInv => FreeIsOffered
    BY DEF RankInv, OfferInv, FreeIsOffered
  <1>2. QED
    BY <1>1, RankHolds, PTL
-----------------------------------------------------------------------------
Holding == {"lock", "check", "place", "unlock", "resume"}

(* A task is idle or in a call, and only one in a call has a time-out.     *)
CallInv == \A t \in Tasks :
    /\ pc[t] = "idle" <=> call[t] = Idle
    /\ timer[t] = "running" => pc[t] # "idle"

(* The scheduler is suspended by the task that is between suspend and      *)
(* resume, and the queue is locked by it.                                  *)
SuspendInv ==
    /\ \A t \in Tasks : pc[t] \in Holding <=> suspended = t
    /\ txLock # QUEUE_UNLOCKED <=>
          suspended # Idle /\ pc[suspended] \in {"check", "place", "unlock"}
    /\ txLock <= messages

(* Who is on a list has a time-out that runs, and is on the list of what   *)
(* it waits for.                                                           *)
ListInv ==
    /\ \A t \in waitSend \cup waitRecv :
          pc[t] \in {"unlock", "resume", "try"} /\ timer[t] = "running"
    /\ \A t \in waitSend : Sends(t)
    /\ \A t \in waitRecv : ~ Sends(t)

(* What a task that is about to wait knows of the queue still holds.       *)
PlaceInv == \A t \in Tasks :
    /\ pc[t] = "place" => timer[t] = "running"
    /\ pc[t] = "place" /\ Sends(t) => messages = Length
    /\ pc[t] = "place" /\ ~ Sends(t) => messages <= txLock
    /\ pc[t] = "retest" => ~ Sends(t)
    /\ pc[t] \in {"suspend", "lock", "check"} => timer[t] # "unset"

(* The receivers, and the senders, that will look at the queue: a sender   *)
(* whose time is over will not once it has suspended the scheduler.        *)
Receivers == {t \in Tasks : WillLook(t, {"try", "unlock", "resume", "retest"}) /\ ~ Sends(t)}
Senders   == {t \in Tasks : /\ WillLook(t, {"try", "unlock", "resume"}) /\ Sends(t)
                            /\ pc[t] # "try" => timer[t] # "over"}
Counted   == IF txLock > 0 THEN txLock ELSE 0

RecvInv == waitRecv # {} => messages <= Cardinality(Receivers) + Counted
SendInv == waitSend # {} => Length - messages <= Cardinality(Senders)

(* pcWriteTo is behind the last message.                                   *)
WrapInv == readFrom + 1 + messages \in {writeTo, writeTo + Length, writeTo + 2 * Length}

CtrlInv == CallInv /\ SuspendInv /\ ListInv /\ PlaceInv
QueueInv == QTypeOK /\ CtrlInv /\ RecvInv /\ SendInv /\ WrapInv

(* The parts of QueueAssumption.                                           *)
LEMMA QueueFacts ==
    /\ Length \in Nat /\ Length >= 1 /\ Idle \notin Tasks /\ Idle \notin CallType
    /\ IsFiniteSet(Tasks) /\ Items # {}
    /\ \A t \in Tasks : CallsOf[t] \subseteq CallType
    /\ \A c \in IsrSends : c \in CallType /\ c.op # "recv"
  <1>1. QED
    BY QueueAssumption DEF QueueAssumption

(* A task that runs outside suspend and resume: nobody has suspended the   *)
(* scheduler, the queue is not locked, the task is on no list.             *)
LEMMA RunsAlone ==
    ASSUME QTypeOK, CtrlInv, NEW t \in Tasks, Runs(t), pc[t] \notin Holding
    PROVE  /\ suspended = Idle /\ ~ Waiting(t) /\ txLock = QUEUE_UNLOCKED
           /\ \A u \in Tasks : pc[u] \notin Holding
  <1>1. suspended # t
    BY DEF CtrlInv, SuspendInv
  <1>2. suspended = Idle /\ ~ Waiting(t)
    BY <1>1 DEF Runs
  <1>3. QED
    BY <1>2, QueueFacts DEF CtrlInv, SuspendInv

(* And one that runs between them is the only one there.                   *)
LEMMA RunsSuspended ==
    ASSUME QTypeOK, CtrlInv, NEW t \in Tasks, pc[t] \in Holding
    PROVE  /\ suspended = t /\ \A u \in Tasks : u # t => pc[u] \notin Holding
           /\ txLock # QUEUE_UNLOCKED <=> pc[t] \in {"check", "place", "unlock"}
  <1>1. QED
    BY QueueFacts DEF CtrlInv, SuspendInv

(* Sets of tasks are finite.                                               *)
LEMMA TaskSets ==
    ASSUME NEW A \in SUBSET Tasks
    PROVE  IsFiniteSet(A) /\ Cardinality(A) \in Nat
  <1>1. IsFiniteSet(A)
    BY QueueFacts, FS_Subset
  <1>2. QED
    BY <1>1, FS_CardinalityType

(* What a set that takes in others counts.                                 *)
LEMMA Grows ==
    ASSUME NEW A \in SUBSET Tasks, NEW B \in SUBSET Tasks, NEW W \in SUBSET Tasks,
           A \cap W = {}, A \cup W \subseteq B
    PROVE  Cardinality(B) >= Cardinality(A) + Cardinality(W)
  <1>1. IsFiniteSet(A) /\ IsFiniteSet(B) /\ IsFiniteSet(W)
    BY TaskSets
  <1>2. /\ Cardinality(A) \in Nat /\ Cardinality(B) \in Nat /\ Cardinality(W) \in Nat
    BY TaskSets
  <1>3. Cardinality(A \cup W) = Cardinality(A) + Cardinality(W) - Cardinality({})
    BY <1>1, FS_Union
  <1>4. Cardinality({}) = 0
    BY FS_EmptySet
  <1>5. A \cup W \in SUBSET B
    OBVIOUS
  <1>6. Cardinality(A \cup W) <= Cardinality(B)
    BY <1>1, <1>5, FS_Subset
  <1>7. QED
    BY <1>2, <1>3, <1>4, <1>6

(* One that loses at most one task.                                        *)
LEMMA Shrinks ==
    ASSUME NEW A \in SUBSET Tasks, NEW B \in SUBSET Tasks, NEW x,
           A \ {x} \subseteq B
    PROVE  Cardinality(B) >= Cardinality(A) - 1
  <1>1. /\ IsFiniteSet(A) /\ IsFiniteSet(B) /\ IsFiniteSet(A \ {x})
        /\ Cardinality(A) \in Nat /\ Cardinality(B) \in Nat /\ Cardinality(A \ {x}) \in Nat
    BY TaskSets
  <1>2. A \ {x} \in SUBSET B
    OBVIOUS
  <1>3. Cardinality(A \ {x}) <= Cardinality(B)
    BY <1>1, <1>2, FS_Subset
  <1>4. Cardinality(A \ {x}) >= Cardinality(A) - 1
    <2>1. CASE x \in A
      BY <1>1, <2>1, FS_RemoveElement
    <2>2. CASE x \notin A
      <3>1. A \ {x} = A
        BY <2>2
      <3>2. QED
        BY <1>1, <3>1
    <2>3. QED
      BY <2>1, <2>2
  <1>5. QED
    BY <1>1, <1>3, <1>4

(* And one that loses none.                                                *)
LEMMA Stays ==
    ASSUME NEW A \in SUBSET Tasks, NEW B \in SUBSET Tasks, A \subseteq B
    PROVE  Cardinality(B) >= Cardinality(A)
  <1>1. IsFiniteSet(B) /\ A \in SUBSET B /\ Cardinality(A) \in Nat /\ Cardinality(B) \in Nat
    BY TaskSets
  <1>2. QED
    BY <1>1, FS_Subset

(* How many are woken.                                                     *)
LEMMA WokenAre ==
    ASSUME NEW L \in SUBSET Tasks, NEW n \in Nat, NEW W \in Woken(L, n)
    PROVE  /\ W \subseteq L /\ W \in SUBSET Tasks
           /\ L \ W # {} => Cardinality(W) = n
  <1>1. W \in SUBSET L /\ Cardinality(W) = Least(n, Cardinality(L))
    BY DEF Woken
  <1>2. IsFiniteSet(L) /\ Cardinality(L) \in Nat /\ W \in SUBSET Tasks
    BY <1>1, TaskSets
  <1>3. ASSUME Cardinality(W) # n PROVE L = W
    <2>1. Cardinality(W) = Cardinality(L)
      BY <1>1, <1>2, <1>3 DEF Least
    <2>2. QED
      BY <1>1, <1>2, <2>1, FS_Subset
  <1>4. QED
    BY <1>1, <1>2, <1>3

(* A step that sends and receives nothing loses no wake-up if it takes     *)
(* from neither set.                                                       *)
LEMMA NothingMoves ==
    ASSUME QTypeOK, RecvInv, SendInv, QTypeOK', messages' = messages,
           waitRecv' = {} \/ Counted' = Counted, waitRecv' \subseteq waitRecv,
           waitSend' \subseteq waitSend, waitRecv' = {} \/ Receivers \subseteq Receivers',
           waitSend' = {} \/ Senders \subseteq Senders'
    PROVE  RecvInv' /\ SendInv'
  <1>1. /\ Receivers \in SUBSET Tasks /\ Receivers' \in SUBSET Tasks
        /\ Senders \in SUBSET Tasks /\ Senders' \in SUBSET Tasks
    BY DEF Receivers, Senders
  <1>2. /\ Cardinality(Receivers) \in Nat /\ Cardinality(Receivers') \in Nat
        /\ Cardinality(Senders) \in Nat /\ Cardinality(Senders') \in Nat
    BY <1>1, TaskSets
  <1>3. messages \in Nat /\ Counted \in Nat /\ Length \in Nat
    BY QueueFacts DEF QTypeOK, Counted, QUEUE_UNLOCKED
  <1>4. RecvInv'
    <2> SUFFICES ASSUME waitRecv' # {}
                 PROVE  messages <= Cardinality(Receivers') + Counted
      BY DEF RecvInv
    <2>1. Cardinality(Receivers') >= Cardinality(Receivers)
      BY <1>1, Stays
    <2>2. messages <= Cardinality(Receivers) + Counted
      BY DEF RecvInv
    <2>3. QED
      BY <1>2, <1>3, <2>1, <2>2
  <1>5. SendInv'
    <2> SUFFICES ASSUME waitSend' # {}
                 PROVE  Length - messages <= Cardinality(Senders')
      BY DEF SendInv
    <2>1. Cardinality(Senders') >= Cardinality(Senders)
      BY <1>1, Stays
    <2>2. Length - messages <= Cardinality(Senders)
      BY DEF SendInv
    <2>3. QED
      BY <1>2, <1>3, <2>1, <2>2
  <1>6. QED
    BY <1>4, <1>5

(* A message goes in.                                                      *)
LEMMA CopyTo ==
    ASSUME QTypeOK, WrapInv, NEW c \in CallType, c.op # "recv", messages < Length,
           prvCopyDataToQueue(c)
    PROVE  /\ cells' \in [Slot -> Items] /\ writeTo' \in Slot /\ readFrom' \in Slot
           /\ messages' = messages + 1 /\ messages' \in 0 .. Length /\ WrapInv'
  <1>1. /\ Length \in Nat /\ Length >= 1 /\ messages \in 0 .. Length
        /\ writeTo \in 0 .. Length - 1 /\ readFrom \in 0 .. Length - 1
        /\ cells \in [Slot -> Items] /\ c.item \in Items
    BY QueueFacts DEF QTypeOK, Slot, CallType
  <1>2. messages' = messages + 1 /\ messages' \in 0 .. Length
    BY <1>1 DEF prvCopyDataToQueue
  <1>3. cells' \in [Slot -> Items]
    BY <1>1 DEF prvCopyDataToQueue
  <1>4. \/ readFrom' = readFrom /\ writeTo' = IF writeTo + 1 >= Length THEN 0 ELSE writeTo + 1
        \/ writeTo' = writeTo /\ readFrom' = IF readFrom - 1 < 0 THEN Length - 1 ELSE readFrom - 1
    BY DEF prvCopyDataToQueue
  <1>5. writeTo' \in Slot /\ readFrom' \in Slot
    BY <1>1, <1>4 DEF Slot
  <1>6. WrapInv'
    BY <1>1, <1>2, <1>4 DEF WrapInv
  <1>7. QED
    BY <1>2, <1>3, <1>5, <1>6

(* A message goes out.                                                     *)
LEMMA CopyFrom ==
    ASSUME QTypeOK, WrapInv, messages # 0, prvCopyDataFromQueue
    PROVE  /\ cells' = cells /\ writeTo' = writeTo /\ readFrom' \in Slot
           /\ messages' = messages - 1 /\ messages' \in 0 .. Length /\ WrapInv'
  <1>1. /\ Length \in Nat /\ Length >= 1 /\ messages \in 0 .. Length
        /\ writeTo \in 0 .. Length - 1 /\ readFrom \in 0 .. Length - 1
    BY QueueFacts DEF QTypeOK, Slot
  <1>2. /\ cells' = cells /\ writeTo' = writeTo /\ messages' = messages - 1
        /\ readFrom' = IF readFrom + 1 >= Length THEN 0 ELSE readFrom + 1
    BY DEF prvCopyDataFromQueue
  <1>3. messages' \in 0 .. Length
    BY <1>1, <1>2
  <1>4. readFrom' \in Slot
    BY <1>1, <1>2 DEF Slot
  <1>5. WrapInv'
    BY <1>1, <1>2 DEF WrapInv
  <1>6. QED
    BY <1>2, <1>3, <1>4, <1>5

(* At first nobody waits.                                                  *)
LEMMA QueueBegins == QInit => QueueInv
  <1> SUFFICES ASSUME QInit PROVE QueueInv
    OBVIOUS
  <1> USE QueueFacts
  <1>1. /\ cells = [i \in Slot |-> CHOOSE x \in Items : TRUE]
        /\ writeTo = 0 /\ readFrom = Length - 1 /\ messages = 0
        /\ txLock = QUEUE_UNLOCKED /\ waitSend = {} /\ waitRecv = {}
        /\ suspended = Idle
        /\ pc = [t \in Tasks |-> "idle"] /\ call = [t \in Tasks |-> Idle]
        /\ timer = [t \in Tasks |-> "unset"]
    BY DEF QInit
  <1>2. QTypeOK
    <2>1. cells \in [Slot -> Items]
      BY <1>1
    <2>2. writeTo \in Slot /\ readFrom \in Slot /\ messages \in 0 .. Length
      BY <1>1 DEF Slot
    <2>3. txLock \in QUEUE_UNLOCKED .. Length
      BY <1>1 DEF QUEUE_UNLOCKED
    <2>4. QED
      BY <1>1, <2>1, <2>2, <2>3 DEF QTypeOK
  <1>3. CallInv /\ ListInv /\ PlaceInv
    BY <1>1 DEF CallInv, ListInv, PlaceInv
  <1>4. SuspendInv
    BY <1>1 DEF SuspendInv, Holding, QUEUE_UNLOCKED
  <1>5. RecvInv /\ SendInv
    BY <1>1 DEF RecvInv, SendInv
  <1>6. WrapInv
    BY <1>1 DEF WrapInv
  <1>7. QED
    BY <1>2, <1>3, <1>4, <1>5, <1>6 DEF QueueInv, CtrlInv

(* A call begins.                                                          *)
LEMMA CallKeeps ==
    ASSUME QueueInv, NEW t \in Tasks, QCall(t)
    PROVE  QueueInv'
  <1> USE QueueFacts
  <1>1. PICK c \in CallType :
           /\ pc[t] = "idle" /\ Runs(t)
           /\ pc' = [pc EXCEPT ![t] = "try"] /\ call' = [call EXCEPT ![t] = c]
           /\ cells' = cells /\ writeTo' = writeTo /\ readFrom' = readFrom
           /\ messages' = messages /\ txLock' = txLock /\ waitSend' = waitSend
           /\ waitRecv' = waitRecv /\ suspended' = suspended /\ timer' = timer
    BY DEF QCall, store, lists
  <1>2. QTypeOK /\ CtrlInv /\ RecvInv /\ SendInv /\ WrapInv
    BY DEF QueueInv
  <1>3. suspended = Idle /\ ~ Waiting(t) /\ \A u \in Tasks : pc[u] \notin Holding
    BY <1>1, <1>2, RunsAlone DEF Holding
  <1>4. QTypeOK'
    BY <1>1, <1>2 DEF QTypeOK
  <1>5. CallInv'
    BY <1>1, <1>2 DEF CtrlInv, CallInv, QTypeOK
  <1>6. SuspendInv'
    BY <1>1, <1>2, <1>3 DEF CtrlInv, SuspendInv, QTypeOK, Holding
  <1>7. ListInv'
    BY <1>1, <1>2, <1>3 DEF CtrlInv, ListInv, QTypeOK, Waiting, Sends
  <1>8. PlaceInv'
    BY <1>1, <1>2 DEF CtrlInv, PlaceInv, QTypeOK, Sends
  <1>9. WrapInv'
    BY <1>1, <1>2 DEF WrapInv
  <1>10. Receivers \subseteq Receivers' /\ Senders \subseteq Senders'
    BY <1>1, <1>2 DEF Receivers, Senders, WillLook, Waiting, Sends, QTypeOK, CtrlInv, CallInv
  <1>11. Counted' = Counted
    BY <1>1 DEF Counted
  <1>12. RecvInv' /\ SendInv'
    BY <1>1, <1>2, <1>4, <1>10, <1>11, NothingMoves
  <1>13. QED
    BY <1>4, <1>5, <1>6, <1>7, <1>8, <1>9, <1>12 DEF QueueInv, CtrlInv

(* A send that succeeds wakes a receiver, if one waits: there is one more  *)
(* message, and one more receiver that will look.                          *)
LEMMA SendKeeps ==
    ASSUME QueueInv, NEW t \in Tasks, TrySend(t)
    PROVE  QueueInv'
  <1> USE QueueFacts
  <1>1. PICK W \in Woken(waitRecv, 1) :
           /\ pc[t] = "try" /\ Runs(t) /\ Sends(t) /\ messages # Length
           /\ prvCopyDataToQueue(call[t])
           /\ waitRecv' = waitRecv \ W
           /\ pc' = [pc EXCEPT ![t] = "idle"] /\ call' = [call EXCEPT ![t] = Idle]
           /\ timer' = [timer EXCEPT ![t] = "unset"]
           /\ txLock' = txLock /\ waitSend' = waitSend /\ suspended' = suspended
    BY DEF TrySend, At, Refused, Leave
  <1>2. QTypeOK /\ CtrlInv /\ RecvInv /\ SendInv /\ WrapInv
    BY DEF QueueInv
  <1>3. /\ suspended = Idle /\ ~ Waiting(t) /\ \A u \in Tasks : pc[u] \notin Holding
        /\ txLock = QUEUE_UNLOCKED
    BY <1>1, <1>2, RunsAlone DEF Holding
  <1>4. call[t] \in CallType /\ call[t].op # "recv" /\ messages < Length
    BY <1>1, <1>2 DEF QTypeOK, CtrlInv, CallInv, Sends
  <1>5. /\ cells' \in [Slot -> Items] /\ writeTo' \in Slot /\ readFrom' \in Slot
        /\ messages' = messages + 1 /\ messages' \in 0 .. Length /\ WrapInv'
    BY <1>1, <1>2, <1>4, CopyTo
  <1>6. /\ W \subseteq waitRecv /\ W \in SUBSET Tasks /\ waitRecv' \in SUBSET Tasks
        /\ waitRecv' # {} => Cardinality(W) = 1
    BY <1>1, <1>2, WokenAre DEF QTypeOK
  <1>7. QTypeOK'
    BY <1>1, <1>2, <1>5, <1>6 DEF QTypeOK
  <1>8. CallInv'
    BY <1>1, <1>2 DEF CtrlInv, CallInv, QTypeOK
  <1>9. SuspendInv'
    <2>1. txLock' <= messages'
      BY <1>1, <1>2, <1>3, <1>5 DEF QTypeOK, QUEUE_UNLOCKED
    <2>2. QED
      BY <1>1, <1>2, <1>3, <2>1 DEF CtrlInv, SuspendInv, QTypeOK, Holding
  <1>10. ListInv'
    BY <1>1, <1>2, <1>3, <1>6 DEF CtrlInv, ListInv, QTypeOK, Waiting, Sends
  <1>11. PlaceInv'
    BY <1>1, <1>2, <1>3 DEF CtrlInv, PlaceInv, QTypeOK, Sends, Holding
  <1>12. /\ messages \in Nat /\ Counted = 0 /\ Counted' = 0
    BY <1>1, <1>2, <1>3 DEF QTypeOK, Counted, QUEUE_UNLOCKED
  <1>13. /\ Receivers \in SUBSET Tasks /\ Receivers' \in SUBSET Tasks
         /\ Senders \in SUBSET Tasks /\ Senders' \in SUBSET Tasks
         /\ Cardinality(Receivers) \in Nat /\ Cardinality(Receivers') \in Nat
         /\ Cardinality(Senders) \in Nat /\ Cardinality(Senders') \in Nat
    BY TaskSets DEF Receivers, Senders
  <1>14. RecvInv'
    <2> SUFFICES ASSUME waitRecv' # {}
                 PROVE  messages' <= Cardinality(Receivers') + Counted'
      BY DEF RecvInv
    <2>1. Receivers \cap W = {}
      BY <1>6 DEF Receivers, WillLook, Waiting
    <2>2. ASSUME NEW u \in Receivers PROVE u \in Receivers'
      BY <1>1, <1>2, <1>6, <2>2 DEF Receivers, WillLook, Waiting, Sends, QTypeOK
    <2>3. ASSUME NEW u \in W PROVE u \in Receivers'
      <3>1. /\ u \in Tasks /\ u \in waitRecv /\ u # t /\ pc[u] \in {"unlock", "resume", "try"}
            /\ ~ Sends(u) /\ u \notin waitSend /\ call[u] # Idle
        BY <1>1, <1>2, <1>6 DEF CtrlInv, ListInv, CallInv
      <3>2. QED
        BY <1>1, <1>2, <3>1 DEF Receivers, WillLook, Waiting, Sends, QTypeOK
    <2>4. Cardinality(Receivers') >= Cardinality(Receivers) + 1
      BY <1>6, <1>13, <2>1, <2>2, <2>3, Grows
    <2>5. messages <= Cardinality(Receivers)
      BY <1>2, <1>6, <1>12, <1>13, <1>1 DEF RecvInv
    <2>6. QED
      BY <1>5, <1>12, <1>13, <2>4, <2>5
  <1>15. SendInv'
    <2> SUFFICES ASSUME waitSend # {}
                 PROVE  Length - messages' <= Cardinality(Senders')
      BY <1>1 DEF SendInv
    <2>1. Senders \ {t} \subseteq Senders'
      BY <1>1, <1>2, <1>6 DEF Senders, WillLook, Waiting, Sends, QTypeOK
    <2>2. Cardinality(Senders') >= Cardinality(Senders) - 1
      BY <1>13, <2>1, Shrinks
    <2>3. Length - messages <= Cardinality(Senders)
      BY <1>2 DEF SendInv
    <2>4. QED
      BY <1>5, <1>12, <1>13, <2>2, <2>3
  <1>16. QED
    BY <1>5, <1>7, <1>8, <1>9, <1>10, <1>11, <1>14, <1>15 DEF QueueInv, CtrlInv

(* A receive that succeeds wakes a sender, if one waits: there is one more *)
(* free place, and one more sender that will look.                         *)
LEMMA ReceiveKeeps ==
    ASSUME QueueInv, NEW t \in Tasks, TryReceive(t)
    PROVE  QueueInv'
  <1> USE QueueFacts
  <1>1. PICK W \in Woken(waitSend, 1) :
           /\ pc[t] = "try" /\ Runs(t) /\ ~ Sends(t) /\ messages # 0
           /\ prvCopyDataFromQueue
           /\ waitSend' = waitSend \ W
           /\ pc' = [pc EXCEPT ![t] = "idle"] /\ call' = [call EXCEPT ![t] = Idle]
           /\ timer' = [timer EXCEPT ![t] = "unset"]
           /\ txLock' = txLock /\ waitRecv' = waitRecv /\ suspended' = suspended
    BY DEF TryReceive, At, Refused, Leave
  <1>2. QTypeOK /\ CtrlInv /\ RecvInv /\ SendInv /\ WrapInv
    BY DEF QueueInv
  <1>3. /\ suspended = Idle /\ ~ Waiting(t) /\ \A u \in Tasks : pc[u] \notin Holding
        /\ txLock = QUEUE_UNLOCKED
    BY <1>1, <1>2, RunsAlone DEF Holding
  <1>4. /\ cells' = cells /\ writeTo' = writeTo /\ readFrom' \in Slot
        /\ messages' = messages - 1 /\ messages' \in 0 .. Length /\ WrapInv'
    BY <1>1, <1>2, CopyFrom
  <1>5. /\ W \subseteq waitSend /\ W \in SUBSET Tasks /\ waitSend' \in SUBSET Tasks
        /\ waitSend' # {} => Cardinality(W) = 1
    BY <1>1, <1>2, WokenAre DEF QTypeOK
  <1>6. QTypeOK'
    BY <1>1, <1>2, <1>4, <1>5 DEF QTypeOK
  <1>7. CallInv'
    BY <1>1, <1>2 DEF CtrlInv, CallInv, QTypeOK
  <1>8. SuspendInv'
    <2>1. txLock' <= messages'
      BY <1>1, <1>2, <1>3, <1>4 DEF QTypeOK, QUEUE_UNLOCKED
    <2>2. QED
      BY <1>1, <1>2, <1>3, <2>1 DEF CtrlInv, SuspendInv, QTypeOK, Holding
  <1>9. ListInv'
    BY <1>1, <1>2, <1>3, <1>5 DEF CtrlInv, ListInv, QTypeOK, Waiting, Sends
  <1>10. PlaceInv'
    BY <1>1, <1>2, <1>3 DEF CtrlInv, PlaceInv, QTypeOK, Sends, Holding
  <1>11. /\ messages \in Nat /\ Counted = 0 /\ Counted' = 0
    BY <1>1, <1>2, <1>3 DEF QTypeOK, Counted, QUEUE_UNLOCKED
  <1>12. /\ Receivers \in SUBSET Tasks /\ Receivers' \in SUBSET Tasks
         /\ Senders \in SUBSET Tasks /\ Senders' \in SUBSET Tasks
         /\ Cardinality(Receivers) \in Nat /\ Cardinality(Receivers') \in Nat
         /\ Cardinality(Senders) \in Nat /\ Cardinality(Senders') \in Nat
    BY TaskSets DEF Receivers, Senders
  <1>13. RecvInv'
    <2> SUFFICES ASSUME waitRecv # {}
                 PROVE  messages' <= Cardinality(Receivers') + Counted'
      BY <1>1 DEF RecvInv
    <2>1. Receivers \ {t} \subseteq Receivers'
      BY <1>1, <1>2, <1>5 DEF Receivers, WillLook, Waiting, Sends, QTypeOK
    <2>2. Cardinality(Receivers') >= Cardinality(Receivers) - 1
      BY <1>12, <2>1, Shrinks
    <2>3. messages <= Cardinality(Receivers)
      BY <1>2, <1>11, <1>12 DEF RecvInv
    <2>4. QED
      BY <1>4, <1>11, <1>12, <2>2, <2>3
  <1>14. SendInv'
    <2> SUFFICES ASSUME waitSend' # {}
                 PROVE  Length - messages' <= Cardinality(Senders')
      BY DEF SendInv
    <2>1. Senders \cap W = {}
      BY <1>5 DEF Senders, WillLook, Waiting
    <2>2. ASSUME NEW u \in Senders PROVE u \in Senders'
      BY <1>1, <1>2, <1>5, <2>2 DEF Senders, WillLook, Waiting, Sends, QTypeOK
    <2>3. ASSUME NEW u \in W PROVE u \in Senders'
      <3>1. /\ u \in Tasks /\ u \in waitSend /\ u # t /\ pc[u] \in {"unlock", "resume", "try"}
            /\ timer[u] = "running" /\ Sends(u) /\ u \notin waitRecv /\ call[u] # Idle
        BY <1>1, <1>2, <1>5 DEF CtrlInv, ListInv, CallInv
      <3>2. QED
        BY <1>1, <1>2, <3>1 DEF Senders, WillLook, Waiting, Sends, QTypeOK
    <2>4. Cardinality(Senders') >= Cardinality(Senders) + 1
      BY <1>5, <1>12, <2>1, <2>2, <2>3, Grows
    <2>5. Length - messages <= Cardinality(Senders)
      BY <1>1, <1>2, <1>5 DEF SendInv
    <2>6. QED
      BY <1>4, <1>11, <1>12, <2>4, <2>5
  <1>15. QED
    BY <1>4, <1>6, <1>7, <1>8, <1>9, <1>10, <1>13, <1>14 DEF QueueInv, CtrlInv

(* A call gives up when there is nothing for it: no message, or no place.  *)
LEMMA LeaveKeeps ==
    ASSUME QueueInv, NEW t \in Tasks,
           \/ TryPoll(t)
           \/ At(t, "retest") /\ messages = 0 /\ Leave(t)
              /\ UNCHANGED <<store, txLock, lists, suspended>>
    PROVE  QueueInv'
  <1> USE QueueFacts
  <1>1. /\ pc[t] \in {"try", "retest"} /\ Runs(t)
        /\ pc' = [pc EXCEPT ![t] = "idle"] /\ call' = [call EXCEPT ![t] = Idle]
        /\ timer' = [timer EXCEPT ![t] = "unset"]
        /\ cells' = cells /\ writeTo' = writeTo /\ readFrom' = readFrom
        /\ messages' = messages /\ txLock' = txLock /\ waitSend' = waitSend
        /\ waitRecv' = waitRecv /\ suspended' = suspended
    BY DEF TryPoll, At, Leave, store, lists
  <1>2. QTypeOK /\ CtrlInv /\ RecvInv /\ SendInv /\ WrapInv
    BY DEF QueueInv
  <1>3. IF Sends(t) THEN messages = Length ELSE messages = 0
    BY DEF TryPoll, Refused, At, QueueInv, CtrlInv, PlaceInv
  <1>4. /\ suspended = Idle /\ ~ Waiting(t) /\ \A u \in Tasks : pc[u] \notin Holding
        /\ txLock = QUEUE_UNLOCKED
    BY <1>1, <1>2, RunsAlone DEF Holding
  <1>5. QTypeOK'
    BY <1>1, <1>2 DEF QTypeOK
  <1>6. CallInv'
    BY <1>1, <1>2 DEF CtrlInv, CallInv, QTypeOK
  <1>7. SuspendInv'
    BY <1>1, <1>2, <1>4 DEF CtrlInv, SuspendInv, QTypeOK, Holding
  <1>8. ListInv'
    BY <1>1, <1>2, <1>4 DEF CtrlInv, ListInv, QTypeOK, Waiting, Sends
  <1>9. PlaceInv'
    BY <1>1, <1>2 DEF CtrlInv, PlaceInv, QTypeOK, Sends
  <1>10. WrapInv'
    BY <1>1, <1>2 DEF WrapInv
  <1>11. /\ messages \in Nat /\ Counted = 0 /\ Counted' = 0
    BY <1>1, <1>2, <1>4 DEF QTypeOK, Counted, QUEUE_UNLOCKED
  <1>12. /\ Receivers \in SUBSET Tasks /\ Receivers' \in SUBSET Tasks
         /\ Senders \in SUBSET Tasks /\ Senders' \in SUBSET Tasks
         /\ Cardinality(Receivers) \in Nat /\ Cardinality(Receivers') \in Nat
         /\ Cardinality(Senders) \in Nat /\ Cardinality(Senders') \in Nat
    BY TaskSets DEF Receivers, Senders
  <1>13. RecvInv'
    <2>1. CASE Sends(t)
      <3>1. Receivers \subseteq Receivers'
        BY <1>1, <1>2, <2>1 DEF Receivers, WillLook, Waiting, Sends, QTypeOK
      <3>2. Cardinality(Receivers') >= Cardinality(Receivers)
        BY <1>12, <3>1, Stays
      <3>3. QED
        BY <1>1, <1>2, <1>11, <1>12, <3>2 DEF RecvInv
    <2>2. CASE ~ Sends(t)
      BY <1>1, <1>3, <1>11, <1>12, <2>2 DEF RecvInv
    <2>3. QED
      BY <2>1, <2>2
  <1>14. SendInv'
    <2>1. CASE ~ Sends(t)
      <3>1. Senders \subseteq Senders'
        BY <1>1, <1>2, <2>1 DEF Senders, WillLook, Waiting, Sends, QTypeOK
      <3>2. Cardinality(Senders') >= Cardinality(Senders)
        BY <1>12, <3>1, Stays
      <3>3. QED
        BY <1>1, <1>2, <1>11, <1>12, <3>2 DEF SendInv
    <2>2. CASE Sends(t)
      BY <1>1, <1>3, <1>11, <1>12, <2>2 DEF SendInv
    <2>3. QED
      BY <2>1, <2>2
  <1>15. QED
    BY <1>5, <1>6, <1>7, <1>8, <1>9, <1>10, <1>13, <1>14 DEF QueueInv, CtrlInv

(* A call that will wait finds nothing for it, so it is not missed.        *)
LEMMA WaitKeeps ==
    ASSUME QueueInv, NEW t \in Tasks, TryWait(t)
    PROVE  QueueInv'
  <1> USE QueueFacts
  <1>1. /\ pc[t] = "try" /\ Runs(t)
        /\ pc' = [pc EXCEPT ![t] = "suspend"] /\ call' = call
        /\ timer' = [timer EXCEPT ![t] = IF timer[t] = "unset" THEN "running" ELSE timer[t]]
        /\ cells' = cells /\ writeTo' = writeTo /\ readFrom' = readFrom
        /\ messages' = messages /\ txLock' = txLock /\ waitSend' = waitSend
        /\ waitRecv' = waitRecv /\ suspended' = suspended
        /\ IF Sends(t) THEN messages = Length ELSE messages = 0
    BY DEF TryWait, At, Goto, Refused, store, lists
  <1>2. QTypeOK /\ CtrlInv /\ RecvInv /\ SendInv /\ WrapInv
    BY DEF QueueInv
  <1>3. /\ suspended = Idle /\ ~ Waiting(t) /\ \A u \in Tasks : pc[u] \notin Holding
        /\ txLock = QUEUE_UNLOCKED
    BY <1>1, <1>2, RunsAlone DEF Holding
  <1>4. /\ timer' \in [Tasks -> {"unset", "running", "over"}] /\ timer'[t] # "unset"
        /\ \A u \in Tasks : u # t => timer'[u] = timer[u]
        /\ pc' \in [Tasks -> {"idle", "try", "suspend", "lock", "check", "place",
                         "unlock", "resume", "retest"}] /\ pc'[t] = "suspend"
        /\ \A u \in Tasks : u # t => pc'[u] = pc[u]
    BY <1>1, <1>2 DEF QTypeOK
  <1>5. QTypeOK'
    BY <1>1, <1>2, <1>4 DEF QTypeOK
  <1>6. CallInv'
    BY <1>1, <1>2, <1>4 DEF CtrlInv, CallInv
  <1>7. SuspendInv'
    BY <1>1, <1>2, <1>3, <1>4 DEF CtrlInv, SuspendInv, Holding
  <1>8. ListInv'
    BY <1>1, <1>2, <1>3, <1>4 DEF CtrlInv, ListInv, QTypeOK, Waiting, Sends
  <1>9. PlaceInv'
    BY <1>1, <1>2, <1>4 DEF CtrlInv, PlaceInv, QTypeOK, Sends
  <1>10. WrapInv'
    BY <1>1, <1>2 DEF WrapInv
  <1>11. /\ messages \in Nat /\ Counted = 0 /\ Counted' = 0
    BY <1>1, <1>2, <1>3 DEF QTypeOK, Counted, QUEUE_UNLOCKED
  <1>12. /\ Receivers \in SUBSET Tasks /\ Receivers' \in SUBSET Tasks
         /\ Senders \in SUBSET Tasks /\ Senders' \in SUBSET Tasks
         /\ Cardinality(Receivers) \in Nat /\ Cardinality(Receivers') \in Nat
         /\ Cardinality(Senders) \in Nat /\ Cardinality(Senders') \in Nat
    BY TaskSets DEF Receivers, Senders
  <1>13. RecvInv'
    <2>1. CASE Sends(t)
      <3>1. Receivers \subseteq Receivers'
        BY <1>1, <1>2, <1>4, <2>1 DEF Receivers, WillLook, Waiting, Sends
      <3>2. Cardinality(Receivers') >= Cardinality(Receivers)
        BY <1>12, <3>1, Stays
      <3>3. QED
        BY <1>1, <1>2, <1>11, <1>12, <3>2 DEF RecvInv
    <2>2. CASE ~ Sends(t)
      BY <1>1, <1>11, <1>12, <2>2 DEF RecvInv
    <2>3. QED
      BY <2>1, <2>2
  <1>14. SendInv'
    <2>1. CASE ~ Sends(t)
      <3>1. Senders \subseteq Senders'
        BY <1>1, <1>2, <1>4, <2>1 DEF Senders, WillLook, Waiting, Sends
      <3>2. Cardinality(Senders') >= Cardinality(Senders)
        BY <1>12, <3>1, Stays
      <3>3. QED
        BY <1>1, <1>2, <1>11, <1>12, <3>2 DEF SendInv
    <2>2. CASE Sends(t)
      BY <1>1, <1>11, <1>12, <2>2 DEF SendInv
    <2>3. QED
      BY <2>1, <2>2
  <1>15. QED
    BY <1>5, <1>6, <1>7, <1>8, <1>9, <1>10, <1>13, <1>14 DEF QueueInv, CtrlInv

(* From suspend to resume: only pc, the lock, the lists and the suspension *)
(* change.                                                                 *)
LEMMA SuspendKeeps ==
    ASSUME QueueInv, NEW t \in Tasks,
           vTaskSuspendAll(t) \/ prvLockQueue(t) \/ CheckBlock(t) \/ CheckAgain(t)
    PROVE  QueueInv'
  <1> USE QueueFacts
  <1>1. PICK pos \in {"lock", "check", "place", "unlock"} :
           /\ pc' = [pc EXCEPT ![t] = pos] /\ call' = call /\ timer' = timer
           /\ cells' = cells /\ writeTo' = writeTo /\ readFrom' = readFrom
           /\ messages' = messages /\ waitSend' = waitSend /\ waitRecv' = waitRecv
           /\ pos = "lock"   => /\ pc[t] = "suspend" /\ Runs(t)
                                /\ suspended' = t /\ txLock' = txLock
           /\ pos = "check"  => /\ pc[t] = "lock" /\ suspended' = suspended
                                /\ txLock' = IF txLock = QUEUE_UNLOCKED THEN 0 ELSE txLock
           /\ pos = "place"  => /\ pc[t] = "check" /\ timer[t] # "over" /\ Refused(t)
                                /\ suspended' = suspended /\ txLock' = txLock
           /\ pos = "unlock" => /\ pc[t] = "check" /\ suspended' = suspended /\ txLock' = txLock
    BY DEF vTaskSuspendAll, prvLockQueue, CheckBlock, CheckAgain, At, Goto, store, lists
  <1>2. QTypeOK /\ CtrlInv /\ RecvInv /\ SendInv /\ WrapInv
    BY DEF QueueInv
  <1>3. pos = "lock" => /\ suspended = Idle /\ ~ Waiting(t) /\ txLock = QUEUE_UNLOCKED
                        /\ \A u \in Tasks : pc[u] \notin Holding
    BY <1>1, <1>2, RunsAlone DEF Holding
  <1>4. pos # "lock" => /\ pc[t] \in Holding /\ suspended = t
                        /\ \A u \in Tasks : u # t => pc[u] \notin Holding
                        /\ txLock # QUEUE_UNLOCKED <=> pc[t] \in {"check", "place", "unlock"}
    BY <1>1, <1>2, RunsSuspended DEF Holding
  <1>5. /\ suspended' = t
        /\ pc' \in [Tasks -> {"idle", "try", "suspend", "lock", "check", "place",
                         "unlock", "resume", "retest"}] /\ pc'[t] = pos
        /\ \A u \in Tasks : u # t => pc'[u] = pc[u] /\ pc[u] \notin Holding
    BY <1>1, <1>2, <1>3, <1>4 DEF QTypeOK
  <1>6. /\ txLock' \in QUEUE_UNLOCKED .. Length /\ txLock' <= messages
        /\ Counted' = Counted
        /\ txLock' # QUEUE_UNLOCKED <=> pos # "lock"
        /\ pos = "place" => txLock' = txLock
    BY <1>1, <1>2, <1>3, <1>4
    DEF QTypeOK, CtrlInv, SuspendInv, Counted, QUEUE_UNLOCKED, Holding
  <1>7. QTypeOK'
    BY <1>1, <1>2, <1>5, <1>6 DEF QTypeOK
  <1>8. CallInv'
    BY <1>1, <1>2, <1>5 DEF CtrlInv, CallInv
  <1>9. SuspendInv'
    BY <1>1, <1>2, <1>5, <1>6 DEF CtrlInv, SuspendInv, Holding
  <1>10. ~ Waiting(t)
    BY <1>1, <1>2 DEF CtrlInv, ListInv, Waiting
  <1>11. ListInv'
    BY <1>1, <1>2, <1>5, <1>10 DEF CtrlInv, ListInv, QTypeOK, Waiting, Sends
  <1>12. PlaceInv'
    <2> SUFFICES ASSUME NEW u \in Tasks
                 PROVE  /\ pc'[u] = "place" => timer[u] = "running"
                        /\ pc'[u] = "place" /\ Sends(u) => messages = Length
                        /\ pc'[u] = "place" /\ ~ Sends(u) => messages <= txLock'
                        /\ pc'[u] = "retest" => ~ Sends(u)
                        /\ pc'[u] \in {"suspend", "lock", "check"} => timer[u] # "unset"
      BY <1>1 DEF PlaceInv, Sends
    <2>1. CASE u # t
      BY <1>2, <1>5, <2>1 DEF CtrlInv, PlaceInv, Holding
    <2>2. CASE u = t /\ pos = "place"
      <3>1. timer[t] = "running"
        BY <1>1, <1>2, <2>2 DEF CtrlInv, PlaceInv, QTypeOK
      <3>2. IF Sends(t) THEN messages = Length ELSE messages = 0
        BY <1>1, <2>2 DEF Refused
      <3>3. ~ Sends(t) => messages <= txLock'
        BY <1>2, <1>6, <2>2, <3>2 DEF QTypeOK, QUEUE_UNLOCKED
      <3>4. QED
        BY <1>5, <2>2, <3>1, <3>2, <3>3
    <2>3. CASE u = t /\ pos # "place"
      BY <1>1, <1>2, <1>5, <2>3 DEF CtrlInv, PlaceInv
    <2>4. QED
      BY <2>1, <2>2, <2>3
  <1>13. WrapInv'
    BY <1>1, <1>2 DEF WrapInv
  <1>14. Receivers \subseteq Receivers' /\ Senders \subseteq Senders'
    BY <1>1, <1>2, <1>5 DEF Receivers, Senders, WillLook, Waiting, Sends
  <1>15. RecvInv' /\ SendInv'
    BY <1>1, <1>2, <1>6, <1>7, <1>14, NothingMoves
  <1>16. QED
    BY <1>7, <1>8, <1>9, <1>11, <1>12, <1>13, <1>15 DEF QueueInv, CtrlInv

(* A task goes on a list knowing that it has nothing to look for, but what *)
(* interrupts have sent meanwhile, which the lock counts.                  *)
LEMMA PlaceKeeps ==
    ASSUME QueueInv, NEW t \in Tasks, vTaskPlaceOnEventList(t)
    PROVE  QueueInv'
  <1> USE QueueFacts
  <1>1. /\ pc[t] = "place"
        /\ pc' = [pc EXCEPT ![t] = "unlock"] /\ call' = call /\ timer' = timer
        /\ cells' = cells /\ writeTo' = writeTo /\ readFrom' = readFrom
        /\ messages' = messages /\ txLock' = txLock /\ suspended' = suspended
        /\ waitSend' = waitSend \cup (IF Sends(t) THEN {t} ELSE {})
        /\ waitRecv' = waitRecv \cup (IF Sends(t) THEN {} ELSE {t})
    BY DEF vTaskPlaceOnEventList, At, Goto, store
  <1>2. QTypeOK /\ CtrlInv /\ RecvInv /\ SendInv /\ WrapInv
    BY DEF QueueInv
  <1>3. /\ pc[t] \in Holding /\ suspended = t
        /\ \A u \in Tasks : u # t => pc[u] \notin Holding
        /\ txLock # QUEUE_UNLOCKED
    BY <1>1, <1>2, RunsSuspended DEF Holding
  <1>4. /\ timer[t] = "running" /\ ~ Waiting(t) /\ call[t] # Idle
        /\ Sends(t) => messages = Length
        /\ ~ Sends(t) => messages <= txLock
    BY <1>1, <1>2 DEF CtrlInv, PlaceInv, ListInv, CallInv, Waiting
  <1>5. QTypeOK'
    BY <1>1, <1>2 DEF QTypeOK
  <1>6. CallInv'
    BY <1>1, <1>2 DEF CtrlInv, CallInv, QTypeOK
  <1>7. SuspendInv'
    BY <1>1, <1>2, <1>3 DEF CtrlInv, SuspendInv, QTypeOK, Holding
  <1>8. ListInv'
    BY <1>1, <1>2, <1>4 DEF CtrlInv, ListInv, QTypeOK, Sends
  <1>9. PlaceInv'
    BY <1>1, <1>2 DEF CtrlInv, PlaceInv, QTypeOK, Sends
  <1>10. WrapInv'
    BY <1>1, <1>2 DEF WrapInv
  <1>11. /\ messages \in Nat /\ Counted = txLock /\ Counted' = txLock /\ txLock \in Nat
    BY <1>1, <1>2, <1>3 DEF QTypeOK, Counted, QUEUE_UNLOCKED
  <1>12. /\ Receivers \in SUBSET Tasks /\ Receivers' \in SUBSET Tasks
         /\ Senders \in SUBSET Tasks /\ Senders' \in SUBSET Tasks
         /\ Cardinality(Receivers) \in Nat /\ Cardinality(Receivers') \in Nat
         /\ Cardinality(Senders) \in Nat /\ Cardinality(Senders') \in Nat
    BY TaskSets DEF Receivers, Senders
  <1>13. Receivers \subseteq Receivers' /\ Senders \subseteq Senders'
    BY <1>1, <1>2 DEF Receivers, Senders, WillLook, Waiting, Sends, QTypeOK
  <1>14. /\ Cardinality(Receivers') >= Cardinality(Receivers)
         /\ Cardinality(Senders') >= Cardinality(Senders)
    BY <1>12, <1>13, Stays
  <1>15. RecvInv'
    <2>1. CASE Sends(t)
      <3>1. waitRecv' = waitRecv
        BY <1>1, <2>1
      <3>2. QED
        BY <1>1, <1>2, <1>11, <1>12, <1>14, <3>1 DEF RecvInv
    <2>2. CASE ~ Sends(t)
      BY <1>1, <1>4, <1>11, <1>12, <2>2 DEF RecvInv
    <2>3. QED
      BY <2>1, <2>2
  <1>16. SendInv'
    <2>1. CASE ~ Sends(t)
      <3>1. waitSend' = waitSend
        BY <1>1, <2>1
      <3>2. QED
        BY <1>1, <1>2, <1>11, <1>12, <1>14, <3>1 DEF SendInv
    <2>2. CASE Sends(t)
      BY <1>1, <1>4, <1>11, <1>12, <2>2 DEF SendInv
    <2>3. QED
      BY <2>1, <2>2
  <1>17. QED
    BY <1>5, <1>6, <1>7, <1>8, <1>9, <1>10, <1>15, <1>16 DEF QueueInv, CtrlInv

(* The unlock wakes as many receivers as interrupts have sent messages.    *)
LEMMA UnlockKeeps ==
    ASSUME QueueInv, NEW t \in Tasks, prvUnlockQueue(t)
    PROVE  QueueInv'
  <1> USE QueueFacts
  <1>1. PICK W \in Woken(waitRecv, txLock) :
           /\ pc[t] = "unlock"
           /\ pc' = [pc EXCEPT ![t] = "resume"] /\ call' = call /\ timer' = timer
           /\ cells' = cells /\ writeTo' = writeTo /\ readFrom' = readFrom
           /\ messages' = messages /\ txLock' = QUEUE_UNLOCKED /\ suspended' = suspended
           /\ waitSend' = waitSend /\ waitRecv' = waitRecv \ W
    BY DEF prvUnlockQueue, At, Goto, store
  <1>2. QTypeOK /\ CtrlInv /\ RecvInv /\ SendInv /\ WrapInv
    BY DEF QueueInv
  <1>3. /\ pc[t] \in Holding /\ suspended = t
        /\ \A u \in Tasks : u # t => pc[u] \notin Holding
        /\ txLock # QUEUE_UNLOCKED
    BY <1>1, <1>2, RunsSuspended DEF Holding
  <1>4. /\ messages \in Nat /\ Counted = txLock /\ Counted' = 0 /\ txLock \in Nat
    BY <1>1, <1>2, <1>3 DEF QTypeOK, Counted, QUEUE_UNLOCKED
  <1>5. /\ W \subseteq waitRecv /\ W \in SUBSET Tasks /\ waitRecv' \in SUBSET Tasks
        /\ waitRecv' # {} => Cardinality(W) = txLock
    BY <1>1, <1>2, <1>4, WokenAre DEF QTypeOK
  <1>6. QTypeOK'
    <2>1. txLock' \in QUEUE_UNLOCKED .. Length
      BY <1>1 DEF QUEUE_UNLOCKED
    <2>2. QED
      BY <1>1, <1>2, <1>5, <2>1 DEF QTypeOK
  <1>7. CallInv'
    BY <1>1, <1>2 DEF CtrlInv, CallInv, QTypeOK
  <1>8. SuspendInv'
    <2>1. txLock' <= messages'
      BY <1>1, <1>4 DEF QUEUE_UNLOCKED
    <2>2. QED
      BY <1>1, <1>2, <1>3, <2>1 DEF CtrlInv, SuspendInv, QTypeOK, Holding
  <1>9. ListInv'
    BY <1>1, <1>2, <1>5 DEF CtrlInv, ListInv, QTypeOK, Sends
  <1>10. PlaceInv'
    BY <1>1, <1>2, <1>3 DEF CtrlInv, PlaceInv, QTypeOK, Sends, Holding
  <1>11. WrapInv'
    BY <1>1, <1>2 DEF WrapInv
  <1>12. /\ Receivers \in SUBSET Tasks /\ Receivers' \in SUBSET Tasks
         /\ Senders \in SUBSET Tasks /\ Senders' \in SUBSET Tasks
         /\ Cardinality(Receivers) \in Nat /\ Cardinality(Receivers') \in Nat
         /\ Cardinality(Senders) \in Nat /\ Cardinality(Senders') \in Nat
    BY TaskSets DEF Receivers, Senders
  <1>13. RecvInv'
    <2> SUFFICES ASSUME waitRecv' # {}
                 PROVE  messages <= Cardinality(Receivers') + Counted'
      BY <1>1 DEF RecvInv
    <2>1. Receivers \cap W = {}
      BY <1>5 DEF Receivers, WillLook, Waiting
    <2>2. ASSUME NEW u \in Receivers PROVE u \in Receivers'
      BY <1>1, <1>2, <1>5, <2>2 DEF Receivers, WillLook, Waiting, Sends, QTypeOK
    <2>3. ASSUME NEW u \in W PROVE u \in Receivers'
      <3>1. /\ u \in Tasks /\ u \in waitRecv /\ pc[u] \in {"unlock", "resume", "try"}
            /\ ~ Sends(u) /\ u \notin waitSend /\ call[u] # Idle
        BY <1>1, <1>2, <1>5 DEF CtrlInv, ListInv, CallInv
      <3>2. QED
        BY <1>1, <1>2, <3>1 DEF Receivers, WillLook, Waiting, Sends, QTypeOK
    <2>4. Cardinality(Receivers') >= Cardinality(Receivers) + txLock
      <3>1. Cardinality(W) = txLock /\ Receivers \cup W \subseteq Receivers'
        BY <1>5, <2>2, <2>3
      <3>2. Cardinality(Receivers') >= Cardinality(Receivers) + Cardinality(W)
        BY <1>5, <1>12, <2>1, <3>1, Grows
      <3>3. QED
        BY <3>1, <3>2
    <2>5. messages <= Cardinality(Receivers) + txLock
      <3>1. waitRecv # {} /\ Counted = txLock
        BY <1>1, <1>4, <1>5
      <3>2. messages <= Cardinality(Receivers) + Counted
        BY <1>2, <3>1 DEF RecvInv
      <3>3. QED
        BY <3>1, <3>2
    <2>6. QED
      BY <1>4, <1>12, <2>4, <2>5
  <1>14. SendInv'
    <2> SUFFICES ASSUME waitSend # {}
                 PROVE  Length - messages <= Cardinality(Senders')
      BY <1>1 DEF SendInv
    <2>1. Senders \subseteq Senders'
      BY <1>1, <1>2, <1>5 DEF Senders, WillLook, Waiting, Sends, QTypeOK
    <2>2. Cardinality(Senders') >= Cardinality(Senders)
      BY <1>12, <2>1, Stays
    <2>3. Length - messages <= Cardinality(Senders)
      BY <1>2 DEF SendInv
    <2>4. QED
      BY <1>4, <1>12, <2>2, <2>3
  <1>15. QED
    BY <1>6, <1>7, <1>8, <1>9, <1>10, <1>11, <1>13, <1>14 DEF QueueInv, CtrlInv

(* The scheduler runs again: who will look at the queue still will.        *)
LEMMA ResumeKeeps ==
    ASSUME QueueInv, NEW t \in Tasks, xTaskResumeAll(t)
    PROVE  QueueInv'
  <1> USE QueueFacts
  <1>1. PICK pos \in {"try", "retest", "idle"} :
           /\ pc[t] = "resume"
           /\ pc' = [pc EXCEPT ![t] = pos]
           /\ cells' = cells /\ writeTo' = writeTo /\ readFrom' = readFrom
           /\ messages' = messages /\ txLock' = txLock /\ suspended' = Idle
           /\ waitSend' = waitSend /\ waitRecv' = waitRecv
           /\ pos = "try" => timer[t] # "over" /\ timer' = timer /\ call' = call
           /\ pos = "retest" => timer[t] = "over" /\ ~ Sends(t) /\ timer' = timer /\ call' = call
           /\ pos = "idle" => /\ timer[t] = "over" /\ Sends(t)
                              /\ call' = [call EXCEPT ![t] = Idle]
                              /\ timer' = [timer EXCEPT ![t] = "unset"]
    BY DEF xTaskResumeAll, At, Goto, Leave, store, lists
  <1>2. QTypeOK /\ CtrlInv /\ RecvInv /\ SendInv /\ WrapInv
    BY DEF QueueInv
  <1>3. /\ pc[t] \in Holding /\ suspended = t
        /\ \A u \in Tasks : u # t => pc[u] \notin Holding
        /\ txLock = QUEUE_UNLOCKED
    BY <1>1, <1>2, RunsSuspended DEF Holding
  <1>4. /\ pc' \in [Tasks -> {"idle", "try", "suspend", "lock", "check", "place",
                         "unlock", "resume", "retest"}] /\ pc'[t] = pos
        /\ \A u \in Tasks : u # t => /\ pc'[u] = pc[u] /\ call'[u] = call[u]
                                     /\ timer'[u] = timer[u]
        /\ timer' \in [Tasks -> {"unset", "running", "over"}]
        /\ call' \in [Tasks -> CallType \cup {Idle}]
        /\ pos # "idle" => call'[t] = call[t] /\ timer'[t] = timer[t]
        /\ pos = "idle" => call'[t] = Idle /\ timer'[t] = "unset"
        /\ call[t] # Idle
    <2>1. CASE pos = "idle"
      BY <1>1, <1>2, <2>1 DEF QTypeOK, CtrlInv, CallInv
    <2>2. CASE pos # "idle"
      BY <1>1, <1>2, <2>2 DEF QTypeOK, CtrlInv, CallInv
    <2>3. QED
      BY <2>1, <2>2
  <1>5. QTypeOK'
    BY <1>1, <1>2, <1>4 DEF QTypeOK
  <1>6. CallInv'
    BY <1>1, <1>2, <1>4 DEF CtrlInv, CallInv
  <1>7. SuspendInv'
    BY <1>1, <1>2, <1>3, <1>4 DEF CtrlInv, SuspendInv, Holding
  <1>8. ListInv'
    <2>1. Waiting(t) => pos = "try"
      BY <1>1, <1>2 DEF CtrlInv, ListInv, Waiting
    <2>2. QED
      BY <1>1, <1>2, <1>4, <2>1 DEF CtrlInv, ListInv, QTypeOK, Waiting, Sends
  <1>9. PlaceInv'
    BY <1>1, <1>2, <1>4 DEF CtrlInv, PlaceInv, Sends
  <1>10. WrapInv'
    BY <1>1, <1>2 DEF WrapInv
  <1>11. Counted' = Counted
    BY <1>1 DEF Counted
  <1>12. Receivers \subseteq Receivers' /\ Senders \subseteq Senders'
    BY <1>1, <1>2, <1>4 DEF Receivers, Senders, WillLook, Waiting, Sends
  <1>13. RecvInv' /\ SendInv'
    BY <1>1, <1>2, <1>5, <1>11, <1>12, NothingMoves
  <1>14. QED
    BY <1>5, <1>6, <1>7, <1>8, <1>9, <1>10, <1>13 DEF QueueInv, CtrlInv

(* A receive that sees a message after its time looks again.               *)
LEMMA RetestKeeps ==
    ASSUME QueueInv, NEW t \in Tasks, Retest(t)
    PROVE  QueueInv'
  <1> USE QueueFacts
  <1>1. CASE messages = 0
    <2>1. At(t, "retest") /\ messages = 0 /\ Leave(t)
          /\ UNCHANGED <<store, txLock, lists, suspended>>
      BY <1>1 DEF Retest
    <2>2. QED
      BY <2>1, LeaveKeeps
  <1>2. CASE messages # 0
    <2>1. /\ pc[t] = "retest" /\ Runs(t)
          /\ pc' = [pc EXCEPT ![t] = "try"] /\ call' = call /\ timer' = timer
          /\ cells' = cells /\ writeTo' = writeTo /\ readFrom' = readFrom
          /\ messages' = messages /\ txLock' = txLock /\ suspended' = suspended
          /\ waitSend' = waitSend /\ waitRecv' = waitRecv
      BY <1>2 DEF Retest, At, Goto, store, lists
    <2>2. QTypeOK /\ CtrlInv /\ RecvInv /\ SendInv /\ WrapInv
      BY DEF QueueInv
    <2>3. /\ suspended = Idle /\ ~ Waiting(t) /\ \A u \in Tasks : pc[u] \notin Holding
          /\ txLock = QUEUE_UNLOCKED
      BY <2>1, <2>2, RunsAlone DEF Holding
    <2>4. QTypeOK'
      BY <2>1, <2>2 DEF QTypeOK
    <2>5. CallInv'
      BY <2>1, <2>2 DEF CtrlInv, CallInv, QTypeOK
    <2>6. SuspendInv'
      BY <2>1, <2>2, <2>3 DEF CtrlInv, SuspendInv, QTypeOK, Holding
    <2>7. ListInv'
      BY <2>1, <2>2, <2>3 DEF CtrlInv, ListInv, QTypeOK, Waiting, Sends
    <2>8. PlaceInv'
      BY <2>1, <2>2 DEF CtrlInv, PlaceInv, QTypeOK, Sends
    <2>9. WrapInv' /\ Counted' = Counted
      BY <2>1, <2>2 DEF WrapInv, Counted
    <2>10. Receivers \subseteq Receivers' /\ Senders \subseteq Senders'
      BY <2>1, <2>2 DEF Receivers, Senders, WillLook, Waiting, Sends, QTypeOK
    <2>11. RecvInv' /\ SendInv'
      BY <2>1, <2>2, <2>4, <2>9, <2>10, NothingMoves
    <2>12. QED
      BY <2>4, <2>5, <2>6, <2>7, <2>8, <2>9, <2>11 DEF QueueInv, CtrlInv
  <1>3. QED
    BY <1>1, <1>2

(* A task whose time is over leaves its list, and will look.               *)
LEMMA TickKeeps ==
    ASSUME QueueInv, NEW t \in Tasks, Tick(t)
    PROVE  QueueInv'
  <1> USE QueueFacts
  <1>1. /\ suspended = Idle /\ timer[t] = "running"
        /\ timer' = [timer EXCEPT ![t] = "over"]
        /\ waitSend' = waitSend \ {t} /\ waitRecv' = waitRecv \ {t}
        /\ cells' = cells /\ writeTo' = writeTo /\ readFrom' = readFrom
        /\ messages' = messages /\ txLock' = txLock /\ suspended' = suspended
        /\ pc' = pc /\ call' = call
    BY DEF Tick, store
  <1>2. QTypeOK /\ CtrlInv /\ RecvInv /\ SendInv /\ WrapInv
    BY DEF QueueInv
  <1>3. pc[t] \notin Holding
    BY <1>1, <1>2 DEF CtrlInv, SuspendInv
  <1>4. QTypeOK'
    BY <1>1, <1>2 DEF QTypeOK
  <1>5. CallInv'
    BY <1>1, <1>2 DEF CtrlInv, CallInv, QTypeOK
  <1>6. SuspendInv'
    BY <1>1, <1>2 DEF CtrlInv, SuspendInv
  <1>7. ListInv'
    BY <1>1, <1>2 DEF CtrlInv, ListInv, QTypeOK, Sends
  <1>8. PlaceInv'
    BY <1>1, <1>2, <1>3 DEF CtrlInv, PlaceInv, QTypeOK, Sends, Holding
  <1>9. WrapInv' /\ Counted' = Counted
    BY <1>1, <1>2 DEF WrapInv, Counted
  <1>10. Receivers \subseteq Receivers' /\ Senders \subseteq Senders'
    BY <1>1, <1>2, <1>3 DEF Receivers, Senders, WillLook, Waiting, Sends, QTypeOK, Holding
  <1>11. RecvInv' /\ SendInv'
    BY <1>1, <1>2, <1>4, <1>9, <1>10, NothingMoves
  <1>12. QED
    BY <1>4, <1>5, <1>6, <1>7, <1>8, <1>9, <1>11 DEF QueueInv, CtrlInv

(* An interrupt wakes a receiver, or counts what it sends for the unlock.  *)
LEMMA InterruptKeeps ==
    ASSUME QueueInv, xQueueGenericSendFromISR
    PROVE  QueueInv'
  <1> USE QueueFacts
  <1>1. PICK c \in IsrSends :
           /\ messages < Length /\ prvCopyDataToQueue(c)
           /\ \/ txLock = QUEUE_UNLOCKED /\ txLock' = txLock
                 /\ \E W \in Woken(waitRecv, 1) : waitRecv' = waitRecv \ W
              \/ txLock # QUEUE_UNLOCKED /\ txLock' = txLock + 1 /\ waitRecv' = waitRecv
           /\ waitSend' = waitSend /\ suspended' = suspended /\ pc' = pc /\ call' = call
           /\ timer' = timer
    BY DEF xQueueGenericSendFromISR
  <1>2. QTypeOK /\ CtrlInv /\ RecvInv /\ SendInv /\ WrapInv
    BY DEF QueueInv
  <1>3. /\ cells' \in [Slot -> Items] /\ writeTo' \in Slot /\ readFrom' \in Slot
        /\ messages' = messages + 1 /\ messages' \in 0 .. Length /\ WrapInv'
    BY <1>1, <1>2, CopyTo
  <1>4. /\ messages \in Nat /\ messages \in 0 .. Length /\ txLock \in -1 .. Length
        /\ txLock <= messages
    BY <1>2 DEF QTypeOK, CtrlInv, SuspendInv, QUEUE_UNLOCKED
  <1>5. PICK W \in SUBSET Tasks :
           /\ W \subseteq waitRecv /\ waitRecv' = waitRecv \ W
           /\ txLock = QUEUE_UNLOCKED => txLock' = txLock /\ (waitRecv' # {} => Cardinality(W) = 1)
           /\ txLock # QUEUE_UNLOCKED => txLock' = txLock + 1 /\ W = {}
    <2>1. CASE txLock = QUEUE_UNLOCKED
      <3>1. PICK W \in Woken(waitRecv, 1) : waitRecv' = waitRecv \ W
        BY <1>1, <2>1
      <3>2. W \subseteq waitRecv /\ W \in SUBSET Tasks
            /\ (waitRecv \ W # {} => Cardinality(W) = 1)
        BY <1>2, <3>1, WokenAre DEF QTypeOK
      <3>3. QED
        BY <1>1, <2>1, <3>1, <3>2
    <2>2. CASE txLock # QUEUE_UNLOCKED
      <3>1. {} \in SUBSET Tasks /\ waitRecv' = waitRecv \ {} /\ txLock' = txLock + 1
        BY <1>1, <2>2
      <3>2. QED
        BY <2>2, <3>1
    <2>3. QED
      BY <2>1, <2>2
  <1>6. /\ txLock' \in QUEUE_UNLOCKED .. Length /\ txLock' <= messages'
        /\ txLock' # QUEUE_UNLOCKED <=> txLock # QUEUE_UNLOCKED
        /\ txLock' - txLock <= 1 /\ txLock' >= txLock
    BY <1>1, <1>3, <1>4 DEF QUEUE_UNLOCKED
  <1>7. QTypeOK'
    BY <1>1, <1>2, <1>3, <1>5, <1>6 DEF QTypeOK
  <1>8. CallInv'
    BY <1>1, <1>2 DEF CtrlInv, CallInv
  <1>9. SuspendInv'
    BY <1>1, <1>2, <1>6 DEF CtrlInv, SuspendInv
  <1>10. ListInv'
    BY <1>1, <1>2, <1>5 DEF CtrlInv, ListInv, Sends
  <1>11. PlaceInv'
    <2> SUFFICES ASSUME NEW u \in Tasks, pc[u] = "place", ~ Sends(u)
                 PROVE  messages' <= txLock'
      BY <1>1, <1>2, <1>4 DEF CtrlInv, PlaceInv, Sends
    <2>1. txLock # QUEUE_UNLOCKED /\ messages <= txLock
      BY <1>2, RunsSuspended DEF Holding, CtrlInv, PlaceInv
    <2>2. QED
      BY <1>1, <1>3, <1>4, <2>1
  <1>12. /\ Receivers \in SUBSET Tasks /\ Receivers' \in SUBSET Tasks
         /\ Senders \in SUBSET Tasks /\ Senders' \in SUBSET Tasks
         /\ Cardinality(Receivers) \in Nat /\ Cardinality(Receivers') \in Nat
         /\ Cardinality(Senders) \in Nat /\ Cardinality(Senders') \in Nat
    BY TaskSets DEF Receivers, Senders
  <1>13. RecvInv'
    <2> SUFFICES ASSUME waitRecv' # {}
                 PROVE  messages' <= Cardinality(Receivers') + Counted'
      BY DEF RecvInv
    <2>1. Receivers \cap W = {}
      BY <1>5 DEF Receivers, WillLook, Waiting
    <2>2. ASSUME NEW u \in Receivers PROVE u \in Receivers'
      BY <1>1, <1>5, <2>2 DEF Receivers, WillLook, Waiting, Sends
    <2>3. ASSUME NEW u \in W PROVE u \in Receivers'
      <3>1. /\ u \in Tasks /\ u \in waitRecv /\ pc[u] \in {"unlock", "resume", "try"}
            /\ ~ Sends(u) /\ u \notin waitSend /\ call[u] # Idle
        BY <1>2, <1>5 DEF CtrlInv, ListInv, CallInv
      <3>2. QED
        BY <1>1, <1>5, <3>1 DEF Receivers, WillLook, Waiting, Sends
    <2>4. messages <= Cardinality(Receivers) + Counted
      BY <1>2, <1>5 DEF RecvInv
    <2>5. CASE txLock = QUEUE_UNLOCKED
      <3>1. Cardinality(W) = 1 /\ Receivers \cup W \subseteq Receivers'
        BY <1>5, <2>2, <2>3, <2>5
      <3>2. Cardinality(Receivers') >= Cardinality(Receivers) + 1
        BY <1>12, <2>1, <3>1, Grows
      <3>3. Counted = 0 /\ Counted' = 0
        BY <1>5, <2>5 DEF Counted, QUEUE_UNLOCKED
      <3>4. QED
        BY <1>3, <1>4, <1>12, <2>4, <3>2, <3>3
    <2>6. CASE txLock # QUEUE_UNLOCKED
      <3>1. Counted = txLock /\ Counted' = txLock + 1
        BY <1>4, <1>5, <2>6 DEF Counted, QUEUE_UNLOCKED
      <3>2. Cardinality(Receivers') >= Cardinality(Receivers)
        BY <1>12, <2>2, Stays
      <3>3. QED
        BY <1>3, <1>4, <1>12, <2>4, <3>1, <3>2
    <2>7. QED
      BY <2>5, <2>6
  <1>14. SendInv'
    <2> SUFFICES ASSUME waitSend # {}
                 PROVE  Length - messages' <= Cardinality(Senders')
      BY <1>1 DEF SendInv
    <2>1. Senders \subseteq Senders'
      BY <1>1, <1>5 DEF Senders, WillLook, Waiting, Sends
    <2>2. Cardinality(Senders') >= Cardinality(Senders)
      BY <1>12, <2>1, Stays
    <2>3. Length - messages <= Cardinality(Senders)
      BY <1>2 DEF SendInv
    <2>4. QED
      BY <1>3, <1>4, <1>12, <2>2, <2>3
  <1>15. QED
    BY <1>3, <1>7, <1>8, <1>9, <1>10, <1>11, <1>13, <1>14 DEF QueueInv, CtrlInv

(* QueueInv is inductive.                                                  *)
LEMMA QueueHolds == QInit /\ [][QNext]_qvars => []QueueInv
  <1>1. QueueInv /\ [QNext]_qvars => QueueInv'
    <2> SUFFICES ASSUME QueueInv, [QNext]_qvars PROVE QueueInv'
      OBVIOUS
    <2>1. CASE UNCHANGED qvars
      <3>1. /\ cells' = cells /\ writeTo' = writeTo /\ readFrom' = readFrom
            /\ messages' = messages /\ txLock' = txLock /\ waitSend' = waitSend
            /\ waitRecv' = waitRecv /\ suspended' = suspended /\ pc' = pc /\ call' = call
            /\ timer' = timer
        BY <2>1 DEF qvars, store, lists
      <3>2. QTypeOK' /\ CallInv' /\ SuspendInv' /\ ListInv' /\ PlaceInv' /\ WrapInv'
        BY <3>1 DEF QueueInv, CtrlInv, QTypeOK, CallInv, SuspendInv, ListInv, PlaceInv, WrapInv,
                    Sends
      <3>3. Receivers' = Receivers /\ Senders' = Senders /\ Counted' = Counted
        BY <3>1 DEF Receivers, Senders, Counted, WillLook, Waiting, Sends
      <3>4. RecvInv' /\ SendInv'
        BY <3>1, <3>3 DEF QueueInv, RecvInv, SendInv
      <3>5. QED
        BY <3>2, <3>4 DEF QueueInv, CtrlInv
    <2>2. ASSUME NEW t \in Tasks, QCall(t) \/ QStep(t) \/ Tick(t)
          PROVE  QueueInv'
      BY <2>2, CallKeeps, SendKeeps, ReceiveKeeps, LeaveKeeps, WaitKeeps, SuspendKeeps,
         PlaceKeeps, UnlockKeeps, ResumeKeeps, RetestKeeps, TickKeeps DEF QStep
    <2>3. QED
      BY <2>1, <2>2, InterruptKeeps DEF QNext
  <1>2. QED
    BY <1>1, QueueBegins, PTL

(* The queue's variables keep their types: the lock count never passes the *)
(* queue's length, nor a pointer its storage.                              *)
THEOREM QueueTypeCorrect == QSpec => []QTypeOK
  <1>1. QueueInv => QTypeOK
    BY DEF QueueInv
  <1>2. QED
    BY <1>1, QueueHolds, PTL DEF QSpec

(* No wake-up is lost, for any number of tasks, of places and of           *)
(* interrupts between any two critical sections of a call.                 *)
THEOREM WakeupsAreKept == QSpec => []NoLostWakeup
  <1>1. QueueInv => NoLostWakeup
    <2> SUFFICES ASSUME QueueInv PROVE NoLostWakeup
      OBVIOUS
    <2> DEFINE Later == {t \in Tasks : WillLook(t, {"try", "unlock", "resume"}) /\ Sends(t)}
    <2>1. messages \in Nat /\ Length \in Nat /\ RecvInv /\ SendInv
      BY QueueFacts DEF QueueInv, QTypeOK
    <2>2. waitRecv # {} =>
             messages <= Cardinality({t \in Tasks :
                         /\ WillLook(t, {"try", "unlock", "resume", "retest"})
                         /\ ~ Sends(t)})
                      + (IF txLock > 0 THEN txLock ELSE 0)
      BY <2>1 DEF RecvInv, Receivers, Counted
    <2>3. /\ Senders \in SUBSET Tasks /\ Later \in SUBSET Tasks /\ Senders \subseteq Later
      BY DEF Senders
    <2>4. /\ Cardinality(Later) >= Cardinality(Senders)
          /\ Cardinality(Later) \in Nat /\ Cardinality(Senders) \in Nat
      BY <2>3, Stays, TaskSets
    <2>5. waitSend # {} => Length - messages <= Cardinality(Later)
      <3> HIDE DEF Later
      <3>1. QED
        BY <2>1, <2>4 DEF SendInv
    <2>6. QED
      BY <2>2, <2>5 DEF NoLostWakeup
  <1>2. QED
    BY <1>1, QueueHolds, PTL DEF QSpec

(* Only a call with a time-out runs out of time, and tests the queue again.*)
TimedInv == \A t \in Tasks :
    /\ pc[t] = "idle" => timer[t] = "unset"
    /\ timer[t] = "over" \/ pc[t] = "retest" => call[t].wait = "timed"

(* A time-out is cleared when the call returns, and only a tick ends it.   *)
LEMMA TimedKeeps ==
    ASSUME QueueInv, TimedInv, [QNext]_qvars
    PROVE  TimedInv'
  <1>1. QTypeOK /\ CallInv
    BY DEF QueueInv, CtrlInv
  <1>2. ASSUME NEW t \in Tasks, Leave(t) PROVE TimedInv'
    BY <1>1, <1>2 DEF Leave, TimedInv, QTypeOK
  <1>3. ASSUME NEW t \in Tasks, NEW pos, pos \notin {"idle", "retest"},
               Goto(t, pos), timer' = timer
        PROVE  TimedInv'
    BY <1>1, <1>3 DEF Goto, TimedInv, QTypeOK
  <1>4. ASSUME NEW t \in Tasks, QCall(t) PROVE TimedInv'
    BY <1>1, <1>4 DEF QCall, TimedInv, QTypeOK
  <1>5. ASSUME NEW t \in Tasks, TrySend(t) \/ TryReceive(t) \/ TryPoll(t) PROVE TimedInv'
    BY <1>2, <1>5 DEF TrySend, TryReceive, TryPoll
  <1>6. ASSUME NEW t \in Tasks, TryWait(t) PROVE TimedInv'
    BY <1>1, <1>6 DEF TryWait, At, Goto, TimedInv, QTypeOK
  <1>7. ASSUME NEW t \in Tasks,
               \/ vTaskSuspendAll(t) \/ prvLockQueue(t) \/ CheckBlock(t) \/ CheckAgain(t)
               \/ vTaskPlaceOnEventList(t) \/ prvUnlockQueue(t)
        PROVE  TimedInv'
    BY <1>3, <1>7 DEF vTaskSuspendAll, prvLockQueue, CheckBlock, CheckAgain,
                      vTaskPlaceOnEventList, prvUnlockQueue
  <1>8. ASSUME NEW t \in Tasks, xTaskResumeAll(t) PROVE TimedInv'
    <2>1. CASE Goto(t, "retest") /\ UNCHANGED timer /\ timer[t] = "over"
      BY <1>1, <2>1 DEF Goto, TimedInv, QTypeOK
    <2>2. QED
      BY <1>2, <1>3, <1>8, <2>1 DEF xTaskResumeAll
  <1>9. ASSUME NEW t \in Tasks, Retest(t) PROVE TimedInv'
    BY <1>2, <1>3, <1>9 DEF Retest
  <1>10. ASSUME NEW t \in Tasks, Tick(t) PROVE TimedInv'
    BY <1>1, <1>10 DEF Tick, TimedInv, QTypeOK, CallInv
  <1>11. CASE xQueueGenericSendFromISR
    BY <1>11 DEF xQueueGenericSendFromISR, TimedInv
  <1>12. CASE UNCHANGED qvars
    BY <1>12 DEF qvars, TimedInv
  <1>13. QED
    BY <1>4, <1>5, <1>6, <1>7, <1>8, <1>9, <1>10, <1>11, <1>12 DEF QNext, QStep

(* Where the i-th message is, without a division.                          *)
Spot(r, i) == IF r + i < Length THEN r + i ELSE r + i - Length

(* Both say the same.                                                      *)
LEMMA SpotIs ==
    ASSUME NEW r \in Slot, NEW i \in 0 .. Length
    PROVE  (r + i) % Length = Spot(r, i) /\ Spot(r, i) \in Slot
  <1>1. /\ Length \in Nat /\ Length >= 1 /\ r \in Int /\ 0 <= r /\ r < Length
        /\ i \in Int /\ 0 <= i /\ i <= Length
    BY QueueFacts DEF Slot
  <1> DEFINE x == r + i
             m == x \div Length
             y == x % Length
  <1>2. x \in Int /\ 0 <= x /\ x < Length + Length
    BY <1>1
  <1>3. m \in Int /\ y \in Int /\ x = Length * m + y /\ 0 <= y /\ y < Length
    BY <1>1, <1>2
  <1> HIDE DEF m, y
  <1>4. m = 0 \/ m = 1
    <2>1. m >= 0
      <3> SUFFICES ASSUME m <= -1 PROVE FALSE
        BY <1>3
      <3>1. Length * m <= - Length
        BY <1>1, <1>3
      <3>2. QED
        BY <1>1, <1>2, <1>3, <3>1
    <2>2. m <= 1
      <3> SUFFICES ASSUME m >= 2 PROVE FALSE
        BY <1>3
      <3>1. Length * m >= Length + Length
        BY <1>1, <1>3
      <3>2. QED
        BY <1>1, <1>2, <1>3, <3>1
    <2>3. QED
      BY <1>3, <2>1, <2>2
  <1>5. y = Spot(r, i)
    <2>1. CASE m = 0
      <3>1. Length * m = 0
        BY <1>1, <2>1
      <3>2. QED
        BY <1>1, <1>3, <3>1 DEF Spot
    <2>2. CASE m = 1
      <3>1. Length * m = Length
        BY <1>1, <2>2
      <3>2. QED
        BY <1>1, <1>3, <3>1 DEF Spot
    <2>3. QED
      BY <1>4, <2>1, <2>2
  <1>6. Spot(r, i) \in Slot
    BY <1>1, <1>3, <1>5 DEF Slot
  <1>7. (r + i) % Length = y
    BY DEF y
  <1>8. QED
    BY <1>5, <1>6, <1>7

(* A function on 1 .. n is a sequence.                                     *)
LEMMA FunIsSeq ==
    ASSUME NEW S, NEW n \in Nat, NEW f \in [1 .. n -> S]
    PROVE  f \in Seq(S) /\ Len(f) = n
  <1>1. QED
    OBVIOUS

(* The contents of a store, element by element.                            *)
Listed(c, r, n) == [i \in 1 .. n |-> c[(r + i) % Length]]

(* They are a sequence.                                                    *)
LEMMA ListedAre ==
    ASSUME NEW c \in [Slot -> Items], NEW r \in Slot, NEW n \in 0 .. Length
    PROVE  /\ Listed(c, r, n) \in Seq(Items) /\ Len(Listed(c, r, n)) = n
           /\ \A i \in 1 .. n : Listed(c, r, n)[i] = c[Spot(r, i)]
  <1>1. n \in Nat /\ n <= Length /\ Length \in Nat
    BY QueueFacts
  <1>2. ASSUME NEW i \in 1 .. n
        PROVE  (r + i) % Length = Spot(r, i) /\ Spot(r, i) \in Slot
    <2>1. i \in 0 .. Length
      BY <1>1
    <2>2. QED
      BY <1>1, <2>1, SpotIs
  <1>3. \A i \in 1 .. n : /\ Listed(c, r, n)[i] = c[Spot(r, i)]
                          /\ Listed(c, r, n)[i] \in Items
    BY <1>2 DEF Listed
  <1>4. Listed(c, r, n) \in [1 .. n -> Items]
    BY <1>3 DEF Listed
  <1>5. QED
    BY <1>1, <1>3, <1>4, FunIsSeq

(* So are those of the queue.                                              *)
LEMMA ContentsAre ==
    ASSUME QTypeOK
    PROVE  /\ Contents \in Seq(Items) /\ Len(Contents) = messages
           /\ \A i \in 1 .. messages : Contents[i] = cells[Spot(readFrom, i)]
  <1>1. Contents = Listed(cells, readFrom, messages)
    BY DEF Contents, Listed
  <1>2. cells \in [Slot -> Items] /\ readFrom \in Slot /\ messages \in 0 .. Length
    BY DEF QTypeOK
  <1>3. QED
    BY <1>1, <1>2, ListedAre

(* And after a step.                                                       *)
LEMMA ContentsNext ==
    ASSUME QTypeOK'
    PROVE  /\ Contents' \in Seq(Items) /\ Len(Contents') = messages'
           /\ \A i \in 1 .. messages' : Contents'[i] = cells'[Spot(readFrom', i)]
  <1>1. Contents' = Listed(cells', readFrom', messages')
    BY DEF Contents, Listed
  <1>2. cells' \in [Slot -> Items] /\ readFrom' \in Slot /\ messages' \in 0 .. Length
    BY DEF QTypeOK
  <1>3. QED
    BY <1>1, <1>2, ListedAre

(* A step that leaves the messages where they are.                         *)
LEMMA SameContents ==
    ASSUME cells' = cells, readFrom' = readFrom, messages' = messages
    PROVE  Contents' = Contents
  <1>1. QED
    BY DEF Contents

(* A message that goes in is put as the specification puts it.             *)
LEMMA PutContents ==
    ASSUME QTypeOK, WrapInv, QTypeOK', NEW c \in CallType, c.op # "recv", messages < Length,
           prvCopyDataToQueue(c)
    PROVE  Contents' = Fifo!Put(Contents, c)
  <1>1. /\ Length \in Nat /\ Length >= 1 /\ messages \in Nat /\ messages < Length
        /\ writeTo \in 0 .. Length - 1 /\ readFrom \in 0 .. Length - 1
        /\ cells \in [Slot -> Items] /\ c.item \in Items
        /\ writeTo \in Slot /\ readFrom \in Slot
    BY QueueFacts DEF QTypeOK, Slot, CallType
  <1>2. messages' = messages + 1
    BY DEF prvCopyDataToQueue
  <1>3. /\ Contents \in Seq(Items) /\ Len(Contents) = messages
        /\ \A i \in 1 .. messages : Contents[i] = cells[Spot(readFrom, i)]
    BY ContentsAre
  <1>4. /\ Contents' \in Seq(Items) /\ Len(Contents') = messages + 1
        /\ \A i \in 1 .. messages + 1 : Contents'[i] = cells'[Spot(readFrom', i)]
    <2>1. /\ Contents' \in Seq(Items) /\ Len(Contents') = messages'
          /\ \A i \in 1 .. messages' : Contents'[i] = cells'[Spot(readFrom', i)]
      BY ContentsNext
    <2>2. QED
      BY <1>2, <2>1
  <1>5. CASE c.op = "front"
    <2>1. /\ cells' = [cells EXCEPT ![readFrom] = c.item]
          /\ readFrom' = IF readFrom - 1 < 0 THEN Length - 1 ELSE readFrom - 1
      BY <1>5 DEF prvCopyDataToQueue
    <2>2. PICK p : p = <<c.item>> \o Contents
      OBVIOUS
    <2>3. /\ p \in Seq(Items) /\ Len(p) = messages + 1
          /\ \A i \in 1 .. messages + 1 : p[i] = IF i <= 1 THEN c.item ELSE Contents[i - 1]
      <3>1. <<c.item>> \in Seq(Items) /\ Len(<<c.item>>) = 1 /\ <<c.item>>[1] = c.item
        BY <1>1
      <3>2. /\ p \in Seq(Items) /\ Len(p) = 1 + messages
            /\ \A i \in 1 .. 1 + messages : p[i] =
                 IF i <= 1 THEN <<c.item>>[i] ELSE Contents[i - 1]
        BY <1>3, <2>2, <3>1, ConcatProperties
      <3>3. \A i \in 1 .. messages + 1 : i <= 1 => i = 1
        BY <1>1
      <3>4. 1 + messages = messages + 1
        BY <1>1
      <3>5. QED
        BY <3>1, <3>2, <3>3, <3>4
    <2>4. ASSUME NEW i \in 1 .. messages + 1 PROVE Contents'[i] = p[i]
      <3>1. CASE i = 1
        <4>1. Spot(readFrom', 1) = readFrom
          BY <1>1, <2>1 DEF Spot
        <4>2. cells'[readFrom] = c.item
          BY <1>1, <2>1
        <4>3. QED
          BY <1>1, <1>4, <2>3, <3>1, <4>1, <4>2
      <3>2. CASE i # 1
        <4>1. i - 1 \in 1 .. messages /\ ~ (i <= 1) /\ i - 1 \in 0 .. Length
          BY <1>1, <3>2
        <4>2. /\ Spot(readFrom', i) = Spot(readFrom, i - 1)
              /\ Spot(readFrom, i - 1) # readFrom
          BY <1>1, <2>1, <4>1 DEF Spot
        <4>3. Spot(readFrom, i - 1) \in Slot
          BY <1>1, <4>1, SpotIs
        <4>4. cells'[Spot(readFrom, i - 1)] = cells[Spot(readFrom, i - 1)]
          BY <1>1, <2>1, <4>2, <4>3
        <4>5. QED
          BY <1>3, <1>4, <2>3, <4>1, <4>2, <4>4
      <3>3. QED
        BY <3>1, <3>2
    <2>5. Contents' = p
      BY <1>4, <2>3, <2>4, SeqEqual
    <2>6. QED
      BY <1>5, <2>2, <2>5 DEF Fifo!Put
  <1>6. CASE c.op # "front"
    <2>1. /\ cells' = [cells EXCEPT ![writeTo] = c.item] /\ readFrom' = readFrom
      BY <1>6 DEF prvCopyDataToQueue
    <2>2. PICK p : p = Append(Contents, c.item)
      OBVIOUS
    <2>3. /\ p \in Seq(Items) /\ Len(p) = messages + 1
          /\ \A i \in 1 .. messages : p[i] = Contents[i]
          /\ p[messages + 1] = c.item
      BY <1>1, <1>3, <2>2, AppendProperties
    <2>4. Spot(readFrom, messages + 1) = writeTo
      BY <1>1 DEF WrapInv, Spot
    <2>5. ASSUME NEW i \in 1 .. messages + 1 PROVE Contents'[i] = p[i]
      <3>1. CASE i = messages + 1
        BY <1>1, <1>4, <2>1, <2>3, <2>4, <3>1
      <3>2. CASE i # messages + 1
        <4>1. i \in 1 .. messages /\ i \in 0 .. Length
          BY <1>1, <3>2
        <4>2. Spot(readFrom, i) # writeTo
          BY <1>1, <2>4, <4>1 DEF Spot
        <4>3. Spot(readFrom, i) \in Slot
          BY <1>1, <4>1, SpotIs
        <4>4. QED
          BY <1>1, <1>3, <1>4, <2>1, <2>3, <4>1, <4>2, <4>3
      <3>3. QED
        BY <3>1, <3>2
    <2>6. Contents' = p
      BY <1>4, <2>3, <2>5, SeqEqual
    <2>7. QED
      BY <1>6, <2>2, <2>6 DEF Fifo!Put
  <1>7. QED
    BY <1>5, <1>6

(* A message that goes out is the first.                                   *)
LEMMA TailContents ==
    ASSUME QTypeOK, QTypeOK', messages # 0, prvCopyDataFromQueue
    PROVE  Contents # <<>> /\ Contents' = Tail(Contents)
  <1>1. /\ Length \in Nat /\ Length >= 1 /\ messages \in Nat /\ messages <= Length
        /\ readFrom \in 0 .. Length - 1 /\ readFrom \in Slot
    BY QueueFacts DEF QTypeOK, Slot
  <1>2. /\ messages' = messages - 1 /\ cells' = cells
        /\ readFrom' = IF readFrom + 1 >= Length THEN 0 ELSE readFrom + 1
    BY DEF prvCopyDataFromQueue
  <1>3. /\ Contents \in Seq(Items) /\ Len(Contents) = messages
        /\ \A i \in 1 .. messages : Contents[i] = cells[Spot(readFrom, i)]
    BY ContentsAre
  <1>4. /\ Contents' \in Seq(Items) /\ Len(Contents') = messages - 1
        /\ \A i \in 1 .. messages - 1 : Contents'[i] = cells[Spot(readFrom', i)]
    <2>1. /\ Contents' \in Seq(Items) /\ Len(Contents') = messages'
          /\ \A i \in 1 .. messages' : Contents'[i] = cells'[Spot(readFrom', i)]
      BY ContentsNext
    <2>2. QED
      BY <1>2, <2>1
  <1>5. Contents # <<>>
    BY <1>1, <1>3, EmptySeq
  <1>6. /\ Tail(Contents) \in Seq(Items) /\ Len(Tail(Contents)) = messages - 1
        /\ \A i \in 1 .. messages - 1 : Tail(Contents)[i] = Contents[i + 1]
    BY <1>3, <1>5, HeadTailProperties
  <1>7. ASSUME NEW i \in 1 .. messages - 1 PROVE Contents'[i] = Tail(Contents)[i]
    <2>1. i + 1 \in 1 .. messages
      BY <1>1
    <2>2. Spot(readFrom', i) = Spot(readFrom, i + 1)
      BY <1>1, <1>2 DEF Spot
    <2>3. QED
      BY <1>3, <1>4, <1>6, <2>1, <2>2
  <1>8. QED
    BY <1>4, <1>5, <1>6, <1>7, SeqEqual

(* Every step of a call, and the interrupt, is a step of the first in      *)
(* first out store, or none.                                               *)
LEMMA QueueSteps ==
    ASSUME QueueInv, TimedInv, QueueInv', [QNext]_qvars
    PROVE  [Fifo!Next]_<<Contents, call>>
  <1> USE QueueFacts
  <1>1. QTypeOK /\ CallInv /\ PlaceInv /\ WrapInv /\ QTypeOK'
    BY DEF QueueInv, CtrlInv
  <1>2. Len(Contents) = messages /\ messages \in Nat /\ messages <= Length
    BY <1>1, ContentsAre DEF QTypeOK
  <1>3. messages = 0 => Contents = <<>>
    BY <1>1, <1>2, ContentsAre, EmptySeq
  <1>4. ASSUME NEW t \in Tasks, QCall(t) PROVE Fifo!Call(t)
    <2>1. Contents' = Contents
      BY <1>4, SameContents DEF QCall, store
    <2>2. call[t] = Idle
      BY <1>1, <1>4 DEF QCall, CallInv
    <2>3. QED
      BY <1>4, <2>1, <2>2 DEF QCall, Fifo!Call
  <1>5. ASSUME NEW t \in Tasks, TrySend(t) PROVE Fifo!Send(t)
    <2>1. /\ pc[t] = "try" /\ Sends(t) /\ messages # Length /\ prvCopyDataToQueue(call[t])
          /\ call' = [call EXCEPT ![t] = Idle]
      BY <1>5 DEF TrySend, At, Refused, Leave
    <2>2. call[t] # Idle /\ call[t] \in CallType /\ call[t].op # "recv" /\ messages < Length
      BY <1>1, <1>2, <2>1 DEF CallInv, QTypeOK, Sends
    <2>3. Contents' = Fifo!Put(Contents, call[t])
      BY <1>1, <2>1, <2>2, PutContents
    <2>4. QED
      BY <1>2, <2>1, <2>2, <2>3 DEF Fifo!Send, Fifo!Return
  <1>6. ASSUME NEW t \in Tasks, TryReceive(t) PROVE Fifo!Receive(t)
    <2>1. /\ pc[t] = "try" /\ ~ Sends(t) /\ messages # 0 /\ prvCopyDataFromQueue
          /\ call' = [call EXCEPT ![t] = Idle]
      BY <1>6 DEF TryReceive, At, Refused, Leave
    <2>2. call[t] # Idle /\ call[t].op = "recv"
      BY <1>1, <2>1 DEF CallInv, Sends
    <2>3. Contents # <<>> /\ Contents' = Tail(Contents)
      BY <1>1, <2>1, TailContents
    <2>4. QED
      BY <2>1, <2>2, <2>3 DEF Fifo!Receive, Fifo!Return
  <1>7. ASSUME NEW t \in Tasks, TryPoll(t) PROVE Fifo!GiveUp(t)
    <2>1. /\ pc[t] = "try" /\ call[t].wait = "poll" /\ call' = [call EXCEPT ![t] = Idle]
          /\ call[t].op = "recv" => messages = 0
          /\ call[t].op # "recv" => messages = Length
      BY <1>7 DEF TryPoll, At, Refused, Leave, Sends
    <2>2. Contents' = Contents
      BY <1>7, SameContents DEF TryPoll, store
    <2>3. call[t] # Idle
      BY <1>1, <2>1 DEF CallInv
    <2>4. QED
      BY <1>2, <1>3, <2>1, <2>2, <2>3 DEF Fifo!GiveUp, Fifo!Return
  <1>8. ASSUME NEW t \in Tasks, NEW W, Leave(t), call[t].wait = "timed", pc[t] # "idle",
               call[t].op = "recv" => messages = 0, UNCHANGED store
        PROVE  Fifo!GiveUp(t)
    <2>1. Contents' = Contents
      BY <1>8, SameContents DEF store
    <2>2. call[t] # Idle
      BY <1>1, <1>8 DEF CallInv
    <2>3. QED
      BY <1>3, <1>8, <2>1, <2>2 DEF Fifo!GiveUp, Fifo!Return, Leave
  <1>9. ASSUME NEW t \in Tasks, Retest(t)
        PROVE  Fifo!GiveUp(t) \/ UNCHANGED <<Contents, call>>
    <2>1. CASE messages = 0 /\ Leave(t)
      BY <1>8, <1>9, <2>1 DEF Retest, At, TimedInv
    <2>2. CASE Goto(t, "try")
      BY <1>9, <2>2, SameContents DEF Retest, Goto, store
    <2>3. QED
      BY <1>9, <2>1, <2>2 DEF Retest
  <1>10. ASSUME NEW t \in Tasks, xTaskResumeAll(t)
         PROVE  Fifo!GiveUp(t) \/ UNCHANGED <<Contents, call>>
    <2>1. CASE timer[t] = "over" /\ Sends(t) /\ Leave(t)
      BY <1>8, <1>10, <2>1 DEF xTaskResumeAll, At, TimedInv, Sends
    <2>2. CASE Goto(t, "try") \/ Goto(t, "retest")
      BY <1>10, <2>2, SameContents DEF xTaskResumeAll, Goto, store
    <2>3. QED
      BY <1>10, <2>1, <2>2 DEF xTaskResumeAll
  <1>11. ASSUME NEW t \in Tasks,
                \/ TryWait(t) \/ vTaskSuspendAll(t) \/ prvLockQueue(t) \/ CheckBlock(t)
                \/ CheckAgain(t) \/ vTaskPlaceOnEventList(t) \/ prvUnlockQueue(t) \/ Tick(t)
         PROVE  UNCHANGED <<Contents, call>>
    <2>1. UNCHANGED store /\ call' = call
      BY <1>11 DEF TryWait, vTaskSuspendAll, prvLockQueue, CheckBlock, CheckAgain,
                   vTaskPlaceOnEventList, prvUnlockQueue, Tick, Goto
    <2>2. QED
      BY <2>1, SameContents DEF store
  <1>12. ASSUME xQueueGenericSendFromISR PROVE Fifo!Interrupt
    <2>1. PICK c \in IsrSends : messages < Length /\ prvCopyDataToQueue(c) /\ call' = call
      BY <1>12 DEF xQueueGenericSendFromISR
    <2>2. Contents' = Fifo!Put(Contents, c)
      BY <1>1, <2>1, PutContents
    <2>3. QED
      BY <1>2, <2>1, <2>2 DEF Fifo!Interrupt
  <1>13. ASSUME UNCHANGED qvars PROVE UNCHANGED <<Contents, call>>
    BY <1>13, SameContents DEF qvars, store
  <1>14. QED
    BY <1>4, <1>5, <1>6, <1>7, <1>9, <1>10, <1>11, <1>12, <1>13 DEF QNext, QStep, Fifo!Next

(* The queue, with its locks, lists and time-outs, is for its callers the  *)
(* bounded first in first out store of OsFifo, whatever the interleaving.  *)
THEOREM QueueImplementsFifo == QSpec => ImplementsFifo
  <1>1. QInit => Fifo!Init
    <2> SUFFICES ASSUME QInit PROVE Fifo!Init
      OBVIOUS
    <2>1. QTypeOK /\ messages = 0
      BY QueueBegins DEF QInit, QueueInv
    <2>2. Contents = <<>>
      BY <2>1, ContentsAre, EmptySeq
    <2>3. QED
      BY <2>2 DEF Fifo!Init, QInit
  <1>2. QInit => TimedInv
    BY DEF QInit, TimedInv
  <1>3. QueueInv /\ TimedInv /\ [QNext]_qvars => TimedInv'
    BY TimedKeeps
  <1>4. QueueInv /\ TimedInv /\ QueueInv' /\ [QNext]_qvars => [Fifo!Next]_<<Contents, call>>
    BY QueueSteps
  <1>5. QED
    BY <1>1, <1>2, <1>3, <1>4, QueueHolds, PTL DEF QSpec, ImplementsFifo, Fifo!Spec
=============================================================================
